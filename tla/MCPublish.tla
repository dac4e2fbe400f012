----------------------------- MODULE MCPublish -----------------------------
(***************************************************************************)
(* Small instances of the publish path for TLC.                            *)
(***************************************************************************)
EXTENDS PublishProps

\* No file, two good drafts, one that does not compile, and a directory with
\* both native.yaml and config.d files.
MCCompileOf == [c \in Contents |->
    CASE c = "empty" -> "ir0" [] c = "a" -> "irA" [] c = "b" -> "irB"
      [] c \in {"bad", "both"} -> "none"]

\* Envoy refuses the listeners of draft "a".
MCRejected == {<<"lds", "irA">>}
=============================================================================
