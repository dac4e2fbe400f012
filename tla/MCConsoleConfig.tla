-------------------------- MODULE MCConsoleConfig --------------------------
\* ConsoleConfig for TLC.  "a" is a good text, "c" loads but does not compile,
\* "x" does not load.
EXTENDS ConsoleConfig

MCLoads(d) == \A p \in DOMAIN d : d[p] # "x"

MCCompiles(d) == \A p \in DOMAIN d : d[p] = "a"

MCFirstDraft == [p \in Paths |-> "a"]

\* Others write one file with "a", or break the second one.
MCDiskDrafts == {[p \in {1} |-> "a"], [p \in {1, 2} |-> IF p = 2 THEN "x" ELSE "a"]}
=============================================================================
