---------------------------- MODULE PublishProps ----------------------------
(***************************************************************************)
(* The properties of the publish path, and its abstract specification.     *)
(***************************************************************************)
EXTENDS Publish

-----------------------------------------------------------------------------
(* The run and version tables tell the same story.                         *)

\* A run of publish_runs and the version it is linked to were moved together
\* (TransitionPublish) or in an order that never leaves the run ahead of its
\* version: an EFFECTIVE run's version is or was effective, a TIMEOUT run's
\* is timed out, a CONFIRMING run's is confirming, and no version is
\* effective or timed out without such a run.
LedgersAgree ==
    /\ \A r \in RunIds :
         LET v == IF runSeq[r] = 0 THEN "none" ELSE verState[runSeq[r]] IN
         /\ runState[r] = "EFFECTIVE"  => v \in {"effective", "superseded"}
         /\ runState[r] = "TIMEOUT"    => v = "timeout"
         /\ runState[r] = "CONFIRMING" => v = "confirming"
    /\ \A s \in Seqs :
         /\ verState[s] \in {"effective", "superseded"} =>
              \E r \in RunIds : runSeq[r] = s /\ runState[r] = "EFFECTIVE"
         /\ verState[s] = "timeout" =>
              \E r \in RunIds : runSeq[r] = s /\ runState[r] = "TIMEOUT"

\* TransitionPublish's promise: the database never shows two effective
\* versions.
OneEffective ==
    \A s, t \in Seqs : verState[s] = "effective" /\ verState[t] = "effective"
                         => s = t

\* The promise of one_active_publish, kept across Recheck and restarts too.
OneActiveRun == \A r, q \in ActiveRuns : r = q

\* A version that any reader can see has its snapshot on disk, so it can be
\* shown, compared and rolled back to (Snapshot precedes InsertVersion).
VersionsHaveSource ==
    \A s \in Seqs : verState[s] \notin {"none", "RESERVED"} =>
                      snap[s] # NoContent /\ verIR[s] # NoIR

\* A version recorded as a rollback of k holds the source of k, although
\* the draft it went through can be edited: both mutexes are held.
RollbackReproduces ==
    \A s \in Seqs : verState[s] \notin {"none", "RESERVED"} /\ verRollback[s] # 0
                      => snap[s] = snap[verRollback[s]]

\* What M-STATE waits for, and every verdict it has sent, is about the run
\* that is CONFIRMING now: handleConfirmEvent, which finds its run by
\* IR.Version only, cannot confirm or time out another publish of the same
\* content, and no verdict is ever ignored.
VerdictsAreCurrent ==
    LET waiting(ir) == \E r \in RunIds :
            runState[r] = "CONFIRMING" /\ verIR[runSeq[r]] = ir
    IN /\ expected # NoIR => waiting(expected)
       /\ \A i \in 1..Len(events) : waiting(events[i].expected)

\* The non-blocking send of a verdict never meets a full channel.
NoVerdictDropped ==
    Len(events) + (IF expected # NoIR THEN 1 ELSE 0) <= 1

\* Finished runs stay finished, except that Recheck reopens a timed-out one;
\* an effective version only ever becomes superseded and a superseded or
\* failed one never changes again.
TerminalIsFinal ==
    [][/\ \A r \in RunIds :
            runState[r] \in {"EFFECTIVE", "VALIDATE_FAILED", "PUBLISH_FAILED"}
              => runState'[r] = runState[r] /\ runSeq'[r] = runSeq[r]
       /\ \A s \in Seqs :
            /\ verState[s] \in {"superseded", "failed"}
                 => verState'[s] = verState[s]
            /\ verState[s] = "effective"
                 => verState'[s] \in {"effective", "superseded"}]_vars

\* A published version is immutable: neither its source nor the output it
\* names is ever rewritten.
VersionsImmutable ==
    [][\A s \in Seqs :
         /\ snap[s] # NoContent => snap'[s] = snap[s]
         /\ verIR[s] # NoIR => verIR'[s] = verIR[s]]_vars

-----------------------------------------------------------------------------
(* The inductive invariant behind the safety properties above.             *)

Visible(s) == verState[s] \notin {"none", "RESERVED"}

\* What a run's state says of the version it is linked to.  PUBLISHING and
\* PUBLISH_FAILED runs can be left behind at every point of a publish.
RunOK(r) ==
    /\ runState[r] \in {"none", "VALIDATING", "VALIDATED", "VALIDATE_FAILED"}
         => runSeq[r] = 0
    /\ runState[r] \in {"PUBLISHING", "CONFIRMING", "EFFECTIVE", "TIMEOUT"}
         => runSeq[r] # 0
    /\ runSeq[r] # 0 =>
         LET v == verState[runSeq[r]] IN
         /\ runState[r] = "PUBLISHING" =>
              v \in {"RESERVED", "publishing", "failed", "confirming"}
         /\ runState[r] = "PUBLISH_FAILED" =>
              v \in {"RESERVED", "publishing", "failed"}
         /\ runState[r] = "CONFIRMING" => v = "confirming"
         /\ runState[r] = "EFFECTIVE" => v \in {"effective", "superseded"}
         /\ runState[r] = "TIMEOUT" => v = "timeout"

\* What a version's state says of its snapshot, its output and its run.
VersionOK(s) ==
    /\ verState[s] = "none" =>
         snap[s] = NoContent /\ \A r \in RunIds : runSeq[r] # s
    /\ Visible(s) => snap[s] # NoContent /\ verIR[s] # NoIR
    /\ verState[s] \in {"effective", "superseded"} =>
         \E r \in RunIds : runSeq[r] = s /\ runState[r] = "EFFECTIVE"
    /\ verState[s] = "timeout" =>
         \E r \in RunIds : runSeq[r] = s /\ runState[r] = "TIMEOUT"

\* Two runs never share a version.
RunsOwnVersions ==
    \A r, q \in RunIds : runSeq[r] = runSeq[q] /\ runSeq[r] # 0 => r = q

Tables ==
    /\ \A r \in RunIds : RunOK(r)
    /\ \A s \in Seqs : VersionOK(s)
    /\ RunsOwnVersions
    /\ OneActiveRun
    /\ OneEffective

\* The steps of a call by what they know: the content it read, that it
\* compiles, its run, its version.
ReadSteps == {"create", "validate", "reserve", "publishing", "snapshot",
              "record", "apply", "markfailed", "confirming", "await"}
SeqSteps  == {"snapshot", "record", "apply", "markfailed", "confirming",
              "await", "expect"}
RunSteps  == SeqSteps \cup {"validate", "reserve", "publishing", "fail"}

\* The run of the call that holds the mutex is the active one, and its row
\* and its version's row are exactly what the step has made them.
Stage ==
    /\ pc = "restore" => /\ pub.rollbackOf \in Seqs
                         /\ snap[pub.rollbackOf] \in Contents
    /\ pc = "install" => pub.rollbackOf \in Seqs /\ editing \in Contents
    /\ pc \in ReadSteps => pub.content \in Contents
    /\ pc \in ReadSteps \ {"create", "validate"} => Compiles(pub.content)
    /\ pc \in RunSteps => pub.run \in RunIds
    /\ pc = "validate" => runState[pub.run] = "VALIDATING"
    /\ pc \in {"reserve", "publishing"} => runState[pub.run] = "VALIDATED"
    /\ pc \in SeqSteps \ {"expect"} => runState[pub.run] = "PUBLISHING"
    /\ pc = "expect" => /\ runState[pub.run] = "CONFIRMING"
                        /\ expected = NoIR /\ events = <<>>
    /\ pc \in SeqSteps => pub.seq \in Seqs /\ runSeq[pub.run] = pub.seq
    /\ pc = "publishing" => /\ pub.seq \in Seqs
                            /\ \A r \in RunIds : runSeq[r] # pub.seq
                            /\ snap[pub.seq] = NoContent
    /\ pc \in {"publishing", "snapshot", "record"} =>
         verState[pub.seq] = "RESERVED"
    /\ pc = "record" => snap[pub.seq] # NoContent
    /\ pc \in {"apply", "markfailed", "confirming"} =>
         verState[pub.seq] = "publishing"
    /\ pc \in {"await", "expect"} => verState[pub.seq] = "confirming"
    /\ pc \in SeqSteps \ {"snapshot", "record"} => snap[pub.seq] # NoContent
    /\ pc = "fail" =>
         \/ pub.to = "VALIDATE_FAILED" /\ runState[pub.run] = "VALIDATING"
         \/ pub.to = "PUBLISH_FAILED" /\ runState[pub.run] = "VALIDATED"
         \/ /\ pub.to = "PUBLISH_FAILED" /\ runState[pub.run] = "PUBLISHING"
            /\ verState[runSeq[pub.run]] # "confirming"

Verdicts ==
    /\ VerdictsAreCurrent
    /\ NoVerdictDropped

Inv == TypeOK /\ Tables /\ Stage /\ Verdicts

-----------------------------------------------------------------------------
(* The abstract specification.                                             *)

PhaseOf(state) ==
    CASE state = "none" -> "none"
      [] state \in ActiveStates -> "active"
      [] state = "EFFECTIVE" -> "effective"
      [] state = "TIMEOUT" -> "timeout"
      [] OTHER -> "failed"

LiveRuns == {r \in RunIds : runSeq[r] # 0 /\ verState[runSeq[r]] = "effective"}

Ledger == INSTANCE ReleaseLedger WITH
            Attempts <- RunIds,
            phase <- [r \in RunIds |-> PhaseOf(runState[r])],
            live <- LiveRuns

\* The publish path, with its two tables, crashes, lost clients and disk
\* errors, implements the life of a publish that the design document draws.
ImplementsLedger == Ledger!LedgerSpec

-----------------------------------------------------------------------------
(* Liveness.                                                               *)

\* A run that waits for Envoy is decided, by an observation or by the
\* timeout, and stops blocking the next publish.
ConfirmationResolves ==
    \A r \in RunIds : runState[r] = "CONFIRMING" ~> runState[r] # "CONFIRMING"

-----------------------------------------------------------------------------
(* What the repository says and the code does not do.                      *)

\* A publish never blocks the next one for good: a run in a non-terminal
\* state leaves it.
ActiveRunsTerminate ==
    \A r \in RunIds :
        runState[r] \in ActiveStates ~> runState[r] \notin ActiveStates

\* The snapshot of a version compiles to the output the version names.
SnapshotMatchesIR ==
    \A s \in Seqs : verState[s] \notin {"none", "RESERVED"} =>
        CompileOf[snap[s]] = verIR[s]

\* An output of which Envoy refuses a part (NACK) never becomes effective.
RejectedNeverEffective ==
    \A s \in Seqs : verState[s] = "effective" =>
        \A t \in Types : <<t, verIR[s]>> \notin Rejected
=============================================================================
