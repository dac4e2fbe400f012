------------------------------- MODULE Store -------------------------------
(***************************************************************************)
(* M-STORE: the two SQLite tables behind a publish, internal/store.        *)
(*                                                                         *)
(* A table is a function from its primary key; "none" in the state column  *)
(* means that there is no such row.  Rows of both tables are never         *)
(* deleted.  The store has one connection, so each operator below is one   *)
(* atomic statement or transaction; the caller decides when it fails.      *)
(***************************************************************************)
EXTENDS Naturals, Outputs

CONSTANTS
    MaxRuns,    \* bound on publish_runs rows
    MaxSeq      \* bound on versions rows

ASSUME StoreAssumption ==
    /\ MaxRuns \in Nat \ {0}
    /\ MaxSeq \in Nat /\ MaxSeq >= MaxRuns

RunIds == 1..MaxRuns
Seqs   == 1..MaxSeq

\* The states counted by the partial unique index one_active_publish.
ActiveStates == {"VALIDATING", "VALIDATED", "PUBLISHING", "CONFIRMING"}

RunStates == ActiveStates \cup
    {"none", "EFFECTIVE", "TIMEOUT", "VALIDATE_FAILED", "PUBLISH_FAILED"}

VerStates == {"none", "RESERVED", "publishing", "confirming", "failed",
              "timeout", "effective", "superseded"}

VARIABLES
    runState,       \* publish_runs.state
    runSeq,         \* publish_runs.version_seq, 0 for NULL
    verState,       \* versions.state
    verIR,          \* versions.ir_version
    verRollback     \* versions.rollback_of, 0 for an ordinary publish

runVars   == <<runState, runSeq>>
verVars   == <<verState, verIR, verRollback>>
storeVars == <<runVars, verVars>>

StoreTypeOK ==
    /\ runState \in [RunIds -> RunStates]
    /\ runSeq \in [RunIds -> 0..MaxSeq]
    /\ verState \in [Seqs -> VerStates]
    /\ verIR \in [Seqs -> IRs \cup {NoIR}]
    /\ verRollback \in [Seqs -> 0..MaxSeq]

StoreInit ==
    /\ runState = [r \in RunIds |-> "none"]
    /\ runSeq = [r \in RunIds |-> 0]
    /\ verState = [s \in Seqs |-> "none"]
    /\ verIR = [s \in Seqs |-> NoIR]
    /\ verRollback = [s \in Seqs |-> 0]

-----------------------------------------------------------------------------
ActiveRuns == {r \in RunIds : runState[r] \in ActiveStates}

\* AUTOINCREMENT hands out ids in order and never reuses one.
IsNextRun(id) ==
    /\ id \in RunIds
    /\ \A r \in RunIds : runState[r] = "none" <=> r >= id

\* SELECT COALESCE(MAX(seq), 0) + 1 FROM versions.
IsNextSeq(seq) ==
    /\ seq \in Seqs
    /\ \A s \in Seqs : verState[s] = "none" <=> s >= seq

\* Faulty variant: the index leaves out validated runs.
PublishActiveWithoutValidated ==
    \E r \in RunIds : runState[r] \in ActiveStates \ {"VALIDATED"}

\* The INSERT fails on one_active_publish while any run is active.
PublishActive == ActiveRuns # {}

CreatePublishRun(id) ==
    /\ IsNextRun(id)
    /\ ~PublishActive
    /\ runState' = [runState EXCEPT ![id] = "VALIDATING"]
    /\ UNCHANGED runSeq

UpdatePublishRun(id, seq, state) ==
    /\ runState' = [runState EXCEPT ![id] = state]
    /\ runSeq' = [runSeq EXCEPT ![id] = seq]

\* Reserving a sequence number inserts its row in the same transaction.
NextVersionSeq(seq) ==
    /\ IsNextSeq(seq)
    /\ verState' = [verState EXCEPT ![seq] = "RESERVED"]
    /\ UNCHANGED <<verIR, verRollback>>

\* An upsert by seq: every column is overwritten.
InsertVersion(seq, ir, state, rollbackOf) ==
    /\ verState' = [verState EXCEPT ![seq] = state]
    /\ verIR' = [verIR EXCEPT ![seq] = ir]
    /\ verRollback' = [verRollback EXCEPT ![seq] = rollbackOf]

\* LatestVersion(ctx, "effective") of a store that holds a newest one.
LatestEffective(seq) ==
    /\ seq \in Seqs
    /\ verState[seq] = "effective"
    /\ \A s \in Seqs : verState[s] = "effective" => s <= seq

\* The transaction refuses an unlinked run and a reserved version, and the
\* index refuses a second active run.
Transitionable(run, seq, state) ==
    /\ runSeq[run] = seq
    /\ verState[seq] \notin {"none", "RESERVED"}
    /\ state \in ActiveStates => ActiveRuns \subseteq {run}

\* Faulty variants: the old effective version is not superseded; the version
\* row is not moved with the run.
TransitionWithoutSupersede(run, seq, rstate, vstate, supersede) ==
    /\ Transitionable(run, seq, rstate)
    /\ verState' = [verState EXCEPT ![seq] = vstate]
    /\ runState' = [runState EXCEPT ![run] = rstate]
    /\ UNCHANGED <<runSeq, verIR, verRollback>>

TransitionRunOnly(run, seq, rstate, vstate, supersede) ==
    /\ Transitionable(run, seq, rstate)
    /\ runState' = [runState EXCEPT ![run] = rstate]
    /\ UNCHANGED <<runSeq, verVars>>

TransitionPublish(run, seq, rstate, vstate, supersede) ==
    /\ Transitionable(run, seq, rstate)
    /\ verState' = [s \in Seqs |->
                      IF s = seq THEN vstate
                      ELSE IF supersede /\ verState[s] = "effective"
                           THEN "superseded" ELSE verState[s]]
    /\ runState' = [runState EXCEPT ![run] = rstate]
    /\ UNCHANGED <<runSeq, verIR, verRollback>>
=============================================================================
