---------------------------- MODULE PublishProofs ----------------------------
(***************************************************************************)
(* Proofs about the publish path, for every set of contents and outputs,   *)
(* every bound and every choice of the failures that are enabled.          *)
(***************************************************************************)
EXTENDS PublishProps, TLAPS

\* The store is empty, the publisher idle and M-STATE waits for nothing.
LEMMA InitInv == Init => Inv
<1> SUFFICES ASSUME Init PROVE Inv
    OBVIOUS
<1>1. TypeOK
  <2>1. StoreTypeOK
      BY StoreAssumption
         DEF Init, StoreInit, StoreTypeOK, RunIds, Seqs, RunStates, VerStates
  <2>2. StateTypeOK
    <3>1. adminUp \in BOOLEAN /\ expired \in BOOLEAN /\ refreshing \in BOOLEAN
        BY Zenon DEF Init, StateInit
    <3>2. /\ envoy \in [Types -> IRs \cup {NoIR}]
          /\ expected \in IRs \cup {NoIR}
          /\ dump \in SUBSET IRs
        BY DEF Init, StateInit
    <3>3. events \in Seq(Event)
        BY DEF Init, StateInit
    <3> QED BY <3>1, <3>2, <3>3, Zenon DEF StateTypeOK
  <2>3. /\ draft \in Contents
        /\ served \in IRs \cup {NoIR}
        /\ editing \in Contents \cup {NoContent}
        /\ snap \in [Seqs -> Contents \cup {NoContent}]
      BY PublishAssumption DEF Init, Bootable, Compiles
  <2>4. up \in BOOLEAN /\ asked \in BOOLEAN /\ cancelled \in BOOLEAN
      BY Zenon DEF Init
  <2>5. pub \in [run : 0..MaxRuns, base : Bases, hash : Bases, content : Bases,
                seq : 0..MaxSeq, rollbackOf : 0..MaxSeq,
                to : {"none", "VALIDATE_FAILED", "PUBLISH_FAILED"}]
      BY PublishAssumption, StoreAssumption DEF Init, NoPub, Bases
  <2>6. pc \in Steps /\ faults \in 0..MaxFaults
      BY PublishAssumption DEF Init, Steps
  <2> QED BY <2>1, <2>2, <2>3, <2>4, <2>5, <2>6, Zenon DEF TypeOK, FileTypeOK,
         CallTypeOK
<1>2. Tables
    BY DEF Init, StoreInit, Tables, RunOK, VersionOK, Visible, RunsOwnVersions,
           OneActiveRun, OneEffective, ActiveRuns, ActiveStates, RunIds, Seqs
<1>3. Stage
    BY DEF Init, Stage, ReadSteps, SeqSteps, RunSteps
<1>4. Verdicts
    BY DEF Init, StateInit, Verdicts, VerdictsAreCurrent, NoVerdictDropped
<1> QED BY <1>1, <1>2, <1>3, <1>4 DEF Inv

\* Steps that leave the tables, the snapshots, the call and the verdicts
\* alone keep the invariant.
LEMMA QuietStep ==
    ASSUME Inv, TypeOK', UNCHANGED <<storeVars, snap, pc, pub, expected, events>>,
           pc = "install" => UNCHANGED editing
    PROVE  Inv'
<1> USE DEF storeVars, runVars, verVars
<1>1. Tables'
    BY DEF Inv, Tables, RunOK, VersionOK, Visible, RunsOwnVersions,
           OneActiveRun, OneEffective, ActiveRuns
<1>2. Stage'
    BY DEF Inv, Stage
<1>3. Verdicts'
    BY DEF Inv, Verdicts, VerdictsAreCurrent, NoVerdictDropped
<1> QED BY <1>1, <1>2, <1>3 DEF Inv

-----------------------------------------------------------------------------
(* Steps outside of a publish call.                                        *)

\* A draft edit touches the draft and the staged content only, and an edit
\* through the API waits for a rollback that is installing its files.
LEMMA EditInv == Inv /\ Edit => Inv'
<1> SUFFICES ASSUME Inv, Edit PROVE Inv'
    OBVIOUS
<1> USE DEF fileVars, callVars, envVars, stateVars, storeVars, runVars, verVars
<1>1. ASSUME NEW c \in Contents, WriteDraft(c) PROVE Inv'
  <2>1. TypeOK'
      BY <1>1 DEF Inv, TypeOK, StoreTypeOK, StateTypeOK, FileTypeOK, CallTypeOK,
                  WriteDraft
  <2> QED BY <1>1, <2>1, QuietStep DEF WriteDraft
<1>2. ASSUME NEW c \in Contents, ReplaceDraft(c) PROVE Inv'
  <2>1. TypeOK'
      BY <1>2, PublishAssumption
         DEF Inv, TypeOK, StoreTypeOK, StateTypeOK, FileTypeOK, CallTypeOK,
             ReplaceDraft
  <2>2. pc # "install"
      BY <1>2 DEF ReplaceDraft, ApiLocked, Inv, Stage, Seqs
  <2> QED BY <1>2, <2>1, <2>2, QuietStep DEF ReplaceDraft
<1>3. ASSUME NEW c \in Contents, ExternalEdit(c) PROVE Inv'
  <2>1. TypeOK'
      BY <1>3 DEF Inv, TypeOK, StoreTypeOK, StateTypeOK, FileTypeOK, CallTypeOK,
                  ExternalEdit
  <2> QED BY <1>3, <2>1, QuietStep DEF ExternalEdit
<1>4. ASSUME InstallDraft PROVE Inv'
  <2>1. TypeOK'
      BY <1>4 DEF Inv, TypeOK, StoreTypeOK, StateTypeOK, FileTypeOK, CallTypeOK,
                  InstallDraft
  <2>2. pc # "install"
      BY <1>4 DEF InstallDraft, Inv, Stage, Seqs
  <2> QED BY <1>4, <2>1, <2>2, QuietStep DEF InstallDraft
<1>5. ASSUME NEW s \in Seqs, NEW force \in BOOLEAN, RollbackSource(s, force)
      PROVE  Inv'
  <2>1. snap[s] \in Contents /\ ReplaceDraft(snap[s])
      BY <1>5, PublishAssumption DEF RollbackSource, Restorable
  <2> QED BY <2>1, <1>2
<1> QED BY <1>1, <1>2, <1>3, <1>4, <1>5 DEF Edit

\* M-STATE's own steps: a verdict takes the place of its expectation.
LEMMA StateInv ==
    Inv /\ (TimeoutPasses \/ RefreshRead \/ RefreshApply) => Inv'
<1> SUFFICES ASSUME Inv, TimeoutPasses \/ RefreshRead \/ RefreshApply
             PROVE  Inv'
    OBVIOUS
<1> USE DEF fileVars, callVars, envVars, stateVars, storeVars, runVars, verVars,
            StateStep
<1>1. ASSUME TimeoutPasses PROVE Inv'
  <2>1. StateTypeOK'
      BY <1>1, Zenon DEF TimeoutPasses, Deadline, Inv, TypeOK, StateTypeOK
  <2>2. TypeOK'
      BY <1>1, <2>1 DEF TimeoutPasses, Inv, TypeOK, StoreTypeOK, FileTypeOK,
                        CallTypeOK
  <2> QED BY <1>1, <2>2, QuietStep DEF TimeoutPasses, Deadline
<1>2. ASSUME RefreshRead PROVE Inv'
  <2>1. configDumpVersions \in SUBSET IRs
      BY DEF configDumpVersions, Inv, TypeOK, StateTypeOK
  <2>2. StateTypeOK'
      BY <1>2, <2>1, Zenon DEF RefreshRead, ReadDump, Inv, TypeOK, StateTypeOK
  <2>3. TypeOK'
      BY <1>2, <2>2 DEF RefreshRead, Inv, TypeOK, StoreTypeOK, FileTypeOK,
                        CallTypeOK
  <2> QED BY <1>2, <2>3, QuietStep DEF RefreshRead, ReadDump
<1>3. ASSUME RefreshApply PROVE Inv'
  <2> DEFINE e == [expected |-> expected, status |-> Verdict]
  <2>1. CASE expected # NoIR /\ Verdict # "IDLE"
    <3>1. events = <<>> /\ events' = <<e>>
      <4>1. Len(events) = 0
          BY <2>1 DEF Inv, Verdicts, NoVerdictDropped, TypeOK, StateTypeOK
      <4>2. events = <<>>
          BY <4>1 DEF Inv, TypeOK, StateTypeOK
      <4> QED BY <1>3, <2>1, <4>1, <4>2, StateAssumption
              DEF RefreshApply, FinishRefresh, Send
    <3>2. e \in Event
        BY <2>1 DEF Verdict, Event, Inv, TypeOK, StateTypeOK
    <3>3. expected' = NoIR
        BY <1>3, <2>1 DEF RefreshApply, FinishRefresh
    <3>4. TypeOK'
      <4>1. events' \in Seq(Event)
          BY <3>1, <3>2
      <4>2. StateTypeOK'
          BY <1>3, <2>1, <3>3, <4>1, Zenon
             DEF RefreshApply, FinishRefresh, Inv, TypeOK, StateTypeOK
      <4> QED BY <1>3, <4>2 DEF RefreshApply, Inv, TypeOK, StoreTypeOK,
                                FileTypeOK, CallTypeOK
    <3>5. Tables'
        BY <1>3 DEF RefreshApply, Inv, Tables, RunOK, VersionOK, Visible,
                    RunsOwnVersions, OneActiveRun, OneEffective, ActiveRuns
    <3>6. Stage'
        BY <1>3, <2>1 DEF RefreshApply, Inv, Stage
    <3>7. Verdicts'
        BY <1>3, <2>1, <3>1, <3>3
           DEF RefreshApply, Inv, Verdicts, VerdictsAreCurrent, NoVerdictDropped
    <3> QED BY <3>4, <3>5, <3>6, <3>7 DEF Inv
  <2>2. CASE ~(expected # NoIR /\ Verdict # "IDLE")
    <3>1. StateTypeOK'
        BY <1>3, <2>2, Zenon
           DEF RefreshApply, FinishRefresh, Inv, TypeOK, StateTypeOK
    <3>2. TypeOK'
        BY <1>3, <3>1 DEF RefreshApply, Inv, TypeOK, StoreTypeOK, FileTypeOK,
                          CallTypeOK
    <3> QED BY <1>3, <2>2, <3>2, QuietStep DEF RefreshApply, FinishRefresh
  <2> QED BY <2>1, <2>2
<1> QED BY <1>1, <1>2, <1>3

\* The tables and the snapshots survive every step that leaves them alone.
LEMMA TablesFrame ==
    Tables /\ UNCHANGED <<storeVars, snap>> => Tables'
BY DEF Tables, RunOK, VersionOK, Visible, RunsOwnVersions, OneActiveRun,
       OneEffective, ActiveRuns, storeVars, runVars, verVars

\* An idle publisher satisfies the stage invariant.
LEMMA StageIdle == pc' = "idle" => Stage'
BY DEF Stage, ReadSteps, SeqSteps, RunSteps

\* A crash forgets the expectation, the verdicts and the call; a start
\* delivers the draft; Envoy is free to change.
LEMMA EnvironmentInv == Inv /\ Environment => Inv'
<1> SUFFICES ASSUME Inv, Environment PROVE Inv'
    OBVIOUS
<1> USE DEF fileVars, callVars, envVars, stateVars, storeVars, runVars, verVars
<1>1. ASSUME Crash PROVE Inv'
  <2>1. StateTypeOK'
    <3>1. events' \in Seq(Event) /\ dump' \in SUBSET IRs
        BY <1>1 DEF Crash, LoseState
    <3> QED BY <1>1, <3>1, Zenon DEF Crash, LoseState, Inv, TypeOK, StateTypeOK
  <2>2. CallTypeOK'
    <3>1. pub' = NoPub /\ pc' = "idle" /\ cancelled' = FALSE
        BY <1>1 DEF Crash, Return
    <3>2. cancelled' \in BOOLEAN
        BY <3>1, Zenon
    <3> QED BY <3>1, <3>2, StoreAssumption, PublishAssumption
            DEF CallTypeOK, NoPub, Bases, Steps
  <2>3. up' \in BOOLEAN /\ asked' \in BOOLEAN
      BY <1>1, Zenon DEF Crash
  <2>4. TypeOK'
      BY <1>1, <2>1, <2>2, <2>3
         DEF Crash, Inv, TypeOK, StoreTypeOK, FileTypeOK
  <2>5. Verdicts'
      BY <1>1 DEF Crash, LoseState, Verdicts, VerdictsAreCurrent,
                  NoVerdictDropped
  <2> QED BY <1>1, <2>4, <2>5, TablesFrame, StageIdle DEF Crash, Return, Inv
<1>2. ASSUME Start PROVE Inv'
  <2>1. served' \in IRs \cup {NoIR}
      BY <1>2, PublishAssumption DEF Start, Inv, TypeOK, FileTypeOK
  <2>2. up' \in BOOLEAN
      BY <1>2, Zenon DEF Start
  <2>3. TypeOK'
      BY <1>2, <2>1, <2>2
         DEF Start, Inv, TypeOK, StoreTypeOK, StateTypeOK, FileTypeOK, CallTypeOK
  <2> QED BY <1>2, <2>3, QuietStep DEF Start
<1>3. ASSUME NEW t \in Types, EnvoyFetch(t) PROVE Inv'
  <2>1. TypeOK'
      BY <1>3 DEF EnvoyFetch, Inv, TypeOK, StoreTypeOK, StateTypeOK, FileTypeOK,
                  CallTypeOK
  <2> QED BY <1>3, <2>1, QuietStep DEF EnvoyFetch
<1>4. ASSUME EnvoyRestart PROVE Inv'
  <2>1. TypeOK'
      BY <1>4 DEF EnvoyRestart, Inv, TypeOK, StoreTypeOK, StateTypeOK,
                  FileTypeOK, CallTypeOK
  <2> QED BY <1>4, <2>1, QuietStep DEF EnvoyRestart
<1>5. ASSUME AdminFails \/ AdminRecovers PROVE Inv'
  <2>1. adminUp' \in BOOLEAN
      BY <1>5, Zenon DEF AdminFails, AdminRecovers
  <2>2. TypeOK'
      BY <1>5, <2>1 DEF AdminFails, AdminRecovers, Inv, TypeOK, StoreTypeOK,
                        StateTypeOK, FileTypeOK, CallTypeOK
  <2> QED BY <1>5, <2>2, QuietStep DEF AdminFails, AdminRecovers
<1> QED BY <1>1, <1>2, <1>3, <1>4, <1>5 DEF Environment

-----------------------------------------------------------------------------
(* The table operations.                                                   *)

\* While no run is confirming, M-STATE waits for nothing and no verdict is
\* under way.
LEMMA NoneConfirming ==
    ASSUME Inv, \A q \in RunIds : runState[q] # "CONFIRMING"
    PROVE  expected = NoIR /\ events = <<>>
<1>1. expected = NoIR
    BY DEF Inv, Verdicts, VerdictsAreCurrent
<1>2. \A i \in 1..Len(events) : FALSE
    BY DEF Inv, Verdicts, VerdictsAreCurrent
<1>3. events = <<>>
    BY <1>2 DEF Inv, TypeOK, StateTypeOK
<1> QED BY <1>1, <1>3

\* In particular while the only active run has not come that far.
LEMMA NothingExpected ==
    ASSUME Inv, NEW r \in RunIds, runState[r] \in ActiveStates \ {"CONFIRMING"}
    PROVE  expected = NoIR /\ events = <<>>
<1>1. \A q \in RunIds : runState[q] # "CONFIRMING"
    BY DEF Inv, Tables, OneActiveRun, ActiveRuns, ActiveStates
<1> QED BY <1>1, NoneConfirming

\* Verdicts hold trivially when nothing is expected.
LEMMA NoVerdicts == expected' = NoIR /\ events' = <<>> => Verdicts'
BY DEF Verdicts, VerdictsAreCurrent, NoVerdictDropped

\* A step that touches neither the tables nor M-STATE keeps the verdicts
\* current.
LEMMA VerdictsFrame ==
    Verdicts /\ UNCHANGED <<storeVars, expected, events>> => Verdicts'
BY DEF Verdicts, VerdictsAreCurrent, NoVerdictDropped, storeVars, runVars,
       verVars

\* Everything a call does not do by itself is typed if it is unchanged.
LEMMA TypeFrame ==
    ASSUME TypeOK, UNCHANGED <<stateVars, envVars, draft, editing, up, asked>>,
           StoreTypeOK', CallTypeOK', faults' \in 0..MaxFaults,
           snap' \in [Seqs -> Contents \cup {NoContent}],
           served' \in IRs \cup {NoIR}
    PROVE  TypeOK'
BY DEF TypeOK, FileTypeOK, StateTypeOK, stateVars, envVars

\* The two tables keep their types when they are left alone.
LEMMA StoreTypeFrame == StoreTypeOK /\ UNCHANGED storeVars => StoreTypeOK'
BY DEF StoreTypeOK, storeVars, runVars, verVars

\* A failing call stays within the bound on faults.
LEMMA OutcomeFaults ==
    ASSUME TypeOK, NEW ok, Outcome(ok) PROVE faults' \in 0..MaxFaults
BY PublishAssumption DEF Outcome, TypeOK

\* A call that returns leaves a typed, idle publisher.
LEMMA ReturnType == Return => CallTypeOK'
<1> SUFFICES ASSUME Return PROVE CallTypeOK'
    OBVIOUS
<1>1. cancelled' \in BOOLEAN
    BY Zenon DEF Return
<1> QED BY <1>1, StoreAssumption, PublishAssumption
        DEF Return, CallTypeOK, NoPub, Bases, Steps

\* A call that moves to its next step stays typed.
LEMMA GotoType ==
    ASSUME CallTypeOK, NEW step \in Steps, Goto(step) PROVE CallTypeOK'
BY DEF Goto, CallTypeOK

\* So does one that is about to run failRun.
LEMMA FailRunType ==
    ASSUME CallTypeOK, NEW to \in {"VALIDATE_FAILED", "PUBLISH_FAILED"},
           FailRun(to)
    PROVE  CallTypeOK'
BY DEF FailRun, CallTypeOK, Steps

-----------------------------------------------------------------------------
(* Calls and the steps that only read files.                               *)

\* Calls that wait for, take or leave Publisher.mu touch no table.
LEMMA CallInv ==
    ASSUME Inv,
           \/ RequestPublish \/ CancelRequest
           \/ \E b \in Bases : PublishWithBase(b)
           \/ \E s \in Seqs, force \in BOOLEAN : RollbackPublish(s, force)
    PROVE  Inv'
<1> USE DEF fileVars, callVars, envVars, stateVars, storeVars, runVars, verVars
<1>1. ASSUME RequestPublish \/ CancelRequest PROVE Inv'
  <2>1. asked' \in BOOLEAN /\ cancelled' \in BOOLEAN
      BY <1>1, Zenon DEF RequestPublish, CancelRequest, Inv, TypeOK, CallTypeOK
  <2>2. TypeOK'
      BY <1>1, <2>1 DEF RequestPublish, CancelRequest, Inv, TypeOK, StoreTypeOK,
                        StateTypeOK, FileTypeOK, CallTypeOK
  <2> QED BY <1>1, <2>2, QuietStep DEF RequestPublish, CancelRequest
<1>2. ASSUME NEW b \in Bases, PublishWithBase(b) PROVE Inv'
  <2>1. asked' \in BOOLEAN
      BY <1>2, Zenon DEF PublishWithBase
  <2>2. CallTypeOK'
      BY <1>2, StoreAssumption DEF PublishWithBase, Inv, TypeOK, CallTypeOK,
                                   NoPub, Bases, Steps
  <2>3. TypeOK'
      BY <1>2, <2>1, <2>2 DEF PublishWithBase, Inv, TypeOK, StoreTypeOK,
                              StateTypeOK, FileTypeOK
  <2>4. Stage'
      BY <1>2 DEF PublishWithBase, Stage, ReadSteps, SeqSteps, RunSteps
  <2> QED BY <1>2, <2>3, <2>4, TablesFrame, VerdictsFrame DEF PublishWithBase, Inv
<1>3. ASSUME NEW s \in Seqs, NEW force \in BOOLEAN, RollbackPublish(s, force)
      PROVE  Inv'
  <2>1. CallTypeOK'
      BY <1>3, StoreAssumption
         DEF RollbackPublish, Inv, TypeOK, CallTypeOK, NoPub, Bases, Steps, Seqs
  <2>2. TypeOK'
      BY <1>3, <2>1 DEF RollbackPublish, Inv, TypeOK, StoreTypeOK, StateTypeOK,
                        FileTypeOK
  <2>3. pc' = "restore" /\ pub'.rollbackOf = s /\ snap'[s] \in Contents
      BY <1>3, PublishAssumption DEF RollbackPublish, Restorable, NoPub
  <2>4. Stage'
      BY <2>3 DEF Stage, ReadSteps, SeqSteps, RunSteps
  <2> QED BY <1>3, <2>2, <2>4, TablesFrame, VerdictsFrame DEF RollbackPublish, Inv
<1> QED BY <1>1, <1>2, <1>3

\* A rollback rewrites the draft, and LoadDraft reads it twice.
LEMMA ReadStepInv ==
    ASSUME Inv,
           RestoreBackup \/ RestoreInstall \/ RestoreHash \/ LoadHash \/ LoadContent
    PROVE  Inv'
<1> USE DEF fileVars, callVars, envVars, stateVars, storeVars, runVars, verVars
<1>1. ASSUME RestoreBackup PROVE Inv'
  <2>1. snap[pub.rollbackOf] \in Contents /\ pub.rollbackOf \in Seqs
      BY <1>1 DEF RestoreBackup, At, Inv, Stage
  <2>2. TypeOK'
      BY <1>1, <2>1, PublishAssumption
         DEF RestoreBackup, Goto, Inv, TypeOK, StoreTypeOK, StateTypeOK,
             FileTypeOK, CallTypeOK, Steps
  <2>3. Stage'
      BY <1>1, <2>1 DEF RestoreBackup, Goto, Stage, ReadSteps, SeqSteps, RunSteps
  <2> QED BY <1>1, <2>2, <2>3, TablesFrame, VerdictsFrame DEF RestoreBackup, Inv
<1>2. ASSUME RestoreInstall PROVE Inv'
  <2>1. editing \in Contents
      BY <1>2 DEF RestoreInstall, At, Inv, Stage
  <2>2. TypeOK'
      BY <1>2, <2>1 DEF RestoreInstall, Goto, Inv, TypeOK, StoreTypeOK,
                        StateTypeOK, FileTypeOK, CallTypeOK, Steps
  <2>3. Stage'
      BY <1>2 DEF RestoreInstall, Goto, Stage, ReadSteps, SeqSteps, RunSteps
  <2> QED BY <1>2, <2>2, <2>3, TablesFrame, VerdictsFrame DEF RestoreInstall, Inv
<1>3. ASSUME RestoreHash PROVE Inv'
  <2>1. TypeOK'
    <3>1. draft \in Bases /\ "hash" \in Steps
        BY DEF Inv, TypeOK, FileTypeOK, Bases, Steps
    <3>2. CallTypeOK'
        BY <1>3, <3>1 DEF RestoreHash, Inv, TypeOK, CallTypeOK
    <3>3. StoreTypeOK' /\ faults' \in 0..MaxFaults /\ served' \in IRs \cup {NoIR}
        BY <1>3, StoreTypeFrame DEF RestoreHash, Inv, TypeOK
    <3>4. snap' \in [Seqs -> Contents \cup {NoContent}]
        BY <1>3 DEF RestoreHash, Inv, TypeOK, FileTypeOK
    <3> QED BY <1>3, <3>2, <3>3, <3>4, TypeFrame DEF RestoreHash, Inv
  <2>2. Stage'
      BY <1>3 DEF RestoreHash, Stage, ReadSteps, SeqSteps, RunSteps
  <2> QED BY <1>3, <2>1, <2>2, TablesFrame, VerdictsFrame DEF RestoreHash, Inv
<1>4. ASSUME LoadHash PROVE Inv'
  <2>1. CallTypeOK'
    <3>1. CASE draft \in Mixed
        BY <1>4, <3>1, ReturnType DEF LoadHash
    <3>2. CASE draft \notin Mixed
        BY <1>4, <3>2 DEF LoadHash, Inv, TypeOK, FileTypeOK, CallTypeOK, Steps,
                          Bases
    <3> QED BY <3>1, <3>2
  <2>2. TypeOK'
      BY <1>4, <2>1 DEF LoadHash, Inv, TypeOK, StoreTypeOK, StateTypeOK,
                        FileTypeOK
  <2>3. Stage'
      BY <1>4 DEF LoadHash, Return, Stage, ReadSteps, SeqSteps, RunSteps
  <2> QED BY <1>4, <2>2, <2>3, TablesFrame, VerdictsFrame DEF LoadHash, Inv
<1>5. ASSUME LoadContent PROVE Inv'
  <2>1. TypeOK'
    <3>1. draft \in Bases /\ "create" \in Steps
        BY DEF Inv, TypeOK, FileTypeOK, Bases, Steps
    <3>2. CallTypeOK'
        BY <1>5, <3>1 DEF LoadContent, Inv, TypeOK, CallTypeOK
    <3>3. StoreTypeOK' /\ faults' \in 0..MaxFaults /\ served' \in IRs \cup {NoIR}
        BY <1>5, StoreTypeFrame DEF LoadContent, Inv, TypeOK
    <3>4. snap' \in [Seqs -> Contents \cup {NoContent}]
        BY <1>5 DEF LoadContent, Inv, TypeOK, FileTypeOK
    <3> QED BY <1>5, <3>2, <3>3, <3>4, TypeFrame DEF LoadContent, Inv
  <2>2. pc' = "create" /\ pub'.content \in Contents
      BY <1>5 DEF LoadContent, Inv, TypeOK, FileTypeOK, CallTypeOK
  <2>3. Stage'
      BY <2>2 DEF Stage, ReadSteps, SeqSteps, RunSteps
  <2> QED BY <1>5, <2>1, <2>3, TablesFrame, VerdictsFrame DEF LoadContent, Inv
<1> QED BY <1>1, <1>2, <1>3, <1>4, <1>5
-----------------------------------------------------------------------------
(* The steps of a call that write to the store.                            *)

\* The run of a call in progress is the only active one.
LEMMA CallRun ==
    ASSUME Inv, pc \in RunSteps \ {"expect"}
    PROVE  /\ pub.run \in RunIds
           /\ runState[pub.run] \in {"VALIDATING", "VALIDATED", "PUBLISHING"}
           /\ \A q \in RunIds : runState[q] \in ActiveStates => q = pub.run
           /\ expected = NoIR /\ events = <<>>
<1>1. /\ pub.run \in RunIds
      /\ runState[pub.run] \in {"VALIDATING", "VALIDATED", "PUBLISHING"}
    BY DEF Inv, Stage, RunSteps, SeqSteps
<1>2. \A q \in RunIds : runState[q] \in ActiveStates => q = pub.run
    BY <1>1 DEF Inv, Tables, OneActiveRun, ActiveRuns, ActiveStates
<1> QED BY <1>1, <1>2, NothingExpected DEF ActiveStates

\* Moving an active run to a state that fits the version it is linked to.
LEMMA UpdateRunTables ==
    ASSUME Inv, NEW r \in RunIds, NEW seq \in 0..MaxSeq, NEW st \in RunStates,
           runState[r] \in ActiveStates,
           UpdatePublishRun(r, seq, st), UNCHANGED <<verVars, snap>>, RunOK(r)',
           \/ seq = runSeq[r]
           \/ /\ seq \in Seqs /\ verState[seq] # "none"
              /\ \A q \in RunIds : runSeq[q] # seq
    PROVE  Tables' /\ StoreTypeOK'
<1> USE DEF verVars, Inv, TypeOK, StoreTypeOK, UpdatePublishRun
<1>1. StoreTypeOK'
    OBVIOUS
<1>2. /\ runState'[r] = st /\ runSeq'[r] = seq
      /\ \A q \in RunIds \ {r} : runState'[q] = runState[q] /\ runSeq'[q] = runSeq[q]
    OBVIOUS
<1>3. \A q \in RunIds : RunOK(q)'
    BY <1>2 DEF Tables, RunOK
<1>4. \A s \in Seqs : VersionOK(s)'
  <2> SUFFICES ASSUME NEW s \in Seqs PROVE VersionOK(s)'
      OBVIOUS
  <2>1. VersionOK(s)
      BY DEF Tables
  <2>2. verState[s] = "none" => snap[s] = NoContent /\ \A q \in RunIds : runSeq'[q] # s
      BY <1>2, <2>1 DEF VersionOK, Seqs
  <2>3. ASSUME verState[s] \in {"effective", "superseded"}
        PROVE  \E q \in RunIds : runSeq'[q] = s /\ runState'[q] = "EFFECTIVE"
      BY <1>2, <2>1, <2>3 DEF VersionOK, ActiveStates
  <2>4. ASSUME verState[s] = "timeout"
        PROVE  \E q \in RunIds : runSeq'[q] = s /\ runState'[q] = "TIMEOUT"
      BY <1>2, <2>1, <2>4 DEF VersionOK, ActiveStates
  <2> QED BY <2>1, <2>2, <2>3, <2>4 DEF VersionOK, Visible
<1>5. RunsOwnVersions'
    BY <1>2 DEF Tables, RunsOwnVersions, Seqs
<1>6. OneActiveRun'
    BY <1>2 DEF Tables, OneActiveRun, ActiveRuns
<1>7. OneEffective'
    BY DEF Tables, OneEffective
<1> QED BY <1>1, <1>3, <1>4, <1>5, <1>6, <1>7 DEF Tables

\* Writing the row of the version of a run that is PUBLISHING.
LEMMA InsertTables ==
    ASSUME Inv, NEW r \in RunIds, NEW s \in Seqs, NEW ir \in IRs,
           NEW st \in {"publishing", "failed", "confirming"},
           NEW k \in 0..MaxSeq,
           runState[r] = "PUBLISHING", runSeq[r] = s, snap[s] # NoContent,
           InsertVersion(s, ir, st, k), UNCHANGED <<runVars, snap>>
    PROVE  Tables' /\ StoreTypeOK'
<1> USE DEF runVars, Inv, TypeOK, StoreTypeOK, InsertVersion
<1>1. StoreTypeOK'
    BY DEF VerStates
<1>2. /\ verState'[s] = st /\ verIR'[s] = ir
      /\ \A t \in Seqs \ {s} : verState'[t] = verState[t] /\ verIR'[t] = verIR[t]
    OBVIOUS
<1>3. \A q \in RunIds : RunOK(q)'
  <2> SUFFICES ASSUME NEW q \in RunIds PROVE RunOK(q)'
      OBVIOUS
  <2>1. RunOK(q) /\ (runSeq[q] = s => q = r)
      BY DEF Tables, RunsOwnVersions, Seqs
  <2>2. CASE q = r
      BY <1>2, <2>1, <2>2 DEF RunOK, Seqs
  <2>3. CASE q # r
    <3>1. runSeq[q] # 0 => runSeq[q] \in Seqs \ {s}
        BY <2>1, <2>3 DEF Seqs
    <3> QED BY <1>2, <2>1, <3>1 DEF RunOK
  <2> QED BY <2>2, <2>3
<1>4. \A t \in Seqs : VersionOK(t)'
    BY <1>2, IRAssumption DEF Tables, VersionOK, Visible
<1>5. RunsOwnVersions' /\ OneActiveRun'
    BY DEF Tables, RunsOwnVersions, OneActiveRun, ActiveRuns
<1>6. OneEffective'
    BY <1>2 DEF Tables, OneEffective
<1> QED BY <1>1, <1>3, <1>4, <1>5, <1>6 DEF Tables

\* CreatePublishRun: the unique index admits the run only when no other is
\* active.
LEMMA CreateRunInv ==
    ASSUME Inv, NEW ok \in BOOLEAN, CreateRun(ok) PROVE Inv'
<1> USE DEF fileVars, callVars, envVars, stateVars, storeVars, runVars, verVars
<1> DEFINE go == ok /\ pub.base \in {NoContent, pub.hash} /\ ~PublishActive
<1>0. faults' \in 0..MaxFaults
    BY OutcomeFaults DEF CreateRun, Inv
<1>1. CASE ~go
  <2>1. Return /\ UNCHANGED storeVars
      BY <1>1 DEF CreateRun
  <2>2. TypeOK'
      BY <1>0, <2>1, TypeFrame, ReturnType, StoreTypeFrame
         DEF CreateRun, Inv, TypeOK, FileTypeOK
  <2> QED BY <2>1, <2>2, TablesFrame, VerdictsFrame, StageIdle
          DEF CreateRun, Return, Inv
<1>2. CASE go
  <2>1. PICK id \in RunIds : /\ CreatePublishRun(id)
                             /\ pc' = "validate"
                             /\ pub' = [pub EXCEPT !.run = id, !.base = NoContent,
                                                   !.hash = NoContent]
                             /\ UNCHANGED cancelled
      BY <1>2 DEF CreateRun
  <2>2. runState[id] = "none" /\ runSeq[id] = 0
      BY <2>1, StoreAssumption
         DEF CreatePublishRun, IsNextRun, Inv, Tables, RunOK, RunIds
  <2>3. \A q \in RunIds : runState[q] \notin ActiveStates
      BY <2>1 DEF CreatePublishRun, PublishActive, ActiveRuns
  <2>4. /\ runState'[id] = "VALIDATING"
        /\ \A q \in RunIds \ {id} : runState'[q] = runState[q]
        /\ UNCHANGED <<runSeq, verVars, snap>>
      BY <2>1 DEF CreatePublishRun, CreateRun, Inv, TypeOK, StoreTypeOK
  <2>5. CallTypeOK'
    <3>1. id \in 0..MaxRuns /\ NoContent \in Bases
        BY StoreAssumption DEF RunIds, Bases
    <3>2. pub' \in [run : 0..MaxRuns, base : Bases, hash : Bases,
                    content : Bases, seq : 0..MaxSeq, rollbackOf : 0..MaxSeq,
                    to : {"none", "VALIDATE_FAILED", "PUBLISH_FAILED"}]
        BY <2>1, <3>1 DEF Inv, TypeOK, CallTypeOK
    <3> QED BY <2>1, <3>2 DEF Inv, TypeOK, CallTypeOK, Steps
  <2>6. StoreTypeOK'
      BY <2>1, <2>4 DEF CreatePublishRun, Inv, TypeOK, StoreTypeOK, RunStates,
                        ActiveStates
  <2>7. TypeOK'
      BY <1>0, <2>5, <2>6, TypeFrame DEF CreateRun, Inv, TypeOK, FileTypeOK
  <2>8. Tables'
    <3>1. \A q \in RunIds : RunOK(q)'
        BY <2>2, <2>4 DEF Inv, Tables, RunOK
    <3>2. \A t \in Seqs : VersionOK(t)'
        BY <2>2, <2>4 DEF Inv, Tables, VersionOK, Visible
    <3>3. RunsOwnVersions' /\ OneEffective'
        BY <2>4 DEF Inv, Tables, RunsOwnVersions, OneEffective
    <3>4. OneActiveRun'
        BY <2>3, <2>4 DEF OneActiveRun, ActiveRuns
    <3> QED BY <3>1, <3>2, <3>3, <3>4 DEF Tables
  <2>9. Stage'
    <3>1. pub'.run = id /\ pub'.content = pub.content /\ pub.content \in Contents
        BY <2>1 DEF CreateRun, At, Inv, Stage, ReadSteps, TypeOK, CallTypeOK
    <3> QED BY <2>1, <2>4, <3>1 DEF Stage, ReadSteps, SeqSteps, RunSteps
  <2>10. Verdicts'
    <3>1. expected = NoIR /\ events = <<>>
        BY <2>3, NoneConfirming DEF ActiveStates
    <3> QED BY <3>1, NoVerdicts DEF CreateRun
  <2> QED BY <2>7, <2>8, <2>9, <2>10 DEF Inv
<1> QED BY <1>1, <1>2

\* Compilation succeeds, or failRun takes over.
LEMMA ValidateInv ==
    ASSUME Inv, NEW ok \in BOOLEAN, Validate(ok) PROVE Inv'
<1> USE DEF fileVars, callVars, envVars, stateVars, storeVars, runVars, verVars
<1>0. /\ pc = "validate" /\ pub.run \in RunIds /\ pub.content \in Contents
      /\ runState[pub.run] = "VALIDATING" /\ runSeq[pub.run] = 0
      /\ expected = NoIR /\ events = <<>>
    BY CallRun DEF Validate, At, Inv, Stage, ReadSteps, RunSteps, Tables, RunOK
<1>1. Verdicts'
    BY <1>0, NoVerdicts DEF Validate
<1>2. CASE Compiles(pub.content) /\ ok
  <2>1. UpdatePublishRun(pub.run, 0, "VALIDATED") /\ Goto("reserve")
      BY <1>2 DEF Validate
  <2>2. runState'[pub.run] = "VALIDATED" /\ runSeq'[pub.run] = 0
      BY <1>0, <2>1 DEF UpdatePublishRun, Inv, TypeOK, StoreTypeOK
  <2>3. RunOK(pub.run)'
      BY <2>1, <2>2 DEF RunOK, Goto
  <2>4. Tables' /\ StoreTypeOK'
    <3>1. RunOK(pub.run)' /\ UNCHANGED <<verVars, snap>>
        BY <2>3 DEF Validate
    <3>2. 0 \in 0..MaxSeq /\ "VALIDATED" \in RunStates
        BY StoreAssumption DEF RunStates, ActiveStates
    <3>3. ASSUME NEW r \in RunIds, r = pub.run PROVE RunOK(r)'
        BY <3>1, <3>3, <2>1 DEF Goto
    <3> QED BY <1>0, <2>1, <3>1, <3>2, <3>3, UpdateRunTables DEF ActiveStates
  <2>5. TypeOK'
    <3>1. faults' \in 0..MaxFaults
        BY <1>2, OutcomeFaults DEF Validate, Inv
    <3> QED BY <2>1, <2>4, <3>1, GotoType, TypeFrame
            DEF Validate, Inv, TypeOK, FileTypeOK, Steps
  <2>6. Stage'
      BY <1>0, <1>2, <2>1, <2>2 DEF Goto, Stage, ReadSteps, SeqSteps, RunSteps,
                                    Compiles
  <2> QED BY <1>1, <2>4, <2>5, <2>6 DEF Inv
<1>3. CASE Compiles(pub.content) /\ ~ok
  <2>1. Return /\ UNCHANGED storeVars
      BY <1>3 DEF Validate
  <2>2. faults' \in 0..MaxFaults
      BY <1>3, OutcomeFaults DEF Validate, Inv
  <2>3. TypeOK'
      BY <2>1, <2>2, TypeFrame, ReturnType, StoreTypeFrame
         DEF Validate, Inv, TypeOK, FileTypeOK
  <2> QED BY <1>1, <2>1, <2>3, TablesFrame, StageIdle DEF Validate, Return, Inv
<1>4. CASE ~Compiles(pub.content)
  <2>1. FailRun("VALIDATE_FAILED") /\ UNCHANGED <<storeVars, faults>>
      BY <1>4 DEF Validate
  <2>2. TypeOK'
      BY <2>1, TypeFrame, FailRunType, StoreTypeFrame
         DEF Validate, Inv, TypeOK, FileTypeOK
  <2>3. pc' = "fail" /\ pub'.to = "VALIDATE_FAILED" /\ pub'.run = pub.run
      BY <2>1 DEF FailRun, Inv, TypeOK, CallTypeOK
  <2>4. Stage'
      BY <1>0, <2>1, <2>3 DEF Stage, ReadSteps, SeqSteps, RunSteps
  <2> QED BY <1>1, <2>1, <2>2, <2>4, TablesFrame DEF Validate, Inv
<1> QED BY <1>2, <1>3, <1>4

\* A failing step on the way hands over to failRun and changes no table.
LEMMA FailStep ==
    ASSUME Inv, pc \in {"reserve", "snapshot", "record", "apply", "confirming"},
           FailRun("PUBLISH_FAILED"), UNCHANGED <<storeVars, snap, expected, events>>,
           TypeOK'
    PROVE  Inv'
<1> USE DEF storeVars, runVars, verVars
<1>1. /\ pub.run \in RunIds
      /\ runState[pub.run] \in {"VALIDATED", "PUBLISHING"}
      /\ runState[pub.run] = "PUBLISHING" => verState[runSeq[pub.run]] # "confirming"
    BY DEF Inv, Stage, RunSteps, SeqSteps
<1>2. pc' = "fail" /\ pub'.to = "PUBLISH_FAILED" /\ pub'.run = pub.run
    BY DEF FailRun, Inv, TypeOK, CallTypeOK
<1>3. Stage'
    BY <1>1, <1>2 DEF Stage, ReadSteps, SeqSteps, RunSteps
<1> QED BY <1>3, TablesFrame, VerdictsFrame DEF Inv

\* The new number belongs to no run and has no snapshot.
LEMMA ReserveVersionInv ==
    ASSUME Inv, NEW ok \in BOOLEAN, ReserveVersion(ok) PROVE Inv'
<1> USE DEF fileVars, callVars, envVars, stateVars, storeVars, runVars, verVars
<1>0. /\ pc = "reserve" /\ pub.run \in RunIds /\ pub.content \in Contents
      /\ Compiles(pub.content) /\ runState[pub.run] = "VALIDATED"
      /\ expected = NoIR /\ events = <<>>
    BY CallRun DEF ReserveVersion, At, Inv, Stage, ReadSteps, RunSteps
<1>1. Verdicts' /\ faults' \in 0..MaxFaults
    BY <1>0, NoVerdicts, OutcomeFaults DEF ReserveVersion, Inv
<1>2. CASE ok
  <2>1. PICK seq \in Seqs : /\ NextVersionSeq(seq)
                            /\ pc' = "publishing"
                            /\ pub' = [pub EXCEPT !.seq = seq]
                            /\ UNCHANGED cancelled
      BY <1>2 DEF ReserveVersion
  <2>2. /\ verState[seq] = "none" /\ snap[seq] = NoContent
        /\ \A q \in RunIds : runSeq[q] # seq
      BY <2>1, StoreAssumption
         DEF NextVersionSeq, IsNextSeq, Inv, Tables, VersionOK, Seqs
  <2>3. /\ verState'[seq] = "RESERVED"
        /\ \A t \in Seqs \ {seq} : verState'[t] = verState[t]
        /\ UNCHANGED <<runState, runSeq, verIR, verRollback, snap>>
      BY <2>1 DEF NextVersionSeq, ReserveVersion, Inv, TypeOK, StoreTypeOK
  <2>4. TypeOK'
    <3>1. StoreTypeOK'
        BY <2>1, <2>3 DEF NextVersionSeq, Inv, TypeOK, StoreTypeOK, VerStates
    <3>2. CallTypeOK'
        BY <2>1 DEF Inv, TypeOK, CallTypeOK, Steps, Seqs
    <3> QED BY <1>1, <3>1, <3>2, TypeFrame DEF ReserveVersion, Inv, TypeOK,
                                               FileTypeOK
  <2>5. Tables'
    <3>1. \A q \in RunIds : RunOK(q)'
      <4> SUFFICES ASSUME NEW q \in RunIds PROVE RunOK(q)'
          OBVIOUS
      <4>1. RunOK(q) /\ (runSeq[q] # 0 => runSeq[q] \in Seqs \ {seq})
          BY <2>2 DEF Inv, Tables, TypeOK, StoreTypeOK, Seqs
      <4> QED BY <2>3, <4>1 DEF RunOK
    <3>2. \A t \in Seqs : VersionOK(t)'
        BY <2>3 DEF Inv, Tables, VersionOK, Visible
    <3>3. RunsOwnVersions' /\ OneActiveRun' /\ OneEffective'
        BY <2>3 DEF Inv, Tables, RunsOwnVersions, OneActiveRun, ActiveRuns,
                    OneEffective
    <3> QED BY <3>1, <3>2, <3>3 DEF Tables
  <2>6. Stage'
    <3>1. pub'.seq = seq /\ pub'.run = pub.run /\ pub'.content = pub.content
        BY <2>1 DEF Inv, TypeOK, CallTypeOK
    <3> QED BY <1>0, <2>1, <2>2, <2>3, <3>1
            DEF Stage, ReadSteps, SeqSteps, RunSteps, Compiles
  <2> QED BY <1>1, <2>4, <2>5, <2>6 DEF Inv
<1>3. CASE ~ok
  <2>1. TypeOK'
      BY <1>1, <1>3, TypeFrame, FailRunType, StoreTypeFrame
         DEF ReserveVersion, Inv, TypeOK, FileTypeOK
  <2> QED BY <1>0, <1>3, <2>1, FailStep DEF ReserveVersion
<1> QED BY <1>2, <1>3

\* The run is linked to its number.
LEMMA MarkPublishingInv ==
    ASSUME Inv, NEW ok \in BOOLEAN, MarkPublishing(ok) PROVE Inv'
<1> USE DEF fileVars, callVars, envVars, stateVars, storeVars, runVars, verVars
<1>0. /\ pc = "publishing" /\ pub.run \in RunIds /\ pub.content \in Contents
      /\ Compiles(pub.content) /\ runState[pub.run] = "VALIDATED"
      /\ pub.seq \in Seqs /\ verState[pub.seq] = "RESERVED"
      /\ \A r \in RunIds : runSeq[r] # pub.seq
      /\ expected = NoIR /\ events = <<>>
    BY CallRun DEF MarkPublishing, At, Inv, Stage, ReadSteps, RunSteps
<1>1. Verdicts' /\ faults' \in 0..MaxFaults
    BY <1>0, NoVerdicts, OutcomeFaults DEF MarkPublishing, Inv
<1>2. CASE ok
  <2>1. UpdatePublishRun(pub.run, pub.seq, "PUBLISHING") /\ Goto("snapshot")
      BY <1>2 DEF MarkPublishing
  <2>2. runState'[pub.run] = "PUBLISHING" /\ runSeq'[pub.run] = pub.seq
      BY <1>0, <2>1 DEF UpdatePublishRun, Inv, TypeOK, StoreTypeOK
  <2>3. Tables' /\ StoreTypeOK'
    <3>1. ASSUME NEW r \in RunIds, r = pub.run PROVE RunOK(r)'
        BY <1>0, <2>2, <3>1 DEF MarkPublishing, RunOK, Seqs
    <3>2. pub.seq \in 0..MaxSeq /\ "PUBLISHING" \in RunStates
        BY <1>0 DEF RunStates, ActiveStates, Seqs
    <3> QED BY <1>0, <2>1, <3>1, <3>2, UpdateRunTables
            DEF MarkPublishing, ActiveStates
  <2>4. TypeOK'
      BY <1>1, <2>1, <2>3, GotoType, TypeFrame
         DEF MarkPublishing, Inv, TypeOK, FileTypeOK, Steps
  <2>5. Stage'
      BY <1>0, <2>1, <2>2 DEF MarkPublishing, Goto, Stage, ReadSteps, SeqSteps,
                              RunSteps, Compiles
  <2> QED BY <1>1, <2>3, <2>4, <2>5 DEF Inv
<1>3. CASE ~ok
  <2>1. Return /\ UNCHANGED storeVars
      BY <1>3 DEF MarkPublishing
  <2>2. TypeOK'
      BY <1>1, <2>1, TypeFrame, ReturnType, StoreTypeFrame
         DEF MarkPublishing, Inv, TypeOK, FileTypeOK
  <2> QED BY <1>1, <2>1, <2>2, TablesFrame, StageIdle
          DEF MarkPublishing, Return, Inv
<1> QED BY <1>2, <1>3

\* The draft is copied before any reader can see the version.
LEMMA SnapshotInv ==
    ASSUME Inv, NEW ok \in BOOLEAN, Snapshot(ok) PROVE Inv'
<1> USE DEF fileVars, callVars, envVars, stateVars, storeVars, runVars, verVars
<1>0. /\ pc = "snapshot" /\ pub.run \in RunIds /\ pub.content \in Contents
      /\ Compiles(pub.content) /\ runState[pub.run] = "PUBLISHING"
      /\ pub.seq \in Seqs /\ verState[pub.seq] = "RESERVED"
      /\ runSeq[pub.run] = pub.seq
      /\ expected = NoIR /\ events = <<>>
    BY CallRun DEF Snapshot, At, Inv, Stage, ReadSteps, RunSteps, SeqSteps
<1>1. Verdicts' /\ faults' \in 0..MaxFaults
    BY <1>0, NoVerdicts, PublishAssumption DEF Snapshot, Inv, TypeOK
<1>2. CASE ok /\ snap[pub.seq] = NoContent
  <2>1. /\ snap'[pub.seq] = draft /\ draft \in Contents
        /\ \A t \in Seqs \ {pub.seq} : snap'[t] = snap[t]
        /\ Goto("record") /\ UNCHANGED storeVars
      BY <1>0, <1>2 DEF Snapshot, Inv, TypeOK, FileTypeOK
  <2>2. snap' \in [Seqs -> Contents \cup {NoContent}]
      BY <1>0, <1>2 DEF Snapshot, Inv, TypeOK, FileTypeOK
  <2>3. TypeOK'
      BY <1>1, <2>1, <2>2, GotoType, TypeFrame, StoreTypeFrame
         DEF Snapshot, Inv, TypeOK, Steps
  <2>4. Tables'
    <3>1. \A q \in RunIds : RunOK(q)'
        BY <2>1 DEF Inv, Tables, RunOK
    <3>2. \A t \in Seqs : VersionOK(t)'
        BY <1>0, <2>1, PublishAssumption DEF Inv, Tables, VersionOK, Visible
    <3>3. RunsOwnVersions' /\ OneActiveRun' /\ OneEffective'
        BY <2>1 DEF Inv, Tables, RunsOwnVersions, OneActiveRun, ActiveRuns,
                    OneEffective
    <3> QED BY <3>1, <3>2, <3>3 DEF Tables
  <2>5. Stage'
      BY <1>0, <2>1, PublishAssumption
         DEF Goto, Stage, ReadSteps, SeqSteps, RunSteps, Compiles
  <2> QED BY <1>1, <2>3, <2>4, <2>5 DEF Inv
<1>3. CASE ~(ok /\ snap[pub.seq] = NoContent)
  <2>1. FailRun("PUBLISH_FAILED") /\ UNCHANGED snap
      BY <1>3 DEF Snapshot
  <2>2. TypeOK'
      BY <1>1, <2>1, TypeFrame, FailRunType, StoreTypeFrame
         DEF Snapshot, Inv, TypeOK, FileTypeOK
  <2> QED BY <1>0, <2>1, <2>2, FailStep DEF Snapshot
<1> QED BY <1>2, <1>3

\* What holds once the version of a call has its snapshot.
LEMMA Snapped ==
    ASSUME Inv, pc \in {"record", "apply", "markfailed", "confirming", "await"}
    PROVE  /\ pub.run \in RunIds /\ runState[pub.run] = "PUBLISHING"
           /\ pub.seq \in Seqs /\ runSeq[pub.run] = pub.seq
           /\ snap[pub.seq] # NoContent
           /\ pub.content \in Contents /\ Compiles(pub.content)
           /\ CompileOf[pub.content] \in IRs
           /\ pub.rollbackOf \in 0..MaxSeq
           /\ expected = NoIR /\ events = <<>>
<1>1. /\ pub.run \in RunIds /\ runState[pub.run] = "PUBLISHING"
      /\ pub.seq \in Seqs /\ runSeq[pub.run] = pub.seq
      /\ snap[pub.seq] # NoContent
      /\ pub.content \in Contents /\ Compiles(pub.content)
    BY DEF Inv, Stage, ReadSteps, SeqSteps, RunSteps
<1>2. CompileOf[pub.content] \in IRs
    BY <1>1, PublishAssumption DEF Compiles
<1>3. expected = NoIR /\ events = <<>>
    BY CallRun DEF RunSteps, SeqSteps
<1>4. pub.rollbackOf \in 0..MaxSeq
    BY DEF Inv, TypeOK, CallTypeOK
<1> QED BY <1>1, <1>2, <1>3, <1>4

\* InsertVersion makes the version visible, with its snapshot on disk.
LEMMA RecordVersionInv ==
    ASSUME Inv, NEW ok \in BOOLEAN, RecordVersion(ok) PROVE Inv'
<1> USE DEF fileVars, callVars, envVars, stateVars, storeVars, runVars, verVars
<1>0. pc = "record"
    BY DEF RecordVersion, At
<1>1. Verdicts' /\ faults' \in 0..MaxFaults
    BY <1>0, Snapped, NoVerdicts, OutcomeFaults DEF RecordVersion, Inv
<1>2. CASE ok
  <2>1. /\ InsertVersion(pub.seq, CompileOf[pub.content], "publishing",
                         pub.rollbackOf)
        /\ Goto("apply") /\ UNCHANGED <<runVars, snap>>
      BY <1>2 DEF RecordVersion
  <2>2. Tables' /\ StoreTypeOK'
      BY <1>0, <2>1, Snapped, InsertTables
  <2>3. TypeOK'
      BY <1>1, <2>1, <2>2, GotoType, TypeFrame
         DEF RecordVersion, Inv, TypeOK, FileTypeOK, Steps
  <2>4. verState'[pub.seq] = "publishing"
      BY <1>0, <2>1, Snapped DEF InsertVersion, Inv, TypeOK, StoreTypeOK
  <2>5. Stage'
      BY <1>0, <2>1, <2>4, Snapped
         DEF Goto, Stage, ReadSteps, SeqSteps, RunSteps, Compiles
  <2> QED BY <1>1, <2>2, <2>3, <2>5 DEF Inv
<1>3. CASE ~ok
  <2>1. TypeOK'
      BY <1>1, <1>3, TypeFrame, FailRunType, StoreTypeFrame
         DEF RecordVersion, Inv, TypeOK, FileTypeOK
  <2> QED BY <1>0, <1>3, <2>1, FailStep DEF RecordVersion
<1> QED BY <1>2, <1>3

\* Delivery changes no table.
LEMMA ApplyInv ==
    ASSUME Inv, NEW ok \in BOOLEAN, Apply(ok) PROVE Inv'
<1> USE DEF fileVars, callVars, envVars, stateVars, storeVars, runVars, verVars
<1>0. pc = "apply" /\ verState[pub.seq] = "publishing"
    BY DEF Apply, At, Inv, Stage
<1>1. Verdicts' /\ faults' \in 0..MaxFaults
    BY <1>0, Snapped, NoVerdicts, PublishAssumption DEF Apply, Inv, TypeOK
<1>2. PICK step \in {"confirming", "markfailed"} : Goto(step)
    BY DEF Apply
<1>3. served' \in IRs \cup {NoIR}
    BY <1>0, Snapped DEF Apply, Inv, TypeOK
<1>4. TypeOK'
    BY <1>1, <1>2, <1>3, GotoType, TypeFrame, StoreTypeFrame
       DEF Apply, Inv, TypeOK, FileTypeOK, Steps
<1>5. Stage'
    BY <1>0, <1>2, Snapped
       DEF Apply, Goto, Stage, ReadSteps, SeqSteps, RunSteps, Compiles
<1> QED BY <1>1, <1>4, <1>5, TablesFrame DEF Apply, Inv

\* The version of a failed delivery is recorded as failed.
LEMMA MarkFailedInv ==
    ASSUME Inv, NEW ok \in BOOLEAN, MarkFailed(ok) PROVE Inv'
<1> USE DEF fileVars, callVars, envVars, stateVars, storeVars, runVars, verVars
<1>0. pc = "markfailed" /\ verState[pub.seq] = "publishing"
    BY DEF MarkFailed, At, Inv, Stage
<1>1. Verdicts' /\ faults' \in 0..MaxFaults
    BY <1>0, Snapped, NoVerdicts, OutcomeFaults DEF MarkFailed, Inv
<1>2. Tables' /\ StoreTypeOK' /\ verState'[pub.seq] # "confirming"
  <2>1. CASE ok
    <3>1. /\ InsertVersion(pub.seq, CompileOf[pub.content], "failed",
                           pub.rollbackOf)
          /\ UNCHANGED <<runVars, snap>>
        BY <2>1 DEF MarkFailed
    <3>2. Tables' /\ StoreTypeOK'
        BY <1>0, <3>1, Snapped, InsertTables
    <3> QED BY <1>0, <3>1, <3>2, Snapped DEF InsertVersion, Inv, TypeOK,
                                             StoreTypeOK
  <2>2. CASE ~ok
      BY <1>0, <2>2, TablesFrame, StoreTypeFrame DEF MarkFailed, Inv, TypeOK
  <2> QED BY <2>1, <2>2
<1>3. TypeOK'
    BY <1>1, <1>2, FailRunType, TypeFrame DEF MarkFailed, Inv, TypeOK, FileTypeOK
<1>4. pc' = "fail" /\ pub'.to = "PUBLISH_FAILED" /\ pub'.run = pub.run
    BY DEF MarkFailed, FailRun, Inv, TypeOK, CallTypeOK
<1>5. Stage'
    BY <1>0, <1>2, <1>4, Snapped
       DEF MarkFailed, Stage, ReadSteps, SeqSteps, RunSteps
<1> QED BY <1>1, <1>2, <1>3, <1>5 DEF Inv

\* failRun moves the run to its failed state, or its write fails and the run
\* stays where it is.
LEMMA WriteFailureInv ==
    ASSUME Inv, NEW ok \in BOOLEAN, WriteFailure(ok) PROVE Inv'
<1> USE DEF fileVars, callVars, envVars, stateVars, storeVars, runVars, verVars
<1>0. /\ pc = "fail" /\ pub.run \in RunIds
      /\ runState[pub.run] \in {"VALIDATING", "VALIDATED", "PUBLISHING"}
      /\ runState[pub.run] \in ActiveStates
      /\ expected = NoIR /\ events = <<>>
    BY CallRun DEF WriteFailure, At, RunSteps, ActiveStates
<1>1. Verdicts' /\ faults' \in 0..MaxFaults
    BY <1>0, NoVerdicts, OutcomeFaults DEF WriteFailure, Inv
<1>2. Tables' /\ StoreTypeOK'
  <2>1. CASE ok
    <3>1. /\ UpdatePublishRun(pub.run, runSeq[pub.run], pub.to)
          /\ UNCHANGED <<verVars, snap>>
        BY <2>1 DEF WriteFailure
    <3>2. pub.to \in RunStates /\ runSeq[pub.run] \in 0..MaxSeq
        BY <1>0 DEF Inv, TypeOK, CallTypeOK, StoreTypeOK, RunStates
    <3>3. runState'[pub.run] = pub.to /\ runSeq'[pub.run] = runSeq[pub.run]
        BY <1>0, <3>1 DEF UpdatePublishRun, Inv, TypeOK, StoreTypeOK
    <3>4. ASSUME NEW r \in RunIds, r = pub.run PROVE RunOK(r)'
      <4>1. RunOK(r)
          BY DEF Inv, Tables
      <4> QED BY <1>0, <3>1, <3>3, <3>4, <4>1 DEF RunOK, Inv, Stage
    <3> QED BY <1>0, <3>1, <3>2, <3>4, UpdateRunTables
  <2>2. CASE ~ok
      BY <2>2, TablesFrame, StoreTypeFrame DEF WriteFailure, Inv, TypeOK
  <2> QED BY <2>1, <2>2
<1>3. TypeOK'
    BY <1>1, <1>2, ReturnType, TypeFrame DEF WriteFailure, Inv, TypeOK, FileTypeOK
<1> QED BY <1>1, <1>2, <1>3, StageIdle DEF WriteFailure, Return, Inv

\* The version waits for Envoy before its run does.
LEMMA MarkVersionConfirmingInv ==
    ASSUME Inv, NEW ok \in BOOLEAN, MarkVersionConfirming(ok) PROVE Inv'
<1> USE DEF fileVars, callVars, envVars, stateVars, storeVars, runVars, verVars
<1>0. pc = "confirming" /\ verState[pub.seq] = "publishing"
    BY DEF MarkVersionConfirming, At, Inv, Stage
<1>1. Verdicts' /\ faults' \in 0..MaxFaults
    BY <1>0, Snapped, NoVerdicts, OutcomeFaults DEF MarkVersionConfirming, Inv
<1>2. CASE ok
  <2>1. /\ InsertVersion(pub.seq, CompileOf[pub.content], "confirming",
                         pub.rollbackOf)
        /\ Goto("await") /\ UNCHANGED <<runVars, snap>>
      BY <1>2 DEF MarkVersionConfirming
  <2>2. Tables' /\ StoreTypeOK'
      BY <1>0, <2>1, Snapped, InsertTables
  <2>3. TypeOK'
      BY <1>1, <2>1, <2>2, GotoType, TypeFrame
         DEF MarkVersionConfirming, Inv, TypeOK, FileTypeOK, Steps
  <2>4. verState'[pub.seq] = "confirming"
      BY <1>0, <2>1, Snapped DEF InsertVersion, Inv, TypeOK, StoreTypeOK
  <2>5. Stage'
      BY <1>0, <2>1, <2>4, Snapped
         DEF Goto, Stage, ReadSteps, SeqSteps, RunSteps, Compiles
  <2> QED BY <1>1, <2>2, <2>3, <2>5 DEF Inv
<1>3. CASE ~ok
  <2>1. TypeOK'
      BY <1>1, <1>3, TypeFrame, FailRunType, StoreTypeFrame
         DEF MarkVersionConfirming, Inv, TypeOK, FileTypeOK
  <2> QED BY <1>0, <1>3, <2>1, FailStep DEF MarkVersionConfirming
<1> QED BY <1>2, <1>3

\* The run waits for Envoy; nothing is expected yet.
LEMMA MarkRunConfirmingInv ==
    ASSUME Inv, NEW ok \in BOOLEAN, MarkRunConfirming(ok) PROVE Inv'
<1> USE DEF fileVars, callVars, envVars, stateVars, storeVars, runVars, verVars
<1>0. pc = "await" /\ verState[pub.seq] = "confirming"
    BY DEF MarkRunConfirming, At, Inv, Stage
<1>1. /\ Verdicts' /\ faults' \in 0..MaxFaults
      /\ expected' = NoIR /\ events' = <<>>
    BY <1>0, Snapped, NoVerdicts, OutcomeFaults DEF MarkRunConfirming, Inv
<1>2. CASE ok
  <2>1. UpdatePublishRun(pub.run, pub.seq, "CONFIRMING") /\ Goto("expect")
      BY <1>2 DEF MarkRunConfirming
  <2>2. runState'[pub.run] = "CONFIRMING" /\ runSeq'[pub.run] = pub.seq
      BY <1>0, <2>1, Snapped DEF UpdatePublishRun, Inv, TypeOK, StoreTypeOK
  <2>3. Tables' /\ StoreTypeOK'
    <3>1. ASSUME NEW r \in RunIds, r = pub.run PROVE RunOK(r)'
        BY <1>0, <2>2, <3>1, Snapped DEF MarkRunConfirming, RunOK, Seqs
    <3>2. pub.seq \in 0..MaxSeq /\ "CONFIRMING" \in RunStates
        BY <1>0, Snapped DEF RunStates, ActiveStates, Seqs
    <3> QED BY <1>0, <2>1, <3>1, <3>2, Snapped, UpdateRunTables
            DEF MarkRunConfirming, ActiveStates
  <2>4. TypeOK'
      BY <1>1, <2>1, <2>3, GotoType, TypeFrame
         DEF MarkRunConfirming, Inv, TypeOK, FileTypeOK, Steps
  <2>5. Stage'
      BY <1>0, <1>1, <2>1, <2>2, Snapped
         DEF MarkRunConfirming, Goto, Stage, ReadSteps, SeqSteps, RunSteps
  <2> QED BY <1>1, <2>3, <2>4, <2>5 DEF Inv
<1>3. CASE ~ok
  <2>1. Return /\ UNCHANGED storeVars
      BY <1>3 DEF MarkRunConfirming
  <2>2. TypeOK'
      BY <1>1, <2>1, TypeFrame, ReturnType, StoreTypeFrame
         DEF MarkRunConfirming, Inv, TypeOK, FileTypeOK
  <2> QED BY <1>1, <2>1, <2>2, TablesFrame, StageIdle
          DEF MarkRunConfirming, Return, Inv
<1> QED BY <1>2, <1>3

\* M-STATE is asked about the run that has just become CONFIRMING.
LEMMA ExpectInv == ASSUME Inv, Expect PROVE Inv'
<1> USE DEF fileVars, callVars, envVars, stateVars, storeVars, runVars, verVars
<1>0. /\ pub.run \in RunIds /\ pub.seq \in Seqs
      /\ runState[pub.run] = "CONFIRMING" /\ runSeq[pub.run] = pub.seq
      /\ verState[pub.seq] = "confirming" /\ events = <<>>
    BY DEF Expect, At, Inv, Stage, SeqSteps, RunSteps
<1>1. verIR[pub.seq] \in IRs
  <2>1. verIR[pub.seq] # NoIR
      BY <1>0 DEF Inv, Tables, VersionOK, Visible
  <2>2. verIR \in [Seqs -> IRs \cup {NoIR}]
      BY DEF Inv, TypeOK, StoreTypeOK
  <2> QED BY <1>0, <2>1, <2>2
<1>2. expected' = verIR[pub.seq] /\ events' = <<>>
    BY <1>0 DEF Expect, ExpectVersion
<1>3. StateTypeOK'
  <2>1. expired' \in BOOLEAN
      BY Zenon DEF Expect, ExpectVersion
  <2> QED BY <1>1, <2>1 DEF Expect, ExpectVersion, Inv, TypeOK, StateTypeOK
<1>4. TypeOK'
    BY <1>3, ReturnType DEF Expect, Inv, TypeOK, StoreTypeOK, FileTypeOK
<1>5. Verdicts'
  <2>1. VerdictsAreCurrent'
      BY <1>0, <1>2 DEF Expect, VerdictsAreCurrent
  <2>2. NoVerdictDropped'
      BY <1>2 DEF NoVerdictDropped
  <2> QED BY <2>1, <2>2 DEF Verdicts
<1> QED BY <1>4, <1>5, TablesFrame, StageIdle DEF Expect, Return, Inv

\* TransitionPublish moves an active run, or a timed-out one when none is
\* active, and its version together.
Moved(r, seq, rst, vst, supersede) ==
    /\ runState' = [runState EXCEPT ![r] = rst]
    /\ verState' \in [Seqs -> VerStates]
    /\ verState'[seq] = vst
    /\ \A t \in Seqs \ {seq} :
         /\ supersede /\ verState[t] = "effective" => verState'[t] = "superseded"
         /\ ~(supersede /\ verState[t] = "effective") => verState'[t] = verState[t]
    /\ UNCHANGED <<runSeq, verIR, verRollback, snap>>

\* TransitionPublish moves the run, its version and the version that was
\* effective in one transaction.
LEMMA TransitionTables ==
    ASSUME Inv, NEW r \in RunIds, NEW seq \in Seqs, NEW rst, NEW vst,
           runState[r] \in {"CONFIRMING", "TIMEOUT"}, runSeq[r] = seq,
           rst \in ActiveStates => ActiveRuns \subseteq {r},
           \/ rst = "EFFECTIVE" /\ vst = "effective"
           \/ rst = "TIMEOUT" /\ vst = "timeout"
           \/ rst = "CONFIRMING" /\ vst = "confirming",
           Moved(r, seq, rst, vst, rst = "EFFECTIVE")
    PROVE  Tables' /\ StoreTypeOK'
<1> DEFINE supersede == rst = "EFFECTIVE"
<1> USE DEF Inv, TypeOK, StoreTypeOK, Moved
<1>1. StoreTypeOK'
    BY DEF RunStates, ActiveStates, VerStates
<1>2. /\ runState'[r] = rst /\ runSeq' = runSeq /\ runSeq[r] = seq
      /\ \A q \in RunIds \ {r} : runState'[q] = runState[q]
      /\ verState'[seq] = vst /\ verIR' = verIR /\ snap' = snap
    OBVIOUS
<1>3. \A t \in Seqs \ {seq} :
        /\ supersede /\ verState[t] = "effective" => verState'[t] = "superseded"
        /\ ~(supersede /\ verState[t] = "effective") => verState'[t] = verState[t]
    OBVIOUS
<1>4. verState[seq] \in {"confirming", "timeout"}
    BY <1>2 DEF Tables, RunOK, Seqs
<1>5. \A q \in RunIds : RunOK(q)'
  <2> SUFFICES ASSUME NEW q \in RunIds PROVE RunOK(q)'
      OBVIOUS
  <2>1. RunOK(q) /\ (runSeq[q] = seq => q = r)
      BY <1>2 DEF Tables, RunsOwnVersions, Seqs
  <2>2. CASE q = r
      BY <1>2, <2>2 DEF RunOK, Seqs
  <2>3. CASE q # r
    <3>1. runSeq[q] # 0 => runSeq[q] \in Seqs \ {seq}
        BY <2>1, <2>3 DEF Seqs
    <3> QED BY <1>2, <1>3, <2>1, <2>3, <3>1 DEF RunOK
  <2> QED BY <2>2, <2>3
<1>6. \A t \in Seqs : VersionOK(t)'
  <2> SUFFICES ASSUME NEW t \in Seqs PROVE VersionOK(t)'
      OBVIOUS
  <2>1. VersionOK(t)
      BY DEF Tables
  <2>2. CASE t = seq
      BY <1>2, <1>4, <2>1, <2>2 DEF VersionOK, Visible
  <2>3. CASE t # seq
    <3>1. \A q \in RunIds : runSeq[q] = t => runState'[q] = runState[q]
        BY <1>2, <2>3
    <3> QED BY <1>2, <1>3, <2>1, <2>3, <3>1 DEF VersionOK, Visible
  <2> QED BY <2>2, <2>3
<1>7. RunsOwnVersions'
    BY <1>2 DEF Tables, RunsOwnVersions
<1>8. OneActiveRun'
    BY <1>2 DEF Tables, OneActiveRun, ActiveRuns, ActiveStates
<1>9. OneEffective'
    BY <1>2, <1>3 DEF Tables, OneEffective
<1> QED BY <1>1, <1>5, <1>6, <1>7, <1>8, <1>9 DEF Tables

\* A verdict is about the run that is CONFIRMING, so it always finds it.
LEMMA HandleEventInv ==
    ASSUME Inv, NEW ok \in BOOLEAN, handleConfirmEvent(ok) PROVE Inv'
<1> USE DEF fileVars, callVars, envVars, stateVars, storeVars, runVars, verVars
<1> DEFINE e == Head(events)
           hit == {r \in RunIds : Concerns(e, r)}
<1>1. events \in Seq(Event) /\ events # <<>> /\ events' = Tail(events)
    BY DEF handleConfirmEvent, Inv, TypeOK, StateTypeOK
<1>2. Len(events) = 1 /\ expected = NoIR
  <2>1. Len(events) \in Nat /\ Len(events) # 0
      BY <1>1
  <2> QED BY <2>1 DEF Inv, Verdicts, NoVerdictDropped
<1>3. events' = <<>> /\ e = events[1] /\ e \in Event
    BY <1>1, <1>2
<1>4. expected' = NoIR
    BY <1>2 DEF handleConfirmEvent
<1>5. Verdicts'
    BY <1>3, <1>4, NoVerdicts
<1>6. \E q \in RunIds : runState[q] = "CONFIRMING"
    BY <1>2, <1>3 DEF Inv, Verdicts, VerdictsAreCurrent
<1>7. Tables' /\ StoreTypeOK'
  <2>1. CASE ok /\ hit # {}
    <3>1. PICK r \in hit :
            IF e.status = "CONFIRMED"
            THEN TransitionPublish(r, runSeq[r], "EFFECTIVE", "effective", TRUE)
            ELSE TransitionPublish(r, runSeq[r], "TIMEOUT", "timeout", FALSE)
        BY <2>1 DEF handleConfirmEvent
    <3>2. r \in RunIds /\ runState[r] = "CONFIRMING"
        BY <1>6 DEF Concerns, ActiveRuns, ActiveStates, Inv, Tables, OneActiveRun
    <3>3. runSeq[r] \in Seqs
        BY <3>2 DEF Concerns, Inv, TypeOK, StoreTypeOK, Seqs
    <3>4. UNCHANGED snap
        BY DEF handleConfirmEvent
    <3>5. CASE e.status = "CONFIRMED"
      <4>1. TransitionPublish(r, runSeq[r], "EFFECTIVE", "effective", TRUE)
          BY <3>1, <3>5
      <4>2. Moved(r, runSeq[r], "EFFECTIVE", "effective",
                  "EFFECTIVE" = "EFFECTIVE")
          BY <3>3, <3>4, <4>1
             DEF TransitionPublish, Moved, Inv, TypeOK, StoreTypeOK, VerStates
      <4> QED BY <3>2, <3>3, <4>2, TransitionTables DEF ActiveStates
    <3>6. CASE e.status # "CONFIRMED"
      <4>1. TransitionPublish(r, runSeq[r], "TIMEOUT", "timeout", FALSE)
          BY <3>1, <3>6
      <4>2. Moved(r, runSeq[r], "TIMEOUT", "timeout", "TIMEOUT" = "EFFECTIVE")
          BY <3>3, <3>4, <4>1
             DEF TransitionPublish, Moved, Inv, TypeOK, StoreTypeOK, VerStates
      <4> QED BY <3>2, <3>3, <4>2, TransitionTables DEF ActiveStates
    <3> QED BY <3>5, <3>6
  <2>2. CASE ~(ok /\ hit # {})
    <3>1. UNCHANGED <<storeVars, snap>>
        BY <2>2 DEF handleConfirmEvent
    <3> QED BY <3>1, TablesFrame, StoreTypeFrame DEF Inv, TypeOK
  <2> QED BY <2>1, <2>2
<1>8. TypeOK'
  <2>1. events' \in Seq(Event)
      BY <1>3
  <2>2. faults' \in 0..MaxFaults
      BY PublishAssumption DEF handleConfirmEvent, Inv, TypeOK
  <2> QED BY <1>7, <2>1, <2>2 DEF handleConfirmEvent, Inv, TypeOK, StateTypeOK,
                                  FileTypeOK, CallTypeOK
<1> QED BY <1>5, <1>7, <1>8, StageIdle DEF handleConfirmEvent, At, Inv

\* Recheck takes the mutex with the run it reopens.
LEMMA RecheckPubType ==
    ASSUME NEW run \in 0..MaxRuns, NEW seq \in 0..MaxSeq
    PROVE  [NoPub EXCEPT !.run = run, !.seq = seq]
             \in [run : 0..MaxRuns, base : Bases, hash : Bases, content : Bases,
                 seq : 0..MaxSeq, rollbackOf : 0..MaxSeq,
                 to : {"none", "VALIDATE_FAILED", "PUBLISH_FAILED"}]
<1>1. NoPub \in [run : 0..MaxRuns, base : Bases, hash : Bases, content : Bases,
                seq : 0..MaxSeq, rollbackOf : 0..MaxSeq,
                to : {"none", "VALIDATE_FAILED", "PUBLISH_FAILED"}]
    BY StoreAssumption DEF NoPub, Bases
<1> QED BY <1>1

\* Recheck reopens a timed-out run only when no run is active.
LEMMA RecheckInv == ASSUME Inv, NEW r \in RunIds, Recheck(r) PROVE Inv'
<1> USE DEF fileVars, callVars, envVars, stateVars, storeVars, runVars, verVars,
            Recheck, RecheckFrom
<1>1. runState[r] = "TIMEOUT" /\ runSeq[r] \in Seqs
    BY DEF Inv, Tables, RunOK, TypeOK, StoreTypeOK, Seqs
<1>2. TransitionPublish(r, runSeq[r], "CONFIRMING", "confirming", FALSE)
    OBVIOUS
<1>3. Tables' /\ StoreTypeOK'
  <2>1. Moved(r, runSeq[r], "CONFIRMING", "confirming",
              "CONFIRMING" = "EFFECTIVE")
      BY <1>1, <1>2
         DEF TransitionPublish, Moved, Inv, TypeOK, StoreTypeOK, VerStates
  <2>2. ActiveRuns \subseteq {r}
      BY <1>2 DEF TransitionPublish, Transitionable, ActiveStates
  <2> QED BY <1>1, <2>1, <2>2, TransitionTables
<1>4. \A q \in RunIds : runState[q] # "CONFIRMING"
    BY <1>1, <1>2 DEF TransitionPublish, Transitionable, ActiveStates, ActiveRuns
<1>5. expected = NoIR /\ events = <<>>
    BY <1>4, NoneConfirming
<1>6. CallTypeOK'
  <2>1. r \in 0..MaxRuns /\ runSeq[r] \in 0..MaxSeq /\ 0 \in 0..MaxSeq
      BY <1>1, StoreAssumption DEF RunIds, Seqs
  <2>2. pub' \in [run : 0..MaxRuns, base : Bases, hash : Bases,
                  content : Bases, seq : 0..MaxSeq, rollbackOf : 0..MaxSeq,
                  to : {"none", "VALIDATE_FAILED", "PUBLISH_FAILED"}]
      BY <2>1, RecheckPubType
  <2> QED BY <2>2 DEF Inv, TypeOK, CallTypeOK, Steps
<1>7. TypeOK'
    BY <1>3, <1>6 DEF Inv, TypeOK, StateTypeOK, FileTypeOK
<1>8. /\ pc' = "expect" /\ pub'.run = r /\ pub'.seq = runSeq[r]
      /\ runState'[r] = "CONFIRMING" /\ runSeq' = runSeq
      /\ verState'[runSeq[r]] = "confirming"
      /\ snap'[runSeq[r]] # NoContent
  <2>1. Visible(runSeq[r])
      BY <1>1 DEF Inv, Tables, RunOK, Visible, Seqs
  <2> QED BY <1>1, <1>2, <2>1
          DEF TransitionPublish, NoPub, Inv, TypeOK, StoreTypeOK, Tables, VersionOK
<1>9. Stage'
    BY <1>1, <1>5, <1>8 DEF Stage, ReadSteps, SeqSteps, RunSteps
<1> QED BY <1>3, <1>5, <1>7, <1>9, NoVerdicts DEF Inv
-----------------------------------------------------------------------------
(* The invariant and what follows from it.                                 *)

\* Every step keeps the invariant.
LEMMA StepInv == Inv /\ [Next]_vars => Inv'
<1> SUFFICES ASSUME Inv, [Next]_vars PROVE Inv'
    OBVIOUS
<1>1. CASE UNCHANGED vars
  <2>1. TypeOK'
      BY <1>1 DEF vars, storeVars, runVars, verVars, stateVars, fileVars,
                  callVars, envVars, Inv, TypeOK, StoreTypeOK, StateTypeOK,
                  FileTypeOK, CallTypeOK
  <2> QED BY <1>1, <2>1, QuietStep DEF vars, storeVars, stateVars, fileVars,
                                       callVars
<1>2. CASE Edit
    BY <1>2, EditInv
<1>3. CASE Call
    BY <1>3, CallInv, RecheckInv DEF Call
<1>4. CASE CallStep
    BY <1>4, ReadStepInv, ExpectInv, CreateRunInv, ValidateInv,
       ReserveVersionInv, MarkPublishingInv, SnapshotInv, RecordVersionInv,
       ApplyInv, MarkFailedInv, WriteFailureInv, MarkVersionConfirmingInv,
       MarkRunConfirmingInv DEF CallStep
<1>5. CASE HandleEvent
    BY <1>5, HandleEventInv DEF HandleEvent
<1>6. CASE TimeoutPasses \/ RefreshRead \/ RefreshApply
    BY <1>6, StateInv
<1>7. CASE Environment
    BY <1>7, EnvironmentInv
<1> QED BY <1>1, <1>2, <1>3, <1>4, <1>5, <1>6, <1>7 DEF Next

\* The inductive invariant holds of every reachable state of the publish
\* path.
THEOREM Invariance == Spec => []Inv
BY InitInv, StepInv, PTL DEF Spec

\* Every variable keeps its type: in particular publishWithBaseLocked never
\* uses a run, a version or an output it does not have.
THEOREM TypeCorrect == Spec => []TypeOK
<1>1. Inv => TypeOK
    BY DEF Inv
<1> QED BY <1>1, Invariance, PTL

\* At most one run is in progress, Recheck and restarts included: the
\* publisher never meets one_active_publish with a run of its own making.
THEOREM ActiveIsUnique == Spec => []OneActiveRun
<1>1. Inv => OneActiveRun
    BY DEF Inv, Tables
<1> QED BY <1>1, Invariance, PTL

\* The database never shows two effective versions, whatever is interrupted
\* between or inside the publishes (store.TransitionPublish).
THEOREM EffectiveIsUnique == Spec => []OneEffective
<1>1. Inv => OneEffective
    BY DEF Inv, Tables
<1> QED BY <1>1, Invariance, PTL

\* publish_runs and versions tell the same story (publish.go, Recheck and
\* handleConfirmEvent included).
THEOREM LedgersConsistent == Spec => []LedgersAgree
<1>1. Inv => LedgersAgree
  <2> SUFFICES ASSUME Inv PROVE LedgersAgree
      OBVIOUS
  <2>1. \A r \in RunIds : RunOK(r)
      BY DEF Inv, Tables
  <2>2. \A s \in Seqs : VersionOK(s)
      BY DEF Inv, Tables
  <2> QED BY <2>1, <2>2 DEF LedgersAgree, RunOK, VersionOK
<1> QED BY <1>1, Invariance, PTL

\* Every version a reader can see has its source on disk (Snapshot comes
\* before InsertVersion on every path).
THEOREM SourcesExist == Spec => []VersionsHaveSource
<1>1. Inv => VersionsHaveSource
    BY DEF Inv, Tables, VersionOK, Visible, VersionsHaveSource
<1> QED BY <1>1, Invariance, PTL

\* Every expectation of M-STATE and every verdict in its channel is about the
\* run that is CONFIRMING.
THEOREM VerdictsReachTheirRun == Spec => []VerdictsAreCurrent
<1>1. Inv => VerdictsAreCurrent
    BY DEF Inv, Verdicts
<1> QED BY <1>1, Invariance, PTL

\* The publisher's channel, which drops what does not fit, never has to.
THEOREM VerdictsAreNotDropped == Spec => []NoVerdictDropped
<1>1. Inv => NoVerdictDropped
    BY DEF Inv, Verdicts
<1> QED BY <1>1, Invariance, PTL
-----------------------------------------------------------------------------
(* What a step can do to the tables.                                       *)

Submitted(r) ==
    /\ runState[r] = "none" /\ ActiveRuns = {}
    /\ runState' = [runState EXCEPT ![r] = "VALIDATING"]
    /\ UNCHANGED <<runSeq, verState>>

Advanced(r, st) ==
    /\ runState[r] \in ActiveStates
    /\ runState' = [runState EXCEPT ![r] = st]
    /\ \/ UNCHANGED runSeq
       \/ \E s \in Seqs : /\ verState[s] = "RESERVED"
                          /\ runSeq' = [runSeq EXCEPT ![r] = s]
    /\ UNCHANGED verState

Written(s, st) ==
    /\ verState[s] \in {"none", "RESERVED", "publishing"}
    /\ verState' = [verState EXCEPT ![s] = st]
    /\ UNCHANGED <<runState, runSeq>>

FailedRun(r, st) ==
    /\ runState[r] \in ActiveStates
    /\ runState' = [runState EXCEPT ![r] = st]
    /\ UNCHANGED <<runSeq, verState>>

Decided(r) ==
    /\ runState[r] = "CONFIRMING" /\ runSeq[r] \in Seqs
    /\ \/ Moved(r, runSeq[r], "EFFECTIVE", "effective", TRUE)
       \/ Moved(r, runSeq[r], "TIMEOUT", "timeout", FALSE)

Reopened(r) ==
    /\ runState[r] = "TIMEOUT" /\ runSeq[r] \in Seqs /\ ActiveRuns = {}
    /\ Moved(r, runSeq[r], "CONFIRMING", "confirming", FALSE)

Effect ==
    \/ UNCHANGED <<runState, runSeq, verState>>
    \/ \E r \in RunIds : Submitted(r) \/ Decided(r) \/ Reopened(r)
    \/ \E r \in RunIds, st \in ActiveStates : Advanced(r, st)
    \/ \E r \in RunIds, st \in {"VALIDATE_FAILED", "PUBLISH_FAILED"} :
         FailedRun(r, st)
    \/ \E s \in Seqs, st \in {"RESERVED", "publishing", "failed", "confirming"} :
         Written(s, st)

\* What the steps of a call do to the tables, as the abstract ledger sees it.
LEMMA CallEffect ==
    ASSUME Inv, NEW ok \in BOOLEAN,
           \/ CreateRun(ok) \/ Validate(ok) \/ ReserveVersion(ok)
           \/ MarkPublishing(ok) \/ Snapshot(ok) \/ RecordVersion(ok)
           \/ Apply(ok) \/ MarkFailed(ok) \/ WriteFailure(ok)
           \/ MarkVersionConfirming(ok) \/ MarkRunConfirming(ok)
    PROVE  Effect
<1> USE DEF storeVars, runVars, verVars
<1>1. ASSUME CreateRun(ok) PROVE Effect
  <2>1. CASE UNCHANGED runVars
      BY <1>1, <2>1 DEF CreateRun, Effect
  <2>2. CASE \E id \in RunIds : CreatePublishRun(id)
    <3>1. PICK id \in RunIds : CreatePublishRun(id)
        BY <2>2
    <3>2. runState[id] = "none"
        BY <3>1 DEF CreatePublishRun, IsNextRun, RunIds
    <3>3. Submitted(id)
        BY <1>1, <3>1, <3>2 DEF CreateRun, CreatePublishRun, PublishActive,
                                Submitted
    <3> QED BY <3>3 DEF Effect
  <2> QED BY <1>1, <2>1, <2>2 DEF CreateRun
<1>2. ASSUME Validate(ok) PROVE Effect
  <2>1. CASE UNCHANGED runVars
      BY <1>2, <2>1 DEF Validate, Effect
  <2>2. CASE UpdatePublishRun(pub.run, 0, "VALIDATED")
    <3>1. /\ pub.run \in RunIds /\ runState[pub.run] = "VALIDATING"
          /\ runSeq[pub.run] = 0
        BY <1>2 DEF Validate, At, Inv, Stage, RunSteps, Tables, RunOK
    <3>2. runSeq' = runSeq
        BY <2>2, <3>1 DEF UpdatePublishRun, Inv, TypeOK, StoreTypeOK
    <3>3. Advanced(pub.run, "VALIDATED")
        BY <1>2, <2>2, <3>1, <3>2 DEF Validate, UpdatePublishRun, Advanced,
                                      ActiveStates
    <3> QED BY <3>1, <3>3 DEF Effect, ActiveStates
  <2> QED BY <1>2, <2>1, <2>2 DEF Validate
<1>3. ASSUME ReserveVersion(ok) PROVE Effect
  <2>1. CASE UNCHANGED verVars
      BY <1>3, <2>1 DEF ReserveVersion, Effect
  <2>2. CASE \E seq \in Seqs : NextVersionSeq(seq)
    <3>1. PICK seq \in Seqs : NextVersionSeq(seq)
        BY <2>2
    <3>2. Written(seq, "RESERVED")
        BY <1>3, <3>1, StoreAssumption
           DEF ReserveVersion, NextVersionSeq, IsNextSeq, Written, Seqs
    <3> QED BY <3>2 DEF Effect
  <2> QED BY <1>3, <2>1, <2>2 DEF ReserveVersion
<1>4. ASSUME MarkPublishing(ok) PROVE Effect
  <2>1. CASE UNCHANGED runVars
      BY <1>4, <2>1 DEF MarkPublishing, Effect
  <2>2. CASE UpdatePublishRun(pub.run, pub.seq, "PUBLISHING")
    <3>1. /\ pub.run \in RunIds /\ runState[pub.run] = "VALIDATED"
          /\ pub.seq \in Seqs /\ verState[pub.seq] = "RESERVED"
        BY <1>4 DEF MarkPublishing, At, Inv, Stage, RunSteps
    <3>2. Advanced(pub.run, "PUBLISHING")
        BY <1>4, <2>2, <3>1 DEF MarkPublishing, UpdatePublishRun, Advanced,
                                ActiveStates
    <3> QED BY <3>1, <3>2 DEF Effect, ActiveStates
  <2> QED BY <1>4, <2>1, <2>2 DEF MarkPublishing
<1>5. ASSUME Snapshot(ok) \/ Apply(ok) PROVE Effect
    BY <1>5 DEF Snapshot, Apply, Effect
<1>6. ASSUME RecordVersion(ok) \/ MarkFailed(ok) \/ MarkVersionConfirming(ok)
      PROVE  Effect
  <2>1. CASE UNCHANGED verVars
      BY <1>6, <2>1 DEF RecordVersion, MarkFailed, MarkVersionConfirming, Effect
  <2>2. CASE ~UNCHANGED verVars
    <3>1. /\ pub.seq \in Seqs /\ UNCHANGED runVars
          /\ verState[pub.seq] \in {"RESERVED", "publishing"}
        BY <1>6 DEF RecordVersion, MarkFailed, MarkVersionConfirming, At, Inv,
                    Stage, SeqSteps
    <3>2. PICK st \in {"publishing", "failed", "confirming"} :
            InsertVersion(pub.seq, CompileOf[pub.content], st, pub.rollbackOf)
        BY <1>6, <2>2 DEF RecordVersion, MarkFailed, MarkVersionConfirming
    <3>3. Written(pub.seq, st)
        BY <3>1, <3>2 DEF InsertVersion, Written
    <3> QED BY <3>1, <3>3 DEF Effect
  <2> QED BY <2>1, <2>2
<1>7. ASSUME WriteFailure(ok) PROVE Effect
  <2>1. CASE UNCHANGED runVars
      BY <1>7, <2>1 DEF WriteFailure, Effect
  <2>2. CASE UpdatePublishRun(pub.run, runSeq[pub.run], pub.to)
    <3>1. /\ pub.run \in RunIds /\ runState[pub.run] \in ActiveStates
          /\ pub.to \in {"VALIDATE_FAILED", "PUBLISH_FAILED"}
        BY <1>7 DEF WriteFailure, At, Inv, Stage, RunSteps, ActiveStates
    <3>2. runSeq' = runSeq
        BY <2>2, <3>1 DEF UpdatePublishRun, Inv, TypeOK, StoreTypeOK
    <3>3. FailedRun(pub.run, pub.to)
        BY <1>7, <2>2, <3>1, <3>2 DEF WriteFailure, UpdatePublishRun, FailedRun
    <3> QED BY <3>1, <3>3 DEF Effect
  <2> QED BY <1>7, <2>1, <2>2 DEF WriteFailure
<1>8. ASSUME MarkRunConfirming(ok) PROVE Effect
  <2>1. CASE UNCHANGED runVars
      BY <1>8, <2>1 DEF MarkRunConfirming, Effect
  <2>2. CASE UpdatePublishRun(pub.run, pub.seq, "CONFIRMING")
    <3>1. /\ pub.run \in RunIds /\ runState[pub.run] = "PUBLISHING"
          /\ runSeq[pub.run] = pub.seq
        BY <1>8 DEF MarkRunConfirming, At, Inv, Stage, RunSteps, SeqSteps
    <3>2. runSeq' = runSeq
        BY <2>2, <3>1 DEF UpdatePublishRun, Inv, TypeOK, StoreTypeOK
    <3>3. Advanced(pub.run, "CONFIRMING")
        BY <1>8, <2>2, <3>1, <3>2 DEF MarkRunConfirming, UpdatePublishRun,
                                      Advanced, ActiveStates
    <3> QED BY <3>1, <3>3 DEF Effect, ActiveStates
  <2> QED BY <1>8, <2>1, <2>2 DEF MarkRunConfirming
<1> QED BY <1>1, <1>2, <1>3, <1>4, <1>5, <1>6, <1>7, <1>8

\* What any step does to the tables, as the abstract ledger sees it.
LEMMA StepEffect == ASSUME Inv, [Next]_vars PROVE Effect
<1> USE DEF storeVars, runVars, verVars
<1>1. ASSUME handleConfirmEvent(TRUE) \/ handleConfirmEvent(FALSE) PROVE Effect
  <2>1. CASE UNCHANGED storeVars
      BY <2>1 DEF Effect
  <2>2. CASE ~UNCHANGED storeVars
    <3>1. /\ events # <<>> /\ UNCHANGED snap
          /\ \E r \in RunIds :
               /\ Concerns(Head(events), r)
               /\ \/ TransitionPublish(r, runSeq[r], "EFFECTIVE", "effective", TRUE)
                  \/ TransitionPublish(r, runSeq[r], "TIMEOUT", "timeout", FALSE)
        BY <1>1, <2>2 DEF handleConfirmEvent, fileVars
    <3>2. PICK r \in RunIds :
            /\ Concerns(Head(events), r)
            /\ \/ TransitionPublish(r, runSeq[r], "EFFECTIVE", "effective", TRUE)
               \/ TransitionPublish(r, runSeq[r], "TIMEOUT", "timeout", FALSE)
        BY <3>1
    <3>3. runState[r] = "CONFIRMING"
      <4>1. \E q \in RunIds : runState[q] = "CONFIRMING"
          BY <3>1, NoneConfirming
      <4> QED BY <3>2, <4>1 DEF Concerns, ActiveRuns, ActiveStates, Inv, Tables,
                                OneActiveRun
    <3>4. runSeq[r] \in Seqs
        BY <3>2 DEF Concerns, Inv, TypeOK, StoreTypeOK, Seqs
    <3>5. \/ Moved(r, runSeq[r], "EFFECTIVE", "effective", TRUE)
          \/ Moved(r, runSeq[r], "TIMEOUT", "timeout", FALSE)
      <4>1. CASE TransitionPublish(r, runSeq[r], "EFFECTIVE", "effective", TRUE)
          BY <3>1, <3>4, <4>1
             DEF TransitionPublish, Moved, Inv, TypeOK, StoreTypeOK, VerStates
      <4>2. CASE TransitionPublish(r, runSeq[r], "TIMEOUT", "timeout", FALSE)
          BY <3>1, <3>4, <4>2
             DEF TransitionPublish, Moved, Inv, TypeOK, StoreTypeOK, VerStates
      <4> QED BY <3>2, <4>1, <4>2
    <3> QED BY <3>3, <3>4, <3>5 DEF Decided, Effect
  <2> QED BY <2>1, <2>2
<1>2. ASSUME NEW r \in RunIds, Recheck(r) PROVE Effect
  <2>1. /\ runState[r] = "TIMEOUT" /\ UNCHANGED snap
        /\ TransitionPublish(r, runSeq[r], "CONFIRMING", "confirming", FALSE)
      BY <1>2 DEF Recheck, RecheckFrom, fileVars
  <2>2. runSeq[r] \in Seqs
      BY <2>1 DEF Inv, Tables, RunOK, TypeOK, StoreTypeOK, Seqs
  <2>3. ActiveRuns = {}
      BY <2>1 DEF TransitionPublish, Transitionable, ActiveRuns, ActiveStates
  <2>4. Moved(r, runSeq[r], "CONFIRMING", "confirming", FALSE)
      BY <2>1, <2>2
         DEF TransitionPublish, Moved, Inv, TypeOK, StoreTypeOK, VerStates
  <2> QED BY <2>1, <2>2, <2>3, <2>4 DEF Reopened, Effect
<1>3. ASSUME UNCHANGED storeVars PROVE Effect
    BY <1>3 DEF Effect
<1>4. CASE Edit
    BY <1>3, <1>4 DEF Edit, WriteDraft, ReplaceDraft, ExternalEdit, InstallDraft,
                      RollbackSource
<1>5. CASE Call
    BY <1>2, <1>3, <1>5 DEF Call, RequestPublish, PublishWithBase,
                            RollbackPublish, CancelRequest
<1>6. CASE CallStep
    BY <1>3, <1>6, CallEffect
       DEF CallStep, RestoreBackup, RestoreInstall, RestoreHash, LoadHash,
           LoadContent, Expect
<1>7. CASE HandleEvent
  <2>1. PICK ok \in BOOLEAN : handleConfirmEvent(ok)
      BY <1>7 DEF HandleEvent
  <2>2. CASE ok = TRUE
      BY <1>1, <2>1, <2>2
  <2>3. CASE ok = FALSE
      BY <1>1, <2>1, <2>3
  <2> QED BY <2>2, <2>3
<1>8. CASE TimeoutPasses \/ RefreshRead \/ RefreshApply
    BY <1>3, <1>8 DEF TimeoutPasses, RefreshRead, RefreshApply, StateStep
<1>9. CASE Environment
    BY <1>3, <1>9 DEF Environment, Crash, Start, EnvoyFetch, EnvoyRestart,
                      AdminFails, AdminRecovers
<1>10. CASE UNCHANGED vars
    BY <1>3, <1>10 DEF vars
<1> QED BY <1>4, <1>5, <1>6, <1>7, <1>8, <1>9, <1>10 DEF Next
-----------------------------------------------------------------------------
(* Finished runs and versions, and the abstract specification.             *)

Final ==
    /\ \A r \in RunIds :
         runState[r] \in {"EFFECTIVE", "VALIDATE_FAILED", "PUBLISH_FAILED"}
           => runState'[r] = runState[r] /\ runSeq'[r] = runSeq[r]
    /\ \A s \in Seqs :
         /\ verState[s] \in {"superseded", "failed"}
              => verState'[s] = verState[s]
         /\ verState[s] = "effective"
              => verState'[s] \in {"effective", "superseded"}

\* No step takes a finished run or a finished version out of its final
\* state (UpdatePublishRun and InsertVersion overwrite whatever they find).
THEOREM FinishedStaysFinished == Spec => TerminalIsFinal
<1>1. ASSUME Inv, [Next]_vars PROVE Final
  <2> USE DEF Inv, TypeOK, StoreTypeOK
  <2>1. CASE UNCHANGED <<runState, runSeq, verState>>
      BY <2>1 DEF Final
  <2>2. ASSUME NEW r \in RunIds, Submitted(r) PROVE Final
      BY <1>1, <2>2 DEF Submitted, Final
  <2>3. ASSUME NEW r \in RunIds, Decided(r) PROVE Final
    <3>1. verState[runSeq[r]] = "confirming"
        BY <1>1, <2>3 DEF Decided, Tables, RunOK, Seqs
    <3> QED BY <1>1, <2>3, <3>1 DEF Decided, Moved, Final
  <2>4. ASSUME NEW r \in RunIds, Reopened(r) PROVE Final
    <3>1. verState[runSeq[r]] = "timeout"
        BY <1>1, <2>4 DEF Reopened, Tables, RunOK, Seqs
    <3> QED BY <1>1, <2>4, <3>1 DEF Reopened, Moved, Final
  <2>5. ASSUME NEW r \in RunIds, NEW st \in ActiveStates, Advanced(r, st)
        PROVE  Final
      BY <1>1, <2>5 DEF Advanced, ActiveStates, Final
  <2>6. ASSUME NEW r \in RunIds, NEW st, FailedRun(r, st) PROVE Final
      BY <1>1, <2>6 DEF FailedRun, ActiveStates, Final
  <2>7. ASSUME NEW s \in Seqs, NEW st, Written(s, st) PROVE Final
      BY <1>1, <2>7 DEF Written, Final
  <2> QED BY <1>1, <2>1, <2>2, <2>3, <2>4, <2>5, <2>6, <2>7, StepEffect
          DEF Effect
<1>2. Inv /\ [Next]_vars => [Final]_vars
    BY <1>1
<1> QED BY <1>2, Invariance, PTL DEF Spec, TerminalIsFinal, Final

\* The runs whose version is effective are EFFECTIVE themselves.
LEMMA LiveIsEffective ==
    ASSUME Inv, NEW r \in RunIds
    PROVE  r \in LiveRuns <=> /\ runState[r] = "EFFECTIVE" /\ runSeq[r] \in Seqs
                              /\ verState[runSeq[r]] = "effective"
<1>1. r \in LiveRuns => runSeq[r] \in Seqs
    BY DEF LiveRuns, Inv, TypeOK, StoreTypeOK, Seqs
<1>2. ASSUME r \in LiveRuns PROVE runState[r] = "EFFECTIVE"
  <2>1. PICK q \in RunIds : runSeq[q] = runSeq[r] /\ runState[q] = "EFFECTIVE"
      BY <1>1, <1>2 DEF LiveRuns, Inv, Tables, VersionOK
  <2> QED BY <1>2, <2>1 DEF LiveRuns, Inv, Tables, RunsOwnVersions
<1> QED BY <1>1, <1>2 DEF LiveRuns, Seqs

\* Each step of the publish path is a step of the ledger or none.
LEMMA StepRefines ==
    ASSUME Inv, Inv', Effect
    PROVE  [Ledger!LedgerNext]_(Ledger!ledgerVars)
<1> DEFINE phase == [r \in RunIds |-> PhaseOf(runState[r])]
<1>1. CASE UNCHANGED <<runState, runSeq, verState>>
    BY <1>1 DEF Ledger!ledgerVars, LiveRuns
<1>2. ASSUME NEW r \in RunIds, Submitted(r) PROVE Ledger!Submit(r)
  <2>1. LiveRuns' = LiveRuns
      BY <1>2 DEF Submitted, LiveRuns
  <2>2. Ledger!InProgress = {}
      BY <1>2 DEF Submitted, Ledger!InProgress, ActiveRuns, PhaseOf, ActiveStates,
                  Inv, TypeOK, StoreTypeOK, RunStates
  <2>3. phase[r] = "none" /\ phase' = [phase EXCEPT ![r] = "active"]
      BY <1>2 DEF Submitted, PhaseOf, ActiveStates, Inv, TypeOK, StoreTypeOK
  <2> QED BY <2>1, <2>2, <2>3 DEF Ledger!Submit, Ledger!Move
<1>3. ASSUME NEW r \in RunIds, Decided(r)
      PROVE  Ledger!Confirm(r) \/ Ledger!TimeOut(r)
  <2>1. phase[r] = "active"
      BY <1>3 DEF Decided, PhaseOf, ActiveStates
  <2>2. verState[runSeq[r]] = "confirming"
      BY <1>3 DEF Decided, Inv, Tables, RunOK, Seqs
  <2>3. CASE Moved(r, runSeq[r], "EFFECTIVE", "effective", TRUE)
    <3>1. phase' = [phase EXCEPT ![r] = "effective"]
        BY <2>3 DEF Moved, PhaseOf, ActiveStates, Inv, TypeOK, StoreTypeOK
    <3>2. ASSUME NEW q \in RunIds PROVE q \in LiveRuns' <=> q = r
      <4>1. q \in LiveRuns' <=> /\ runSeq[q] # 0
                                /\ verState'[runSeq[q]] = "effective"
          BY <2>3 DEF Moved, LiveRuns
      <4>2. CASE q = r
          BY <1>3, <2>3, <4>1, <4>2 DEF Decided, Moved, Seqs
      <4>3. CASE q # r
        <5>1. runSeq[q] # 0 => runSeq[q] \in Seqs /\ runSeq[q] # runSeq[r]
            BY <1>3, <4>3 DEF Decided, Inv, TypeOK, StoreTypeOK, Seqs, Tables,
                              RunsOwnVersions
        <5> QED BY <2>3, <4>1, <4>3, <5>1 DEF Moved
      <4> QED BY <4>2, <4>3
    <3>3. LiveRuns' = {r}
        BY <3>2 DEF LiveRuns
    <3> QED BY <2>1, <3>1, <3>3 DEF Ledger!Confirm, Ledger!Move
  <2>4. CASE Moved(r, runSeq[r], "TIMEOUT", "timeout", FALSE)
    <3>1. phase' = [phase EXCEPT ![r] = "timeout"]
        BY <2>4 DEF Moved, PhaseOf, ActiveStates, Inv, TypeOK, StoreTypeOK
    <3>2. LiveRuns' = LiveRuns
        BY <1>3, <2>2, <2>4 DEF Decided, Moved, LiveRuns, Inv, TypeOK,
            StoreTypeOK, Seqs
    <3> QED BY <2>1, <3>1, <3>2 DEF Ledger!TimeOut, Ledger!Move
  <2> QED BY <1>3, <2>3, <2>4 DEF Decided
<1>4. ASSUME NEW r \in RunIds, Reopened(r) PROVE Ledger!Recheck(r)
  <2>1. verState[runSeq[r]] = "timeout"
      BY <1>4 DEF Reopened, Inv, Tables, RunOK, Seqs
  <2>2. LiveRuns' = LiveRuns
      BY <1>4, <2>1 DEF Reopened, Moved, LiveRuns, Inv, TypeOK, StoreTypeOK, Seqs
  <2>3. Ledger!InProgress = {}
      BY <1>4 DEF Reopened, Ledger!InProgress, ActiveRuns, PhaseOf, ActiveStates,
                  Inv, TypeOK, StoreTypeOK, RunStates
  <2>4. phase[r] = "timeout" /\ phase' = [phase EXCEPT ![r] = "active"]
      BY <1>4 DEF Reopened, Moved, PhaseOf, ActiveStates, Inv, TypeOK, StoreTypeOK
  <2> QED BY <2>2, <2>3, <2>4 DEF Ledger!Recheck, Ledger!Move
<1>5. ASSUME NEW r \in RunIds, NEW st \in ActiveStates, Advanced(r, st)
      PROVE  UNCHANGED Ledger!ledgerVars
  <2>1. phase' = phase
      BY <1>5 DEF Advanced, PhaseOf, ActiveStates, Inv, TypeOK, StoreTypeOK
  <2>2. ASSUME NEW q \in RunIds PROVE q \in LiveRuns' <=> q \in LiveRuns
    <3>1. CASE q = r
      <4>1. q \notin LiveRuns
          BY <1>5, <3>1, LiveIsEffective DEF Advanced, ActiveStates
      <4>2. runState'[q] = st
          BY <1>5, <3>1 DEF Advanced, Inv, TypeOK, StoreTypeOK
      <4>3. q \notin LiveRuns'
        <5>1. CASE UNCHANGED runSeq
            BY <1>5, <4>1, <5>1 DEF Advanced, LiveRuns
        <5>2. CASE \E s \in Seqs : /\ verState[s] = "RESERVED"
                                   /\ runSeq' = [runSeq EXCEPT ![r] = s]
            BY <1>5, <3>1, <5>2 DEF Advanced, LiveRuns, Inv, TypeOK, StoreTypeOK
        <5> QED BY <1>5, <5>1, <5>2 DEF Advanced
      <4> QED BY <4>1, <4>3
    <3>2. CASE q # r
        BY <1>5, <3>2 DEF Advanced, LiveRuns, Inv, TypeOK, StoreTypeOK
    <3> QED BY <3>1, <3>2
  <2>3. LiveRuns' = LiveRuns
      BY <2>2 DEF LiveRuns
  <2> QED BY <2>1, <2>3 DEF Ledger!ledgerVars
<1>6. ASSUME NEW r \in RunIds, NEW st \in {"VALIDATE_FAILED", "PUBLISH_FAILED"},
             FailedRun(r, st)
      PROVE  Ledger!Fail(r)
  <2>1. LiveRuns' = LiveRuns
      BY <1>6 DEF FailedRun, LiveRuns
  <2>2. phase[r] = "active" /\ phase' = [phase EXCEPT ![r] = "failed"]
      BY <1>6 DEF FailedRun, PhaseOf, ActiveStates, Inv, TypeOK, StoreTypeOK
  <2> QED BY <2>1, <2>2 DEF Ledger!Fail, Ledger!Move
<1>7. ASSUME NEW s \in Seqs,
             NEW st \in {"RESERVED", "publishing", "failed", "confirming"},
             Written(s, st)
      PROVE  UNCHANGED Ledger!ledgerVars
  <2>1. LiveRuns' = LiveRuns
      BY <1>7 DEF Written, LiveRuns, Inv, TypeOK, StoreTypeOK, Seqs
  <2>2. phase' = phase
      BY <1>7 DEF Written
  <2> QED BY <2>1, <2>2 DEF Ledger!ledgerVars
<1> HIDE DEF phase
<1> QED BY <1>1, <1>2, <1>3, <1>4, <1>5, <1>6, <1>7
        DEF Effect, Ledger!LedgerNext

\* The publish path implements the abstract ledger for any number of runs,
\* versions, contents and faults: no sequence of crashes, cancelled requests
\* and failed writes makes a run skip a phase, or makes any version but the
\* one confirmed last the effective one.
THEOREM Refinement == Spec => ImplementsLedger
<1>1. Init => Ledger!LedgerInit
  <2> SUFFICES ASSUME Init PROVE Ledger!LedgerInit
      OBVIOUS
  <2>1. \A r \in RunIds : PhaseOf(runState[r]) = "none"
      BY DEF Init, StoreInit, PhaseOf, ActiveStates
  <2>2. LiveRuns = {}
      BY DEF Init, StoreInit, LiveRuns
  <2> QED BY <2>1, <2>2 DEF Ledger!LedgerInit
<1>2. Inv /\ [Next]_vars => [Ledger!LedgerNext]_(Ledger!ledgerVars)
    BY StepInv, StepEffect, StepRefines
<1> QED BY <1>1, <1>2, Invariance, PTL DEF Spec, ImplementsLedger,
           Ledger!LedgerSpec
=============================================================================
