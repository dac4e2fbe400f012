---------------------------- MODULE SourceProofs ----------------------------
(***************************************************************************)
(* Proofs about what a published version holds: its source and its output  *)
(* are never rewritten, and a rollback holds the source it restores.       *)
(***************************************************************************)
EXTENDS PublishProofs

-----------------------------------------------------------------------------
(* The strengthenings.                                                     *)

\* The steps that write the row of a version again.
RewriteSteps == {"apply", "markfailed", "confirming"}

\* A version that was only reserved names no output, and a row that will be
\* written again names the output the call has compiled.
Recorded ==
    /\ \A s \in Seqs : ~Visible(s) => verIR[s] = NoIR
    /\ pc \in RewriteSteps => verIR[pub.seq] = CompileOf[pub.content]

\* The step of VersionsImmutable.
Kept ==
    \A s \in Seqs :
        /\ snap[s] # NoContent => snap'[s] = snap[s]
        /\ verIR[s] # NoIR => verIR'[s] = verIR[s]

\* The steps of a rollback between the installed draft and its snapshot, and
\* those from the snapshot to the last write of the version's row.
UnsnappedSteps == {"rehash", "hash", "load", "create", "validate", "reserve",
                   "publishing", "snapshot"}
SnappedSteps   == {"record", "apply", "markfailed", "confirming"}

\* While a rollback that publishes holds both mutexes, the draft is the source
\* it restores, then the snapshot is.
Restoring ==
    pub.rollbackOf # 0 =>
        /\ up
        /\ snap[pub.rollbackOf] # NoContent
        /\ editing = IF pc = "install" THEN snap[pub.rollbackOf] ELSE NoContent
        /\ pc \in UnsnappedSteps => draft = snap[pub.rollbackOf]
        /\ pc \in SnappedSteps => snap[pub.seq] = snap[pub.rollbackOf]

\* Rows that say they are a rollback of a version that has a source hold it.
Restored ==
    \A s \in Seqs : Visible(s) /\ verRollback[s] # 0 =>
        snap[verRollback[s]] # NoContent /\ snap[s] = snap[verRollback[s]]

-----------------------------------------------------------------------------
(* VersionsImmutable.                                                      *)

\* A step that writes no version and no snapshot, and enters no step that
\* writes a row again.
LEMMA RecordedFrame ==
    ASSUME Recorded, UNCHANGED <<verVars, snap>>,
           pc' \in RewriteSteps => pc \in RewriteSteps /\ UNCHANGED pub
    PROVE  Recorded' /\ Kept
  BY DEF Recorded, Kept, Visible, verVars

\* Edits, calls and the environment write no version.
LEMMA RecordedOther ==
    ASSUME Inv, Recorded,
           \/ Edit \/ RequestPublish \/ CancelRequest \/ Environment
           \/ \E b \in Bases : PublishWithBase(b)
           \/ \E s \in Seqs, force \in BOOLEAN : RollbackPublish(s, force)
           \/ TimeoutPasses \/ RefreshRead \/ RefreshApply
           \/ UNCHANGED vars
    PROVE  Recorded' /\ Kept
<1> USE RecordedFrame DEF fileVars, storeVars, callVars, RewriteSteps
<1>1. CASE Edit
  BY <1>1 DEF Edit, WriteDraft, ReplaceDraft, ExternalEdit, InstallDraft, RollbackSource
<1>2. CASE RequestPublish \/ CancelRequest \/ UNCHANGED vars
  BY <1>2 DEF RequestPublish, CancelRequest, vars
<1>3. CASE \E b \in Bases : PublishWithBase(b)
  BY <1>3 DEF PublishWithBase
<1>4. CASE \E s \in Seqs, force \in BOOLEAN : RollbackPublish(s, force)
  BY <1>4 DEF RollbackPublish
<1>5. CASE TimeoutPasses \/ RefreshRead \/ RefreshApply
  BY <1>5 DEF TimeoutPasses, RefreshRead, RefreshApply, StateStep
<1>6. CASE Environment
  BY <1>6 DEF Environment, Crash, Return, Start, EnvoyFetch, EnvoyRestart, AdminFails, AdminRecovers
<1> QED BY <1>1, <1>2, <1>3, <1>4, <1>5, <1>6

\* A step that only moves states of rows and makes none invisible.
LEMMA RecordedMoved ==
    ASSUME Recorded, UNCHANGED <<verIR, snap>>, pc' \notin RewriteSteps,
           \A s \in Seqs : Visible(s) => Visible(s)'
    PROVE  Recorded' /\ Kept
  BY DEF Recorded, Kept

\* The write of a version's row: for the first time, or again with its output.
LEMMA RecordedInsert ==
    ASSUME Inv, Recorded, pc \in {"record"} \cup RewriteSteps,
           NEW st \in {"publishing", "failed", "confirming"},
           InsertVersion(pub.seq, CompileOf[pub.content], st, pub.rollbackOf),
           UNCHANGED snap, pub'.seq = pub.seq, pub'.content = pub.content
    PROVE  Recorded' /\ Kept
<1>1. pub.seq \in Seqs /\ (pc = "record" => verState[pub.seq] = "RESERVED")
  BY DEF Inv, Stage, SeqSteps, RewriteSteps
<1>2. verIR[pub.seq] \in {NoIR, CompileOf[pub.content]}
  BY <1>1 DEF Recorded, Visible
<1>3. /\ verIR'[pub.seq] = CompileOf[pub.content] /\ verState'[pub.seq] = st
      /\ \A s \in Seqs : s # pub.seq => verIR'[s] = verIR[s] /\ verState'[s] = verState[s]
  BY <1>1 DEF InsertVersion, Inv, TypeOK, StoreTypeOK
<1>4. Recorded'
  BY <1>1, <1>3 DEF Recorded, Visible
<1>5. Kept
  BY <1>1, <1>2, <1>3 DEF Kept
<1> QED BY <1>4, <1>5

\* The steps of a call.
LEMMA RecordedCall ==
    ASSUME Inv, Recorded, CallStep
    PROVE  Recorded' /\ Kept
<1> USE DEF fileVars, storeVars, At
<1>1. CASE RestoreBackup \/ RestoreInstall \/ RestoreHash \/ LoadHash \/ LoadContent \/ Expect
  BY <1>1, RecordedFrame
     DEF RestoreBackup, RestoreInstall, RestoreHash, LoadHash, LoadContent, Expect, Goto, Return,
         RewriteSteps
<1>2. ASSUME NEW ok \in BOOLEAN, CreateRun(ok) \/ Validate(ok) \/ MarkPublishing(ok)
      PROVE  Recorded' /\ Kept
  BY <1>2, RecordedFrame
     DEF CreateRun, Validate, MarkPublishing, Goto, Return, FailRun, RewriteSteps
<1>3. ASSUME NEW ok \in BOOLEAN, WriteFailure(ok) \/ MarkRunConfirming(ok)
      PROVE  Recorded' /\ Kept
  BY <1>3, RecordedFrame DEF WriteFailure, MarkRunConfirming, Goto, Return, RewriteSteps
<1>4. ASSUME NEW ok \in BOOLEAN, Apply(ok)
      PROVE  Recorded' /\ Kept
  BY <1>4, RecordedFrame DEF Apply, Goto, RewriteSteps
<1>5. ASSUME NEW ok \in BOOLEAN, ReserveVersion(ok)
      PROVE  Recorded' /\ Kept
  <2>1. UNCHANGED <<verIR, snap>> /\ pc' \notin RewriteSteps
    BY <1>5 DEF ReserveVersion, NextVersionSeq, FailRun, RewriteSteps, verVars
  <2>2. \/ verState' = verState
        \/ \E seq \in Seqs : IsNextSeq(seq) /\ verState' = [verState EXCEPT ![seq] = "RESERVED"]
    BY <1>5 DEF ReserveVersion, NextVersionSeq, verVars
  <2>3. \A seq \in Seqs : IsNextSeq(seq) => verState[seq] = "none"
    BY StoreAssumption DEF IsNextSeq, Seqs
  <2>4. \A s \in Seqs : Visible(s) => Visible(s)'
    BY <2>2, <2>3 DEF Visible, Inv, TypeOK, StoreTypeOK
  <2> QED BY <2>1, <2>4, RecordedMoved
<1>6. ASSUME NEW ok \in BOOLEAN, Snapshot(ok)
      PROVE  Recorded' /\ Kept
  <2>1. UNCHANGED verVars /\ pc' \notin RewriteSteps
    BY <1>6 DEF Snapshot, Goto, FailRun, RewriteSteps
  <2>2. \/ snap' = snap
        \/ snap[pub.seq] = NoContent /\ snap' = [snap EXCEPT ![pub.seq] = draft]
    BY <1>6 DEF Snapshot
  <2>3. \A s \in Seqs : snap[s] # NoContent => snap'[s] = snap[s]
    BY <2>2 DEF Inv, TypeOK, FileTypeOK
  <2> QED BY <2>1, <2>3 DEF Recorded, Kept, Visible, verVars
<1>7. ASSUME NEW ok \in BOOLEAN, RecordVersion(ok)
      PROVE  Recorded' /\ Kept
  BY <1>7, RecordedFrame, RecordedInsert DEF RecordVersion, Goto, FailRun, RewriteSteps
<1>8. ASSUME NEW ok \in BOOLEAN, MarkVersionConfirming(ok)
      PROVE  Recorded' /\ Kept
  BY <1>8, RecordedFrame, RecordedInsert DEF MarkVersionConfirming, Goto, FailRun, RewriteSteps
<1>9. ASSUME NEW ok \in BOOLEAN, MarkFailed(ok)
      PROVE  Recorded' /\ Kept
  <2>1. pub'.seq = pub.seq /\ pub'.content = pub.content /\ UNCHANGED snap
    BY <1>9 DEF MarkFailed, FailRun, Inv, TypeOK, CallTypeOK
  <2> QED BY <1>9, <2>1, RecordedFrame, RecordedInsert DEF MarkFailed, FailRun, RewriteSteps
<1> QED BY <1>1, <1>2, <1>3, <1>4, <1>5, <1>6, <1>7, <1>8, <1>9 DEF CallStep

\* Every step keeps the sources and the outputs of the versions.
LEMMA RecordedStep ==
    ASSUME Inv, Recorded, [Next]_vars
    PROVE  Recorded' /\ Kept
<1>1. CASE CallStep
  BY <1>1, RecordedCall
<1>2. ASSUME NEW ok \in BOOLEAN, handleConfirmEvent(ok)
      PROVE  Recorded' /\ Kept
  <2>1. UNCHANGED <<snap, pc, pub>> /\ pc' \notin RewriteSteps
    BY <1>2 DEF handleConfirmEvent, fileVars, callVars, At, RewriteSteps
  <2>2. CASE UNCHANGED storeVars
    BY <2>1, <2>2, RecordedFrame DEF storeVars
  <2>3. ASSUME NEW r \in RunIds,
               \/ TransitionPublish(r, runSeq[r], "EFFECTIVE", "effective", TRUE)
               \/ TransitionPublish(r, runSeq[r], "TIMEOUT", "timeout", FALSE)
        PROVE  Recorded' /\ Kept
    BY <2>1, <2>3, RecordedMoved DEF TransitionPublish, Visible
  <2> QED BY <1>2, <2>2, <2>3 DEF handleConfirmEvent
<1>3. ASSUME NEW r \in RunIds, Recheck(r)
      PROVE  Recorded' /\ Kept
  <2>1. UNCHANGED snap /\ pc' \notin RewriteSteps
    BY <1>3 DEF Recheck, RecheckFrom, fileVars, RewriteSteps
  <2>2. UNCHANGED verIR /\ \A s \in Seqs : Visible(s) => Visible(s)'
    BY <1>3 DEF Recheck, RecheckFrom, TransitionPublish, Visible
  <2> QED BY <2>1, <2>2, RecordedMoved
<1> QED BY <1>1, <1>2, <1>3, RecordedOther DEF Next, HandleEvent, Call

\* A published version is immutable: neither its source nor the output its row
\* names is rewritten, although the row is written three times.
THEOREM VersionsStay == Spec => VersionsImmutable
<1>1. Init => Recorded
  BY DEF Init, StoreInit, Recorded, RewriteSteps
<1>2. Inv /\ Recorded /\ [Next]_vars => Recorded'
  BY RecordedStep
<1>3. Spec => []Recorded
  BY <1>1, <1>2, Invariance, PTL DEF Spec
<1>4. ASSUME Inv, Recorded, [Next]_vars PROVE [Kept]_vars
  BY <1>4, RecordedStep
<1>5. Spec => [][Kept]_vars
  BY <1>3, <1>4, Invariance, PTL DEF Spec
<1> QED BY <1>5 DEF VersionsImmutable, Kept

-----------------------------------------------------------------------------
(* RollbackReproduces.                                                     *)

\* Rows keep their source when none is written.
LEMMA RestoredFrame ==
    ASSUME Inv, Restored, Kept, UNCHANGED verRollback,
           \A s \in Seqs : Visible(s)' => Visible(s)
    PROVE  Restored'
<1> SUFFICES ASSUME NEW s \in Seqs, Visible(s)', verRollback'[s] # 0
             PROVE  snap'[verRollback'[s]] # NoContent /\ snap'[s] = snap'[verRollback'[s]]
  BY DEF Restored, Visible
<1>1. Visible(s) /\ verRollback'[s] = verRollback[s] /\ verRollback[s] \in Seqs
  BY StoreAssumption DEF Inv, TypeOK, StoreTypeOK, Seqs
<1>2. snap[verRollback[s]] # NoContent /\ snap[s] = snap[verRollback[s]]
  BY <1>1 DEF Restored
<1>3. snap'[verRollback[s]] = snap[verRollback[s]] /\ snap'[s] = snap[s]
  BY <1>1, <1>2 DEF Kept
<1> QED BY <1>1, <1>2, <1>3

\* The row of a rollback's version is written with the source in place.
LEMMA RestoredInsert ==
    ASSUME Inv, Restored, Restoring, pc \in SnappedSteps, NEW ir, NEW st,
           InsertVersion(pub.seq, ir, st, pub.rollbackOf), UNCHANGED snap
    PROVE  Restored'
<1>1. pub.seq \in Seqs
  BY DEF Inv, Stage, SeqSteps, SnappedSteps
<1>2. /\ verRollback'[pub.seq] = pub.rollbackOf
      /\ \A s \in Seqs : s # pub.seq =>
             verRollback'[s] = verRollback[s] /\ verState'[s] = verState[s]
  BY <1>1 DEF InsertVersion, Inv, TypeOK, StoreTypeOK
<1>3. pub.rollbackOf # 0 =>
          snap[pub.rollbackOf] # NoContent /\ snap[pub.seq] = snap[pub.rollbackOf]
  BY DEF Restoring
<1> QED BY <1>2, <1>3 DEF Restored, Visible

\* No step of a row becomes visible but by the write of a row.
LEMMA RestoredStep ==
    ASSUME Inv, Recorded, Restored, Restoring, [Next]_vars
    PROVE  Restored'
<1>1. Kept
  BY RecordedStep
<1>2. CASE UNCHANGED verVars
  BY <1>1, <1>2, RestoredFrame DEF verVars, Visible
<1>3. ASSUME NEW r \in RunIds, NEW rstate, NEW vstate,
             \/ TransitionPublish(r, runSeq[r], rstate, vstate, TRUE)
             \/ TransitionPublish(r, runSeq[r], rstate, vstate, FALSE)
      PROVE  Restored'
  <2>1. UNCHANGED verRollback
    BY <1>3 DEF TransitionPublish
  <2>2. \A s \in Seqs : Visible(s)' => Visible(s)
    BY <1>3 DEF TransitionPublish, Transitionable, Visible
  <2> QED BY <1>1, <2>1, <2>2, RestoredFrame
<1>4. ASSUME NEW ok \in BOOLEAN, ReserveVersion(ok)
      PROVE  Restored'
  <2>1. UNCHANGED verRollback
    BY <1>4 DEF ReserveVersion, NextVersionSeq, verVars
  <2>2. \/ verState' = verState
        \/ \E seq \in Seqs : verState' = [verState EXCEPT ![seq] = "RESERVED"]
    BY <1>4 DEF ReserveVersion, NextVersionSeq, verVars
  <2>3. \A s \in Seqs : Visible(s)' => Visible(s)
    BY <2>2 DEF Visible, Inv, TypeOK, StoreTypeOK
  <2> QED BY <1>1, <2>1, <2>3, RestoredFrame
<1>5. ASSUME NEW ok \in BOOLEAN, RecordVersion(ok) \/ MarkFailed(ok) \/ MarkVersionConfirming(ok)
      PROVE  Restored'
  <2>1. CASE UNCHANGED verVars
    BY <1>2, <2>1
  <2>2. CASE ~UNCHANGED verVars
    <3>1. pc \in SnappedSteps /\ UNCHANGED snap
      BY <1>5 DEF RecordVersion, MarkFailed, MarkVersionConfirming, At, SnappedSteps, fileVars
    <3>2. \E st \in {"publishing", "failed", "confirming"} :
              InsertVersion(pub.seq, CompileOf[pub.content], st, pub.rollbackOf)
      BY <1>5, <2>2 DEF RecordVersion, MarkFailed, MarkVersionConfirming
    <3> QED BY <3>1, <3>2, RestoredInsert
  <2> QED BY <2>1, <2>2
<1>6. CASE Edit \/ Environment \/ TimeoutPasses \/ RefreshRead \/ RefreshApply \/ UNCHANGED vars
  <2>1. UNCHANGED verVars
    BY <1>6 DEF Edit, WriteDraft, ReplaceDraft, ExternalEdit, InstallDraft, RollbackSource,
                Environment, Crash, Start, EnvoyFetch, EnvoyRestart, AdminFails, AdminRecovers,
                TimeoutPasses, RefreshRead, RefreshApply, StateStep, vars, storeVars
  <2> QED BY <1>2, <2>1
<1>7. CASE Call
  <2>1. CASE \E r \in RunIds : Recheck(r)
    BY <1>3, <2>1 DEF Recheck, RecheckFrom
  <2>2. CASE ~\E r \in RunIds : Recheck(r)
    BY <1>2, <1>7, <2>2
       DEF Call, RequestPublish, PublishWithBase, RollbackPublish, CancelRequest, storeVars
  <2> QED BY <2>1, <2>2
<1>8. CASE HandleEvent
  <2>1. CASE UNCHANGED storeVars
    BY <1>2, <2>1 DEF storeVars
  <2>2. CASE \E r \in RunIds :
               \/ TransitionPublish(r, runSeq[r], "EFFECTIVE", "effective", TRUE)
               \/ TransitionPublish(r, runSeq[r], "TIMEOUT", "timeout", FALSE)
    BY <1>3, <2>2
  <2> QED BY <1>8, <2>1, <2>2 DEF HandleEvent, handleConfirmEvent
<1>9. CASE CallStep
  <2>1. CASE RestoreBackup \/ RestoreInstall \/ RestoreHash \/ LoadHash \/ LoadContent \/ Expect
    BY <1>2, <2>1
       DEF RestoreBackup, RestoreInstall, RestoreHash, LoadHash, LoadContent, Expect, storeVars
  <2>2. ASSUME NEW ok \in BOOLEAN,
               \/ CreateRun(ok) \/ Validate(ok) \/ MarkPublishing(ok) \/ Snapshot(ok)
               \/ Apply(ok) \/ WriteFailure(ok) \/ MarkRunConfirming(ok)
        PROVE  Restored'
    BY <1>2, <2>2
       DEF CreateRun, Validate, MarkPublishing, Snapshot, Apply, WriteFailure, MarkRunConfirming,
           storeVars
  <2> QED BY <1>4, <1>5, <1>9, <2>1, <2>2 DEF CallStep
<1> QED BY <1>6, <1>7, <1>8, <1>9 DEF Next

\* A step that keeps the rollback and the files, and does not pass the install
\* or the snapshot.
LEMMA RestoringFrame ==
    ASSUME Restoring, pub'.rollbackOf = pub.rollbackOf, UNCHANGED <<draft, editing, snap, up>>,
           pc' = "install" <=> pc = "install",
           pc' \in UnsnappedSteps => pc \in UnsnappedSteps,
           pc' \in SnappedSteps => pc \in SnappedSteps /\ pub'.seq = pub.seq
    PROVE  Restoring'
  BY DEF Restoring

\* The steps of a call that restores and publishes.
LEMMA RestoringCall ==
    ASSUME Inv, Restoring, CallStep
    PROVE  Restoring'
<1> USE DEF At, fileVars, UnsnappedSteps, SnappedSteps
<1>0. pub.rollbackOf \in 0..MaxSeq /\ NoPub.rollbackOf = 0
  BY DEF Inv, TypeOK, CallTypeOK, NoPub
<1>1. ASSUME Return PROVE Restoring'
  BY <1>0, <1>1 DEF Return, Restoring
<1>2. CASE RestoreBackup
  BY <1>2 DEF RestoreBackup, Goto, Restoring
<1>3. CASE RestoreInstall
  BY <1>3 DEF RestoreInstall, Goto, Restoring
<1>4. CASE RestoreHash \/ LoadHash \/ LoadContent \/ Expect
  <2>1. ASSUME ~Return PROVE pub'.rollbackOf = pub.rollbackOf
    BY <1>4, <2>1 DEF RestoreHash, LoadHash, LoadContent, Expect, Inv, TypeOK, CallTypeOK
  <2> QED BY <1>1, <1>4, <2>1, RestoringFrame DEF RestoreHash, LoadHash, LoadContent, Expect
<1>5. ASSUME NEW ok \in BOOLEAN,
             \/ CreateRun(ok) \/ Validate(ok) \/ ReserveVersion(ok) \/ MarkPublishing(ok)
             \/ WriteFailure(ok) \/ MarkRunConfirming(ok)
      PROVE  Restoring'
  <2>1. ASSUME ~Return PROVE pub'.rollbackOf = pub.rollbackOf
    BY <1>5, <2>1
       DEF CreateRun, Validate, ReserveVersion, MarkPublishing, WriteFailure, MarkRunConfirming,
           Goto, FailRun, Inv, TypeOK, CallTypeOK
  <2>2. ASSUME ~Return
        PROVE  /\ UNCHANGED <<draft, editing, snap, up>>
               /\ pc \in UnsnappedSteps \cup {"await"}
               /\ pc' \in {"validate", "reserve", "publishing", "snapshot", "fail", "expect"}
               /\ pc = "await" => pc' \in {"fail", "expect"}
    BY <1>5, <2>2
       DEF CreateRun, Validate, ReserveVersion, MarkPublishing, WriteFailure, MarkRunConfirming,
           Goto, FailRun
  <2> QED BY <1>1, <2>1, <2>2, RestoringFrame
<1>6. ASSUME NEW ok \in BOOLEAN,
             RecordVersion(ok) \/ Apply(ok) \/ MarkFailed(ok) \/ MarkVersionConfirming(ok)
      PROVE  Restoring'
  <2>1. pub'.rollbackOf = pub.rollbackOf /\ pub'.seq = pub.seq
    BY <1>6
       DEF RecordVersion, Apply, MarkFailed, MarkVersionConfirming, Goto, FailRun,
           Inv, TypeOK, CallTypeOK
  <2>2. /\ UNCHANGED <<draft, editing, snap, up>>
        /\ pc \in SnappedSteps
        /\ pc' \in {"apply", "confirming", "markfailed", "fail", "await"}
    BY <1>6 DEF RecordVersion, Apply, MarkFailed, MarkVersionConfirming, Goto, FailRun
  <2> QED BY <2>1, <2>2, RestoringFrame
<1>7. ASSUME NEW ok \in BOOLEAN, Snapshot(ok)
      PROVE  Restoring'
  <2>1. CASE FailRun("PUBLISH_FAILED") /\ UNCHANGED snap
    <3>1. pub'.rollbackOf = pub.rollbackOf /\ pc' = "fail" /\ pc = "snapshot"
      BY <1>7, <2>1 DEF Snapshot, FailRun, Inv, TypeOK, CallTypeOK
    <3> QED BY <1>7, <2>1, <3>1, RestoringFrame DEF Snapshot
  <2>2. CASE /\ snap[pub.seq] = NoContent
             /\ snap' = [snap EXCEPT ![pub.seq] = draft] /\ Goto("record")
    <3>1. pub.seq \in Seqs /\ pc = "snapshot" /\ pc' = "record" /\ UNCHANGED <<pub, editing, up>>
      BY <1>7, <2>2 DEF Snapshot, Goto, Inv, Stage, SeqSteps
    <3>2. snap'[pub.seq] = draft
      BY <2>2, <3>1 DEF Inv, TypeOK, FileTypeOK
    <3>3. ASSUME pub.rollbackOf # 0
          PROVE  /\ snap[pub.rollbackOf] # NoContent /\ draft = snap[pub.rollbackOf]
                 /\ snap'[pub.rollbackOf] = snap[pub.rollbackOf]
      <4>1. pub.rollbackOf \in Seqs
        BY <1>0, <3>3, StoreAssumption DEF Seqs
      <4>2. snap[pub.rollbackOf] # NoContent /\ draft = snap[pub.rollbackOf]
        BY <3>1, <3>3 DEF Restoring
      <4> QED BY <2>2, <4>1, <4>2 DEF Inv, TypeOK, FileTypeOK
    <3> QED BY <3>1, <3>2, <3>3 DEF Restoring
  <2> QED BY <1>7, <2>1, <2>2 DEF Snapshot
<1> QED BY <1>2, <1>3, <1>4, <1>5, <1>6, <1>7 DEF CallStep

\* Without edits behind the API nothing disturbs a rollback.
LEMMA RestoringStep ==
    ASSUME "external" \notin Edits, Inv, Restoring, [Next]_vars
    PROVE  Restoring'
<1> USE DEF At, fileVars, callVars, UnsnappedSteps, SnappedSteps
<1>1. pub.rollbackOf \in 0..MaxSeq /\ NoPub.rollbackOf = 0
  BY DEF Inv, TypeOK, CallTypeOK, NoPub
<1>2. CASE CallStep
  BY <1>2, RestoringCall
<1>3. CASE Edit
  <2>1. UNCHANGED <<pub, pc, up, snap>>
    BY <1>3 DEF Edit, WriteDraft, ReplaceDraft, ExternalEdit, InstallDraft, RollbackSource
  <2>2. ASSUME pub.rollbackOf # 0, up PROVE FALSE
    BY <1>3, <2>2
       DEF Edit, WriteDraft, ReplaceDraft, ExternalEdit, InstallDraft, RollbackSource, ApiLocked
  <2> QED BY <2>1, <2>2 DEF Restoring
<1>4. CASE RequestPublish \/ CancelRequest \/ TimeoutPasses \/ RefreshRead \/ RefreshApply
           \/ HandleEvent \/ UNCHANGED vars
  BY <1>4, RestoringFrame
     DEF RequestPublish, CancelRequest, TimeoutPasses, RefreshRead, RefreshApply, StateStep,
         HandleEvent, handleConfirmEvent, vars
<1>5. ASSUME NEW b \in Bases, PublishWithBase(b) PROVE Restoring'
  BY <1>5 DEF PublishWithBase, NoPub, Restoring
<1>6. ASSUME NEW s \in Seqs, NEW force \in BOOLEAN, RollbackPublish(s, force) PROVE Restoring'
  <2>1. pub'.rollbackOf = s /\ pc' = "restore" /\ up /\ editing = NoContent
    BY <1>6 DEF RollbackPublish, NoPub, ApiLocked
  <2>2. UNCHANGED <<draft, editing, snap, up>> /\ snap[s] # NoContent
    BY <1>6, PublishAssumption DEF RollbackPublish, Restorable
  <2> QED BY <2>1, <2>2 DEF Restoring
<1>7. ASSUME NEW r \in RunIds, Recheck(r) PROVE Restoring'
  BY <1>7 DEF Recheck, RecheckFrom, NoPub, Restoring
<1>8. CASE Environment
  <2>1. CASE Crash
    BY <1>1, <2>1 DEF Crash, Return, Restoring
  <2>2. CASE Start
    BY <2>2 DEF Start, Restoring
  <2>3. CASE ~Crash /\ ~Start
    BY <1>8, <2>3, RestoringFrame
       DEF Environment, EnvoyFetch, EnvoyRestart, AdminFails, AdminRecovers
  <2> QED BY <2>1, <2>2, <2>3
<1> QED BY <1>2, <1>3, <1>4, <1>5, <1>6, <1>7, <1>8 DEF Next, Call

\* A version recorded as a rollback holds the source it restores, whatever is
\* edited through the API meanwhile: both mutexes are held.  Edits behind the
\* API, by an editor on the files, take no mutex and are excluded.
THEOREM RollbacksReproduce ==
    ASSUME "external" \notin Edits
    PROVE  Spec => []RollbackReproduces
<1> DEFINE SInv == Inv /\ Recorded /\ Restored /\ Restoring
<1>1. Init => SInv
  <2>1. Init => Recorded /\ Restored /\ Restoring
    BY DEF Init, StoreInit, Recorded, RewriteSteps, Restored, Visible, Restoring, NoPub
  <2> QED BY <2>1, InitInv
<1>2. SInv /\ [Next]_vars => SInv'
  BY StepInv, RecordedStep, RestoredStep, RestoringStep
<1>3. SInv => RollbackReproduces
  BY DEF Restored, Visible, RollbackReproduces
<1> HIDE DEF SInv
<1> QED BY <1>1, <1>2, <1>3, PTL DEF Spec
=============================================================================
