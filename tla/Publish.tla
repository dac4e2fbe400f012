------------------------------ MODULE Publish ------------------------------
(***************************************************************************)
(* M-CONF's publish path composed with M-STORE, M-STATE, the deliverer,    *)
(* the draft directory, Envoy and the life of the esgw process.            *)
(*                                                                         *)
(* Sources: internal/conf/publish.go and rollback.go (the publisher),      *)
(* internal/conf/draft.go and replace.go (what it reads and what edits     *)
(* write), internal/api/config_handlers.go (who calls it), and             *)
(* internal/core/app.go (start-up).                                        *)
(*                                                                         *)
(* The publisher holds Publisher.mu from the first step to the last, so    *)
(* there is one program counter; draft edits hold ConfigAPI.mu, which a    *)
(* publish does not take, so they interleave with every step.              *)
(***************************************************************************)
EXTENDS Store, StateService

CONSTANTS
    Contents,       \* the contents the draft directory can have
    Empty,          \* the draft without a file
    NoContent,      \* "no snapshot", "no edit", "no base hash"
    Mixed,          \* contents with both native.yaml and config.d files
    Loadable,       \* contents that load without an error
    CompileOf,      \* the compiled output of a content, NoIR on an error
    Rejected,       \* <<type, output>>: Envoy refuses that part (NACK)
    MaxFaults,      \* bound on failures of the disk or the deliverer
    Crashes,        \* the process may die
    Cancels,        \* a client may disconnect during its request
    Outages,        \* Envoy may restart and its admin endpoint not answer
    Edits,          \* how the draft changes: by one file ("write"), by a
                    \* whole set ("replace"), behind the API ("external")
    Rechecks        \* Publisher.Recheck is called

ASSUME PublishAssumption ==
    /\ Empty \in Contents
    /\ NoContent \notin Contents
    /\ Mixed \subseteq Contents \ {Empty}
    /\ Loadable \subseteq Contents
    /\ CompileOf \in [Contents -> IRs \cup {NoIR}]
    /\ Empty \in Loadable /\ CompileOf[Empty] # NoIR
    /\ Rejected \subseteq Types \X IRs
    /\ MaxFaults \in Nat
    /\ Edits \subseteq {"write", "replace", "external"}
    /\ {Crashes, Cancels, Outages, Rechecks} \subseteq BOOLEAN

VARIABLES
    draft,          \* content of config.d / native.yaml
    editing,        \* content an API edit has staged but not installed
    snap,           \* versions/<seq>/config
    served,         \* the output the deliverer has accepted
    up,             \* the esgw process runs
    asked,          \* a publish call waits for Publisher.mu
    pc, pub,        \* the step and the locals of the call holding the mutex
    cancelled,      \* its request context is done
    faults          \* failures so far

fileVars    == <<draft, editing, snap>>
callVars    == <<pc, pub, cancelled>>
envVars     == <<envoy, adminUp>>
vars == <<storeVars, stateVars, fileVars, callVars, envVars,
          served, up, asked, faults>>

Steps == {"idle", "restore", "install", "rehash", "hash", "load", "create",
          "validate", "reserve", "publishing", "snapshot", "record", "apply",
          "markfailed", "fail", "confirming", "await", "expect"}

Bases == Contents \cup {NoContent}

\* run.ID, the base hash, the hash and the content read, run.VersionSeq,
\* rollbackOf, and the state failRun is about to write.
NoPub == [run |-> 0, base |-> NoContent, hash |-> NoContent,
          content |-> NoContent, seq |-> 0, rollbackOf |-> 0, to |-> "none"]

FileTypeOK ==
    /\ draft \in Contents
    /\ editing \in Contents \cup {NoContent}
    /\ snap \in [Seqs -> Contents \cup {NoContent}]

CallTypeOK ==
    /\ pc \in Steps
    /\ pub \in [run : 0..MaxRuns, base : Bases, hash : Bases, content : Bases,
                seq : 0..MaxSeq, rollbackOf : 0..MaxSeq,
                to : {"none", "VALIDATE_FAILED", "PUBLISH_FAILED"}]
    /\ cancelled \in BOOLEAN

TypeOK ==
    /\ StoreTypeOK
    /\ StateTypeOK
    /\ FileTypeOK
    /\ CallTypeOK
    /\ served \in IRs \cup {NoIR}
    /\ up \in BOOLEAN
    /\ asked \in BOOLEAN
    /\ faults \in 0..MaxFaults

-----------------------------------------------------------------------------
\* The draft passes LoadDraft, and compiles, without an error.
Compiles(c) == c \in Loadable /\ CompileOf[c] # NoIR
Bootable(c) == c \notin Mixed /\ Compiles(c)

\* Faulty variant: a rollback that publishes does not hold ConfigAPI.mu.
ApiLockedByEditOnly == editing # NoContent

\* ConfigAPI.mu is held by an API edit or by a rollback that publishes.
ApiLocked == editing # NoContent \/ pub.rollbackOf # 0

\* A call made with the request's context fails once that is done; otherwise
\* it fails only on a fault.
Outcome(ok) ==
    \/ ok /\ ~cancelled /\ UNCHANGED faults
    \/ ~ok /\ cancelled /\ UNCHANGED faults
    \/ ~ok /\ ~cancelled /\ faults < MaxFaults /\ faults' = faults + 1

At(step) == up /\ pc = step
Goto(step) == pc' = step /\ UNCHANGED <<pub, cancelled>>
\* The call returns and releases Publisher.mu.
Return == pc' = "idle" /\ pub' = NoPub /\ cancelled' = FALSE
\* failRun(state, err) is about to run.
FailRun(state) ==
    /\ pc' = "fail"
    /\ pub' = [pub EXCEPT !.to = state]
    /\ UNCHANGED cancelled

Init ==
    /\ StoreInit
    /\ StateInit
    /\ draft \in {c \in Contents : Bootable(c)}
    /\ editing = NoContent
    /\ snap = [s \in Seqs |-> NoContent]
    /\ served = CompileOf[draft]
    /\ up = TRUE
    /\ asked = FALSE
    /\ pc = "idle" /\ pub = NoPub /\ cancelled = FALSE
    /\ faults = 0

-----------------------------------------------------------------------------
(* Edits of the draft.                                                     *)

\* WriteDraftDocument and DeleteDraftDocument rename one validated file.
WriteDraft(c) ==
    /\ "write" \in Edits
    /\ up /\ ~ApiLocked
    /\ c \in Loadable \ Mixed
    /\ draft' = c
    /\ UNCHANGED <<storeVars, stateVars, callVars, envVars, editing, snap,
                   served, up, asked, faults>>

\* ReplaceDraft moves the old files to a backup ...
ReplaceDraft(c) ==
    /\ "replace" \in Edits
    /\ up /\ ~ApiLocked
    /\ c \in Loadable \ Mixed
    /\ editing' = c
    /\ draft' = Empty
    /\ UNCHANGED <<storeVars, stateVars, callVars, envVars, snap,
                   served, up, asked, faults>>

\* ... and then installs the staged ones.
InstallDraft ==
    /\ up /\ editing # NoContent /\ pub.rollbackOf = 0
    /\ draft' = editing
    /\ editing' = NoContent
    /\ UNCHANGED <<storeVars, stateVars, callVars, envVars, snap,
                   served, up, asked, faults>>

\* RollbackSource without a publish: a ReplaceDraft by a snapshot.  The
\* snapshot of an empty draft has no config directory to restore.
Restorable(seq) == snap[seq] \in Loadable \ (Mixed \cup {Empty})

RollbackSource(seq, force) ==
    /\ Restorable(seq)
    /\ force \/ draft = Empty
    /\ ReplaceDraft(snap[seq])

\* An editor or git changes the files; while esgw is down that is how an
\* operator repairs them.
ExternalEdit(c) ==
    /\ "external" \in Edits \/ ~up
    /\ editing = NoContent
    /\ draft' = c
    /\ UNCHANGED <<storeVars, stateVars, callVars, envVars, editing, snap,
                   served, up, asked, faults>>

-----------------------------------------------------------------------------
(* Calls.                                                                  *)

\* ConfigAPI.publish before it calls the publisher: NO_CHANGES when the
\* draft compiles to the effective version.
NoChanges ==
    /\ Bootable(draft)
    /\ \E s \in Seqs : LatestEffective(s) /\ verIR[s] = CompileOf[draft]

\* The bound on runs: a call that could need a new one waits forever.
RunAvailable == runState[MaxRuns] = "none"

RequestPublish ==
    /\ up /\ ~asked /\ RunAvailable
    /\ ~NoChanges
    /\ asked' = TRUE
    /\ UNCHANGED <<storeVars, stateVars, fileVars, callVars, envVars,
                   served, up, faults>>

\* PublishWithBase gets the mutex; `base' is what the client sent.
PublishWithBase(base) ==
    /\ At("idle") /\ asked /\ RunAvailable
    /\ asked' = FALSE
    /\ pc' = "hash"
    /\ pub' = [NoPub EXCEPT !.base = base]
    /\ UNCHANGED <<storeVars, stateVars, fileVars, envVars, cancelled,
                   served, up, faults>>

\* RollbackPublish gets both mutexes; `force' is checked with the source.
RollbackPublish(seq, force) ==
    /\ At("idle") /\ ~ApiLocked /\ RunAvailable
    /\ Restorable(seq)
    /\ force \/ draft = Empty
    /\ pc' = "restore"
    /\ pub' = [NoPub EXCEPT !.rollbackOf = seq]
    /\ UNCHANGED <<storeVars, stateVars, fileVars, envVars, cancelled,
                   served, up, asked, faults>>

\* RollbackSource's ReplaceDraft, in its two steps.
RestoreBackup ==
    /\ At("restore")
    /\ editing' = snap[pub.rollbackOf]
    /\ draft' = Empty
    /\ Goto("install")
    /\ UNCHANGED <<storeVars, stateVars, envVars, snap, served, up, asked,
                   faults>>

RestoreInstall ==
    /\ At("install")
    /\ draft' = editing
    /\ editing' = NoContent
    /\ Goto("rehash")
    /\ UNCHANGED <<storeVars, stateVars, envVars, snap, served, up, asked,
                   faults>>

\* The restored draft's hash becomes the base of the publish.
RestoreHash ==
    /\ At("rehash")
    /\ pc' = "hash"
    /\ pub' = [pub EXCEPT !.base = draft]
    /\ UNCHANGED <<storeVars, stateVars, fileVars, envVars, cancelled,
                   served, up, asked, faults>>

\* The client disconnects: the request's context is done.
CancelRequest ==
    /\ Cancels
    /\ up /\ pc # "idle" /\ ~cancelled
    /\ cancelled' = TRUE
    /\ UNCHANGED <<storeVars, stateVars, fileVars, envVars, pc, pub,
                   served, up, asked, faults>>

-----------------------------------------------------------------------------
(* publishWithBaseLocked.                                                  *)

\* LoadDraft lists and hashes the files ...
LoadHash ==
    /\ At("hash")
    /\ IF draft \in Mixed
       THEN Return
       ELSE /\ pc' = "load"
            /\ pub' = [pub EXCEPT !.hash = draft]
            /\ UNCHANGED cancelled
    /\ UNCHANGED <<storeVars, stateVars, fileVars, envVars, served, up,
                   asked, faults>>

\* ... and then reads them again to parse them.
LoadContent ==
    /\ At("load")
    /\ pc' = "create"
    /\ pub' = [pub EXCEPT !.content = draft]
    /\ UNCHANGED <<storeVars, stateVars, fileVars, envVars, cancelled,
                   served, up, asked, faults>>

\* ErrDraftChanged, ErrPublishActive, a store error, or a new run.  The two
\* hashes have served their purpose.
CreateRun(ok) ==
    /\ At("create")
    /\ Outcome(ok)
    /\ IF ok /\ pub.base \in {NoContent, pub.hash} /\ ~PublishActive
       THEN \E id \in RunIds :
              /\ CreatePublishRun(id)
              /\ pc' = "validate"
              /\ pub' = [pub EXCEPT !.run = id, !.base = NoContent,
                                    !.hash = NoContent]
              /\ UNCHANGED cancelled
       ELSE Return /\ UNCHANGED runVars
    /\ UNCHANGED <<verVars, stateVars, fileVars, envVars, served, up, asked>>

\* Load and compile errors fail the run; VALIDATED is written otherwise, and
\* if that write fails the call just returns.
Validate(ok) ==
    /\ At("validate")
    /\ IF Compiles(pub.content)
       THEN /\ Outcome(ok)
            /\ IF ok
               THEN UpdatePublishRun(pub.run, 0, "VALIDATED") /\ Goto("reserve")
               ELSE Return /\ UNCHANGED runVars
       ELSE ok /\ FailRun("VALIDATE_FAILED") /\ UNCHANGED <<runVars, faults>>
    /\ UNCHANGED <<verVars, stateVars, fileVars, envVars, served, up, asked>>

ReserveVersion(ok) ==
    /\ At("reserve")
    /\ Outcome(ok)
    /\ IF ok
       THEN \E seq \in Seqs :
              /\ NextVersionSeq(seq)
              /\ pc' = "publishing"
              /\ pub' = [pub EXCEPT !.seq = seq]
              /\ UNCHANGED cancelled
       ELSE FailRun("PUBLISH_FAILED") /\ UNCHANGED verVars
    /\ UNCHANGED <<runVars, stateVars, fileVars, envVars, served, up, asked>>

MarkPublishing(ok) ==
    /\ At("publishing")
    /\ Outcome(ok)
    /\ IF ok
       THEN /\ UpdatePublishRun(pub.run, pub.seq, "PUBLISHING")
            /\ Goto("snapshot")
       ELSE Return /\ UNCHANGED runVars
    /\ UNCHANGED <<verVars, stateVars, fileVars, envVars, served, up, asked>>

\* Faulty variant: an error of Snapshot is ignored.
SnapshotIgnoringError(ok) ==
    /\ At("snapshot")
    /\ \/ ok /\ UNCHANGED faults
       \/ ~ok /\ faults < MaxFaults /\ faults' = faults + 1
    /\ snap' = [snap EXCEPT ![pub.seq] = IF ok THEN draft ELSE @]
    /\ Goto("record")
    /\ UNCHANGED <<storeVars, stateVars, envVars, draft, editing, served, up,
                   asked>>

\* Snapshot copies the files the draft has now.  It uses no context.
Snapshot(ok) ==
    /\ At("snapshot")
    /\ \/ ok /\ UNCHANGED faults
       \/ ~ok /\ faults < MaxFaults /\ faults' = faults + 1
    /\ IF ok /\ snap[pub.seq] = NoContent
       THEN /\ snap' = [snap EXCEPT ![pub.seq] = draft]
            /\ Goto("record")
       ELSE FailRun("PUBLISH_FAILED") /\ UNCHANGED snap
    /\ UNCHANGED <<storeVars, stateVars, envVars, draft, editing, served, up,
                   asked>>

\* The diff is stored with the run and the version row is written.
RecordVersion(ok) ==
    /\ At("record")
    /\ Outcome(ok)
    /\ IF ok
       THEN /\ InsertVersion(pub.seq, CompileOf[pub.content], "publishing",
                             pub.rollbackOf)
            /\ Goto("apply")
       ELSE FailRun("PUBLISH_FAILED") /\ UNCHANGED verVars
    /\ UNCHANGED <<runVars, stateVars, fileVars, envVars, served, up, asked>>

\* Deliver.Apply.  A cancelled context does not force it to fail.
Apply(ok) ==
    /\ At("apply")
    /\ \/ ok /\ UNCHANGED faults
       \/ ~ok /\ cancelled /\ UNCHANGED faults
       \/ ~ok /\ ~cancelled /\ faults < MaxFaults /\ faults' = faults + 1
    /\ IF ok
       THEN /\ served' = CompileOf[pub.content]
            /\ Goto("confirming")
       ELSE /\ Goto("markfailed")
            /\ UNCHANGED served
    /\ UNCHANGED <<storeVars, stateVars, fileVars, envVars, up, asked>>

\* Faulty variant: the run's state is written into the version's row.
MarkFailedAsRun(ok) ==
    /\ At("markfailed")
    /\ Outcome(ok)
    /\ IF ok
       THEN InsertVersion(pub.seq, CompileOf[pub.content], "PUBLISH_FAILED",
                          pub.rollbackOf)
       ELSE UNCHANGED verVars
    /\ FailRun("PUBLISH_FAILED")
    /\ UNCHANGED <<runVars, stateVars, fileVars, envVars, served, up, asked>>

\* The version of a failed delivery is marked; an error is ignored.
MarkFailed(ok) ==
    /\ At("markfailed")
    /\ Outcome(ok)
    /\ IF ok
       THEN InsertVersion(pub.seq, CompileOf[pub.content], "failed",
                          pub.rollbackOf)
       ELSE UNCHANGED verVars
    /\ FailRun("PUBLISH_FAILED")
    /\ UNCHANGED <<runVars, stateVars, fileVars, envVars, served, up, asked>>

\* failRun: the error of the update is ignored.
WriteFailure(ok) ==
    /\ At("fail")
    /\ Outcome(ok)
    /\ IF ok
       THEN UpdatePublishRun(pub.run, runSeq[pub.run], pub.to)
       ELSE UNCHANGED runVars
    /\ Return
    /\ UNCHANGED <<verVars, stateVars, fileVars, envVars, served, up, asked>>

\* Faulty variant: the version row is filled from the draft of this moment.
MarkConfirmingFromDraft(ok) ==
    /\ At("confirming")
    /\ Outcome(ok)
    /\ IF ok
       THEN /\ InsertVersion(pub.seq, CompileOf[draft], "confirming",
                             pub.rollbackOf)
            /\ Goto("await")
       ELSE FailRun("PUBLISH_FAILED") /\ UNCHANGED verVars
    /\ UNCHANGED <<runVars, stateVars, fileVars, envVars, served, up, asked>>

MarkVersionConfirming(ok) ==
    /\ At("confirming")
    /\ Outcome(ok)
    /\ IF ok
       THEN /\ InsertVersion(pub.seq, CompileOf[pub.content], "confirming",
                             pub.rollbackOf)
            /\ Goto("await")
       ELSE FailRun("PUBLISH_FAILED") /\ UNCHANGED verVars
    /\ UNCHANGED <<runVars, stateVars, fileVars, envVars, served, up, asked>>

MarkRunConfirming(ok) ==
    /\ At("await")
    /\ Outcome(ok)
    /\ IF ok
       THEN /\ UpdatePublishRun(pub.run, pub.seq, "CONFIRMING")
            /\ Goto("expect")
       ELSE Return /\ UNCHANGED runVars
    /\ UNCHANGED <<verVars, stateVars, fileVars, envVars, served, up, asked>>

\* M-STATE is asked to watch for the version and the call returns.
Expect ==
    /\ At("expect")
    /\ ExpectVersion(verIR[pub.seq])
    /\ Return
    /\ UNCHANGED <<storeVars, fileVars, envVars, served, up, asked, faults>>

-----------------------------------------------------------------------------
(* Confirmation.                                                           *)

\* The active run whose version carries the event's IR.Version.
Concerns(e, r) ==
    /\ r \in ActiveRuns
    /\ runSeq[r] # 0
    /\ verIR[runSeq[r]] = e.expected

\* Faulty variant: a timeout supersedes the effective version too.
handleEventSupersedeAlways(ok) ==
    /\ At("idle") /\ events # <<>>
    /\ ok \/ faults < MaxFaults
    /\ faults' = IF ok THEN faults ELSE faults + 1
    /\ events' = Tail(events)
    /\ LET e == Head(events)
           hit == {r \in RunIds : Concerns(e, r)}
       IN IF ok /\ hit # {}
          THEN \E r \in hit :
                 IF e.status = "CONFIRMED"
                 THEN TransitionPublish(r, runSeq[r], "EFFECTIVE",
                                        "effective", TRUE)
                 ELSE TransitionPublish(r, runSeq[r], "TIMEOUT",
                                        "timeout", TRUE)
          ELSE UNCHANGED storeVars
    /\ UNCHANGED <<fileVars, callVars, envVars, expected, expired, refreshing,
                   dump, served, up, asked>>

\* The subscription goroutine takes one event; an error loses it.
handleConfirmEvent(ok) ==
    /\ At("idle") /\ events # <<>>
    /\ ok \/ faults < MaxFaults
    /\ faults' = IF ok THEN faults ELSE faults + 1
    /\ events' = Tail(events)
    /\ LET e == Head(events)
           hit == {r \in RunIds : Concerns(e, r)}
       IN IF ok /\ hit # {}
          THEN \E r \in hit :
                 IF e.status = "CONFIRMED"
                 THEN TransitionPublish(r, runSeq[r], "EFFECTIVE",
                                        "effective", TRUE)
                 ELSE TransitionPublish(r, runSeq[r], "TIMEOUT",
                                        "timeout", FALSE)
          ELSE UNCHANGED storeVars
    /\ UNCHANGED <<fileVars, callVars, envVars, expected, expired, refreshing,
                   dump, served, up, asked>>

\* Recheck of a run that is in one of the given states.
RecheckFrom(r, states) ==
    /\ Rechecks
    /\ At("idle") /\ runState[r] \in states
    /\ TransitionPublish(r, runSeq[r], "CONFIRMING", "confirming", FALSE)
    /\ pc' = "expect"
    /\ pub' = [NoPub EXCEPT !.run = r, !.seq = runSeq[r]]
    /\ UNCHANGED <<stateVars, fileVars, envVars, cancelled, served, up,
                   asked, faults>>

\* Faulty variants: a run that is already confirming, or one that failed
\* after its version was recorded, is rechecked.
RecheckConfirming(r) == RecheckFrom(r, {"TIMEOUT", "CONFIRMING"})
RecheckFailed(r) == runSeq[r] # 0 /\ RecheckFrom(r, {"TIMEOUT", "PUBLISH_FAILED"})

\* Recheck moves a timed-out run back and asks M-STATE again.
Recheck(r) == RecheckFrom(r, {"TIMEOUT"})

-----------------------------------------------------------------------------
(* M-STATE's own steps, the process, Envoy.                                *)

StateStep(A) ==
    /\ up /\ A
    /\ UNCHANGED <<storeVars, fileVars, callVars, envVars, served, up, asked,
                   faults>>

TimeoutPasses == StateStep(Deadline)
RefreshRead   == StateStep(ReadDump)
RefreshApply  == StateStep(FinishRefresh)

Crash ==
    /\ Crashes /\ up
    /\ up' = FALSE
    /\ LoseState
    /\ served' = NoIR
    /\ asked' = FALSE
    /\ editing' = NoContent
    /\ Return
    /\ UNCHANGED <<storeVars, envVars, draft, snap, faults>>

\* NewApp compiles the draft and delivers it; it refuses a draft with an
\* error.  Nothing is read back from publish_runs.
Start ==
    /\ ~up
    /\ Bootable(draft)
    /\ up' = TRUE
    /\ served' = CompileOf[draft]
    /\ UNCHANGED <<storeVars, stateVars, fileVars, callVars, envVars, asked,
                   faults>>

\* Envoy takes one type of the snapshot it is served.  What it refuses it
\* keeps in its old version.
EnvoyFetch(t) ==
    /\ up /\ served \notin {NoIR, envoy[t]}
    /\ <<t, served>> \notin Rejected
    /\ envoy' = [envoy EXCEPT ![t] = served]
    /\ UNCHANGED <<storeVars, stateVars, fileVars, callVars, adminUp, served,
                   up, asked, faults>>

\* Envoy starts anew, without dynamic resources.
EnvoyRestart ==
    /\ Outages
    /\ envoy' = [t \in Types |-> NoIR]
    /\ UNCHANGED <<storeVars, stateVars, fileVars, callVars, adminUp, served,
                   up, asked, faults>>

AdminFails ==
    /\ Outages /\ adminUp /\ adminUp' = FALSE
    /\ UNCHANGED <<storeVars, stateVars, fileVars, callVars, envoy, served, up,
                   asked, faults>>

AdminRecovers ==
    /\ ~adminUp /\ adminUp' = TRUE
    /\ UNCHANGED <<storeVars, stateVars, fileVars, callVars, envoy, served, up,
                   asked, faults>>

-----------------------------------------------------------------------------
\* A step of the call that holds Publisher.mu.
CallStep ==
    \/ RestoreBackup \/ RestoreInstall \/ RestoreHash
    \/ LoadHash \/ LoadContent \/ Expect
    \/ \E ok \in BOOLEAN :
         \/ CreateRun(ok) \/ Validate(ok) \/ ReserveVersion(ok)
         \/ MarkPublishing(ok) \/ Snapshot(ok) \/ RecordVersion(ok)
         \/ Apply(ok) \/ MarkFailed(ok) \/ WriteFailure(ok)
         \/ MarkVersionConfirming(ok) \/ MarkRunConfirming(ok)

Edit ==
    \/ \E c \in Contents : WriteDraft(c) \/ ReplaceDraft(c) \/ ExternalEdit(c)
    \/ InstallDraft
    \/ \E s \in Seqs, force \in BOOLEAN : RollbackSource(s, force)

Call ==
    \/ RequestPublish
    \/ \E b \in Bases : PublishWithBase(b)
    \/ \E s \in Seqs, force \in BOOLEAN : RollbackPublish(s, force)
    \/ \E r \in RunIds : Recheck(r)
    \/ CancelRequest

HandleEvent == \E ok \in BOOLEAN : handleConfirmEvent(ok)

Environment ==
    \/ Crash \/ Start
    \/ \E t \in Types : EnvoyFetch(t)
    \/ EnvoyRestart \/ AdminFails \/ AdminRecovers

Next ==
    \/ Edit \/ Call \/ CallStep \/ HandleEvent
    \/ TimeoutPasses \/ RefreshRead \/ RefreshApply
    \/ Environment

Spec == Init /\ [][Next]_vars

\* The goroutines keep running, time passes, and polls that repeat forever
\* meet Envoy's admin endpoint while it answers.
Fairness ==
    /\ WF_vars(CallStep)
    /\ SF_vars(HandleEvent)
    /\ WF_vars(InstallDraft)
    /\ WF_vars(TimeoutPasses)
    /\ SF_vars(RefreshRead)
    /\ WF_vars(RefreshApply)
    /\ WF_vars(AdminRecovers)

FairSpec == Spec /\ Fairness
=============================================================================
