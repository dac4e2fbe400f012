--------------------------- MODULE StaticDelivery ---------------------------
(***************************************************************************)
(* M-DELIVER in static mode with a managed Envoy: internal/deliver/static  *)
(* composed with the supervisor and the life of the esgw process           *)
(* (internal/core/app.go).                                                 *)
(*                                                                         *)
(* Apply holds Server.mu from the write of the file to its last line, so   *)
(* one goroutine at a time is in it; Start and the monitors do not take    *)
(* that mutex and start Envoy from whatever the file holds.                *)
(***************************************************************************)
EXTENDS Supervisor

CONSTANT MaxBoots   \* bound on the starts of esgw

ASSUME DeliveryAssumption == MaxBoots \in Nat \ {0} /\ Versions # {}

VARIABLES
    delivered,      \* Server.status.Version
    wanted,         \* the version Apply is delivering
    previous,       \* what the file held before
    torn,           \* a failed write left the file unlike the status
    boots           \* starts so far

deliverVars == <<delivered, wanted, previous, torn>>
vars == <<supVars, deliverVars, boots>>

TypeOK ==
    /\ SupervisorTypeOK
    /\ delivered \in Versions /\ wanted \in Versions /\ previous \in Versions
    /\ torn \in BOOLEAN
    /\ boots \in 0..MaxBoots

\* A machine on which esgw has never run.
Init ==
    /\ up = FALSE
    /\ file \in Versions
    /\ record = NoRecord
    /\ copy = [t \in {Starter, Applier} |-> NoRecord]
    /\ pstate = [p \in Pids |-> "none"]
    /\ pepoch = [p \in Pids |-> 0]
    /\ pconf = [p \in Pids |-> file]
    /\ status = "idle" /\ current = 0 /\ restarting = FALSE /\ failures = 0
    /\ pc = [t \in Threads |-> "idle"]
    /\ target = [t \in Threads |-> 0]
    /\ accepted = FALSE
    /\ faults = 0 /\ crashes = 0
    /\ delivered = file /\ wanted = file /\ previous = file
    /\ torn = FALSE
    /\ boots = 0

-----------------------------------------------------------------------------
\* NewApp renders the draft without a restart, for no restarter is set yet;
\* Run then starts the supervisor while the API already serves.
Boot(v) ==
    /\ ~up /\ boots < MaxBoots
    /\ boots' = boots + 1
    /\ up' = TRUE
    /\ file' = v /\ delivered' = v /\ wanted' = v /\ previous' = v
    /\ torn' = FALSE
    /\ pc' = [pc EXCEPT ![Starter] = "load"]
    /\ UNCHANGED <<record, osVars, superVars, target, copy, accepted, faults,
                   crashes>>

\* The process ends, by a signal or a crash; Close signals nobody.
Close ==
    /\ up
    /\ Die
    /\ UNCHANGED <<file, record, osVars, accepted, faults, crashes,
                   deliverVars, boots>>

\* Apply writes the file.  A version that is already delivered is skipped,
\* and the bound on processes ends the deliveries.
Apply(v) ==
    /\ At(Applier, "idle")
    /\ v # delivered /\ ~Exhausted
    /\ previous' = file
    /\ wanted' = v
    /\ file' = v
    /\ Goto(Applier, "hot")
    /\ UNCHANGED <<up, record, osVars, superVars, target, copy, accepted,
                   faults, crashes, delivered, torn, boots>>

\* The write fails, before the rename or after it, and nothing is restored.
WriteFails(v) ==
    /\ At(Applier, "idle")
    /\ v # delivered /\ Attempt(FALSE)
    /\ file' \in {file, v}
    /\ torn' = TRUE
    /\ UNCHANGED <<up, record, osVars, superVars, threadVars, accepted,
                   crashes, delivered, wanted, previous, boots>>

\* HotRestart succeeded.
Applied ==
    /\ At(Applier, "done")
    /\ delivered' = wanted
    /\ previous' = wanted /\ UNCHANGED wanted
    /\ torn' = FALSE
    /\ pc' = [pc EXCEPT ![Applier] = "idle"]
    /\ target' = [target EXCEPT ![Applier] = 0]
    /\ copy' = [copy EXCEPT ![Applier] = NoRecord]
    /\ UNCHANGED <<up, file, record, osVars, superVars, accepted, faults,
                   crashes, boots>>

\* Faulty variant: the file is left as it is.
RestoreNothing(ok) ==
    /\ At(Applier, "refused")
    /\ Attempt(ok)
    /\ pc' = [pc EXCEPT ![Applier] = "idle"]
    /\ target' = [target EXCEPT ![Applier] = 0]
    /\ copy' = [copy EXCEPT ![Applier] = NoRecord]
    /\ torn' = (torn \/ ~ok)
    /\ wanted' = delivered /\ previous' = delivered
    /\ UNCHANGED <<up, file, record, osVars, superVars, accepted, crashes,
                   delivered, boots>>

\* HotRestart failed: the last good file is written back.
Restore(ok) ==
    /\ At(Applier, "refused")
    /\ Attempt(ok)
    /\ \/ file' = previous
       \/ ~ok /\ UNCHANGED file
    /\ torn' = (torn \/ ~ok)
    /\ pc' = [pc EXCEPT ![Applier] = "idle"]
    /\ target' = [target EXCEPT ![Applier] = 0]
    /\ copy' = [copy EXCEPT ![Applier] = NoRecord]
    /\ wanted' = delivered /\ previous' = delivered
    /\ UNCHANGED <<up, record, osVars, superVars, accepted, crashes,
                   delivered, boots>>

-----------------------------------------------------------------------------
\* A step of the supervisor or of Envoy leaves the deliverer alone.
Sup(A) == A /\ UNCHANGED <<deliverVars, boots>>

StarterStep ==
    \/ Sup(AdoptOk)
    \/ \E ok \in BOOLEAN :
         \/ Sup(LoadRecord(ok)) \/ Sup(AdoptSave(ok))
         \/ \E policy \in Policies : Sup(AdoptFails(policy, ok))

SpawnStep(t) ==
    \/ \E ok \in BOOLEAN :
         Sup(Spawn(t, ok)) \/ Sup(SaveStarting(t, ok)) \/ Sup(Ready(t, ok))
    \/ Sup(WaitOk(t)) \/ Sup(WaitFails(t))

MonitorStep(p) == Sup(MonitorExit(p)) \/ Sup(MonitorDecide(p)) \/ Sup(MonitorTimer(p))

ApplyStep ==
    \/ Sup(HotEnter) \/ Sup(HotWaitOk) \/ Applied
    \/ \E ok \in BOOLEAN :
         \/ Sup(ReadEpoch(ok)) \/ Sup(TakeEpoch(ok)) \/ Sup(HotSpawn(ok))
         \/ Sup(HotWaitFails(ok)) \/ Sup(HotCommit(ok)) \/ Restore(ok)

EnvoyStep ==
    \E p \in Pids : \/ Sup(EnvoyLive(p)) \/ Sup(EnvoyStartFails(p))
                    \/ Sup(ParentExits(p)) \/ Sup(EnvoyCrashes(p))

Next ==
    \/ \E v \in Versions : Boot(v) \/ Apply(v) \/ WriteFails(v)
    \/ Close \/ Sup(FailureAges)
    \/ StarterStep \/ ApplyStep \/ EnvoyStep
    \/ \E t \in Spawners : SpawnStep(t)
    \/ \E p \in Pids : MonitorStep(p)

Spec == Init /\ [][Next]_vars

\* The goroutines run; every wait ends by an observation or its timeout.
Fairness ==
    /\ WF_vars(StarterStep) /\ WF_vars(ApplyStep)
    /\ \A t \in Spawners : WF_vars(SpawnStep(t))
    /\ \A p \in Pids : WF_vars(MonitorStep(p))

FairSpec == Spec /\ Fairness

-----------------------------------------------------------------------------
(* Properties.                                                             *)

\* A static publish, whatever fails in HotRestart, and a restart of esgw
\* never leave the machine without an Envoy once one has been seen LIVE: only
\* crashes of Envoy and the explicit restart policy of Start do.
DataPlaneSurvives ==
    accepted /\ crashes = 0 => \E p \in Pids : Alive(p)

\* The exit of a process the supervisor started is never missed: while it is
\* current and reported as running, a monitor waits for its exit, however
\* Start, the monitors and HotRestart take turns in setCurrent.
ExitsAreWatched ==
    status = "running" /\ current # 0 => pc[current] = "watch"

\* Between two calls of Apply the file, which every restart of Envoy reads,
\* holds the version that was accepted last, unless a write of it failed.
FileIsLastGood ==
    up /\ pc[Applier] = "idle" /\ ~torn => file = delivered

\* proc.json never names a process by an epoch it does not have, and keeps
\* the next epoch above it, although Start, the monitors and HotRestart write
\* copies they read earlier.
RecordIsTrue ==
    record # NoRecord => /\ pstate[record.pid] # "none"
                         /\ pepoch[record.pid] = record.epoch
                         /\ record.next > record.epoch

-----------------------------------------------------------------------------
(* What the repository says and the code does not do.                      *)

\* An unexpected exit of the managed Envoy is noticed: when none is left the
\* supervisor does not go on reporting one as running.  Nobody waits for an
\* adopted process, nor for a parent that exits during a hot restart.
LossIsNoticed ==
    up /\ status = "running" /\ (\A p \in Pids : ~Alive(p)) ~>
        ~up \/ status # "running" \/ \E p \in Pids : Alive(p)
=============================================================================
