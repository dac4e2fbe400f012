----------------------------- MODULE Supervisor -----------------------------
(***************************************************************************)
(* M-PROC: the life of the managed Envoy processes, internal/proc.         *)
(*                                                                         *)
(* Several goroutines run the supervisor's code: Start, one monitor for    *)
(* every process that became ready, and the caller of HotRestart.  Each    *)
(* has its own program counter.  Supervisor.mu is held only for the short  *)
(* sections that are single steps below; proc.json is read and written     *)
(* outside of it.                                                          *)
(*                                                                         *)
(* Envoy itself is external: a process initialises, becomes live (a child  *)
(* then makes its parent drain), is told to exit by a live child, fails to *)
(* start or crashes.                                                       *)
(***************************************************************************)
EXTENDS Naturals

CONSTANTS
    MaxProcs,       \* bound on the processes ever started
    Versions,       \* the outputs a bootstrap file can hold
    GiveUp,         \* Backoff.GiveUp
    Policies,       \* the values of adoptPolicy that are tried
    MaxFaults,      \* bound on failing disk writes, forks and /proc reads
    MaxCrashes      \* bound on crashes of Envoy

ASSUME SupervisorAssumption ==
    /\ MaxProcs \in Nat \ {0}
    /\ GiveUp \in Nat \ {0}
    /\ Policies \subseteq {"keep", "restart"} /\ Policies # {}
    /\ MaxFaults \in Nat /\ MaxCrashes \in Nat

Pids == 1..MaxProcs

\* The goroutines: Start, the caller of HotRestart, the monitor of each
\* process (which goes by the process's number).
Starter == 0
Applier == MaxProcs + 1
Threads == 0..(MaxProcs + 1)

VARIABLES
    up,             \* the esgw process runs
    file,           \* content of the file Envoy is started with
    record,         \* proc.json: pid, epoch and next epoch, pid 0 for no file
    pstate,         \* of each Envoy process
    pepoch,         \* its --restart-epoch
    pconf,          \* the content it was started with
    status,         \* Supervisor.status.State
    current,        \* Supervisor.current, 0 for nil
    restarting,     \* Supervisor.restarting
    failures,       \* exits in Backoff's rolling window
    pc, target,     \* of each goroutine: its step, the process it started
    copy,           \* the record as Start and as HotRestart read it
    accepted,       \* a LIVE epoch was observed and nobody was told to stop it
    faults, crashes \* so far

osVars    == <<pstate, pepoch, pconf>>
superVars == <<status, current, restarting, failures>>
threadVars == <<pc, target, copy>>
supVars == <<up, file, record, osVars, superVars, threadVars, accepted,
             faults, crashes>>

ProcStates == {"none", "init", "live", "draining", "dead"}
Statuses   == {"idle", "starting", "running", "backoff", "degraded"}
Steps == {"idle", "load", "adopt", "adopted", "spawn", "save", "wait", "ready",
          "watch", "exited", "timer",
          "hot", "read", "epoch", "fork", "childwait", "commit", "refused", "done"}

Record == [pid : 0..MaxProcs, epoch : Nat, next : Nat]
NoRecord == [pid |-> 0, epoch |-> 0, next |-> 0]

SupervisorTypeOK ==
    /\ up \in BOOLEAN
    /\ file \in Versions
    /\ record \in Record
    /\ copy \in [{Starter, Applier} -> Record]
    /\ pstate \in [Pids -> ProcStates]
    /\ pepoch \in [Pids -> Nat]
    /\ pconf \in [Pids -> Versions]
    /\ status \in Statuses
    /\ current \in 0..MaxProcs
    /\ restarting \in BOOLEAN
    /\ failures \in Nat
    /\ pc \in [Threads -> Steps]
    /\ target \in [Threads -> 0..MaxProcs]
    /\ accepted \in BOOLEAN
    /\ faults \in 0..MaxFaults
    /\ crashes \in 0..MaxCrashes

Alive(p) == pstate[p] \in {"init", "live", "draining"}

\* A LIVE process of the given epoch is seen.  /ready and /server_info are
\* two requests: while a child takes over the admin endpoint the first can
\* still be answered by its parent.
Observable(epoch) ==
    \E p \in Pids :
        /\ pepoch[p] = epoch
        /\ \/ pstate[p] = "live"
           \/ /\ pstate[p] = "init"
              /\ \E q \in Pids \ {p} : pstate[q] \in {"live", "draining"}

\* An operation on the disk or the system works or, rarely, does not.
Attempt(ok) == \/ ok /\ UNCHANGED faults
               \/ ~ok /\ faults < MaxFaults /\ faults' = faults + 1

\* RecordStore.Save; it can fail after the rename as well as before it.
Save(r, ok) == record' = r \/ (~ok /\ UNCHANGED record)

At(t, step) == up /\ pc[t] = step
Goto(t, step) == pc' = [pc EXCEPT ![t] = step]

NextPid(p) == p \in Pids /\ \A q \in Pids : pstate[q] = "none" <=> q >= p
Exhausted  == \A p \in Pids : pstate[p] # "none"

\* Runner.Start: a new process reads the file as it is now.
Launch(p, epoch) ==
    /\ NextPid(p)
    /\ pstate' = [pstate EXCEPT ![p] = "init"]
    /\ pepoch' = [pepoch EXCEPT ![p] = epoch]
    /\ pconf' = [pconf EXCEPT ![p] = file]

Kill(p) == pstate' = [pstate EXCEPT ![p] = "dead"] /\ UNCHANGED <<pepoch, pconf>>

\* The process ends; Envoy stays.
Die ==
    /\ up' = FALSE
    /\ status' = "idle" /\ current' = 0 /\ restarting' = FALSE /\ failures' = 0
    /\ pc' = [t \in Threads |-> "idle"]
    /\ target' = [t \in Threads |-> 0]
    /\ copy' = [t \in {Starter, Applier} |-> NoRecord]

-----------------------------------------------------------------------------
(* spawnAndWait, called by Start and by a monitor.                         *)

\* spawnAndWait returns an error: Start's ends the program, a monitor
\* degrades.
SpawnFailed(t) ==
    IF t = Starter
    THEN Die
    ELSE /\ status' = "degraded"
         /\ Goto(t, "idle")
         /\ target' = [target EXCEPT ![t] = 0]
         /\ UNCHANGED <<up, current, restarting, failures, copy>>

Spawners == Threads \ {Applier}

Spawn(t, ok) ==
    /\ At(t, "spawn")
    /\ \/ Attempt(ok)
       \/ ~ok /\ Exhausted /\ UNCHANGED faults
    /\ IF ok
       THEN \E p \in Pids :
              /\ Launch(p, 0)
              /\ target' = [target EXCEPT ![t] = p]
              /\ Goto(t, "save")
              /\ UNCHANGED <<up, superVars, copy>>
       ELSE SpawnFailed(t) /\ UNCHANGED osVars
    /\ UNCHANGED <<file, record, accepted, crashes>>

SaveStarting(t, ok) ==
    /\ At(t, "save")
    /\ Attempt(ok)
    /\ Save([pid |-> target[t], epoch |-> 0, next |-> 1], ok)
    /\ IF ok
       THEN /\ current' = target[t]
            /\ status' = "starting"
            /\ Goto(t, "wait")
            /\ UNCHANGED <<up, osVars, restarting, failures, target, copy>>
       ELSE SpawnFailed(t) /\ Kill(target[t])
    /\ UNCHANGED <<file, accepted, crashes>>

\* waitForEpoch: epoch zero is seen LIVE ...
WaitOk(t) ==
    /\ At(t, "wait")
    /\ Observable(0)
    /\ Goto(t, "ready")
    /\ UNCHANGED <<up, file, record, osVars, superVars, target, copy, accepted,
                   faults, crashes>>

\* ... or the process exits, or liveTimeout passes first.
WaitFails(t) ==
    /\ At(t, "wait")
    /\ SpawnFailed(t)
    /\ Kill(target[t])
    /\ UNCHANGED <<file, record, accepted, faults, crashes>>

\* Faulty variant: no monitor is started.
ReadyUnwatched(t, ok) ==
    /\ At(t, "ready")
    /\ Attempt(ok)
    /\ Save([pid |-> target[t], epoch |-> 0, next |-> 1], ok)
    /\ IF ok
       THEN /\ current' = target[t]
            /\ status' = "running"
            /\ pc' = [pc EXCEPT ![t] = "idle"]
            /\ target' = [target EXCEPT ![t] = 0]
            /\ accepted' = TRUE
            /\ UNCHANGED <<up, osVars, restarting, failures, copy>>
       ELSE SpawnFailed(t) /\ Kill(target[t]) /\ UNCHANGED accepted
    /\ UNCHANGED <<file, crashes>>

\* The record is written again and a monitor is started.
Ready(t, ok) ==
    /\ At(t, "ready")
    /\ Attempt(ok)
    /\ Save([pid |-> target[t], epoch |-> 0, next |-> 1], ok)
    /\ IF ok
       THEN /\ current' = target[t]
            /\ status' = "running"
            /\ pc' = [pc EXCEPT ![t] = "idle", ![target[t]] = "watch"]
            /\ target' = [target EXCEPT ![t] = 0]
            /\ accepted' = TRUE
            /\ UNCHANGED <<up, osVars, restarting, failures, copy>>
       ELSE SpawnFailed(t) /\ Kill(target[t]) /\ UNCHANGED accepted
    /\ UNCHANGED <<file, crashes>>

-----------------------------------------------------------------------------
(* Start.                                                                  *)

\* The record is read.  If that fails Start does, and with it the program.
\* No record, a dead process, or one that runs another binary (the number was
\* reused, or the binary was replaced under a living Envoy) lead to a fresh
\* start; if /proc does not answer the supervisor gives up.
LoadRecord(ok) ==
    /\ At(Starter, "load")
    /\ Attempt(ok)
    /\ \/ ~ok /\ Die
       \/ /\ ok
          /\ \/ /\ record # NoRecord /\ Alive(record.pid)
                /\ Goto(Starter, "adopt")
                /\ copy' = [copy EXCEPT ![Starter] = record]
             \/ Goto(Starter, "spawn") /\ UNCHANGED copy
          /\ UNCHANGED <<up, superVars, target>>
       \/ /\ ~ok /\ record # NoRecord
          /\ status' = "degraded" /\ Goto(Starter, "idle")
          /\ UNCHANGED <<up, current, restarting, failures, target, copy>>
    /\ UNCHANGED <<file, record, osVars, accepted, crashes>>

\* Faulty variant: the status is one HotRestart does not know.
AdoptOkAsAdopted ==
    /\ At(Starter, "adopt")
    /\ Observable(copy[Starter].epoch)
    /\ status' = "adopted"
    /\ Goto(Starter, "adopted")
    /\ accepted' = TRUE
    /\ UNCHANGED <<up, file, record, osVars, current, restarting, failures,
                   target, copy, faults, crashes>>

\* The recorded epoch is seen LIVE: it is kept, and nobody waits for it.
AdoptOk ==
    /\ At(Starter, "adopt")
    /\ Observable(copy[Starter].epoch)
    /\ status' = "running"
    /\ Goto(Starter, "adopted")
    /\ accepted' = TRUE
    /\ UNCHANGED <<up, file, record, osVars, current, restarting, failures,
                   target, copy, faults, crashes>>

\* The record is written as it was read; an error of that is ignored.
AdoptSave(ok) ==
    /\ At(Starter, "adopted")
    /\ Attempt(ok)
    /\ Save(copy[Starter], ok)
    /\ Goto(Starter, "idle")
    /\ copy' = [copy EXCEPT ![Starter] = NoRecord]
    /\ UNCHANGED <<up, file, osVars, superVars, target, accepted, crashes>>

\* Faulty variant: the process is stopped whatever the policy says.
AdoptFailsAlwaysStop(policy, ok) ==
    /\ At(Starter, "adopt")
    /\ Attempt(ok)
    /\ Kill(copy[Starter].pid) /\ Goto(Starter, "spawn")
    /\ UNCHANGED <<status, accepted>>
    /\ copy' = [copy EXCEPT ![Starter] = NoRecord]
    /\ UNCHANGED <<up, file, record, current, restarting, failures, target,
                   crashes>>

\* It is not seen in time.  The policy says whether the process is stopped;
\* to stop it may fail.
AdoptFails(policy, ok) ==
    /\ At(Starter, "adopt")
    /\ IF policy = "keep" THEN ok /\ UNCHANGED faults ELSE Attempt(ok)
    /\ IF policy = "keep" \/ ~ok
       THEN /\ status' = "degraded" /\ Goto(Starter, "idle")
            /\ UNCHANGED <<osVars, accepted>>
       ELSE /\ Kill(copy[Starter].pid) /\ Goto(Starter, "spawn")
            /\ accepted' = FALSE
            /\ UNCHANGED status
    /\ copy' = [copy EXCEPT ![Starter] = NoRecord]
    /\ UNCHANGED <<up, file, record, current, restarting, failures, target,
                   crashes>>

-----------------------------------------------------------------------------
(* monitor.                                                                *)

\* The exit is received; a process that is no longer current, or whose
\* successor is being started, is none of this monitor's business.
MonitorExit(p) ==
    /\ At(p, "watch")
    /\ pstate[p] = "dead"
    /\ IF current # p
       THEN Goto(p, "idle") /\ UNCHANGED current
       ELSE /\ current' = 0
            /\ Goto(p, IF restarting THEN "idle" ELSE "exited")
    /\ UNCHANGED <<up, file, record, osVars, status, restarting, failures,
                   target, copy, accepted, faults, crashes>>

\* Backoff.Failure, and the decision to give up.
MonitorDecide(p) ==
    /\ At(p, "exited")
    /\ failures' = failures + 1
    /\ IF failures' >= GiveUp \/ pepoch[p] # 0
       THEN status' = "degraded" /\ Goto(p, "idle")
       ELSE status' = "backoff" /\ Goto(p, "timer")
    /\ UNCHANGED <<up, file, record, osVars, current, restarting, target, copy,
                   accepted, faults, crashes>>

\* The delay is over.
MonitorTimer(p) ==
    /\ At(p, "timer")
    /\ Goto(p, "spawn")
    /\ UNCHANGED <<up, file, record, osVars, superVars, target, copy, accepted,
                   faults, crashes>>

\* Ten minutes pass: the oldest failure leaves the window.
FailureAges ==
    /\ up /\ failures > 0
    /\ failures' = failures - 1
    /\ UNCHANGED <<up, file, record, osVars, status, current, restarting,
                   threadVars, accepted, faults, crashes>>

-----------------------------------------------------------------------------
(* HotRestart, by the goroutine that delivers a static file.               *)

\* HotRestart returns an error: its defer clears the flag.
Refuse == Goto(Applier, "refused") /\ restarting' = FALSE

HotEnter ==
    /\ At(Applier, "hot")
    /\ IF status = "running"
       THEN restarting' = TRUE /\ Goto(Applier, "read")
       ELSE Refuse
    /\ UNCHANGED <<up, file, record, osVars, status, current, failures, target,
                   copy, accepted, faults, crashes>>

ReadEpoch(ok) ==
    /\ At(Applier, "read")
    /\ Attempt(ok)
    /\ IF ok
       THEN /\ copy' = [copy EXCEPT ![Applier] = record]
            /\ Goto(Applier, "epoch")
            /\ UNCHANGED restarting
       ELSE Refuse /\ UNCHANGED copy
    /\ UNCHANGED <<up, file, record, osVars, status, current, failures, target,
                   accepted, crashes>>

\* The next epoch is taken and written back as used.
TakeEpoch(ok) ==
    /\ At(Applier, "epoch")
    /\ Attempt(ok)
    /\ LET taken == [copy[Applier] EXCEPT !.next = @ + 1] IN
       /\ Save(taken, ok)
       /\ IF ok
          THEN /\ copy' = [copy EXCEPT ![Applier] = taken]
               /\ Goto(Applier, "fork")
               /\ UNCHANGED restarting
          ELSE Refuse /\ UNCHANGED copy
    /\ UNCHANGED <<up, file, osVars, status, current, failures, target,
                   accepted, crashes>>

HotSpawn(ok) ==
    /\ At(Applier, "fork")
    /\ \/ Attempt(ok)
       \/ ~ok /\ Exhausted /\ UNCHANGED faults
    /\ IF ok
       THEN \E p \in Pids :
              /\ Launch(p, copy[Applier].next - 1)
              /\ target' = [target EXCEPT ![Applier] = p]
              /\ Goto(Applier, "childwait")
              /\ UNCHANGED restarting
       ELSE Refuse /\ UNCHANGED <<osVars, target>>
    /\ UNCHANGED <<up, file, record, status, current, failures, copy, accepted,
                   crashes>>

HotWaitOk ==
    /\ At(Applier, "childwait")
    /\ Observable(pepoch[target[Applier]])
    /\ Goto(Applier, "commit")
    /\ UNCHANGED <<up, file, record, osVars, superVars, target, copy, accepted,
                   faults, crashes>>

\* The child is killed and the copy of the record is written back; an error
\* of that is ignored.
HotWaitFails(ok) ==
    /\ At(Applier, "childwait")
    /\ Attempt(ok)
    /\ Kill(target[Applier])
    /\ Save(copy[Applier], ok)
    /\ Refuse
    /\ UNCHANGED <<up, file, status, current, failures, target, copy, accepted,
                   crashes>>

\* Faulty variant: the record keeps the epoch of the parent.
HotCommitKeepEpoch(ok) ==
    /\ At(Applier, "commit")
    /\ Attempt(ok)
    /\ LET p == target[Applier] IN
       /\ Save([pid |-> p, epoch |-> copy[Applier].epoch, next |-> copy[Applier].next], ok)
       /\ IF ok
          THEN /\ current' = p /\ status' = "running" /\ restarting' = FALSE
               /\ pc' = [pc EXCEPT ![Applier] = "done", ![p] = "watch"]
               /\ accepted' = TRUE
               /\ UNCHANGED osVars
          ELSE /\ Kill(p) /\ Refuse
               /\ UNCHANGED <<current, status, accepted>>
    /\ UNCHANGED <<up, file, failures, target, copy, crashes>>

\* The child replaces its parent in the record and in memory.
HotCommit(ok) ==
    /\ At(Applier, "commit")
    /\ Attempt(ok)
    /\ LET p == target[Applier] IN
       /\ Save([pid |-> p, epoch |-> pepoch[p], next |-> copy[Applier].next], ok)
       /\ IF ok
          THEN /\ current' = p /\ status' = "running" /\ restarting' = FALSE
               /\ pc' = [pc EXCEPT ![Applier] = "done", ![p] = "watch"]
               /\ accepted' = TRUE
               /\ UNCHANGED osVars
          ELSE /\ Kill(p) /\ Refuse
               /\ UNCHANGED <<current, status, accepted>>
    /\ UNCHANGED <<up, file, failures, target, copy, crashes>>

-----------------------------------------------------------------------------
(* Envoy.                                                                  *)

EnvoyOnly == UNCHANGED <<up, file, record, pepoch, pconf, superVars,
                         threadVars, accepted, faults>>

\* A process becomes live.  A child needs a process to take over from, which
\* drains from then on.
EnvoyLive(p) ==
    /\ pstate[p] = "init"
    /\ pepoch[p] # 0 => \E q \in Pids \ {p} : Alive(q)
    /\ pstate' = [q \in Pids |->
                    IF q = p THEN "live"
                    ELSE IF pstate[q] = "live" /\ pepoch[q] < pepoch[p]
                         THEN "draining" ELSE pstate[q]]
    /\ EnvoyOnly /\ UNCHANGED crashes

EnvoyStartFails(p) ==
    /\ pstate[p] = "init"
    /\ pstate' = [pstate EXCEPT ![p] = "dead"]
    /\ EnvoyOnly /\ UNCHANGED crashes

\* A live child tells the drained process to exit.  parent-shutdown-time is
\* longer than liveTimeout, so not while HotRestart still waits for it.
ParentExits(p) ==
    /\ pstate[p] = "draining"
    /\ \E c \in Pids :
         /\ pstate[c] = "live" /\ pepoch[c] > pepoch[p]
         /\ ~(pc[Applier] \in {"childwait", "commit"} /\ target[Applier] = c)
    /\ pstate' = [pstate EXCEPT ![p] = "dead"]
    /\ EnvoyOnly /\ UNCHANGED crashes

EnvoyCrashes(p) ==
    /\ pstate[p] \in {"live", "draining"}
    /\ crashes < MaxCrashes /\ crashes' = crashes + 1
    /\ pstate' = [pstate EXCEPT ![p] = "dead"]
    /\ EnvoyOnly
=============================================================================
