---------------------------- MODULE StaticProofs ----------------------------
(***************************************************************************)
(* Proofs about static delivery with a managed Envoy, for any number of    *)
(* processes, versions, faults, crashes and starts of esgw.                *)
(***************************************************************************)
EXTENDS StaticDelivery, TLAPS

-----------------------------------------------------------------------------
(* The inductive invariant.                                                *)

\* When esgw does not run, neither does any of its goroutines.
Ended == ~up => /\ status = "idle" /\ current = 0
                /\ \A t \in Threads : pc[t] = "idle"

\* Until Start has adopted a process or decided to start one, no monitor runs
\* and HotRestart refuses.
Booting ==
    pc[Starter] \in {"load", "adopt"} =>
        /\ status = "idle" /\ current = 0
        /\ \A p \in Pids : pc[p] = "idle"
        /\ pc[Applier] \in {"idle", "hot", "refused"}

\* Process p was started, with that epoch.
Started(p, epoch) == p \in Pids /\ pstate[p] # "none" /\ pepoch[p] = epoch

Good(r) == Started(r.pid, r.epoch) /\ r.next > r.epoch

\* The record, its copies and the processes goroutines wait for are about
\* processes that were started.
Records ==
    /\ record # NoRecord => Good(record)
    /\ status = "running" => record # NoRecord
    /\ pc[Starter] \in {"adopt", "adopted"} => record # NoRecord /\ Good(copy[Starter])
    /\ pc[Applier] = "read" => record # NoRecord
    /\ pc[Applier] \in {"epoch", "fork", "childwait", "commit"} => Good(copy[Applier])
    /\ pc[Applier] \in {"childwait", "commit"} => Started(target[Applier], copy[Applier].next - 1)
    /\ \A t \in Spawners : pc[t] \in {"save", "wait", "ready"} => Started(target[t], 0)

SupInv == SupervisorTypeOK /\ Ended /\ Booting /\ ExitsAreWatched /\ Records

\* The file while Apply runs, and before and after it.
Delivery ==
    up => /\ pc[Applier] = "idle" /\ ~torn => file = delivered
          /\ pc[Applier] # "idle" => file = wanted /\ (~torn => previous = delivered)

Inv == SupInv /\ Delivery /\ TypeOK

-----------------------------------------------------------------------------
(* Facts about the parameters and the helpers.                             *)

LEMMA Names ==
    /\ MaxProcs \in Nat /\ MaxFaults \in Nat /\ MaxCrashes \in Nat
    /\ Starter \in Threads /\ Applier \in Threads /\ Starter # Applier
    /\ Starter \notin Pids /\ Applier \notin Pids
    /\ Applier \notin 0..MaxProcs
    /\ Pids \subseteq Threads /\ Pids \subseteq 0..MaxProcs
    /\ Pids \subseteq Spawners /\ Starter \in Spawners
    /\ Spawners \subseteq Threads /\ Applier \notin Spawners
    /\ 0 \in 0..MaxProcs /\ \A p \in 0..MaxProcs : p # 0 => p \in Pids
  BY SupervisorAssumption DEF Starter, Applier, Threads, Pids, Spawners

LEMMA NoRecordType == NoRecord \in Record
  BY SupervisorAssumption DEF NoRecord, Record

LEMMA GoodIsNone == \A r : Good(r) => r # NoRecord
  BY Names DEF Good, Started, NoRecord, Starter

LEMMA AttemptType ==
    ASSUME NEW ok \in BOOLEAN, faults \in 0..MaxFaults, Attempt(ok)
    PROVE  faults' \in 0..MaxFaults
  BY Names DEF Attempt

\* Processes are not forgotten and keep their epoch.
Keeps == \A p \in Pids : pstate[p] # "none" => pstate'[p] # "none" /\ pepoch'[p] = pepoch[p]

LEMMA KeepsKill ==
    ASSUME NEW p, SupervisorTypeOK, Kill(p)
    PROVE  /\ pstate' \in [Pids -> ProcStates] /\ pepoch' \in [Pids -> Nat] /\ pconf' \in [Pids -> Versions]
           /\ Keeps
  BY DEF Kill, Keeps, SupervisorTypeOK, ProcStates

LEMMA KeepsLaunch ==
    ASSUME NEW p \in Pids, NEW e \in Nat, SupervisorTypeOK, Launch(p, e)
    PROVE  /\ pstate' \in [Pids -> ProcStates] /\ pepoch' \in [Pids -> Nat] /\ pconf' \in [Pids -> Versions]
           /\ Keeps /\ pstate'[p] # "none" /\ pepoch'[p] = e
  <1>1. pstate[p] = "none"
    BY DEF Launch, NextPid, Pids
  <1> QED BY <1>1 DEF Launch, Keeps, SupervisorTypeOK, ProcStates

LEMMA KeepsStarted ==
    ASSUME Keeps, NEW p, NEW e, Started(p, e)
    PROVE  p \in Pids /\ pstate'[p] # "none" /\ pepoch'[p] = e
  BY DEF Keeps, Started

\* The end of the program.
LEMMA DieInv ==
    ASSUME SupInv, Die, Keeps,
           file' \in Versions, accepted' \in BOOLEAN,
           faults' \in 0..MaxFaults, crashes' \in 0..MaxCrashes,
           pstate' \in [Pids -> ProcStates], pepoch' \in [Pids -> Nat],
           pconf' \in [Pids -> Versions],
           record' \in Record, record' # NoRecord => Good(record)'
    PROVE  SupInv'
  <1>1. SupervisorTypeOK'
    BY Names, NoRecordType DEF SupInv, SupervisorTypeOK, Die, Statuses, Steps
  <1>2. Ended' /\ Booting' /\ ExitsAreWatched'
    BY Names DEF Die, Ended, Booting, ExitsAreWatched
  <1>3. Records'
    BY Names DEF Die, Records
  <1> QED BY <1>1, <1>2, <1>3 DEF SupInv

\* RecordStore.Save of a good record.
LEMMA SaveGood ==
    ASSUME SupInv, Keeps, NEW r \in Record, NEW ok \in BOOLEAN, Save(r, ok),
           Started(r.pid, r.epoch), r.next > r.epoch
    PROVE  /\ record' \in Record
           /\ record' = record \/ Good(record)'
           /\ record # NoRecord => record' # NoRecord
           /\ record' # NoRecord => Good(record)'
           /\ ok => record' # NoRecord
  <1>1. record' = r => Good(record)'
    BY DEF Keeps, Good, Started
  <1>2. record' = record /\ record # NoRecord => Good(record)'
    BY DEF SupInv, Records, Keeps, Good, Started
  <1>3. r # NoRecord
    BY GoodIsNone DEF Good
  <1> QED BY <1>1, <1>2, <1>3 DEF Save, SupInv, SupervisorTypeOK

\* A record that is left alone.
LEMMA SameGood ==
    ASSUME SupInv, Keeps, UNCHANGED record
    PROVE  /\ record' \in Record
           /\ record' = record \/ Good(record)'
           /\ record # NoRecord => record' # NoRecord
           /\ record' # NoRecord => Good(record)'
  BY DEF SupInv, SupervisorTypeOK, Records, Keeps, Good, Started

\* What goroutines that do not move know of processes stays true.
LEMMA StartedStay ==
    ASSUME SupInv, Keeps
    PROVE  /\ pc[Starter] \in {"adopt", "adopted"} /\ copy'[Starter] = copy[Starter] => Good(copy[Starter])'
           /\ /\ pc[Applier] \in {"epoch", "fork", "childwait", "commit"}
              /\ copy'[Applier] = copy[Applier]
              => Good(copy[Applier])'
           /\ /\ pc[Applier] \in {"childwait", "commit"}
              /\ copy'[Applier] = copy[Applier] /\ target'[Applier] = target[Applier]
              => Started(target[Applier], copy[Applier].next - 1)'
           /\ \A t \in Spawners :
                pc[t] \in {"save", "wait", "ready"} /\ target'[t] = target[t] => Started(target[t], 0)'
  BY DEF SupInv, Records, Keeps, Good, Started

-----------------------------------------------------------------------------
(* spawnAndWait.                                                           *)

SpawnSteps == {"spawn", "save", "wait", "ready"}

\* While somebody is in it, Start has read the record.
LEMMA SpawnerBusy ==
    ASSUME SupInv, NEW t \in Spawners, pc[t] \in SpawnSteps
    PROVE  pc[Starter] \notin {"load", "adopt"}
  <1>1. t = Starter \/ t \in Pids
    BY SupervisorAssumption DEF Spawners, Threads, Applier, Pids, Starter
  <1> QED BY <1>1 DEF SupInv, Booting, SpawnSteps

\* It returns an error, whatever it did to processes and record before.
LEMMA SpawnFailedInv ==
    ASSUME SupInv, Keeps, NEW t \in Spawners, At(t, pc[t]), pc[t] \in SpawnSteps,
           SpawnFailed(t),
           file' = file, accepted' = accepted, crashes' = crashes,
           faults' \in 0..MaxFaults,
           pstate' \in [Pids -> ProcStates], pepoch' \in [Pids -> Nat],
           pconf' \in [Pids -> Versions],
           record' \in Record,
           record # NoRecord => record' # NoRecord,
           record' # NoRecord => Good(record)'
    PROVE  SupInv'
  <1>1. CASE t = Starter
    BY <1>1, DieInv DEF SpawnFailed, SupInv, SupervisorTypeOK
  <1>2. CASE t # Starter
    <2>0. t \in Pids
      BY <1>2, SupervisorAssumption DEF Spawners, Threads, Applier, Pids, Starter
    <2>1. SupervisorTypeOK'
      BY <1>2, <2>0, Names DEF SpawnFailed, SupInv, SupervisorTypeOK, Statuses, Steps, Goto
    <2>2. Ended' /\ ExitsAreWatched'
      BY <1>2 DEF SpawnFailed, Ended, ExitsAreWatched, At
    <2>3. Booting'
      BY <1>2, <2>0, Names DEF SpawnFailed, SupInv, SupervisorTypeOK, Booting, Goto, SpawnSteps
    <2>4. Records'
      <3>1. pc'[Starter] = pc[Starter] /\ pc'[Applier] = pc[Applier] /\ target'[Applier] = target[Applier]
            /\ \A u \in Spawners : pc'[u] \in {"save", "wait", "ready"} => pc'[u] = pc[u] /\ target'[u] = target[u]
        BY <1>2, <2>0, Names DEF SpawnFailed, SupInv, SupervisorTypeOK, Goto
      <3>2. copy' = copy /\ status' # "running"
        BY <1>2 DEF SpawnFailed
      <3> QED BY <3>1, <3>2, StartedStay DEF SupInv, Records
    <2> QED BY <2>1, <2>2, <2>3, <2>4 DEF SupInv
  <1> QED BY <1>1, <1>2

LEMMA SpawnInv ==
    ASSUME SupInv, NEW t \in Spawners, NEW ok \in BOOLEAN, Spawn(t, ok)
    PROVE  SupInv'
  <1>0. /\ At(t, "spawn") /\ t \in Threads /\ t # Applier /\ faults' \in 0..MaxFaults
        /\ UNCHANGED <<file, record, accepted, crashes>>
    BY Names, AttemptType DEF Spawn, SupInv, SupervisorTypeOK
  <1>1. CASE ok
    <2>1. PICK p \in Pids : /\ Launch(p, 0)
                            /\ target' = [target EXCEPT ![t] = p]
                            /\ Goto(t, "save")
                            /\ UNCHANGED <<up, superVars, copy>>
      BY <1>1 DEF Spawn
    <2>2. /\ pstate' \in [Pids -> ProcStates] /\ pepoch' \in [Pids -> Nat] /\ pconf' \in [Pids -> Versions]
          /\ Keeps /\ pstate'[p] # "none" /\ pepoch'[p] = 0
      BY <2>1, KeepsLaunch DEF SupInv
    <2>3. SupervisorTypeOK'
      BY <1>0, <2>1, <2>2, Names DEF SupInv, SupervisorTypeOK, Steps, Goto, superVars
    <2>4. Ended' /\ Booting' /\ ExitsAreWatched'
      BY <1>0, <2>1, Names DEF SupInv, SupervisorTypeOK, Ended, Booting, ExitsAreWatched, Goto, superVars, At
    <2>5. Records'
      <3>1. /\ Started(target[t], 0)'
            /\ pc'[Applier] = pc[Applier] /\ target'[Applier] = target[Applier] /\ copy' = copy
            /\ status' = status
            /\ pc'[Starter] \in {"adopt", "adopted"} => pc'[Starter] = pc[Starter]
            /\ \A u \in Spawners : u # t => pc'[u] = pc[u] /\ target'[u] = target[u]
        BY <1>0, <2>1, <2>2, Names DEF SupInv, SupervisorTypeOK, Goto, superVars, Started
      <3> QED BY <1>0, <2>2, <3>1, StartedStay, SameGood DEF SupInv, Records
    <2> QED BY <2>3, <2>4, <2>5 DEF SupInv
  <1>2. CASE ~ok
    <2>1. SpawnFailed(t) /\ UNCHANGED osVars
      BY <1>2 DEF Spawn
    <2>2. Keeps
      BY <2>1 DEF Keeps, osVars
    <2>3. pc[t] \in SpawnSteps /\ At(t, pc[t])
      BY <1>0 DEF SpawnSteps, At
    <2>4. /\ pstate' \in [Pids -> ProcStates] /\ pepoch' \in [Pids -> Nat] /\ pconf' \in [Pids -> Versions]
      BY <2>1 DEF osVars, SupInv, SupervisorTypeOK
    <2> QED BY <1>0, <2>1, <2>2, <2>3, <2>4, SameGood, SpawnFailedInv
  <1> QED BY <1>1, <1>2

\* The record of a process started as epoch zero.
LEMMA FirstRecord ==
    ASSUME SupInv, NEW t \in Spawners, pc[t] \in {"save", "wait", "ready"}
    PROVE  LET r == [pid |-> target[t], epoch |-> 0, next |-> 1]
           IN  r \in Record /\ Started(r.pid, r.epoch) /\ r.next > r.epoch /\ target[t] \in Pids
  BY Names DEF SupInv, SupervisorTypeOK, Records, Record, Started

\* spawnAndWait fails after the process was started, which it stops.
LEMMA SpawnUndone ==
    ASSUME SupInv, NEW t \in Spawners, At(t, pc[t]), pc[t] \in {"save", "wait", "ready"},
           SpawnFailed(t), Kill(target[t]),
           NEW ok \in BOOLEAN,
           Save([pid |-> target[t], epoch |-> 0, next |-> 1], ok) \/ UNCHANGED record,
           file' = file, accepted' = accepted, crashes' = crashes,
           faults' \in 0..MaxFaults
    PROVE  SupInv'
  <1>1. /\ pstate' \in [Pids -> ProcStates] /\ pepoch' \in [Pids -> Nat] /\ pconf' \in [Pids -> Versions]
        /\ Keeps
    BY KeepsKill DEF SupInv
  <1>2. /\ record' \in Record
        /\ record # NoRecord => record' # NoRecord
        /\ record' # NoRecord => Good(record)'
    BY <1>1, SaveGood, SameGood, FirstRecord
  <1>3. pc[t] \in SpawnSteps
    BY DEF SpawnSteps
  <1> QED BY <1>1, <1>2, <1>3, SpawnFailedInv

LEMMA SaveStartingInv ==
    ASSUME SupInv, NEW t \in Spawners, NEW ok \in BOOLEAN, SaveStarting(t, ok)
    PROVE  SupInv'
  <1>0. /\ At(t, "save") /\ up /\ pc[t] = "save" /\ t \in Threads /\ t # Applier
        /\ faults' \in 0..MaxFaults
        /\ Save([pid |-> target[t], epoch |-> 0, next |-> 1], ok)
        /\ UNCHANGED <<file, accepted, crashes>>
    BY Names, AttemptType DEF SaveStarting, SupInv, SupervisorTypeOK, At
  <1>1. CASE ok
    <2>1. /\ current' = target[t] /\ status' = "starting" /\ Goto(t, "wait")
          /\ UNCHANGED <<up, osVars, restarting, failures, target, copy>>
      BY <1>1 DEF SaveStarting
    <2>2. Keeps
      BY <2>1 DEF Keeps, osVars
    <2>3. /\ record' \in Record
          /\ record # NoRecord => record' # NoRecord
          /\ record' # NoRecord => Good(record)'
      BY <1>0, <2>2, SaveGood, FirstRecord
    <2>4. SupervisorTypeOK'
      BY <1>0, <2>1, <2>3, Names DEF SupInv, SupervisorTypeOK, Steps, Statuses, Goto, osVars
    <2>5. Ended' /\ Booting' /\ ExitsAreWatched'
      BY <1>0, <2>1, Names DEF SupInv, SupervisorTypeOK, Ended, Booting, ExitsAreWatched, Goto, Spawners, Threads, Applier, Pids, Starter
    <2>6. Records'
      <3>1. /\ pc'[Applier] = pc[Applier] /\ target' = target /\ copy' = copy
            /\ status' # "running"
            /\ pc'[Starter] \in {"adopt", "adopted"} => pc'[Starter] = pc[Starter]
            /\ \A u \in Spawners : u # t => pc'[u] = pc[u]
        BY <1>0, <2>1, Names DEF SupInv, SupervisorTypeOK, Goto
      <3> QED BY <1>0, <2>2, <2>3, <3>1, StartedStay DEF SupInv, Records
    <2> QED BY <2>4, <2>5, <2>6 DEF SupInv
  <1>2. CASE ~ok
    <2>1. SpawnFailed(t) /\ Kill(target[t])
      BY <1>2 DEF SaveStarting
    <2> QED BY <1>0, <2>1, SpawnUndone
  <1> QED BY <1>1, <1>2

LEMMA WaitOkInv ==
    ASSUME SupInv, NEW t \in Spawners, WaitOk(t)
    PROVE  SupInv'
  <1>0. up /\ pc[t] = "wait" /\ t \in Threads /\ t # Applier
    BY Names DEF WaitOk, At
  <1>1. Keeps
    BY DEF WaitOk, Keeps, osVars
  <1>2. SupervisorTypeOK'
    BY <1>0, Names DEF WaitOk, SupInv, SupervisorTypeOK, Steps, Goto, osVars, superVars
  <1>3. Ended' /\ Booting' /\ ExitsAreWatched'
    BY <1>0, Names DEF WaitOk, SupInv, SupervisorTypeOK, Ended, Booting, ExitsAreWatched, Goto, superVars
  <1>4. Records'
    <2>1. /\ pc'[Applier] = pc[Applier] /\ target' = target /\ copy' = copy
          /\ status' = status /\ record' = record
          /\ pc'[Starter] \in {"adopt", "adopted"} => pc'[Starter] = pc[Starter]
          /\ \A u \in Spawners : u # t => pc'[u] = pc[u]
      BY <1>0, Names DEF WaitOk, SupInv, SupervisorTypeOK, Goto, superVars
    <2> QED BY <1>0, <1>1, <2>1, StartedStay, SameGood DEF SupInv, Records
  <1> QED BY <1>2, <1>3, <1>4 DEF SupInv

LEMMA WaitFailsInv ==
    ASSUME SupInv, NEW t \in Spawners, WaitFails(t)
    PROVE  SupInv'
  <1>1. /\ At(t, pc[t]) /\ pc[t] = "wait" /\ SpawnFailed(t) /\ Kill(target[t])
        /\ UNCHANGED <<file, record, accepted, crashes>> /\ faults' \in 0..MaxFaults
    BY DEF WaitFails, At, SupInv, SupervisorTypeOK
  <1> QED BY <1>1, SpawnUndone

LEMMA ReadyInv ==
    ASSUME SupInv, NEW t \in Spawners, NEW ok \in BOOLEAN, Ready(t, ok)
    PROVE  SupInv'
  <1>0. /\ At(t, "ready") /\ up /\ pc[t] = "ready" /\ t \in Threads /\ t # Applier
        /\ faults' \in 0..MaxFaults
        /\ Save([pid |-> target[t], epoch |-> 0, next |-> 1], ok)
        /\ UNCHANGED <<file, crashes>>
    BY Names, AttemptType DEF Ready, SupInv, SupervisorTypeOK, At
  <1>1. CASE ok
    <2>1. /\ current' = target[t] /\ status' = "running"
          /\ pc' = [pc EXCEPT ![t] = "idle", ![target[t]] = "watch"]
          /\ target' = [target EXCEPT ![t] = 0]
          /\ accepted' = TRUE
          /\ UNCHANGED <<up, osVars, restarting, failures, copy>>
      BY <1>1 DEF Ready
    <2>2. Keeps
      BY <2>1 DEF Keeps, osVars
    <2>3. /\ record' \in Record /\ record' # NoRecord
          /\ record' # NoRecord => Good(record)'
          /\ target[t] \in Pids
      BY <1>0, <1>1, <2>2, SaveGood, FirstRecord
    <2>4. SupervisorTypeOK'
      BY <1>0, <2>1, <2>3, Names DEF SupInv, SupervisorTypeOK, Steps, Statuses, osVars
    <2>5. Ended' /\ Booting' /\ ExitsAreWatched'
      <3>1. Ended' /\ ExitsAreWatched'
        BY <1>0, <2>1, <2>3, Names DEF SupInv, SupervisorTypeOK, Ended, ExitsAreWatched
      <3>2. pc[Starter] \notin {"load", "adopt"}
        BY <1>0, SpawnerBusy DEF SpawnSteps
      <3>3. pc'[Starter] \in {"idle", pc[Starter]}
        BY <1>0, <2>1, <2>3, Names DEF SupInv, SupervisorTypeOK
      <3>4. Booting'
        BY <3>2, <3>3 DEF Booting
      <3> QED BY <3>1, <3>4
    <2>6. Records'
      <3>1. /\ pc'[Applier] = pc[Applier] /\ target'[Applier] = target[Applier] /\ copy' = copy
            /\ pc'[Starter] \in {"adopt", "adopted"} => pc'[Starter] = pc[Starter]
            /\ \A u \in Spawners : pc'[u] \in {"save", "wait", "ready"} => pc'[u] = pc[u] /\ target'[u] = target[u]
        BY <1>0, <2>1, <2>3, Names DEF SupInv, SupervisorTypeOK
      <3> QED BY <2>2, <2>3, <3>1, StartedStay DEF SupInv, Records
    <2> QED BY <2>4, <2>5, <2>6 DEF SupInv
  <1>2. CASE ~ok
    <2>1. SpawnFailed(t) /\ Kill(target[t]) /\ UNCHANGED accepted
      BY <1>2 DEF Ready
    <2> QED BY <1>0, <2>1, SpawnUndone
  <1> QED BY <1>1, <1>2

-----------------------------------------------------------------------------
(* Start.                                                                  *)

LEMMA LoadRecordInv ==
    ASSUME SupInv, NEW ok \in BOOLEAN, LoadRecord(ok)
    PROVE  SupInv'
  <1>0. /\ up /\ pc[Starter] = "load" /\ faults' \in 0..MaxFaults
        /\ UNCHANGED <<file, record, osVars, accepted, crashes>>
    BY AttemptType DEF LoadRecord, SupInv, SupervisorTypeOK, At
  <1>1. Keeps
    BY <1>0 DEF Keeps, osVars
  <1>2. CASE Die
    BY <1>0, <1>1, <1>2, DieInv, SameGood DEF SupInv, SupervisorTypeOK, osVars
  <1>3. ASSUME ~Die
        PROVE  /\ \/ /\ Goto(Starter, "adopt") /\ copy' = [copy EXCEPT ![Starter] = record]
                     /\ record # NoRecord
                  \/ /\ pc'[Starter] \notin {"load", "adopt", "adopted", "save", "wait", "ready"}
                     /\ copy' = copy
               /\ \E s \in {"adopt", "spawn", "idle"} : Goto(Starter, s)
               /\ UNCHANGED <<up, current, restarting, failures, target>>
               /\ status' \in {status, "degraded"}
               /\ pc'[Starter] = "adopt" => status' = status
    BY <1>3, <1>0, Names DEF LoadRecord, Goto, superVars, SupInv, SupervisorTypeOK
  <1>4. CASE ~Die
    <2>1. SupervisorTypeOK'
      BY <1>0, <1>3, <1>4, Names DEF SupInv, SupervisorTypeOK, Steps, Statuses, Goto, osVars
    <2>2. Ended' /\ Booting' /\ ExitsAreWatched'
      BY <1>0, <1>3, <1>4, Names DEF SupInv, SupervisorTypeOK, Ended, Booting, ExitsAreWatched, Goto
    <2>3. Records'
      <3>1. /\ pc'[Applier] = pc[Applier] /\ target' = target /\ copy'[Applier] = copy[Applier]
            /\ status' = "running" => status = "running"
            /\ pc'[Starter] \in {"adopt", "adopted"} => record # NoRecord /\ copy'[Starter] = record
            /\ \A u \in Spawners : pc'[u] \in {"save", "wait", "ready"} => pc'[u] = pc[u]
        BY <1>0, <1>3, <1>4, Names DEF SupInv, SupervisorTypeOK, Goto
      <3>2. copy'[Starter] = record /\ record # NoRecord => Good(copy[Starter])'
        BY <1>0, <1>1 DEF SupInv, Records, Keeps, Good, Started
      <3> QED BY <1>0, <1>1, <3>1, <3>2, StartedStay, SameGood DEF SupInv, Records
    <2> QED BY <2>1, <2>2, <2>3 DEF SupInv
  <1> QED BY <1>2, <1>4

LEMMA AdoptOkInv ==
    ASSUME SupInv, AdoptOk
    PROVE  SupInv'
  <1>0. up /\ pc[Starter] = "adopt" /\ Goto(Starter, "adopted")
    BY DEF AdoptOk, At
  <1>1. Keeps
    BY DEF AdoptOk, Keeps, osVars
  <1>2. SupervisorTypeOK'
    BY <1>0, Names DEF AdoptOk, SupInv, SupervisorTypeOK, Steps, Statuses, Goto, osVars
  <1>3. Ended' /\ Booting' /\ ExitsAreWatched'
    BY <1>0, Names DEF AdoptOk, SupInv, SupervisorTypeOK, Ended, Booting, ExitsAreWatched, Goto
  <1>4. Records'
    <2>1. /\ pc'[Applier] = pc[Applier] /\ target' = target /\ copy' = copy
          /\ record' = record
          /\ \A u \in Spawners : pc'[u] \in {"save", "wait", "ready"} => pc'[u] = pc[u]
      BY <1>0, Names DEF AdoptOk, SupInv, SupervisorTypeOK, Goto
    <2> QED BY <1>0, <1>1, <2>1, StartedStay, SameGood DEF SupInv, Records
  <1> QED BY <1>2, <1>3, <1>4 DEF SupInv

LEMMA AdoptSaveInv ==
    ASSUME SupInv, NEW ok \in BOOLEAN, AdoptSave(ok)
    PROVE  SupInv'
  <1>0. up /\ pc[Starter] = "adopted" /\ Goto(Starter, "idle") /\ faults' \in 0..MaxFaults
    BY AttemptType DEF AdoptSave, At, SupInv, SupervisorTypeOK
  <1>1. Keeps
    BY DEF AdoptSave, Keeps, osVars
  <1>2. /\ record' \in Record
        /\ record # NoRecord => record' # NoRecord
        /\ record' # NoRecord => Good(record)'
    <2>1. copy[Starter] \in Record /\ Started(copy[Starter].pid, copy[Starter].epoch)
          /\ copy[Starter].next > copy[Starter].epoch
      BY <1>0 DEF SupInv, SupervisorTypeOK, Records, Good
    <2> QED BY <1>1, <2>1, SaveGood DEF AdoptSave
  <1>3. SupervisorTypeOK'
    BY <1>0, <1>2, Names, NoRecordType DEF AdoptSave, SupInv, SupervisorTypeOK, Steps, Goto, osVars, superVars
  <1>4. Ended' /\ Booting' /\ ExitsAreWatched'
    BY <1>0, Names DEF AdoptSave, SupInv, SupervisorTypeOK, Ended, Booting, ExitsAreWatched, Goto, superVars
  <1>5. Records'
    <2>1. /\ pc'[Applier] = pc[Applier] /\ target' = target /\ copy'[Applier] = copy[Applier]
          /\ status' = status /\ pc'[Starter] = "idle"
          /\ \A u \in Spawners : pc'[u] \in {"save", "wait", "ready"} => pc'[u] = pc[u]
      BY <1>0, Names DEF AdoptSave, SupInv, SupervisorTypeOK, Goto, superVars
    <2> QED BY <1>1, <1>2, <2>1, StartedStay DEF SupInv, Records
  <1> QED BY <1>3, <1>4, <1>5 DEF SupInv

LEMMA AdoptFailsInv ==
    ASSUME SupInv, NEW policy, NEW ok \in BOOLEAN, AdoptFails(policy, ok)
    PROVE  SupInv'
  <1>0. /\ up /\ pc[Starter] = "adopt" /\ faults' \in 0..MaxFaults
        /\ copy' = [copy EXCEPT ![Starter] = NoRecord]
        /\ UNCHANGED <<up, file, record, current, restarting, failures, target, crashes>>
    BY AttemptType DEF AdoptFails, At, SupInv, SupervisorTypeOK
  <1>1. /\ \E s \in {"idle", "spawn"} : Goto(Starter, s)
        /\ status' \in {status, "degraded"}
        /\ accepted' \in BOOLEAN
        /\ Kill(copy[Starter].pid) \/ UNCHANGED osVars
    BY DEF AdoptFails, SupInv, SupervisorTypeOK
  <1>2. /\ pstate' \in [Pids -> ProcStates] /\ pepoch' \in [Pids -> Nat] /\ pconf' \in [Pids -> Versions]
        /\ Keeps
    BY <1>1, KeepsKill DEF SupInv, SupervisorTypeOK, osVars, Keeps
  <1>3. SupervisorTypeOK'
    BY <1>0, <1>1, <1>2, Names, NoRecordType DEF SupInv, SupervisorTypeOK, Steps, Statuses, Goto
  <1>4. Ended' /\ Booting' /\ ExitsAreWatched'
    BY <1>0, <1>1, Names DEF SupInv, SupervisorTypeOK, Ended, Booting, ExitsAreWatched, Goto
  <1>5. Records'
    <2>1. /\ pc'[Applier] = pc[Applier] /\ target' = target /\ copy'[Applier] = copy[Applier]
          /\ status' = "running" => status = "running"
          /\ pc'[Starter] \notin {"adopt", "adopted"}
          /\ \A u \in Spawners : pc'[u] \in {"save", "wait", "ready"} => pc'[u] = pc[u]
      BY <1>0, <1>1, Names DEF SupInv, SupervisorTypeOK, Goto
    <2> QED BY <1>0, <1>2, <2>1, StartedStay, SameGood DEF SupInv, Records
  <1> QED BY <1>3, <1>4, <1>5 DEF SupInv

-----------------------------------------------------------------------------
(* monitor.                                                                *)

\* A step of p's monitor between two of its steps that touch no process.
LEMMA MonitorMoves ==
    ASSUME SupInv, NEW p \in Pids, up, pc[p] \in {"watch", "exited", "timer"},
           NEW s \in {"idle", "exited", "timer", "spawn"}, Goto(p, s),
           current' \in {current, 0}, failures' \in Nat,
           status' = status \/ status' \in {"degraded", "backoff"},
           pc[p] = "watch" => current' # p,
           UNCHANGED <<up, file, record, osVars, restarting, target, copy, accepted, faults, crashes>>
    PROVE  SupInv'
  <1>1. Keeps
    BY DEF Keeps, osVars
  <1>2. SupervisorTypeOK'
    BY Names DEF SupInv, SupervisorTypeOK, Steps, Statuses, Goto, osVars
  <1>3. Ended'
    BY DEF Ended
  <1>4. Booting'
    BY Names DEF SupInv, SupervisorTypeOK, Booting, Goto
  <1>5. ExitsAreWatched'
    BY Names DEF SupInv, SupervisorTypeOK, ExitsAreWatched, Goto
  <1>6. Records'
    <2>1. /\ pc'[Applier] = pc[Applier] /\ pc'[Starter] = pc[Starter]
          /\ status' = "running" => status = "running"
          /\ \A u \in Spawners : pc'[u] \in {"save", "wait", "ready"} => pc'[u] = pc[u]
      BY Names DEF SupInv, SupervisorTypeOK, Goto
    <2> QED BY <1>1, <2>1, StartedStay, SameGood DEF SupInv, Records
  <1> QED BY <1>2, <1>3, <1>4, <1>5, <1>6 DEF SupInv

LEMMA MonitorInv ==
    ASSUME SupInv, NEW p \in Pids, MonitorExit(p) \/ MonitorDecide(p) \/ MonitorTimer(p)
    PROVE  SupInv'
  <1>0. failures \in Nat /\ p # 0
    BY DEF SupInv, SupervisorTypeOK, Pids
  <1>1. CASE MonitorExit(p)
    BY <1>0, <1>1, MonitorMoves DEF MonitorExit, At
  <1>2. CASE MonitorDecide(p)
    BY <1>0, <1>2, MonitorMoves DEF MonitorDecide, At
  <1>3. CASE MonitorTimer(p)
    BY <1>0, <1>3, MonitorMoves DEF MonitorTimer, At, superVars
  <1> QED BY <1>1, <1>2, <1>3

LEMMA FailureAgesInv ==
    ASSUME SupInv, FailureAges
    PROVE  SupInv'
  <1>1. SupervisorTypeOK'
    BY DEF FailureAges, SupInv, SupervisorTypeOK, osVars, threadVars
  <1>2. Ended' /\ Booting' /\ ExitsAreWatched'
    BY DEF FailureAges, SupInv, Ended, Booting, ExitsAreWatched, threadVars
  <1>3. Records'
    BY DEF FailureAges, SupInv, Records, Good, Started, osVars, threadVars
  <1> QED BY <1>1, <1>2, <1>3 DEF SupInv

-----------------------------------------------------------------------------
(* HotRestart.                                                             *)

HotSteps == {"hot", "read", "epoch", "fork", "childwait", "commit"}

\* HotRestart returns an error, whatever it did to processes and record.
LEMMA RefuseInv ==
    ASSUME SupInv, Keeps, up, pc[Applier] \in HotSteps, Refuse,
           UNCHANGED <<up, file, status, current, failures, copy, accepted, crashes>>,
           target' \in [Threads -> 0..MaxProcs], \A u \in Spawners : target'[u] = target[u],
           faults' \in 0..MaxFaults,
           pstate' \in [Pids -> ProcStates], pepoch' \in [Pids -> Nat],
           pconf' \in [Pids -> Versions],
           record' \in Record,
           record # NoRecord => record' # NoRecord,
           record' # NoRecord => Good(record)'
    PROVE  SupInv'
  <1>1. SupervisorTypeOK'
    BY Names DEF Refuse, Goto, SupInv, SupervisorTypeOK, Steps
  <1>2. Ended' /\ Booting' /\ ExitsAreWatched'
    BY Names DEF Refuse, Goto, SupInv, SupervisorTypeOK, Ended, Booting, ExitsAreWatched
  <1>3. Records'
    <2>1. pc'[Applier] = "refused" /\ \A u \in Spawners : pc'[u] = pc[u]
      BY Names DEF Refuse, Goto, SupInv, SupervisorTypeOK
    <2> QED BY <2>1, Names, StartedStay DEF SupInv, Records
  <1> QED BY <1>1, <1>2, <1>3 DEF SupInv

LEMMA HotEnterInv ==
    ASSUME SupInv, HotEnter
    PROVE  SupInv'
  <1>0. up /\ pc[Applier] = "hot" /\ UNCHANGED <<up, file, record, osVars, status, current, failures, target, copy, accepted, faults, crashes>>
    BY DEF HotEnter, At
  <1>1. Keeps
    BY <1>0 DEF Keeps, osVars
  <1>2. CASE status = "running"
    <2>0. restarting' = TRUE /\ Goto(Applier, "read")
      BY <1>2 DEF HotEnter
    <2>1. SupervisorTypeOK'
      BY <1>0, <2>0, Names DEF SupInv, SupervisorTypeOK, Steps, Goto, osVars
    <2>2. Ended' /\ Booting' /\ ExitsAreWatched'
      BY <1>0, <1>2, <2>0, Names DEF SupInv, SupervisorTypeOK, Ended, Booting, ExitsAreWatched, Goto
    <2>3. Records'
      <3>1. pc'[Applier] = "read" /\ \A u \in Spawners : pc'[u] = pc[u]
        BY <2>0, Names DEF Goto, SupInv, SupervisorTypeOK
      <3> QED BY <1>0, <1>1, <1>2, <3>1, Names, StartedStay, SameGood DEF SupInv, Records
    <2> QED BY <2>1, <2>2, <2>3 DEF SupInv
  <1>3. CASE status # "running"
    BY <1>0, <1>1, <1>3, RefuseInv, SameGood DEF HotEnter, HotSteps, osVars, SupInv, SupervisorTypeOK
  <1> QED BY <1>2, <1>3

LEMMA ReadEpochInv ==
    ASSUME SupInv, NEW ok \in BOOLEAN, ReadEpoch(ok)
    PROVE  SupInv'
  <1>0. /\ up /\ pc[Applier] = "read" /\ faults' \in 0..MaxFaults
        /\ UNCHANGED <<up, file, record, osVars, status, current, failures, target, accepted, crashes>>
    BY AttemptType DEF ReadEpoch, At, SupInv, SupervisorTypeOK
  <1>1. Keeps
    BY <1>0 DEF Keeps, osVars
  <1>2. CASE ok
    <2>0. copy' = [copy EXCEPT ![Applier] = record] /\ Goto(Applier, "epoch") /\ UNCHANGED restarting
      BY <1>2 DEF ReadEpoch
    <2>1. SupervisorTypeOK'
      BY <1>0, <2>0, Names DEF SupInv, SupervisorTypeOK, Steps, Goto, osVars
    <2>2. Ended' /\ Booting' /\ ExitsAreWatched'
      BY <1>0, <1>2, <2>0, Names DEF SupInv, SupervisorTypeOK, Ended, Booting, ExitsAreWatched, Goto
    <2>3. Records'
      <3>1. pc'[Applier] = "epoch" /\ \A u \in Spawners : pc'[u] = pc[u]
        BY <2>0, Names DEF Goto, SupInv, SupervisorTypeOK
      <3>2. Good(record)' /\ copy'[Applier] = record' /\ copy'[Starter] = copy[Starter]
        BY <1>0, <1>1, <2>0, Names, SameGood DEF SupInv, SupervisorTypeOK, Records
      <3>3. Good(copy[Applier])'
        BY <3>2 DEF Good, Started
      <3> QED BY <1>0, <1>1, <3>1, <3>2, <3>3, Names, StartedStay, SameGood DEF SupInv, Records
    <2> QED BY <2>1, <2>2, <2>3 DEF SupInv
  <1>3. CASE ~ok
    BY <1>0, <1>1, <1>3, RefuseInv, SameGood DEF ReadEpoch, HotSteps, osVars, SupInv, SupervisorTypeOK
  <1> QED BY <1>2, <1>3

LEMMA TakeEpochInv ==
    ASSUME SupInv, NEW ok \in BOOLEAN, TakeEpoch(ok)
    PROVE  SupInv'
  <1> DEFINE taken == [copy[Applier] EXCEPT !.next = @ + 1]
  <1>0. /\ up /\ pc[Applier] = "epoch" /\ faults' \in 0..MaxFaults
        /\ Save(taken, ok)
        /\ UNCHANGED <<up, file, osVars, status, current, failures, target, accepted, crashes>>
    BY AttemptType DEF TakeEpoch, At, SupInv, SupervisorTypeOK
  <1>1. Keeps
    BY <1>0 DEF Keeps, osVars
  <1>2. taken \in Record /\ Started(taken.pid, taken.epoch) /\ taken.next > taken.epoch
    BY <1>0 DEF SupInv, SupervisorTypeOK, Records, Good, Record
  <1>3. /\ record' \in Record
        /\ record # NoRecord => record' # NoRecord
        /\ record' # NoRecord => Good(record)'
        /\ ok => record' # NoRecord
    BY <1>0, <1>1, <1>2, SaveGood
  <1>4. CASE ok
    <2>0. copy' = [copy EXCEPT ![Applier] = taken] /\ Goto(Applier, "fork") /\ UNCHANGED restarting
      BY <1>4 DEF TakeEpoch
    <2>1. SupervisorTypeOK'
      BY <1>0, <1>2, <1>3, <2>0, Names DEF SupInv, SupervisorTypeOK, Steps, Goto, osVars
    <2>2. Ended' /\ Booting' /\ ExitsAreWatched'
      BY <1>0, <2>0, Names DEF SupInv, SupervisorTypeOK, Ended, Booting, ExitsAreWatched, Goto
    <2>3. Records'
      <3>1. pc'[Applier] = "fork" /\ \A u \in Spawners : pc'[u] = pc[u]
        BY <2>0, Names DEF Goto, SupInv, SupervisorTypeOK
      <3>2. copy'[Applier] = taken /\ copy'[Starter] = copy[Starter]
        BY <2>0, Names DEF SupInv, SupervisorTypeOK
      <3>3. Good(copy[Applier])'
        BY <1>1, <1>2, <3>2 DEF Good, Started, Keeps
      <3> QED BY <1>0, <1>1, <1>3, <3>1, <3>2, <3>3, Names, StartedStay DEF SupInv, Records
    <2> QED BY <2>1, <2>2, <2>3 DEF SupInv
  <1>5. CASE ~ok
    <2>1. Refuse /\ UNCHANGED copy
      BY <1>5 DEF TakeEpoch
    <2> QED BY <1>0, <1>1, <1>3, <2>1, RefuseInv DEF HotSteps, osVars, SupInv, SupervisorTypeOK
  <1> QED BY <1>4, <1>5

LEMMA HotSpawnInv ==
    ASSUME SupInv, NEW ok \in BOOLEAN, HotSpawn(ok)
    PROVE  SupInv'
  <1>0. /\ up /\ pc[Applier] = "fork" /\ faults' \in 0..MaxFaults
        /\ UNCHANGED <<up, file, record, status, current, failures, copy, accepted, crashes>>
    BY AttemptType DEF HotSpawn, At, SupInv, SupervisorTypeOK
  <1>1. CASE ok
    <2>0. PICK p \in Pids : /\ Launch(p, copy[Applier].next - 1)
                            /\ target' = [target EXCEPT ![Applier] = p]
                            /\ Goto(Applier, "childwait")
                            /\ UNCHANGED restarting
      BY <1>1 DEF HotSpawn
    <2>1. copy[Applier].next - 1 \in Nat
      BY <1>0 DEF SupInv, SupervisorTypeOK, Records, Good, Record
    <2>2. /\ pstate' \in [Pids -> ProcStates] /\ pepoch' \in [Pids -> Nat] /\ pconf' \in [Pids -> Versions]
          /\ Keeps /\ pstate'[p] # "none" /\ pepoch'[p] = copy[Applier].next - 1
      BY <2>0, <2>1, KeepsLaunch DEF SupInv
    <2>3. SupervisorTypeOK'
      BY <1>0, <2>0, <2>2, Names DEF SupInv, SupervisorTypeOK, Steps, Goto
    <2>4. Ended' /\ Booting' /\ ExitsAreWatched'
      BY <1>0, <2>0, Names DEF SupInv, SupervisorTypeOK, Ended, Booting, ExitsAreWatched, Goto
    <2>5. Records'
      <3>1. pc'[Applier] = "childwait" /\ \A u \in Spawners : pc'[u] = pc[u] /\ target'[u] = target[u]
        BY <2>0, Names DEF Goto, SupInv, SupervisorTypeOK
      <3>2. Started(target[Applier], copy[Applier].next - 1)'
        BY <1>0, <2>0, <2>2, Names DEF Started, SupInv, SupervisorTypeOK
      <3> QED BY <1>0, <2>2, <3>1, <3>2, Names, StartedStay, SameGood DEF SupInv, Records
    <2> QED BY <2>3, <2>4, <2>5 DEF SupInv
  <1>2. CASE ~ok
    <2>1. Refuse /\ UNCHANGED <<osVars, target>>
      BY <1>2 DEF HotSpawn
    <2>2. Keeps
      BY <2>1 DEF Keeps, osVars
    <2> QED BY <1>0, <2>1, <2>2, SameGood, RefuseInv DEF HotSteps, osVars, SupInv, SupervisorTypeOK
  <1> QED BY <1>1, <1>2

LEMMA HotWaitOkInv ==
    ASSUME SupInv, HotWaitOk
    PROVE  SupInv'
  <1>0. /\ up /\ pc[Applier] = "childwait" /\ Goto(Applier, "commit")
        /\ UNCHANGED <<up, file, record, osVars, superVars, target, copy, accepted, faults, crashes>>
    BY DEF HotWaitOk, At
  <1>1. Keeps
    BY <1>0 DEF Keeps, osVars
  <1>2. SupervisorTypeOK'
    BY <1>0, Names DEF SupInv, SupervisorTypeOK, Steps, Goto, osVars, superVars
  <1>3. Ended' /\ Booting' /\ ExitsAreWatched'
    BY <1>0, Names DEF SupInv, SupervisorTypeOK, Ended, Booting, ExitsAreWatched, Goto, superVars
  <1>4. Records'
    <2>1. pc'[Applier] = "commit" /\ status' = status /\ \A u \in Spawners : pc'[u] = pc[u]
      BY <1>0, Names DEF Goto, SupInv, SupervisorTypeOK, superVars
    <2> QED BY <1>0, <1>1, <2>1, Names, StartedStay, SameGood DEF SupInv, Records
  <1> QED BY <1>2, <1>3, <1>4 DEF SupInv

LEMMA HotWaitFailsInv ==
    ASSUME SupInv, NEW ok \in BOOLEAN, HotWaitFails(ok)
    PROVE  SupInv'
  <1>0. /\ up /\ pc[Applier] = "childwait" /\ faults' \in 0..MaxFaults
        /\ Kill(target[Applier]) /\ Save(copy[Applier], ok) /\ Refuse
        /\ UNCHANGED <<up, file, status, current, failures, target, copy, accepted, crashes>>
    BY AttemptType DEF HotWaitFails, At, SupInv, SupervisorTypeOK
  <1>1. /\ pstate' \in [Pids -> ProcStates] /\ pepoch' \in [Pids -> Nat] /\ pconf' \in [Pids -> Versions]
        /\ Keeps
    BY <1>0, KeepsKill DEF SupInv
  <1>2. copy[Applier] \in Record /\ Started(copy[Applier].pid, copy[Applier].epoch)
        /\ copy[Applier].next > copy[Applier].epoch
    BY <1>0 DEF SupInv, SupervisorTypeOK, Records, Good
  <1>3. /\ record' \in Record
        /\ record # NoRecord => record' # NoRecord
        /\ record' # NoRecord => Good(record)'
    BY <1>0, <1>1, <1>2, SaveGood
  <1> QED BY <1>0, <1>1, <1>3, RefuseInv DEF HotSteps, SupInv, SupervisorTypeOK

LEMMA HotCommitInv ==
    ASSUME SupInv, NEW ok \in BOOLEAN, HotCommit(ok)
    PROVE  SupInv'
  <1> DEFINE p == target[Applier]
             r == [pid |-> p, epoch |-> pepoch[p], next |-> copy[Applier].next]
  <1>0. /\ up /\ pc[Applier] = "commit" /\ faults' \in 0..MaxFaults
        /\ Save(r, ok)
        /\ UNCHANGED <<up, file, failures, target, copy, crashes>>
    BY AttemptType DEF HotCommit, At, SupInv, SupervisorTypeOK
  <1>1. r \in Record /\ Started(r.pid, r.epoch) /\ r.next > r.epoch /\ p \in Pids
    BY <1>0, Names DEF SupInv, SupervisorTypeOK, Records, Good, Started, Record
  <1>2. ASSUME Keeps
        PROVE  /\ record' \in Record
               /\ record # NoRecord => record' # NoRecord
               /\ record' # NoRecord => Good(record)'
               /\ ok => record' # NoRecord
    BY <1>0, <1>1, <1>2, SaveGood
  <1>3. CASE ok
    <2>0. /\ current' = p /\ status' = "running" /\ restarting' = FALSE
          /\ pc' = [pc EXCEPT ![Applier] = "done", ![p] = "watch"]
          /\ accepted' = TRUE
          /\ UNCHANGED osVars
      BY <1>3 DEF HotCommit
    <2>1. Keeps
      BY <2>0 DEF Keeps, osVars
    <2>2. SupervisorTypeOK'
      BY <1>0, <1>1, <1>2, <2>0, <2>1, Names DEF SupInv, SupervisorTypeOK, Steps, Statuses, osVars
    <2>3. Ended' /\ ExitsAreWatched'
      BY <1>0, <1>1, <2>0, Names DEF SupInv, SupervisorTypeOK, Ended, ExitsAreWatched
    <2>4. Booting'
      BY <1>0, <1>1, <2>0, Names DEF SupInv, SupervisorTypeOK, Booting
    <2>5. Records'
      <3>1. /\ pc'[Applier] = "done" /\ pc'[Starter] = pc[Starter]
            /\ \A u \in Spawners : pc'[u] \in {"save", "wait", "ready"} => pc'[u] = pc[u]
        BY <1>1, <2>0, Names DEF SupInv, SupervisorTypeOK
      <3> QED BY <1>0, <1>2, <1>3, <2>1, <3>1, Names, StartedStay DEF SupInv, Records
    <2> QED BY <2>2, <2>3, <2>4, <2>5 DEF SupInv
  <1>4. CASE ~ok
    <2>0. Kill(p) /\ Refuse /\ UNCHANGED <<current, status, accepted>>
      BY <1>4 DEF HotCommit
    <2>1. /\ pstate' \in [Pids -> ProcStates] /\ pepoch' \in [Pids -> Nat] /\ pconf' \in [Pids -> Versions]
          /\ Keeps
      BY <2>0, KeepsKill DEF SupInv
    <2> QED BY <1>0, <1>2, <2>0, <2>1, RefuseInv DEF HotSteps, SupInv, SupervisorTypeOK
  <1> QED BY <1>3, <1>4

-----------------------------------------------------------------------------
(* Envoy.                                                                  *)

LEMMA EnvoyInv ==
    ASSUME SupInv, NEW p \in Pids,
           EnvoyLive(p) \/ EnvoyStartFails(p) \/ ParentExits(p) \/ EnvoyCrashes(p)
    PROVE  SupInv'
  <1>1. EnvoyOnly /\ crashes' \in 0..MaxCrashes
    BY Names DEF EnvoyLive, EnvoyStartFails, ParentExits, EnvoyCrashes, SupInv, SupervisorTypeOK
  <1>2. pstate' \in [Pids -> ProcStates] /\ Keeps
    BY <1>1 DEF EnvoyLive, EnvoyStartFails, ParentExits, EnvoyCrashes, EnvoyOnly, SupInv, SupervisorTypeOK, ProcStates, Keeps
  <1>3. SupervisorTypeOK'
    BY <1>1, <1>2 DEF EnvoyOnly, SupInv, SupervisorTypeOK, superVars, threadVars
  <1>4. Ended' /\ Booting' /\ ExitsAreWatched'
    BY <1>1 DEF EnvoyOnly, SupInv, Ended, Booting, ExitsAreWatched, superVars, threadVars
  <1>5. Records'
    BY <1>1, <1>2, StartedStay, SameGood DEF EnvoyOnly, SupInv, Records, superVars, threadVars
  <1> QED BY <1>3, <1>4, <1>5 DEF SupInv

-----------------------------------------------------------------------------
(* The supervisor and Envoy leave the file alone, and neither begin nor end *)
(* a call of Apply.                                                        *)

Calm == /\ file' = file
        /\ up' => up /\ (pc'[Applier] = "idle" <=> pc[Applier] = "idle")

LEMMA SpawnCalm ==
    ASSUME SupInv, NEW t \in Spawners, NEW ok \in BOOLEAN,
           \/ Spawn(t, ok) \/ SaveStarting(t, ok) \/ Ready(t, ok) \/ WaitOk(t) \/ WaitFails(t)
    PROVE  Calm
  <1>0. up /\ file' = file /\ t # Applier /\ t \in Threads /\ pc \in [Threads -> Steps] /\ target[t] # Applier
    BY Names DEF Spawn, SaveStarting, Ready, WaitOk, WaitFails, At, SupInv, SupervisorTypeOK
  <1>1. CASE SpawnFailed(t)
    BY <1>0, <1>1, Names DEF SpawnFailed, Die, Goto, Calm
  <1>2. CASE ~SpawnFailed(t)
    <2>1. (\E s \in Steps : Goto(t, s)) \/ pc' = [pc EXCEPT ![t] = "idle", ![target[t]] = "watch"]
      BY <1>2 DEF Spawn, SaveStarting, Ready, WaitOk, WaitFails, Steps
    <2> QED BY <1>0, <2>1, Names DEF Goto, Calm
  <1> QED BY <1>1, <1>2

LEMMA StartCalm ==
    ASSUME SupInv, NEW ok \in BOOLEAN, NEW policy,
           \/ LoadRecord(ok) \/ AdoptOk \/ AdoptSave(ok) \/ AdoptFails(policy, ok)
    PROVE  Calm
  <1>1. up /\ file' = file /\ pc \in [Threads -> Steps]
    BY DEF LoadRecord, AdoptOk, AdoptSave, AdoptFails, At, SupInv, SupervisorTypeOK
  <1>2. up' = FALSE \/ \E s \in Steps : Goto(Starter, s)
    BY DEF LoadRecord, AdoptOk, AdoptSave, AdoptFails, Die, Steps
  <1> QED BY <1>1, <1>2, Names DEF Goto, Calm

LEMMA MonitorCalm ==
    ASSUME SupInv, NEW p \in Pids, MonitorExit(p) \/ MonitorDecide(p) \/ MonitorTimer(p)
    PROVE  Calm
  <1>1. up /\ file' = file /\ pc \in [Threads -> Steps]
    BY DEF MonitorExit, MonitorDecide, MonitorTimer, At, SupInv, SupervisorTypeOK
  <1>2. \E s \in Steps : Goto(p, s)
    BY DEF MonitorExit, MonitorDecide, MonitorTimer, Steps
  <1> QED BY <1>1, <1>2, Names DEF Goto, Calm

LEMMA HotCalm ==
    ASSUME SupInv, NEW ok \in BOOLEAN,
           \/ HotEnter \/ ReadEpoch(ok) \/ TakeEpoch(ok) \/ HotSpawn(ok)
           \/ HotWaitOk \/ HotWaitFails(ok) \/ HotCommit(ok)
    PROVE  Calm
  <1>1. up /\ file' = file /\ pc \in [Threads -> Steps] /\ pc[Applier] # "idle" /\ target[Applier] # Applier
    BY Names DEF HotEnter, ReadEpoch, TakeEpoch, HotSpawn, HotWaitOk, HotWaitFails, HotCommit, At, SupInv, SupervisorTypeOK
  <1>2. \/ \E s \in Steps \ {"idle"} : Goto(Applier, s)
        \/ pc' = [pc EXCEPT ![Applier] = "done", ![target[Applier]] = "watch"]
    BY DEF HotEnter, ReadEpoch, TakeEpoch, HotSpawn, HotWaitOk, HotWaitFails, HotCommit, Refuse, Steps
  <1> QED BY <1>1, <1>2, Names DEF Goto, Calm

LEMMA EnvoyCalm ==
    ASSUME NEW p \in Pids,
           EnvoyLive(p) \/ EnvoyStartFails(p) \/ ParentExits(p) \/ EnvoyCrashes(p)
    PROVE  Calm
  BY DEF EnvoyLive, EnvoyStartFails, ParentExits, EnvoyCrashes, EnvoyOnly, threadVars, Calm

\* A step of the supervisor or of Envoy.
LEMMA SupKeepsInv ==
    ASSUME Inv, SupInv', Calm, UNCHANGED <<deliverVars, boots>>
    PROVE  Inv'
  BY DEF Inv, Delivery, Calm, TypeOK, SupInv, deliverVars

-----------------------------------------------------------------------------
(* The deliverer and the life of esgw.                                     *)

LEMMA BootCount ==
    ASSUME NEW n \in 0..MaxBoots
    PROVE  0 \in 0..MaxBoots /\ (n < MaxBoots => n + 1 \in 0..MaxBoots)
  BY DeliveryAssumption

LEMMA BootInv ==
    ASSUME Inv, NEW v \in Versions, Boot(v)
    PROVE  Inv'
  <1>0. /\ Ended /\ ~up /\ pc \in [Threads -> Steps] /\ pc' = [pc EXCEPT ![Starter] = "load"]
        /\ up' = TRUE /\ status' = "idle" /\ current' = 0 /\ file' = v
        /\ UNCHANGED <<record, osVars, superVars, target, copy, accepted, faults, crashes>>
    BY DEF Boot, Inv, SupInv, SupervisorTypeOK, Ended, superVars
  <1>1. SupervisorTypeOK'
    BY <1>0, Names DEF Inv, SupInv, SupervisorTypeOK, Steps, osVars, superVars
  <1>2. TypeOK'
    <2>1. boots' \in 0..MaxBoots
      BY DeliveryAssumption, BootCount DEF Boot, Inv, TypeOK
    <2>2. torn' \in BOOLEAN /\ delivered' \in Versions /\ wanted' \in Versions /\ previous' \in Versions
      BY DEF Boot
    <2> QED BY <1>1, <2>1, <2>2 DEF TypeOK
  <1>3. \A t \in Threads : t # Starter => pc'[t] = "idle"
    BY <1>0 DEF Ended
  <1>4. Ended' /\ Booting' /\ ExitsAreWatched'
    BY <1>0, <1>3, Names DEF Ended, Booting, ExitsAreWatched
  <1>5. Records'
    <2>1. pc'[Starter] = "load" /\ pc'[Applier] = "idle" /\ \A t \in Spawners : pc'[t] \in {"idle", "load"}
      BY <1>0, <1>3, Names
    <2> QED BY <1>0, <2>1 DEF Inv, SupInv, Records, Good, Started, osVars
  <1>6. Delivery'
    BY <1>3, Names DEF Boot, Delivery
  <1> QED BY <1>1, <1>2, <1>4, <1>5, <1>6 DEF Inv, SupInv

LEMMA CloseInv ==
    ASSUME Inv, Close
    PROVE  Inv'
  <1>1. Keeps
    BY DEF Close, osVars, Keeps
  <1>2. SupInv'
    BY <1>1, DieInv, SameGood DEF Close, Inv, SupInv, SupervisorTypeOK, osVars
  <1>3. TypeOK'
    BY <1>2 DEF Close, Inv, SupInv, TypeOK, deliverVars
  <1>4. Delivery'
    BY DEF Close, Die, Delivery
  <1> QED BY <1>2, <1>3, <1>4 DEF Inv

\* The caller of Apply moves, to a step that knows of no process.
LEMMA ApplierMoves ==
    ASSUME SupInv, up, NEW s \in {"idle", "hot"}, Goto(Applier, s),
           file' \in Versions, faults' \in 0..MaxFaults,
           target' \in [Threads -> 0..MaxProcs], \A u \in Spawners : target'[u] = target[u],
           copy' \in [{Starter, Applier} -> Record], copy'[Starter] = copy[Starter],
           UNCHANGED <<up, record, osVars, superVars, accepted, crashes>>
    PROVE  SupInv'
  <1>0. Keeps
    BY DEF Keeps, osVars
  <1>1. SupervisorTypeOK'
    BY Names DEF Goto, SupInv, SupervisorTypeOK, Steps, osVars, superVars
  <1>2. Ended' /\ Booting' /\ ExitsAreWatched'
    BY Names DEF Goto, SupInv, SupervisorTypeOK, Ended, Booting, ExitsAreWatched, superVars
  <1>3. Records'
    <2>1. pc'[Applier] = s /\ status' = status /\ \A u \in Spawners : pc'[u] = pc[u]
      BY Names DEF Goto, SupInv, SupervisorTypeOK, superVars
    <2> QED BY <1>0, <2>1, Names, StartedStay, SameGood DEF SupInv, Records
  <1> QED BY <1>1, <1>2, <1>3 DEF SupInv

LEMMA ApplyInv ==
    ASSUME Inv, NEW v \in Versions, Apply(v)
    PROVE  Inv'
  <1>0. pc'[Applier] = "hot" /\ up /\ pc[Applier] = "idle"
    BY Names DEF Apply, At, Goto, Inv, SupInv, SupervisorTypeOK
  <1>1. SupInv'
    BY <1>0, ApplierMoves DEF Apply, Inv, SupInv, SupervisorTypeOK
  <1>2. TypeOK'
    BY <1>1 DEF Apply, Inv, SupInv, SupervisorTypeOK, TypeOK
  <1>3. Delivery'
    BY <1>0 DEF Apply, Inv, Delivery
  <1> QED BY <1>1, <1>2, <1>3 DEF Inv

LEMMA WriteFailsInv ==
    ASSUME Inv, NEW v \in Versions, WriteFails(v)
    PROVE  Inv'
  <1>0. up /\ pc[Applier] = "idle" /\ faults' \in 0..MaxFaults /\ file' \in Versions /\ UNCHANGED threadVars
    BY AttemptType DEF WriteFails, At, Inv, SupInv, SupervisorTypeOK
  <1>1. SupInv'
    <2>1. SupervisorTypeOK'
      BY <1>0 DEF WriteFails, Inv, SupInv, SupervisorTypeOK, osVars, superVars, threadVars
    <2>2. Ended' /\ Booting' /\ ExitsAreWatched'
      BY DEF WriteFails, Inv, SupInv, Ended, Booting, ExitsAreWatched, superVars, threadVars
    <2>3. Records'
      BY DEF WriteFails, Inv, SupInv, Records, Good, Started, osVars, superVars, threadVars
    <2> QED BY <2>1, <2>2, <2>3 DEF SupInv
  <1>2. TypeOK'
    BY <1>1 DEF WriteFails, Inv, SupInv, TypeOK
  <1>3. Delivery'
    BY <1>0 DEF WriteFails, Delivery, threadVars
  <1> QED BY <1>1, <1>2, <1>3 DEF Inv

LEMMA AppliedInv ==
    ASSUME Inv, Applied
    PROVE  Inv'
  <1>0. up /\ pc[Applier] = "done" /\ pc'[Applier] = "idle" /\ Goto(Applier, "idle")
        /\ target' \in [Threads -> 0..MaxProcs] /\ (\A u \in Spawners : target'[u] = target[u])
        /\ copy' \in [{Starter, Applier} -> Record] /\ copy'[Starter] = copy[Starter]
    BY Names, NoRecordType DEF Applied, At, Goto, Inv, SupInv, SupervisorTypeOK
  <1>1. SupInv'
    BY <1>0, ApplierMoves DEF Applied, Inv, SupInv, SupervisorTypeOK
  <1>2. TypeOK'
    BY <1>1 DEF Applied, Inv, SupInv, TypeOK
  <1>3. Delivery'
    BY <1>0 DEF Applied, Inv, Delivery
  <1> QED BY <1>1, <1>2, <1>3 DEF Inv

LEMMA RestoreInv ==
    ASSUME Inv, NEW ok \in BOOLEAN, Restore(ok)
    PROVE  Inv'
  <1>0. up /\ pc[Applier] = "refused" /\ pc'[Applier] = "idle" /\ Goto(Applier, "idle")
        /\ faults' \in 0..MaxFaults /\ file' \in Versions
        /\ target' \in [Threads -> 0..MaxProcs] /\ (\A u \in Spawners : target'[u] = target[u])
        /\ copy' \in [{Starter, Applier} -> Record] /\ copy'[Starter] = copy[Starter]
    BY Names, NoRecordType, AttemptType DEF Restore, At, Goto, Inv, SupInv, SupervisorTypeOK, TypeOK
  <1>1. SupInv'
    BY <1>0, ApplierMoves DEF Restore, Inv
  <1>2. TypeOK'
    BY <1>1 DEF Restore, Inv, SupInv, TypeOK
  <1>3. Delivery'
    BY <1>0 DEF Restore, Inv, Delivery
  <1> QED BY <1>1, <1>2, <1>3 DEF Inv

-----------------------------------------------------------------------------
(* The theorems.                                                           *)

\* The inductive invariant: types, what goroutines know of processes, and the
\* file while Apply runs.
THEOREM StaticInvariance == Spec => []Inv
<1>1. Init => Inv
  <2> SUFFICES ASSUME Init PROVE Inv
    OBVIOUS
  <2>1. SupervisorTypeOK
    <3>1. 0 \in 0..MaxFaults /\ 0 \in 0..MaxCrashes /\ 0 \in 0..MaxProcs
      BY Names
    <3>2. /\ up \in BOOLEAN /\ file \in Versions /\ record \in Record
          /\ copy \in [{Starter, Applier} -> Record]
          /\ restarting \in BOOLEAN /\ accepted \in BOOLEAN
      BY NoRecordType DEF Init
    <3>3. /\ pstate \in [Pids -> ProcStates] /\ pepoch \in [Pids -> Nat] /\ pconf \in [Pids -> Versions]
          /\ status \in Statuses /\ failures \in Nat
          /\ pc \in [Threads -> Steps]
      BY DEF Init, ProcStates, Statuses, Steps
    <3>4. /\ target \in [Threads -> 0..MaxProcs] /\ current \in 0..MaxProcs
          /\ faults \in 0..MaxFaults /\ crashes \in 0..MaxCrashes
      BY <3>1 DEF Init
    <3> QED BY <3>2, <3>3, <3>4 DEF SupervisorTypeOK
  <2>2. TypeOK
    <3>1. boots \in 0..MaxBoots
      BY DeliveryAssumption DEF Init
    <3>2. torn \in BOOLEAN /\ delivered \in Versions /\ wanted \in Versions /\ previous \in Versions
      BY DEF Init
    <3> QED BY <2>1, <3>1, <3>2 DEF TypeOK
  <2>3. Ended /\ Booting /\ ExitsAreWatched /\ Records /\ Delivery
    BY Names DEF Init, Ended, Booting, ExitsAreWatched, Records, Delivery
  <2> QED BY <2>1, <2>2, <2>3 DEF Inv, SupInv
<1>2. Inv /\ [Next]_vars => Inv'
  <2> SUFFICES ASSUME Inv, [Next]_vars PROVE Inv'
    OBVIOUS
  <2>0. SupInv
    BY DEF Inv
  <2>1. ASSUME NEW v \in Versions, Boot(v) \/ Apply(v) \/ WriteFails(v) PROVE Inv'
    BY <2>1, BootInv, ApplyInv, WriteFailsInv
  <2>2. CASE Close \/ Applied
    BY <2>2, CloseInv, AppliedInv
  <2>3. CASE Sup(FailureAges)
    <3>1. Calm
      BY <2>3 DEF Sup, FailureAges, Calm, threadVars
    <3> QED BY <2>0, <2>3, <3>1, FailureAgesInv, SupKeepsInv DEF Sup
  <2>4. CASE StarterStep
    <3>1. UNCHANGED <<deliverVars, boots>>
      BY <2>4 DEF StarterStep, Sup
    <3>2. SupInv'
      BY <2>0, <2>4, LoadRecordInv, AdoptOkInv, AdoptSaveInv, AdoptFailsInv DEF StarterStep, Sup
    <3>3. Calm
      BY <2>0, <2>4, StartCalm DEF StarterStep, Sup
    <3> QED BY <3>1, <3>2, <3>3, SupKeepsInv
  <2>5. CASE ApplyStep /\ ~Applied /\ ~\E ok \in BOOLEAN : Restore(ok)
    <3>1. UNCHANGED <<deliverVars, boots>>
      BY <2>5 DEF ApplyStep, Sup
    <3>2. SupInv'
      BY <2>0, <2>5, HotEnterInv, ReadEpochInv, TakeEpochInv, HotSpawnInv, HotWaitOkInv, HotWaitFailsInv, HotCommitInv
         DEF ApplyStep, Sup
    <3>3. Calm
      BY <2>0, <2>5, HotCalm DEF ApplyStep, Sup
    <3> QED BY <3>1, <3>2, <3>3, SupKeepsInv
  <2>6. ASSUME NEW ok \in BOOLEAN, Restore(ok) PROVE Inv'
    BY <2>6, RestoreInv
  <2>7. CASE EnvoyStep
    <3>1. UNCHANGED <<deliverVars, boots>>
      BY <2>7 DEF EnvoyStep, Sup
    <3>2. SupInv' /\ Calm
      BY <2>0, <2>7, EnvoyInv, EnvoyCalm DEF EnvoyStep, Sup
    <3> QED BY <3>1, <3>2, SupKeepsInv
  <2>8. ASSUME NEW t \in Spawners, SpawnStep(t) PROVE Inv'
    <3>1. UNCHANGED <<deliverVars, boots>>
      BY <2>8 DEF SpawnStep, Sup
    <3>2. SupInv'
      BY <2>0, <2>8, SpawnInv, SaveStartingInv, ReadyInv, WaitOkInv, WaitFailsInv DEF SpawnStep, Sup
    <3>3. Calm
      BY <2>0, <2>8, SpawnCalm DEF SpawnStep, Sup
    <3> QED BY <3>1, <3>2, <3>3, SupKeepsInv
  <2>9. ASSUME NEW p \in Pids, MonitorStep(p) PROVE Inv'
    <3>1. UNCHANGED <<deliverVars, boots>>
      BY <2>9 DEF MonitorStep, Sup
    <3>2. SupInv' /\ Calm
      BY <2>0, <2>9, MonitorInv, MonitorCalm DEF MonitorStep, Sup
    <3> QED BY <3>1, <3>2, SupKeepsInv
  <2>10. CASE UNCHANGED vars
    <3>1. SupInv'
      BY <2>0, <2>10 DEF vars, supVars, SupInv, SupervisorTypeOK, Ended, Booting, ExitsAreWatched, Records,
                         Good, Started, osVars, superVars, threadVars
    <3> QED BY <2>10, <3>1, SupKeepsInv DEF vars, supVars, threadVars, Calm
  <2> QED BY <2>1, <2>2, <2>3, <2>4, <2>5, <2>6, <2>7, <2>8, <2>9, <2>10 DEF Next
<1> QED BY <1>1, <1>2, PTL DEF Spec

\* Every variable of the supervisor and of the deliverer keeps its type.
THEOREM StaticTypeCorrect == Spec => []TypeOK
<1>1. Inv => TypeOK
    BY DEF Inv
<1> QED BY <1>1, StaticInvariance, PTL

\* Between two calls of Apply the file holds the version accepted last, unless
\* a write of it failed, whatever HotRestart and the monitors did meanwhile.
THEOREM FileStaysGood == Spec => []FileIsLastGood
<1>1. Inv => FileIsLastGood
    BY DEF Inv, Delivery, FileIsLastGood
<1> QED BY <1>1, StaticInvariance, PTL

\* A process that is current and reported as running has a monitor waiting for
\* its exit, for any number of concurrent restarts.
THEOREM ExitsStayWatched == Spec => []ExitsAreWatched
<1>1. Inv => ExitsAreWatched
    BY DEF Inv, SupInv
<1> QED BY <1>1, StaticInvariance, PTL

\* proc.json names a process that was started, by its epoch, and a next epoch
\* that is larger, although stale copies of it are written back.
THEOREM RecordStaysTrue == Spec => []RecordIsTrue
<1>1. Inv => RecordIsTrue
    BY DEF Inv, SupInv, Records, Good, Started, RecordIsTrue
<1> QED BY <1>1, StaticInvariance, PTL

-----------------------------------------------------------------------------
(* The data plane survives.  The invariant above does not say which        *)
(* processes carry traffic; the one below is proved on top of it.          *)

\* Until Start has a process that was seen, it is alone.
Alone ==
    pc[Starter] \in {"load", "adopt"} \cup SpawnSteps =>
        /\ status # "running"
        /\ \A p \in Pids : pc[p] = "idle"
        /\ pc[Applier] \in {"idle", "hot", "refused"}

\* Monitors and hot restarts begin after a process was seen.
Accepting ==
    \/ status = "running"
    \/ \E p \in Pids : pc[p] # "idle"
    \/ pc[Applier] \in HotSteps \ {"hot"}
    => accepted

Carrying(p) == pstate[p] \in {"live", "draining"}

\* A goroutine has started p and stops it when it does not become ready.
Doomed(p) ==
    \/ \E t \in Spawners : pc[t] \in {"save", "wait", "ready"} /\ target[t] = p
    \/ pc[Applier] \in {"childwait", "commit"} /\ target[Applier] = p

\* A process carries traffic that no failure of a restart stops.
Carried == accepted /\ crashes = 0 => \E p \in Pids : Carrying(p) /\ ~Doomed(p)

\* The first process, or one left by an earlier esgw, was seen.
FirstSeen == pc[Starter] = "ready" /\ crashes = 0 => \E p \in Pids : Carrying(p)

Serving == Alone /\ Accepting /\ Carried /\ FirstSeen

\* Only doomed processes stop carrying, and only new ones become doomed.
LEMMA CarriedStays ==
    ASSUME Serving, crashes' = 0 => crashes = 0, accepted' => accepted,
           \A p \in Pids : Carrying(p) => Carrying(p)' \/ Doomed(p),
           \A p \in Pids : Doomed(p)' => Doomed(p) \/ pstate[p] = "none"
    PROVE  Carried'
  BY DEF Serving, Carried, Carrying

LEMMA SeenStays ==
    ASSUME Serving, crashes' = 0 => crashes = 0,
           pc'[Starter] = "ready" => pc[Starter] = "ready" /\ \A p \in Pids : Carrying(p) => Carrying(p)'
    PROVE  FirstSeen'
  BY DEF Serving, FirstSeen

LEMMA KillCarrying ==
    ASSUME SupInv, NEW q, Kill(q)
    PROVE  \A p \in Pids : Carrying(p) => Carrying(p)' \/ p = q
  BY DEF SupInv, SupervisorTypeOK, Kill, Carrying

LEMMA DieServing ==
    ASSUME SupInv, Serving, Die, crashes' = 0 => crashes = 0, accepted' => accepted,
           \A p \in Pids : Carrying(p) => Carrying(p)' \/ Doomed(p)
    PROVE  Serving'
  <1>1. /\ \A t \in Threads : pc'[t] = "idle"
        /\ status' = "idle"
    BY DEF Die
  <1>2. Alone' /\ Accepting' /\ FirstSeen'
    BY <1>1, Names DEF Alone, Accepting, FirstSeen, SpawnSteps, HotSteps
  <1>3. \A p \in Pids : ~Doomed(p)'
    BY <1>1, Names DEF Doomed
  <1> QED BY <1>2, <1>3, CarriedStays DEF Serving

-----------------------------------------------------------------------------

\* spawnAndWait returns an error.
LEMMA SpawnFailedServing ==
    ASSUME SupInv, Serving, NEW t \in Spawners, pc[t] \in SpawnSteps, SpawnFailed(t),
           UNCHANGED <<crashes, accepted>>,
           \/ UNCHANGED osVars
           \/ pc[t] \in {"save", "wait", "ready"} /\ Kill(target[t])
    PROVE  Serving'
  <1>1. \A p \in Pids : Carrying(p) => Carrying(p)' \/ Doomed(p)
    BY KillCarrying DEF Carrying, osVars, Doomed
  <1>2. CASE t = Starter
    BY <1>1, <1>2, DieServing DEF SpawnFailed
  <1>3. CASE t # Starter
    <2>0. /\ t \in Pids /\ accepted
          /\ pc[Starter] \notin {"load", "adopt"} \cup SpawnSteps
      BY <1>3, SupervisorAssumption DEF Spawners, Threads, Applier, Pids, Starter, Serving, Accepting, Alone, SpawnSteps
    <2>1. /\ pc' = [pc EXCEPT ![t] = "idle"] /\ target' = [target EXCEPT ![t] = 0] /\ accepted' = accepted
      BY <1>3 DEF SpawnFailed, Goto
    <2>2. /\ pc'[Starter] = pc[Starter] /\ pc'[Applier] = pc[Applier] /\ target'[Applier] = target[Applier]
          /\ \A u \in Spawners : pc'[u] \in {"save", "wait", "ready"} => pc'[u] = pc[u] /\ target'[u] = target[u]
      BY <2>0, <2>1, Names DEF SupInv, SupervisorTypeOK
    <2>3. Alone' /\ Accepting' /\ FirstSeen'
      BY <2>0, <2>1, <2>2 DEF Alone, Accepting, FirstSeen, SpawnSteps
    <2>4. \A p \in Pids : Doomed(p)' => Doomed(p)
      BY <2>2 DEF Doomed
    <2> QED BY <1>1, <2>1, <2>3, <2>4, CarriedStays DEF Serving
  <1> QED BY <1>2, <1>3

\* spawnAndWait goes on.
LEMMA SpawnMoves ==
    ASSUME SupInv, Serving, NEW t \in Spawners, pc[t] \in SpawnSteps,
           NEW s \in {"save", "wait", "ready"}, Goto(t, s),
           status' # "running" \/ status' = status,
           UNCHANGED <<crashes, accepted>>
    PROVE  Alone' /\ Accepting'
  <1>1. t = Starter \/ t \in Pids
    BY SupervisorAssumption DEF Spawners, Threads, Applier, Pids, Starter
  <1>2. /\ pc'[t] = s /\ \A u \in Threads : u # t => pc'[u] = pc[u]
    BY Names DEF Goto, SupInv, SupervisorTypeOK
  <1>3. CASE t = Starter
    BY <1>2, <1>3, Names DEF Serving, Alone, Accepting, SpawnSteps
  <1>4. CASE t \in Pids
    BY <1>2, <1>4, Names DEF Serving, Alone, Accepting, SpawnSteps
  <1> QED BY <1>1, <1>3, <1>4

LEMMA SpawnServing ==
    ASSUME SupInv, Serving, NEW t \in Spawners, NEW ok \in BOOLEAN, Spawn(t, ok)
    PROVE  Serving'
  <1>0. /\ pc[t] = "spawn" /\ UNCHANGED <<crashes, accepted>> /\ t \in Threads /\ t # Applier
    BY Names DEF Spawn, At
  <1>1. CASE ok
    <2>1. PICK p \in Pids : /\ Launch(p, 0)
                            /\ target' = [target EXCEPT ![t] = p]
                            /\ Goto(t, "save")
                            /\ UNCHANGED <<up, superVars, copy>>
      BY <1>1 DEF Spawn
    <2>2. pstate[p] = "none" /\ \A q \in Pids : Carrying(q) => Carrying(q)'
      BY <2>1 DEF Launch, NextPid, Pids, Carrying, SupInv, SupervisorTypeOK
    <2>3. Alone' /\ Accepting'
      BY <1>0, <2>1, SpawnMoves DEF SpawnSteps, superVars
    <2>4. \A q \in Pids : Doomed(q)' => Doomed(q) \/ pstate[q] = "none"
      <3>1. /\ pc'[Applier] = pc[Applier] /\ target'[Applier] = target[Applier] /\ target'[t] = p
            /\ \A u \in Spawners : u # t => pc'[u] = pc[u] /\ target'[u] = target[u]
        BY <1>0, <2>1, Names DEF Goto, SupInv, SupervisorTypeOK
      <3> QED BY <2>2, <3>1 DEF Doomed
    <2>5. pc'[Starter] = "ready" => pc[Starter] = "ready"
      BY <1>0, <2>1, Names DEF Goto, SupInv, SupervisorTypeOK
    <2> QED BY <1>0, <2>2, <2>3, <2>4, <2>5, CarriedStays, SeenStays DEF Serving
  <1>2. CASE ~ok
    <2>1. SpawnFailed(t) /\ UNCHANGED osVars
      BY <1>2 DEF Spawn
    <2> QED BY <1>0, <2>1, SpawnFailedServing DEF SpawnSteps
  <1> QED BY <1>1, <1>2

LEMMA SaveStartingServing ==
    ASSUME SupInv, Serving, NEW t \in Spawners, NEW ok \in BOOLEAN, SaveStarting(t, ok)
    PROVE  Serving'
  <1>0. /\ pc[t] = "save" /\ UNCHANGED <<crashes, accepted>> /\ t \in Threads /\ t # Applier
    BY Names DEF SaveStarting, At
  <1>1. CASE ok
    <2>1. status' = "starting" /\ Goto(t, "wait") /\ UNCHANGED <<osVars, target>>
      BY <1>1 DEF SaveStarting
    <2>2. Alone' /\ Accepting'
      BY <1>0, <2>1, SpawnMoves DEF SpawnSteps
    <2>3. \A q \in Pids : (Carrying(q) => Carrying(q)') /\ (Doomed(q)' => Doomed(q))
      BY <1>0, <2>1, Names DEF Goto, SupInv, SupervisorTypeOK, Carrying, Doomed, osVars
    <2>4. pc'[Starter] = "ready" => pc[Starter] = "ready"
      BY <1>0, <2>1, Names DEF Goto, SupInv, SupervisorTypeOK
    <2> QED BY <1>0, <2>2, <2>3, <2>4, CarriedStays, SeenStays DEF Serving
  <1>2. CASE ~ok
    <2>1. SpawnFailed(t) /\ Kill(target[t])
      BY <1>2 DEF SaveStarting
    <2> QED BY <1>0, <2>1, SpawnFailedServing DEF SpawnSteps
  <1> QED BY <1>1, <1>2

LEMMA WaitServing ==
    ASSUME SupInv, Serving, NEW t \in Spawners, WaitOk(t) \/ WaitFails(t)
    PROVE  Serving'
  <1>0. /\ pc[t] = "wait" /\ UNCHANGED <<crashes, accepted>> /\ t \in Threads /\ t # Applier
    BY Names DEF WaitOk, WaitFails, At
  <1>1. CASE WaitOk(t)
    <2>1. Goto(t, "ready") /\ Observable(0) /\ UNCHANGED <<osVars, superVars, target>>
      BY <1>1 DEF WaitOk
    <2>2. Alone' /\ Accepting'
      BY <1>0, <2>1, SpawnMoves DEF SpawnSteps, superVars
    <2>3. \A q \in Pids : (Carrying(q) => Carrying(q)') /\ (Doomed(q)' => Doomed(q))
      BY <1>0, <2>1, Names DEF Goto, SupInv, SupervisorTypeOK, Carrying, Doomed, osVars
    <2>4. FirstSeen'
      BY <2>1 DEF Observable, FirstSeen, Carrying, osVars
    <2> QED BY <1>0, <2>2, <2>3, <2>4, CarriedStays DEF Serving
  <1>2. CASE WaitFails(t)
    BY <1>0, <1>2, SpawnFailedServing DEF WaitFails, SpawnSteps
  <1> QED BY <1>1, <1>2

LEMMA ReadyServing ==
    ASSUME SupInv, Serving, NEW t \in Spawners, NEW ok \in BOOLEAN, Ready(t, ok)
    PROVE  Serving'
  <1>0. /\ pc[t] = "ready" /\ crashes' = crashes /\ t \in Threads /\ t # Applier
        /\ t = Starter \/ t \in Pids
    BY Names, SupervisorAssumption DEF Ready, At, Spawners, Threads, Applier, Pids, Starter
  <1>1. CASE ok
    <2>1. /\ status' = "running" /\ accepted' = TRUE
          /\ pc' = [pc EXCEPT ![t] = "idle", ![target[t]] = "watch"]
          /\ target' = [target EXCEPT ![t] = 0]
          /\ UNCHANGED osVars
      BY <1>1 DEF Ready
    <2>2. target[t] \in Pids
      BY <1>0, FirstRecord
    <2>3. /\ pc'[Applier] = pc[Applier] /\ target'[Applier] = target[Applier]
          /\ pc'[Starter] \in {"idle", pc[Starter]}
          /\ t = Starter => pc'[Starter] = "idle"
          /\ \A u \in Spawners : pc'[u] \in {"save", "wait", "ready"} => u # t /\ pc'[u] = pc[u] /\ target'[u] = target[u]
      BY <1>0, <2>1, <2>2, Names DEF SupInv, SupervisorTypeOK
    <2>4. pc'[Starter] \notin {"load", "adopt"} \cup SpawnSteps
      BY <1>0, <2>3, Names DEF Serving, Alone, SpawnSteps
    <2>5. Alone' /\ Accepting' /\ FirstSeen'
      BY <2>1, <2>4 DEF Alone, Accepting, FirstSeen, SpawnSteps
    <2>6. \A q \in Pids : (Carrying(q) => Carrying(q)') /\ (Doomed(q)' => Doomed(q))
      BY <2>1, <2>3 DEF Carrying, Doomed, osVars
    <2>7. CASE t = Starter
      <3>1. \A q \in Pids : ~Doomed(q)'
        BY <1>0, <2>3, <2>7, Names DEF Doomed, Serving, Alone, SpawnSteps, Spawners, Threads, Applier, Pids, Starter
      <3> QED BY <1>0, <2>5, <2>6, <2>7, <3>1 DEF Serving, FirstSeen, Carried
    <2>8. CASE t \in Pids
      <3>1. accepted
        BY <1>0, <2>8 DEF Serving, Accepting
      <3> QED BY <1>0, <2>5, <2>6, <3>1, CarriedStays DEF Serving
    <2> QED BY <1>0, <2>7, <2>8
  <1>2. CASE ~ok
    <2>1. SpawnFailed(t) /\ Kill(target[t]) /\ UNCHANGED accepted
      BY <1>2 DEF Ready
    <2> QED BY <1>0, <2>1, SpawnFailedServing DEF SpawnSteps
  <1> QED BY <1>1, <1>2

LEMMA LoadRecordServing ==
    ASSUME SupInv, Serving, NEW ok \in BOOLEAN, LoadRecord(ok)
    PROVE  Serving'
  <1>0. pc[Starter] = "load" /\ UNCHANGED <<osVars, accepted, crashes>>
    BY DEF LoadRecord, At
  <1>1. \A q \in Pids : Carrying(q) => Carrying(q)'
    BY <1>0 DEF Carrying, osVars
  <1>2. CASE Die
    BY <1>0, <1>1, <1>2, DieServing
  <1>3. CASE ~Die
    <2>1. /\ \E s \in {"adopt", "spawn", "idle"} : Goto(Starter, s)
          /\ target' = target /\ status' \in {status, "degraded"}
      BY <1>3 DEF LoadRecord, superVars
    <2>2. /\ pc'[Starter] \in {"adopt", "spawn", "idle"}
          /\ \A u \in Threads : u # Starter => pc'[u] = pc[u]
      BY <2>1, Names DEF Goto, SupInv, SupervisorTypeOK
    <2>3. Alone' /\ Accepting'
      BY <1>0, <2>1, <2>2, Names DEF Serving, Alone, Accepting, SpawnSteps
    <2>4. \A q \in Pids : Doomed(q)' => Doomed(q)
      BY <2>1, <2>2, Names DEF Doomed
    <2> QED BY <1>0, <1>1, <2>2, <2>3, <2>4, CarriedStays, SeenStays DEF Serving
  <1> QED BY <1>2, <1>3

\* The process that was seen is nobody's to stop: Start is alone.
LEMMA AdoptOkServing ==
    ASSUME SupInv, Serving, AdoptOk
    PROVE  Serving'
  <1>0. pc[Starter] = "adopt" /\ Observable(copy[Starter].epoch) /\ Goto(Starter, "adopted")
        /\ accepted' = TRUE /\ UNCHANGED <<osVars, target, crashes>>
    BY DEF AdoptOk, At
  <1>1. pc'[Starter] = "adopted" /\ \A u \in Threads : u # Starter => pc'[u] = pc[u]
    BY <1>0, Names DEF Goto, SupInv, SupervisorTypeOK
  <1>2. Alone' /\ Accepting' /\ FirstSeen'
    BY <1>0, <1>1 DEF Alone, Accepting, FirstSeen, SpawnSteps
  <1>3. \A q \in Pids : ~Doomed(q)'
    BY <1>0, <1>1, Names DEF Doomed, Serving, Alone, SpawnSteps, Spawners, Threads, Applier, Pids, Starter
  <1>4. \E q \in Pids : Carrying(q)'
    BY <1>0 DEF Observable, Carrying, osVars
  <1> QED BY <1>2, <1>3, <1>4 DEF Serving, Carried

LEMMA AdoptEndsServing ==
    ASSUME SupInv, Serving, NEW ok \in BOOLEAN, NEW policy, AdoptSave(ok) \/ AdoptFails(policy, ok)
    PROVE  Serving'
  <1>0. /\ pc[Starter] \in {"adopt", "adopted"}
        /\ \E s \in {"idle", "spawn"} : Goto(Starter, s) /\ (pc[Starter] = "adopted" => s = "idle")
        /\ status' \in {status, "degraded"}
        /\ UNCHANGED <<target, crashes>>
        /\ \/ accepted' = FALSE /\ pc[Starter] = "adopt"
           \/ UNCHANGED <<osVars, accepted>>
    BY DEF AdoptSave, AdoptFails, At, superVars
  <1>1. /\ pc'[Starter] \in {"idle", "spawn"} /\ (pc[Starter] = "adopted" => pc'[Starter] = "idle")
        /\ \A u \in Threads : u # Starter => pc'[u] = pc[u]
    BY <1>0, Names DEF Goto, SupInv, SupervisorTypeOK
  <1>2. Alone' /\ Accepting' /\ FirstSeen'
    BY <1>0, <1>1, Names DEF Serving, Alone, Accepting, FirstSeen, SpawnSteps, HotSteps
  <1>3. \A q \in Pids : Doomed(q)' => Doomed(q)
    BY <1>0, <1>1, Names DEF Doomed
  <1>4. CASE accepted' = FALSE
    BY <1>2, <1>4 DEF Serving, Carried
  <1>5. CASE UNCHANGED <<osVars, accepted>>
    <2>1. \A q \in Pids : Carrying(q) => Carrying(q)'
      BY <1>5 DEF Carrying, osVars
    <2> QED BY <1>0, <1>2, <1>3, <1>5, <2>1, CarriedStays DEF Serving
  <1> QED BY <1>0, <1>4, <1>5

\* A step of p's monitor.
LEMMA MonitorServing ==
    ASSUME SupInv, Serving, NEW p \in Pids, MonitorExit(p) \/ MonitorDecide(p) \/ MonitorTimer(p)
    PROVE  Serving'
  <1>0. /\ pc[p] \in {"watch", "exited", "timer"}
        /\ \E s \in {"idle", "exited", "timer", "spawn"} : Goto(p, s)
        /\ status' \in {status, "degraded", "backoff"}
        /\ UNCHANGED <<osVars, target, accepted, crashes>>
    BY DEF MonitorExit, MonitorDecide, MonitorTimer, At, superVars
  <1>1. /\ pc'[p] \in {"idle", "exited", "timer", "spawn"}
        /\ \A u \in Threads : u # p => pc'[u] = pc[u]
    BY <1>0, Names DEF Goto, SupInv, SupervisorTypeOK
  <1>2. accepted' /\ pc'[Starter] = pc[Starter] /\ pc[Starter] \notin {"load", "adopt"} \cup SpawnSteps
    BY <1>0, <1>1, Names DEF Serving, Accepting, Alone
  <1>3. Alone' /\ Accepting' /\ FirstSeen'
    BY <1>2 DEF Alone, Accepting, FirstSeen, SpawnSteps
  <1>4. \A q \in Pids : (Carrying(q) => Carrying(q)') /\ (Doomed(q)' => Doomed(q))
    BY <1>0, <1>1, Names DEF Carrying, Doomed, osVars
  <1> QED BY <1>0, <1>3, <1>4, CarriedStays DEF Serving

\* The caller of Apply moves to a step at which it waits for no child, and
\* stops at most the child it was waiting for.
LEMMA ApplierServing ==
    ASSUME SupInv, Serving, NEW s \in {"idle", "hot", "read", "epoch", "fork", "refused"}, Goto(Applier, s),
           \A u \in Spawners : target'[u] = target[u],
           UNCHANGED <<status, accepted, crashes>>,
           s \in {"read", "epoch", "fork"} => status = "running" \/ pc[Applier] \in HotSteps \ {"hot"},
           \/ UNCHANGED osVars
           \/ pc[Applier] \in {"childwait", "commit"} /\ Kill(target[Applier])
    PROVE  Serving'
  <1>1. pc'[Applier] = s /\ \A u \in Threads : u # Applier => pc'[u] = pc[u]
    BY Names DEF Goto, SupInv, SupervisorTypeOK
  <1>2. Alone' /\ Accepting'
    BY <1>1, Names DEF Serving, Alone, Accepting, HotSteps
  <1>3. \A q \in Pids : (Carrying(q) => Carrying(q)' \/ Doomed(q)) /\ (Doomed(q)' => Doomed(q))
    <2>1. \A q \in Pids : Carrying(q) => Carrying(q)' \/ Doomed(q)
      BY KillCarrying DEF Carrying, Doomed, osVars
    <2>2. \A q \in Pids : Doomed(q)' => Doomed(q)
      BY <1>1, Names DEF Doomed
    <2> QED BY <2>1, <2>2
  <1>4. pc'[Starter] = "ready" => pc[Starter] = "ready" /\ \A q \in Pids : Carrying(q) => Carrying(q)'
    BY <1>1, Names DEF Serving, Alone, SpawnSteps, Carrying, osVars
  <1> QED BY <1>2, <1>3, <1>4, CarriedStays, SeenStays DEF Serving

LEMMA HotServing ==
    ASSUME SupInv, Serving, NEW ok \in BOOLEAN,
           \/ HotEnter \/ ReadEpoch(ok) \/ TakeEpoch(ok) \/ HotWaitFails(ok)
           \/ (HotSpawn(ok) \/ HotCommit(ok)) /\ ~ok
    PROVE  Serving'
  <1>1. CASE HotEnter
    BY <1>1, ApplierServing DEF HotEnter, Refuse
  <1>2. CASE ReadEpoch(ok)
    BY <1>2, ApplierServing DEF ReadEpoch, Refuse, At, HotSteps
  <1>3. CASE TakeEpoch(ok)
    BY <1>3, ApplierServing DEF TakeEpoch, Refuse, At, HotSteps
  <1>4. CASE HotWaitFails(ok)
    BY <1>4, ApplierServing DEF HotWaitFails, Refuse, At
  <1>5. CASE HotSpawn(ok) /\ ~ok
    BY <1>5, ApplierServing DEF HotSpawn, Refuse
  <1>6. CASE HotCommit(ok) /\ ~ok
    BY <1>6, ApplierServing DEF HotCommit, Refuse, At
  <1> QED BY <1>1, <1>2, <1>3, <1>4, <1>5, <1>6

\* A child is started, seen, and replaces its parent: some process carried
\* before, and goes on.
LEMMA ChildServing ==
    ASSUME SupInv, Serving, HotSpawn(TRUE) \/ HotWaitOk \/ HotCommit(TRUE)
    PROVE  Serving'
  <1>0. pc[Applier] \in {"fork", "childwait", "commit"} /\ crashes' = crashes
    BY DEF HotSpawn, HotWaitOk, HotCommit, At
  <1>1. accepted /\ pc[Starter] \notin {"load", "adopt"} \cup SpawnSteps
    BY <1>0 DEF Serving, Accepting, Alone, HotSteps
  <1>2. accepted' = TRUE
    BY <1>1 DEF HotSpawn, HotWaitOk, HotCommit, SupInv, SupervisorTypeOK
  <1>3. /\ pc'[Starter] = pc[Starter]
        /\ \A u \in Spawners : pc'[u] \in {"save", "wait", "ready"} => pc'[u] = pc[u] /\ target'[u] = target[u]
        /\ \A q \in Pids : Carrying(q) => Carrying(q)'
        /\ \A q \in Pids : pc'[Applier] \in {"childwait", "commit"} /\ target'[Applier] = q => Doomed(q) \/ pstate[q] = "none"
    <2>1. CASE HotSpawn(TRUE)
      <3>1. PICK p \in Pids : /\ Launch(p, copy[Applier].next - 1)
                              /\ target' = [target EXCEPT ![Applier] = p]
                              /\ Goto(Applier, "childwait")
        BY <2>1 DEF HotSpawn
      <3>2. pstate[p] = "none" /\ \A q \in Pids : Carrying(q) => Carrying(q)'
        BY <3>1 DEF Launch, NextPid, Pids, Carrying, SupInv, SupervisorTypeOK
      <3> QED BY <3>1, <3>2, Names DEF Goto, SupInv, SupervisorTypeOK
    <2>2. CASE HotWaitOk
      BY <2>2, Names DEF HotWaitOk, At, Goto, SupInv, SupervisorTypeOK, Carrying, Doomed, osVars
    <2>3. CASE HotCommit(TRUE)
      <3>1. pc[Applier] = "commit" /\ target[Applier] \in Pids
        BY <2>3 DEF HotCommit, At, SupInv, Records, Started
      <3>2. /\ pc' = [pc EXCEPT ![Applier] = "done", ![target[Applier]] = "watch"]
            /\ UNCHANGED <<osVars, target>>
        BY <2>3 DEF HotCommit
      <3> QED BY <3>1, <3>2, Names DEF SupInv, SupervisorTypeOK, Carrying, osVars
    <2> QED BY <2>1, <2>2, <2>3
  <1>4. Alone' /\ Accepting' /\ FirstSeen'
    BY <1>1, <1>2, <1>3 DEF Alone, Accepting, FirstSeen, SpawnSteps
  <1>5. \A q \in Pids : Doomed(q)' => Doomed(q) \/ pstate[q] = "none"
    BY <1>3 DEF Doomed
  <1> QED BY <1>0, <1>1, <1>3, <1>4, <1>5, CarriedStays DEF Serving

\* Envoy.  A process that exits because of its child leaves the child, which
\* is not doomed: those that Start and monitors started have epoch zero.
LEMMA EnvoyServing ==
    ASSUME SupInv, Serving, NEW p \in Pids,
           EnvoyLive(p) \/ EnvoyStartFails(p) \/ ParentExits(p) \/ EnvoyCrashes(p)
    PROVE  Serving'
  <1>0. EnvoyOnly
    BY DEF EnvoyLive, EnvoyStartFails, ParentExits, EnvoyCrashes
  <1>1. Alone' /\ Accepting'
    BY <1>0 DEF EnvoyOnly, Serving, Alone, Accepting, superVars, threadVars
  <1>2. \A q \in Pids : Doomed(q)' <=> Doomed(q)
    BY <1>0 DEF EnvoyOnly, Doomed, threadVars
  <1>3. CASE EnvoyLive(p) \/ EnvoyStartFails(p)
    <2>1. \A q \in Pids : Carrying(q) => Carrying(q)'
      BY <1>3 DEF EnvoyLive, EnvoyStartFails, Carrying, SupInv, SupervisorTypeOK
    <2>2. crashes' = crashes /\ accepted' = accepted /\ pc' = pc
      BY <1>0, <1>3 DEF EnvoyOnly, EnvoyLive, EnvoyStartFails, threadVars
    <2> QED BY <1>1, <1>2, <2>1, <2>2, CarriedStays, SeenStays DEF Serving
  <1>4. CASE ParentExits(p)
    <2>1. PICK c \in Pids : /\ pstate[c] = "live" /\ pepoch[c] > pepoch[p]
                            /\ ~(pc[Applier] \in {"childwait", "commit"} /\ target[Applier] = c)
      BY <1>4 DEF ParentExits
    <2>2. pstate[p] = "draining" /\ pstate' = [pstate EXCEPT ![p] = "dead"]
      BY <1>4 DEF ParentExits
    <2>3. Carrying(c)'
      BY <2>1, <2>2 DEF Carrying, SupInv, SupervisorTypeOK
    <2>4. pepoch[c] # 0
      BY <2>1 DEF SupInv, SupervisorTypeOK
    <2>5. ~Doomed(c)
      BY <2>1, <2>4 DEF Doomed, SupInv, Records, Started
    <2> QED BY <1>1, <1>2, <2>3, <2>5 DEF Serving, Carried, FirstSeen
  <1>5. CASE EnvoyCrashes(p)
    <2>1. crashes' # 0
      BY <1>5 DEF EnvoyCrashes, SupInv, SupervisorTypeOK
    <2> QED BY <1>1, <2>1 DEF Serving, Carried, FirstSeen
  <1> QED BY <1>3, <1>4, <1>5

LEMMA BootServing ==
    ASSUME SupInv, Serving, NEW v \in Versions, Boot(v)
    PROVE  Serving'
  <1>0. /\ pc' = [pc EXCEPT ![Starter] = "load"] /\ status = "idle"
        /\ (\A t \in Threads : pc[t] = "idle")
        /\ UNCHANGED <<osVars, status, target, accepted, crashes>>
    BY DEF Boot, SupInv, Ended, superVars
  <1>1. pc'[Starter] = "load" /\ \A t \in Threads : t # Starter => pc'[t] = "idle"
    BY <1>0, Names DEF SupInv, SupervisorTypeOK
  <1>2. Alone' /\ Accepting' /\ FirstSeen'
    BY <1>0, <1>1, Names DEF Alone, Accepting, FirstSeen, HotSteps
  <1>3. \A q \in Pids : (Carrying(q) => Carrying(q)') /\ ~Doomed(q)'
    BY <1>0, <1>1, Names DEF Carrying, Doomed, osVars
  <1> QED BY <1>0, <1>2, <1>3, CarriedStays DEF Serving

\* Nothing that matters here changes.
LEMMA SameServing ==
    ASSUME Serving, UNCHANGED <<osVars, status, pc, target, accepted, crashes>>
    PROVE  Serving'
  BY DEF Serving, Alone, Accepting, Carried, FirstSeen, Carrying, Doomed, osVars

LEMMA DeliverServing ==
    ASSUME SupInv, Serving, NEW v \in Versions, NEW ok \in BOOLEAN,
           Apply(v) \/ WriteFails(v) \/ Close \/ Applied \/ Restore(ok)
    PROVE  Serving'
  <1>1. CASE Apply(v)
    BY <1>1, ApplierServing DEF Apply, superVars
  <1>2. CASE WriteFails(v)
    BY <1>2, SameServing DEF WriteFails, superVars, threadVars
  <1>3. CASE Close
    BY <1>3, DieServing DEF Close, Carrying, osVars
  <1>4. CASE Applied
    <2>1. Goto(Applier, "idle") /\ \A u \in Spawners : target'[u] = target[u]
      BY <1>4, Names DEF Applied, Goto, SupInv, SupervisorTypeOK
    <2> QED BY <1>4, <2>1, ApplierServing DEF Applied, superVars
  <1>5. CASE Restore(ok)
    <2>1. Goto(Applier, "idle") /\ \A u \in Spawners : target'[u] = target[u]
      BY <1>5, Names DEF Restore, Goto, SupInv, SupervisorTypeOK
    <2> QED BY <1>5, <2>1, ApplierServing DEF Restore, superVars
  <1> QED BY <1>1, <1>2, <1>3, <1>4, <1>5

\* Deliveries that fail at any point and restarts of esgw never leave the
\* machine without an Envoy once one was seen LIVE, unless Envoy crashes or the
\* restart policy stops it.
THEOREM DataPlaneStaysUp == Spec => []DataPlaneSurvives
<1>1. Init => Serving
  BY Names DEF Init, Serving, Alone, Accepting, Carried, FirstSeen, SpawnSteps, HotSteps
<1>2. Inv /\ Serving /\ [Next]_vars => Serving'
  <2> SUFFICES ASSUME Inv, Serving, [Next]_vars PROVE Serving'
    OBVIOUS
  <2>0. SupInv
    BY DEF Inv
  <2>1. ASSUME NEW v \in Versions, Boot(v) \/ Apply(v) \/ WriteFails(v) PROVE Serving'
    BY <2>0, <2>1, BootServing, DeliverServing
  <2>2. CASE Close
    BY <2>0, <2>2, DeliverServing, DeliveryAssumption
  <2>3. CASE Sup(FailureAges)
    BY <2>3, SameServing DEF Sup, FailureAges, threadVars
  <2>4. CASE StarterStep
    BY <2>0, <2>4, LoadRecordServing, AdoptOkServing, AdoptEndsServing DEF StarterStep, Sup
  <2>5. CASE ApplyStep
    <3>1. ASSUME NEW ok \in BOOLEAN, HotSpawn(ok) \/ HotCommit(ok) PROVE Serving'
      <4>1. CASE ok = TRUE
        BY <2>0, <3>1, <4>1, ChildServing
      <4>2. CASE ok = FALSE
        BY <2>0, <3>1, <4>2, HotServing
      <4> QED BY <4>1, <4>2
    <3>2. ASSUME NEW ok \in BOOLEAN, ReadEpoch(ok) \/ TakeEpoch(ok) \/ HotWaitFails(ok) PROVE Serving'
      BY <2>0, <3>2, HotServing
    <3>3. CASE HotEnter \/ HotWaitOk
      BY <2>0, <3>3, HotServing, ChildServing
    <3>4. CASE Applied \/ \E ok \in BOOLEAN : Restore(ok)
      BY <2>0, <3>4, DeliverServing, DeliveryAssumption
    <3> QED BY <2>5, <3>1, <3>2, <3>3, <3>4 DEF ApplyStep, Sup
  <2>6. CASE EnvoyStep
    BY <2>0, <2>6, EnvoyServing DEF EnvoyStep, Sup
  <2>7. ASSUME NEW t \in Spawners, SpawnStep(t) PROVE Serving'
    BY <2>0, <2>7, SpawnServing, SaveStartingServing, ReadyServing, WaitServing DEF SpawnStep, Sup
  <2>8. ASSUME NEW p \in Pids, MonitorStep(p) PROVE Serving'
    BY <2>0, <2>8, MonitorServing DEF MonitorStep, Sup
  <2>9. CASE UNCHANGED vars
    BY <2>9, SameServing DEF vars, supVars, superVars, threadVars
  <2> QED BY <2>1, <2>2, <2>3, <2>4, <2>5, <2>6, <2>7, <2>8, <2>9 DEF Next
<1>3. Serving => DataPlaneSurvives
  BY DEF Serving, Carried, Carrying, DataPlaneSurvives, Alive
<1> QED BY <1>1, <1>2, <1>3, StaticInvariance, PTL DEF Spec
=============================================================================
