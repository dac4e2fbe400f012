---------------------------- MODULE StateService ----------------------------
(***************************************************************************)
(* M-STATE: confirmation of a delivered version, internal/state/state.go.  *)
(*                                                                         *)
(* One refresh runs at a time (collectMu).  It reads /config_dump without  *)
(* holding Service.mu, and only later, under mu, compares what it read     *)
(* with the expectation of that later moment.  A verdict is sent without   *)
(* blocking to the subscriber's channel.                                   *)
(***************************************************************************)
EXTENDS Naturals, Sequences, Outputs

CONSTANTS
    Types,          \* the xDS resource types that take part (not EDS)
    ConfirmBuffer,  \* capacity of the publisher's event channel
    Mode            \* deliver.mode: "xds" or "static"

ASSUME StateAssumption ==
    /\ ConfirmBuffer \in Nat \ {0}
    /\ Mode \in {"xds", "static"}

VARIABLES
    envoy,          \* the version Envoy has of each type, NoIR for none
    adminUp,        \* Envoy's admin endpoint answers
    expected,       \* Service.expected, NoIR for ""
    expired,        \* now - expectAt >= timeout
    refreshing,     \* a refresh has read its dump and holds collectMu
    dump,           \* the versions in the dump it has read
    events          \* the channel to the publisher

stateVars == <<expected, expired, refreshing, dump, events>>

Event == [expected : IRs, status : {"CONFIRMED", "TIMEOUT"}]

StateTypeOK ==
    /\ envoy \in [Types -> IRs \cup {NoIR}]
    /\ adminUp \in BOOLEAN
    /\ expected \in IRs \cup {NoIR}
    /\ expired \in BOOLEAN
    /\ refreshing \in BOOLEAN
    /\ dump \in SUBSET IRs
    /\ events \in Seq(Event)

StateInit ==
    /\ envoy = [t \in Types |-> NoIR]
    /\ adminUp = TRUE
    /\ expected = NoIR
    /\ expired = FALSE
    /\ refreshing = FALSE
    /\ dump = {}
    /\ events = <<>>

-----------------------------------------------------------------------------
\* The distinct non-empty version_info values of a dump.  A type without a
\* version does not count, and only dynamic resources carry one: a static
\* Envoy shows none.
configDumpVersions ==
    IF Mode = "xds" THEN {envoy[t] : t \in Types} \ {NoIR} ELSE {}

\* ExpectVersion cancels the previous confirm loop and starts a new one.
ExpectVersion(ir) ==
    /\ expected' = ir
    /\ expired' = FALSE
    /\ UNCHANGED <<refreshing, dump, events>>

\* The expectation's timeout elapses.
Deadline ==
    /\ expected # NoIR
    /\ ~expired
    /\ expired' = TRUE
    /\ UNCHANGED <<expected, refreshing, dump, events>>

\* refreshLocked up to the point where it takes mu.  The poll loop, the
\* confirm loop and the state API all come here; a failed request returns
\* without touching the expectation.
ReadDump ==
    /\ ~refreshing
    /\ adminUp
    /\ refreshing' = TRUE
    /\ dump' = configDumpVersions
    /\ UNCHANGED <<expected, expired, events>>

\* Faulty variant: the deadline is never looked at.
VerdictWithoutTimeout == IF dump = {expected} THEN "CONFIRMED" ELSE "IDLE"

\* The verdict of a refresh on the current expectation.
Verdict == IF dump = {expected} THEN "CONFIRMED"
           ELSE IF expired THEN "TIMEOUT" ELSE "IDLE"

\* A full channel drops the event.
Send(e) == events' = IF Len(events) < ConfirmBuffer
                     THEN Append(events, e) ELSE events

\* Faulty variant: the expectation outlives its verdict.
FinishRefreshKeepExpected ==
    /\ refreshing
    /\ refreshing' = FALSE
    /\ dump' = {}
    /\ IF expected # NoIR /\ Verdict # "IDLE"
       THEN Send([expected |-> expected, status |-> Verdict])
       ELSE UNCHANGED events
    /\ UNCHANGED <<expected, expired>>

\* refreshLocked under mu.
FinishRefresh ==
    /\ refreshing
    /\ refreshing' = FALSE
    /\ dump' = {}
    /\ IF expected # NoIR /\ Verdict # "IDLE"
       THEN /\ Send([expected |-> expected, status |-> Verdict])
            /\ expected' = NoIR
            /\ expired' = FALSE
       ELSE UNCHANGED <<expected, expired, events>>

\* The process dies: its memory is gone.
LoseState ==
    /\ expected' = NoIR
    /\ expired' = FALSE
    /\ refreshing' = FALSE
    /\ dump' = {}
    /\ events' = <<>>
=============================================================================
