--------------------------- MODULE ReleaseLedger ---------------------------
(***************************************************************************)
(* What a publish promises, without how it is done: every attempt goes     *)
(* through one life, at most one attempt is in progress, and what is live  *)
(* is the attempt confirmed last.  design_docs/system_design/              *)
(* 260717-2-config-domain-design.md, section 5.1, is its diagram.          *)
(***************************************************************************)
EXTENDS Naturals

CONSTANT Attempts

VARIABLES
    phase,  \* of each attempt
    live    \* the attempts whose configuration is the effective one

ledgerVars == <<phase, live>>

LedgerInit ==
    /\ phase = [a \in Attempts |-> "none"]
    /\ live = {}

InProgress == {a \in Attempts : phase[a] = "active"}

Move(a, from, to) == phase[a] = from /\ phase' = [phase EXCEPT ![a] = to]

\* An attempt starts, or a timed-out one is checked again, when no attempt
\* is in progress.
Submit(a)  == InProgress = {} /\ Move(a, "none", "active") /\ UNCHANGED live
Recheck(a) == InProgress = {} /\ Move(a, "timeout", "active") /\ UNCHANGED live

Fail(a)    == Move(a, "active", "failed") /\ UNCHANGED live
TimeOut(a) == Move(a, "active", "timeout") /\ UNCHANGED live
Confirm(a) == Move(a, "active", "effective") /\ live' = {a}

LedgerNext ==
    \E a \in Attempts :
        Submit(a) \/ Recheck(a) \/ Fail(a) \/ TimeOut(a) \/ Confirm(a)

LedgerSpec == LedgerInit /\ [][LedgerNext]_ledgerVars
=============================================================================
