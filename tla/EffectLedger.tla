----------------------------- MODULE EffectLedger -----------------------------
(***************************************************************************)
(* What the operation journal promises about effects outside the system:   *)
(* an operation is announced before it is sent, sent at most once, takes   *)
(* effect at most once and only after it was sent, is only withdrawn while *)
(* it is unsent, and only settles once its effect took place.  What is     *)
(* announced, sent or paid never exceeds the budget.  Operations           *)
(* implements it.                                                          *)
(***************************************************************************)
EXTENDS Naturals

CONSTANTS
  OpIds,      \* operation identifiers
  Amounts,    \* costs an operation may announce
  MaxCost     \* the budget

VARIABLES
  stage,      \* stage[o]: "none", "announced", "withdrawn", "sent", "settled"
  happened,   \* operations that took effect
  exposure    \* what was paid and may still have to be paid

ledgerVars == <<stage, happened, exposure>>

Init ==
  /\ stage = [o \in OpIds |-> "none"]
  /\ happened = {}
  /\ exposure = 0

Announce(o) ==
  /\ stage[o] = "none"
  /\ stage' = [stage EXCEPT ![o] = "announced"]
  /\ exposure' \in {exposure + a : a \in Amounts}
  /\ exposure' <= MaxCost
  /\ UNCHANGED happened

Send(o) ==
  /\ stage[o] = "announced"
  /\ stage' = [stage EXCEPT ![o] = "sent"]
  /\ UNCHANGED <<happened, exposure>>

\* All unsent operations are given up together.
Withdraw ==
  /\ stage' = [o \in OpIds |-> IF stage[o] = "announced" THEN "withdrawn" ELSE stage[o]]
  /\ exposure' \in 0..exposure
  /\ UNCHANGED happened

Happen(o) ==
  /\ stage[o] = "sent"
  /\ o \notin happened
  /\ happened' = happened \cup {o}
  /\ UNCHANGED <<stage, exposure>>

Settle(o) ==
  /\ stage[o] = "sent"
  /\ o \in happened
  /\ stage' = [stage EXCEPT ![o] = "settled"]
  /\ exposure' \in 0..exposure
  /\ UNCHANGED happened

Next ==
  \/ \E o \in OpIds : Announce(o) \/ Send(o) \/ Happen(o) \/ Settle(o)
  \/ Withdraw

Spec == Init /\ [][Next]_ledgerVars
==============================================================================
