----------------------------- MODULE PhaseLedger -----------------------------
(***************************************************************************)
(* What a session promises its participants, without leases, transactions  *)
(* or recovery: phases are decided and committed one after the other.  A   *)
(* decision that was accepted is committed by the very phase it was made   *)
(* for, exactly once and together with every other decision of that phase; *)
(* nothing is decided or committed while the session does not run, and an  *)
(* ended session has a final ledger.  Session implements it.               *)
(***************************************************************************)
EXTENDS Naturals

CONSTANTS
  Participants,
  OpIds           \* operation identifiers of decisions

VARIABLES
  mode,      \* "open", "suspended", "awaiting" or "ended"
  phase,     \* number of committed phases
  decided,   \* decided[p]: the accepted decision of p in this phase, if any
  ledger     \* committed phases: the decisions each of them executed

ledgerVars == <<mode, phase, decided, ledger>>

Undecided == [p \in Participants |-> {}]

Init ==
  /\ mode = "open"
  /\ phase = 0
  /\ decided = Undecided
  /\ ledger = {}

\* One decision per participant and phase, under a fresh operation.
Decide(p, o) ==
  /\ mode = "open"
  /\ decided[p] = {}
  /\ \A q \in Participants : o \notin decided[q]
  /\ \A entry \in ledger : \A q \in Participants : o \notin entry.executed[q]
  /\ decided' = [decided EXCEPT ![p] = {o}]
  /\ UNCHANGED <<mode, phase, ledger>>

\* The phase commits with all of its decisions; the session may end with it,
\* or end up awaiting the outcomes of what it did.
Commit ==
  /\ mode = "open"
  /\ phase' = phase + 1
  /\ ledger' = ledger \cup {[phase |-> phase, executed |-> decided]}
  /\ decided' = Undecided
  /\ mode' \in {"open", "awaiting", "ended"}

\* Pausing, resuming, ending by cancellation or by late outcomes.
Lifecycle ==
  /\ <<mode, mode'>> \in {<<"open", "suspended">>, <<"suspended", "open">>,
                          <<"open", "ended">>, <<"suspended", "ended">>,
                          <<"awaiting", "ended">>}
  /\ UNCHANGED <<phase, decided, ledger>>

Next ==
  \/ \E p \in Participants, o \in OpIds : Decide(p, o)
  \/ Commit
  \/ Lifecycle

Spec == Init /\ [][Next]_ledgerVars
==============================================================================
