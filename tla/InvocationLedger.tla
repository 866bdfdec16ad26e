-------------------------- MODULE InvocationLedger --------------------------
(***************************************************************************)
(* What the agent journal promises of one invocation (one participant, one *)
(* authority, one phase): it is asked of the agent, answered with one      *)
(* response that never changes, and only then decided upon.                *)
(***************************************************************************)
CONSTANTS Invocations, Responses, None

VARIABLES
  asked,     \* the invocations handed to an agent
  answers,   \* the response of an invocation, or None
  decided    \* the payload submitted for an invocation, or None

vars == <<asked, answers, decided>>

Init ==
  /\ asked = {}
  /\ answers = [k \in Invocations |-> None]
  /\ decided = [k \in Invocations |-> None]

Ask(k) ==
  /\ k \notin asked
  /\ answers[k] = None
  /\ asked' = asked \cup {k}
  /\ UNCHANGED <<answers, decided>>

\* Directly, or recovered from evidence; never a second time.
Answer(k, r) ==
  /\ k \in asked
  /\ answers[k] = None
  /\ answers' = [answers EXCEPT ![k] = r]
  /\ UNCHANGED <<asked, decided>>

\* The decision that enters the phase is the recorded response.
Decide(k) ==
  /\ answers[k] # None
  /\ decided[k] = None
  /\ decided' = [decided EXCEPT ![k] = answers[k]]
  /\ UNCHANGED <<asked, answers>>

Next ==
  \E k \in Invocations : Ask(k) \/ Decide(k) \/ \E r \in Responses : Answer(k, r)

Spec == Init /\ [][Next]_vars
=============================================================================
