----------------------------- MODULE MCOperations -----------------------------
(***************************************************************************)
(* Two callers, two operations and a budget that holds one large or two    *)
(* small reservations; a provider whose receipts may exceed them.          *)
(***************************************************************************)
EXTENDS Operations, TLC

CONSTANTS o1, o2, t1, t2

MCSymmetry == Permutations({o1, o2}) \cup Permutations({t1, t2})
==============================================================================
