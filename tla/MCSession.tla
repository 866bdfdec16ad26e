------------------------------ MODULE MCSession ------------------------------
(***************************************************************************)
(* Small instances of Session: two participants, three operations, and two *)
(* or three callers of which some share an owner string.                   *)
(***************************************************************************)
EXTENDS Session, TLC

CONSTANTS alice, bob, o1, o2, o3, runner, admin, t1, t2, t3, none, nobody

MCOneOwner == t1 :> runner
MCSharedOwner == t1 :> runner @@ t2 :> runner
Carry(terminated, pending) == [terminated |-> terminated, pending |-> pending]
MCThreeCallers == t1 :> runner @@ t2 :> runner @@ t3 :> admin
MCContinue == {Carry(FALSE, FALSE)}
MCContinueOrEnd == {Carry(FALSE, FALSE), Carry(TRUE, FALSE)}
MCResults == {Carry(FALSE, FALSE), Carry(TRUE, TRUE)}
MCOperations == Permutations({o1, o2, o3})
MCCallers == MCOperations \cup Permutations({t1, t2})
==============================================================================
