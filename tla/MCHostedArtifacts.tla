-------------------------- MODULE MCHostedArtifacts --------------------------
(***************************************************************************)
(* A small instance of HostedArtifacts: two objects of different sizes in  *)
(* a session and in its branch; a listing returns at most both of them.    *)
(***************************************************************************)
EXTENDS HostedArtifacts, TLC

CONSTANTS parent, child, c1, c2

MCSizeOf == [k \in Keys |-> k]
MCCallers == Permutations(Callers)
==============================================================================
