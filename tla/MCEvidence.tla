------------------------------ MODULE MCEvidence ------------------------------
(***************************************************************************)
(* A small instance of Evidence: a session, its branch and the branch of   *)
(* that branch, large events for one participant, artifacts for everyone,  *)
(* and the events of the runtime that only the evaluator reads.            *)
(***************************************************************************)
EXTENDS Evidence, TLC

CONSTANTS root, child, grandchild, buyer

MCClasses == {[audience |-> {buyer}, large |-> TRUE]}
MCAudiences == {{Everyone}}
MCBranches == Permutations({child, grandchild})  \* branches are interchangeable
==============================================================================
