----------------------------- MODULE MCAgentWork -----------------------------
(***************************************************************************)
(* Two runners that share an owner string, one participant, an agent that  *)
(* answers well or outside the action schema.                              *)
(***************************************************************************)
EXTENDS AgentWork, TLC

CONSTANTS alice, t1, t2, alpha

MCRunners == Permutations({t1, t2})
MCTwoRunners == t1 :> alpha @@ t2 :> alpha
==============================================================================
