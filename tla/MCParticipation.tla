--------------------------- MODULE MCParticipation ---------------------------
(***************************************************************************)
(* Two participants: two that call their models, a command beside a remote *)
(* caller, and one of the runner's beside one an operator watches, with a  *)
(* worker behind a pipe or behind HTTP.                                    *)
(***************************************************************************)
EXTENDS Participation

CONSTANTS alice, bob

Deployed(environment, a, b) ==
  [environment |-> environment,
   agents |-> [p \in Participants |-> IF p = alice THEN a ELSE b]]
MCDeployments ==
  {Deployed("local", "model", "model"), Deployed("local", "command", "remote"),
   Deployed("pipe", "plain", "watched"), Deployed("http", "plain", "watched")}
==============================================================================
