---------------------------- MODULE MCTrajectories ----------------------------
(***************************************************************************)
(* A small instance of Trajectories: a journal that grants a reward and    *)
(* later retracts it, and a fork of its second record.                     *)
(***************************************************************************)
EXTENDS Trajectories

CONSTANTS reader, begun, granted, retracted, forked

MCJournal == <<begun, granted, retracted>>
MCPrevOf == (begun :> None) @@ (granted :> begun) @@ (retracted :> granted) @@ (forked :> begun)
MCIdOf == (begun :> 1) @@ (granted :> 2) @@ (retracted :> 3) @@ (forked :> 2)
MCReward ==
  (begun :> "none") @@ (granted :> "granted") @@ (retracted :> "retracted") @@ (forked :> "none")
MCSupersedes == (begun :> None) @@ (granted :> None) @@ (retracted :> 2) @@ (forked :> None)
MCBatches == {<<begun>>, <<begun, granted>>, <<granted, retracted>>, <<retracted>>, <<forked>>}
MCSelections == {<<"imported">>, <<"imported", "native">>}
MCSchemaOf == [t \in Trajectories |-> "v1"]
==============================================================================
