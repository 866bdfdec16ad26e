----------------------------- MODULE MCScheduler -----------------------------
(***************************************************************************)
(* A small instance of Scheduler: an experiment with a branch of its      *)
(* session, and a standalone session, over two workers and one caller.     *)
(***************************************************************************)
EXTENDS Scheduler, TLC

CONSTANTS study, first, child, c1, w1, w2, single, none

MCTrials == study :> <<first>>
MCOrigin == child :> first
==============================================================================
