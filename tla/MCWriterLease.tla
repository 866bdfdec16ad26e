---------------------------- MODULE MCWriterLease ----------------------------
(***************************************************************************)
(* Three writers of one session, two of which present the same owner       *)
(* string, as two concurrent recoveries do (runtime.resume_if_paused).     *)
(***************************************************************************)
EXTENDS WriterLease, TLC

CONSTANTS runner, recovery, w1, w2, w3

MCOwners == {runner, recovery}
MCWriters == {w1, w2, w3}
MCOwnerOf == w1 :> runner @@ w2 :> recovery @@ w3 :> recovery
==============================================================================
