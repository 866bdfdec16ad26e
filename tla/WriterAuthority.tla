--------------------------- MODULE WriterAuthority ---------------------------
(***************************************************************************)
(* What the writer lease of an environment session promises, with the      *)
(* clock abstracted away: writing authority is a pair of an owner and an   *)
(* epoch that is either live or lapsed.  Authority is only ever granted    *)
(* after the previous one has lapsed, and always under a new epoch, so an  *)
(* epoch number names one tenure for good and can serve as a fencing       *)
(* token.  WriterLease (the lease columns and their clock) and Session     *)
(* (the runtime that fences its transactions with them) implement it.      *)
(***************************************************************************)
EXTENDS Naturals

CONSTANTS
  Owners,   \* strings a writer presents as lease owner
  Nobody    \* the NULL owner

VARIABLES
  owner,    \* who was granted authority last
  epoch,    \* fencing epoch of that grant
  live      \* whether the grant is still in force

authority == <<owner, epoch, live>>

Init ==
  /\ owner = Nobody
  /\ epoch = 0
  /\ live = FALSE

Grant(o) ==
  /\ ~live
  /\ owner' = o
  /\ epoch' = epoch + 1
  /\ live' = TRUE

\* The grant ends by time or by its holder's release; the epoch stays.
Lapse ==
  /\ live
  /\ live' = FALSE
  /\ UNCHANGED <<owner, epoch>>

\* The grant is taken away whoever holds it, and its epoch is burnt.
Revoke ==
  /\ owner' = Nobody
  /\ epoch' = epoch + 1
  /\ live' = FALSE

Next ==
  \/ \E o \in Owners : Grant(o)
  \/ Lapse
  \/ Revoke

Spec == Init /\ [][Next]_authority
==============================================================================
