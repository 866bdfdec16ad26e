----------------------------- MODULE WriterLease -----------------------------
(***************************************************************************)
(* The writer lease of one environment session: the columns lease_owner,   *)
(* lease_epoch and lease_until of its environments row, the wall clock     *)
(* they are compared with, and the writers that acquire, renew and release *)
(* it (runtime.py lease/renew/release/_fence/cancel and the heartbeat of   *)
(* runner.py writer).  Each action is one database transaction.            *)
(***************************************************************************)
EXTENDS Integers

CONSTANTS
  Owners,    \* lease owner strings
  Writers,   \* writer contexts; two may present the same owner string
  OwnerOf,   \* OwnerOf[w]: the owner string w presents
  Nobody,    \* the NULL owner
  TTL,       \* lease duration in clock ticks (ttl=90 in the runner)
  MaxEpoch,  \* bound: grants considered
  Horizon    \* bound: last tick at which a lease is acquired or renewed

ASSUME OwnersAssumption == Nobody \notin Owners
ASSUME OwnerOfAssumption == OwnerOf \in [Writers -> Owners]
ASSUME TTLAssumption == TTL \in Nat \ {0}
ASSUME BoundsAssumption == MaxEpoch \in Nat /\ Horizon \in Nat

VARIABLES
  now,          \* time.time()
  lease_owner,
  lease_epoch,
  lease_until,
  status,       \* environments.status as far as the lease depends on it
  held,         \* held[w]: epoch of the lease w carries, 0 when it has none
  failures      \* failures[w]: w's heartbeat thread has given up

lease == <<lease_owner, lease_epoch, lease_until>>
leaseVars == <<now, lease_owner, lease_epoch, lease_until, status, held, failures>>

Live == lease_until > now

\* _fence: the token is the newest grant and its time is not up.
Fenced(w) ==
  /\ lease_owner = OwnerOf[w]
  /\ lease_epoch = held[w]
  /\ Live

LeaseTypeOK ==
  /\ now \in Nat
  /\ lease_owner \in Owners \cup {Nobody}
  /\ lease_epoch \in Nat
  /\ lease_until \in Nat
  /\ lease_until <= now + TTL
  /\ status \in {"running", "paused", "cancelled"}
  /\ held \in [Writers -> Nat]
  /\ failures \in [Writers -> BOOLEAN]

LeaseInit ==
  /\ now = 1
  /\ lease_owner = Nobody
  /\ lease_epoch = 0
  /\ lease_until = 0
  /\ status = "running"
  /\ held = [w \in Writers |-> 0]
  /\ failures = [w \in Writers |-> FALSE]

\* Fault: a lease granted without an expiry.
Expiry_Never == Horizon + TTL + 1

Expiry == now + TTL

\* Fault: the epoch follows the owner only, an expired grant keeps its number.
GrantedEpoch_OwnerOnly(w) ==
  IF lease_owner = OwnerOf[w] THEN lease_epoch ELSE lease_epoch + 1

\* The epoch moves unless the caller already owns an unexpired grant.
GrantedEpoch(w) ==
  IF Live /\ lease_owner = OwnerOf[w] THEN lease_epoch ELSE lease_epoch + 1

Acquire(w) ==
  /\ now <= Horizon
  /\ ~(Live /\ lease_owner # OwnerOf[w])
  /\ GrantedEpoch(w) <= MaxEpoch
  /\ lease_epoch' = GrantedEpoch(w)
  /\ lease_owner' = OwnerOf[w]
  /\ lease_until' = Expiry
  /\ held' = [held EXCEPT ![w] = lease_epoch']
  /\ failures' = [failures EXCEPT ![w] = FALSE]
  /\ UNCHANGED <<now, status>>

\* The heartbeat thread renews the grant its writer carries ...
Renew(w) ==
  /\ now <= Horizon
  /\ held[w] # 0
  /\ ~failures[w]
  /\ Fenced(w)
  /\ status = "running"
  /\ lease_until' = Expiry
  /\ UNCHANGED <<now, lease_owner, lease_epoch, status, held, failures>>

\* ... until a renewal is refused or the database fails, and then never again.
HeartbeatFails(w) ==
  /\ held[w] # 0
  /\ ~failures[w]
  /\ failures' = [failures EXCEPT ![w] = TRUE]
  /\ UNCHANGED <<now, lease, status, held>>

\* Leaving the writer context: a fenced release is suppressed, not an error.
Release(w) ==
  /\ held[w] # 0
  /\ lease_until' = IF Fenced(w) THEN 0 ELSE lease_until
  /\ held' = [held EXCEPT ![w] = 0]
  /\ failures' = [failures EXCEPT ![w] = FALSE]
  /\ UNCHANGED <<now, lease_owner, lease_epoch, status>>

\* The process dies with its heartbeat; the row keeps the grant.
Crash(w) ==
  /\ held[w] # 0
  /\ held' = [held EXCEPT ![w] = 0]
  /\ failures' = [failures EXCEPT ![w] = FALSE]
  /\ UNCHANGED <<now, lease, status>>

Pause(w) ==
  /\ Fenced(w)
  /\ status = "running"
  /\ status' = "paused"
  /\ UNCHANGED <<now, lease, held, failures>>

Resume(w) ==
  /\ Fenced(w)
  /\ status = "paused"
  /\ status' = "running"
  /\ UNCHANGED <<now, lease, held, failures>>

\* Cancellation needs no lease: it burns an epoch and clears the owner.
Cancel ==
  /\ status \in {"running", "paused"}
  /\ lease_epoch < MaxEpoch
  /\ status' = "cancelled"
  /\ lease_owner' = Nobody
  /\ lease_epoch' = lease_epoch + 1
  /\ lease_until' = 0
  /\ UNCHANGED <<now, held, failures>>

Tick ==
  /\ now < Horizon + TTL
  /\ now' = now + 1
  /\ UNCHANGED <<lease, status, held, failures>>

LeaseNext ==
  \/ \E w \in Writers :
       \/ Acquire(w)
       \/ Renew(w)
       \/ HeartbeatFails(w)
       \/ Release(w)
       \/ Crash(w)
       \/ Pause(w)
       \/ Resume(w)
  \/ Cancel
  \/ Tick

LeaseSpec == LeaseInit /\ [][LeaseNext]_leaseVars

\* The clock runs; nothing is assumed of any process.
FairLeaseSpec == LeaseSpec /\ WF_leaseVars(Tick)
------------------------------------------------------------------------------
\* The lease columns implement the fencing authority.
Authority == INSTANCE WriterAuthority
               WITH owner <- lease_owner, epoch <- lease_epoch, live <- Live

\* Every transaction on the lease columns, and every tick of the clock, is a
\* step of the fencing authority: no renewal, release, crash or cancellation
\* revives an expired grant or hands an epoch to another owner.
ImplementsAuthority == Authority!Spec

\* A fencing token identifies its holder: two writers that carry the same
\* epoch present the same owner, however grants, expiries, crashes and
\* cancellations interleave (lease increments the epoch, _fence compares it).
EpochNamesOneOwner ==
  \A v, w \in Writers : held[v] # 0 /\ held[v] = held[w] => OwnerOf[v] = OwnerOf[w]

\* A grant that no process carries any more: its holder crashed.
Orphaned == Live /\ \A w \in Writers : held[w] # lease_epoch

\* A grant whose holder died does not lock the session out for ever: unless
\* its owner takes it up again, it lapses (lease_until, bounded ttl).
OrphanIsReclaimable == Orphaned ~> ~Orphaned
==============================================================================
