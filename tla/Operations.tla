------------------------------ MODULE Operations ------------------------------
(***************************************************************************)
(* The journal of external operations of one session (operations.py): an   *)
(* intent with a cost reservation, a fenced dispatch whose outcome may     *)
(* stay unknown, and receipts that settle it.  The provider is another     *)
(* system: a call may be lost with its caller, take effect late, or answer *)
(* a caller that is gone.  The session's status, the participant's         *)
(* authority and the writer lease are those of Session, as far as the      *)
(* operations read them.                                                   *)
(***************************************************************************)
EXTENDS Integers, FiniteSets, Functions

CONSTANTS
  Callers,        \* threads that dispatch and reconcile, each its own lease owner
  Nobody,         \* no lease owner
  Participants,
  OpIds,
  Amounts,        \* maximum_cost_micros of prepared operations
  Costs,          \* cost_micros of provider receipts
  MaxCost,        \* policy.max_cost_micros
  MaxEpoch,       \* bound: lease grants and cancellations
  MaxGeneration,  \* bound: authority transfers per participant
  MaxCheckpoints, \* bound: checkpoints taken
  None            \* no receipt

ASSUME AmountsAssumption == Amounts \subseteq Nat /\ Costs \subseteq Nat /\ MaxCost \in Nat
ASSUME CallersAssumption == Nobody \notin Callers
ASSUME BoundsAssumption ==
  MaxEpoch \in Nat /\ MaxGeneration \in Nat /\ MaxCheckpoints \in Nat
ASSUME NoneAssumption == None \notin Costs /\ None \notin OpIds /\ None \notin Participants

VARIABLES
  status, generation, active,   \* environments: status and participants
  owner, epoch, live, held,     \* the writer lease; held[t]: t's token
  operations,                   \* the operations table
  reserved, spent,              \* environments: budget columns
  checkpoints,                  \* committed checkpoints, as far as the budget
  finalized,                    \* the outcomes.finalized event is journaled
  task,                         \* what each caller is doing between transactions
  wire, effects, remote         \* provider: calls on their way, effects, receipts

session == <<status, generation, active, finalized>>
lease == <<owner, epoch, live, held>>
budget == <<operations, reserved, spent>>
provider == <<wire, effects, remote>>
vars == <<session, lease, budget, checkpoints, task, provider>>
------------------------------------------------------------------------------
Open == {"prepared", "dispatching", "unknown"}

OperationRow == [status: {"none", "prepared", "dispatching", "unknown", "succeeded", "failed"},
                 participant: Participants \cup {None}, generation: Nat,
                 reservation: Nat, receipt: Costs \cup {None}]

NoOperation == [status |-> "none", participant |-> None, generation |-> 0,
                reservation |-> 0, receipt |-> None]

InStatus(S) == {o \in OpIds : operations[o].status \in S}

WithStatus(o, s) == [operations EXCEPT ![o].status = s]

Reservations(S) == SumFunctionOnSet([o \in OpIds |-> operations[o].reservation], S)

Receipts(S) == SumFunctionOnSet([o \in OpIds |-> operations[o].receipt], S)

Idle == [pc |-> "idle", op |-> None, guarded |-> FALSE]

Task == [pc: {"idle", "call", "wait", "lookup", "settle"}, op: OpIds \cup {None},
         guarded: BOOLEAN]

IsIdle(t) == task[t].pc = "idle"

Fenced(t) == owner = t /\ epoch = held[t] /\ live

\* The participant an operation was prepared for still has its authority.
Authorized(o) ==
  /\ status = "running"
  /\ active[operations[o].participant]
  /\ generation[operations[o].participant] = operations[o].generation

Init ==
  /\ status = "running"
  /\ generation = [p \in Participants |-> 0]
  /\ active = [p \in Participants |-> TRUE]
  /\ owner = Nobody /\ epoch = 0 /\ live = FALSE
  /\ held = [t \in Callers |-> 0]
  /\ operations = [o \in OpIds |-> NoOperation]
  /\ reserved = 0
  /\ spent = 0
  /\ checkpoints = {}
  /\ finalized = FALSE
  /\ task = [t \in Callers |-> Idle]
  /\ wire = {}
  /\ effects = [o \in OpIds |-> 0]
  /\ remote = [o \in OpIds |-> None]
------------------------------------------------------------------------------
(***************************************************************************)
(* Intent, dispatch, settlement.                                           *)
(***************************************************************************)
\* Fault: only what was spent counts against the budget.
Fits_SpentOnly(a) == spent + a <= MaxCost

Fits(a) == spent + reserved + a <= MaxCost

\* Fault: an operation is prepared whatever became of the session.
Preparable_Always == TRUE

Preparable == status = "running"

\* A fresh identifier; a known one returns its status or conflicts.  The
\* endpoint policy filters requests beforehand.
Prepare(p, o, a) ==
  /\ active[p]
  /\ Preparable
  /\ operations[o].status = "none"
  /\ Fits(a)
  /\ operations' = [operations EXCEPT ![o] =
       [status |-> "prepared", participant |-> p, generation |-> generation[p],
        reservation |-> a, receipt |-> None]]
  /\ reserved' = reserved + a
  /\ UNCHANGED <<session, lease, spent, checkpoints, task, provider>>

\* Fault: a dispatch with an uncertain outcome is repeated.
Dispatchable_Again(o) == operations[o].status \in {"prepared", "unknown"}

Dispatchable(o) == operations[o].status = "prepared"

\* The dispatch transaction.  An environment operation is handed the
\* authority callback (guarded); any other provider is simply called.
Dispatch(t, o, guarded) ==
  /\ IsIdle(t)
  /\ Fenced(t)
  /\ Dispatchable(o)
  /\ Authorized(o)
  /\ operations' = WithStatus(o, "dispatching")
  /\ task' = [task EXCEPT ![t] = [pc |-> "call", op |-> o, guarded |-> guarded]]
  /\ UNCHANGED <<session, lease, reserved, spent, checkpoints, provider>>

\* provider.execute leaves the process, a guarded one after its authority
\* callback has confirmed lease and participant (and the goal revision, if
\* the request pins one: a refusal is one more way to raise).
Call(t) ==
  /\ task[t].pc = "call"
  /\ task[t].guarded => Fenced(t) /\ Authorized(task[t].op)
  /\ wire' = wire \cup {task[t].op}
  /\ task' = [task EXCEPT ![t].pc = "wait"]
  /\ UNCHANGED <<session, lease, budget, checkpoints, effects, remote>>

\* The provider carries a call out, whether its caller still waits or not,
\* and keeps a durable receipt.
TakeEffect(o, c) ==
  /\ o \in wire
  /\ wire' = wire \ {o}
  /\ effects' = [effects EXCEPT ![o] = @ + 1]
  /\ remote' = [remote EXCEPT ![o] = c]
  /\ UNCHANGED <<session, lease, budget, checkpoints, task>>

CallLost(o) ==
  /\ o \in wire
  /\ wire' = wire \ {o}
  /\ UNCHANGED <<session, lease, budget, checkpoints, task, effects, remote>>

\* reconcile, first transaction: only what was dispatched; no lease needed.
Reconcile(t, o) ==
  /\ IsIdle(t)
  /\ operations[o].status \in {"dispatching", "unknown"}
  /\ task' = [task EXCEPT ![t] = [pc |-> "lookup", op |-> o, guarded |-> FALSE]]
  /\ UNCHANGED <<session, lease, budget, checkpoints, provider>>

\* execute returns, or lookup finds, the provider's receipt.
Answer(t) ==
  /\ task[t].pc \in {"wait", "lookup"}
  /\ remote[task[t].op] # None
  /\ task' = [task EXCEPT ![t].pc = "settle"]
  /\ UNCHANGED <<session, lease, budget, checkpoints, provider>>

\* execute raises: refused, timed out, disconnected, interrupted.
Raise(t) ==
  /\ task[t].pc \in {"call", "wait"}
  /\ operations' = IF operations[task[t].op].status = "dispatching"
                     THEN WithStatus(task[t].op, "unknown") ELSE operations
  /\ task' = [task EXCEPT ![t] = Idle]
  /\ UNCHANGED <<session, lease, reserved, spent, checkpoints, provider>>

\* The caller's process dies, its lookup proves nothing, or settle refuses
\* the receipt: the journal stays as it is.
GiveUp(t) ==
  /\ ~IsIdle(t)
  /\ task' = [task EXCEPT ![t] = Idle]
  /\ UNCHANGED <<session, lease, budget, checkpoints, provider>>

\* Fault: a receipt is booked whenever it arrives.
Settleable_Again(o) == operations[o].status \in {"dispatching", "unknown", "succeeded"}

\* An operation that has succeeded returns its receipt and changes nothing.
Settleable(o) == operations[o].status \in {"dispatching", "unknown"}

\* settle: books a receipt within the reservation, needs no lease.
Settle(t) ==
  LET o == task[t].op
  IN
  /\ task[t].pc = "settle"
  /\ Settleable(o)
  /\ remote[o] <= operations[o].reservation
  /\ operations' = [operations EXCEPT ![o].status = "succeeded", ![o].receipt = remote[o]]
  /\ reserved' = reserved - operations[o].reservation
  /\ spent' = spent + remote[o]
  /\ task' = [task EXCEPT ![t] = Idle]
  /\ UNCHANGED <<session, lease, checkpoints, provider>>

\* Fault: cancellation also gives up what was handed to the provider.
Unsent_Dispatching == InStatus({"prepared", "dispatching"})

Unsent == InStatus({"prepared"})

\* _cancel_prepared, in the transaction of cancel or cancel_prepared.
ReleaseUnsent ==
  /\ operations' = [o \in OpIds |-> IF o \in Unsent
                                      THEN [operations[o] EXCEPT !.status = "failed"]
                                      ELSE operations[o]]
  /\ reserved' = reserved - Reservations(Unsent)

CancelPrepared ==
  /\ ReleaseUnsent
  /\ UNCHANGED <<session, lease, spent, checkpoints, task, provider>>
------------------------------------------------------------------------------
(***************************************************************************)
(* The session's commands that read or move operations.                    *)
(***************************************************************************)
Acquire(t) ==
  /\ IsIdle(t)
  /\ ~(live /\ owner # t)
  /\ epoch' = IF live THEN epoch ELSE epoch + 1
  /\ epoch' <= MaxEpoch
  /\ owner' = t
  /\ live' = TRUE
  /\ held' = [held EXCEPT ![t] = epoch']
  /\ UNCHANGED <<session, budget, checkpoints, task, provider>>

\* Released or expired.
LeaseEnds ==
  /\ live
  /\ live' = FALSE
  /\ UNCHANGED <<session, owner, epoch, held, budget, checkpoints, task, provider>>

StatusBecomes(s) ==
  /\ status' = s
  /\ UNCHANGED <<generation, active, finalized, lease, budget, checkpoints, task, provider>>

\* Fault: operations still marked as being dispatched are overlooked.
Ambiguous_Unknown == InStatus({"unknown"})

Ambiguous == InStatus({"dispatching", "unknown"})

Pause(t) == IsIdle(t) /\ Fenced(t) /\ status = "running" /\ StatusBecomes("paused")

Resume(t) ==
  /\ IsIdle(t)
  /\ Fenced(t)
  /\ status = "paused"
  /\ Ambiguous = {}
  /\ StatusBecomes("running")

\* The recovery path of the scheduler, under a lease of its own.
ResumeIfPaused(t) ==
  /\ IsIdle(t)
  /\ Fenced(t)
  /\ status = "paused"
  /\ StatusBecomes("running")

\* The last phase commits; operations do not hold it up.
Finish(t) ==
  /\ IsIdle(t)
  /\ Fenced(t)
  /\ status = "running"
  /\ \E s \in {"completed", "outcomes_pending"} : StatusBecomes(s)

\* Fault: finalization waits for dispatched operations only.
Unsettled_Ambiguous == InStatus({"dispatching", "unknown"})

Unsettled == InStatus(Open)

FinalizeOutcomes(t) ==
  /\ IsIdle(t)
  /\ Fenced(t)
  /\ status = "outcomes_pending"
  /\ Unsettled = {}
  /\ status' = "completed"
  /\ finalized' = TRUE
  /\ UNCHANGED <<generation, active, lease, budget, checkpoints, task, provider>>

Checkpoint(t) ==
  /\ IsIdle(t)
  /\ Fenced(t)
  /\ Ambiguous = {}
  /\ Cardinality(checkpoints) < MaxCheckpoints
  /\ checkpoints' = checkpoints \cup {[spent |-> spent, reserved |-> reserved,
                                       operations |-> Unsettled]}
  /\ UNCHANGED <<session, lease, budget, task, provider>>

Transfer(t, p, stays) ==
  /\ IsIdle(t)
  /\ Fenced(t)
  /\ generation[p] < MaxGeneration
  /\ ~stays => Cardinality({q \in Participants : active[q]}) > 1
  /\ generation' = [generation EXCEPT ![p] = @ + 1]
  /\ active' = [active EXCEPT ![p] = stays]
  /\ UNCHANGED <<status, finalized, lease, budget, checkpoints, task, provider>>

Cancel ==
  /\ status \in {"running", "paused"}
  /\ epoch < MaxEpoch
  /\ status' = "cancelled"
  /\ owner' = Nobody
  /\ epoch' = epoch + 1
  /\ live' = FALSE
  /\ ReleaseUnsent
  /\ UNCHANGED <<generation, active, finalized, held, spent, checkpoints, task, provider>>
------------------------------------------------------------------------------
Journal ==
  \/ \E p \in Participants, o \in OpIds, a \in Amounts : Prepare(p, o, a)
  \/ \E t \in Callers, o \in OpIds, guarded \in BOOLEAN : Dispatch(t, o, guarded)
  \/ \E t \in Callers, o \in OpIds : Reconcile(t, o)
  \/ \E t \in Callers : Call(t) \/ Answer(t) \/ Raise(t) \/ GiveUp(t) \/ Settle(t)
  \/ CancelPrepared

ProviderStep ==
  \/ \E o \in OpIds, c \in Costs : TakeEffect(o, c)
  \/ \E o \in OpIds : CallLost(o)

Command(t) ==
  \/ Acquire(t)
  \/ Pause(t)
  \/ Resume(t)
  \/ ResumeIfPaused(t)
  \/ Finish(t)
  \/ FinalizeOutcomes(t)
  \/ Checkpoint(t)
  \/ \E p \in Participants, stays \in BOOLEAN : Transfer(t, p, stays)

Next ==
  \/ Journal
  \/ ProviderStep
  \/ \E t \in Callers : Command(t)
  \/ LeaseEnds
  \/ Cancel

Spec == Init /\ [][Next]_vars
------------------------------------------------------------------------------
(***************************************************************************)
(* Properties.                                                             *)
(***************************************************************************)
\* The journal, the callers and the provider.
JournalTypes ==
  /\ operations \in [OpIds -> OperationRow]
  /\ task \in [Callers -> Task]
  /\ wire \subseteq OpIds
  /\ effects \in [OpIds -> Nat]
  /\ remote \in [OpIds -> Costs \cup {None}]

\* The columns have their types; a receipt is booked with success only.
TypeOK ==
  /\ JournalTypes
  /\ \A o \in OpIds : (operations[o].receipt # None) <=> (operations[o].status = "succeeded")
  /\ status \in {"running", "paused", "outcomes_pending", "completed", "cancelled"}
  /\ generation \in [Participants -> Nat]
  /\ active \in [Participants -> BOOLEAN]
  /\ owner \in Callers \cup {Nobody}
  /\ epoch \in Nat
  /\ live \in BOOLEAN
  /\ held \in [Callers -> Nat]
  /\ reserved \in Nat
  /\ spent \in Nat
  /\ finalized \in BOOLEAN

\* The budget columns, maintained by increments in four transactions, are the
\* sums of the operations table, what may still have to be paid and what was,
\* and together fit the frozen budget, whatever order intents, receipts and
\* cancellations arrive in.
BudgetIsConserved ==
  /\ reserved = Reservations(InStatus(Open))
  /\ spent = Receipts(InStatus({"succeeded"}))
  /\ spent + reserved <= MaxCost

\* An external effect happens at most once: crashes, exceptions, late answers,
\* new leases and reconciliation never send an operation a second time.
EffectAtMostOnce == \A o \in OpIds : effects[o] <= 1

\* No effect is forgotten: as long as an operation may still take effect or
\* did, its reservation is held or its receipt is booked.  In particular a
\* cancelled session keeps the reservations of what it cannot call back.
EffectsAreAccountedFor ==
  \A o \in OpIds :
    o \in wire \/ effects[o] > 0 =>
      operations[o].status \in {"dispatching", "unknown", "succeeded"}

\* A session that ended owes nothing.  A cancelled one holds no reservation
\* for what was never sent, and none comes back while callers from before the
\* cancellation still run; once its outcomes are finalized no reservation is
\* open, and nothing that could still change the result is on its way to the
\* provider.
EndedOwesNothing ==
  /\ status = "cancelled" => InStatus({"prepared"}) = {}
  /\ finalized => reserved = 0 /\ wire = {} /\ InStatus(Open) = {}

\* A checkpoint is taken when every effect that happened is charged in the
\* budget it saves and none is under way: a branch from it repeats nothing
\* that was paid and misses nothing that was done.
CheckpointsAreQuiescent ==
  [][(checkpoints' # checkpoints) =>
       /\ wire = {}
       /\ \A o \in OpIds : effects[o] > 0 => operations[o].status = "succeeded"]_vars

\* The journal implements the ledger of effects: each operation is announced,
\* sent, effective and settled in this order and at most once.
Stage == [o \in OpIds |->
            CASE operations[o].status = "none" -> "none"
              [] operations[o].status = "prepared" -> "announced"
              [] operations[o].status \in {"dispatching", "unknown"} -> "sent"
              [] operations[o].status = "succeeded" -> "settled"
              [] OTHER -> "withdrawn"]

EffectLedgerOf == INSTANCE EffectLedger
                    WITH stage <- Stage, exposure <- spent + reserved,
                         happened <- {o \in OpIds : effects[o] > 0}

\* prepare, dispatch, settle, reconcile and both cancellations, in any
\* interleaving with crashes and a slow provider, are steps of that ledger.
ImplementsEffectLedger == EffectLedgerOf!Spec

\* PROTOCOL.md: "Pending ambiguous external dispatches must be reconciled
\* before resume or checkpoint."
ResumeRequiresReconciledDispatches ==
  [][(status = "paused" /\ status' = "running") => Ambiguous = {}]_vars
==============================================================================
