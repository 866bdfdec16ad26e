--------------------------- MODULE OperationsProofs ---------------------------
(***************************************************************************)
(* For any number of callers and operations, any costs and any budget: an  *)
(* external effect happens at most once, no operation that may take effect *)
(* loses its reservation, the budget columns are the sums of the table,    *)
(* and the journal implements the ledger of effects.                       *)
(***************************************************************************)
EXTENDS Operations, SumTheorems, TLAPS

\* What was handed to a caller that talks to the provider about it.
Sent == {"dispatching", "unknown", "succeeded"}

\* A caller between two transactions works on an operation that was sent,
\* and one that settles holds a receipt.
TasksHaveOperations ==
  \A t \in Callers :
    /\ task[t].pc # "idle" => task[t].op \in OpIds /\ operations[task[t].op].status \in Sent
    /\ task[t].pc = "settle" => remote[task[t].op] # None

\* Whoever is about to call the provider is alone with an operation that was
\* never on its way.
CallersAreExclusive ==
  \A t \in Callers : task[t].pc = "call" =>
    /\ operations[task[t].op].status = "dispatching"
    /\ task[t].op \notin wire
    /\ effects[task[t].op] = 0
    /\ \A u \in Callers : task[u].pc \in {"call", "wait"} /\ task[u].op = task[t].op => u = t

\* A call on its way has not taken effect, and a receipt proves an effect.
ProviderIsHonest ==
  \A o \in OpIds :
    /\ o \in wire => effects[o] = 0
    /\ remote[o] # None => effects[o] > 0

\* EffectAtMostOnce is not inductive: it has to know that what is on its way
\* has not happened yet, that the only caller about to send an operation is
\* the one that moved it out of "prepared", and that nothing of a prepared
\* operation was ever sent.
SendInvariant ==
  /\ JournalTypes
  /\ TasksHaveOperations
  /\ CallersAreExclusive
  /\ ProviderIsHonest
  /\ EffectAtMostOnce
  /\ EffectsAreAccountedFor

LEMMA IdleIsTask == Idle \in Task
  BY DEF Idle, Task

LEMMA LookupIsTask ==
  ASSUME NEW o \in OpIds
  PROVE  [pc |-> "lookup", op |-> o, guarded |-> FALSE] \in Task
  BY DEF Task

LEMMA SendInvariantAtInit == Init => SendInvariant
  BY NoneAssumption
  DEF Init, SendInvariant, JournalTypes, TasksHaveOperations, CallersAreExclusive,
      ProviderIsHonest, EffectAtMostOnce, EffectsAreAccountedFor, Task, Idle,
      OperationRow, NoOperation

\* Steps of the session and its lease do not touch what the invariant is about.
LEMMA SessionSteps ==
  ASSUME SendInvariant, UNCHANGED <<operations, task, wire, effects, remote>>
  PROVE  SendInvariant'
  BY DEF SendInvariant, JournalTypes, TasksHaveOperations, CallersAreExclusive,
         ProviderIsHonest, EffectAtMostOnce, EffectsAreAccountedFor
------------------------------------------------------------------------------
LEMMA PrepareStep ==
  ASSUME SendInvariant, NEW p \in Participants, NEW o \in OpIds, NEW a \in Amounts,
         generation[p] \in Nat, Prepare(p, o, a)
  PROVE  SendInvariant'
<1> USE DEF SendInvariant, Prepare, provider
<1>1. JournalTypes'
  BY AmountsAssumption DEF JournalTypes, OperationRow
<1>2. TasksHaveOperations' /\ CallersAreExclusive'
  BY DEF JournalTypes, TasksHaveOperations, CallersAreExclusive, Sent
<1>3. ProviderIsHonest' /\ EffectAtMostOnce'
  BY DEF ProviderIsHonest, EffectAtMostOnce
<1>4. EffectsAreAccountedFor'
  BY DEF JournalTypes, EffectsAreAccountedFor
<1> QED
  BY <1>1, <1>2, <1>3, <1>4

LEMMA DispatchStep ==
  ASSUME SendInvariant, NEW t \in Callers, NEW o \in OpIds, NEW guarded \in BOOLEAN,
         Dispatch(t, o, guarded)
  PROVE  SendInvariant'
<1> USE DEF SendInvariant, Dispatch, provider, WithStatus, Dispatchable
<1>1. JournalTypes'
  BY DEF JournalTypes, OperationRow, Task
<1>2. o \notin wire /\ effects[o] = 0
  BY DEF JournalTypes, EffectsAreAccountedFor
<1>3. \A u \in Callers : task[u].pc # "idle" => task[u].op # o
  BY DEF TasksHaveOperations, Sent
<1>4. TasksHaveOperations'
  BY <1>3 DEF JournalTypes, TasksHaveOperations, Sent
<1>5. CallersAreExclusive'
  BY <1>2, <1>3 DEF JournalTypes, CallersAreExclusive
<1>6. ProviderIsHonest' /\ EffectAtMostOnce' /\ EffectsAreAccountedFor'
  BY DEF JournalTypes, ProviderIsHonest, EffectAtMostOnce, EffectsAreAccountedFor
<1> QED
  BY <1>1, <1>4, <1>5, <1>6

LEMMA CallStep ==
  ASSUME SendInvariant, NEW t \in Callers, Call(t)
  PROVE  SendInvariant'
<1> USE DEF SendInvariant, Call, budget
<1>1. task[t].op \in OpIds /\ effects[task[t].op] = 0
  BY DEF TasksHaveOperations, CallersAreExclusive
<1>2. JournalTypes'
  BY <1>1 DEF JournalTypes, Task
<1>3. TasksHaveOperations'
  BY DEF JournalTypes, TasksHaveOperations, Task
<1>4. CallersAreExclusive'
  BY DEF JournalTypes, CallersAreExclusive, Task
<1>5. ProviderIsHonest' /\ EffectAtMostOnce'
  BY <1>1 DEF ProviderIsHonest, EffectAtMostOnce
<1>6. EffectsAreAccountedFor'
  BY DEF TasksHaveOperations, EffectsAreAccountedFor, CallersAreExclusive
<1> QED
  BY <1>2, <1>3, <1>4, <1>5, <1>6

\* The provider carries a call out, or it is lost.
LEMMA ProviderSteps ==
  ASSUME SendInvariant, ProviderStep
  PROVE  SendInvariant'
<1>1. ASSUME NEW o \in OpIds, NEW c \in Costs, TakeEffect(o, c) PROVE SendInvariant'
  <2> USE <1>1 DEF SendInvariant, TakeEffect, budget
  <2>1. JournalTypes'
    BY DEF JournalTypes
  <2>2. TasksHaveOperations' /\ CallersAreExclusive'
    BY NoneAssumption DEF JournalTypes, TasksHaveOperations, CallersAreExclusive
  <2>3. ProviderIsHonest' /\ EffectAtMostOnce' /\ EffectsAreAccountedFor'
    BY DEF JournalTypes, ProviderIsHonest, EffectAtMostOnce, EffectsAreAccountedFor
  <2> QED
    BY <2>1, <2>2, <2>3
<1>2. ASSUME NEW o \in OpIds, CallLost(o) PROVE SendInvariant'
  BY <1>2
  DEF CallLost, budget, SendInvariant, JournalTypes, TasksHaveOperations,
      CallersAreExclusive, ProviderIsHonest, EffectAtMostOnce, EffectsAreAccountedFor
<1> QED
  BY <1>1, <1>2 DEF ProviderStep

\* A caller looks an operation up, learns of its receipt, or goes away.
LEMMA LookupSteps ==
  ASSUME SendInvariant, NEW t \in Callers,
         (\E o \in OpIds : Reconcile(t, o)) \/ Answer(t) \/ GiveUp(t)
  PROVE  SendInvariant'
<1> USE DEF SendInvariant
<1>1. UNCHANGED <<operations, wire, effects, remote>>
  BY DEF Reconcile, Answer, GiveUp, budget, provider
<1>2. JournalTypes'
  <2>1. ASSUME NEW o \in OpIds, Reconcile(t, o) PROVE task' \in [Callers -> Task]
    BY <2>1, LookupIsTask DEF JournalTypes, Reconcile
  <2>2. ASSUME Answer(t) PROVE task' \in [Callers -> Task]
    BY <2>2 DEF JournalTypes, Answer, Task
  <2>3. ASSUME GiveUp(t) PROVE task' \in [Callers -> Task]
    BY <2>3, IdleIsTask DEF JournalTypes, GiveUp
  <2> QED
    BY <1>1, <2>1, <2>2, <2>3 DEF JournalTypes
<1>3. TasksHaveOperations'
  BY <1>1 DEF JournalTypes, TasksHaveOperations, Task, Idle, Sent, Reconcile, Answer, GiveUp
<1>4. CallersAreExclusive'
  BY <1>1 DEF JournalTypes, CallersAreExclusive, Task, Idle, Reconcile, Answer, GiveUp
<1>5. ProviderIsHonest' /\ EffectAtMostOnce' /\ EffectsAreAccountedFor'
  BY <1>1 DEF ProviderIsHonest, EffectAtMostOnce, EffectsAreAccountedFor
<1> QED
  BY <1>2, <1>3, <1>4, <1>5

LEMMA RaiseStep ==
  ASSUME SendInvariant, NEW t \in Callers, Raise(t)
  PROVE  SendInvariant'
<1> USE DEF SendInvariant, Raise, provider, WithStatus
<1>1. task[t].op \in OpIds /\ task' = [task EXCEPT ![t] = Idle]
  BY DEF TasksHaveOperations
<1>2. JournalTypes'
  <2>1. task' \in [Callers -> Task]
    BY <1>1, IdleIsTask DEF JournalTypes
  <2>2. operations' \in [OpIds -> OperationRow]
    BY <1>1 DEF JournalTypes, OperationRow
  <2> QED
    BY <2>1, <2>2 DEF JournalTypes
<1>3. TasksHaveOperations'
  BY <1>1 DEF JournalTypes, TasksHaveOperations, Idle, Sent
<1>4. CallersAreExclusive'
  <2>1. \A u \in Callers : u # t /\ task[u].pc = "call" => task[u].op # task[t].op
    BY DEF CallersAreExclusive
  <2> QED
    BY <1>1, <2>1 DEF JournalTypes, CallersAreExclusive, TasksHaveOperations, Idle
<1>5. ProviderIsHonest' /\ EffectAtMostOnce'
  BY DEF ProviderIsHonest, EffectAtMostOnce
<1>6. EffectsAreAccountedFor'
  BY <1>1 DEF JournalTypes, EffectsAreAccountedFor
<1> QED
  BY <1>2, <1>3, <1>4, <1>5, <1>6

LEMMA SettleStep ==
  ASSUME SendInvariant, NEW t \in Callers, Settle(t)
  PROVE  SendInvariant'
<1> DEFINE o == task[t].op
<1> USE DEF SendInvariant, Settle, Settleable, provider
<1>1. o \in OpIds /\ remote[o] # None
  BY DEF TasksHaveOperations
<1>2. effects[o] > 0
  BY <1>1 DEF ProviderIsHonest
<1>3. JournalTypes'
  BY <1>1, IdleIsTask DEF JournalTypes, OperationRow
<1>4. TasksHaveOperations'
  BY <1>1 DEF JournalTypes, TasksHaveOperations, Idle, Sent
<1>5. CallersAreExclusive'
  BY <1>1, <1>2 DEF JournalTypes, CallersAreExclusive, TasksHaveOperations, Idle
<1>6. ProviderIsHonest' /\ EffectAtMostOnce'
  BY DEF ProviderIsHonest, EffectAtMostOnce
<1>7. EffectsAreAccountedFor'
  BY <1>1 DEF JournalTypes, EffectsAreAccountedFor
<1> QED
  BY <1>3, <1>4, <1>5, <1>6, <1>7

\* cancel and cancel_prepared only give up what was never sent.
LEMMA ReleaseStep ==
  ASSUME SendInvariant, ReleaseUnsent, UNCHANGED <<task, wire, effects, remote>>
  PROVE  SendInvariant'
<1> USE DEF SendInvariant, ReleaseUnsent, Unsent, InStatus
<1>1. JournalTypes'
  BY DEF JournalTypes, OperationRow
<1>2. TasksHaveOperations' /\ CallersAreExclusive'
  BY DEF JournalTypes, TasksHaveOperations, CallersAreExclusive, Sent
<1>3. ProviderIsHonest' /\ EffectAtMostOnce'
  BY DEF ProviderIsHonest, EffectAtMostOnce
<1>4. EffectsAreAccountedFor'
  BY DEF JournalTypes, EffectsAreAccountedFor
<1> QED
  BY <1>1, <1>2, <1>3, <1>4
------------------------------------------------------------------------------
\* The generations an operation copies are numbers.
Generations == generation \in [Participants -> Nat]

LEMMA GenerationsPreserved ==
  ASSUME Generations, [Next]_vars
  PROVE  Generations'
<1> USE DEF Generations
<1>1. ASSUME NEW t \in Callers, NEW p \in Participants, NEW stays \in BOOLEAN,
             Transfer(t, p, stays)
      PROVE  Generations'
  BY <1>1 DEF Transfer
<1>2. CASE Journal
  BY <1>2 DEF Journal, Prepare, Dispatch, Reconcile, Call, Answer, Raise, GiveUp, Settle,
              CancelPrepared, session
<1>3. CASE ProviderStep \/ LeaseEnds \/ Cancel \/ UNCHANGED vars
  BY <1>3 DEF ProviderStep, TakeEffect, CallLost, LeaseEnds, Cancel, session, vars
<1>4. ASSUME NEW t \in Callers, Command(t) PROVE Generations'
  BY <1>1, <1>4 DEF Command, Acquire, Pause, Resume, ResumeIfPaused, Finish,
                    FinalizeOutcomes, Checkpoint, StatusBecomes, session
<1> QED
  BY <1>2, <1>3, <1>4 DEF Next

LEMMA SendInvariantPreserved ==
  ASSUME SendInvariant, Generations, [Next]_vars
  PROVE  SendInvariant'
<1>1. CASE Journal
  <2>1. ASSUME NEW p \in Participants, NEW o \in OpIds, NEW a \in Amounts, Prepare(p, o, a)
        PROVE  SendInvariant'
    BY <2>1, PrepareStep DEF Generations
  <2>2. CASE CancelPrepared
    BY <2>2, ReleaseStep DEF CancelPrepared, provider
  <2> QED
    BY <1>1, <2>1, <2>2, DispatchStep, LookupSteps, CallStep, RaiseStep, SettleStep
    DEF Journal
<1>2. CASE ProviderStep
  BY <1>2, ProviderSteps
<1>3. ASSUME NEW t \in Callers, Command(t) PROVE SendInvariant'
  BY <1>3, SessionSteps
  DEF Command, Acquire, Pause, Resume, ResumeIfPaused, Finish, FinalizeOutcomes,
      Checkpoint, Transfer, StatusBecomes, budget, provider
<1>4. CASE LeaseEnds \/ UNCHANGED vars
  BY <1>4, SessionSteps DEF LeaseEnds, vars, budget, provider
<1>5. CASE Cancel
  BY <1>5, ReleaseStep DEF Cancel, provider
<1> QED
  BY <1>1, <1>2, <1>3, <1>4, <1>5 DEF Next

LEMMA SendInvariance == Spec => [](SendInvariant /\ Generations)
<1>1. Init => Generations
  BY DEF Init, Generations
<1> QED
  BY <1>1, SendInvariantAtInit, SendInvariantPreserved, GenerationsPreserved, PTL DEF Spec

\* No operation takes effect twice, in whatever order its callers crash, time
\* out, lose their lease, reconcile or cancel, and however late a call lands.
THEOREM NoEffectTwice == Spec => []EffectAtMostOnce
<1>1. SendInvariant => EffectAtMostOnce
  BY DEF SendInvariant
<1> QED
  BY <1>1, SendInvariance, PTL

\* What is on its way or took effect is charged or still reserved: neither
\* cancellation gives it up.
THEOREM NoEffectForgotten == Spec => []EffectsAreAccountedFor
<1>1. SendInvariant => EffectsAreAccountedFor
  BY DEF SendInvariant
<1> QED
  BY <1>1, SendInvariance, PTL
------------------------------------------------------------------------------
(***************************************************************************)
(* The budget.                                                             *)
(***************************************************************************)
\* Operations that were ever prepared.
Known == {o \in OpIds : operations[o].status # "none"}

\* The columns the budget sums up.
Cost == [o \in OpIds |-> operations[o].reservation]
Paid == [o \in OpIds |-> operations[o].receipt]

Succeeded == InStatus({"succeeded"})

\* BudgetIsConserved speaks of sums, which add up over finite sets of numbers
\* only: finitely many operations were prepared, and success books a receipt.
BudgetInvariant ==
  /\ IsFiniteSet(Known)
  /\ \A o \in Succeeded : operations[o].receipt \in Costs
  /\ BudgetIsConserved

LEMMA BudgetIsSums ==
  BudgetIsConserved <=> /\ reserved = SumFunctionOnSet(Cost, InStatus(Open))
                        /\ spent = SumFunctionOnSet(Paid, Succeeded)
                        /\ spent + reserved <= MaxCost
BY DEF BudgetIsConserved, Reservations, Receipts, Cost, Paid, Succeeded

\* What the sums need to know of the table.
LEMMA ColumnsAddUp ==
  ASSUME JournalTypes, BudgetInvariant
  PROVE  /\ IsFiniteSet(InStatus(Open)) /\ IsFiniteSet(Succeeded)
         /\ \A o \in OpIds : Cost[o] \in Nat
         /\ \A o \in Succeeded : Paid[o] \in Nat
         /\ reserved \in Nat /\ spent \in Nat
<1>1. InStatus(Open) \in SUBSET Known /\ Succeeded \in SUBSET Known
  BY DEF InStatus, Open, Known, Succeeded
<1>2. IsFiniteSet(InStatus(Open)) /\ IsFiniteSet(Succeeded)
  BY <1>1, FS_Subset DEF BudgetInvariant
<1>3. \A o \in OpIds : Cost[o] \in Nat
  BY DEF JournalTypes, OperationRow, Cost
<1>4. \A o \in Succeeded : Paid[o] \in Nat
  BY AmountsAssumption DEF BudgetInvariant, Paid, Succeeded, InStatus
<1>5. \A o \in InStatus(Open) : Cost[o] \in Nat
  BY <1>3 DEF InStatus
<1>6. reserved \in Nat /\ spent \in Nat
  BY <1>2, <1>4, <1>5, SumType, BudgetIsSums DEF BudgetInvariant
<1> QED
  BY <1>2, <1>3, <1>4, <1>6

LEMMA BudgetIsSumsNext ==
  BudgetIsConserved' <=> /\ reserved' = SumFunctionOnSet(Cost', InStatus(Open)')
                         /\ spent' = SumFunctionOnSet(Paid', Succeeded')
                         /\ spent' + reserved' <= MaxCost
BY DEF BudgetIsConserved, Reservations, Receipts, Cost, Paid, Succeeded

LEMMA BudgetAtInit == Init => BudgetInvariant
<1> SUFFICES ASSUME Init PROVE BudgetInvariant
  OBVIOUS
<1>1. Known = {} /\ InStatus(Open) = {} /\ Succeeded = {}
  BY DEF Init, NoOperation, Known, InStatus, Open, Succeeded
<1>2. reserved = 0 /\ spent = 0
  BY DEF Init
<1>3. BudgetIsConserved
  BY <1>1, <1>2, SumOfNothing, AmountsAssumption, BudgetIsSums
<1> QED
  BY <1>1, <1>3, FS_EmptySet DEF BudgetInvariant

\* A step that keeps what is open, what succeeded and the booked columns.
LEMMA SameBudget ==
  ASSUME JournalTypes, BudgetInvariant, UNCHANGED <<reserved, spent>>,
         Known' = Known, InStatus(Open)' = InStatus(Open), Succeeded' = Succeeded,
         \A o \in OpIds : /\ operations'[o].reservation = operations[o].reservation
                         /\ operations'[o].receipt = operations[o].receipt
  PROVE  BudgetInvariant'
<1>1. Cost' = Cost /\ Paid' = Paid
  BY DEF Cost, Paid
<1>2. BudgetIsConserved'
  BY <1>1, BudgetIsSums, BudgetIsSumsNext DEF BudgetInvariant
<1>3. IsFiniteSet(Known')
  BY DEF BudgetInvariant
<1>4. \A o \in Succeeded' : operations'[o].receipt \in Costs
  BY DEF BudgetInvariant, Succeeded, InStatus
<1> QED
  BY <1>2, <1>3, <1>4 DEF BudgetInvariant

LEMMA PrepareBudget ==
  ASSUME JournalTypes, JournalTypes', BudgetInvariant,
         NEW p \in Participants, NEW o \in OpIds, NEW a \in Amounts, Prepare(p, o, a)
  PROVE  BudgetInvariant'
<1>1. /\ operations[o].status = "none"
      /\ spent + reserved + a <= MaxCost
      /\ operations' = [operations EXCEPT ![o] =
           [status |-> "prepared", participant |-> p, generation |-> generation[p],
            reservation |-> a, receipt |-> None]]
      /\ reserved' = reserved + a
      /\ spent' = spent
  BY DEF Prepare, Fits
<1>2. /\ operations'[o].status = "prepared"
      /\ operations'[o].reservation = a
      /\ \A x \in OpIds \ {o} : operations'[x] = operations[x]
  BY <1>1 DEF JournalTypes
<1>3. Known' = Known \cup {o} /\ InStatus(Open)' = InStatus(Open) \cup {o}
  BY <1>1, <1>2 DEF Known, InStatus, Open
<1>4. Succeeded' = Succeeded /\ o \notin Succeeded /\ o \notin InStatus(Open)
  BY <1>1, <1>2 DEF Succeeded, InStatus, Open
<1>5. /\ \A x \in InStatus(Open) : Cost'[x] \in Nat /\ Cost[x] = Cost'[x]
      /\ Cost'[o] = a /\ a \in Nat
  BY <1>2, <1>4, ColumnsAddUp, AmountsAssumption DEF Cost, InStatus
<1>6. \A x \in Succeeded : Paid[x] = Paid'[x]
  BY <1>2, <1>4 DEF Paid, Succeeded, InStatus
<1>7. SumFunctionOnSet(Cost', InStatus(Open)') = SumFunctionOnSet(Cost, InStatus(Open)) + a
  BY <1>3, <1>4, <1>5, ColumnsAddUp, SumAdds
<1>8. SumFunctionOnSet(Paid', Succeeded') = SumFunctionOnSet(Paid, Succeeded)
  BY <1>4, <1>6, ColumnsAddUp, SumSame
<1>9. BudgetIsConserved'
  BY <1>1, <1>5, <1>7, <1>8, ColumnsAddUp, BudgetIsSums, BudgetIsSumsNext DEF BudgetInvariant
<1>10. IsFiniteSet(Known')
  BY <1>3, FS_AddElement DEF BudgetInvariant
<1>11. \A x \in Succeeded' : operations'[x].receipt \in Costs
  BY <1>2, <1>4 DEF BudgetInvariant, Succeeded, InStatus
<1> QED
  BY <1>9, <1>10, <1>11 DEF BudgetInvariant

LEMMA SettleBudget ==
  ASSUME SendInvariant, JournalTypes', BudgetInvariant, NEW t \in Callers, Settle(t)
  PROVE  BudgetInvariant' /\ reserved' \in Nat /\ spent' \in Nat
<1> DEFINE o == task[t].op
           c == remote[o]
<1>1. JournalTypes /\ o \in OpIds /\ c \in Costs
  BY DEF SendInvariant, JournalTypes, TasksHaveOperations, Settle
<1>2. /\ operations[o].status \in {"dispatching", "unknown"}
      /\ c <= operations[o].reservation
      /\ operations' = [operations EXCEPT ![o].status = "succeeded", ![o].receipt = c]
      /\ reserved' = reserved - operations[o].reservation
      /\ spent' = spent + c
  BY DEF Settle, Settleable
<1> HIDE DEF o, c
<1>3. /\ operations'[o].status = "succeeded"
      /\ operations'[o].receipt = c
      /\ operations'[o].reservation = operations[o].reservation
      /\ \A x \in OpIds \ {o} : operations'[x] = operations[x]
  BY <1>1, <1>2 DEF JournalTypes, OperationRow
<1>4. o \in InStatus(Open) /\ o \notin Succeeded /\ o \in Known
  BY <1>1, <1>2 DEF InStatus, Open, Succeeded, Known
<1>5. Known' = Known /\ InStatus(Open)' = InStatus(Open) \ {o} /\ Succeeded' = Succeeded \cup {o}
  BY <1>1, <1>3, <1>4 DEF InStatus, Open, Succeeded, Known
<1>6. Cost' = Cost /\ Cost[o] = operations[o].reservation /\ Paid'[o] = c /\ c \in Nat
  BY <1>1, <1>3, AmountsAssumption DEF Cost, Paid
<1>7. \A x \in Succeeded : Paid'[x] \in Nat /\ Paid[x] = Paid'[x]
  BY <1>1, <1>3, <1>4, ColumnsAddUp DEF Paid, Succeeded, InStatus
<1>8. /\ SumFunctionOnSet(Cost, InStatus(Open))
           = Cost[o] + SumFunctionOnSet(Cost, InStatus(Open) \ {o})
      /\ SumFunctionOnSet(Cost, InStatus(Open) \ {o}) \in Nat
  <2>1. \A x \in InStatus(Open) : Cost[x] \in Nat
    BY <1>1, ColumnsAddUp DEF InStatus
  <2>2. IsFiniteSet(InStatus(Open))
    BY <1>1, ColumnsAddUp
  <2>3. InStatus(Open) \ {o} \in SUBSET InStatus(Open)
    OBVIOUS
  <2>4. SumFunctionOnSet(Cost, InStatus(Open) \ {o}) \in Nat
    BY <2>1, <2>2, <2>3, SumOfPart
  <2> QED
    BY <1>4, <2>1, <2>2, <2>4, SumTakesOut
<1>9. SumFunctionOnSet(Paid', Succeeded') = SumFunctionOnSet(Paid, Succeeded) + c
  BY <1>1, <1>4, <1>5, <1>6, <1>7, ColumnsAddUp, SumAdds
<1>10. BudgetIsConserved'
  <2>1. Cost[o] \in Nat /\ reserved \in Nat /\ spent \in Nat
    BY <1>1, ColumnsAddUp
  <2>2. reserved' = SumFunctionOnSet(Cost', InStatus(Open)')
    BY <1>2, <1>5, <1>6, <1>8, <2>1, BudgetIsSums DEF BudgetInvariant
  <2>3. spent' = SumFunctionOnSet(Paid', Succeeded')
    BY <1>2, <1>9, BudgetIsSums DEF BudgetInvariant
  <2>4. spent' + reserved' <= MaxCost
    BY <1>2, <1>6, <2>1, AmountsAssumption, BudgetIsSums DEF BudgetInvariant
  <2> QED
    BY <2>2, <2>3, <2>4, BudgetIsSumsNext
<1>11. \A x \in Succeeded' : operations'[x].receipt \in Costs
  BY <1>1, <1>3, <1>5 DEF BudgetInvariant, Succeeded, InStatus
<1>12. reserved' \in Nat /\ spent' \in Nat
  <2>1. reserved' = SumFunctionOnSet(Cost, InStatus(Open) \ {o})
    BY <1>5, <1>6, <1>10, BudgetIsSumsNext
  <2>2. spent \in Nat
    BY <1>1, ColumnsAddUp
  <2> QED
    BY <1>2, <1>6, <1>8, <2>1, <2>2
<1> QED
  BY <1>5, <1>10, <1>11, <1>12 DEF BudgetInvariant

\* Neither cancellation changes a booked column; what it gives up it takes off
\* the reservations.
LEMMA ReleaseBudget ==
  ASSUME JournalTypes, BudgetInvariant, ReleaseUnsent, spent' = spent
  PROVE  BudgetInvariant' /\ reserved' \in 0..reserved
<1>1. /\ \A o \in OpIds : operations'[o] = IF o \in Unsent
                              THEN [operations[o] EXCEPT !.status = "failed"] ELSE operations[o]
      /\ reserved' = reserved - SumFunctionOnSet(Cost, Unsent)
  BY DEF ReleaseUnsent, Reservations, Cost
<1>2. \A o \in OpIds : /\ operations'[o].reservation = operations[o].reservation
                       /\ operations'[o].receipt = operations[o].receipt
                       /\ operations'[o].status = IF o \in Unsent THEN "failed"
                                                 ELSE operations[o].status
  BY <1>1 DEF JournalTypes, OperationRow
<1>3. /\ Unsent \in SUBSET InStatus(Open)
      /\ \A o \in Unsent : operations[o].status = "prepared"
  BY DEF Unsent, InStatus, Open
<1>4. Known' = Known /\ InStatus(Open)' = InStatus(Open) \ Unsent /\ Succeeded' = Succeeded
  BY <1>2, <1>3 DEF InStatus, Open, Succeeded, Known
<1>5. Cost' = Cost /\ Paid' = Paid
  BY <1>2 DEF Cost, Paid
<1>6. \A x \in InStatus(Open) : Cost[x] \in Nat
  BY ColumnsAddUp DEF InStatus
<1>7. /\ SumFunctionOnSet(Cost, InStatus(Open))
           = SumFunctionOnSet(Cost, Unsent) + SumFunctionOnSet(Cost, InStatus(Open) \ Unsent)
      /\ SumFunctionOnSet(Cost, Unsent) \in Nat
      /\ SumFunctionOnSet(Cost, InStatus(Open) \ Unsent) \in Nat
  <2>1. IsFiniteSet(InStatus(Open)) /\ InStatus(Open) \ Unsent \in SUBSET InStatus(Open)
    BY ColumnsAddUp
  <2>2. /\ SumFunctionOnSet(Cost, Unsent) \in Nat
        /\ SumFunctionOnSet(Cost, InStatus(Open) \ Unsent) \in Nat
    BY <1>3, <1>6, <2>1, SumOfPart
  <2> QED
    BY <1>3, <1>6, <2>1, <2>2, SumSplits
<1>8. /\ reserved' = SumFunctionOnSet(Cost', InStatus(Open)')
      /\ reserved' \in 0..reserved
  BY <1>1, <1>4, <1>5, <1>7, BudgetIsSums DEF BudgetInvariant
<1>9. BudgetIsConserved'
  BY <1>4, <1>5, <1>8, ColumnsAddUp, AmountsAssumption, BudgetIsSums, BudgetIsSumsNext
  DEF BudgetInvariant
<1>10. \A x \in Succeeded' : operations'[x].receipt \in Costs
  BY <1>2, <1>4 DEF BudgetInvariant, Succeeded, InStatus
<1> QED
  BY <1>4, <1>8, <1>9, <1>10 DEF BudgetInvariant
------------------------------------------------------------------------------
(***************************************************************************)
(* Which steps move the table, and what they leave alone.                  *)
(***************************************************************************)
LEMMA JournalMoves ==
  ASSUME [Next]_vars
  PROVE  \/ UNCHANGED budget
         \/ \E p \in Participants, o \in OpIds, a \in Amounts : Prepare(p, o, a)
         \/ \E t \in Callers, o \in OpIds, guarded \in BOOLEAN : Dispatch(t, o, guarded)
         \/ \E t \in Callers : Raise(t) \/ Settle(t)
         \/ CancelPrepared
         \/ Cancel
<1>1. CASE Journal
  BY <1>1 DEF Journal, Reconcile, Call, Answer, GiveUp, budget
<1>2. CASE ProviderStep \/ LeaseEnds \/ UNCHANGED vars
  BY <1>2 DEF ProviderStep, TakeEffect, CallLost, LeaseEnds, vars, budget
<1>3. ASSUME NEW t \in Callers, Command(t) PROVE UNCHANGED budget
  BY <1>3 DEF Command, Acquire, Pause, Resume, ResumeIfPaused, Finish, FinalizeOutcomes,
              Checkpoint, Transfer, StatusBecomes, budget
<1> QED
  BY <1>1, <1>2, <1>3 DEF Next

\* Handing an operation over and losing its caller change only its status.
LEMMA SendingKeepsColumns ==
  ASSUME SendInvariant,
         \/ \E t \in Callers, o \in OpIds, guarded \in BOOLEAN : Dispatch(t, o, guarded)
         \/ \E t \in Callers : Raise(t)
  PROVE  /\ UNCHANGED <<reserved, spent, status, finalized, effects>>
         /\ Known' = Known /\ InStatus(Open)' = InStatus(Open) /\ Succeeded' = Succeeded
         /\ InStatus({"prepared"})' \subseteq InStatus({"prepared"})
         /\ \A o \in OpIds : /\ operations'[o].reservation = operations[o].reservation
                            /\ operations'[o].receipt = operations[o].receipt
<1>1. \E o \in OpIds, s \in {"dispatching", "unknown"} :
        \/ operations[o].status \in {"prepared", "dispatching"} /\ operations' = WithStatus(o, s)
        \/ operations' = operations
  BY DEF Dispatch, Dispatchable, Raise, SendInvariant, TasksHaveOperations
<1>2. UNCHANGED <<reserved, spent, status, finalized, effects>>
  BY DEF Dispatch, Raise, session, provider
<1>3. \A o \in OpIds : /\ operations'[o].reservation = operations[o].reservation
                       /\ operations'[o].receipt = operations[o].receipt
                       /\ \/ operations'[o].status = operations[o].status
                          \/ /\ operations[o].status \in {"prepared", "dispatching"}
                             /\ operations'[o].status \in {"dispatching", "unknown"}
  BY <1>1 DEF SendInvariant, JournalTypes, OperationRow, WithStatus
<1> QED
  BY <1>2, <1>3 DEF Known, InStatus, Open, Succeeded

LEMMA BudgetPreserved ==
  ASSUME SendInvariant, SendInvariant', BudgetInvariant, [Next]_vars
  PROVE  BudgetInvariant'
<1>1. JournalTypes /\ JournalTypes'
  BY DEF SendInvariant
<1>2. CASE UNCHANGED budget
  <2>1. /\ Known' = Known /\ InStatus(Open)' = InStatus(Open) /\ Succeeded' = Succeeded
        /\ UNCHANGED <<operations, reserved, spent>>
    BY <1>2 DEF budget, Known, InStatus, Succeeded
  <2> QED
    BY <1>1, <2>1, SameBudget
<1>3. CASE \/ \E t \in Callers, o \in OpIds, guarded \in BOOLEAN : Dispatch(t, o, guarded)
           \/ \E t \in Callers : Raise(t)
  BY <1>1, <1>3, SendingKeepsColumns, SameBudget
<1>4. CASE CancelPrepared \/ Cancel
  BY <1>1, <1>4, ReleaseBudget DEF CancelPrepared, Cancel
<1> QED
  BY <1>1, <1>2, <1>3, <1>4, JournalMoves, PrepareBudget, SettleBudget

LEMMA BudgetInvariance == Spec => [](SendInvariant /\ Generations /\ BudgetInvariant)
<1>1. SendInvariant /\ Generations /\ [Next]_vars => SendInvariant'
  BY SendInvariantPreserved
<1> QED
  BY <1>1, SendInvariance, BudgetAtInit, BudgetPreserved, PTL DEF Spec

\* Whatever order intents, receipts and cancellations arrive in, the two
\* columns are the sums of the table and never exceed the frozen budget.
THEOREM BudgetColumnsAreSums == Spec => []BudgetIsConserved
<1>1. BudgetInvariant => BudgetIsConserved
  BY DEF BudgetInvariant
<1> QED
  BY <1>1, BudgetInvariance, PTL
------------------------------------------------------------------------------
(***************************************************************************)
(* The end of a session, and its checkpoints.                              *)
(***************************************************************************)
\* EndedOwesNothing has to know that nothing leaves a final status, that only
\* a running session prepares, and that success proves an effect: then what is
\* on its way is open.
EndInvariant ==
  /\ status = "cancelled" => InStatus({"prepared"}) = {}
  /\ finalized => status = "completed" /\ InStatus(Open) = {}
  /\ \A o \in Succeeded : effects[o] > 0

LEMMA EndAtInit == Init => EndInvariant
BY DEF Init, EndInvariant, NoOperation, InStatus, Succeeded

\* Steps that keep the table move a session along its statuses only.
LEMMA StatusMoves ==
  ASSUME [Next]_vars, UNCHANGED operations
  PROVE  \/ UNCHANGED <<status, finalized>>
         \/ /\ status \in {"running", "paused"}
            /\ status' \in {"running", "paused", "completed", "outcomes_pending"}
            /\ finalized' = finalized
         \/ /\ InStatus(Open) = {} /\ status' = "completed"
         \/ Cancel
<1>1. CASE Journal
  BY <1>1 DEF Journal, Prepare, Dispatch, Reconcile, Call, Answer, Raise, GiveUp, Settle,
              CancelPrepared, session
<1>2. CASE ProviderStep \/ LeaseEnds \/ UNCHANGED vars
  BY <1>2 DEF ProviderStep, TakeEffect, CallLost, LeaseEnds, vars, session
<1>3. ASSUME NEW t \in Callers, Command(t)
      PROVE  \/ UNCHANGED <<status, finalized>>
             \/ /\ status \in {"running", "paused"}
                /\ status' \in {"running", "paused", "completed", "outcomes_pending"}
                /\ finalized' = finalized
             \/ InStatus(Open) = {} /\ status' = "completed"
  BY <1>3 DEF Command, Acquire, Pause, Resume, ResumeIfPaused, Finish, FinalizeOutcomes,
              Checkpoint, Transfer, StatusBecomes, session, Unsettled
<1> QED
  BY <1>1, <1>2, <1>3 DEF Next

LEMMA EndPreserved ==
  ASSUME SendInvariant, EndInvariant, [Next]_vars
  PROVE  EndInvariant'
<1> USE DEF EndInvariant
<1>1. JournalTypes
  BY DEF SendInvariant
<1>2. \A o \in OpIds : effects[o] > 0 => effects'[o] > 0
  <2>1. UNCHANGED effects \/ \E o \in OpIds : effects' = [effects EXCEPT ![o] = @ + 1]
    <3>1. CASE Journal
      BY <3>1 DEF Journal, Prepare, Dispatch, Reconcile, Call, Answer, Raise, GiveUp, Settle,
                  CancelPrepared, provider
    <3>2. CASE ProviderStep \/ LeaseEnds \/ Cancel \/ UNCHANGED vars
      BY <3>2 DEF ProviderStep, TakeEffect, CallLost, LeaseEnds, Cancel, vars, provider
    <3>3. ASSUME NEW t \in Callers, Command(t) PROVE UNCHANGED effects
      BY <3>3 DEF Command, Acquire, Pause, Resume, ResumeIfPaused, Finish, FinalizeOutcomes,
                  Checkpoint, Transfer, StatusBecomes, provider
    <3> QED
      BY <3>1, <3>2, <3>3 DEF Next
  <2> QED
    BY <1>1, <2>1 DEF JournalTypes
<1>3. CASE UNCHANGED operations /\ ~Cancel
  BY <1>2, <1>3, StatusMoves DEF InStatus, Succeeded
<1>4. ASSUME NEW p \in Participants, NEW o \in OpIds, NEW a \in Amounts, Prepare(p, o, a)
      PROVE  EndInvariant'
  <2>1. status = "running" /\ UNCHANGED <<status, finalized>> /\ Succeeded' = Succeeded
    BY <1>1, <1>4 DEF Prepare, Preparable, session, Succeeded, InStatus, JournalTypes
  <2> QED
    BY <1>2, <2>1 DEF Succeeded, InStatus
<1>5. ASSUME NEW t \in Callers, Settle(t)
      PROVE  EndInvariant'
  <2>1. task[t].op \in OpIds /\ effects[task[t].op] > 0
    BY <1>5 DEF Settle, SendInvariant, TasksHaveOperations, ProviderIsHonest
  <2>2. UNCHANGED <<status, finalized>>
    BY <1>5 DEF Settle, session
  <2>3. /\ InStatus(Open)' \subseteq InStatus(Open)
        /\ InStatus({"prepared"})' \subseteq InStatus({"prepared"})
        /\ Succeeded' \subseteq Succeeded \cup {task[t].op}
    BY <1>1, <1>5, <2>1 DEF Settle, JournalTypes, OperationRow, InStatus, Open, Succeeded
  <2>4. \A o \in Succeeded' : effects'[o] > 0
    BY <1>2, <2>1, <2>3 DEF Succeeded, InStatus
  <2> QED
    BY <2>2, <2>3, <2>4
<1>6. CASE \/ \E t \in Callers, o \in OpIds, guarded \in BOOLEAN : Dispatch(t, o, guarded)
           \/ \E t \in Callers : Raise(t)
  BY <1>6, SendingKeepsColumns
<1>7. CASE CancelPrepared \/ Cancel
  <2>1. \A o \in OpIds : operations'[o].status = IF operations[o].status = "prepared"
                                                THEN "failed" ELSE operations[o].status
    BY <1>1, <1>7
    DEF CancelPrepared, Cancel, ReleaseUnsent, Unsent, InStatus, JournalTypes, OperationRow
  <2>2. /\ InStatus({"prepared"})' = {} /\ InStatus(Open)' \subseteq InStatus(Open)
        /\ Succeeded' = Succeeded
    BY <2>1 DEF InStatus, Open, Succeeded
  <2>3. \/ UNCHANGED <<status, finalized>>
        \/ status \in {"running", "paused"} /\ status' = "cancelled" /\ finalized' = finalized
    BY <1>7 DEF CancelPrepared, Cancel, session
  <2>4. \A o \in Succeeded' : effects'[o] > 0
    BY <1>2, <2>2 DEF Succeeded, InStatus
  <2> QED
    BY <2>2, <2>3, <2>4
<1> QED
  BY <1>3, <1>4, <1>5, <1>6, <1>7, JournalMoves DEF budget

LEMMA EndInvariance ==
  Spec => [](SendInvariant /\ Generations /\ BudgetInvariant /\ EndInvariant)
BY BudgetInvariance, EndAtInit, EndPreserved, PTL DEF Spec

\* What is on its way to the provider is marked as dispatched.
LEMMA WireIsAmbiguous ==
  ASSUME SendInvariant, EndInvariant
  PROVE  wire \subseteq Ambiguous
BY DEF SendInvariant, EndInvariant, JournalTypes, ProviderIsHonest, EffectsAreAccountedFor,
       Ambiguous, InStatus, Succeeded

\* A session that ended owes nothing: cancellation leaves no unsent
\* reservation, finalization none at all and nothing on its way.
THEOREM NothingOwedAtTheEnd == Spec => []EndedOwesNothing
<1>1. SendInvariant /\ BudgetInvariant /\ EndInvariant => EndedOwesNothing
  <2> SUFFICES ASSUME SendInvariant, BudgetInvariant, EndInvariant PROVE EndedOwesNothing
    OBVIOUS
  <2>1. ASSUME finalized PROVE reserved = 0 /\ wire = {} /\ InStatus(Open) = {}
    <3>1. InStatus(Open) = {}
      BY <2>1 DEF EndInvariant
    <3>2. wire = {}
      BY <3>1, WireIsAmbiguous DEF Ambiguous, InStatus, Open
    <3>3. reserved = 0
      BY <3>1, SumOfNothing, BudgetIsSums DEF BudgetInvariant
    <3> QED
      BY <3>1, <3>2, <3>3
  <2> QED
    BY <2>1 DEF EndedOwesNothing, EndInvariant
<1> QED
  BY <1>1, EndInvariance, PTL

\* A checkpoint is committed when every effect that happened is booked and
\* none is under way.
THEOREM CheckpointsSeeSettledEffects == Spec => CheckpointsAreQuiescent
<1> DEFINE Quiescent == (checkpoints' # checkpoints) =>
             /\ wire = {}
             /\ \A o \in OpIds : effects[o] > 0 => operations[o].status = "succeeded"
<1>1. SendInvariant /\ EndInvariant /\ [Next]_vars => [Quiescent]_vars
  <2> SUFFICES ASSUME SendInvariant, EndInvariant, [Next]_vars, checkpoints' # checkpoints
               PROVE  /\ wire = {}
                      /\ \A o \in OpIds : effects[o] > 0 => operations[o].status = "succeeded"
    OBVIOUS
  <2>1. \E t \in Callers : Checkpoint(t)
    <3>1. ~ (ProviderStep \/ LeaseEnds \/ Cancel \/ UNCHANGED vars)
      BY DEF ProviderStep, TakeEffect, CallLost, LeaseEnds, Cancel, vars
    <3>2. ~ Journal
      BY DEF Journal, Prepare, Dispatch, Reconcile, Call, Answer, Raise, GiveUp, Settle,
             CancelPrepared
    <3>3. \E t \in Callers : Command(t)
      BY <3>1, <3>2 DEF Next
    <3> QED
      BY <3>3 DEF Command, Acquire, Pause, Resume, ResumeIfPaused, Finish, FinalizeOutcomes,
                  Transfer, StatusBecomes
  <2>2. Ambiguous = {}
    BY <2>1 DEF Checkpoint
  <2> QED
    BY <2>2, WireIsAmbiguous DEF SendInvariant, EffectsAreAccountedFor, Ambiguous, InStatus
<1> HIDE DEF Quiescent
<1>2. Spec => [][Quiescent]_vars
  BY <1>1, EndInvariance, PTL DEF Spec
<1> QED
  BY <1>2 DEF CheckpointsAreQuiescent, Quiescent
------------------------------------------------------------------------------
(***************************************************************************)
(* The refinement.                                                         *)
(***************************************************************************)
Happened == {o \in OpIds : effects[o] > 0}
Exposure == spent + reserved

\* What the ledger sees of a step, action by action.
LEMMA PrepareAnnounces ==
  ASSUME SendInvariant, BudgetInvariant, BudgetInvariant',
         NEW p \in Participants, NEW o \in OpIds, NEW a \in Amounts, Prepare(p, o, a)
  PROVE  EffectLedgerOf!Announce(o)
<1>1. reserved \in Nat /\ spent \in Nat /\ a \in Nat
  BY ColumnsAddUp, AmountsAssumption DEF SendInvariant
<1>2. /\ Stage[o] = "none"
      /\ Stage' = [Stage EXCEPT ![o] = "announced"]
  BY DEF Prepare, SendInvariant, JournalTypes, Stage
<1>3. /\ Exposure' = Exposure + a
      /\ Exposure' <= MaxCost
  BY <1>1 DEF Prepare, Exposure, BudgetInvariant, BudgetIsConserved
<1>4. Happened' = Happened
  BY DEF Prepare, provider, Happened
<1> QED
  BY <1>2, <1>3, <1>4 DEF EffectLedgerOf!Announce, Exposure, Happened

LEMMA DispatchSends ==
  ASSUME SendInvariant, NEW t \in Callers, NEW o \in OpIds, NEW guarded \in BOOLEAN,
         Dispatch(t, o, guarded)
  PROVE  EffectLedgerOf!Send(o)
<1>1. /\ Stage[o] = "announced"
      /\ Stage' = [Stage EXCEPT ![o] = "sent"]
  BY DEF Dispatch, Dispatchable, WithStatus, SendInvariant, JournalTypes, OperationRow, Stage
<1>2. Happened' = Happened /\ Exposure' = Exposure
  BY DEF Dispatch, provider, Happened, Exposure
<1> QED
  BY <1>1, <1>2 DEF EffectLedgerOf!Send, Exposure, Happened

LEMMA TakingEffectHappens ==
  ASSUME SendInvariant, EndInvariant, NEW o \in OpIds, NEW c \in Costs, TakeEffect(o, c)
  PROVE  EffectLedgerOf!Happen(o)
<1>1. operations[o].status \in {"dispatching", "unknown"} /\ effects[o] = 0
  BY WireIsAmbiguous
  DEF TakeEffect, Ambiguous, InStatus, SendInvariant, ProviderIsHonest
<1>2. Stage[o] = "sent" /\ Stage' = Stage /\ Exposure' = Exposure
  BY <1>1 DEF TakeEffect, budget, Stage, Exposure
<1>3. o \notin Happened /\ Happened' = Happened \cup {o}
  BY <1>1 DEF TakeEffect, Happened, SendInvariant, JournalTypes
<1> QED
  BY <1>2, <1>3 DEF EffectLedgerOf!Happen, Exposure, Happened

LEMMA SettleSettles ==
  ASSUME SendInvariant, BudgetInvariant, BudgetInvariant', SendInvariant',
         NEW t \in Callers, Settle(t)
  PROVE  EffectLedgerOf!Settle(task[t].op)
<1> DEFINE o == task[t].op
<1>1. o \in OpIds /\ effects[o] > 0 /\ remote[o] \in Nat
  BY AmountsAssumption
  DEF Settle, SendInvariant, JournalTypes, TasksHaveOperations, ProviderIsHonest
<1>2. /\ operations[o].status \in {"dispatching", "unknown"}
      /\ operations' = [operations EXCEPT ![o].status = "succeeded", ![o].receipt = remote[o]]
      /\ remote[o] <= operations[o].reservation
      /\ reserved' = reserved - operations[o].reservation
      /\ spent' = spent + remote[o]
      /\ UNCHANGED effects
  BY DEF Settle, Settleable, provider
<1> HIDE DEF o
<1>3. /\ Stage[o] = "sent"
      /\ Stage' = [Stage EXCEPT ![o] = "settled"]
  <2>1. \A x \in OpIds : operations'[x].status = IF x = o THEN "succeeded"
                                                ELSE operations[x].status
    BY <1>1, <1>2 DEF SendInvariant, JournalTypes, OperationRow
  <2>2. Stage[o] = "sent"
    BY <1>1, <1>2 DEF Stage
  <2>3. \A x \in OpIds : Stage'[x] = IF x = o THEN "settled" ELSE Stage[x]
    BY <1>1, <2>1 DEF Stage
  <2>4. Stage = [x \in OpIds |-> Stage[x]] /\ Stage' = [x \in OpIds |-> Stage'[x]]
    BY DEF Stage
  <2> QED
    BY <2>2, <2>3, <2>4
<1>4. o \in Happened /\ Happened' = Happened
  BY <1>1, <1>2 DEF Happened
<1>5. Exposure' \in 0..Exposure
  <2>1. reserved \in Nat /\ spent \in Nat /\ reserved' \in Nat /\ spent' \in Nat
    BY ColumnsAddUp, SettleBudget DEF SendInvariant
  <2>2. operations[o].reservation \in Nat
    BY <1>1 DEF SendInvariant, JournalTypes, OperationRow
  <2> QED
    BY <1>1, <1>2, <2>1, <2>2 DEF Exposure
<1>6. EffectLedgerOf!Settle(o)
  BY <1>3, <1>4, <1>5 DEF EffectLedgerOf!Settle, Exposure, Happened
<1> QED
  BY <1>6 DEF o

LEMMA ReleaseWithdraws ==
  ASSUME SendInvariant, BudgetInvariant, ReleaseUnsent, UNCHANGED <<spent, effects>>
  PROVE  EffectLedgerOf!Withdraw
<1>1. JournalTypes
  BY DEF SendInvariant
<1>2. Stage' = [o \in OpIds |-> IF Stage[o] = "announced" THEN "withdrawn" ELSE Stage[o]]
  <2>1. \A o \in OpIds : operations'[o].status = IF operations[o].status = "prepared"
                                                THEN "failed" ELSE operations[o].status
    BY <1>1 DEF ReleaseUnsent, Unsent, InStatus, JournalTypes, OperationRow
  <2>2. \A o \in OpIds : operations[o].status \in
          {"none", "prepared", "dispatching", "unknown", "succeeded", "failed"}
    BY <1>1 DEF JournalTypes, OperationRow
  <2> QED
    BY <2>1, <2>2 DEF Stage
<1>3. Happened' = Happened
  BY DEF Happened
<1>4. Exposure' \in 0..Exposure
  <2>1. reserved' \in 0..reserved /\ reserved \in Nat /\ spent \in Nat
    BY <1>1, ReleaseBudget, ColumnsAddUp
  <2>2. spent' = spent
    OBVIOUS
  <2>3. Exposure = spent + reserved /\ Exposure' = spent + reserved'
    BY <2>2 DEF Exposure
  <2>4. \A a, b, c \in Nat : c <= b => a + c \in 0..(a + b)
    OBVIOUS
  <2>5. spent + reserved' \in 0..(spent + reserved)
    <3>1. reserved' \in Nat /\ reserved' <= reserved
      BY <2>1
    <3> QED
      BY <2>1, <2>4, <3>1
  <2> QED
    BY <2>3, <2>5, Zenon
<1> QED
  BY <1>2, <1>3, <1>4 DEF EffectLedgerOf!Withdraw, Exposure, Happened

\* A caller that goes away leaves an operation that was sent as it was.
LEMMA RaiseStutters ==
  ASSUME SendInvariant, NEW t \in Callers, Raise(t)
  PROVE  UNCHANGED <<Stage, Happened, Exposure>>
<1>1. task[t].op \in OpIds
  BY DEF Raise, SendInvariant, TasksHaveOperations
<1>2. Stage' = Stage
  BY <1>1 DEF Raise, WithStatus, SendInvariant, JournalTypes, OperationRow, Stage
<1> QED
  BY <1>2 DEF Raise, provider, Happened, Exposure

LEMMA LedgerInit == Init => EffectLedgerOf!Init
BY DEF Init, NoOperation, Stage, EffectLedgerOf!Init

LEMMA LedgerStep ==
  ASSUME SendInvariant, SendInvariant', BudgetInvariant, BudgetInvariant', EndInvariant,
         [Next]_vars
  PROVE  EffectLedgerOf!Next \/ UNCHANGED <<Stage, Happened, Exposure>>
<1>1. CASE Cancel \/ CancelPrepared
  BY <1>1, ReleaseWithdraws DEF Cancel, CancelPrepared, provider, EffectLedgerOf!Next
<1>2. ASSUME NEW o \in OpIds, NEW c \in Costs, TakeEffect(o, c)
      PROVE  EffectLedgerOf!Next
  BY <1>2, TakingEffectHappens DEF EffectLedgerOf!Next
<1>3. CASE UNCHANGED <<budget, effects>>
  BY <1>3 DEF budget, Stage, Happened, Exposure
<1>4. \/ UNCHANGED <<budget, effects>>
      \/ \E o \in OpIds, c \in Costs : TakeEffect(o, c)
      \/ ~ UNCHANGED budget
  <2>1. CASE Journal
    BY <2>1 DEF Journal, Prepare, Dispatch, Reconcile, Call, Answer, Raise, GiveUp, Settle,
                CancelPrepared, provider, budget
  <2>2. CASE ProviderStep \/ LeaseEnds \/ Cancel \/ UNCHANGED vars
    BY <2>2 DEF ProviderStep, CallLost, LeaseEnds, Cancel, vars, provider, budget
  <2>3. ASSUME NEW t \in Callers, Command(t) PROVE UNCHANGED <<budget, effects>>
    BY <2>3 DEF Command, Acquire, Pause, Resume, ResumeIfPaused, Finish, FinalizeOutcomes,
                Checkpoint, Transfer, StatusBecomes, provider, budget
  <2> QED
    BY <2>1, <2>2, <2>3 DEF Next
<1>5. ASSUME NEW p \in Participants, NEW o \in OpIds, NEW a \in Amounts, Prepare(p, o, a)
      PROVE  EffectLedgerOf!Next
  BY <1>5, PrepareAnnounces DEF EffectLedgerOf!Next
<1>6. ASSUME NEW t \in Callers, NEW o \in OpIds, NEW guarded \in BOOLEAN,
             Dispatch(t, o, guarded)
      PROVE  EffectLedgerOf!Next
  BY <1>6, DispatchSends DEF EffectLedgerOf!Next
<1>7. ASSUME NEW t \in Callers, Settle(t) PROVE EffectLedgerOf!Next
  <2>1. task[t].op \in OpIds
    BY <1>7 DEF Settle, SendInvariant, TasksHaveOperations
  <2> QED
    BY <1>7, <2>1, SettleSettles DEF EffectLedgerOf!Next
<1> QED
  BY <1>1, <1>2, <1>3, <1>4, <1>5, <1>6, <1>7, RaiseStutters, JournalMoves

\* Every operation of the journal, in any interleaving with crashes and a slow
\* provider, is a step of the ledger of effects or none of its business.
THEOREM JournalImplementsEffectLedger == Spec => ImplementsEffectLedger
<1>1. SendInvariant /\ SendInvariant' /\ BudgetInvariant /\ BudgetInvariant' /\ EndInvariant
        /\ [Next]_vars => [EffectLedgerOf!Next]_(EffectLedgerOf!ledgerVars)
  BY LedgerStep DEF EffectLedgerOf!ledgerVars, Happened, Exposure
<1> QED
  BY <1>1, LedgerInit, EndInvariance, PTL DEF Spec, ImplementsEffectLedger, EffectLedgerOf!Spec
------------------------------------------------------------------------------
(***************************************************************************)
(* Types.                                                                  *)
(***************************************************************************)
\* The columns of the session, and that a receipt is booked with success only.
SessionTypes ==
  /\ status \in {"running", "paused", "outcomes_pending", "completed", "cancelled"}
  /\ generation \in [Participants -> Nat] /\ active \in [Participants -> BOOLEAN]
  /\ finalized \in BOOLEAN
LeaseTypes == owner \in Callers \cup {Nobody} /\ epoch \in Nat /\ live \in BOOLEAN /\ held \in [Callers -> Nat]
ReceiptsAreBooked ==
  \A o \in OpIds : (operations[o].receipt # None) <=> (operations[o].status = "succeeded")

LEMMA ColumnTypesAtInit == Init => SessionTypes /\ LeaseTypes /\ ReceiptsAreBooked
<1> SUFFICES ASSUME Init PROVE SessionTypes /\ LeaseTypes /\ ReceiptsAreBooked
  OBVIOUS
<1>1. SessionTypes
  BY DEF Init, SessionTypes
<1>2. LeaseTypes
  BY DEF Init, LeaseTypes
<1>3. ReceiptsAreBooked
  BY DEF Init, ReceiptsAreBooked, NoOperation
<1> QED
  BY <1>1, <1>2, <1>3

LEMMA SessionTypesPreserved ==
  ASSUME SessionTypes, [Next]_vars
  PROVE  SessionTypes'
<1>1. CASE Journal
  BY <1>1 DEF Journal, Prepare, Dispatch, Reconcile, Call, Answer, Raise, GiveUp, Settle,
              CancelPrepared, session, SessionTypes
<1>2. CASE ProviderStep \/ LeaseEnds \/ Cancel \/ UNCHANGED vars
  BY <1>2 DEF ProviderStep, TakeEffect, CallLost, LeaseEnds, Cancel, session, vars, SessionTypes
<1>3. ASSUME NEW t \in Callers, NEW p \in Participants, NEW stays \in BOOLEAN, Transfer(t, p, stays)
      PROVE  SessionTypes'
  BY <1>3 DEF Transfer, SessionTypes
<1>4. ASSUME NEW t \in Callers, Command(t) PROVE SessionTypes'
  BY <1>3, <1>4 DEF Command, Acquire, Pause, Resume, ResumeIfPaused, Finish,
                    FinalizeOutcomes, Checkpoint, StatusBecomes, session, SessionTypes
<1> QED
  BY <1>1, <1>2, <1>4 DEF Next

LEMMA LeaseTypesPreserved ==
  ASSUME LeaseTypes, [Next]_vars
  PROVE  LeaseTypes'
<1>1. CASE Journal
  BY <1>1 DEF Journal, Prepare, Dispatch, Reconcile, Call, Answer, Raise, GiveUp, Settle,
              CancelPrepared, lease, LeaseTypes
<1>2. CASE ProviderStep \/ LeaseEnds \/ UNCHANGED vars
  BY <1>2 DEF ProviderStep, TakeEffect, CallLost, LeaseEnds, lease, vars, LeaseTypes
<1>3. CASE Cancel
  <2>1. owner' = Nobody /\ epoch' = epoch + 1 /\ ~live' /\ held' = held
    BY <1>3 DEF Cancel
  <2>2. live' \in BOOLEAN
    BY <1>3 DEF Cancel
  <2> QED
    BY <2>1, <2>2 DEF LeaseTypes
<1>4. ASSUME NEW t \in Callers, Acquire(t) PROVE LeaseTypes'
  BY <1>4, BoundsAssumption DEF Acquire, LeaseTypes
<1>5. ASSUME NEW t \in Callers, Command(t) PROVE LeaseTypes'
  BY <1>4, <1>5 DEF Command, Pause, Resume, ResumeIfPaused, Finish,
                    FinalizeOutcomes, Checkpoint, Transfer, StatusBecomes, lease, LeaseTypes
<1> QED
  BY <1>1, <1>2, <1>3, <1>5 DEF Next

LEMMA ReceiptsPreserved ==
  ASSUME SendInvariant, ReceiptsAreBooked, [Next]_vars
  PROVE  ReceiptsAreBooked'
<1> USE DEF SendInvariant, JournalTypes, ReceiptsAreBooked
<1>1. ASSUME NEW p \in Participants, NEW o \in OpIds, NEW a \in Amounts, Prepare(p, o, a)
      PROVE  ReceiptsAreBooked'
  BY <1>1 DEF Prepare
<1>2. ASSUME NEW t \in Callers, NEW o \in OpIds, NEW guarded \in BOOLEAN, Dispatch(t, o, guarded)
      PROVE  ReceiptsAreBooked'
  BY <1>2 DEF Dispatch, Dispatchable, WithStatus, OperationRow
<1>3. ASSUME NEW t \in Callers, Raise(t) PROVE ReceiptsAreBooked'
  <2>1. task[t].op \in OpIds
    BY <1>3 DEF Raise, TasksHaveOperations
  <2> QED
    BY <1>3, <2>1 DEF Raise, WithStatus, OperationRow
<1>4. ASSUME NEW t \in Callers, Settle(t) PROVE ReceiptsAreBooked'
  <2>1. task[t].op \in OpIds /\ remote[task[t].op] # None
    BY <1>4 DEF Settle, TasksHaveOperations
  <2> QED
    BY <1>4, <2>1 DEF Settle, OperationRow
<1>5. CASE ReleaseUnsent
  <2>1. \A o \in OpIds : operations'[o] = IF operations[o].status = "prepared"
                                            THEN [operations[o] EXCEPT !.status = "failed"]
                                            ELSE operations[o]
    BY <1>5 DEF ReleaseUnsent, Unsent, InStatus
  <2> QED
    BY <2>1 DEF OperationRow
<1>6. ASSUME operations' = operations PROVE ReceiptsAreBooked'
  BY <1>6
<1>7. CASE Journal
  BY <1>1, <1>2, <1>3, <1>4, <1>5, <1>6, <1>7
  DEF Journal, Reconcile, Call, Answer, GiveUp, CancelPrepared, budget
<1>8. CASE ProviderStep \/ LeaseEnds \/ UNCHANGED vars
  BY <1>6, <1>8 DEF ProviderStep, TakeEffect, CallLost, LeaseEnds, vars, budget
<1>9. CASE Cancel
  BY <1>5, <1>9 DEF Cancel
<1>10. ASSUME NEW t \in Callers, Command(t) PROVE ReceiptsAreBooked'
  BY <1>6, <1>10 DEF Command, Acquire, Pause, Resume, ResumeIfPaused, Finish,
                     FinalizeOutcomes, Checkpoint, Transfer, StatusBecomes, budget
<1> QED
  BY <1>7, <1>8, <1>9, <1>10 DEF Next

\* The columns and the journal keep their types; a receipt is booked with
\* success only.
THEOREM TypeCorrectness == Spec => []TypeOK
<1>1. SessionTypes /\ LeaseTypes /\ ReceiptsAreBooked /\ SendInvariant /\ [Next]_vars
        => (SessionTypes /\ LeaseTypes /\ ReceiptsAreBooked)'
  BY SessionTypesPreserved, LeaseTypesPreserved, ReceiptsPreserved
<1>2. SessionTypes /\ LeaseTypes /\ ReceiptsAreBooked /\ SendInvariant /\ BudgetInvariant => TypeOK
  BY ColumnsAddUp DEF SessionTypes, LeaseTypes, ReceiptsAreBooked, SendInvariant, TypeOK
<1> QED
  BY <1>1, <1>2, ColumnTypesAtInit, BudgetInvariance, PTL DEF Spec
==============================================================================
