------------------------------ MODULE AgentWork ------------------------------
(***************************************************************************)
(* The agent journal and the supplied runner (runner.py): a runner takes   *)
(* the writer lease, observes for each participant, records the work it is *)
(* about to dispatch, invokes agents concurrently outside any transaction, *)
(* records their responses, submits them under the work's identifier and   *)
(* resolves the phase.  Runners crash, time out and are overtaken; agents  *)
(* answer late; an operator recovers what became ambiguous.                *)
(***************************************************************************)
EXTENDS Integers, FiniteSets

CONSTANTS
  Participants,
  Independent,    \* participants that also act for themselves, with a credential
  Runners,        \* processes that execute run()
  Owners, Nobody, \* lease owner strings and the NULL owner
  OwnerOf,        \* OwnerOf[t]: the owner string runner t presents
  Payloads,       \* responses of agents
  WellFormed,     \* those that satisfy the action schema
  PhaseDeadline,  \* "wall" or "coordinator"
  MissingAction,  \* "reject" or "noop"
  MaxTurns,       \* policy.max_turns
  MaxEpoch,       \* bound: lease grants considered
  MaxGeneration,  \* bound: authority transfers per participant
  MaxCheckpoints, \* bound: checkpoints considered
  Saving,         \* bound: phases in which participants save state of their own
  None

ASSUME RosterAssumption == Participants # {} /\ Independent \subseteq Participants
ASSUME PayloadAssumption == WellFormed \subseteq Payloads /\ None \notin Payloads
ASSUME OwnersAssumption == Nobody \notin Owners /\ OwnerOf \in [Runners -> Owners]
ASSUME BoundsAssumption ==
  /\ MaxTurns \in Nat \ {0}
  /\ MaxEpoch \in Nat /\ MaxGeneration \in Nat /\ MaxCheckpoints \in Nat
  /\ Saving \subseteq 0..(MaxTurns - 1)

VARIABLES
  \* the environments row; `closed`: the phase was closed or its deadline passed
  status, revision, members, closed,
  \* the holder of the lease that is in force, or Nobody, and its epoch
  owner, epoch,
  \* observations (whether they invite an action), agent_work, actions under
  \* a work identifier, decisions participants submitted under their own
  offered, work, actions, direct,
  checkpoints,
  \* runners: where they are in run(), the revision they began with, the
  \* participants still to be gathered, the futures, the lease tokens
  pc, phase, todo, job, held,
  \* agent calls under way, and how many were begun
  flights, calls

session == <<status, revision, members, closed>>
lease == <<owner, epoch>>
journals == <<offered, work, actions, direct>>
runner == <<pc, phase, todo, job>>
agents == <<flights, calls>>
vars == <<session, lease, journals, checkpoints, runner, held, agents>>
------------------------------------------------------------------------------
\* The primary key of agent_work; the row's identifier stands for it.
Keys == [participant: Participants, revision: 0..(MaxTurns - 1),
         generation: 0..MaxGeneration]

ASSUME NoneAssumption == None \notin Keys

KeyOf(p) == [participant |-> p, revision |-> revision,
             generation |-> members[p].generation]

\* A continuation (agent_state) is named by the phase and the authority it was
\* recorded for, with a response or by the participant itself.
Member == [active: BOOLEAN, generation: 0..MaxGeneration, continuation: Keys \cup {None}]

WorkRow == [status: {"none", "prepared", "dispatching", "unknown", "responded", "failed"},
            response: Payloads \cup {None}]
NoWork == [status |-> "none", response |-> None]

ActionRow == [status: {"none", "blocked", "accepted", "committed"},
              payload: Payloads \cup {None}]
NoAction == [status |-> "none", payload |-> None]

NoJob == [pc |-> "none", key |-> None, payload |-> None]
Job == {NoJob} \cup [pc: {"prepare", "queued", "calling", "replied"}, key: Keys,
                     payload: Payloads \cup {None}]
NoJobs == [p \in Participants |-> NoJob]

\* A call whose runner has not gone on carries the lease its runner holds.
Flight == [key: Keys, runner: Runners, cancelled: BOOLEAN]

TypeOK ==
  /\ status \in {"running", "paused", "completed", "cancelled"}
  /\ revision \in 0..MaxTurns
  /\ members \in [Participants -> Member]
  /\ closed \in BOOLEAN
  /\ owner \in Owners \cup {Nobody}
  /\ epoch \in Nat
  /\ offered \in [Keys -> {"none", "mute", "may"}]
  /\ work \in [Keys -> WorkRow]
  /\ \A k \in Keys : (work[k].response # None) <=> (work[k].status = "responded")
  /\ actions \in [Keys -> ActionRow]
  /\ direct \subseteq Participants
  /\ checkpoints \in 0..MaxCheckpoints
  /\ pc \in [Runners -> {"idle", "lease", "read", "drive", "resolve", "ending"}]
  /\ phase \in [Runners -> 0..MaxTurns]
  /\ todo \in [Runners -> SUBSET Participants]
  /\ job \in [Runners -> [Participants -> Job]]
  /\ held \in [Runners -> Nat]
  /\ flights \subseteq Flight
  /\ calls \in [Keys -> Nat]
  /\ status \in {"running", "paused"} => revision < MaxTurns

Active == {p \in Participants : members[p].active}

\* The participants whose decision for the open phase has been accepted.
Decided ==
  direct \cup {k.participant : k \in {j \in Keys : /\ j.revision = revision
                                                   /\ actions[j].status = "accepted"}}

\* store.environment under a participant's own context.
Authorized(k) ==
  members[k.participant].active /\ members[k.participant].generation = k.generation

Fenced(t) == owner = OwnerOf[t] /\ epoch = held[t]

Init ==
  /\ status = "running"
  /\ revision = 0
  /\ members = [p \in Participants |-> [active |-> TRUE, generation |-> 0,
                                        continuation |-> None]]
  /\ closed = FALSE
  /\ owner = Nobody /\ epoch = 0
  /\ offered = [k \in Keys |-> "none"]
  /\ work = [k \in Keys |-> NoWork]
  /\ actions = [k \in Keys |-> NoAction]
  /\ direct = {}
  /\ checkpoints = 0
  /\ pc = [t \in Runners |-> "idle"]
  /\ phase = [t \in Runners |-> 0]
  /\ todo = [t \in Runners |-> {}]
  /\ job = [t \in Runners |-> NoJobs]
  /\ held = [t \in Runners |-> 0]
  /\ flights = {}
  /\ calls = [k \in Keys |-> 0]
------------------------------------------------------------------------------
(***************************************************************************)
(* One iteration of run(): lease, read, gather and prepare every           *)
(* participant, only then invoke.                                          *)
(***************************************************************************)
Goes(t, next) == pc' = [pc EXCEPT ![t] = next]

Clears(t) ==
  /\ phase' = [phase EXCEPT ![t] = 0]
  /\ todo' = [todo EXCEPT ![t] = {}]
  /\ job' = [job EXCEPT ![t] = NoJobs]

\* The iteration leaves the participants' loop: what it still waits for is
\* signalled to stop, and it goes on to release the lease.
Ends(t) ==
  /\ Goes(t, "ending")
  /\ Clears(t)
  /\ flights' = {IF f.runner = t THEN [f EXCEPT !.cancelled = TRUE] ELSE f : f \in flights}

Begin(t) ==
  /\ pc[t] = "idle"
  /\ status = "running"
  /\ phase' = [phase EXCEPT ![t] = revision]
  /\ Goes(t, "lease")
  /\ UNCHANGED <<session, lease, journals, checkpoints, todo, job, held, agents>>

Acquire(t) ==
  /\ pc[t] = "lease"
  /\ owner \in {Nobody, OwnerOf[t]}
  /\ epoch' = IF owner = Nobody THEN epoch + 1 ELSE epoch
  /\ epoch' <= MaxEpoch
  /\ owner' = OwnerOf[t]
  /\ held' = [held EXCEPT ![t] = epoch']
  /\ Goes(t, "read")
  /\ UNCHANGED <<session, journals, checkpoints, phase, todo, job, agents>>

ReadPhase(t) ==
  /\ pc[t] = "read"
  /\ todo' = [todo EXCEPT ![t] = Active \ Decided]
  /\ Goes(t, "drive")
  /\ UNCHANGED <<session, lease, journals, checkpoints, phase, job, held, agents>>

\* An observation is delivered once per key; whether it invites an action is
\* settled by the status of the session at that moment.
Delivered(k) ==
  IF offered[k] # "none" THEN offered
  ELSE [offered EXCEPT ![k] = IF status = "running" THEN "may" ELSE "mute"]

\* Participants are gathered one after the other.
Look(t, p) ==
  LET k == KeyOf(p)
  IN
  /\ pc[t] = "drive"
  /\ p \in todo[t]
  /\ \A q \in Participants : job[t][q].pc # "prepare"
  /\ members[p].active
  /\ k \in Keys
  /\ offered' = Delivered(k)
  /\ IF offered'[k] = "may"
       THEN /\ job' = [job EXCEPT ![t][p] = [pc |-> "prepare", key |-> k, payload |-> None]]
            /\ UNCHANGED todo
       ELSE /\ todo' = [todo EXCEPT ![t] = @ \ {p}]
            /\ UNCHANGED job
  /\ UNCHANGED <<session, lease, work, actions, direct, checkpoints, pc, phase, held, agents>>

\* Work that was dispatched without a response must be reconciled first.
Preparable(k) == work[k].status \in {"none", "prepared", "responded"}

\* A response that was saved is reused; it needs no invocation.
Prepare(t, p) ==
  LET k == job[t][p].key
  IN
  /\ pc[t] = "drive"
  /\ job[t][p].pc = "prepare"
  /\ Authorized(k)
  /\ Fenced(t)
  /\ status = "running"
  /\ Preparable(k)
  /\ work' = IF work[k].status = "none"
                THEN [work EXCEPT ![k] = [status |-> "prepared", response |-> None]] ELSE work
  /\ todo' = [todo EXCEPT ![t] = @ \ {p}]
  /\ job' = [job EXCEPT ![t][p] =
       IF work[k].status = "responded"
         THEN [pc |-> "replied", key |-> k, payload |-> work[k].response]
         ELSE [pc |-> "queued", key |-> k, payload |-> None]]
  /\ UNCHANGED <<session, lease, offered, actions, direct, checkpoints, pc, phase, held,
                 agents>>

\* Every participant has been prepared: agents may be invoked.
Driving(t) == pc[t] = "drive" /\ todo[t] = {}
------------------------------------------------------------------------------
(***************************************************************************)
(* Invocations: dispatched in a transaction, answered in another, or not.  *)
(***************************************************************************)
\* Fault: any prepared or ambiguous work may be dispatched.
Dispatchable_Again(k) == work[k].status \in {"prepared", "unknown"}

Dispatchable(k) == work[k].status = "prepared"

\* The first transaction of _invoke; the call follows at once, or never.
InvokeStart(t, p) ==
  LET k == job[t][p].key
  IN
  /\ Driving(t)
  /\ job[t][p].pc = "queued"
  /\ Authorized(k)
  /\ Fenced(t)
  /\ Dispatchable(k)
  /\ revision = k.revision
  /\ status = "running"
  /\ work' = [work EXCEPT ![k] = [status |-> "dispatching", response |-> None]]
  /\ job' = [job EXCEPT ![t][p] = [pc |-> "calling", key |-> k, payload |-> None]]
  /\ flights' = flights \cup {[key |-> k, runner |-> t, cancelled |-> FALSE]}
  /\ calls' = [calls EXCEPT ![k] = @ + 1]
  /\ UNCHANGED <<session, lease, offered, actions, direct, checkpoints, pc, phase, todo,
                 held>>

\* The response still belongs to the dispatch it answers.
OwnsDispatch(f) ==
  /\ ~f.cancelled
  /\ Authorized(f.key)
  /\ Fenced(f.runner)
  /\ revision = f.key.revision
  /\ status = "running"
  /\ work[f.key].status = "dispatching"

\* The agent answered: response and continuation are saved together.
InvokeReturns(f, payload) ==
  /\ OwnsDispatch(f)
  /\ members' = [members EXCEPT ![f.key.participant].continuation = f.key]
  /\ work' = [work EXCEPT ![f.key] = [status |-> "responded", response |-> payload]]
  /\ flights' = flights \ {f}
  /\ job' = [job EXCEPT ![f.runner][f.key.participant] =
               [pc |-> "replied", key |-> f.key, payload |-> payload]]
  /\ UNCHANGED <<status, revision, closed, lease, offered, actions, direct, checkpoints,
                 pc, phase, todo, held, calls>>

\* Fault: whatever became of the work meanwhile is overwritten.
Abandoned_Always(k) == [work[k] EXCEPT !.status = "unknown"]

\* Work still marked as dispatched becomes ambiguous.
Abandoned(k) ==
  IF work[k].status = "dispatching" THEN [work[k] EXCEPT !.status = "unknown"] ELSE work[k]

\* The agent raised, or its response came too late to be recorded.  The
\* runner that waits for it, if one does, has nothing left to do but abort.
InvokeFails(f) ==
  /\ work' = [work EXCEPT ![f.key] = Abandoned(f.key)]
  /\ flights' = flights \ {f}
  /\ UNCHANGED <<session, lease, offered, actions, direct, checkpoints, runner, held, calls>>

\* The reasons for which submit blocks an action, all absent.
Acceptable(k, payload) ==
  /\ status = "running"
  /\ revision = k.revision
  /\ ~closed
  /\ payload \in WellFormed
  /\ k.participant \notin Decided

\* What submit makes of a response; a used identifier keeps its receipt.
Receipt(k, payload) ==
  IF actions[k].status # "none" THEN actions[k]
  ELSE [status |-> IF Acceptable(k, payload) THEN "accepted" ELSE "blocked",
        payload |-> payload]

Submit(t, p) ==
  LET k == job[t][p].key
      receipt == Receipt(k, job[t][p].payload)
  IN
  /\ Driving(t)
  /\ job[t][p].pc = "replied"
  /\ Authorized(k)
  /\ actions' = [actions EXCEPT ![k] = receipt]
  /\ IF receipt.status = "blocked" THEN Ends(t)
     ELSE /\ job' = [job EXCEPT ![t][p] = NoJob]
          /\ UNCHANGED <<pc, phase, todo, flights>>
  /\ UNCHANGED <<session, lease, offered, work, direct, checkpoints, held, calls>>
------------------------------------------------------------------------------
(***************************************************************************)
(* The end of an iteration.                                                *)
(***************************************************************************)
Gathered(t) == Driving(t) /\ job[t] = NoJobs

ClosePhase(t) ==
  /\ Gathered(t)
  /\ PhaseDeadline = "coordinator"
  /\ Fenced(t)
  /\ status = "running"
  /\ revision = phase[t]
  /\ closed' = TRUE
  /\ Goes(t, "resolve")
  /\ UNCHANGED <<status, revision, members, lease, journals, checkpoints, phase, todo, job,
                 held, agents>>

\* resolve, whose three transactions commit a phase as if at once (Session).
Resolve(t) ==
  /\ IF PhaseDeadline = "coordinator" THEN pc[t] = "resolve" /\ closed ELSE Gathered(t)
  /\ Fenced(t)
  /\ status = "running"
  /\ Active \subseteq Decided \/ (closed /\ MissingAction = "noop")
  /\ revision' = revision + 1
  /\ status' \in IF revision' >= MaxTurns THEN {"completed"} ELSE {"running", "completed"}
  /\ closed' = FALSE
  /\ direct' = {}
  /\ actions' = [k \in Keys |-> IF k.revision = revision /\ actions[k].status = "accepted"
                                  THEN [actions[k] EXCEPT !.status = "committed"]
                                  ELSE actions[k]]
  /\ Ends(t)
  /\ UNCHANGED <<members, lease, offered, work, checkpoints, held, calls>>

\* An exception: a lost lease, the phase timeout, a refused or failed step.
Abort(t) ==
  /\ pc[t] \in {"read", "drive", "resolve"}
  /\ Ends(t)
  /\ UNCHANGED <<session, lease, journals, checkpoints, held, calls>>

\* The lease could not be had: another owner holds it, or the store failed.
Refused(t) ==
  /\ pc[t] = "lease"
  /\ Goes(t, "idle")
  /\ Clears(t)
  /\ UNCHANGED <<session, lease, journals, checkpoints, held, agents>>

Release(t) ==
  /\ pc[t] = "ending"
  /\ owner' = IF Fenced(t) THEN Nobody ELSE owner
  /\ Goes(t, "idle")
  /\ held' = [held EXCEPT ![t] = 0]
  /\ UNCHANGED <<session, epoch, journals, checkpoints, phase, todo, job, agents>>

\* The process dies, and every agent call it was waiting for with it.
Crash(t) ==
  /\ pc[t] # "idle"
  /\ Goes(t, "idle")
  /\ Clears(t)
  /\ held' = [held EXCEPT ![t] = 0]
  /\ flights' = {f \in flights : f.runner # t}
  /\ UNCHANGED <<session, lease, journals, checkpoints, calls>>

LeaseExpires ==
  /\ owner # Nobody
  /\ owner' = Nobody
  /\ UNCHANGED <<session, epoch, journals, checkpoints, runner, held, agents>>

\* The phase is over: its wall-clock deadline passes, or another caller that
\* carries the lease closes it.
DeadlineElapses ==
  /\ PhaseDeadline = "wall" \/ (owner # Nobody /\ status = "running")
  /\ ~closed
  /\ closed' = TRUE
  /\ UNCHANGED <<status, revision, members, lease, journals, checkpoints, runner, held,
                 agents>>
------------------------------------------------------------------------------
(***************************************************************************)
(* Participants that act for themselves, and operators.                    *)
(***************************************************************************)
Observe(p) ==
  /\ p \in Independent
  /\ members[p].active
  /\ KeyOf(p) \in Keys
  /\ offered' = Delivered(KeyOf(p))
  /\ UNCHANGED <<session, lease, work, actions, direct, checkpoints, runner, held, agents>>

\* A decision accepted under an identifier of the participant's own.
Decide(p) ==
  /\ p \in Independent
  /\ members[p].active
  /\ status = "running"
  /\ ~closed
  /\ offered[KeyOf(p)] # "none"
  /\ p \notin Decided
  /\ direct' = direct \cup {p}
  /\ UNCHANGED <<session, lease, offered, work, actions, checkpoints, runner, held, agents>>

\* A participant, or the program that acts for it, saves memory and a
\* continuation of its own, with no lease and also while it is being called; r
\* is the revision its journal was loaded at (agent_state.py), or the present
\* one when it names none.
Memory(p, r) ==
  /\ members[p].active
  /\ status = "running"
  /\ r = revision
  /\ members' = [members EXCEPT ![p].continuation =
       [participant |-> p, revision |-> r, generation |-> members[p].generation]]
  /\ UNCHANGED <<status, revision, closed, lease, journals, checkpoints, runner, held, agents>>

\* An operator's command, under a lease of its own that it gives back.
UnderOwnLease ==
  /\ owner = Nobody
  /\ epoch' = epoch + 1
  /\ epoch' <= MaxEpoch
  /\ UNCHANGED owner

Pause ==
  /\ UnderOwnLease
  /\ status = "running"
  /\ status' = "paused"
  /\ UNCHANGED <<revision, members, closed, journals, checkpoints, runner, held, agents>>

Resume ==
  /\ UnderOwnLease
  /\ status = "paused"
  /\ status' = "running"
  /\ UNCHANGED <<revision, members, closed, journals, checkpoints, runner, held, agents>>

Transfer(p, stays) ==
  /\ UnderOwnLease
  /\ Decided = {}
  /\ ~stays => \E q, r \in Active : q # r
  /\ members[p].generation < MaxGeneration
  /\ members' = [members EXCEPT ![p].active = stays, ![p].generation = @ + 1]
  /\ UNCHANGED <<status, revision, closed, journals, checkpoints, runner, held, agents>>

\* Fault: work of a phase that is over is recovered.
Recoverable_AnyPhase(k) ==
  /\ work[k].status \in {"dispatching", "unknown"}
  /\ Authorized(k)

\* Fault: work is recovered that already has its response.
Recoverable_Again(k) ==
  /\ k.revision = revision
  /\ work[k].status \in {"dispatching", "unknown", "responded"}
  /\ Authorized(k)

\* What reconcile_agent accepts: ambiguous work of the open phase and of its
\* present controller.
Recoverable(k) ==
  /\ k.revision = revision
  /\ work[k].status \in {"dispatching", "unknown"}
  /\ Authorized(k)

ReconcileAgent(k, payload) ==
  /\ UnderOwnLease
  /\ payload \in WellFormed
  /\ Recoverable(k)
  /\ members' = IF status \in {"running", "paused"}
                  THEN [members EXCEPT ![k.participant].continuation = k]
                  ELSE members
  /\ work' = [work EXCEPT ![k] = [status |-> "responded", response |-> payload]]
  /\ UNCHANGED <<status, revision, closed, offered, actions, direct, checkpoints, runner, held,
                 agents>>

\* Fault: only work in flight stands in the way of a checkpoint.
Unfinished_InFlight(k) == work[k].status \in {"prepared", "dispatching", "unknown"}

\* Unresolved work, and responses of the open phase.
Unfinished(k) ==
  \/ work[k].status \in {"prepared", "dispatching", "unknown"}
  \/ k.revision = revision /\ work[k].status = "responded"

Checkpoint ==
  /\ UnderOwnLease
  /\ \A k \in Keys : ~Unfinished(k)
  /\ checkpoints < MaxCheckpoints
  /\ checkpoints' = checkpoints + 1
  /\ UNCHANGED <<session, journals, runner, held, agents>>

\* Fault: cancellation leaves dispatched work to its runner.
Withdrawn_Prepared(k) ==
  IF work[k].status = "prepared" THEN [work[k] EXCEPT !.status = "failed"] ELSE work[k]

\* Prepared work fails, dispatched work becomes ambiguous.
Withdrawn(k) ==
  CASE work[k].status = "prepared" -> [work[k] EXCEPT !.status = "failed"]
    [] OTHER -> Abandoned(k)

\* Needs no lease, and revokes the one there is.
Cancel ==
  /\ status \in {"running", "paused"}
  /\ epoch < MaxEpoch
  /\ status' = "cancelled"
  /\ owner' = Nobody
  /\ epoch' = epoch + 1
  /\ work' = [k \in Keys |-> Withdrawn(k)]
  /\ UNCHANGED <<revision, members, closed, offered, actions, direct, checkpoints, runner, held,
                 agents>>
------------------------------------------------------------------------------
RunnerStep(t) ==
  \/ Begin(t)
  \/ Acquire(t)
  \/ Refused(t)
  \/ ReadPhase(t)
  \/ \E p \in Participants : Look(t, p) \/ Prepare(t, p) \/ InvokeStart(t, p) \/ Submit(t, p)
  \/ ClosePhase(t)
  \/ Resolve(t)
  \/ Abort(t)
  \/ Release(t)
  \/ Crash(t)

AgentStep ==
  \E f \in flights : InvokeFails(f) \/ \E payload \in Payloads : InvokeReturns(f, payload)

Operator ==
  \/ Pause
  \/ Resume
  \/ \E p \in Participants, stays \in BOOLEAN : Transfer(p, stays)
  \/ \E k \in Keys, payload \in Payloads : ReconcileAgent(k, payload)
  \/ Checkpoint
  \/ Cancel

Next ==
  \/ \E t \in Runners : RunnerStep(t)
  \/ AgentStep
  \/ \E p \in Participants : Observe(p) \/ Decide(p)
  \/ \E p \in Participants, r \in Saving : Memory(p, r)
  \/ Operator
  \/ LeaseExpires
  \/ DeadlineElapses

Spec == Init /\ [][Next]_vars
------------------------------------------------------------------------------
(***************************************************************************)
(* Properties.                                                             *)
(***************************************************************************)
\* No agent is called twice for the same decision, however often its runner
\* crashes, restarts or shares its lease: calls cost money and have effects.
AgentCalledOnce == \A k \in Keys : calls[k] <= 1

\* The journal implements the ledger of invocations: a response, given or
\* recovered, is recorded once, never replaced, and what is submitted for it.
Invocation == INSTANCE InvocationLedger
                WITH Invocations <- Keys, Responses <- Payloads,
                     asked <- {k \in Keys : calls[k] > 0},
                     answers <- [k \in Keys |-> work[k].response],
                     decided <- [k \in Keys |-> actions[k].payload]

\* Every response and every submission of the runners, of late invocations
\* and of recovery is a step of that ledger.
ImplementsInvocations == Invocation!Spec

Older(j, k) ==
  j.revision < k.revision \/ (j.revision = k.revision /\ j.generation < k.generation)

\* What an agent continues from, by its journal: once a response of its own is
\* recorded there is a continuation, and none of the responses is newer.
ContinuationIsLatest ==
  status # "cancelled" =>
    \A k \in Keys : work[k].status = "responded" =>
      /\ members[k.participant].continuation \in Keys
      /\ ~Older(members[k.participant].continuation, k)

\* A step leaves every continuation where it is or takes it on.
ContinuationMovesOn ==
  \A p \in Participants :
    members[p].continuation \in Keys =>
      /\ members'[p].continuation \in Keys
      /\ ~Older(members'[p].continuation, members[p].continuation)

\* While a session lives, the continuation of an agent never goes back, neither
\* behind a response recorded for it nor behind a state it saved itself:
\* responses that are late, recovered, or of a replaced controller, and
\* journals of an earlier phase, arrive in any order and do not rewind it.
ContinuationNeverRewinds == [][ContinuationIsLatest' /\ ContinuationMovesOn]_vars

\* A checkpoint is taken when every agent call has been answered and belongs
\* to a phase already decided: a branch repeats no call and loses no decision.
CheckpointsLoseNoDecision ==
  [][(checkpoints' # checkpoints) =>
       \A k \in Keys : calls[k] > 0 =>
         k.revision < revision /\ work[k].status = "responded"]_vars

\* After a cancellation no agent is called, and what was called and not
\* answered is reported as unresolved.
CancelledWorkIsResolvedOrReported ==
  status = "cancelled" =>
    \A k \in Keys : calls[k] > 0 => work[k].status \in {"unknown", "responded"}

\* coordinated-sessions.md: "A restarted runner reuses accepted actions and
\* saved responses."  A saved response that fits the open phase is usable.
SavedResponsesStayUsable ==
  \A p \in Participants :
    LET k == KeyOf(p)
    IN /\ status = "running" /\ ~closed /\ p \in Active \ Decided
       /\ k \in Keys
       /\ work[k].response \in WellFormed
       => actions[k].status # "blocked"
==============================================================================
