------------------------------- MODULE Session -------------------------------
(***************************************************************************)
(* The core of one environment session (runtime.py _SessionRuntime): the   *)
(* decision phases that participants act in, the writer lease that fences  *)
(* whoever advances them, and the three-transaction resolution of a phase. *)
(* An action is one database transaction; everything the runtime does      *)
(* between two transactions may be interrupted, overtaken or lost.         *)
(***************************************************************************)
EXTENDS Integers, FiniteSets

CONSTANTS
  Participants,   \* the frozen participant roster
  Owners, Nobody, \* lease owner strings and the NULL owner
  Threads,        \* callers of the fenced commands
  OwnerOf,        \* OwnerOf[t]: the owner string t presents
  OpIds,          \* operation identifiers of submitted actions
  Memories, NoMemory,  \* values of a participant's memory, the initial one
  Results,        \* outcomes the supplier's resolve may compute
  Scheduling,     \* "sequential", "simultaneous" or "event"
  PhaseDeadline,  \* "wall" or "coordinator"
  MissingAction,  \* "reject" or "noop"
  MaxTurns,       \* policy.max_turns
  MaxEpoch,       \* bound: lease grants considered
  MaxGeneration,  \* bound: authority transfers per participant
  MaxCursor,      \* bound: external events of the feed
  None            \* no value

ASSUME RosterAssumption == Participants # {}
ASSUME MemoryAssumption == NoMemory \in Memories
ASSUME OwnersAssumption == Nobody \notin Owners
ASSUME OwnerOfAssumption == OwnerOf \in [Threads -> Owners]
ASSUME TurnsAssumption == MaxTurns \in Nat \ {0}
ASSUME BoundsAssumption == MaxEpoch \in Nat /\ MaxGeneration \in Nat /\ MaxCursor \in Nat
ASSUME ModeAssumption ==
  /\ Scheduling \in {"sequential", "simultaneous", "event"}
  /\ PhaseDeadline \in {"wall", "coordinator"}
  /\ MissingAction \in {"reject", "noop"}
ASSUME ResultsAssumption ==
  /\ Results \subseteq [terminated: BOOLEAN, pending: BOOLEAN]
  /\ None \notin Results

VARIABLES
  \* the environments row
  status, revision, participants, scheduler, cursor,
  due,            \* whether the deadline of the scheduler column has passed
  owner, epoch, live,
  session_run,    \* status of the durable session_runs row
  \* journals
  observations, actions, transitions,
  ingested,       \* cursors of the feed.ingested events
  commits,        \* the transition.committed events
  \* volatile: lease tokens carried, resolutions in flight
  held, task

row == <<status, revision, participants, scheduler, cursor, due>>
lease == <<owner, epoch, live>>
journals == <<observations, actions, transitions, ingested, commits>>
vars == <<row, lease, session_run, journals, held, task>>
------------------------------------------------------------------------------
Member == [active: BOOLEAN, generation: Nat, memory: Memories]
Schedule == [actor: Participants, closed: BOOLEAN, events: SUBSET (1..MaxCursor)]

\* The frozen inputs of a transition.  State and RNG change only together
\* with the revision, which keys the transitions row next to the input; a
\* decision is named by the action that carries it.
Input == [participants: [Participants -> Member],
          scheduler: Schedule,
          decisions: [Participants -> SUBSET OpIds]]

ActionRow == [status: {"none", "blocked", "accepted", "committed"},
              participant: Participants \cup {None}, revision: Nat, generation: Nat]
NoAction == [status |-> "none", participant |-> None, revision |-> 0, generation |-> 0]

TransitionRow == [revision: Nat, input: Input, epoch: Nat,
                  status: {"computing", "failed", "computed", "committed"},
                  result: Results \cup {None}]

Observation == [participant: Participants, generation: Nat, revision: Nat]

Transition == [revision: Nat, epoch: Nat, input: Input, executed: SUBSET OpIds,
               result: Results]

Idle == [pc |-> "idle"]

Resolving == [pc: {"compute", "commit"}, phase: Nat, input: Input,
              submitted: SUBSET OpIds, result: Results \cup {None}]

Active == {p \in Participants : participants[p].active}

Required == IF Scheduling = "sequential" THEN {scheduler.actor} ELSE Active

Accepted == {o \in OpIds : actions[o].status = "accepted"}

\* The accepted actions of the open phase, as resolve selects them.
Submitted == {o \in Accepted : actions[o].revision = revision}

DecisionsOf(ops) ==
  [p \in Participants |-> {o \in ops : actions[o].participant = p}]

PhaseInput ==
  [participants |-> participants,
   scheduler    |-> scheduler,
   decisions    |-> [p \in Participants |->
                       IF p \in Required THEN DecisionsOf(Submitted)[p] ELSE {}]]

Missing == {p \in Required : DecisionsOf(Submitted)[p] = {}}

Expired == IF PhaseDeadline = "coordinator" THEN scheduler.closed ELSE due

\* The transitions row of an input, if there is one.
Intent(phase, input) == {x \in transitions : x.revision = phase /\ x.input = input}

\* Fault: an intent that is retried is inserted once more.
WithTransition_Inserted(x) == transitions \cup {x}

\* The row of an input is inserted, or updated where there is one.
WithTransition(x) == (transitions \ Intent(x.revision, x.input)) \cup {x}

IsIdle(t) == task[t].pc = "idle"

\* Fault: the fence compares the owner and forgets the epoch.
Fenced_AnyEpoch(t) == owner = OwnerOf[t] /\ live

\* _fence, for the lease token that t carries.
Fenced(t) == owner = OwnerOf[t] /\ epoch = held[t] /\ live
------------------------------------------------------------------------------
\* The columns have their types, and the journals the keys of their tables.
TypeOK ==
  /\ status \in {"running", "paused", "outcomes_pending", "completed", "cancelled"}
  /\ revision \in Nat
  /\ participants \in [Participants -> Member]
  /\ scheduler \in Schedule
  /\ cursor \in 0..MaxCursor
  /\ due \in BOOLEAN
  /\ owner \in Owners \cup {Nobody}
  /\ epoch \in Nat
  /\ live \in BOOLEAN
  /\ session_run \in {"running", "succeeded"}
  /\ actions \in [OpIds -> ActionRow]
  /\ transitions \subseteq TransitionRow
  /\ \A x, y \in transitions : x.revision = y.revision /\ x.input = y.input => x = y
  /\ observations \subseteq Observation
  /\ ingested \subseteq 1..MaxCursor
  /\ commits \subseteq Transition
  /\ held \in [Threads -> Nat]
  /\ task \in [Threads -> {Idle} \cup Resolving]
  /\ \A t \in Threads : task[t].pc = "commit" => task[t].result # None

Init ==
  /\ status = "running"
  /\ revision = 0
  /\ participants = [p \in Participants |->
                       [active |-> TRUE, generation |-> 0, memory |-> NoMemory]]
  /\ \E p \in Participants : scheduler = [actor |-> p, closed |-> FALSE, events |-> {}]
  /\ cursor = 0
  /\ due = FALSE
  /\ owner = Nobody /\ epoch = 0 /\ live = FALSE
  /\ session_run = "running"
  /\ observations = {}
  /\ actions = [o \in OpIds |-> NoAction]
  /\ transitions = {}
  /\ ingested = {}
  /\ commits = {}
  /\ held = [t \in Threads |-> 0]
  /\ task = [t \in Threads |-> Idle]
------------------------------------------------------------------------------
(***************************************************************************)
(* The writer lease (WriterLease models its clock).                        *)
(***************************************************************************)
\* The epoch moves unless the caller already owns an unexpired grant.
GrantedEpoch == IF live THEN epoch ELSE epoch + 1

Acquire(t) ==
  /\ IsIdle(t)
  /\ ~(live /\ owner # OwnerOf[t])
  /\ epoch' = GrantedEpoch
  /\ epoch' <= MaxEpoch
  /\ owner' = OwnerOf[t]
  /\ live' = TRUE
  /\ held' = [held EXCEPT ![t] = epoch']
  /\ UNCHANGED <<row, session_run, journals, task>>

Release(t) ==
  /\ IsIdle(t)
  /\ Fenced(t)
  /\ live' = FALSE
  /\ UNCHANGED <<row, owner, epoch, session_run, journals, held, task>>

\* lease_until passes: no heartbeat renewed it in time.
LeaseExpires ==
  /\ live
  /\ live' = FALSE
  /\ UNCHANGED <<row, owner, epoch, session_run, journals, held, task>>

\* The wall clock reaches the phase deadline.
DeadlineElapses ==
  /\ PhaseDeadline = "wall"
  /\ ~due
  /\ due' = TRUE
  /\ UNCHANGED <<status, revision, participants, scheduler, cursor, lease, session_run,
                 journals, held, task>>
------------------------------------------------------------------------------
(***************************************************************************)
(* Observations and decisions of participants.                             *)
(***************************************************************************)
\* An observation is delivered once per participant, authority and revision
\* and returned as it is from then on.  observe computes it between two
\* transactions and rechecks its inputs in the second: Observation models that.
Observe(p) ==
  /\ participants[p].active
  /\ ~\E ob \in observations : /\ ob.participant = p
                               /\ ob.generation = participants[p].generation
                               /\ ob.revision = revision
  /\ observations' = observations \cup
       {[participant |-> p, generation |-> participants[p].generation,
         revision |-> revision]}
  /\ UNCHANGED <<row, lease, session_run, actions, transitions, ingested, commits,
                 held, task>>

\* Fault: a decision counts as taken only once it was executed.
AlreadyDecided_Executed(p, phase) ==
  \E o \in OpIds : /\ actions[o].status = "committed"
                   /\ actions[o].participant = p
                   /\ actions[o].revision = phase

AlreadyDecided(p, phase) ==
  \E o \in OpIds : /\ actions[o].status \in {"accepted", "committed"}
                   /\ actions[o].participant = p
                   /\ actions[o].revision = phase

\* Fault: a phase stays open for decisions after its closure or deadline.
PhaseOpen_Always == TRUE

PhaseOpen == ~scheduler.closed /\ ~(PhaseDeadline = "wall" /\ due)

\* The reasons for which submit blocks an action, all absent.
Acceptable(p, phase) ==
  /\ status = "running"
  /\ revision = phase
  /\ Scheduling = "sequential" => scheduler.actor = p
  /\ PhaseOpen
  /\ ~AlreadyDecided(p, phase)

\* A fresh operation identifier; a used one returns its receipt unchanged.
\* A payload outside the action schema is blocked, too.
Submit(p, o) ==
  /\ participants[p].active
  /\ actions[o].status = "none"
  /\ \E ob \in observations, wellFormed \in BOOLEAN :
       /\ ob.participant = p
       /\ ob.generation = participants[p].generation
       /\ actions' = [actions EXCEPT ![o] =
            [status      |-> IF wellFormed /\ Acceptable(p, ob.revision)
                               THEN "accepted" ELSE "blocked",
             participant |-> p,
             revision    |-> ob.revision,
             generation  |-> ob.generation]]
  /\ UNCHANGED <<row, lease, session_run, observations, transitions, ingested, commits,
                 held, task>>

Memory(p, m) ==
  /\ participants[p].active
  /\ status = "running"
  /\ participants' = [participants EXCEPT ![p].memory = m]
  /\ UNCHANGED <<status, revision, scheduler, cursor, due, lease, session_run, journals,
                 held, task>>
------------------------------------------------------------------------------
(***************************************************************************)
(* Resolution of a phase: intent, computation, commit.                     *)
(***************************************************************************)
\* Fault: a computation in progress under the same lease is not noticed.
InProgress_Ignored(t) == FALSE

InProgress(t) ==
  \E x \in Intent(revision, PhaseInput) : x.status = "computing" /\ x.epoch = held[t]

\* First transaction of resolve: the phase is ready and its inputs are frozen
\* in a transitions row, unless an earlier intent has already been computed.
ResolveIntent(t) ==
  /\ IsIdle(t)
  /\ Fenced(t)
  /\ status = "running"
  /\ PhaseDeadline = "coordinator" => Expired
  /\ Scheduling = "event" => Expired \/ scheduler.events # {}
  /\ Missing = {} \/ (Expired /\ MissingAction = "noop")
  /\ ~InProgress(t)
  /\ LET computed == {x \in Intent(revision, PhaseInput) : x.status = "computed"}
     IN /\ transitions' =
             IF computed # {} THEN transitions
             ELSE WithTransition([revision |-> revision, input |-> PhaseInput,
                                  epoch |-> held[t], status |-> "computing",
                                  result |-> None])
        /\ \E r \in IF computed # {} THEN {x.result : x \in computed} ELSE {None} :
             task' = [task EXCEPT ![t] =
                        [pc |-> "compute", phase |-> revision, input |-> PhaseInput,
                         submitted |-> Submitted, result |-> r]]
  /\ UNCHANGED <<row, lease, session_run, observations, actions, ingested, commits,
                 held>>

\* Fault: only the revision and the status are compared again.
InputsUnchanged_Shallow(t) == revision = task[t].phase /\ status = "running"

\* The row still holds the inputs the computation started from.
InputsUnchanged(t) ==
  /\ revision = task[t].phase
  /\ status = "running"
  /\ participants = task[t].input.participants
  /\ scheduler = task[t].input.scheduler

\* Fault: the computed result is stored without asking for the lease.
MayRecord_Unfenced(t) == InputsUnchanged(t)

MayRecord(t) == Fenced(t) /\ InputsUnchanged(t)

\* Second transaction: the (pure) computation ended, or its recorded result
\* was reused; the result is stored with the intent.
ResolveComputed(t) ==
  /\ task[t].pc = "compute"
  /\ MayRecord(t)
  /\ \E r \in (IF task[t].result = None THEN Results ELSE {task[t].result}) :
       /\ transitions' =
            {IF x \in Intent(task[t].phase, task[t].input)
               THEN [x EXCEPT !.status = "computed", !.result = r] ELSE x :
             x \in transitions}
       /\ task' = [task EXCEPT ![t].pc = "commit", ![t].result = r]
  /\ UNCHANGED <<row, lease, session_run, observations, actions, ingested, commits,
                 held>>

\* The computation raised: its own intent, still computing, is given up.
ResolveFails(t) ==
  /\ task[t].pc = "compute"
  /\ transitions' =
       {IF /\ x \in Intent(task[t].phase, task[t].input)
           /\ x.epoch = held[t] /\ x.status = "computing"
          THEN [x EXCEPT !.status = "failed"] ELSE x :
        x \in transitions}
  /\ task' = [task EXCEPT ![t] = Idle]
  /\ UNCHANGED <<row, lease, session_run, observations, actions, ingested, commits,
                 held>>

\* Fault: the session outlives its turn budget by one phase.
Ends_OffByOne(r) == r.terminated \/ revision >= MaxTurns

\* The supplier ended the session, or its turn budget is spent.
Ends(r) == r.terminated \/ revision + 1 >= MaxTurns

\* Third transaction: everything the phase did becomes durable at once.
ResolveCommit(t) ==
  LET r == task[t].result
      ended == Ends(r)
  IN
  /\ task[t].pc = "commit"
  /\ Fenced(t)
  /\ InputsUnchanged(t)
  /\ revision' = revision + 1
  /\ status' = IF ended THEN IF r.pending THEN "outcomes_pending" ELSE "completed"
                        ELSE "running"
  /\ session_run' = IF status' = "completed" THEN "succeeded" ELSE session_run
  /\ commits' = commits \cup
       {[revision |-> revision', epoch |-> held[t], input |-> task[t].input,
         executed |-> task[t].submitted, result |-> r]}
  /\ actions' = [o \in OpIds |-> IF o \in task[t].submitted
                                   THEN [actions[o] EXCEPT !.status = "committed"]
                                   ELSE actions[o]]
  /\ \E next \in Active : scheduler' = [actor |-> next, closed |-> FALSE, events |-> {}]
  /\ due' = FALSE
  /\ transitions' =
       {IF x \in Intent(task[t].phase, task[t].input)
          THEN [x EXCEPT !.status = "committed"] ELSE x :
        x \in transitions}
  /\ task' = [task EXCEPT ![t] = Idle]
  /\ UNCHANGED <<participants, cursor, lease, observations, ingested, held>>

\* A resolution ends without trace: its process dies, a recheck of the second
\* or third transaction fails, or the commit rolls back on an invalid event
\* audience or next actor.
ResolveLost(t) ==
  /\ ~IsIdle(t)
  /\ task' = [task EXCEPT ![t] = Idle]
  /\ UNCHANGED <<row, lease, session_run, journals, held>>
------------------------------------------------------------------------------
(***************************************************************************)
(* Fenced and unfenced lifecycle commands.                                 *)
(***************************************************************************)
\* Closure is durable and idempotent; the caller names the open revision.
ClosePhase(t) ==
  /\ IsIdle(t)
  /\ Fenced(t)
  /\ PhaseDeadline = "coordinator"
  /\ status = "running"
  /\ ~scheduler.closed
  /\ scheduler' = [scheduler EXCEPT !.closed = TRUE]
  /\ UNCHANGED <<status, revision, participants, cursor, due, lease, session_run, journals,
                 held, task>>

\* Events of the feed queue up under increasing cursors, whatever the status
\* and the scheduling of the session.
ExternalEvent(t, c) ==
  /\ IsIdle(t)
  /\ Fenced(t)
  /\ c > cursor
  /\ cursor' = c
  /\ scheduler' = [scheduler EXCEPT !.events = @ \cup {c}]
  /\ ingested' = ingested \cup {c}
  /\ UNCHANGED <<status, revision, participants, due, lease, session_run, observations,
                 actions, transitions, commits, held, task>>

\* Fault: authority moves in the middle of a decision.
AtDecisionBoundary_Never == TRUE

AtDecisionBoundary == Accepted = {}

Transfer(t, p, active) ==
  /\ IsIdle(t)
  /\ Fenced(t)
  /\ AtDecisionBoundary
  /\ ~active => \E q, r \in Active : q # r
  /\ participants[p].generation < MaxGeneration
  /\ participants' = [participants EXCEPT ![p].active = active,
                                          ![p].generation = @ + 1]
  /\ \E next \in {q \in Participants : participants'[q].active} :
       /\ participants'[scheduler.actor].active => next = scheduler.actor
       /\ scheduler' = [scheduler EXCEPT !.actor = next]
  /\ UNCHANGED <<status, revision, cursor, due, lease, session_run, journals, held, task>>

Pause(t) ==
  /\ IsIdle(t)
  /\ Fenced(t)
  /\ status = "running"
  /\ status' = "paused"
  /\ UNCHANGED <<revision, participants, scheduler, cursor, due, lease, session_run,
                 journals, held, task>>

\* resume under a fenced lease, and resume_if_paused under its own.
Resume(t) ==
  /\ IsIdle(t)
  /\ Fenced(t)
  /\ status = "paused"
  /\ status' = "running"
  /\ UNCHANGED <<revision, participants, scheduler, cursor, due, lease, session_run,
                 journals, held, task>>

FinalizeOutcomes(t) ==
  /\ IsIdle(t)
  /\ Fenced(t)
  /\ status = "outcomes_pending"
  /\ status' = "completed"
  /\ UNCHANGED <<revision, participants, scheduler, cursor, due, lease, session_run,
                 journals, held, task>>

\* Fault: any session that has not been cancelled yet can be cancelled.
Cancellable_UnlessCancelled == status # "cancelled"

Cancellable == status \in {"running", "paused"}

Cancel ==
  /\ Cancellable
  /\ epoch < MaxEpoch
  /\ status' = "cancelled"
  /\ owner' = Nobody
  /\ epoch' = epoch + 1
  /\ live' = FALSE
  /\ UNCHANGED <<revision, participants, scheduler, cursor, due, session_run, journals,
                 held, task>>
------------------------------------------------------------------------------
Resolution(t) ==
  \/ ResolveIntent(t)
  \/ ResolveComputed(t)
  \/ ResolveFails(t)
  \/ ResolveCommit(t)
  \/ ResolveLost(t)

Command(t) ==
  \/ Acquire(t)
  \/ Release(t)
  \/ ClosePhase(t)
  \/ \E c \in 1..MaxCursor : ExternalEvent(t, c)
  \/ \E p \in Participants, active \in BOOLEAN : Transfer(t, p, active)
  \/ Pause(t)
  \/ Resume(t)
  \/ FinalizeOutcomes(t)

Participation ==
  \/ \E p \in Participants : Observe(p)
  \/ \E p \in Participants, o \in OpIds : Submit(p, o)
  \/ \E p \in Participants, m \in Memories : Memory(p, m)

Next ==
  \/ \E t \in Threads : Resolution(t) \/ Command(t)
  \/ Participation
  \/ Cancel
  \/ LeaseExpires
  \/ DeadlineElapses

Spec == Init /\ [][Next]_vars
------------------------------------------------------------------------------
(***************************************************************************)
(* Properties.                                                             *)
(***************************************************************************)
\* An accepted action belongs to the open phase and to a participant that is
\* still entitled to it: no acceptance is stranded behind a commit, a
\* transfer or a change of the selected actor (submit, transfer, resolve).
AcceptedActionsAreLive ==
  \A o \in Accepted :
    LET p == actions[o].participant
    IN /\ actions[o].revision = revision
       /\ participants[p].active
       /\ actions[o].generation = participants[p].generation
       /\ p \in Required

\* Every committed action was executed by exactly one transition, the one of
\* the phase it was submitted for, as the decision of its participant; and a
\* transition executed no action but those.
CommittedActionsExecuteOnce ==
  /\ \A o \in OpIds :
       actions[o].status = "committed" <=> \E c \in commits : o \in c.executed
  /\ \A c \in commits : \A o \in c.executed :
       /\ c.revision = actions[o].revision + 1
       /\ c.input.decisions[actions[o].participant] = {o}
  /\ \A c \in commits, p \in Participants : c.input.decisions[p] \subseteq c.executed

\* The history is a chain: one transition per revision, and no transition of
\* an overtaken resolver follows one of its successor.  A lease may lapse and
\* pass on between any two transactions of resolve, also to a caller of the
\* same owner string, and the fence of the last one is all that stops the old
\* resolver or a later resolution under its old token.
CommitsFollowEpochs ==
  /\ {c.revision : c \in commits} = 1..revision
  /\ \A c, d \in commits :
       /\ c.revision = d.revision => c = d
       /\ c.revision < d.revision => c.epoch <= d.epoch
  /\ \A c \in commits : c.epoch <= epoch

\* What was committed is what the journal recorded for these inputs, also when
\* several writers computed the same phase one after the other; and a feed
\* event is queued for the open phase or was handed to exactly one committed
\* transition: one that arrives while a transition is being computed is
\* neither dropped with the queue nor handed over twice.
CommitsAreExact ==
  /\ \A c \in commits :
       \E x \in transitions : /\ x.revision = c.revision - 1
                              /\ x.input = c.input
                              /\ x.status = "committed"
                              /\ x.result = c.result
  /\ ingested = scheduler.events \cup UNION {c.input.scheduler.events : c \in commits}
  /\ \A c \in commits : c.input.scheduler.events \cap scheduler.events = {}
  /\ \A c, d \in commits :
       c # d => c.input.scheduler.events \cap d.input.scheduler.events = {}

\* A phase is not computed twice at the same time under one lease, although
\* several threads may share it.
OneComputationPerLease ==
  \A s, t \in Threads :
    /\ task[s].pc = "compute" /\ task[t].pc = "compute"
    /\ task[s].phase = task[t].phase /\ task[s].input = task[t].input
    /\ task[s].result = None /\ task[t].result = None
    /\ held[s] = held[t] /\ OwnerOf[s] = OwnerOf[t]
    => s = t

\* An ended session is final: neither its status nor its history moves again.
EndedIsFinal ==
  [][(status \in {"completed", "cancelled"}) =>
       /\ status' = status
       /\ revision' = revision
       /\ commits' = commits]_vars

\* A transition only becomes history against the inputs it was computed from,
\* of a session that runs (resolve rechecks them in its last transaction).
CommitsAgainstFrozenInputs ==
  [][\A c \in commits' \ commits :
       /\ status = "running"
       /\ c.input.participants = participants
       /\ c.input.scheduler = scheduler
       /\ c.input.decisions = DecisionsOf(Accepted)]_vars

\* The session keeps within its turn budget.
WithinTurnBudget ==
  revision <= MaxTurns /\ (revision = MaxTurns => status # "running")

Mode == CASE status = "running" -> "open"
          [] status = "paused" -> "suspended"
          [] status = "outcomes_pending" -> "awaiting"
          [] OTHER -> "ended"

Ledger == INSTANCE PhaseLedger
            WITH mode <- Mode, phase <- revision, decided <- DecisionsOf(Accepted),
                 ledger <- {[phase |-> c.revision - 1, executed |-> c.input.decisions] :
                            c \in commits}

\* The whole runtime, with its leases, interrupted resolutions, transfers and
\* closures, shows its participants a plain ledger of decided phases.
ImplementsLedger == Ledger!Spec

\* The docstring of _sync_session_row: the durable Session row's terminal
\* state is kept current.
RunRowTracksCompletion == status = "completed" => session_run = "succeeded"
==============================================================================
