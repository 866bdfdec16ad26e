------------------------------ MODULE Scheduler ------------------------------
(***************************************************************************)
(* The durable local scheduler (harness.py EnvironmentHarness): sessions   *)
(* are rows of session_runs, the process only holds a queue and a bounded  *)
(* pool of workers over them.  An action is one database transaction or    *)
(* one section under the harness lock; workers, callers and the loss of    *)
(* the process interleave between them.                                    *)
(***************************************************************************)
EXTENDS Integers, FiniteSets, Sequences, SequencesExt

CONSTANTS
  Experiments,    \* experiments a caller may start
  Trials,         \* Trials[e]: the sessions of experiment e, in creation order
  Standalone,     \* sessions started on their own
  Origin,         \* Origin[s]: the session whose branch s may become
  Slots,          \* worker threads: max_concurrency of them
  Callers,        \* threads calling start, stop and resume
  MaxSessions,    \* max_sessions: queued and running rows admitted
  Failures,       \* what a session runner may raise: "failed", "interrupted"
  MaxDisturbances,  \* bound: stops, explicit resumes, branches and process losses
  MaxOfAKind,     \* bound: stops, process losses, resumes of a session
  None            \* no value

VARIABLES
  \* durable rows
  run,            \* session_runs.status, "none" before the row exists
  experiment,     \* the aggregate columns of an experiments row
  environment,    \* environments.status, "none" before the row exists
  \* the process
  up, accepting,  \* the process runs; its executor accepts submissions
  configured,     \* a supplied factory reproduces the frozen reference
  jobs, pending, served, future,
  worker,         \* what each worker thread executes
  call,           \* what each caller is in the middle of
  \* history and bounds
  starts,         \* executions begun, per session
  resumes, stops, losses

rows == <<run, experiment, environment>>
process == <<up, accepting, configured>>
queue == <<jobs, pending, served, future, worker>>
history == <<starts, resumes, stops, losses>>
vars == <<rows, process, queue, call, history>>
------------------------------------------------------------------------------
Children == DOMAIN Origin
SessionsOf == [e \in Experiments |->
  Range(Trials[e]) \cup {s \in Children : Origin[s] \in Range(Trials[e])}]
Sessions == Standalone \cup Children \cup UNION {SessionsOf[e] : e \in Experiments}
GroupOf == [s \in Sessions |->
  IF \E e \in Experiments : s \in SessionsOf[e]
  THEN CHOOSE e \in Experiments : s \in SessionsOf[e] ELSE s]
Groups == {GroupOf[s] : s \in Sessions}

ASSUME SlotsAssumption == IsFiniteSet(Slots) /\ Slots # {}
ASSUME FailuresAssumption == Failures \subseteq {"failed", "interrupted"}
ASSUME SessionsAssumption == IsFiniteSet(Sessions) /\ None \notin Sessions
ASSUME TrialsAssumption ==
  /\ Trials \in [Experiments -> Seq(Sessions)]
  /\ \A e, f \in Experiments : e # f => SessionsOf[e] \cap SessionsOf[f] = {}
  /\ \A e \in Experiments : SessionsOf[e] \cap Standalone = {} /\ IsInjective(Trials[e])
  /\ Range(Origin) \subseteq Standalone \cup UNION {Range(Trials[e]) : e \in Experiments}
  /\ Children \cap (Standalone \cup UNION {Range(Trials[e]) : e \in Experiments}) = {}

Terminal == {"succeeded", "failed", "stopped", "interrupted", "blocked"}
Statuses == {"none", "queued", "running"} \cup Terminal

Counted(r, e, statuses) == Cardinality({s \in SessionsOf[e] : r[s] \in statuses})
Some(r, e, status) == \E s \in SessionsOf[e] : r[s] = status

\* The aggregate of an experiment's rows: the first status that applies.
Aggregate(r, e) ==
  LET precedence == <<"running", "queued", "blocked", "interrupted", "stopped", "failed">>
      rank == SelectInSeq(precedence, LAMBDA status : Some(r, e, status))
  IN  [status |-> IF rank = 0 THEN "succeeded" ELSE precedence[rank],
       completed |-> Counted(r, e, Terminal),
       running |-> Counted(r, e, {"running"}),
       queued |-> Counted(r, e, {"queued"}),
       failed |-> Counted(r, e, {"failed"})]

\* One transaction: the rows become r, touched experiments are recounted.
Write(r) ==
  /\ run' = r
  /\ experiment' = [e \in Experiments |->
       IF \E s \in SessionsOf[e] : r[s] # run[s] THEN Aggregate(r, e) ELSE experiment[e]]
SetStatus(s, status) ==
  /\ run' = [run EXCEPT ![s] = status]
  /\ experiment' = [e \in Experiments |->
       IF s \in SessionsOf[e] THEN Aggregate(run', e) ELSE experiment[e]]
------------------------------------------------------------------------------
(* The queue: FIFO lists per group, least-served group first. *)

Idle == [session |-> None, at |-> "idle", outcome |-> None]
Queue == [pending |-> pending, served |-> served, future |-> future, worker |-> worker]

IsPending(q, s) == \E i \in DOMAIN q.pending : s \in Range(q.pending[i].jobs)

\* Groups keep their insertion order; an emptied group is forgotten.
Add(p, s) ==
  LET at == SelectInSeq(p, LAMBDA entry : entry.group = GroupOf[s])
  IN  IF at = 0 THEN Append(p, [group |-> GroupOf[s], jobs |-> <<s>>])
      ELSE [p EXCEPT ![at].jobs = Append(@, s)]
\* The k-th job of the i-th group leaves.
Drop(p, i, k) ==
  LET left == RemoveAt(p[i].jobs, k)
  IN  IF left = <<>> THEN RemoveAt(p, i) ELSE [p EXCEPT ![i].jobs = left]

LeastServed(q) ==
  CHOOSE i \in DOMAIN q.pending : \A j \in DOMAIN q.pending :
    LET a == q.served[q.pending[i].group]
        b == q.served[q.pending[j].group]
    IN  a < b \/ (a = b /\ i <= j)

\* Mutant: a job whose submission is rejected is not put back.
Launch_DropsRejected(q, slot) ==
  IF q.worker[slot] # Idle \/ q.pending = <<>> THEN q
  ELSE IF ~accepting THEN [q EXCEPT !.pending = Drop(@, LeastServed(q), 1)]
  ELSE LET entry == q.pending[LeastServed(q)]
           s == Head(entry.jobs)
       IN  [q EXCEPT !.pending = Drop(@, LeastServed(q), 1),
                     !.served[entry.group] = @ + 1,
                     !.worker[slot] = [session |-> s, at |-> "launched", outcome |-> None]]
\* An idle slot takes the next job; a shut executor rejects the submission,
\* which puts the job back where it was.
Launch(q, slot) ==
  IF q.worker[slot] # Idle \/ q.pending = <<>> \/ ~accepting THEN q
  ELSE LET entry == q.pending[LeastServed(q)]
           s == Head(entry.jobs)
       IN  [q EXCEPT !.pending = Drop(@, LeastServed(q), 1),
                     !.served[entry.group] = @ + 1,
                     !.worker[slot] = [session |-> s, at |-> "launched", outcome |-> None]]
SlotOrder == SetToSeq(Slots)
Launched(q) == FoldLeft(Launch, q, SlotOrder)
Schedule(q, s) ==
  Launched([q EXCEPT !.pending = Add(@, s), !.future[s] = "open"])

Queued(q) ==
  /\ pending' = q.pending /\ served' = q.served
  /\ future' = q.future /\ worker' = q.worker
------------------------------------------------------------------------------
Free == [op |-> "none"]
Branches == {s \in Children : environment[s] # "none"}
Disturbances == stops + losses + FoldFunction(+, 0, resumes) + Cardinality(Branches)
MayDisturb(kind) == kind < MaxOfAKind /\ Disturbances < MaxDisturbances

Init ==
  /\ run = [s \in Sessions |-> "none"]
  /\ experiment = [e \in Experiments |-> None]
  /\ environment = [s \in Sessions |-> "none"]
  /\ up = TRUE /\ accepting = TRUE /\ configured = TRUE
  /\ jobs = {} /\ pending = <<>> /\ served = [g \in Groups |-> 0]
  /\ future = [s \in Sessions |-> "none"]
  /\ worker = [w \in Slots |-> Idle]
  /\ call = [c \in Callers |-> Free]
  /\ starts = [s \in Sessions |-> 0] /\ resumes = [s \in Sessions |-> 0]
  /\ stops = 0 /\ losses = 0

Active == Cardinality({s \in Sessions : run[s] \in {"queued", "running"}})

\* The transaction that commits the queued rows of a start.
Commit(c, sessions) ==
  /\ up /\ configured /\ call[c] = Free
  /\ \A s \in Range(sessions) : run[s] = "none"
  /\ Active + Len(sessions) <= MaxSessions
  /\ Write([s \in Sessions |-> IF s \in Range(sessions) THEN "queued" ELSE run[s]])
  /\ call' = [call EXCEPT ![c] = [op |-> "schedule", sessions |-> sessions]]
  /\ UNCHANGED <<environment, process, queue, history>>
Reserve(c, s) == s \in Standalone /\ Commit(c, <<s>>)
StartExperiment(c, e) == Commit(c, Trials[e])

\* Mutant: a session is resumed whatever it is doing.
Resume_Running(c, s) ==
  /\ up /\ call[c] = Free
  /\ run[s] # "none" /\ MayDisturb(resumes[s])
  /\ SetStatus(s, "queued")
  /\ resumes' = [resumes EXCEPT ![s] = @ + 1]
  /\ call' = [call EXCEPT ![c] = [op |-> "schedule", sessions |-> <<s>>]]
  /\ UNCHANGED <<environment, process, queue, starts, stops, losses>>
\* Explicit resume of an interrupted or a blocked session.
Resume(c, s) ==
  /\ up /\ call[c] = Free
  /\ run[s] \in {"interrupted", "blocked"} /\ MayDisturb(resumes[s])
  /\ SetStatus(s, "queued")
  /\ resumes' = [resumes EXCEPT ![s] = @ + 1]
  /\ call' = [call EXCEPT ![c] = [op |-> "schedule", sessions |-> <<s>>]]
  /\ UNCHANGED <<environment, process, queue, starts, stops, losses>>

\* Mutant: the job is queued without being recorded.
Deliver_JobUnrecorded(c) ==
  /\ call[c].op = "schedule"
  /\ Queued(FoldLeft(Schedule, Queue, call[c].sessions))
  /\ call' = [call EXCEPT ![c] = Free]
  /\ UNCHANGED <<rows, process, jobs, history>>
\* The section under the lock that follows either transaction.
Deliver(c) ==
  /\ call[c].op = "schedule"
  /\ jobs' = jobs \cup Range(call[c].sessions)
  /\ Queued(FoldLeft(Schedule, Queue, call[c].sessions))
  /\ call' = [call EXCEPT ![c] = Free]
  /\ UNCHANGED <<rows, process, history>>

\* stop: a job still pending is removed; otherwise the environment, when
\* it exists, is cancelled first and the row is written last.
StopPending(c, s) ==
  /\ up /\ call[c] = Free /\ MayDisturb(stops)
  /\ s \in jobs
  /\ \E i \in DOMAIN pending : \E k \in DOMAIN pending[i].jobs :
       pending[i].jobs[k] = s /\ pending' = Drop(pending, i, k)
  /\ future' = [future EXCEPT ![s] = "done"]
  /\ SetStatus(s, "stopped")
  /\ stops' = stops + 1
  /\ UNCHANGED <<environment, process, jobs, served, worker, call, starts, resumes, losses>>
StopLook(c, s) ==
  /\ up /\ call[c] = Free /\ MayDisturb(stops)
  /\ run[s] # "none" /\ ~(s \in jobs /\ IsPending(Queue, s))
  /\ stops' = stops + 1
  /\ call' = [call EXCEPT ![c] = [op |-> "stop", session |-> s, found |-> environment[s] # "none"]]
  /\ UNCHANGED <<rows, process, queue, starts, resumes, losses>>
StopCancel(c) ==
  /\ call[c].op = "stop" /\ call[c].found
  /\ IF configured /\ environment[call[c].session] \in {"running", "cancelled"}
     THEN /\ environment' = [environment EXCEPT ![call[c].session] = "cancelled"]
          /\ call' = [call EXCEPT ![c].found = FALSE]
     ELSE call' = [call EXCEPT ![c] = Free] /\ UNCHANGED environment
  /\ UNCHANGED <<run, experiment, process, queue, history>>
StopWrite(c) ==
  /\ call[c].op = "stop" /\ ~call[c].found
  /\ SetStatus(call[c].session, "stopped")
  /\ call' = [call EXCEPT ![c] = Free]
  /\ UNCHANGED <<environment, process, queue, history>>

\* A branch from any checkpoint of its origin, which may have been running
\* then: the row of the child starts as interrupted.
Register(c, s) ==
  /\ up /\ configured /\ call[c] = Free /\ MayDisturb(0)
  /\ environment[Origin[s]] # "none" /\ environment[s] = "none"
  /\ run' = [run EXCEPT ![s] = "interrupted"]
  /\ \E saved \in {"running", environment[Origin[s]]} :
       environment' = [environment EXCEPT ![s] = saved]
\* The harness recounts the experiment in a transaction of its own, also
\* when a request with the same key finds its child; the HTTP route does not.
Branch(c, s) ==
  /\ \/ Register(c, s)
     \/ /\ up /\ configured /\ call[c] = Free /\ s \in Branches
        /\ UNCHANGED <<run, environment>>
  /\ call' = [call EXCEPT ![c] = [op |-> "refresh", session |-> s]]
  /\ UNCHANGED <<experiment, process, queue, history>>
BranchOverHttp(c, s) ==
  Register(c, s) /\ UNCHANGED <<experiment, process, queue, call, history>>
Refresh(c) ==
  /\ call[c].op = "refresh"
  /\ SetStatus(call[c].session, run[call[c].session])
  /\ call' = [call EXCEPT ![c] = Free]
  /\ UNCHANGED <<environment, process, queue, history>>
------------------------------------------------------------------------------
(* A worker executes one job (_execute); each step is one transaction. *)

At(w, step) == worker[w].at = step
Moves(w, step) == worker' = [worker EXCEPT ![w].at = step]
Ends(w) == worker' = [worker EXCEPT ![w].at = "finish", ![w].outcome = None]
Raises(w, outcome) == worker' = [worker EXCEPT ![w].at = "raised", ![w].outcome = outcome]
QueueKept == UNCHANGED <<jobs, pending, served, future>>

Block(w) ==
  /\ At(w, "launched") /\ ~configured
  /\ SetStatus(worker[w].session, "blocked")
  /\ Ends(w)
  /\ UNCHANGED <<environment, process, call, history>> /\ QueueKept

\* The factory, the agents or the frozen inputs are rejected before the start.
Reject(w) ==
  /\ At(w, "launched") /\ configured
  /\ Raises(w, "failed")
  /\ UNCHANGED <<rows, process, call, history>> /\ QueueKept

Begin(w) ==
  LET s == worker[w].session IN
  /\ At(w, "launched") /\ configured
  /\ SetStatus(s, "running")
  /\ starts' = [starts EXCEPT ![s] = @ + 1]
  /\ Moves(w, "create")
  /\ UNCHANGED <<environment, process, call, resumes, stops, losses>> /\ QueueKept

\* The environments row is created, or found and recovered.
Create(w) ==
  LET s == worker[w].session IN
  /\ At(w, "create")
  /\ environment' = [environment EXCEPT ![s] = IF @ = "none" THEN "running" ELSE @]
  /\ Moves(w, "run")
  /\ UNCHANGED <<run, experiment, process, call, history>> /\ QueueKept

\* The supplied environment terminates: the runtime's transaction completes
\* the session's row but recounts no experiment.
Complete(w) ==
  LET s == worker[w].session IN
  /\ At(w, "run") /\ environment[s] = "running"
  /\ environment' = [environment EXCEPT ![s] = "completed"]
  /\ run' = [run EXCEPT ![s] = IF @ = "running" THEN "succeeded" ELSE @]
  /\ UNCHANGED <<experiment, process, queue, call, history>>

\* The session runner returns, or raises.
Return(w) ==
  LET s == worker[w].session IN
  /\ At(w, "run")
  /\ worker' = [worker EXCEPT ![w].at = "final", ![w].outcome =
       IF environment[s] \in {"running", "completed"} THEN "succeeded" ELSE "stopped"]
  /\ UNCHANGED <<rows, process, call, history>> /\ QueueKept
Raise(w, outcome) ==
  /\ worker[w].at \in {"create", "run"}
  /\ Raises(w, outcome)
  /\ UNCHANGED <<rows, process, call, history>> /\ QueueKept

Settle(w) ==
  /\ worker[w].at \in {"final", "unwind"}
  /\ SetStatus(worker[w].session, worker[w].outcome)
  /\ Ends(w)
  /\ UNCHANGED <<environment, process, call, history>> /\ QueueKept

\* The handler reads the row in one transaction and writes it in another.
Handle(w) ==
  /\ At(w, "raised")
  /\ IF run[worker[w].session] = "stopped" THEN Ends(w) ELSE Moves(w, "unwind")
  /\ UNCHANGED <<rows, process, call, history>> /\ QueueKept

\* Mutant: the worker that becomes free is not given the next job.
Finish_LaunchesNothing(w) ==
  /\ At(w, "finish")
  /\ Queued([Queue EXCEPT !.future[worker[w].session] = "done",
                                   !.worker[w] = Idle])
  /\ UNCHANGED <<rows, process, jobs, call, history>>
\* The section under the lock that ends an execution.
Finish(w) ==
  /\ At(w, "finish")
  /\ Queued(Launched([Queue EXCEPT !.future[worker[w].session] = "done",
                                   !.worker[w] = Idle]))
  /\ UNCHANGED <<rows, process, jobs, call, history>>

Work(w) ==
  \/ Block(w) \/ Reject(w) \/ Begin(w) \/ Create(w) \/ Complete(w) \/ Return(w)
  \/ \E outcome \in Failures : Raise(w, outcome)
  \/ Handle(w) \/ Settle(w) \/ Finish(w)
------------------------------------------------------------------------------
(* The process: its exit first shuts the executor; a loss takes everything *)
(* it held; a start reconciles the rows before any caller is served.       *)

ShutDown ==
  /\ up /\ accepting /\ MayDisturb(losses)
  /\ accepting' = FALSE /\ losses' = losses + 1
  /\ UNCHANGED <<rows, up, configured, queue, call, starts, resumes, stops>>

Lose ==
  /\ up /\ (accepting => MayDisturb(losses))
  /\ up' = FALSE /\ losses' = IF accepting THEN losses + 1 ELSE losses
  /\ jobs' = {} /\ pending' = <<>> /\ served' = [g \in Groups |-> 0]
  /\ future' = [s \in Sessions |-> "none"] /\ worker' = [w \in Slots |-> Idle]
  /\ call' = [c \in Callers |-> Free]
  /\ accepting' = TRUE
  /\ UNCHANGED <<rows, configured, starts, resumes, stops>>

\* Mutant: running rows are work for the next process.
Corrected_Requeued == [s \in Sessions |-> IF run[s] = "running" THEN "queued" ELSE run[s]]
\* Reconciliation: running rows were orphaned by the loss, queued rows are
\* work.  Every experiment with such a row is recounted.
Corrected == [s \in Sessions |-> IF run[s] = "running" THEN "interrupted" ELSE run[s]]
\* Mutant: experiments are recounted before their rows are corrected.
Reconcile_CountsBefore ==
  LET found == {s \in Sessions : run[s] \in {"queued", "running"}}
  IN  /\ run' = Corrected
      /\ experiment' = [e \in Experiments |->
           IF found \cap SessionsOf[e] # {} THEN Aggregate(run, e) ELSE experiment[e]]
Reconcile ==
  LET found == {s \in Sessions : run[s] \in {"queued", "running"}}
  IN  /\ run' = Corrected
      /\ experiment' = [e \in Experiments |->
           IF found \cap SessionsOf[e] # {} THEN Aggregate(run', e) ELSE experiment[e]]

Restart(found) ==
  /\ ~up /\ up' = TRUE
  /\ configured' = found
  /\ Reconcile
  /\ \E work \in SetToSeqs({s \in Sessions : run'[s] = "queued"}) :
       jobs' = Range(work) /\ Queued(FoldLeft(Schedule, Queue, work))
  /\ UNCHANGED <<environment, accepting, call, history>>

Next ==
  \/ \E c \in Callers :
       \/ \E e \in Experiments : StartExperiment(c, e)
       \/ \E s \in Sessions :
            Reserve(c, s) \/ Resume(c, s) \/ StopPending(c, s) \/ StopLook(c, s)
       \/ \E s \in Children : Branch(c, s) \/ BranchOverHttp(c, s)
       \/ Deliver(c) \/ StopCancel(c) \/ StopWrite(c) \/ Refresh(c)
  \/ \E w \in Slots : Work(w)
  \/ ShutDown \/ Lose
  \/ \E found \in BOOLEAN : Restart(found)

\* Some worker runs while one can, and a session runner returns; a process whose
\* executor is shut exits, and is started again.  Nobody has to start,
\* stop or resume anything.
Fairness ==
  /\ WF_vars(\E c \in Callers : call[c] # Free /\
               (Deliver(c) \/ StopCancel(c) \/ StopWrite(c) \/ Refresh(c)))
  /\ WF_vars(\/ \E w \in Slots : worker[w] # Idle /\ Work(w)
             \/ ~accepting /\ Lose
             \/ \E found \in BOOLEAN : Restart(found))
Spec == Init /\ [][Next]_vars /\ Fairness
------------------------------------------------------------------------------
Counts(e) ==
  LET counts == 0..Cardinality(SessionsOf[e])
  IN  [status: Statuses, completed: counts, running: counts, queued: counts, failed: counts]

\* The shape of the rows, of the queue and of what each thread is in.
TypeOK ==
  /\ run \in [Sessions -> Statuses]
  /\ \A e \in Experiments : experiment[e] \in Counts(e) \cup {None}
  /\ environment \in [Sessions -> {"none", "running", "completed", "cancelled"}]
  /\ {up, accepting, configured} \subseteq BOOLEAN
  /\ jobs \subseteq Sessions
  /\ \A i \in DOMAIN pending : pending[i].group \in Groups /\ pending[i].jobs # <<>>
  /\ future \in [Sessions -> {"none", "open", "done"}]
  /\ \A s \in Sessions : IsPending(Queue, s) => s \in jobs /\ future[s] # "none"
  /\ \A w \in Slots : worker[w].session \in Sessions \cup {None}
  /\ \A c \in Callers : call[c].op \in {"none", "schedule", "stop", "refresh"}

Executing(w, s) == worker[w].session = s /\ ~At(w, "finish")
Delivering(s) == \E c \in Callers : call[c].op = "schedule" /\ s \in Range(call[c].sessions)

\* No row is forgotten while the process runs: a queued session is in the
\* queue, with a worker, or with the caller that is about to deliver it,
\* and a running one has the worker that will settle it, whatever stops,
\* resumes and losses came before (_schedule_locked, _stop, reconcile).
NoRowIsOrphaned ==
  up => \A s \in Sessions :
    /\ run[s] = "queued" =>
         IsPending(Queue, s) \/ Delivering(s) \/ \E w \in Slots : Executing(w, s)
    /\ run[s] = "running" => \E w \in Slots : Executing(w, s) /\ ~At(w, "launched")

\* A session is executed again only after an explicit resume, over every
\* process loss: an execution the lost process had begun is not repeated.  And
\* no two workers execute it at a time: a session resumed while its last
\* execution still completes its future is not that execution.  A branch is
\* not executed at all unless it is resumed (_register_child_session:
\* "branching never repeats an externally visible effect without explicit
\* caller intent").
NeverExecutedTwiceAutomatically ==
  /\ \A s \in Sessions : starts[s] <= resumes[s] + (IF s \in Children THEN 0 ELSE 1)
  /\ \A w, v \in Slots, s \in Sessions : w # v => ~(Executing(w, s) /\ Executing(v, s))

\* The experiment's columns count its rows, in the same transaction that
\* changes them; they lag only behind sessions whose completion the runtime
\* committed on its own (_sync_session_row), which they still count running,
\* and behind branches nobody has resumed or stopped, which they may not
\* count at all: those of the HTTP route, or of a call the process lost.
AggregateLagsOnlyCompletions ==
  \A e \in Experiments : experiment[e] # None =>
    \E late \in SUBSET {s \in SessionsOf[e] : run[s] = "succeeded" /\ environment[s] = "completed"},
       uncounted \in SUBSET {s \in SessionsOf[e] \cap Children : run[s] = "interrupted" /\ resumes[s] = 0} :
      experiment[e] = Aggregate([s \in Sessions |-> IF s \in late THEN "running"
                                   ELSE IF s \in uncounted THEN "none" ELSE run[s]], e)

\* Once no more is asked, every queued session has been executed, blocked or
\* stopped and every future a caller may wait on is completed, although the
\* process is lost between a transaction and the delivery that follows it.
EveryJobIsServed == []<>(\A s \in Sessions : run[s] # "queued" /\ future[s] # "open")

\* A stopped session stays stopped (test_harness.py
\* test_stopping_a_running_environment_session_is_terminal).
StoppedIsTerminal == [][\A s \in Sessions : run[s] = "stopped" => run'[s] = "stopped"]_vars
==============================================================================
