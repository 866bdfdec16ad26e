# A verification project for environment-harness

`environment-harness` runs agents against environments and keeps every
consequence: decisions, transitions, external effects and their costs are rows
of a transactional store, so that a run can be interrupted at any point,
resumed by another process, audited, branched and turned into training data.
The program is Python (`src/src/environment_harness/`); its correctness lives in
what may happen *between* two of its transactions. This directory holds TLA+
modules of that core, TLC configurations that check them on small instances, and
TLAPS proofs of the properties that matter most, for every value of the
constants.

Paths below are relative to the repository (`src/environment_harness/...` is the
package; `PROJECT.json` writes them with the checkout's directory `src/` in front).

## 1. Inventory

`_SessionRuntime` (`runtime.py`) is the centre: a *session* is one row of
`environments` plus the journals keyed by its identifier. Everything else calls
it or reads what it wrote. One `with store.transaction(...)` block
(`store.py` 228-239) is one atomic step; an `await`, a provider call or the end
of the block is where others may step in.

| Component | Files | State it keeps | Operations | Talks to |
|---|---|---|---|---|
| Writer lease and fencing | `runtime.py` 231-297, `runner.py` 35-59, `store.py` 244-264 | `owner`, `lease_until`, `epoch` of the session row | `lease`, `renew`, `release`, `_fence`, the heartbeat | every fenced command compares (owner, epoch) with the row |
| Session runtime: phases and resolution | `runtime.py` 46-230, 299-752, 887-935, 1414-1499 | session row: status, revision, participants, scheduler, cursor; `observations`, `actions`, `transitions`, events, `session_runs` | `create`, `observe`, `submit`, `memory`, `resolve`, `close_phase`, `external_event`, `transfer`, pause, resume, `finalize_outcomes`, `cancel` | environment supplier (`observe`, `resolve`, `ingest`), lease, store |
| External-operation journal | `operations.py` | `operations` rows, budget columns `reserved` and `spent` | `prepare`, `dispatch`, `settle`, `reconcile`, `cancel_prepared` | providers; the session's status, lease and participants |
| Agent work and the supplied runner | `runner.py`, `coordinator.py`, `runtime.py` 754-802 | `agent_work` rows, agent generations | prepare, invoke, recover a response, `reconcile_agent`, phase guard, `run` | session runtime, agents, operations |
| Checkpoint, branch and lineage | `runtime.py` 804-885, 937-1412 | `checkpoints`, child sessions, inherited artifacts | `checkpoint`, `branch` (hosted and legacy) | operations' budget, hosted store |
| Experiment scheduler and recovery | `harness.py` | `experiments`, `session_runs`, an in-process queue, futures and a bounded pool of workers | start, schedule, launch, execute, stop, resume, shut down, reconcile at start-up, refresh | runs a session runner per environment |
| Hosted store and artifact budgets | `hosted.py`, `runtime.py` 992-1238 | budgets and their usage, reserved operations, artifact index, deletion progress | `artifact`, `read_artifact`, the hosted branch, purge of a session and of a tenant | object gateway outside the transaction |
| Trajectory sources and snapshots | `trajectories.py` | sources, acknowledged position, records, snapshots | register, ingest, status, get, page, stream, freeze | store, sessions' records |
| Datasets and training runs | `training.py` | frozen datasets, training runs | freeze, page, run | trajectories, a training integration |
| Store and evidence log | `store.py`, `history.py`, `activity.py` | hash-chained `events`, artifacts and aliases, the activity outbox | transaction, append, replay, activity, hierarchy | everything |
| Access control | `access.py`, `store.py` 244-264, 562-641 | policy tables, credentials | issue, authenticate, check a context in each transaction | server, every command |
| HTTP server and clients | `server.py`, `client.py`, `adapters/remote.py`, `worker_server.py` | none of their own; the worker server its dispatch lock | request mapping, worker transport | all commands |
| Resources, presentation, activity | `resources.py`, `presentation.py`, `activity.py`, ... | none | projections | store |
| Evaluation, scoring, receipts | `evaluation.py`, `scoring.py`, `receipts.py`, ... | reports | build reports | store |
| Adapters, plugins, fixtures | `adapters/process.py`, `worker.py`, `adapters/programs.py`, `adapters/_subprocess.py`, ... | a pipe, a process group, a queue of answers; counters of model calls | observe and act through a process, an HTTP worker, a command or a model | session runtime, the runner's threads |
| Contracts, CLI, viewer, migrations | `contracts.py`, `cli.py`, `packages/`, `viewer/`, ... | none | schemas, user interface | all |

### What is hard, and what makes each component correct

* **Lease.** A holder may be paused, crash or be slow for longer than its lease;
  two recoveries present the *same owner string* (`environment-harness-recovery`,
  runtime.py 913), so the owner does not identify a process. Correct when the
  epoch does: two writers with one epoch are one owner, an epoch that was
  overtaken has lost its authority for good, a crashed holder's session can be
  taken over after one duration.
* **Session.** Submissions, memory writes, transfers, closures, deadlines and
  feed events arrive while a phase is being computed, outside any transaction
  and possibly twice. Correct when each phase is decided once, from one frozen
  set of decisions, by a writer that still has authority when it commits; when
  an accepted action is executed by exactly one transition or remains live;
  when an event is handed to one transition; when a budget of turns holds and an
  end is final.
* **Operations.** A provider may act long after its caller stopped waiting; a
  crash leaves `dispatching` rows; receipts come late, twice or never; budget
  columns are maintained by increments in four transactions. Correct when an
  effect happens at most once, stays accounted for, and the columns are the sums
  of the table.
* **Agent work.** A response was paid for but the submission did not happen; a
  transfer or a new revision outdates work in flight; agents answer after their
  runner was overtaken or cancelled. Correct when no agent is called twice for
  one decision, a response is recorded once and is what gets submitted, an
  agent's continuation never goes back, a checkpoint loses no decision, and a
  cancellation reports what it left unanswered.
* **Checkpoint and branch.** A branch copies history, artifacts and their handles
  from a checkpoint, and its child is checkpointed and branched again. Correct
  when every reader of a descendant finds exactly the ancestor's history it may
  read, and every artifact handle that history names resolves.
* **Scheduler.** Stops and resumes race with workers that dequeue jobs and with
  failure handlers that read and write in two transactions; the process is lost
  between a commit and the delivery that follows it. Correct when no row is
  forgotten, none is executed twice without a request, every job is eventually
  served, and the experiment's columns count its rows.
* **Hosted store.** Requests to the gateway are reserved in one transaction and
  settled in another; an upload that was given up may land after a purge has
  listed the bucket. Correct when whatever is stored or may still be was charged,
  what is indexed can be read, a branch is exposed only whole, and an erasure
  that claims completion rests on settled uploads.
* **Trajectories and datasets.** Batches are repeated, reordered or forked, logs
  grow while they are paged, a dataset freezes its members in several
  transactions. Correct when the copy is a chain that only grows, a snapshot
  holds the log up to the boundary it names, members were eligible as they were frozen,
  and pages neither repeat nor omit.
* **Evidence and activity.** A reader pages through a log that grows, with
  records it may not see in between; a client takes an overview and follows the
  activity from its cursor. Correct when nothing in its sight is missed.
* **Participation.** Participants run in threads that share one environment, over a
  pipe whose lines carry no identity or over HTTP; workers hang, exit, print
  something else or leave a process behind; authority is transferred between two
  transactions of one model call; a phase that fails leaves its threads behind,
  which call on while the participant is invoked again. Correct when a call gets the answer to its own
  request, ends, acts only under current authority, leaves a record in which outcomes
  follow their requests, shares one budget, and no process it started survives it.

`PROJECT.json` lists each hazard at its line under `hazards`, with the property
that catches it, or the reason why none does.

## 2. Modules

| Module | What it is |
|---|---|
| `WriterAuthority` | Abstract: a fencing authority. Grants are numbered; a number names one owner; a grant that ended does not come back. |
| `WriterLease` | The lease columns against a discrete clock, with heartbeats, crashes, cancellation and pausing. Refines `WriterAuthority`. |
| `PhaseLedger` | Abstract: phases are decided one after the other, each from one set of decisions, and an end is final. |
| `Session` | One session: participants, phases, lease, and `resolve` as three transactions. Refines `PhaseLedger`. |
| `EffectLedger` | Abstract: an external effect is announced, sent, happens and is settled, in this order and at most once, within an exposure limit. |
| `Operations` | The operation journal with callers that crash and a provider that is slow. Refines `EffectLedger`. |
| `InvocationLedger` | Abstract: an invocation of an agent is asked, answered with one response that never changes, and then decided upon with that response. |
| `AgentWork` | The agent journal and the supplied runner: `run`, `_prepare`, `_invoke`, the phase guard, participants that act for themselves, and the operator's recovery. Refines `InvocationLedger`. |
| `Scheduler` | The harness: durable rows, the in-memory queue and pool, workers, callers, process loss and reconciliation. |
| `HostedArtifacts` | Budgeted artifacts of hosted sessions: puts, gets, the branch that copies, purges, against a bucket with late uploads. |
| `SourceJournal` | Abstract: a copy of a journal is a chain from its beginning that only grows at its end. |
| `Trajectories` | Sources, native sessions, snapshots and datasets. Its `records` refine `SourceJournal`. |
| `Evidence` | Logs, checkpoints, branches, artifact handles, replay and the activity outbox, in the local and the hosted store. |
| `Access` | Policies, contexts, credentials and the check that every transaction makes. |
| `Inference` | EXTENDS `Access`: the works agents are invoked for, the chain of transactions of a model call, and uploads of remote participants. |
| `ProcessWorker` | The environment behind a pipe. |
| `RemoteWorker` | The environment behind HTTP. |
| `CommandAgent` | An agent that is a process group per decision. |
| `Participation` | Composes the five modules above: participants in one deployment, each with its kind of agent, over one environment. |
| `MC...` | Constants of the instances TLC checks, one module per component. |
| `SumTheorems` | Lemmas on sums over finite sets and on finite sets of numbers, which the proofs about budgets and about the scheduler rest on. |
| `SessionProofs`, `OperationsProofs`, `AgentWorkProofs`, `SchedulerProofs`, `HostedArtifactsProofs`, `ParticipationProofs` | The theorems about one component each, and their proofs. |
| `StoreProofs` | The theorems about what the store's tables keep: `WriterLease`, `Trajectories` and `Evidence`. The last two share the lemmas on folds and recursive functions, so one module extends all three; that is why their initial states, next-state relations and specifications carry the component's name (`LeaseSpec`, `TrajectorySpec`, `EvidenceSpec`). |

### How state and actions correspond to the code

**WriterLease.** `owner`, `epoch`, `lease_until` are the columns. `Acquire`,
`Release`, `Renew` are `lease`, `release`, `renew`; `Fenced` is `_fence`;
`Cancel` revokes the lease as `cancel` does. Each writer is a process of
`runner.writer` that carries the epoch it was granted; `HeartbeatFails` is its
heartbeat giving up on a lost lease, `Crash` loses the carried epoch. `Tick` is the clock the comparison `lease_until > now` reads.

**Session.** The row of `environments` is `status`, `revision`, `participants`,
`scheduler`, `cursor`; the wall clock appears only through its comparisons, as
`due` (the phase deadline has passed) and `live` (the lease has not expired).
`observations`, `actions`, `transitions`, `ingested` and `commits` are the tables
and the events that record them. `held` is the epoch in the lease dictionary a
caller carries, `task` what a caller of `resolve` holds in its local variables:

* `ResolveIntent` (runtime.py 424-506) checks readiness and stores the frozen
  input with status `computing`, or finds a `computed` one and reuses its result;
* `ResolveComputed` and `ResolveFails` (507-547) store the result, or give the
  intent up;
* `ResolveCommit` (548-624) rechecks lease, revision, status, participants and
  scheduler and moves actions, revision, status, scheduler, cursor, journal and
  `session_runs` at once.

`Observe`, `Submit`, `Memory`, `ClosePhase`, `ExternalEvent`, `Transfer`, `Pause`,
`Resume`, `FinalizeOutcomes`, `Cancel` are the commands of the same name.
`Results` holds what the environment supplier may answer: whether it terminates
the session, and whether outcomes are left pending.

**Operations.** `operations`, `reserved`, `spent` are the table and the budget
columns. `task` is a caller of `dispatch` or `reconcile`: the provider call is
outside the transactions, so `Dispatch`, `Call`, `Answer` or `Raise`, and `Settle`
are separate steps and `GiveUp` may end the caller before any of them. The
provider is external: `wire` is what was handed to it, `TakeEffect` may happen
long after the caller stopped waiting, `remote` is the receipt `lookup` finds.
`Dispatch`'s `guarded` is the authority callback an environment-bound operation
hands down. The session's own commands appear as far as they read or move
operations.

**AgentWork.** `work` is the table `agent_work`, keyed by participant, revision
and generation (`Keys`); the key stands for the row's identifier, which is also
the operation identifier of the action submitted for it, so `actions` has the
same keys and `direct` holds the decisions submitted under other identifiers.
`members[p].continuation` names the work whose `agent_state` the participant
carries. A runner `t` is a process inside `run`: `pc[t]` is its place in the loop,
`todo[t]` the participants it has not prepared yet, `job[t][p]` its future for `p`.

* `Begin`, `Acquire` or `Refused`, `ReadPhase`: the loop head, `writer`, and the
  transaction that reads members and accepted actions (240-254);
* `Look`, `Prepare`: `observe` and `_prepare`, one participant after the other,
  before any agent is invoked (261-276);
* `InvokeStart`, then `InvokeReturns` or `InvokeFails`: the two transactions of
  `_invoke` around the call, the second of which may come from a *flight* whose
  runner has long given up; `OwnsDispatch` is its recheck;
* `Submit`: `submit` under the work's identifier; a blocked receipt ends the iteration;
* `ClosePhase`, `Resolve`, `Release`: the end of an iteration; `Abort` is any
  exception, the phase guard's included, `Crash` takes the process' calls with it.

`Pause`, `Resume`, `Transfer`, `ReconcileAgent` and `Checkpoint` are operator commands
that take a lease, act and release it (`UnderOwnLease`); `Cancel` needs none. `Memory` is
`memory` with an `agent_state` and the revision it belongs to: a participant overwrites its
own continuation, and the key the model notes is the present one. If the agent is being
called meanwhile, the checkpoint recorded with its answer replaces what it saved.
`owner` is `Nobody` while no lease is in force, and a runner's `held` is what it carries;
a call that has been started carries its runner's lease.

**Scheduler.** `run` and `environment` are the statuses of `session_runs` and
`environments`, `experiment` the aggregate columns. `jobs`, `pending`, `served`
are `_jobs`, the queue and its fairness counters, under the harness lock; `future`
is what `wait` blocks on. A worker goes through the transactions of `_execute_scheduled`
(`Work`: dequeue, launch, the runtime's own completion, the runner's return or
the failure handler, completion of the future). `Reserve` and `StartExperiment` commit the
rows and `Deliver` hands them to the queue; `StopPending`, `StopLook`, `StopCancel`
and `StopWrite` are the parts of `_stop`; `ShutDown`, `Lose`, `Restart` end the process
and reconcile. `Branch` is `_branch` of the harness: `Register`, the runtime's
transaction, creates the child with a row `interrupted`, `Refresh` recounts its
experiment; `BranchOverHttp` is the route, which only does the first. `starts`, `resumes`, `stops`, `losses` are history.

**HostedArtifacts.** `operation[e][n]` is a row of `artifact_operations` for the
request named `n` of session `e`, `usage` the budget's row, `phase` the deadline
the shared clock has passed (expiry, retention, cleanup). A caller's `task` is its
place in `put`, `read`, `_branch_hosted` or a purge: `ReservePut` and the others
commit the reservation, `PutReply` and the others settle it, `PutFails` and the
others are a refusal or a lost caller. `wire` holds uploads nobody waits for,
`Land` lets one arrive.

**Trajectories.** `records` is a registered source's copy, `events` a native
session's log. `Ingest` and `Report` are one transaction each. A reader's `task` carries
the local variables of `get`, `freeze` and `freeze_dataset` from one transaction to
the next: boundary, replay, scores, page after page with the extra read that asks
for more. `DatasetPage` is a pure operator, checked against the concatenation: `TakeRecord` and
`TakeMember` are what its loop does with one record and with one member.

**Evidence.** `log`, `checkpoints`, `artifacts`, `aliases`, `outbox` are the tables,
`parent` and `base` the lineage columns. Each operation of `Next` is one transaction;
of the hosted store a transaction may stay open (`BeginWrite`, `Record`) with its
outbox number already taken. `client` is a reader between two pages. `Those` and `Nth` pick
the entries of a sequence by position, in order: what a query with a filter returns, and the
order in which `Reconstruct` reports inherited records.

**Participation.** `deployment` says where the environment runs and what each
participant is. `Ask`, `Begin`, `Take`, `Deadline`, `Closed`, ... of `ProcessWorker` are the
steps of `_call` and of its writer and reader threads. A turn of the loop is two steps:
`Poll` looks at the writer, and what follows it (`Take`, `Broken`) reads the queue, whatever
became of the write in the meantime. `Reply`, `Stray`, `Exit`, `HelperEnds`
are the worker. A helper that survives its leader may hold the read end of the pipe, so a
`Write` to it may succeed, fail, or never return. `Receive` of `RemoteWorker` compares the
receipt's identity.

An agent is invoked for a *work*: a participant, a revision and a generation. `inference[w]`
is where the agent of that work stands. `Invoke` dispatches it once; from then on it calls its model
on its own (`Call`, `Charge`, `Store`, `Requested`, `Failed`, `Responded` are the transactions of
`InstrumentedModel.call`), breaks off anywhere (`Break`), and nothing the runner does ends
it. `Resolve` is the session going on to the next revision, for which the participant may be invoked
while the agent of the last one still calls. `Charge` spills what does not fit its event at
either capture level; `Store` may find the artifact too large, and the summary that is left
may still be too large for the event. `Permits` of `Access` is evaluated in each transaction. `Issue`
inserts a credential for the member that `ReadMember` saw earlier. `Abandon` of `Participation` is
the `finally` of `run`: a phase that fails leaves its threads behind.

### Abstractions

* `Scheduler`: what a session runner does is that it returns, raises, or is lost
  with its process. One process at a time: a second live harness on the same
  database would reconcile rows the first still executes.
* `HostedArtifacts`: content is its key, so two uploads of one key are the same
  object; requests refused before the first transaction change nothing. Time has
  one clock for all sessions. Attempts carry no lease, so any caller may retry.
* `Trajectories`: static checks (purpose, split, audience, schema) are left out. The
  digest of a snapshot is its content.
* `Evidence`: the hash of an event is its identity. The hosted store reads
  committed rows under a row lock per session; the local one is serial.
* `Participation`: an answer's content is the request it answers. A model call's
  detail has a size only. A model agent's thread is idle for the runner from its
  dispatch on: whether the runner waits for it or has left it behind is the same to
  everybody, and the work it was invoked for is checked against the present revision
  and generation in the transaction that dispatches it. An agent that dies in a call
  is a `Break` and calls no more. Revisions are counted where model agents are deployed.
* `CommandAgent`: SIGTERM, the grace period and SIGKILL of `terminate_tree` are one
  step (`Terminated`): the last is unconditional, and the call waits for it. A process
  that has left its group is out of its reach and of the model's.

* In `AgentWork`, scheduling is simultaneous, and `resolve` is one step: that its
  three transactions commit a phase as if at once is what `Session` and
  `PhaseLedger` show. A session that ends with outcomes pending counts as
  completed. An operator's lease, command and release are one step; the
  interleavings of separate lease holders are `Session`'s subject.
* A direct submission that is blocked changes nothing an agent journal reads and
  does not appear.

* `observe` computes between two transactions and rechecks its inputs in the
  second; in `Session` and `AgentWork` it is one step. What happens to the computed
  observation on its way is in `Participation`.
* State and RNG of the environment are named by the revision they change with.
  The three values that `resolve` compares besides (revision, state, rng) are
  therefore the revision alone.
* An action's payload is its identifier; a payload outside the schema is the
  boolean `wellFormed`, and the texts of refusals are one status `blocked`.
* The goal-revision check of the authority callback is one of the ways
  `execute` can raise (`Raise`).
* Requests an endpoint policy or a capability flag refuses before the first
  transaction change nothing and do not appear.

## 3. Runs

| Run | Question | Checked |
|---|---|---|
| `writer_lease` | Does an epoch identify its holder under expiry, renewal, crash, cancellation and shared owner strings? | `ImplementsAuthority`, `OrphanIsReclaimable` |
| `session_decisions` | Is every phase decided once and every accepted action executed once? | `CommittedActionsExecuteOnce`, `ImplementsLedger` |
| `session_takeover` | Can a resolver that was overtaken inside `resolve` still write, do the epochs of the history go back, and is a feed event handed to exactly one transition? | `CommitsAreExact`, `CommitsFollowEpochs` |
| `session_frozen` | Is what is committed computed from what is replaced, by one computation per lease, and do accepted actions stay live? | `OneComputationPerLease`, `AcceptedActionsAreLive`, `CommitsAgainstFrozenInputs` |
| `operations` | Do effects happen once and do the budget columns add up, and what do cancellation, finalization and checkpoints leave behind? | `BudgetIsConserved`, `EffectsAreAccountedFor`, `EndedOwesNothing`, `ImplementsEffectLedger`, `CheckpointsAreQuiescent` |
| `agentwork` | Two runners of one lease overtake each other, participants are transferred or save their state, answers come late: what becomes of invocations, responses, continuations and checkpoints? | `CancelledWorkIsResolvedOrReported`, `ContinuationNeverRewinds`, `ImplementsInvocations`, `CheckpointsLoseNoDecision` |
| `scheduler` | Is a row orphaned, executed twice or never, over stops, resumes and process losses, and does the aggregate follow? | `NoRowIsOrphaned`, `NeverExecutedTwiceAutomatically`, `AggregateLagsOnlyCompletions`, `EveryJobIsServed` |
| `scheduler_stop` | *(finding)* Is a stop terminal? | `StoppedIsTerminal`: violated |
| `hosted_artifacts` | Do charges, index and the completion an erasure claims match the bucket? | `BucketIsCharged`, `IndexedArtifactIsStored`, `ExposedBranchIsWhole`, `CompletionIsProven` |
| `trajectories` | Is what is acknowledged, frozen and paged what the logs hold? | `SnapshotHoldsItsBoundary`, `MembersWereEligible`, `DatasetPagesAreExact`, `ImplementsJournal` |
| `evidence` | Are lineage, artifact handles, a replay and the local activity cursor whole? | `LineageIsExact`, `HandlesResolve`, `ReplayIsWhole`, `LocalOverviewRecovers` |
| `participation` | Over workers that fail and threads that are left behind, does each call get its own answer, under current authority, an end and a paired record, and how far can the details overshoot their budget? | `EvidencePairsUp`, `OvershootIsBounded`, `NoProgramOutlivesItsCall`, `AnswersMatchRequests`, `AuthorityIsCurrent`, `EveryCallReturns` |

Every property of a passing run has a *mutant* in `PROJECT.json`: a form a
modelled operation could plausibly have had (`Fenced_AnyEpoch`,
`Terminated_WithLeader`, ...), under which TLC finds the property violated. That is
the evidence that the property depends on the code. The modules state more
properties than the runs spend time on (each `TypeOK`, `EpochNamesOneOwner`,
`EndedIsFinal`, `WithinTurnBudget`, `AgentCalledOnce`,
`EffectAtMostOnce`, which are proved but for two of the `TypeOK`, and those of the observations below); add the
name to the configuration to check one.

### Finding

`_stop` (harness.py 1502-1521) finds neither a queued job nor an `environments` row
when a worker has just dequeued the session; it cancels nothing and writes
`stopped`. The worker then sets the row `running` without looking at it (1328),
creates the environment and executes it: a stopped session runs, against
tests/test_harness.py:486, "test_stopping_a_running_environment_session_is_terminal".
The failure handler (1350-1360) also reads the status in one transaction and
overwrites it in another.

### Observations

Disagreements between code and documentation that the modules exhibit and no run
is spent on. Each names the property TLC finds violated.

1. `finalize_outcomes` (runtime.py 1414-1438) completes a session without calling
   `_sync_session_row`: the run row stays `running`. `Session.RunRowTracksCompletion`,
   with `PhaseDeadline = "wall"`.
2. `resume_if_paused` (runtime.py 913-935) resumes without the look at pending
   operations that `resume` takes (docs/PROTOCOL.md:99). `Operations.ResumeRequiresReconciledDispatches`.
3. A saved response whose first submission was blocked by a pause stays blocked
   (runtime.py 362-368, runner.py 323; docs/coordinated-sessions.md:31).
   `AgentWork.SavedResponsesStayUsable`.
4. A quiet erasure may claim completion over an inventory older than the evidence
   (hosted.py 783, 870-905; docs/DEPLOYMENT.md:254-260). `HostedArtifacts.QuietErasureIsEmpty`.
   Besides, expiry is checked before an existing row, so a pending branch is out of
   reach once its child expired; an object that lands again can keep cleanup open.
5. A dataset's checks and the freezes of its members are separate transactions, so
   a member may have gained an unresolved reward when it is frozen (training.py
   123-210; docs/TRAINING.md:9-16). `Trajectories.MembersAreEligible`; what does hold is
   `MembersWereEligible`.
6. In the hosted store an outbox number is taken before its row can be read, so a
   cursor may pass a row that commits later (store.py 424-548, hosted.py 93-99;
   docs/API-REFERENCE.md:445). `Evidence.OverviewRecovers`.
7. The inference budget is read in one transaction and the artifact stored in
   another (programs.py 309-347; docs/AGENT-INTEGRATION.md:17-18): calls whose charges
   overlap overshoot together, by at most one artifact each but one (`OvershootIsBounded`).
   There may be more of them than participants: a phase that fails abandons its threads
   (runner.py 333-341), and a later phase invokes the same participant while its old
   agent still charges under the same authority. Uploaded JSON artifacts count towards the
   budget without being checked.
8. `ProcessEnvironment.close` stops the process group only while its leader lives,
   and waits for a reader a helper may hold open, with the lock taken. The comment in
   `_subprocess.py` 38 asks for the group always. `EveryCallReturns` names the exception.
9. A branch over HTTP adds a session to its parent's experiment and never recounts it
   (server.py 815-826; the harness does, tests/test_public_facades.py:237), and a process
   lost between the two transactions of `_branch` leaves it uncounted too, until a
   session of the experiment changes. `Scheduler.AggregateLagsOnlyCompletions` names
   these branches as the only other lag.
10. `freeze` projects the trajectory first and streams its records afterwards
   (trajectories.py 1274, 1303; docs/TRAJECTORIES.md:19-20, docs/DATA-MODELS.md:36-38 speak of an
   explicit boundary). Nothing bounds the stream by the projected end: records appended in between
   enter the snapshot past its `evidenceHead` and `sequenceEnd`, and `sourceBoundary` pairs
   the position of the last one with the hash of the earlier head.
   `Trajectories.SnapshotEndsAtItsBoundary`; what does hold is `SnapshotHoldsItsBoundary`.
11. A process environment that a call has closed keeps what its reader had queued
   (process.py 82, 96-98). A later call that polls its writer before the closed stream has failed it
   takes that line, the answer to the request of the call that gave up, for its own.
   `Participation.AnswersMatchRequests` names this exception; no line of any other request is ever taken.
12. A request of a model call may stay without an outcome for good: its agent dies, loses its
   authority, is refused the budget or the artifact of its answer, or the summary is too large for the
   event (programs.py 262-307, 326-327; store.py 655-656). `EvidencePairsUp` claims no more than that
   outcomes follow their requests.

### Bounds, and why they are enough

* *Lease*: TTL 2 and horizon 4 let a lease be granted, renewed, expire and be
  granted again to each of three writers; `MaxEpoch` 4 gives each writer a grant
  after one it lost. Two of the three writers share an owner.
* *Session*: two phases (`MaxTurns` 2), since every argument relates a phase to
  the next; one operation more than participants, or two participants with two
  operations, so that a duplicate, a late or a missing decision occurs; two or
  three callers, the third because a caller may be overtaken by one of the same
  owner string and one of another; `MaxEpoch` 2 is one takeover;
  `MaxGeneration` 1 is one transfer away and no way back to the same authority;
  one feed event, which may arrive before, during or after a computation and
  between two computations of one phase. The runs split the dimensions
  (participants and scheduling, callers and events, memory and transfers)
  because each hazard needs only some of them; every action fires in some run.
  The takeover run has no submissions: its phases close and missing decisions
  become no-ops.
* *Operations*: two operations against a budget of 2 with reservations of 1 or 2
  and receipts of 1 or 2: they fit together or exclude each other, and a receipt
  may be below, at or above its reservation. Two callers give every overlap of a
  dispatch, a reconciliation and a settlement of one operation.

* *Agent work*: two runners of one owner string, which share an epoch and
  overtake each other; `MaxEpoch` 2 is one takeover, or one operator's command.
  One participant, which may also decide by itself (`Independent`) and save its state in the
  first phase (`Saving`), two phases and two generations, so that a late response may belong to the phase before or the
  controller before; two payloads, one outside the action schema, so that a
  replaced response is seen and a response can be blocked; one checkpoint.
* *Scheduler*: an experiment of one session and a session of its own, two workers,
  one caller, and one branch of the experiment's session; two disturbances (stops,
  resumes, branches, losses), each kind once, the least in which a loss or a stop
  hits a resumed session, or the recount of a branch.
* *Hosted artifacts*: two keys of sizes 1 and 2 against limits of 3 bytes and two
  objects, so that both fit and no third does; two attempts of each; two hosts; four calls,
  enough for a branch, its retry, and a purge with a late upload.
* *Trajectories*: a journal of a beginning, a granted reward and its retraction,
  and one forked record; batches that overlap, repeat, skip and fork; native
  logs of three events; pages of two records, so that a log ends inside, at and
  beyond a page.
* *Evidence*: three sessions, so that a branch is branched; six writes; one reader
  and the evaluator; events large enough to be inherited in chunks; pages of two.
* *Participation*: two participants, since one's late answer must have another to
  reach; four deployments that pair the kinds of agent with the kinds of
  environment (two model agents without a worker, a command and a remote participant
  without one, and a plain and a watched participant over the pipe and over HTTP); two
  requests, since a late answer needs a next request to reach; two works, so that
  an agent left behind meets the one invoked after it or the other participant's; two
  revisions; two model calls, one transfer, one credential; a budget of one unit artifact, which
  two overlapping charges overshoot.

`MaxEpoch`, `MaxGeneration`, `MaxCursor`, `MaxCheckpoints`, `Horizon`,
`MaxDisturbances`, `MaxEvents`, `MaxWrites`, `MaxRequests`, `MaxRecorded`, `MaxTokens`,
`MaxRevision`, `MaxInvoked` and (but for the agent's ordinal) `MaxCalls` bound the instances; they appear in guards and nowhere in the code. The proofs hold for
every value of them. `MaxTurns` and `MaxCost` are the session's own policy.
Operation identifiers, the callers of `Operations`, and the callers that share an
owner string, hosts, and branches are interchangeable, hence the symmetry sets; no
run with symmetry checks liveness. Deadlock is not checked: a session that
ended, or that exhausted its bounds, stops.

### Fairness

* `WriterLease.FairLeaseSpec`: weak fairness of `Tick`, that is, the clock runs. No process
  is assumed to make progress, since any may crash. `OrphanIsReclaimable` then
  says that a crashed holder's lease lapses by itself.
* `Scheduler.Spec`: among the threads the pool started some thread runs while one can
  (no fairness between them is needed), and session runners return (a
  runner is bounded by its turns and deadlines); a caller that committed rows
  delivers them, unless its process is lost; a process that shut its executor
  exits, and a lost one is started again. Nobody has to start, stop or
  resume anything, and the process may be lost at any step as often as the bound allows.
* `Participation.Spec`: the write and read threads of the pipe run on, and a caller in
  `_call` does, whose loop has a deadline. A caller that waits for the lock gets it if
  it is released again and again (strong fairness); Python's locks do not promise
  that, but a participant has at most one call out and the lock is handed
  among a fixed few. The worker itself is not assumed to do anything.

## 4. Proofs

All theorems are proved by `tlapm` for every value of the constants, from the
named assumptions in the modules (rosters are not empty, owner strings are not
NULL, bounds are naturals, a page has a row, the sessions of a process, the participants of a
deployment and the keys of a bucket are finitely many, artifacts have a size, a
budget is one the runtime accepts), which TLC evaluates on the instances.

| Theorem | Property | Argument |
|---|---|---|
| `StoreProofs!LeaseTypeCorrectness` | `LeaseTypeOK` | inductive as it stands, with `lease_until <= now + TTL` |
| `FencingTokensIdentifyOwners` | `EpochNamesOneOwner` | needs `TokenInvariant`: no carried epoch is ahead of the row, and one equal to the row's belongs to the row's owner. The property alone is not inductive: an `Acquire` could meet a writer that already carries the next epoch |
| `LeaseImplementsAuthority` | `ImplementsAuthority` | step by step from `TokenInvariant` |
| `SessionProofs!TypeCorrectness` | `TypeOK` | inductive, includes the unique key of the transition journal |
| `EndsAreFinal` | `EndedIsFinal` | per action: every action that writes status, revision or commits asks for `running`, `paused` or `outcomes_pending` |
| `HistoryIsAChain` | `CommitsFollowEpochs` | inductive with `TypeOK`: commits lie below the revision and at or below the epoch; `ResolveCommit` adds one at the revision under the current epoch |
| `TurnBudgetHolds` | `WithinTurnBudget` | `TurnsLeft`: a session that is running or paused has a turn left |
| `PhasesAreComputedOnce` | `OneComputationPerLease` | `JournalInvariant`, see below |
| `HistoryIsExact` | `CommitsAreExact` | from `JournalInvariant`: the commit writes the row it read. That a feed event is handed over once follows step by step from the high-water mark that the commit moves in its own transaction |
| `NoDecisionIsStranded` | `AcceptedActionsAreLive` | part of `DecisionInvariant` |
| `CommitsAreOfFrozenInputs` | `CommitsAgainstFrozenInputs` | `DecisionInvariant`, see below |
| `ActionsExecuteOnce` | `CommittedActionsExecuteOnce` | `ExecutionInvariant` adds that nobody decides twice in a phase; `DecisionsMove` says that a step takes one decision, commits all of them or leaves decisions and history alone |
| `SessionImplementsLedger` | `ImplementsLedger` | step by step: a submission is a decision, the commit of `resolve` is a commit, pauses, transfers and recoveries stutter |
| `OperationsProofs!TypeCorrectness` | `TypeOK` | with `SendInvariant`, of which the types of the table are a part, and `BudgetInvariant`: a column never falls below zero because it is a sum |
| `NoEffectTwice` | `EffectAtMostOnce` | `SendInvariant`: of waiting to call, on the wire, and happened, at most one holds of an operation, and each only while it is marked as dispatched |
| `NoEffectForgotten` | `EffectsAreAccountedFor` | the same |
| `BudgetColumnsAreSums` | `BudgetIsConserved` | `BudgetInvariant` adds that finitely many operations were prepared and that success books a receipt; a step moves one operation between two sums |
| `NothingOwedAtTheEnd` | `EndedOwesNothing` | `EndInvariant`: nothing leaves a final status, only a running session prepares, success proves an effect |
| `CheckpointsSeeSettledEffects` | `CheckpointsAreQuiescent` | from `EndInvariant` and the guard of the checkpoint |
| `JournalImplementsEffectLedger` | `ImplementsEffectLedger` | step by step; the guards of the ledger speak of sums, so every refining step needs a lemma of `SumTheorems` |
| `AgentWorkProofs!TypeCorrectness` | `TypeOK` | inductive; includes that a response is there exactly when work is marked as responded |
| `AgentsAreCalledOnce` | `AgentCalledOnce` | `InvocationInvariant`: the number of calls is a function of the work's status, 0 until it is dispatched and 1 from then on |
| `JournalImplementsInvocations` | `ImplementsInvocations` | `InvocationInvariant`, whose other parts say that what a runner is about to submit, and what was submitted, is the saved response. Steps are split into quiet ones, which touch neither work, calls nor submissions, and nine others |
| `CancellationResolvesOrReports` | `CancelledWorkIsResolvedOrReported` | `ReachInvariant` adds that work and jobs belong to phases and controllers the session has reached, and that a cancelled session has nothing marked as being dispatched |
| `CheckpointsKeepDecisions` | `CheckpointsLoseNoDecision` | from `ReachInvariant` and the guard of the checkpoint |
| `ContinuationsNeverRewind` | `ContinuationNeverRewinds` | `ContinuationInvariant`: with `ReachInvariant`, no recorded answer is ahead of its participant's continuation, and no continuation is ahead of the open phase and the current controller (`ContinuationIsReached`). An answer that returns, a recovered one and `memory` alone move it, and each only to the open phase or past every answer recorded |
| `SchedulerProofs!EveryRowHasItsHolder` | `NoRowIsOrphaned` | `SchedulerInv`, see below |
| `ExecutionsArePaidFor` | `NeverExecutedTwiceAutomatically` | the same |
| `ColumnsLagOnlyCompletions` | `AggregateLagsOnlyCompletions` | inductive over `SchedulerInv`: every status that is set is counted at once, except by the two actions that are known to lag |
| `HostedArtifactsProofs!HostedTypes` | `TypeOK` | inductive with `PagesCounted`: the page a purge works on is below the listings it was allowed |
| `BucketsAreCharged` | `BucketIsCharged` | `Charged`, a part of `HostedInvariant`, see below |
| `IndexedArtifactsAreStored` | `IndexedArtifactIsStored` | `Fenced`: only a purge deletes, and never before its fence |
| `ExposedBranchesAreWhole` | `ExposedBranchIsWhole` | `Branched`: what was copied is indexed, and a caller that branches has indexed all it no longer has left |
| `CompletionsAreProven` | `CompletionIsProven` | `Inventoried`: what is solid in the bucket lies beyond the cursor or in the page being deleted |
| `StoreProofs!CopyImplementsJournal` | `ImplementsJournal` | `JournalInv`: the copy is a chain, and its end is what was acknowledged. A batch is a fold, of which each record is skipped or appended |
| `SnapshotsHoldTheirBoundary` | `SnapshotHoldsItsBoundary` | `ReadersInv`, see below |
| `MembersWereChecked` | `MembersWereEligible` | the same |
| `DatasetPagingIsExact` | `DatasetPagesAreExact` | from `ReadersInv`: a fold over the members of a fold over the records of each reaches what the concatenation holds at that position |
| `TrajectoryTypes` | `TrajectoryTypeOK` | from `ReadersInv` and `JournalInv`, with the bound on the native log |
| `EvidenceTypes` | `EvidenceTypeOK` | from `EvidenceInv` |
| `ReplaysAreWhole` | `ReplayIsWhole` | part of `EvidenceInv`, see below |
| `LocalOverviewsRecover` | `LocalOverviewRecovers` | the same |
| `NamedArtifactsAreServed` | `HandlesResolve` | `HandlesInv`, see below |
| `BranchesInheritExactly` | `LineageIsExact` | `LineageInv`, see below |
| `ParticipationProofs!NoProgramSurvives` | `NoProgramOutlivesItsCall` | inductive with the types: every way out of a call passes through `Terminate` |
| `AnswersArePaired` | `AnswersMatchRequests` | `PipeInv` and `HttpInv`, see below |
| `RequestsAndOutcomesPairUp` | `EvidencePairsUp` | `LogInv`, over the types and ordinals of the calls (`CallsInv`): the entries of a log are of earlier calls than the next one of their work (`EntriesArePast`); the call a work is in is not in the log before its request is recorded (`CallIsNew`) and only as a request until its outcome is (`CallIsRequested`). Every action is a step of one work or of none (`StepMoves`), so any number of works may call for one participant |
| `DetailsStayWithinBudget` | `OvershootIsBounded` | `BudgetInv`: stored details and pending charges together stay below what `overlap` allows. A charge reads only what is stored, so it finds room with all other pending charges besides, of which there are at most `overlap - 1` |
| `WritesAreUnderCurrentAuthority` | `AuthorityIsCurrent` | step by step: a write follows a `Permits` of the same transaction; `EvidenceLogs` says that a log is a sequence, so that what `Record` appends is its last entry |

The argument worth reading is `DecisionInvariant` in `SessionProofs`. The commit of `resolve`
compares revision, status, participants and scheduler with the frozen input, but
*not the decisions*. That is sound only because no decision can enter or leave a
phase while these four stay as they are: the phase that is resolved has all its
required decisions, or is closed or past its deadline, so `submit` blocks any
further one; a transfer withdraws actions but changes the participants' generation.
`FrozenDecisions` states that as an invariant over the tasks in flight, and
`DecisionInvariant` (with types, the liveness of accepted actions, and
that some participant is always active) is inductive. TLC checks it on every
session instance as well.

`JournalInvariant` is about callers that share a lease. Nothing keeps two of them from
entering `resolve`; what keeps the second from computing is the row the first left in
`transitions`. So the invariant ties each computation in flight to that row: while the
lease lasts, the row is there, is still `computing` and carries its epoch
(`AnewHasItsRow`), a result in flight is the one the journal recorded
(`ResultIsRecorded`), and there is one computation at most (`SingleComputation`).

`SchedulerInv` relates four places a session may be claimed from: a caller about to
deliver it, the queue, a worker that has not begun it, a worker that executes it.
`ClaimsOK` says that there is one claim at most, that a job is in the queue once, and
that a session that is executed is not queued or announced again; `RowsOK` says that a
queued row has a claim and a running one its execution, that what is claimed was not
interrupted, blocked or left without a row, and that an execution that has begun or is claimed is
paid for by the start or by a resume. The second is what makes the first hold: a
resume asks for an interrupted or blocked row, which nothing claims. The queue is
reached by folds (`Launched` over the slots, `Schedule` over the jobs of a delivery);
`LaunchedKeeps` and `SchedulesKeep` show that each fold keeps the claims.

`HostedInvariant` is about a bucket that is changed by requests whose replies may be
lost, and by uploads that land after everybody has given up on them. The module has
twenty-seven actions, so the proof first says what each of them moves: `Moves` lists the
kinds of step (a turn of a caller, a reservation, a commit, a failure, the begin
and the end of a branch, the steps of a purge, the deletion of the rows), and the parts of the invariant are
shown over those. `Present` says that the sessions callers work on are there.

* `Charged`: the columns `objects` and `bytes` of `artifact_budget_usage` are the
  count and the bytes of the keys tried; an upload in flight is of an attempt that was
  made, the current attempt of a key is not committed while it is still to be sent
  or in flight, and one caller at most sends it. The property follows because a key
  is charged at its first attempt and never given back.
* `Branched`: a committed copy is indexed; the checkpoint is frozen once the child
  exists; what a branching caller has no longer left is indexed in the child.
* `Fenced`: a purge past its first step has raised the fence, and one past its evidence
  has settled the uploads: either the supplier said that nothing can land any more, or
  no put is unresolved. Both stay true, since behind a fence no upload is reserved.
* `Inventoried`: call an object solid unless a superseded attempt of a committed
  put may have brought it. Behind a settled fence solid objects only become
  fewer, those left lie beyond the cursor or in the recorded page, and requests in
  flight carry the cursor and the page of the row. So the last, untruncated listing
  proves the bucket empty of them. An invariant that speaks of all objects
  is not inductive: that is why `CompletionIsProven` has its exception.

`AnswersArePaired` rests on what the pipe may hold, since its lines carry no identity.
`PipeInv` says that, while the process is not closed, only the caller with the lock
waits and its request is the last one sent; that this request is in one place (its writer,
the pipe, the worker, or answered); that every line is of this request; that
nothing but the end of the queue follows its answer; and that a pipe nobody holds is
empty. The last part is why a call that gives up must close the process before it lets go
of the lock. Once it is closed, what is left in the pipe and in the queue is of the request
whose call closed it (`LeftLines`), and nothing is added: this bounds what a later call can
take by mistake. `PartsMove` shows that a step of the composition is a step or a stutter of
each of its parts, so the invariants of the parts carry over.

`ReadersInv` says of every reader what it may still rely on from the transactions it has
behind it, although the logs have grown since. `StreamOK`: the records it has streamed
are the first of the log as they stand there now, with the causes and segments they have
there now (`Exact`), and the scores it selected are no more than the log reports. It is
stable because logs only grow at their end (`Extended`): what is before the cursor stays at
its place, its predecessor too, and a segment counts only what precedes. `CheckedOK`: the member
that is being frozen was complete, with resolved rewards up to a boundary that the one
about to be taken is not before. `MemberOK` and `SnapOK` are the same of what is stored. A page of
a dataset is read by a recursive function over the pages of each snapshot (`ReadOut`), inside a
fold over its records, inside a fold over the members; each level is shown to leave the
loop in the state that `PageState` computes from the position alone.

`EvidenceInv` has two parts that speak of readers. `ReplayOK`: what a replay has got is all
its reader may see up to the cursor. A page is the first so many of what is beyond the cursor, so
nothing is between the last of a page and the cursor that the page did not hold; and
the log stays as it was up to the cursor. `FeedOK` is the same of the activity, and holds of the local
store only: there `SerialOK` says that one transaction is open at most and that its row
is the last and the only one missing, so no id below a cursor is still to be
committed. In the hosted store that fails, which is observation 6.

`HandlesInv` says that each handle a log names is served by its session
(`Served`): one row, with the content and the audience the event records. That alone is not
inductive. An artifact stored later, or copied by a branch, must not be served under a handle
that is already named, so each id in the tables is *past* (`Past`): the id of a session's own
artifact carries the sequence number of the event that stored it, which lies in its log,
and the id of a copy names the sessions
it was copied to besides, so it is never a session's own. A checkpoint keeps the artifacts and aliases
of its moment, so it must be shown to serve the log up to its cursor (`CutHandles`);
`Branch` then copies both: an artifact's id becomes an alias of its copy, an alias the parent had becomes one
of the copy of what it led to. The mutant that forgets the second breaks
the property at a grandchild.

`LineageInv` is about a log as a whole. *Told* is the property for one log and one history: what
a reader reconstructs from the part of the log it may see is the part it may see of the
history. `LineageOf` is that of a branch and of its parent's history up to the checkpoint; it
needs to know that each log begins with what it inherits, coherent for every reader, and
holds nothing inherited afterwards (`InheritsFirst`), so that all of it
precedes every checkpoint (`OwnAfter`). A child's log is then built event by event
(`Bequeathed`, `ChildTold`): what the parent inherited is copied as it is; each further event is the
parent's own and is wrapped as one record, or as chunks that come together (`Carries`). That record is new
to the log (`NewTo`: no record of this session with this number has been
inherited before, by `Older`), so it is found once, complete, after all the others, by the readers that may see
it and by no one else, since its chunks carry its audience (`ToldNext`). A log only grows by its own
events, hence what a session tells stays (`ToldStays`), and so does the history it
is compared with (`HistoryStays`).

### Sums and folds

The library states induction over finite sets with an operator parameter, which the
installed provers cannot instantiate. `SumTheorems` therefore argues by a minimal
counterexample: the strict subset ordering of a finite set is well founded
(`SmallestSet`), and the sets for which a claim fails are a set like any other. A fold of
the community modules is a `CHOOSE` of a recursive function; its lemmas first show that
such a function exists and that any two agree (`SumsExist`, `SumsAgree`), and from then
on a sum unfolds one element at a time. `SchedulerProofs` does the same for `FoldLeft`
over a sequence, for the two operations the scheduler folds (`Reaches`). What is
proved this way is about one fold at a time, stated for it.

`StoreProofs` argues by induction too, with a set in the place of the library's operator: `Climbing`
says that a set of numbers which holds 0 and, with each n below a bound, n + 1, holds
all up to the bound. A claim becomes the set of lengths for which it holds. `FoldExists` and
`JoinsExist` build the recursive functions behind `FoldLeft` and `FlattenSeq` this way,
`FlattenIsJoined` and `JoinsExtend` unfold a concatenation at its end, and
`NthIs` finds the n-th of a set of positions. `Evidence` orders positions by counting those below
(`Nth`, `Those`) and not by `SelectSeq` or `SetToSortSeq`, which recurse over the data
or choose a whole sequence at once and of which the provers can show nothing.

### Model-checked only

* `OrphanIsReclaimable`, `EveryJobIsServed`, `EveryCallReturns`: liveness under fairness is out of
  the prover's reach.
* The types of `Scheduler` and `Participation` in the bounded form of their `TypeOK`: their
  proofs use wider ones (`RowsTyped`, `CallsTyped`, `RunsTyped`, with naturals for
  what the instances bound), and no other property needs the bounds.

Every safety property and every refinement that a passing run checks is stated by a theorem.

## 5. Plan

What is left to prove is outside what TLAPS 1.4.5 can do here. Extensions that would add states rather than lines: progress of `AgentWork` under a
fair scheduler, sequential scheduling, and `coordinator.advance`; `observe` as its two
transactions against submissions and transfers; a second live harness on one
database, whose reconciliation takes over sessions the first still executes.

### Not modelled, and why

* Training runs: two reads and one insert around a third-party integration.
* Evaluation, scoring, receipts, resources, presentation: they read or format
  committed evidence and are arithmetic. That scoring goes on while a snapshot is
  taken is in `Trajectories`.
* The HTTP server's other routes and the clients map requests to modelled
  operations. The static capability table of `access.py` is modelled as far as a
  participant's authority may become stale.
* Cursors and filters of lists, export streams, the retention sweep and the
  aggregate allowance of unbudgeted sessions: single transactions over one table.
* Third-party bindings, plugins, fixtures and examples sit behind the supplier
  interface, which the modules represent by what it may answer.
* Contracts, CLI, viewer, migrations and packaging hold no protocol.
