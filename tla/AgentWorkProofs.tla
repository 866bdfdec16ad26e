--------------------------- MODULE AgentWorkProofs ---------------------------
(***************************************************************************)
(* Theorems about AgentWork: an agent is called once per decision, and the *)
(* journal implements the ledger of invocations.                           *)
(***************************************************************************)
EXTENDS AgentWork, TLAPS

\* The initial state is well typed.
LEMMA TypeAtInit == Init => TypeOK
<1> SUFFICES ASSUME Init PROVE TypeOK
  OBVIOUS
<1> USE DEF Init
<1>1. members \in [Participants -> Member]
  <2>1. 0 \in 0..MaxGeneration
    BY BoundsAssumption
  <2> QED
    BY <2>1 DEF Member
<1>2. work \in [Keys -> WorkRow] /\ \A k \in Keys : work[k] = NoWork
  BY DEF NoWork, WorkRow
<1>3. actions \in [Keys -> ActionRow]
  BY DEF NoAction, ActionRow
<1>4. job \in [Runners -> [Participants -> Job]]
  BY DEF NoJobs, Job
<1>5. /\ revision \in 0..MaxTurns /\ revision < MaxTurns /\ checkpoints \in 0..MaxCheckpoints
      /\ phase \in [Runners -> 0..MaxTurns] /\ calls \in [Keys -> Nat]
      /\ held \in [Runners -> Nat] /\ epoch \in Nat
  BY BoundsAssumption
<1> QED
  BY <1>1, <1>2, <1>3, <1>4, <1>5 DEF TypeOK, NoWork

\* A delivered observation is one of the three kinds.
LEMMA DeliveredType ==
  ASSUME TypeOK, NEW k \in Keys
  PROVE  Delivered(k) \in [Keys -> {"none", "mute", "may"}]
BY DEF TypeOK, Delivered

\* Clearing a runner's iteration keeps its types.
LEMMA ClearsType ==
  ASSUME TypeOK, NEW t \in Runners, Clears(t)
  PROVE  /\ phase' \in [Runners -> 0..MaxTurns]
         /\ todo' \in [Runners -> SUBSET Participants]
         /\ job' \in [Runners -> [Participants -> Job]]
<1>1. NoJobs \in [Participants -> Job]
  BY DEF NoJobs, Job
<1>2. 0 \in 0..MaxTurns
  BY BoundsAssumption
<1> QED
  BY <1>1, <1>2 DEF TypeOK, Clears

\* So does the way out of an iteration.
LEMMA EndsType ==
  ASSUME TypeOK, NEW t \in Runners, Ends(t)
  PROVE  /\ pc' \in [Runners -> {"idle", "lease", "read", "drive", "resolve", "ending"}]
         /\ phase' \in [Runners -> 0..MaxTurns]
         /\ todo' \in [Runners -> SUBSET Participants]
         /\ job' \in [Runners -> [Participants -> Job]]
         /\ flights' \subseteq Flight
<1>1. pc' \in [Runners -> {"idle", "lease", "read", "drive", "resolve", "ending"}]
  BY DEF TypeOK, Ends, Goes
<1>2. \A f \in flights : [f EXCEPT !.cancelled = TRUE] \in Flight
  BY DEF TypeOK, Flight
<1>3. flights' \subseteq Flight
  BY <1>2 DEF TypeOK, Ends
<1> QED
  BY <1>1, <1>3, ClearsType DEF Ends

\* So does one future.
LEMMA JobType ==
  ASSUME TypeOK, NEW t \in Runners, NEW p \in Participants, NEW j \in Job
  PROVE  [job EXCEPT ![t][p] = j] \in [Runners -> [Participants -> Job]]
BY DEF TypeOK

\* A participant whose continuation moves is a participant.
LEMMA MemberType ==
  ASSUME TypeOK, NEW p \in Participants, NEW c \in Keys \cup {None}
  PROVE  [members EXCEPT ![p].continuation = c] \in [Participants -> Member]
<1>1. ASSUME NEW m \in Member PROVE [m EXCEPT !.continuation = c] \in Member
  BY DEF Member
<1>2. members \in [Participants -> Member]
  BY DEF TypeOK
<1> HIDE DEF Member
<1> QED
  BY <1>1, <1>2

\* A participant saves its state under a key of its own.
LEMMA MemoryType ==
  ASSUME TypeOK, NEW p \in Participants, NEW r \in Saving
  PROVE  [participant |-> p, revision |-> r, generation |-> members[p].generation] \in Keys
<1>1. r \in 0..(MaxTurns - 1)
  BY BoundsAssumption
<1>2. members[p].generation \in 0..MaxGeneration
  BY DEF TypeOK, Member
<1> QED
  BY <1>1, <1>2 DEF Keys

\* An operator's lease is a lease.
LEMMA LeaseType ==
  ASSUME TypeOK, UnderOwnLease
  PROVE  owner' \in Owners \cup {Nobody} /\ epoch' \in Nat
BY DEF TypeOK, UnderOwnLease

\* Work that is given up keeps its response, if it has one.
LEMMA AbandonedType ==
  ASSUME TypeOK, NEW k \in Keys
  PROVE  /\ Abandoned(k) \in WorkRow
         /\ (Abandoned(k).response # None) <=> (Abandoned(k).status = "responded")
         /\ Abandoned(k).response = work[k].response
BY DEF TypeOK, Abandoned, WorkRow

\* Every action keeps the types.
LEMMA TypePreserved == TypeOK /\ [Next]_vars => TypeOK'
<1> SUFFICES ASSUME TypeOK, [Next]_vars PROVE TypeOK'
  OBVIOUS
<1> USE BoundsAssumption, OwnersAssumption, PayloadAssumption
<1>1. ASSUME NEW t \in Runners, Begin(t) PROVE TypeOK'
  BY <1>1 DEF TypeOK, Begin, Goes, session, lease, journals, agents
<1>2. ASSUME NEW t \in Runners, Acquire(t) PROVE TypeOK'
  BY <1>2 DEF TypeOK, Acquire, Goes, session, journals, agents
<1>3. ASSUME NEW t \in Runners, Refused(t) PROVE TypeOK'
  BY <1>3, ClearsType DEF TypeOK, Refused, Goes, session, lease, journals, agents
<1>4. ASSUME NEW t \in Runners, ReadPhase(t) PROVE TypeOK'
  BY <1>4 DEF TypeOK, ReadPhase, Goes, Active, session, lease, journals, agents
<1>5. ASSUME NEW t \in Runners, NEW p \in Participants, Look(t, p) PROVE TypeOK'
  <2>1. offered' \in [Keys -> {"none", "mute", "may"}]
    BY <1>5, DeliveredType DEF Look
  <2>2. job' \in [Runners -> [Participants -> Job]]
    <3>1. [pc |-> "prepare", key |-> KeyOf(p), payload |-> None] \in Job
      BY <1>5 DEF Look, Job
    <3>2. \/ job' = [job EXCEPT ![t][p] = [pc |-> "prepare", key |-> KeyOf(p),
                                            payload |-> None]]
          \/ job' = job
      BY <1>5 DEF Look
    <3>3. CASE job' = job
      BY <3>3 DEF TypeOK
    <3>4. CASE job' = [job EXCEPT ![t][p] = [pc |-> "prepare", key |-> KeyOf(p),
                                             payload |-> None]]
      BY <3>1, <3>4, JobType
    <3> QED
      BY <3>2, <3>3, <3>4
  <2>3. todo' \in [Runners -> SUBSET Participants]
    BY <1>5 DEF TypeOK, Look
  <2> QED
    BY <1>5, <2>1, <2>2, <2>3 DEF TypeOK, Look, session, lease, agents
<1>6. ASSUME NEW t \in Runners, NEW p \in Participants, Prepare(t, p) PROVE TypeOK'
  <2> DEFINE k == job[t][p].key
  <2>1. k \in Keys
    BY <1>6 DEF TypeOK, Prepare, Job, NoJob
  <2>2. /\ work' \in [Keys -> WorkRow]
        /\ \A j \in Keys : (work'[j].response # None) <=> (work'[j].status = "responded")
    BY <1>6, <2>1 DEF TypeOK, Prepare, WorkRow
  <2>3. job' \in [Runners -> [Participants -> Job]]
    <3>1. CASE work[k].status = "responded"
      <4>1. [pc |-> "replied", key |-> k, payload |-> work[k].response] \in Job
        BY <1>6, <2>1 DEF TypeOK, WorkRow, Job
      <4> QED
        BY <1>6, <3>1, <4>1, JobType DEF Prepare
    <3>2. CASE work[k].status # "responded"
      <4>1. [pc |-> "queued", key |-> k, payload |-> None] \in Job
        BY <2>1 DEF Job
      <4> QED
        BY <1>6, <3>2, <4>1, JobType DEF Prepare
    <3> QED
      BY <3>1, <3>2
  <2>4. todo' \in [Runners -> SUBSET Participants]
    BY <1>6 DEF TypeOK, Prepare
  <2> QED
    BY <1>6, <2>2, <2>3, <2>4 DEF TypeOK, Prepare, session, lease, agents
<1>7. ASSUME NEW t \in Runners, NEW p \in Participants, InvokeStart(t, p) PROVE TypeOK'
  <2> DEFINE k == job[t][p].key
  <2>1. k \in Keys
    BY <1>7 DEF TypeOK, InvokeStart, Job, NoJob
  <2>2. [pc |-> "calling", key |-> k, payload |-> None] \in Job
    BY <2>1 DEF Job
  <2>3. job' \in [Runners -> [Participants -> Job]]
    BY <1>7, <2>2, JobType DEF InvokeStart
  <2>4. /\ work' \in [Keys -> WorkRow]
        /\ \A j \in Keys : (work'[j].response # None) <=> (work'[j].status = "responded")
    BY <1>7, <2>1 DEF TypeOK, InvokeStart, WorkRow
  <2>5. [key |-> k, runner |-> t, cancelled |-> FALSE] \in Flight
    BY <2>1 DEF TypeOK, Flight
  <2>6. flights' \subseteq Flight
    BY <1>7, <2>5 DEF TypeOK, InvokeStart
  <2>7. calls' \in [Keys -> Nat]
    BY <1>7, <2>1 DEF TypeOK, InvokeStart
  <2> QED
    BY <1>7, <2>3, <2>4, <2>6, <2>7 DEF TypeOK, InvokeStart, session, lease
<1>8. ASSUME NEW f \in flights, NEW r \in Payloads, InvokeReturns(f, r) PROVE TypeOK'
  <2>1. f \in Flight /\ f.key \in Keys /\ f.runner \in Runners /\ f.key.participant \in Participants
    BY DEF TypeOK, Flight, Keys
  <2>2. members' \in [Participants -> Member]
    BY <1>8, <2>1, MemberType DEF InvokeReturns
  <2>3. [pc |-> "replied", key |-> f.key, payload |-> r] \in Job
    BY <2>1 DEF Job
  <2>4. job' \in [Runners -> [Participants -> Job]]
    BY <1>8, <2>1, <2>3, JobType DEF InvokeReturns
  <2>5. /\ work' \in [Keys -> WorkRow]
        /\ \A j \in Keys : (work'[j].response # None) <=> (work'[j].status = "responded")
    BY <1>8, <2>1 DEF TypeOK, InvokeReturns, WorkRow
  <2> QED
    BY <1>8, <2>2, <2>4, <2>5 DEF TypeOK, InvokeReturns, lease
<1>9. ASSUME NEW f \in flights, InvokeFails(f) PROVE TypeOK'
  <2>1. f.key \in Keys
    BY DEF TypeOK, Flight
  <2>2. /\ Abandoned(f.key) \in WorkRow
        /\ (Abandoned(f.key).response # None) <=> (Abandoned(f.key).status = "responded")
    BY <2>1, AbandonedType
  <2>3. /\ work' \in [Keys -> WorkRow]
        /\ \A j \in Keys : (work'[j].response # None) <=> (work'[j].status = "responded")
    <3>1. PICK w \in WorkRow : /\ w = Abandoned(f.key)
                               /\ (w.response # None) <=> (w.status = "responded")
      BY <2>2
    <3>2. work' = [work EXCEPT ![f.key] = w]
      BY <1>9, <3>1 DEF InvokeFails
    <3> QED
      BY <2>1, <3>1, <3>2 DEF TypeOK
  <2> QED
    BY <1>9, <2>3 DEF TypeOK, InvokeFails, session, lease, runner
<1>10. ASSUME NEW t \in Runners, NEW p \in Participants, Submit(t, p) PROVE TypeOK'
  <2> DEFINE k == job[t][p].key
  <2>1. k \in Keys /\ job[t][p].payload \in Payloads \cup {None}
    BY <1>10 DEF TypeOK, Submit, Job, NoJob
  <2>2. Receipt(k, job[t][p].payload) \in ActionRow
    BY <2>1 DEF TypeOK, Receipt, ActionRow
  <2>3. actions' \in [Keys -> ActionRow]
    BY <1>10, <2>2 DEF TypeOK, Submit
  <2>4. CASE Ends(t)
    BY <1>10, <2>3, <2>4, EndsType DEF TypeOK, Submit, session, lease
  <2>5. CASE job' = [job EXCEPT ![t][p] = NoJob] /\ UNCHANGED <<pc, phase, todo, flights>>
    <3>1. job' \in [Runners -> [Participants -> Job]]
      BY <2>5, JobType DEF Job
    <3> QED
      BY <1>10, <2>3, <2>5, <3>1 DEF TypeOK, Submit, session, lease
  <2> QED
    BY <1>10, <2>4, <2>5 DEF Submit
<1>11. ASSUME NEW t \in Runners, ClosePhase(t) PROVE TypeOK'
  BY <1>11 DEF TypeOK, ClosePhase, Goes, lease, journals, agents
<1>12. ASSUME NEW t \in Runners, Resolve(t) PROVE TypeOK'
  <2>1. /\ revision' \in 0..MaxTurns
        /\ status' \in {"running", "completed"}
        /\ status' = "running" => revision' < MaxTurns
    BY <1>12 DEF TypeOK, Resolve
  <2>2. actions' \in [Keys -> ActionRow]
    <3>1. ASSUME NEW a \in ActionRow
          PROVE  [a EXCEPT !.status = "committed"] \in ActionRow
      BY DEF ActionRow
    <3>2. actions' = [k \in Keys |-> IF k.revision = revision /\ actions[k].status = "accepted"
                                       THEN [actions[k] EXCEPT !.status = "committed"]
                                       ELSE actions[k]]
      BY <1>12 DEF Resolve
    <3>3. \A k \in Keys : actions[k] \in ActionRow
      BY DEF TypeOK
    <3> HIDE DEF ActionRow
    <3> QED
      BY <3>1, <3>2, <3>3
  <2> QED
    BY <1>12, <2>1, <2>2, EndsType DEF TypeOK, Resolve, lease
<1>13. ASSUME NEW t \in Runners, Abort(t) PROVE TypeOK'
  BY <1>13, EndsType DEF TypeOK, Abort, session, lease, journals
<1>14. ASSUME NEW t \in Runners, Release(t) PROVE TypeOK'
  BY <1>14 DEF TypeOK, Release, Goes, session, journals, agents
<1>15. ASSUME NEW t \in Runners, Crash(t) PROVE TypeOK'
  BY <1>15, ClearsType DEF TypeOK, Crash, Goes, session, lease, journals
<1>16. CASE LeaseExpires
  BY <1>16 DEF TypeOK, LeaseExpires, session, journals, runner, agents
<1>17. CASE DeadlineElapses
  BY <1>17 DEF TypeOK, DeadlineElapses, lease, journals, runner, agents
<1>18. ASSUME NEW p \in Participants, Observe(p) PROVE TypeOK'
  BY <1>18, DeliveredType DEF TypeOK, Observe, session, lease, runner, agents
<1>19. ASSUME NEW p \in Participants, Decide(p) PROVE TypeOK'
  BY <1>19 DEF TypeOK, Decide, session, lease, runner, agents
<1>20. CASE Pause
  BY <1>20, LeaseType DEF TypeOK, Pause, journals, runner, agents
<1>21. CASE Resume
  BY <1>21, LeaseType DEF TypeOK, Resume, journals, runner, agents
<1>22. ASSUME NEW p \in Participants, NEW stays \in BOOLEAN, Transfer(p, stays) PROVE TypeOK'
  <2>1. members \in [Participants -> Member] /\ members[p] \in Member
    BY DEF TypeOK
  <2>2. members[p].generation + 1 \in 0..MaxGeneration
    BY <1>22, <2>1 DEF Transfer, Member
  <2>3. [members[p] EXCEPT !.active = stays, !.generation = @ + 1] \in Member
    BY <2>1, <2>2 DEF Member
  <2>4. members' \in [Participants -> Member]
    <3>1. members' = [members EXCEPT ![p] =
                        [members[p] EXCEPT !.active = stays, !.generation = @ + 1]]
      BY <1>22, <2>1, Zenon DEF Transfer
    <3> HIDE DEF Member
    <3> QED
      BY <2>1, <2>3, <3>1
  <2> QED
    BY <1>22, <2>4, LeaseType DEF TypeOK, Transfer, journals, runner, agents
<1>23. ASSUME NEW k \in Keys, NEW r \in Payloads, ReconcileAgent(k, r) PROVE TypeOK'
  <2>1. k.participant \in Participants
    BY DEF Keys
  <2>2. members' \in [Participants -> Member]
    BY <1>23, <2>1, MemberType DEF TypeOK, ReconcileAgent
  <2>3. /\ work' \in [Keys -> WorkRow]
        /\ \A j \in Keys : (work'[j].response # None) <=> (work'[j].status = "responded")
    BY <1>23 DEF TypeOK, ReconcileAgent, WorkRow
  <2> QED
    BY <1>23, <2>2, <2>3, LeaseType DEF TypeOK, ReconcileAgent, runner, agents
<1>24. CASE Checkpoint
  BY <1>24, LeaseType DEF TypeOK, Checkpoint, session, journals, runner, agents
<1>25. CASE Cancel
  <2>1. \A k \in Keys : /\ Withdrawn(k) \in WorkRow
                        /\ (Withdrawn(k).response # None) <=> (Withdrawn(k).status = "responded")
    BY AbandonedType DEF TypeOK, Withdrawn, WorkRow
  <2>2. work' = [k \in Keys |-> Withdrawn(k)]
    BY <1>25 DEF Cancel
  <2>3. /\ work' \in [Keys -> WorkRow]
        /\ \A j \in Keys : (work'[j].response # None) <=> (work'[j].status = "responded")
    BY <2>1, <2>2
  <2> QED
    BY <1>25, <2>3 DEF TypeOK, Cancel, runner, agents
<1>26. CASE UNCHANGED vars
  BY <1>26 DEF TypeOK, vars, session, lease, journals, runner, agents
<1>27. ASSUME NEW p \in Participants, NEW r \in Saving, Memory(p, r) PROVE TypeOK'
  <2>1. members' \in [Participants -> Member]
    BY <1>27, MemoryType, MemberType DEF Memory
  <2> QED
    BY <1>27, <2>1 DEF TypeOK, Memory, lease, journals, runner, agents
<1> QED
  BY <1>1, <1>2, <1>3, <1>4, <1>5, <1>6, <1>7, <1>8, <1>9, <1>10, <1>11, <1>12, <1>13, <1>14,
     <1>15, <1>16, <1>17, <1>18, <1>19, <1>20, <1>21, <1>22, <1>23, <1>24, <1>25, <1>26,
     <1>27 DEF Next, RunnerStep, AgentStep, Operator

\* Every column of the session, its agent journal and its runners keeps its
\* type; a response is recorded exactly with the status `responded`; and a
\* running session has a turn left.
THEOREM TypeCorrectness == Spec => []TypeOK
BY TypeAtInit, TypePreserved, PTL DEF Spec
-----------------------------------------------------------------------------
(***************************************************************************)
(* Invocations.                                                            *)
(***************************************************************************)
\* The status of work records whether its agent was called: once from its
\* dispatch on, never before.
CallsAreDispatches ==
  \A k \in Keys :
    calls[k] = IF work[k].status \in {"none", "prepared", "failed"} THEN 0 ELSE 1

\* The response a runner is about to submit is the saved one.
RepliesAreSaved ==
  \A t \in Runners, p \in Participants :
    job[t][p].pc = "replied" =>
      /\ work[job[t][p].key].status = "responded"
      /\ work[job[t][p].key].response = job[t][p].payload

\* So is the one that was submitted.
SubmissionsAreResponses ==
  \A k \in Keys :
    /\ actions[k].status = "none" => actions[k].payload = None
    /\ actions[k].status # "none" => /\ work[k].status = "responded"
                                     /\ work[k].response = actions[k].payload

InvocationInvariant ==
  TypeOK /\ CallsAreDispatches /\ RepliesAreSaved /\ SubmissionsAreResponses

\* A step that neither touches work, calls and submissions nor brings a reply.
Quiet ==
  /\ UNCHANGED <<work, calls, actions>>
  /\ \A t \in Runners, p \in Participants :
       job'[t][p] = job[t][p] \/ job'[t][p].pc # "replied"

\* The steps that are not quiet.
Loud ==
  \/ \E t \in Runners, p \in Participants : Prepare(t, p) \/ InvokeStart(t, p) \/ Submit(t, p)
  \/ \E t \in Runners : Resolve(t)
  \/ \E f \in flights : InvokeFails(f) \/ \E r \in Payloads : InvokeReturns(f, r)
  \/ \E k \in Keys, r \in Payloads : ReconcileAgent(k, r)
  \/ Cancel

\* A cleared runner has no reply.
LEMMA ClearsQuietly ==
  ASSUME TypeOK, NEW t \in Runners, Clears(t)
  PROVE  \A s \in Runners, p \in Participants :
           job'[s][p] = job[s][p] \/ job'[s][p].pc # "replied"
BY DEF TypeOK, Clears, NoJobs, NoJob

\* One future moves, the others stay.
LEMMA JobMoves ==
  ASSUME TypeOK, NEW t \in Runners, NEW p \in Participants, NEW j \in Job,
         job' = [job EXCEPT ![t][p] = j]
  PROVE  \A s \in Runners, q \in Participants :
           job'[s][q] = IF s = t /\ q = p THEN j ELSE job[s][q]
BY DEF TypeOK

\* Every other step is quiet.
LEMMA StepKinds == TypeOK /\ [Next]_vars => Quiet \/ Loud
<1> SUFFICES ASSUME TypeOK, [Next]_vars, ~Loud PROVE Quiet
  OBVIOUS
<1>1. ASSUME NEW t \in Runners, Begin(t) \/ Acquire(t) \/ ReadPhase(t) \/ Release(t)
                                \/ ClosePhase(t)
      PROVE  Quiet
  BY <1>1 DEF Quiet, Begin, Acquire, ReadPhase, Release, ClosePhase, journals, agents
<1>2. ASSUME NEW t \in Runners, Refused(t) \/ Abort(t) \/ Crash(t)
      PROVE  Quiet
  BY <1>2, ClearsQuietly DEF Quiet, Refused, Abort, Ends, Crash, journals, agents
<1>3. ASSUME NEW t \in Runners, NEW p \in Participants, Look(t, p)
      PROVE  Quiet
  <2>1. \A s \in Runners, q \in Participants :
          job'[s][q] = job[s][q] \/ job'[s][q].pc # "replied"
    <3>1. \/ job' = [job EXCEPT ![t][p] = [pc |-> "prepare", key |-> KeyOf(p),
                                            payload |-> None]]
          \/ job' = job
      BY <1>3 DEF Look
    <3>2. job' = job \/ [pc |-> "prepare", key |-> KeyOf(p), payload |-> None] \in Job
      BY <1>3, <3>1 DEF Look, Job
    <3> QED
      BY <3>1, <3>2, JobMoves
  <2> QED
    BY <1>3, <2>1 DEF Quiet, Look, agents
<1>4. CASE LeaseExpires \/ DeadlineElapses \/ Pause \/ Resume \/ Checkpoint
  BY <1>4 DEF Quiet, LeaseExpires, DeadlineElapses, Pause, Resume, Checkpoint, journals, runner,
     agents
<1>5. ASSUME NEW p \in Participants, Observe(p) \/ Decide(p)
      PROVE  Quiet
  BY <1>5 DEF Quiet, Observe, Decide, runner, agents
<1>6. ASSUME NEW p \in Participants, NEW stays \in BOOLEAN, Transfer(p, stays)
      PROVE  Quiet
  BY <1>6 DEF Quiet, Transfer, journals, runner, agents
<1>7. CASE UNCHANGED vars
  BY <1>7 DEF Quiet, vars, journals, runner, agents
<1>8. ASSUME NEW p \in Participants, NEW r \in Saving, Memory(p, r)
      PROVE  Quiet
  BY <1>8 DEF Quiet, Memory, journals, runner, agents
<1> QED
  BY <1>1, <1>2, <1>3, <1>4, <1>5, <1>6, <1>7, <1>8 DEF Next, RunnerStep, AgentStep, Operator, Loud

\* Nothing has been called, answered or submitted initially.
LEMMA InvocationAtInit == Init => InvocationInvariant
BY TypeAtInit DEF Init, InvocationInvariant, CallsAreDispatches, RepliesAreSaved,
   SubmissionsAreResponses, NoWork, NoAction, NoJobs, NoJob

\* A job that is not empty has the key of some work.
LEMMA JobHasKey ==
  ASSUME TypeOK, NEW t \in Runners, NEW p \in Participants, job[t][p].pc # "none"
  PROVE  job[t][p].key \in Keys
BY DEF TypeOK, Job, NoJob

\* The argument of every action that changes work: it leaves what has been
\* answered alone, so replies and submissions still agree with it.
LEMMA AnswersStay ==
  ASSUME InvocationInvariant,
         \A k \in Keys : work[k].status = "responded" => work'[k] = work[k]
  PROVE  /\ \A t \in Runners, p \in Participants :
              job[t][p].pc = "replied" =>
                /\ work'[job[t][p].key].status = "responded"
                /\ work'[job[t][p].key].response = job[t][p].payload
         /\ UNCHANGED actions => SubmissionsAreResponses'
<1>1. \A t \in Runners, p \in Participants :
        job[t][p].pc = "replied" => job[t][p].key \in Keys
  BY JobHasKey DEF InvocationInvariant
<1>2. \A t \in Runners, p \in Participants :
        job[t][p].pc = "replied" =>
          /\ work'[job[t][p].key].status = "responded"
          /\ work'[job[t][p].key].response = job[t][p].payload
  BY <1>1 DEF InvocationInvariant, RepliesAreSaved
<1>3. UNCHANGED actions => SubmissionsAreResponses'
  BY DEF InvocationInvariant, SubmissionsAreResponses
<1> QED
  BY <1>2, <1>3

\* resolve marks accepted actions as committed and changes no payload.
LEMMA ResolvedActions ==
  ASSUME TypeOK, NEW t \in Runners, Resolve(t)
  PROVE  \A k \in Keys : /\ actions'[k].payload = actions[k].payload
                         /\ actions'[k].status = "none" <=> actions[k].status = "none"
<1>1. \A k \in Keys : actions[k] \in ActionRow
  BY DEF TypeOK
<1>2. ASSUME NEW a \in ActionRow
      PROVE  LET b == [a EXCEPT !.status = "committed"]
             IN b.payload = a.payload /\ b.status = "committed"
  BY DEF ActionRow
<1>3. \A k \in Keys : actions'[k] = IF k.revision = revision /\ actions[k].status = "accepted"
                                       THEN [actions[k] EXCEPT !.status = "committed"]
                                       ELSE actions[k]
  BY DEF Resolve
<1> QED
  BY <1>1, <1>2, <1>3

\* Every step keeps the bookkeeping of invocations.
LEMMA InvocationPreserved == InvocationInvariant /\ [Next]_vars => InvocationInvariant'
<1> SUFFICES ASSUME InvocationInvariant, [Next]_vars
             PROVE  CallsAreDispatches' /\ RepliesAreSaved' /\ SubmissionsAreResponses'
  BY TypePreserved DEF InvocationInvariant
<1>0. TypeOK /\ CallsAreDispatches /\ RepliesAreSaved /\ SubmissionsAreResponses
  BY DEF InvocationInvariant
<1>1. CASE Quiet
  BY <1>0, <1>1 DEF Quiet, CallsAreDispatches, RepliesAreSaved, SubmissionsAreResponses
<1>2. ASSUME NEW t \in Runners, NEW p \in Participants, Prepare(t, p)
      PROVE  CallsAreDispatches' /\ RepliesAreSaved' /\ SubmissionsAreResponses'
  <2> DEFINE k == job[t][p].key
  <2>1. k \in Keys
    BY <1>0, <1>2, JobHasKey DEF Prepare
  <2>2. \A j \in Keys : work'[j] = IF j = k /\ work[k].status = "none"
                                     THEN [status |-> "prepared", response |-> None]
                                     ELSE work[j]
    BY <1>0, <1>2, <2>1 DEF Prepare, TypeOK
  <2>3. CallsAreDispatches'
    BY <1>0, <1>2, <2>2 DEF Prepare, CallsAreDispatches, agents
  <2>4. \A j \in Keys : work[j].status = "responded" => work'[j] = work[j]
    BY <2>2
  <2>5. SubmissionsAreResponses'
    BY <1>2, <2>4, AnswersStay DEF Prepare
  <2>6. PICK j \in Job : /\ job' = [job EXCEPT ![t][p] = j]
                         /\ j.pc = "replied" => /\ work[k].status = "responded" /\ j.key = k
                                                /\ j.payload = work[k].response
    <3>1. CASE work[k].status = "responded"
      <4>1. [pc |-> "replied", key |-> k, payload |-> work[k].response] \in Job
        BY <1>0, <2>1 DEF TypeOK, WorkRow, Job
      <4> QED
        BY <1>2, <3>1, <4>1 DEF Prepare
    <3>2. CASE work[k].status # "responded"
      <4>1. [pc |-> "queued", key |-> k, payload |-> None] \in Job
        BY <2>1 DEF Job
      <4> QED
        BY <1>2, <3>2, <4>1 DEF Prepare
    <3> QED
      BY <3>1, <3>2
  <2>7. \A s \in Runners, q \in Participants :
          job'[s][q] = IF s = t /\ q = p THEN j ELSE job[s][q]
    BY <1>0, <2>6, JobMoves
  <2>8. RepliesAreSaved'
    BY <2>1, <2>4, <2>6, <2>7, AnswersStay DEF RepliesAreSaved
  <2> QED
    BY <2>3, <2>5, <2>8
<1>3. ASSUME NEW t \in Runners, NEW p \in Participants, InvokeStart(t, p)
      PROVE  CallsAreDispatches' /\ RepliesAreSaved' /\ SubmissionsAreResponses'
  <2> DEFINE k == job[t][p].key
             j == [pc |-> "calling", key |-> k, payload |-> None]
  <2>1. k \in Keys /\ work[k].status = "prepared"
    BY <1>0, <1>3, JobHasKey DEF InvokeStart, Dispatchable
  <2>2. \A i \in Keys : work'[i] = IF i = k THEN [status |-> "dispatching", response |-> None]
                                     ELSE work[i]
    BY <1>0, <1>3, <2>1 DEF InvokeStart, TypeOK
  <2>3. CallsAreDispatches'
    <3>1. \A i \in Keys : calls'[i] = IF i = k THEN calls[i] + 1 ELSE calls[i]
      BY <1>0, <1>3, <2>1 DEF InvokeStart, TypeOK
    <3> QED
      BY <1>0, <2>1, <2>2, <3>1 DEF CallsAreDispatches
  <2>4. \A i \in Keys : work[i].status = "responded" => work'[i] = work[i]
    BY <2>1, <2>2
  <2>5. SubmissionsAreResponses'
    BY <1>3, <2>4, AnswersStay DEF InvokeStart
  <2>6. \A s \in Runners, q \in Participants :
          job'[s][q] = IF s = t /\ q = p THEN j ELSE job[s][q]
    <3>1. j \in Job /\ job' = [job EXCEPT ![t][p] = j]
      BY <1>3, <2>1 DEF InvokeStart, Job
    <3> QED
      BY <1>0, <3>1, JobMoves
  <2>7. RepliesAreSaved'
    BY <2>4, <2>6, AnswersStay DEF RepliesAreSaved
  <2> QED
    BY <2>3, <2>5, <2>7
<1>4. ASSUME NEW t \in Runners, NEW p \in Participants, Submit(t, p)
      PROVE  CallsAreDispatches' /\ RepliesAreSaved' /\ SubmissionsAreResponses'
  <2> DEFINE k == job[t][p].key
             r == job[t][p].payload
  <2>1. /\ k \in Keys /\ work' = work /\ calls' = calls
        /\ work[k].status = "responded" /\ work[k].response = r
    BY <1>0, <1>4, JobHasKey DEF Submit, RepliesAreSaved
  <2>2. \A i \in Keys : actions'[i] = IF i = k THEN Receipt(k, r) ELSE actions[i]
    BY <1>0, <1>4, <2>1 DEF Submit, TypeOK
  <2>3. Receipt(k, r).status # "none" /\ Receipt(k, r).payload = r
    BY <1>0, <2>1 DEF Receipt, SubmissionsAreResponses
  <2>4. SubmissionsAreResponses'
    BY <1>0, <2>1, <2>2, <2>3 DEF SubmissionsAreResponses
  <2>5. \A s \in Runners, q \in Participants :
          job'[s][q] = job[s][q] \/ job'[s][q].pc # "replied"
    <3>1. CASE Clears(t)
      BY <1>0, <3>1, ClearsQuietly
    <3>2. CASE job' = [job EXCEPT ![t][p] = NoJob]
      BY <1>0, <3>2, JobMoves DEF Job, NoJob
    <3> QED
      BY <1>4, <3>1, <3>2 DEF Submit, Ends
  <2> QED
    BY <1>0, <2>1, <2>4, <2>5 DEF CallsAreDispatches, RepliesAreSaved
<1>5. ASSUME NEW t \in Runners, Resolve(t)
      PROVE  CallsAreDispatches' /\ RepliesAreSaved' /\ SubmissionsAreResponses'
  <2>1. work' = work /\ calls' = calls
    BY <1>5 DEF Resolve
  <2>2. \A s \in Runners, q \in Participants :
          job'[s][q] = job[s][q] \/ job'[s][q].pc # "replied"
    BY <1>0, <1>5, ClearsQuietly DEF Resolve, Ends
  <2>3. SubmissionsAreResponses'
    <3>1. \A k \in Keys : /\ actions'[k].payload = actions[k].payload
                          /\ actions'[k].status = "none" <=> actions[k].status = "none"
      BY <1>0, <1>5, ResolvedActions
    <3>2. ASSUME NEW k \in Keys
          PROVE  /\ actions'[k].status = "none" => actions'[k].payload = None
                 /\ actions'[k].status # "none" =>
                      /\ work'[k].status = "responded"
                      /\ work'[k].response = actions'[k].payload
      <4>1. CASE actions[k].status = "none"
        BY <1>0, <3>1, <4>1 DEF SubmissionsAreResponses
      <4>2. CASE actions[k].status # "none"
        <5>1. actions'[k].payload = actions[k].payload
          BY <3>1
        <5>2. /\ work[k].status = "responded"
              /\ work[k].response = actions[k].payload
          BY <1>0, <4>2 DEF SubmissionsAreResponses
        <5>3. work'[k] = work[k]
          BY <2>1
        <5>4. actions'[k].status # "none"
          BY <3>1, <4>2
        <5> QED
          BY <5>1, <5>2, <5>3, <5>4
      <4> QED
        BY <4>1, <4>2
    <3> QED
      BY <3>2 DEF SubmissionsAreResponses
  <2> QED
    BY <1>0, <2>1, <2>2, <2>3 DEF CallsAreDispatches, RepliesAreSaved
<1>6. ASSUME NEW f \in flights, InvokeFails(f)
      PROVE  CallsAreDispatches' /\ RepliesAreSaved' /\ SubmissionsAreResponses'
  <2>1. f.key \in Keys
    BY <1>0 DEF TypeOK, Flight
  <2>2. \A i \in Keys : work'[i] = IF i = f.key THEN Abandoned(i) ELSE work[i]
    BY <1>0, <1>6, <2>1 DEF InvokeFails, TypeOK
  <2>3. \A i \in Keys : work[i].status = "responded" => work'[i] = work[i]
    BY <2>2 DEF Abandoned
  <2>4. CallsAreDispatches'
    <3>1. \A i \in Keys : Abandoned(i).status =
                            IF work[i].status = "dispatching" THEN "unknown" ELSE work[i].status
      BY <1>0 DEF TypeOK, WorkRow, Abandoned
    <3> QED
      BY <1>0, <1>6, <2>2, <3>1 DEF InvokeFails, CallsAreDispatches
  <2> QED
    BY <1>6, <2>3, <2>4, AnswersStay DEF InvokeFails, RepliesAreSaved, runner
<1>7. ASSUME NEW f \in flights, NEW r \in Payloads, InvokeReturns(f, r)
      PROVE  CallsAreDispatches' /\ RepliesAreSaved' /\ SubmissionsAreResponses'
  <2> DEFINE j == [pc |-> "replied", key |-> f.key, payload |-> r]
  <2>1. /\ f.key \in Keys /\ f.runner \in Runners /\ f.key.participant \in Participants
        /\ work[f.key].status = "dispatching"
    BY <1>0, <1>7 DEF TypeOK, Flight, Keys, InvokeReturns, OwnsDispatch
  <2>2. \A i \in Keys : work'[i] = IF i = f.key THEN [status |-> "responded", response |-> r]
                                     ELSE work[i]
    BY <1>0, <1>7, <2>1 DEF InvokeReturns, TypeOK
  <2>3. \A i \in Keys : work[i].status = "responded" => work'[i] = work[i]
    BY <2>1, <2>2
  <2>4. CallsAreDispatches'
    BY <1>0, <1>7, <2>1, <2>2 DEF InvokeReturns, CallsAreDispatches
  <2>5. \A s \in Runners, q \in Participants :
          job'[s][q] = IF s = f.runner /\ q = f.key.participant THEN j ELSE job[s][q]
    <3>1. j \in Job
      BY <2>1 DEF Job
    <3>2. PICK t \in Runners, p \in Participants : t = f.runner /\ p = f.key.participant
      BY <2>1
    <3>3. job' = [job EXCEPT ![t][p] = j]
      BY <1>7, <3>2 DEF InvokeReturns
    <3> HIDE DEF j
    <3>4. \A s \in Runners, q \in Participants :
            job'[s][q] = IF s = t /\ q = p THEN j ELSE job[s][q]
      BY <1>0, <3>1, <3>3, JobMoves
    <3> QED
      BY <3>2, <3>4
  <2>6. RepliesAreSaved'
    BY <2>1, <2>2, <2>3, <2>5, AnswersStay DEF RepliesAreSaved
  <2> QED
    BY <1>7, <2>3, <2>4, <2>6, AnswersStay DEF InvokeReturns
<1>8. ASSUME NEW k \in Keys, NEW r \in Payloads, ReconcileAgent(k, r)
      PROVE  CallsAreDispatches' /\ RepliesAreSaved' /\ SubmissionsAreResponses'
  <2>1. \A i \in Keys : work'[i] = IF i = k THEN [status |-> "responded", response |-> r]
                                     ELSE work[i]
    BY <1>0, <1>8 DEF ReconcileAgent, TypeOK
  <2>2. \A i \in Keys : work[i].status = "responded" => work'[i] = work[i]
    BY <1>8, <2>1 DEF ReconcileAgent, Recoverable
  <2>3. CallsAreDispatches'
    BY <1>0, <1>8, <2>1 DEF ReconcileAgent, Recoverable, CallsAreDispatches, agents
  <2> QED
    BY <1>8, <2>2, <2>3, AnswersStay DEF ReconcileAgent, RepliesAreSaved, runner
<1>9. CASE Cancel
  <2>1. \A i \in Keys : work'[i] = Withdrawn(i)
    BY <1>9 DEF Cancel
  <2>2. \A i \in Keys : work[i].status = "responded" => work'[i] = work[i]
    BY <2>1 DEF Withdrawn, Abandoned
  <2>3. CallsAreDispatches'
    <3>1. \A i \in Keys : Withdrawn(i).status =
                            CASE work[i].status = "prepared" -> "failed"
                              [] work[i].status = "dispatching" -> "unknown"
                              [] OTHER -> work[i].status
      BY <1>0 DEF TypeOK, WorkRow, Withdrawn, Abandoned
    <3> QED
      BY <1>0, <1>9, <2>1, <3>1 DEF Cancel, CallsAreDispatches, agents
  <2> QED
    BY <1>9, <2>2, <2>3, AnswersStay DEF Cancel, RepliesAreSaved, runner
<1> QED
  BY <1>0, <1>1, <1>2, <1>3, <1>4, <1>5, <1>6, <1>7, <1>8, <1>9, StepKinds DEF Loud

\* No agent is called twice for one decision, for any number of runners and
\* of lease holders, and whenever runners crash or answers arrive.
THEOREM AgentsAreCalledOnce == Spec => []AgentCalledOnce
<1>1. InvocationInvariant => AgentCalledOnce
  BY DEF InvocationInvariant, CallsAreDispatches, AgentCalledOnce
<1> QED
  BY <1>1, InvocationAtInit, InvocationPreserved, PTL DEF Spec
------------------------------------------------------------------------------
(***************************************************************************)
(* The refinement of InvocationLedger.                                     *)
(***************************************************************************)
\* What leaves calls, responses and payloads as they are is a stutter of the ledger.
LEMMA LedgerStutters ==
  ASSUME UNCHANGED calls,
         \A k \in Keys : work'[k].response = work[k].response,
         \A k \in Keys : actions'[k].payload = actions[k].payload
  PROVE  UNCHANGED Invocation!vars
BY DEF Invocation!vars

\* One response recorded for work that was called and not answered.
LEMMA LedgerAnswers ==
  ASSUME UNCHANGED <<calls, actions>>, NEW k \in Keys, NEW r \in Payloads,
         calls[k] > 0, work[k].response = None,
         \A i \in Keys : work'[i].response = IF i = k THEN r ELSE work[i].response
  PROVE  Invocation!Answer(k, r)
<1>1. [i \in Keys |-> work'[i].response] =
        [[i \in Keys |-> work[i].response] EXCEPT ![k] = r]
  OBVIOUS
<1> QED
  BY <1>1 DEF Invocation!Answer

\* Ambiguous work has been called and has no response yet.
LEMMA CalledAndUnanswered ==
  ASSUME TypeOK, CallsAreDispatches, NEW k \in Keys,
         work[k].status \in {"dispatching", "unknown"}
  PROVE  calls[k] > 0 /\ work[k].response = None
<1>1. calls[k] = 1
  BY DEF CallsAreDispatches
<1>2. work[k].response = None
  BY DEF TypeOK
<1> QED
  BY <1>1, <1>2

\* Work that is not marked as responded keeps its response, None, when it is
\* abandoned or withdrawn.
LEMMA AbandonedResponses ==
  ASSUME TypeOK, NEW k \in Keys
  PROVE  Abandoned(k).response = work[k].response /\ Withdrawn(k).response = work[k].response
BY DEF TypeOK, WorkRow, Abandoned, Withdrawn

\* Every step of the journal is a step of the ledger or leaves it alone.
LEMMA InvocationSteps ==
  InvocationInvariant /\ [Next]_vars => [Invocation!Next]_(Invocation!vars)
<1> SUFFICES ASSUME InvocationInvariant, [Next]_vars
             PROVE  Invocation!Next \/ UNCHANGED Invocation!vars
  OBVIOUS
<1>0. TypeOK /\ CallsAreDispatches /\ RepliesAreSaved /\ SubmissionsAreResponses
  BY DEF InvocationInvariant
<1>1. CASE Quiet
  BY <1>1, LedgerStutters DEF Quiet
<1>2. ASSUME NEW t \in Runners, NEW p \in Participants, Prepare(t, p)
      PROVE  UNCHANGED Invocation!vars
  <2>1. job[t][p].key \in Keys
    BY <1>0, <1>2, JobHasKey DEF Prepare
  <2>2. \A i \in Keys : work'[i].response = work[i].response
    BY <1>0, <1>2, <2>1 DEF Prepare, TypeOK, WorkRow
  <2> QED
    BY <1>2, <2>2, LedgerStutters DEF Prepare, agents
<1>3. ASSUME NEW t \in Runners, NEW p \in Participants, InvokeStart(t, p)
      PROVE  \E k \in Keys : Invocation!Ask(k)
  <2> DEFINE k == job[t][p].key
  <2>1. k \in Keys /\ work[k].status = "prepared" /\ calls[k] = 0 /\ work[k].response = None
    BY <1>0, <1>3, JobHasKey DEF InvokeStart, Dispatchable, CallsAreDispatches, TypeOK
  <2>2. \A i \in Keys : work'[i].response = work[i].response
    BY <1>0, <1>3, <2>1 DEF InvokeStart, TypeOK
  <2>3. \A i \in Keys : calls'[i] = IF i = k THEN 1 ELSE calls[i]
    BY <1>0, <1>3, <2>1 DEF InvokeStart, TypeOK
  <2>4. {i \in Keys : calls'[i] > 0} = {i \in Keys : calls[i] > 0} \cup {k}
    BY <2>1, <2>3
  <2>5. actions' = actions
    BY <1>3 DEF InvokeStart
  <2>6. k \notin {i \in Keys : calls[i] > 0}
    BY <2>1
  <2> HIDE DEF k
  <2> QED
    BY <2>1, <2>2, <2>4, <2>5, <2>6 DEF Invocation!Ask
<1>4. ASSUME NEW t \in Runners, NEW p \in Participants, Submit(t, p)
      PROVE  Invocation!Next \/ UNCHANGED Invocation!vars
  <2> DEFINE k == job[t][p].key
             r == job[t][p].payload
  <2>1. /\ k \in Keys /\ work' = work /\ calls' = calls
        /\ work[k].status = "responded" /\ work[k].response = r
    BY <1>0, <1>4, JobHasKey DEF Submit, RepliesAreSaved
  <2>2. \A i \in Keys : actions'[i] = IF i = k THEN Receipt(k, r) ELSE actions[i]
    BY <1>0, <1>4, <2>1 DEF Submit, TypeOK
  <2>3. CASE actions[k].status = "none"
    <3>1. actions[k].payload = None /\ r # None
      BY <1>0, <2>1, <2>3 DEF SubmissionsAreResponses, TypeOK
    <3>2. Receipt(k, r).payload = r
      BY <2>3 DEF Receipt
    <3>3. [i \in Keys |-> actions'[i].payload] =
            [[i \in Keys |-> actions[i].payload] EXCEPT ![k] = r]
      BY <2>1, <2>2, <3>2
    <3> HIDE DEF k, r
    <3>4. \E i \in Keys : Invocation!Decide(i)
      BY <2>1, <3>1, <3>3 DEF Invocation!Decide
    <3> QED
      BY <3>4 DEF Invocation!Next
  <2>4. CASE actions[k].status # "none"
    <3>1. \A i \in Keys : actions'[i] = actions[i]
      BY <2>2, <2>4 DEF Receipt
    <3> QED
      BY <2>1, <3>1, LedgerStutters
  <2> QED
    BY <2>3, <2>4
<1>5. ASSUME NEW t \in Runners, Resolve(t)
      PROVE  UNCHANGED Invocation!vars
  <2>1. \A k \in Keys : actions'[k].payload = actions[k].payload
    BY <1>0, <1>5, ResolvedActions
  <2> QED
    BY <1>5, <2>1, LedgerStutters DEF Resolve
<1>6. ASSUME NEW f \in flights, InvokeFails(f)
      PROVE  UNCHANGED Invocation!vars
  <2>1. f.key \in Keys
    BY <1>0 DEF TypeOK, Flight
  <2>2. \A i \in Keys : work'[i].response = work[i].response
    BY <1>0, <1>6, <2>1, AbandonedResponses DEF InvokeFails, TypeOK
  <2> QED
    BY <1>6, <2>2, LedgerStutters DEF InvokeFails
<1>7. ASSUME NEW f \in flights, NEW r \in Payloads, InvokeReturns(f, r)
      PROVE  Invocation!Answer(f.key, r) /\ f.key \in Keys
  <2>0. f.key \in Keys /\ work[f.key].status = "dispatching"
    BY <1>0, <1>7 DEF TypeOK, Flight, InvokeReturns, OwnsDispatch
  <2>1. calls[f.key] > 0 /\ work[f.key].response = None
    BY <1>0, <2>0, CalledAndUnanswered
  <2>2. \A i \in Keys : work'[i].response = IF i = f.key THEN r ELSE work[i].response
    BY <1>0, <1>7, <2>0 DEF InvokeReturns, TypeOK
  <2> QED
    BY <1>7, <2>0, <2>1, <2>2, LedgerAnswers DEF InvokeReturns
<1>8. ASSUME NEW k \in Keys, NEW r \in Payloads, ReconcileAgent(k, r)
      PROVE  Invocation!Answer(k, r)
  <2>1. calls[k] > 0 /\ work[k].response = None
    BY <1>0, <1>8, CalledAndUnanswered DEF ReconcileAgent, Recoverable
  <2>2. \A i \in Keys : work'[i].response = IF i = k THEN r ELSE work[i].response
    BY <1>0, <1>8 DEF ReconcileAgent, TypeOK
  <2> QED
    BY <1>8, <2>1, <2>2, LedgerAnswers DEF ReconcileAgent, agents
<1>9. CASE Cancel
  <2>1. \A i \in Keys : work'[i].response = work[i].response
    BY <1>0, <1>9, AbandonedResponses DEF Cancel
  <2> QED
    BY <1>9, <2>1, LedgerStutters DEF Cancel, agents
<1> QED
  BY <1>0, <1>1, <1>2, <1>3, <1>4, <1>5, <1>6, <1>7, <1>8, <1>9, StepKinds
     DEF Loud, Invocation!Next

\* The journal implements the ledger of invocations for any roster, any
\* number of runners and any bounds: a response is recorded once, for work
\* that was called, and what is submitted for it is that response.
THEOREM JournalImplementsInvocations == Spec => ImplementsInvocations
<1>1. Init => Invocation!Init
  BY DEF Init, NoWork, NoAction, Invocation!Init
<1> QED
  BY <1>1, InvocationAtInit, InvocationPreserved, InvocationSteps, PTL
     DEF Spec, ImplementsInvocations, Invocation!Spec
------------------------------------------------------------------------------
(***************************************************************************)
(* Phases and controllers: the work there is belongs to those the session  *)
(* has reached.                                                            *)
(***************************************************************************)
\* Work exists for phases and controllers the session has reached; a session
\* that completed has none in the phase it would have entered.
WorkIsReached ==
  \A k \in Keys : work[k].status # "none" =>
    /\ k.revision <= revision
    /\ k.generation <= members[k.participant].generation
    /\ status = "completed" => k.revision < revision

\* So do the jobs of runners, some of which began with an earlier phase.
JobsAreReached ==
  \A t \in Runners, p \in Participants :
    job[t][p].pc # "none" => job[t][p].key.revision <= revision

\* A cancelled session has nothing marked as being dispatched.
NothingRunsOn ==
  status = "cancelled" => \A k \in Keys : work[k].status # "dispatching"

ReachInvariant == InvocationInvariant /\ WorkIsReached /\ JobsAreReached /\ NothingRunsOn

\* Revisions and generations grow, final statuses are final, and a session
\* completes by entering a phase.
LEMMA SessionMoves ==
  ASSUME TypeOK, [Next]_vars
  PROVE  /\ revision' >= revision
         /\ \A p \in Participants : members'[p].generation >= members[p].generation
         /\ status' = "completed" => \/ status = "completed" /\ revision' = revision
                                     \/ revision' = revision + 1
         /\ status' = "cancelled" => status = "cancelled" \/ Cancel
         /\ status = "cancelled" => status' = "cancelled"
<1>0. /\ revision \in Nat /\ members \in [Participants -> Member]
      /\ \A p \in Participants : members[p].generation \in Nat
  BY BoundsAssumption DEF TypeOK, Member
<1>1. ASSUME NEW t \in Runners, RunnerStep(t)
      PROVE  \/ UNCHANGED <<status, revision, members>>
             \/ /\ status = "running" /\ status' # "cancelled"
                /\ revision' = revision + 1 /\ members' = members
  <2>1. CASE Resolve(t)
    BY <2>1 DEF TypeOK, Resolve
  <2> QED
    BY <1>1, <2>1 DEF RunnerStep, Begin, Acquire, Refused, ReadPhase, Look, Prepare, InvokeStart,
                      Submit, ClosePhase, Abort, Release, Crash, session
<1>2. ASSUME AgentStep
      PROVE  /\ UNCHANGED <<status, revision>>
             /\ \A p \in Participants : members'[p].generation = members[p].generation
  <2>1. ASSUME NEW f \in flights, InvokeFails(f)
        PROVE  UNCHANGED <<status, revision, members>>
    BY <2>1 DEF InvokeFails, session
  <2>2. ASSUME NEW f \in flights, NEW r \in Payloads, InvokeReturns(f, r)
        PROVE  /\ UNCHANGED <<status, revision>>
               /\ \A p \in Participants : members'[p].generation = members[p].generation
    BY <1>0, <2>2 DEF InvokeReturns, Member
  <2> QED
    BY <1>2, <2>1, <2>2 DEF AgentStep
<1>3. ASSUME NEW p \in Participants, NEW stays \in BOOLEAN, Transfer(p, stays)
      PROVE  /\ UNCHANGED <<status, revision>>
             /\ \A q \in Participants : members'[q].generation >= members[q].generation
  BY <1>0, <1>3 DEF Transfer, Member
<1>4. ASSUME NEW k \in Keys, NEW r \in Payloads, ReconcileAgent(k, r)
      PROVE  /\ UNCHANGED <<status, revision>>
             /\ \A p \in Participants : members'[p].generation = members[p].generation
  BY <1>0, <1>4 DEF ReconcileAgent, Member
<1>5. CASE Pause \/ Resume \/ Cancel
  BY <1>0, <1>5 DEF Pause, Resume, Cancel
<1>6. CASE \/ \E p \in Participants : Observe(p) \/ Decide(p)
           \/ Checkpoint \/ LeaseExpires \/ DeadlineElapses \/ UNCHANGED vars
  BY <1>0, <1>6 DEF Observe, Decide, Checkpoint, LeaseExpires, DeadlineElapses, vars, session
<1>7. ASSUME NEW p \in Participants, NEW r \in Saving, Memory(p, r)
      PROVE  /\ UNCHANGED <<status, revision>>
             /\ \A q \in Participants : members'[q].generation = members[q].generation
  BY <1>0, <1>7 DEF Memory, Member
<1> QED
  BY <1>0, <1>1, <1>2, <1>3, <1>4, <1>5, <1>6, <1>7 DEF Next, Operator

\* What a step does to a row of agent_work.
LEMMA WorkMoves ==
  ASSUME InvocationInvariant, [Next]_vars, NEW k \in Keys
  PROVE  \/ work'[k] = work[k] /\ ~ Cancel
         \/ /\ work[k].status = "none" /\ work'[k].status = "prepared"
            /\ status = "running" /\ UNCHANGED <<status, revision, members>> /\ Authorized(k)
            /\ \E t \in Runners, p \in Participants :
                 job[t][p].pc = "prepare" /\ job[t][p].key = k
         \/ /\ work[k].status = "prepared" /\ work'[k].status = "dispatching"
            /\ status' = "running"
         \/ /\ work[k].status \notin {"none", "responded"}
            /\ work'[k].status \in {"unknown", "failed"}
         \/ work'[k] = work[k] /\ work[k].status # "dispatching"
         \/ /\ work[k].status \in {"dispatching", "unknown"} /\ work'[k].status = "responded"
            /\ k.revision = revision /\ Authorized(k)
<1>0. TypeOK
  BY DEF InvocationInvariant
<1>1. CASE UNCHANGED work /\ ~Cancel
  BY <1>1
<1>2. ASSUME NEW t \in Runners, NEW p \in Participants, Prepare(t, p)
      PROVE  \/ work'[k] = work[k] /\ ~ Cancel
             \/ /\ work[k].status = "none" /\ work'[k].status = "prepared"
                /\ status = "running" /\ UNCHANGED <<status, revision, members>> /\ Authorized(k)
                /\ job[t][p].pc = "prepare" /\ job[t][p].key = k
  <2>1. job[t][p].key \in Keys
    BY <1>0, <1>2, JobHasKey DEF Prepare
  <2>2. ~Cancel
    BY <1>2 DEF Prepare, Cancel, session
  <2> QED
    BY <1>0, <1>2, <2>1, <2>2 DEF Prepare, TypeOK, session
<1>3. ASSUME NEW t \in Runners, NEW p \in Participants, InvokeStart(t, p)
      PROVE  \/ work'[k] = work[k] /\ ~ Cancel
             \/ /\ work[k].status = "prepared" /\ work'[k].status = "dispatching"
                /\ status' = "running"
  <2>1. job[t][p].key \in Keys
    BY <1>0, <1>3, JobHasKey DEF InvokeStart
  <2>2. ~Cancel
    BY <1>3 DEF InvokeStart, Cancel, session
  <2> QED
    BY <1>0, <1>3, <2>1, <2>2 DEF InvokeStart, Dispatchable, TypeOK, session
<1>4. ASSUME NEW f \in flights, InvokeFails(f)
      PROVE  \/ work'[k] = work[k] /\ ~ Cancel
             \/ work[k].status = "dispatching" /\ work'[k].status = "unknown"
  <2>1. f.key \in Keys
    BY <1>0 DEF TypeOK, Flight
  <2>2. ~Cancel
    BY <1>4 DEF InvokeFails, Cancel, session
  <2> QED
    BY <1>0, <1>4, <2>1, <2>2 DEF InvokeFails, Abandoned, TypeOK, WorkRow
<1>5. ASSUME NEW f \in flights, NEW r \in Payloads, InvokeReturns(f, r)
      PROVE  \/ work'[k] = work[k] /\ ~ Cancel
             \/ /\ work[k].status = "dispatching" /\ work'[k].status = "responded"
                /\ k.revision = revision /\ Authorized(k)
  <2>1. f.key \in Keys
    BY <1>0 DEF TypeOK, Flight
  <2>2. ~Cancel
    BY <1>5 DEF InvokeReturns, Cancel
  <2> QED
    BY <1>0, <1>5, <2>1, <2>2 DEF InvokeReturns, OwnsDispatch, TypeOK
<1>6. ASSUME NEW j \in Keys, NEW r \in Payloads, ReconcileAgent(j, r)
      PROVE  \/ work'[k] = work[k] /\ ~ Cancel
             \/ /\ work[k].status \in {"dispatching", "unknown"} /\ work'[k].status = "responded"
                /\ k.revision = revision /\ Authorized(k)
  <2>1. ~Cancel
    BY <1>6 DEF ReconcileAgent, Cancel
  <2> QED
    BY <1>0, <1>6, <2>1 DEF ReconcileAgent, Recoverable, TypeOK
<1>7. CASE Cancel
  <2>1. work'[k] = Withdrawn(k)
    BY <1>7 DEF Cancel
  <2> QED
    BY <1>0, <2>1 DEF Withdrawn, Abandoned, TypeOK, WorkRow
<1>8. ASSUME NEW t \in Runners, NEW p \in Participants, Submit(t, p) \/ Resolve(t)
      PROVE  UNCHANGED work
  BY <1>8 DEF Submit, Resolve
<1> QED
  BY <1>0, <1>1, <1>2, <1>3, <1>4, <1>5, <1>6, <1>7, <1>8, StepKinds, RosterAssumption
  DEF Loud, Quiet

\* A job a step brings is of a participant's present decision.
LEMMA JobsMove ==
  ASSUME TypeOK, [Next]_vars
  PROVE  \A t \in Runners, p \in Participants : job'[t][p].pc # "none" =>
           \/ job[t][p].pc # "none" /\ job'[t][p].key = job[t][p].key
           \/ job'[t][p].key.revision = revision
<1> DEFINE Moved == \A t \in Runners, p \in Participants : job'[t][p].pc # "none" =>
                      \/ job[t][p].pc # "none" /\ job'[t][p].key = job[t][p].key
                      \/ job'[t][p].key.revision = revision
<1>1. CASE UNCHANGED job
  BY <1>1
<1>2. ASSUME NEW u \in Runners, Clears(u) PROVE Moved
  BY <1>2 DEF TypeOK, Clears, NoJobs, NoJob
<1>3. ASSUME NEW u \in Runners, NEW q \in Participants, Look(u, q) PROVE Moved
  <2>1. CASE job' = job
    BY <2>1
  <2>2. CASE job' = [job EXCEPT ![u][q] = [pc |-> "prepare", key |-> KeyOf(q), payload |-> None]]
    <3>1. [pc |-> "prepare", key |-> KeyOf(q), payload |-> None] \in Job
      BY <1>3 DEF Look, Job
    <3>2. \A s \in Runners, x \in Participants :
            job'[s][x] = IF s = u /\ x = q
                           THEN [pc |-> "prepare", key |-> KeyOf(q), payload |-> None]
                           ELSE job[s][x]
      BY <2>2, <3>1, JobMoves
    <3> QED
      BY <3>2 DEF KeyOf
  <2> QED
    BY <1>3, <2>1, <2>2 DEF Look
<1>4. ASSUME NEW u \in Runners, NEW q \in Participants,
             Prepare(u, q) \/ InvokeStart(u, q)
      PROVE  Moved
  <2>1. job[u][q].pc \in {"prepare", "queued"}
    BY <1>4 DEF Prepare, InvokeStart
  <2>2. job[u][q].key \in Keys
    BY <2>1, JobHasKey
  <2>3. \E j \in Job : j.key = job[u][q].key /\ job' = [job EXCEPT ![u][q] = j]
    <3>1. CASE InvokeStart(u, q)
      <4>1. [pc |-> "calling", key |-> job[u][q].key, payload |-> None] \in Job
        BY <2>2 DEF Job
      <4> QED
        BY <3>1, <4>1 DEF InvokeStart
    <3>2. CASE Prepare(u, q)
      <4>1. /\ [pc |-> "queued", key |-> job[u][q].key, payload |-> None] \in Job
            /\ [pc |-> "replied", key |-> job[u][q].key,
                payload |-> work[job[u][q].key].response] \in Job
        BY <2>2 DEF Job, TypeOK, WorkRow
      <4> QED
        BY <3>2, <4>1 DEF Prepare
    <3> QED
      BY <1>4, <3>1, <3>2
  <2>4. PICK j \in Job : j.key = job[u][q].key /\ job' = [job EXCEPT ![u][q] = j]
    BY <2>3
  <2>5. \A s \in Runners, x \in Participants :
          job'[s][x] = IF s = u /\ x = q THEN j ELSE job[s][x]
    BY <2>4, JobMoves
  <2> QED
    BY <2>1, <2>4, <2>5
<1>5. ASSUME NEW f \in flights, NEW r \in Payloads, InvokeReturns(f, r) PROVE Moved
  <2>1. f.key \in Keys /\ f.runner \in Runners /\ f.key.participant \in Participants
    BY DEF TypeOK, Flight, Keys
  <2>2. PICK u \in Runners, q \in Participants : u = f.runner /\ q = f.key.participant
    BY <2>1
  <2>3. [pc |-> "replied", key |-> f.key, payload |-> r] \in Job
    BY <2>1 DEF Job
  <2>4. PICK j \in Job : j.key = f.key /\ job' = [job EXCEPT ![u][q] = j]
    BY <1>5, <2>2, <2>3 DEF InvokeReturns
  <2>5. \A s \in Runners, x \in Participants :
          job'[s][x] = IF s = u /\ x = q THEN j ELSE job[s][x]
    BY <2>4, JobMoves
  <2>6. f.key.revision = revision
    BY <1>5 DEF InvokeReturns, OwnsDispatch
  <2> QED
    BY <2>4, <2>5, <2>6
<1>6. ASSUME NEW u \in Runners, NEW q \in Participants, Submit(u, q) PROVE Moved
  <2>1. CASE job' = [job EXCEPT ![u][q] = NoJob]
    <3>1. PICK j \in Job : j = NoJob
      BY DEF Job
    <3>2. job' = [job EXCEPT ![u][q] = j]
      BY <2>1, <3>1
    <3>3. \A s \in Runners, x \in Participants :
            job'[s][x] = IF s = u /\ x = q THEN j ELSE job[s][x]
      BY <3>2, JobMoves
    <3> QED
      BY <3>1, <3>3 DEF NoJob
  <2> QED
    BY <1>2, <1>6, <2>1 DEF Submit, Ends
<1>7. ASSUME NEW u \in Runners, Refused(u) \/ Resolve(u) \/ Abort(u) \/ Crash(u) PROVE Moved
  BY <1>2, <1>7 DEF Refused, Resolve, Abort, Crash, Ends
<1>8. ASSUME NEW u \in Runners,
             Begin(u) \/ Acquire(u) \/ ReadPhase(u) \/ ClosePhase(u) \/ Release(u)
      PROVE  UNCHANGED job
  BY <1>8 DEF Begin, Acquire, ReadPhase, ClosePhase, Release
<1>9. ASSUME Operator \/ LeaseExpires \/ DeadlineElapses \/ UNCHANGED vars PROVE Moved
  BY <1>1, <1>9 DEF Operator, Pause, Resume, Transfer, ReconcileAgent, Checkpoint, Cancel,
                    LeaseExpires, DeadlineElapses, vars, runner
<1>10. ASSUME NEW q \in Participants,
              Observe(q) \/ Decide(q) \/ \E r \in Saving : Memory(q, r)
       PROVE  UNCHANGED job
  BY <1>10 DEF Observe, Decide, Memory, runner
<1>11. ASSUME NEW f \in flights, InvokeFails(f) PROVE UNCHANGED job
  BY <1>11 DEF InvokeFails, runner
<1> HIDE DEF Moved
<1>12. Moved
  <2>1. UNCHANGED job => Moved
    BY <1>1 DEF Moved
  <2>2. ASSUME NEW u \in Runners, RunnerStep(u) PROVE Moved
    BY <2>1, <2>2, <1>3, <1>4, <1>6, <1>7, <1>8, Zenon DEF RunnerStep
  <2>3. CASE AgentStep
    BY <2>1, <2>3, <1>5, <1>11, Zenon DEF AgentStep
  <2>4. ASSUME NEW q \in Participants,
               Observe(q) \/ Decide(q) \/ \E r \in Saving : Memory(q, r)
        PROVE  Moved
    BY <2>1, <2>4, <1>10
  <2>5. \/ \E u \in Runners : RunnerStep(u)
        \/ AgentStep
        \/ \E q \in Participants : Observe(q) \/ Decide(q) \/ \E r \in Saving : Memory(q, r)
        \/ Operator \/ LeaseExpires \/ DeadlineElapses \/ UNCHANGED vars
    BY DEF Next
  <2> QED
    BY <2>2, <2>3, <2>4, <2>5, <1>9, Zenon
<1> QED
  BY <1>12 DEF Moved

LEMMA ReachAtInit == Init => ReachInvariant
BY InvocationAtInit
DEF Init, ReachInvariant, WorkIsReached, JobsAreReached, NothingRunsOn, NoWork, NoJobs, NoJob

LEMMA ReachPreserved == ReachInvariant /\ [Next]_vars => ReachInvariant'
<1> SUFFICES ASSUME ReachInvariant, [Next]_vars PROVE ReachInvariant'
  OBVIOUS
<1>0. InvocationInvariant /\ TypeOK /\ TypeOK'
  BY TypePreserved DEF ReachInvariant, InvocationInvariant
<1>1. InvocationInvariant'
  BY <1>0, InvocationPreserved
<1>2. /\ revision \in Nat /\ revision' \in Nat
      /\ \A p \in Participants : /\ members[p].generation \in Nat
                                /\ members'[p].generation \in Nat
      /\ \A k \in Keys : /\ k.participant \in Participants
                        /\ k.revision \in Nat /\ k.generation \in Nat
  BY <1>0, BoundsAssumption DEF TypeOK, Member, Keys
<1>3. WorkIsReached'
  <2> SUFFICES ASSUME NEW k \in Keys, work'[k].status # "none"
               PROVE  /\ k.revision <= revision'
                      /\ k.generation <= members'[k.participant].generation
                      /\ status' = "completed" => k.revision < revision'
    BY DEF WorkIsReached
  <2>1. CASE work[k].status # "none"
    <3>1. /\ k.revision <= revision
          /\ k.generation <= members[k.participant].generation
          /\ status = "completed" => k.revision < revision
      BY <2>1 DEF ReachInvariant, WorkIsReached
    <3> QED
      BY <1>0, <1>2, <3>1, SessionMoves
  <2>2. CASE work[k].status = "none"
    <3>1. /\ status = "running" /\ UNCHANGED <<status, revision, members>> /\ Authorized(k)
          /\ \E t \in Runners, p \in Participants :
               job[t][p].pc = "prepare" /\ job[t][p].key = k
      BY <1>0, <2>2, WorkMoves
    <3>2. k.revision <= revision
      BY <3>1 DEF ReachInvariant, JobsAreReached
    <3> QED
      BY <1>2, <3>1, <3>2 DEF Authorized
  <2> QED
    BY <2>1, <2>2
<1>4. JobsAreReached'
  <2> SUFFICES ASSUME NEW t \in Runners, NEW p \in Participants, job'[t][p].pc # "none"
               PROVE  job'[t][p].key.revision <= revision'
    BY DEF JobsAreReached
  <2>1. job'[t][p].key.revision <= revision
    BY <1>0, <1>2, JobsMove DEF ReachInvariant, JobsAreReached
  <2>2. job'[t][p].key.revision \in Nat
    <3>1. job'[t][p].key \in Keys
      BY <1>0 DEF TypeOK, Job, NoJob
    <3> QED
      BY <1>2, <3>1
  <2> QED
    BY <1>0, <1>2, <2>1, <2>2, SessionMoves
<1>5. NothingRunsOn'
  <2> SUFFICES ASSUME status' = "cancelled", NEW k \in Keys, work'[k].status = "dispatching"
               PROVE  FALSE
    BY DEF NothingRunsOn
  <2>1. status = "cancelled" \/ Cancel
    BY <1>0, SessionMoves
  <2>2. work'[k] = work[k] /\ ~ Cancel
    BY <1>0, WorkMoves
  <2> QED
    BY <2>1, <2>2 DEF ReachInvariant, NothingRunsOn
<1> QED
  BY <1>1, <1>3, <1>4, <1>5 DEF ReachInvariant

LEMMA ReachInvariance == Spec => []ReachInvariant
BY ReachAtInit, ReachPreserved, PTL DEF Spec

\* After a cancellation nothing that was called is left neither answered nor
\* reported as unresolved, whichever runner still waits for it.
THEOREM CancellationResolvesOrReports == Spec => []CancelledWorkIsResolvedOrReported
<1>1. ReachInvariant => CancelledWorkIsResolvedOrReported
  <2> SUFFICES ASSUME ReachInvariant, status = "cancelled", NEW k \in Keys, calls[k] > 0
               PROVE  work[k].status \in {"unknown", "responded"}
    BY DEF CancelledWorkIsResolvedOrReported
  <2>1. work[k].status \notin {"none", "prepared", "failed", "dispatching"}
    BY DEF ReachInvariant, InvocationInvariant, CallsAreDispatches, NothingRunsOn
  <2> QED
    BY <2>1 DEF ReachInvariant, InvocationInvariant, TypeOK, WorkRow
<1> QED
  BY <1>1, ReachInvariance, PTL

\* A checkpoint is committed when every agent call has been answered and
\* belongs to a phase already decided.
THEOREM CheckpointsKeepDecisions == Spec => CheckpointsLoseNoDecision
<1> DEFINE Decisive == (checkpoints' # checkpoints) =>
             \A k \in Keys : calls[k] > 0 => k.revision < revision /\ work[k].status = "responded"
<1>1. ReachInvariant /\ [Next]_vars => [Decisive]_vars
  <2> SUFFICES ASSUME ReachInvariant, [Next]_vars, checkpoints' # checkpoints,
                      NEW k \in Keys, calls[k] > 0
               PROVE  k.revision < revision /\ work[k].status = "responded"
    OBVIOUS
  <2>1. Checkpoint
    <3>1. ASSUME NEW t \in Runners, RunnerStep(t) PROVE FALSE
      BY <3>1 DEF RunnerStep, Begin, Acquire, Refused, ReadPhase, Look, Prepare, InvokeStart,
                  Submit, ClosePhase, Resolve, Abort, Release, Crash
    <3>2. ~ (AgentStep \/ LeaseExpires \/ DeadlineElapses \/ UNCHANGED vars)
      BY DEF AgentStep, InvokeFails, InvokeReturns, LeaseExpires, DeadlineElapses, vars
    <3>3. ASSUME NEW p \in Participants,
                 Observe(p) \/ Decide(p) \/ \E r \in Saving : Memory(p, r)
          PROVE  FALSE
      BY <3>3 DEF Observe, Decide, Memory
    <3>4. Operator
      BY <3>1, <3>2, <3>3 DEF Next
    <3> QED
      BY <3>4 DEF Operator, Pause, Resume, Transfer, ReconcileAgent, Cancel
  <2>2. /\ work[k].status \notin {"prepared", "dispatching", "unknown"}
        /\ k.revision = revision => work[k].status # "responded"
    BY <2>1 DEF Checkpoint, Unfinished
  <2>3. work[k].status = "responded"
    BY <2>2 DEF ReachInvariant, InvocationInvariant, CallsAreDispatches, TypeOK, WorkRow
  <2>4. k.revision <= revision /\ k.revision \in Nat /\ revision \in Nat
    BY <2>3, BoundsAssumption DEF ReachInvariant, WorkIsReached, InvocationInvariant, TypeOK, Keys
  <2> QED
    BY <2>2, <2>3, <2>4
<1> HIDE DEF Decisive
<1>2. Spec => [][Decisive]_vars
  BY <1>1, ReachInvariance, PTL DEF Spec
<1> QED
  BY <1>2 DEF CheckpointsLoseNoDecision, Decisive
------------------------------------------------------------------------------
(***************************************************************************)
(* Continuations.                                                          *)
(***************************************************************************)
\* A continuation is named by a phase and an authority the session has reached.
ContinuationIsReached ==
  \A p \in Participants : members[p].continuation \in Keys =>
    /\ members[p].continuation.revision <= revision
    /\ members[p].continuation.generation <= members[p].generation

ContinuationInvariant == ReachInvariant /\ ContinuationIsReached /\ ContinuationIsLatest

\* A step that moves no continuation and, while the session lives, records no
\* response.
Kept ==
  /\ \A p \in Participants : members'[p].continuation = members[p].continuation
  /\ \A k \in Keys : work'[k].status = "responded" =>
                       work[k].status = "responded" \/ status' = "cancelled"

\* A step that writes the continuation of the open phase and the present
\* controller, and records no response but that one.
Written(k) ==
  /\ k.revision = revision /\ Authorized(k)
  /\ revision' = revision
  /\ members' = [members EXCEPT ![k.participant].continuation = k]
  /\ \A i \in Keys : work'[i].status = "responded" => i = k \/ work[i].status = "responded"

\* Answers come from agents and from recovery, continuations from these and
\* from participants: every step keeps them or writes one.
LEMMA ContinuationSteps ==
  ASSUME ReachInvariant, [Next]_vars
  PROVE  Kept \/ \E k \in Keys : Written(k)
<1>0. TypeOK
  BY DEF ReachInvariant, InvocationInvariant
<1>1. UNCHANGED <<members, work>> => Kept
  BY DEF Kept
<1>2. ASSUME NEW t \in Runners, NEW p \in Participants, Prepare(t, p) PROVE Kept
  <2>1. job[t][p].key \in Keys
    BY <1>0, <1>2, JobHasKey DEF Prepare
  <2> QED
    BY <1>0, <1>2, <2>1 DEF Kept, Prepare, TypeOK, session
<1>3. ASSUME NEW t \in Runners, NEW p \in Participants, InvokeStart(t, p) PROVE Kept
  <2>1. job[t][p].key \in Keys
    BY <1>0, <1>3, JobHasKey DEF InvokeStart
  <2> QED
    BY <1>0, <1>3, <2>1 DEF Kept, InvokeStart, TypeOK, session
<1>4. ASSUME NEW f \in flights, InvokeFails(f) PROVE Kept
  <2>1. f.key \in Keys
    BY <1>0 DEF TypeOK, Flight
  <2> QED
    BY <1>0, <1>4, <2>1 DEF Kept, InvokeFails, Abandoned, TypeOK, WorkRow, session
<1>5. ASSUME Cancel PROVE Kept
  BY <1>0, <1>5 DEF Kept, Cancel
<1>6. ASSUME NEW p \in Participants, NEW stays \in BOOLEAN, Transfer(p, stays) PROVE Kept
  <2>1. \A q \in Participants : members'[q].continuation = members[q].continuation
    BY <1>0, <1>6 DEF Transfer, TypeOK, Member
  <2> QED
    BY <1>6, <2>1 DEF Kept, Transfer, journals
<1>7. ASSUME NEW f \in flights, NEW x \in Payloads, InvokeReturns(f, x)
      PROVE  \E k \in Keys : Written(k)
  <2>1. PICK k \in Keys : k = f.key
    BY <1>0 DEF TypeOK, Flight
  <2>2. /\ Authorized(k) /\ k.revision = revision /\ revision' = revision
        /\ members' = [members EXCEPT ![k.participant].continuation = k]
        /\ work' = [work EXCEPT ![k] = [status |-> "responded", response |-> x]]
    BY <1>7, <2>1 DEF InvokeReturns, OwnsDispatch
  <2>3. \A i \in Keys : work'[i].status = "responded" => i = k \/ work[i].status = "responded"
    BY <1>0, <2>2 DEF TypeOK
  <2> QED
    BY <2>2, <2>3 DEF Written
<1>8. ASSUME NEW k \in Keys, NEW x \in Payloads, ReconcileAgent(k, x)
      PROVE  Kept \/ Written(k)
  <2>1. /\ Authorized(k) /\ k.revision = revision
        /\ work[k].status \in {"dispatching", "unknown"}
        /\ work' = [work EXCEPT ![k] = [status |-> "responded", response |-> x]]
        /\ UNCHANGED <<status, revision>>
    BY <1>8 DEF ReconcileAgent, Recoverable
  <2>2. \A i \in Keys : work'[i].status = "responded" => i = k \/ work[i].status = "responded"
    BY <1>0, <2>1 DEF TypeOK
  <2>3. status # "completed"
    BY <1>0, <2>1, BoundsAssumption DEF ReachInvariant, WorkIsReached, TypeOK, Keys
  <2>4. CASE status = "cancelled"
    <3>1. members' = members
      BY <1>8, <2>4 DEF ReconcileAgent
    <3> QED
      BY <2>1, <2>4, <3>1 DEF Kept
  <2>5. CASE status \in {"running", "paused"}
    <3>1. members' = [members EXCEPT ![k.participant].continuation = k]
      BY <1>8, <2>5 DEF ReconcileAgent
    <3> QED
      BY <2>1, <2>2, <3>1 DEF Written
  <2> QED
    BY <1>0, <2>3, <2>4, <2>5 DEF TypeOK
<1>9. ASSUME NEW p \in Participants, NEW r \in Saving, Memory(p, r)
      PROVE  \E k \in Keys : Written(k)
  <2>1. PICK k \in Keys :
          k = [participant |-> p, revision |-> r, generation |-> members[p].generation]
    BY <1>0, MemoryType
  <2>2. k.participant = p /\ k.revision = r /\ k.generation = members[p].generation
    BY <2>1
  <2>3. members' = [members EXCEPT ![k.participant].continuation = k]
    BY <1>9, <2>1, <2>2 DEF Memory
  <2> QED
    BY <1>9, <2>2, <2>3 DEF Memory, Written, Authorized, journals
<1>10. ASSUME NEW t \in Runners,
              \/ Begin(t) \/ Acquire(t) \/ Refused(t) \/ ReadPhase(t) \/ ClosePhase(t)
              \/ Resolve(t) \/ Abort(t) \/ Release(t) \/ Crash(t)
              \/ \E p \in Participants : Look(t, p) \/ Submit(t, p)
       PROVE  UNCHANGED <<members, work>>
  BY <1>10 DEF Begin, Acquire, Refused, ReadPhase, ClosePhase, Resolve, Abort, Release, Crash,
               Look, Submit, session, journals
<1>11. ASSUME NEW p \in Participants, Observe(p) \/ Decide(p) PROVE UNCHANGED <<members, work>>
  BY <1>11 DEF Observe, Decide, session
<1>12. ASSUME Pause \/ Resume \/ Checkpoint \/ LeaseExpires \/ DeadlineElapses \/ UNCHANGED vars
       PROVE  UNCHANGED <<members, work>>
  BY <1>12 DEF Pause, Resume, Checkpoint, LeaseExpires, DeadlineElapses, vars, session, journals
<1>13. ASSUME NEW t \in Runners, RunnerStep(t) PROVE Kept
  BY <1>13, <1>1, <1>2, <1>3, <1>10, Zenon DEF RunnerStep
<1>14. ASSUME AgentStep PROVE Kept \/ \E k \in Keys : Written(k)
  BY <1>14, <1>4, <1>7, Zenon DEF AgentStep
<1>15. ASSUME Operator PROVE Kept \/ \E k \in Keys : Written(k)
  BY <1>15, <1>1, <1>5, <1>6, <1>8, <1>12, Zenon DEF Operator
<1> QED
  BY <1>1, <1>9, <1>11, <1>12, <1>13, <1>14, <1>15, Zenon DEF Next

\* What is written is no older than what any step of the past recorded.
LEMMA WrittenIsNewest ==
  ASSUME ContinuationInvariant, NEW k \in Keys, Written(k)
  PROVE  /\ \A p \in Participants :
              /\ members'[p].generation = members[p].generation
              /\ members'[p].continuation =
                   IF p = k.participant THEN k ELSE members[p].continuation
         /\ k.participant \in Participants
         /\ \A i \in Keys : i.participant = k.participant /\ work[i].status = "responded"
                               => ~Older(k, i)
         /\ members[k.participant].continuation \in Keys
              => ~Older(k, members[k.participant].continuation)
<1>0. TypeOK
  BY DEF ContinuationInvariant, ReachInvariant, InvocationInvariant
<1>1. k.participant \in Participants /\ k.revision \in Nat /\ k.generation \in Nat
  BY BoundsAssumption DEF Keys
<1>2. members \in [Participants -> Member]
  BY <1>0 DEF TypeOK
<1>3. \A p \in Participants :
        /\ members'[p].generation = members[p].generation
        /\ members'[p].continuation = IF p = k.participant THEN k ELSE members[p].continuation
  BY <1>1, <1>2 DEF Written, Member
<1>4. k.revision = revision /\ k.generation = members[k.participant].generation
  BY DEF Written, Authorized
<1>5. ASSUME NEW i \in Keys, i.participant = k.participant, work[i].status = "responded"
      PROVE  ~Older(k, i)
  <2>1. i.revision <= revision /\ i.generation <= members[k.participant].generation
    BY <1>5 DEF ContinuationInvariant, ReachInvariant, WorkIsReached
  <2>2. i.revision \in Nat /\ i.generation \in Nat
    BY BoundsAssumption DEF Keys
  <2> QED
    BY <1>1, <1>4, <2>1, <2>2 DEF Older
<1>6. ASSUME members[k.participant].continuation \in Keys
      PROVE  ~Older(k, members[k.participant].continuation)
  <2>1. PICK i \in Keys : i = members[k.participant].continuation
    BY <1>6
  <2>2. i.revision <= revision /\ i.generation <= members[k.participant].generation
    BY <1>1, <2>1 DEF ContinuationInvariant, ContinuationIsReached
  <2>3. i.revision \in Nat /\ i.generation \in Nat
    BY BoundsAssumption DEF Keys
  <2> QED
    BY <1>1, <1>4, <2>1, <2>2, <2>3 DEF Older
<1> QED
  BY <1>1, <1>3, <1>5, <1>6

LEMMA ContinuationAtInit == Init => ContinuationInvariant
<1> SUFFICES ASSUME Init PROVE ContinuationInvariant
  OBVIOUS
<1>1. \A k \in Keys : work[k].status # "responded"
  BY DEF Init, NoWork
<1>2. ContinuationIsReached
  BY NoneAssumption DEF Init, ContinuationIsReached
<1> QED
  BY <1>1, <1>2, ReachAtInit DEF ContinuationInvariant, ContinuationIsLatest

LEMMA ContinuationPreserved == ContinuationInvariant /\ [Next]_vars => ContinuationInvariant'
<1> SUFFICES ASSUME ContinuationInvariant, [Next]_vars
             PROVE  ContinuationIsReached' /\ ContinuationIsLatest'
  BY ReachPreserved DEF ContinuationInvariant
<1>0. ReachInvariant /\ TypeOK
  BY DEF ContinuationInvariant, ReachInvariant, InvocationInvariant
<1>1. /\ revision \in Nat /\ revision' \in Nat /\ revision' >= revision
      /\ \A p \in Participants : /\ members[p].generation \in Nat
                                /\ members'[p].generation \in Nat
                                /\ members'[p].generation >= members[p].generation
      /\ \A k \in Keys : /\ k.participant \in Participants
                         /\ k.revision \in Nat /\ k.generation \in Nat
  <2>1. TypeOK'
    BY <1>0, TypePreserved
  <2>2. /\ revision' >= revision
        /\ \A p \in Participants : members'[p].generation >= members[p].generation
    BY <1>0, SessionMoves
  <2> QED
    BY <1>0, <2>1, <2>2, BoundsAssumption DEF TypeOK, Member, Keys
<1>2. status' # "cancelled" => status # "cancelled"
  BY <1>0, SessionMoves
<1>3. CASE Kept
  <2>1. ASSUME NEW p \in Participants, members'[p].continuation \in Keys
        PROVE  /\ members'[p].continuation.revision <= revision'
               /\ members'[p].continuation.generation <= members'[p].generation
    <3>1. PICK k \in Keys : k = members[p].continuation /\ k = members'[p].continuation
      BY <1>3, <2>1 DEF Kept
    <3>2. k.revision <= revision /\ k.generation <= members[p].generation
      BY <3>1 DEF ContinuationInvariant, ContinuationIsReached
    <3> QED
      BY <1>1, <3>1, <3>2
  <2>2. ASSUME status' # "cancelled", NEW k \in Keys, work'[k].status = "responded"
        PROVE  /\ members'[k.participant].continuation \in Keys
               /\ ~Older(members'[k.participant].continuation, k)
    <3>1. work[k].status = "responded"
      BY <1>3, <2>2 DEF Kept
    <3>2. members'[k.participant].continuation = members[k.participant].continuation
      BY <1>1, <1>3 DEF Kept
    <3> QED
      BY <1>2, <2>2, <3>1, <3>2 DEF ContinuationInvariant, ContinuationIsLatest
  <2> QED
    BY <2>1, <2>2 DEF ContinuationIsReached, ContinuationIsLatest, Older
<1>4. ASSUME NEW k \in Keys, Written(k)
      PROVE  ContinuationIsReached' /\ ContinuationIsLatest'
  <2>0. /\ \A p \in Participants :
             /\ members'[p].generation = members[p].generation
             /\ members'[p].continuation =
                  IF p = k.participant THEN k ELSE members[p].continuation
        /\ \A i \in Keys : i.participant = k.participant /\ work[i].status = "responded"
                              => ~Older(k, i)
    BY <1>4, WrittenIsNewest
  <2>1. ASSUME NEW p \in Participants, members'[p].continuation \in Keys
        PROVE  /\ members'[p].continuation.revision <= revision'
               /\ members'[p].continuation.generation <= members'[p].generation
    <3>1. CASE p = k.participant
      <4>1. members'[p].continuation = k /\ members'[p].generation = members[p].generation
        BY <2>0, <3>1
      <4>2. k.revision = revision' /\ k.generation = members[p].generation
        BY <1>4, <3>1 DEF Written, Authorized
      <4> QED
        BY <1>1, <4>1, <4>2
    <3>2. CASE p # k.participant
      <4>1. PICK i \in Keys : i = members[p].continuation /\ i = members'[p].continuation
        BY <2>0, <2>1, <3>2
      <4>2. i.revision <= revision /\ i.generation <= members[p].generation
        BY <4>1 DEF ContinuationInvariant, ContinuationIsReached
      <4> QED
        BY <1>1, <4>1, <4>2
    <3> QED
      BY <3>1, <3>2
  <2>2. ASSUME status' # "cancelled", NEW i \in Keys, work'[i].status = "responded"
        PROVE  /\ members'[i.participant].continuation \in Keys
               /\ ~Older(members'[i.participant].continuation, i)
    <3>1. i = k \/ work[i].status = "responded"
      BY <1>4, <2>2 DEF Written
    <3>2. CASE i.participant = k.participant
      <4>1. members'[i.participant].continuation = k
        BY <1>1, <2>0, <3>2
      <4>2. ~Older(k, k)
        BY <1>1 DEF Older
      <4> QED
        BY <2>0, <3>1, <3>2, <4>1, <4>2
    <3>3. CASE i.participant # k.participant
      <4>1. members'[i.participant].continuation = members[i.participant].continuation
        BY <1>1, <2>0, <3>3
      <4>2. work[i].status = "responded"
        BY <3>1, <3>3
      <4> QED
        BY <1>2, <2>2, <4>1, <4>2 DEF ContinuationInvariant, ContinuationIsLatest
    <3> QED
      BY <3>2, <3>3
  <2> QED
    BY <2>1, <2>2 DEF ContinuationIsReached, ContinuationIsLatest, Older
<1> QED
  BY <1>0, <1>3, <1>4, ContinuationSteps

\* While a session lives, an agent's continuation never goes back, neither
\* behind a recorded response nor behind a state the agent saved, for any
\* number of runners, and also when answers are late or recovered.
THEOREM ContinuationsNeverRewind == Spec => ContinuationNeverRewinds
<1>1. ContinuationInvariant' => ContinuationIsLatest'
  BY DEF ContinuationInvariant
<1>2. ContinuationInvariant /\ [Next]_vars => [ContinuationMovesOn]_vars
  <2> SUFFICES ASSUME ContinuationInvariant, [Next]_vars, NEW p \in Participants,
                      members[p].continuation \in Keys
               PROVE  /\ members'[p].continuation \in Keys
                      /\ ~Older(members'[p].continuation, members[p].continuation)
    BY DEF ContinuationMovesOn
  <2>1. ~Older(members[p].continuation, members[p].continuation)
    BY BoundsAssumption DEF Older, Keys
  <2>2. CASE Kept
    BY <2>1, <2>2 DEF Kept
  <2>3. ASSUME NEW k \in Keys, Written(k)
        PROVE  /\ members'[p].continuation \in Keys
               /\ ~Older(members'[p].continuation, members[p].continuation)
    BY <2>1, <2>3, WrittenIsNewest
  <2>4. ReachInvariant
    BY DEF ContinuationInvariant
  <2> QED
    BY <2>2, <2>3, <2>4, ContinuationSteps
<1>3. ContinuationInvariant /\ [Next]_vars => [ContinuationIsLatest' /\ ContinuationMovesOn]_vars
  BY <1>1, <1>2, ContinuationPreserved
<1> QED
  BY <1>3, ContinuationAtInit, ContinuationPreserved, PTL
     DEF Spec, ContinuationNeverRewinds
==============================================================================
