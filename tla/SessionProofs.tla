---------------------------- MODULE SessionProofs ----------------------------
(***************************************************************************)
(* For any roster, callers, operations, scheduling and bounds: the session *)
(* keeps its types and the keys of its journals, its lease is a fencing    *)
(* authority, its history is a chain of commits in epoch order, its        *)
(* decisions are settled before they are committed, and it ends for good   *)
(* and within its turn budget.                                             *)
(***************************************************************************)
EXTENDS Session, TLAPS

\* No two rows of the transitions table are of the same input.
Keyed(rows) == \A x, y \in rows : x.revision = y.revision /\ x.input = y.input => x = y

LEMMA PhaseInputIsInput == TypeOK => PhaseInput \in Input
  BY DEF TypeOK, PhaseInput, Input, DecisionsOf, Submitted, Accepted

\* Writing the row of an input replaces it, and leaves one row per input.
LEMMA WithTransitionKeyed ==
  ASSUME TypeOK, NEW x \in TransitionRow
  PROVE  WithTransition(x) \subseteq TransitionRow /\ Keyed(WithTransition(x))
  BY DEF TypeOK, WithTransition, Intent, Keyed

\* Updating rows in place keeps their types and keys.
LEMMA UpdateKeyed ==
  ASSUME NEW rows, rows \subseteq TransitionRow, Keyed(rows),
         NEW f \in [rows -> TransitionRow],
         \A x \in rows : f[x].revision = x.revision /\ f[x].input = x.input
  PROVE  LET updated == {f[x] : x \in rows}
         IN updated \subseteq TransitionRow /\ Keyed(updated)
  BY DEF Keyed

\* The columns and tables a command of the lifecycle may touch.
LEMMA TypeOfRow ==
  ASSUME TypeOK, UNCHANGED <<lease, session_run, journals, held, task>>,
         status' \in {"running", "paused", "outcomes_pending", "completed", "cancelled"},
         revision' \in Nat, participants' \in [Participants -> Member],
         scheduler' \in Schedule, cursor' \in 0..MaxCursor, due' \in BOOLEAN
  PROVE  TypeOK'
  BY DEF TypeOK, lease, journals

LEMMA LeaseTypes ==
  ASSUME TypeOK, NEW t \in Threads,
         Acquire(t) \/ Release(t) \/ LeaseExpires \/ DeadlineElapses
  PROVE  TypeOK'
<1>1. CASE Acquire(t)
  <2>1. owner' \in Owners /\ epoch' \in Nat /\ held' \in [Threads -> Nat]
    <3>1. epoch' = epoch \/ epoch' = epoch + 1
      BY <1>1 DEF Acquire, GrantedEpoch
    <3>2. owner' = OwnerOf[t] /\ held' = [held EXCEPT ![t] = epoch']
      BY <1>1 DEF Acquire
    <3>3. epoch \in Nat /\ held \in [Threads -> Nat]
      BY DEF TypeOK
    <3> QED
      BY <3>1, <3>2, <3>3, OwnerOfAssumption
  <2>2. live' \in BOOLEAN
    BY <1>1 DEF Acquire
  <2>3. UNCHANGED <<row, session_run, journals, task>>
    BY <1>1 DEF Acquire
  <2> QED
    BY <2>1, <2>2, <2>3 DEF TypeOK, row, journals
<1>2. CASE Release(t) \/ LeaseExpires
  <2>1. UNCHANGED <<row, owner, epoch, session_run, journals, held, task>>
    BY <1>2 DEF Release, LeaseExpires
  <2>2. live' \in BOOLEAN
    BY <1>2 DEF Release, LeaseExpires
  <2> QED
    BY <2>1, <2>2 DEF TypeOK, row, journals
<1>3. CASE DeadlineElapses
  BY <1>3, TypeOfRow DEF DeadlineElapses, TypeOK
<1> QED
  BY <1>1, <1>2, <1>3

LEMMA ParticipationTypes ==
  ASSUME TypeOK, Participation
  PROVE  TypeOK'
<1>1. ASSUME NEW p \in Participants, Observe(p) PROVE TypeOK'
  <2>1. observations' \subseteq Observation
    BY <1>1 DEF Observe, TypeOK, Observation, Member
  <2> QED
    BY <1>1, <2>1 DEF Observe, TypeOK, row, lease
<1>2. ASSUME NEW p \in Participants, NEW o \in OpIds, Submit(p, o) PROVE TypeOK'
  <2>1. actions' \in [OpIds -> ActionRow]
    BY <1>2 DEF Submit, TypeOK, ActionRow, Observation
  <2> QED
    BY <1>2, <2>1 DEF Submit, TypeOK, row, lease
<1>3. ASSUME NEW p \in Participants, NEW m \in Memories, Memory(p, m) PROVE TypeOK'
  <2>1. participants' \in [Participants -> Member]
    BY <1>3 DEF Memory, TypeOK, Member
  <2> QED
    BY <1>3, <2>1, TypeOfRow DEF Memory, TypeOK
<1> QED
  BY <1>1, <1>2, <1>3 DEF Participation

LEMMA IntentTypes ==
  ASSUME TypeOK, NEW t \in Threads, ResolveIntent(t)
  PROVE  TypeOK'
<1> DEFINE computed == {x \in Intent(revision, PhaseInput) : x.status = "computed"}
           new == [revision |-> revision, input |-> PhaseInput, epoch |-> held[t],
                   status |-> "computing", result |-> None]
<1>1. PhaseInput \in Input /\ Submitted \subseteq OpIds
  BY PhaseInputIsInput DEF Submitted, Accepted
<1>2. new \in TransitionRow
  BY <1>1 DEF TypeOK, TransitionRow
<1>3. transitions' \subseteq TransitionRow /\ Keyed(transitions')
  BY <1>2, WithTransitionKeyed DEF ResolveIntent, TypeOK, Keyed
<1>4. PICK r \in IF computed # {} THEN {x.result : x \in computed} ELSE {None} :
        task' = [task EXCEPT ![t] = [pc |-> "compute", phase |-> revision,
                                     input |-> PhaseInput, submitted |-> Submitted,
                                     result |-> r]]
  BY DEF ResolveIntent
<1>5. r \in Results \cup {None}
  BY DEF Intent, TypeOK, TransitionRow
<1>6. [pc |-> "compute", phase |-> revision, input |-> PhaseInput,
       submitted |-> Submitted, result |-> r] \in Resolving
  BY <1>1, <1>5 DEF Resolving, TypeOK
<1>7. /\ task' \in [Threads -> {Idle} \cup Resolving]
      /\ \A u \in Threads : task'[u].pc = "commit" => task'[u].result # None
  BY <1>4, <1>6 DEF TypeOK
<1> QED
  BY <1>3, <1>7 DEF ResolveIntent, TypeOK, Keyed, row, lease

LEMMA ComputedTypes ==
  ASSUME TypeOK, NEW t \in Threads, ResolveComputed(t)
  PROVE  TypeOK'
<1>1. PICK r \in (IF task[t].result = None THEN Results ELSE {task[t].result}) :
        /\ transitions' =
             {IF x \in Intent(task[t].phase, task[t].input)
                THEN [x EXCEPT !.status = "computed", !.result = r] ELSE x :
              x \in transitions}
        /\ task' = [task EXCEPT ![t].pc = "commit", ![t].result = r]
  BY DEF ResolveComputed
<1>2. task[t] \in Resolving
  <2>1. task[t].pc = "compute"
    BY Zenon DEF ResolveComputed
  <2> QED
    BY <2>1 DEF TypeOK, Idle
<1>3. r \in Results /\ r # None
  <2>1. task[t].result \in Results \cup {None}
    BY <1>2 DEF Resolving
  <2>2. None \notin Results
    BY ResultsAssumption
  <2> QED
    BY <1>1, <2>1, <2>2
<1>4. transitions' \subseteq TransitionRow /\ Keyed(transitions')
  <2> DEFINE f == [x \in transitions |->
                     IF x \in Intent(task[t].phase, task[t].input)
                       THEN [x EXCEPT !.status = "computed", !.result = r] ELSE x]
  <2>1. ASSUME NEW x \in transitions PROVE f[x] \in TransitionRow
    BY <1>3 DEF TypeOK, TransitionRow
  <2>2. \A x \in transitions : f[x].revision = x.revision /\ f[x].input = x.input
    BY DEF TypeOK, TransitionRow
  <2>3. transitions' = {f[x] : x \in transitions}
    BY <1>1
  <2>4. f \in [transitions -> TransitionRow]
    BY <2>1
  <2> HIDE DEF f
  <2> QED
    <3>1. transitions \subseteq TransitionRow /\ Keyed(transitions)
      BY DEF TypeOK, Keyed
    <3> QED
      BY <2>2, <2>3, <2>4, <3>1, UpdateKeyed
<1>5. /\ task' \in [Threads -> {Idle} \cup Resolving]
      /\ \A u \in Threads : task'[u].pc = "commit" => task'[u].result # None
  BY <1>1, <1>2, <1>3 DEF TypeOK, Resolving
<1> QED
  BY <1>4, <1>5 DEF ResolveComputed, TypeOK, Keyed, row, lease

\* A resolution that fails or is lost ends idle.
LEMMA FailureTypes ==
  ASSUME TypeOK, NEW t \in Threads, ResolveFails(t) \/ ResolveLost(t)
  PROVE  TypeOK'
<1>1. /\ task' \in [Threads -> {Idle} \cup Resolving]
      /\ \A u \in Threads : task'[u].pc = "commit" => task'[u].result # None
  BY DEF ResolveFails, ResolveLost, TypeOK, Idle
<1>2. transitions' \subseteq TransitionRow /\ Keyed(transitions')
  <2> DEFINE f == [x \in transitions |->
                     IF /\ x \in Intent(task[t].phase, task[t].input)
                        /\ x.epoch = held[t] /\ x.status = "computing"
                       THEN [x EXCEPT !.status = "failed"] ELSE x]
  <2>1. f \in [transitions -> TransitionRow]
    BY DEF TypeOK, TransitionRow
  <2>2. \A x \in transitions : f[x].revision = x.revision /\ f[x].input = x.input
    BY DEF TypeOK, TransitionRow
  <2>3. transitions' = {f[x] : x \in transitions} \/ transitions' = transitions
    BY DEF ResolveFails, ResolveLost, journals
  <2> HIDE DEF f
  <2>4. transitions \subseteq TransitionRow /\ Keyed(transitions)
    BY DEF TypeOK, Keyed
  <2>5. CASE transitions' = {f[x] : x \in transitions}
    BY <2>1, <2>2, <2>4, <2>5, UpdateKeyed DEF Keyed
  <2>6. CASE transitions' = transitions
    BY <2>4, <2>6 DEF Keyed
  <2> QED
    BY <2>3, <2>5, <2>6
<1> QED
  BY <1>1, <1>2 DEF ResolveFails, ResolveLost, TypeOK, Keyed, row, lease, journals

\* The commit makes a phase of history out of the task's inputs and result.
LEMMA CommitTypes ==
  ASSUME TypeOK, NEW t \in Threads, ResolveCommit(t)
  PROVE  TypeOK'
<1>1. task[t].pc = "commit"
  BY DEF ResolveCommit
<1>2. task[t] \in Resolving /\ task[t].result \in Results
  <2>1. task[t] \in Resolving /\ task[t].result # None
    BY <1>1 DEF TypeOK, Idle
  <2> QED
    BY <2>1 DEF Resolving
<1>3. commits' \subseteq Transition
  BY <1>2 DEF ResolveCommit, TypeOK, Transition, Resolving
<1>4. actions' \in [OpIds -> ActionRow]
  BY DEF ResolveCommit, TypeOK, ActionRow
<1>5. scheduler' \in Schedule
  BY DEF ResolveCommit, Active, Schedule
<1>6. transitions' \subseteq TransitionRow /\ Keyed(transitions')
  <2> DEFINE f == [x \in transitions |->
                     IF x \in Intent(task[t].phase, task[t].input)
                       THEN [x EXCEPT !.status = "committed"] ELSE x]
  <2>1. f \in [transitions -> TransitionRow]
    BY DEF TypeOK, TransitionRow
  <2>2. \A x \in transitions : f[x].revision = x.revision /\ f[x].input = x.input
    BY DEF TypeOK, TransitionRow
  <2>3. transitions' = {f[x] : x \in transitions}
    BY DEF ResolveCommit
  <2> HIDE DEF f
  <2> QED
    <3>1. transitions \subseteq TransitionRow /\ Keyed(transitions)
      BY DEF TypeOK, Keyed
    <3> QED
      BY <2>1, <2>2, <2>3, <3>1, UpdateKeyed
<1>7. /\ task' \in [Threads -> {Idle} \cup Resolving]
      /\ \A u \in Threads : task'[u].pc = "commit" => task'[u].result # None
  BY DEF ResolveCommit, TypeOK, Idle
<1>8. due' \in BOOLEAN
  BY DEF ResolveCommit
<1>9. /\ status' \in {"outcomes_pending", "completed", "running"}
      /\ revision' \in Nat
      /\ session_run' \in {"running", "succeeded"}
  BY DEF ResolveCommit, TypeOK
<1>10. UNCHANGED <<participants, cursor, lease, observations, ingested, held>>
  BY DEF ResolveCommit
<1> QED
  BY <1>3, <1>4, <1>5, <1>6, <1>7, <1>8, <1>9, <1>10 DEF TypeOK, Keyed, lease

LEMMA CommandTypes ==
  ASSUME TypeOK, NEW t \in Threads, Command(t)
  PROVE  TypeOK'
<1>1. CASE Acquire(t) \/ Release(t)
  BY <1>1, LeaseTypes
<1>2. CASE ClosePhase(t)
  <2>1. scheduler' \in Schedule
    BY <1>2 DEF ClosePhase, TypeOK, Schedule
  <2> QED
    BY <1>2, <2>1, TypeOfRow DEF ClosePhase, TypeOK
<1>3. ASSUME NEW c \in 1..MaxCursor, ExternalEvent(t, c) PROVE TypeOK'
  <2>1. scheduler' \in Schedule /\ cursor' \in 0..MaxCursor /\ ingested' \subseteq 1..MaxCursor
    BY <1>3, BoundsAssumption DEF ExternalEvent, TypeOK, Schedule
  <2> QED
    BY <1>3, <2>1 DEF ExternalEvent, TypeOK, lease
<1>4. ASSUME NEW p \in Participants, NEW active \in BOOLEAN, Transfer(t, p, active)
      PROVE  TypeOK'
  <2>1. participants' \in [Participants -> Member]
    BY <1>4 DEF Transfer, TypeOK, Member
  <2>2. scheduler' \in Schedule
    BY <1>4 DEF Transfer, TypeOK, Schedule
  <2> QED
    BY <1>4, <2>1, <2>2, TypeOfRow DEF Transfer, TypeOK
<1>5. CASE Pause(t) \/ Resume(t) \/ FinalizeOutcomes(t)
  BY <1>5, TypeOfRow DEF Pause, Resume, FinalizeOutcomes, TypeOK
<1> QED
  BY <1>1, <1>2, <1>3, <1>4, <1>5 DEF Command

LEMMA TypeAtInit == Init => TypeOK
<1> SUFFICES ASSUME Init PROVE TypeOK
  OBVIOUS
<1>1. participants \in [Participants -> Member] /\ scheduler \in Schedule
  BY MemoryAssumption DEF Init, Member, Schedule
<1>2. actions \in [OpIds -> ActionRow]
  BY DEF Init, NoAction, ActionRow
<1>3. due \in BOOLEAN /\ live \in BOOLEAN
  BY DEF Init
<1>4. /\ status = "running" /\ session_run = "running" /\ owner = Nobody
      /\ revision = 0 /\ cursor = 0 /\ epoch = 0
      /\ transitions = {} /\ observations = {} /\ ingested = {} /\ commits = {}
  BY DEF Init
<1>5. held \in [Threads -> Nat] /\ task \in [Threads -> {Idle}]
  BY DEF Init
<1>6. task \in [Threads -> {Idle} \cup Resolving] /\ \A t \in Threads : task[t].pc # "commit"
  BY <1>5 DEF Idle
<1> QED
  BY <1>1, <1>2, <1>3, <1>4, <1>5, <1>6, BoundsAssumption DEF TypeOK

LEMMA TypePreserved == TypeOK /\ [Next]_vars => TypeOK'
<1> SUFFICES ASSUME TypeOK, [Next]_vars PROVE TypeOK'
  OBVIOUS
<1>1. ASSUME NEW t \in Threads, Resolution(t) PROVE TypeOK'
  BY <1>1, IntentTypes, ComputedTypes, FailureTypes, CommitTypes DEF Resolution
<1>2. ASSUME NEW t \in Threads, Command(t) PROVE TypeOK'
  BY <1>2, CommandTypes
<1>3. CASE Participation
  BY <1>3, ParticipationTypes
<1>4. CASE Cancel
  <2>1. live' \in BOOLEAN
    BY <1>4 DEF Cancel
  <2>2. epoch \in Nat /\ epoch' = epoch + 1
    BY <1>4 DEF Cancel, TypeOK
  <2>3. /\ status' = "cancelled" /\ owner' = Nobody
        /\ UNCHANGED <<revision, participants, scheduler, cursor, due, session_run,
                       journals, held, task>>
    BY <1>4 DEF Cancel
  <2> QED
    BY <2>1, <2>2, <2>3 DEF TypeOK, journals
<1>5. CASE LeaseExpires \/ DeadlineElapses
  <2>1. CASE LeaseExpires
    <3>1. live' \in BOOLEAN
      BY <2>1 DEF LeaseExpires
    <3> QED
      BY <2>1, <3>1 DEF LeaseExpires, TypeOK, row, journals
  <2>2. CASE DeadlineElapses
    BY <2>2, TypeOfRow DEF DeadlineElapses, TypeOK
  <2> QED
    BY <1>5, <2>1, <2>2
<1>6. CASE UNCHANGED vars
  BY <1>6 DEF vars, row, lease, journals, TypeOK
<1> QED
  BY <1>1, <1>2, <1>3, <1>4, <1>5, <1>6 DEF Next

\* The session keeps its types and the keys of its transition journal.
THEOREM TypeCorrectness == Spec => []TypeOK
  BY TypeAtInit, TypePreserved, PTL DEF Spec
------------------------------------------------------------------------------
\* An ended session keeps its status and its history: every step that moves
\* them asks for a status that has not ended.
THEOREM EndsAreFinal == Spec => EndedIsFinal
<1> DEFINE Final == (status \in {"completed", "cancelled"}) =>
                      status' = status /\ revision' = revision /\ commits' = commits
<1>1. [Next]_vars => [Final]_vars
  <2> SUFFICES ASSUME [Next]_vars, status \in {"completed", "cancelled"}
      PROVE  UNCHANGED <<status, revision, commits>>
    OBVIOUS
  <2>1. ASSUME NEW t \in Threads, Resolution(t) PROVE UNCHANGED <<status, revision, commits>>
    BY <2>1, Zenon
    DEF Resolution, ResolveIntent, ResolveComputed, ResolveFails, ResolveCommit, ResolveLost,
        InputsUnchanged, row, journals
  <2>2. ASSUME NEW t \in Threads, Command(t) PROVE UNCHANGED <<status, revision, commits>>
    BY <2>2
    DEF Command, Acquire, Release, ClosePhase, ExternalEvent, Transfer, Pause, Resume,
        FinalizeOutcomes, row, journals
  <2>3. CASE Participation \/ LeaseExpires \/ DeadlineElapses \/ UNCHANGED vars
    BY <2>3, Zenon DEF Participation, Observe, Submit, Memory, LeaseExpires, DeadlineElapses,
                       row, journals, vars
  <2>4. CASE Cancel
    BY <2>4 DEF Cancel, Cancellable
  <2> QED
    BY <2>1, <2>2, <2>3, <2>4 DEF Next
<1> QED
  BY <1>1, PTL DEF Spec, EndedIsFinal
------------------------------------------------------------------------------
\* Only a commit moves the revision and the history; epochs never go back,
\* and nothing but resuming makes a session run again.
LEMMA HistoryMovesByCommits ==
  ASSUME TypeOK, [Next]_vars, \A t \in Threads : ~ResolveCommit(t)
  PROVE  /\ UNCHANGED <<revision, commits>>
         /\ epoch' \in Nat /\ epoch' >= epoch
         /\ status' = "running" \/ status' = "paused" => status = "running" \/ status = "paused"
<1>1. ASSUME NEW t \in Threads, Resolution(t)
      PROVE  UNCHANGED <<revision, commits, epoch, status>>
  BY <1>1, Zenon
  DEF Resolution, ResolveIntent, ResolveComputed, ResolveFails, ResolveLost, row, lease, journals
<1>2. ASSUME NEW t \in Threads, Acquire(t)
      PROVE  /\ UNCHANGED <<revision, commits, status>>
             /\ epoch' = epoch \/ epoch' = epoch + 1
  BY <1>2 DEF Acquire, GrantedEpoch, row, journals
<1>3. ASSUME NEW t \in Threads, Command(t), ~Acquire(t)
      PROVE  /\ UNCHANGED <<revision, commits, epoch>>
             /\ \/ status' = status
                \/ status = "running" \/ status = "paused"
                \/ status' = "completed"
  BY <1>3, Zenon
  DEF Command, Release, ClosePhase, ExternalEvent, Transfer, Pause, Resume, FinalizeOutcomes,
      row, lease, journals
<1>4. CASE Participation \/ LeaseExpires \/ DeadlineElapses \/ UNCHANGED vars
  <2>1. UNCHANGED <<revision, commits, epoch, status>>
    BY <1>4, Zenon
    DEF Participation, Observe, Submit, Memory, LeaseExpires, DeadlineElapses, row, lease,
        journals, vars
  <2> QED
    BY <2>1 DEF TypeOK
<1>5. CASE Cancel
  <2>1. UNCHANGED <<revision, commits>> /\ epoch' = epoch + 1 /\ status' = "cancelled"
    BY <1>5 DEF Cancel, journals
  <2> QED
    BY <2>1 DEF TypeOK
<1>6. epoch \in Nat
  BY DEF TypeOK
<1> QED
  BY <1>1, <1>2, <1>3, <1>4, <1>5, <1>6 DEF Next

\* What a commit adds to the history, and what it was allowed to be.
LEMMA CommitAdds ==
  ASSUME TypeOK, NEW t \in Threads, ResolveCommit(t)
  PROVE  /\ \E c : /\ commits' = commits \cup {c}
                   /\ c.revision = revision + 1
                   /\ c.epoch = epoch
         /\ revision' = revision + 1
         /\ epoch' = epoch
         /\ status = "running"
         /\ revision + 1 >= MaxTurns => status' \in {"outcomes_pending", "completed"}
<1>1. held[t] = epoch
  BY DEF ResolveCommit, Fenced
<1>2. commits' = commits \cup
        {[revision |-> revision + 1, epoch |-> epoch, input |-> task[t].input,
          executed |-> task[t].submitted, result |-> task[t].result]}
  BY <1>1 DEF ResolveCommit
<1>3. revision' = revision + 1 /\ epoch' = epoch /\ status = "running"
  BY DEF ResolveCommit, InputsUnchanged, lease
<1>4. revision + 1 >= MaxTurns => status' \in {"outcomes_pending", "completed"}
  <2>1. Ends(task[t].result) => status' \in {"outcomes_pending", "completed"}
    BY DEF ResolveCommit
  <2> QED
    BY <2>1 DEF Ends
<1>5. \E c : commits' = commits \cup {c} /\ c.revision = revision + 1 /\ c.epoch = epoch
  <2> DEFINE new == [revision |-> revision + 1, epoch |-> epoch, input |-> task[t].input,
                     executed |-> task[t].submitted, result |-> task[t].result]
  <2>1. commits' = commits \cup {new}
    BY <1>2
  <2>2. new.revision = revision + 1 /\ new.epoch = epoch
    OBVIOUS
  <2> HIDE DEF new
  <2> QED
    BY <2>1, <2>2
<1> QED
  BY <1>3, <1>4, <1>5

\* The history has one transition per revision, written under epochs that
\* never go back, whichever writers took turns.
THEOREM HistoryIsAChain == Spec => []CommitsFollowEpochs
<1>1. Init => CommitsFollowEpochs
  BY DEF Init, CommitsFollowEpochs
<1>2. ASSUME TypeOK, CommitsFollowEpochs, [Next]_vars PROVE CommitsFollowEpochs'
  <2>0. revision \in Nat /\ epoch \in Nat /\ \A c \in commits : c.revision \in Nat /\ c.epoch \in Nat
    BY <1>2 DEF TypeOK, Transition
  <2>1. ASSUME NEW t \in Threads, ResolveCommit(t) PROVE CommitsFollowEpochs'
    <3>1. PICK c : commits' = commits \cup {c} /\ c.revision = revision + 1 /\ c.epoch = epoch
      BY <1>2, <2>1, CommitAdds
    <3>2. revision' = revision + 1 /\ epoch' = epoch
      BY <1>2, <2>1, CommitAdds
    <3>3. \A d \in commits : d.revision \in 1..revision /\ d.epoch <= epoch
      BY <1>2 DEF CommitsFollowEpochs
    <3>4. {d.revision : d \in commits'} = 1..revision'
      <4>1. {d.revision : d \in commits'} = {d.revision : d \in commits} \cup {revision + 1}
        BY <3>1
      <4> QED
        BY <1>2, <2>0, <3>2, <4>1 DEF CommitsFollowEpochs
    <3>5. \A d, e \in commits' : /\ d.revision = e.revision => d = e
                                 /\ d.revision < e.revision => d.epoch <= e.epoch
      BY <1>2, <2>0, <3>1, <3>3 DEF CommitsFollowEpochs
    <3>6. \A d \in commits' : d.epoch <= epoch'
      BY <2>0, <3>1, <3>2, <3>3
    <3> QED
      BY <3>4, <3>5, <3>6 DEF CommitsFollowEpochs
  <2>2. CASE \A t \in Threads : ~ResolveCommit(t)
    BY <1>2, <2>0, <2>2, HistoryMovesByCommits DEF CommitsFollowEpochs
  <2> QED
    BY <2>1, <2>2
<1> QED
  BY <1>1, <1>2, TypeCorrectness, PTL DEF Spec

\* A session that can still run has turns left: with WithinTurnBudget alone,
\* a paused session at its budget could be resumed.
TurnsLeft ==
  /\ revision <= MaxTurns
  /\ revision = MaxTurns => status # "running" /\ status # "paused"

\* No session commits more phases than its policy grants.
THEOREM TurnBudgetHolds == Spec => []WithinTurnBudget
<1>1. Init => TurnsLeft
  BY TurnsAssumption DEF Init, TurnsLeft
<1>2. ASSUME TypeOK, TurnsLeft, [Next]_vars PROVE TurnsLeft'
  <2>1. revision \in Nat /\ MaxTurns \in Nat
    BY <1>2, TurnsAssumption DEF TypeOK
  <2>2. ASSUME NEW t \in Threads, ResolveCommit(t) PROVE TurnsLeft'
    BY <1>2, <2>1, <2>2, CommitAdds DEF TurnsLeft
  <2>3. CASE \A t \in Threads : ~ResolveCommit(t)
    BY <1>2, <2>3, HistoryMovesByCommits DEF TurnsLeft
  <2> QED
    BY <2>2, <2>3
<1>3. TurnsLeft => WithinTurnBudget
  BY DEF TurnsLeft, WithinTurnBudget
<1> QED
  BY <1>1, <1>2, <1>3, TypeCorrectness, PTL DEF Spec
------------------------------------------------------------------------------
(***************************************************************************)
(* The journal of computations.                                            *)
(***************************************************************************)
\* A computation that found no recorded result when it started.
Anew(t) == task[t].pc = "compute" /\ task[t].result = None

\* The transitions row of the inputs that t resolves.
RowOf(x, t) == x.revision = task[t].phase /\ x.input = task[t].input
Recorded(x) == x.status \in {"computed", "committed"}

\* Epochs were granted before they are carried.
HeldWereGranted == \A t \in Threads : held[t] <= epoch

\* A recorded row has its result; a committed one belongs to a past phase.
RowsAreSettled ==
  \A x \in transitions : /\ Recorded(x) => x.result # None
                         /\ x.status = "committed" => x.revision < revision

\* While its lease lasts, a computation finds its row as it left it.
AnewHasItsRow ==
  \A t \in Threads : Anew(t) /\ held[t] = epoch =>
    \E x \in transitions : RowOf(x, t) /\ x.status = "computing" /\ x.epoch = held[t]

\* A result in flight is the one that the journal recorded.
ResultIsRecorded ==
  \A t \in Threads : task[t].pc # "idle" /\ task[t].result # None =>
    \E x \in transitions : RowOf(x, t) /\ Recorded(x) /\ x.result = task[t].result

\* Under one epoch a phase is computed once, whoever carries the epoch.
SingleComputation ==
  \A s, t \in Threads :
    /\ Anew(s) /\ Anew(t) /\ held[s] = held[t]
    /\ task[s].phase = task[t].phase /\ task[s].input = task[t].input
    => s = t

\* The inductive invariant of the journal.  That threads do not compute twice
\* rests on the row that each finds, and this on nobody else computing.
JournalInvariant ==
  /\ TypeOK
  /\ HeldWereGranted
  /\ RowsAreSettled
  /\ AnewHasItsRow
  /\ ResultIsRecorded
  /\ SingleComputation

LEMMA JournalAtInit == Init => JournalInvariant
<1> SUFFICES ASSUME Init PROVE JournalInvariant
  OBVIOUS
<1>1. /\ transitions = {} /\ epoch = 0
      /\ \A t \in Threads : held[t] = 0 /\ task[t].pc = "idle"
  BY DEF Init, Idle
<1> QED
  BY <1>1, TypeAtInit
  DEF JournalInvariant, HeldWereGranted, RowsAreSettled, AnewHasItsRow, ResultIsRecorded,
      SingleComputation, Anew

\* Two rows of the inputs that a thread resolves are the same row.
LEMMA OneRow ==
  ASSUME TypeOK, NEW t \in Threads, NEW x \in transitions, NEW y \in transitions,
         RowOf(x, t), RowOf(y, t)
  PROVE  x = y
  BY DEF TypeOK, RowOf

\* Steps that leave the journal and the resolutions alone.
LEMMA JournalQuiet ==
  ASSUME JournalInvariant, TypeOK', UNCHANGED <<transitions, task, revision, held>>,
         epoch' >= epoch
  PROVE  JournalInvariant'
<1>1. epoch \in Nat /\ epoch' \in Nat /\ held \in [Threads -> Nat]
  BY DEF JournalInvariant, TypeOK
<1>2. HeldWereGranted' /\ \A t \in Threads : held[t] = epoch' => held[t] = epoch
  BY <1>1 DEF JournalInvariant, HeldWereGranted
<1>3. \A t \in Threads : Anew(t)' = Anew(t) /\ \A x \in transitions : RowOf(x, t)' = RowOf(x, t)
  BY DEF Anew, RowOf
<1>4. AnewHasItsRow'
  BY <1>2, <1>3 DEF JournalInvariant, AnewHasItsRow
<1>5. RowsAreSettled' /\ ResultIsRecorded' /\ SingleComputation'
  BY <1>3 DEF JournalInvariant, RowsAreSettled, ResultIsRecorded, SingleComputation
<1> QED
  BY <1>2, <1>4, <1>5 DEF JournalInvariant

\* Only who resolves nothing may move to another epoch.
LEMMA JournalAcquire ==
  ASSUME JournalInvariant, TypeOK', NEW t \in Threads, Acquire(t)
  PROVE  JournalInvariant'
<1>1. /\ UNCHANGED <<transitions, task, revision>> /\ task[t].pc = "idle"
      /\ held' = [held EXCEPT ![t] = epoch']
      /\ epoch' = epoch \/ epoch' = epoch + 1
  BY DEF Acquire, GrantedEpoch, IsIdle, row, journals
<1>2. epoch \in Nat /\ epoch' \in Nat /\ held \in [Threads -> Nat]
  BY DEF JournalInvariant, TypeOK
<1>3. held'[t] = epoch' /\ \A u \in Threads : u # t => held'[u] = held[u]
  BY <1>1, <1>2
<1>4. HeldWereGranted'
  BY <1>1, <1>2, <1>3 DEF JournalInvariant, HeldWereGranted
<1>5. \A u \in Threads : /\ Anew(u)' = Anew(u) /\ (Anew(u) => u # t)
                         /\ \A x \in transitions : RowOf(x, u)' = RowOf(x, u)
  BY <1>1 DEF Anew, RowOf
<1>6. \A u \in Threads : u # t /\ held'[u] = epoch' => held[u] = epoch
  BY <1>1, <1>2, <1>3 DEF JournalInvariant, HeldWereGranted
<1>7. AnewHasItsRow'
  BY <1>1, <1>3, <1>5, <1>6 DEF JournalInvariant, AnewHasItsRow
<1>8. SingleComputation'
  BY <1>1, <1>3, <1>5 DEF JournalInvariant, SingleComputation
<1>9. RowsAreSettled' /\ ResultIsRecorded'
  BY <1>1, <1>5 DEF JournalInvariant, RowsAreSettled, ResultIsRecorded
<1> QED
  BY <1>4, <1>7, <1>8, <1>9 DEF JournalInvariant

\* The first transaction finds a recorded result, or the row of an abandoned
\* computation, or none: never that of a computation under its own epoch.
LEMMA JournalIntent ==
  ASSUME JournalInvariant, TypeOK', NEW t \in Threads, ResolveIntent(t)
  PROVE  JournalInvariant'
<1> DEFINE computed == {x \in Intent(revision, PhaseInput) : x.status = "computed"}
           new == [revision |-> revision, input |-> PhaseInput, epoch |-> held[t],
                   status |-> "computing", result |-> None]
<1>1. /\ UNCHANGED <<revision, epoch, held>> /\ held[t] = epoch /\ task[t].pc = "idle"
      /\ ~InProgress(t)
  BY DEF ResolveIntent, Fenced, IsIdle, row, lease
<1>2. PICK r \in IF computed # {} THEN {x.result : x \in computed} ELSE {None} :
        task' = [task EXCEPT ![t] = [pc |-> "compute", phase |-> revision,
                                     input |-> PhaseInput, submitted |-> Submitted,
                                     result |-> r]]
  BY DEF ResolveIntent
<1>3. /\ task'[t].pc = "compute" /\ task'[t].phase = revision /\ task'[t].input = PhaseInput
      /\ task'[t].result = r
      /\ \A u \in Threads : u # t => task'[u] = task[u]
  BY <1>2 DEF JournalInvariant, TypeOK
<1>4. HeldWereGranted'
  BY <1>1 DEF JournalInvariant, HeldWereGranted
<1>5. \A x : x \in Intent(revision, PhaseInput) <=> x \in transitions /\ RowOf(x, t)'
  BY <1>3 DEF Intent, RowOf
<1>6. \A u \in Threads : u # t => /\ Anew(u)' = Anew(u)
                                  /\ \A x : RowOf(x, u)' = RowOf(x, u)
  BY <1>3 DEF Anew, RowOf
<1>7. CASE computed # {}
  <2>1. PICK y \in computed : r = y.result
    BY <1>2, <1>7
  <2>2. transitions' = transitions
    BY <1>7 DEF ResolveIntent
  <2>3. r # None
    BY <1>5, <2>1 DEF JournalInvariant, RowsAreSettled, Recorded
  <2>4. ~Anew(t)'
    BY <1>3, <2>3 DEF Anew
  <2>5. RowsAreSettled'
    BY <1>1, <2>2 DEF JournalInvariant, RowsAreSettled, Recorded
  <2>6. AnewHasItsRow' /\ SingleComputation'
    BY <1>1, <1>3, <1>6, <2>2, <2>4 DEF JournalInvariant, AnewHasItsRow, SingleComputation
  <2>7. ResultIsRecorded'
    BY <1>3, <1>5, <1>6, <2>1, <2>2 DEF JournalInvariant, ResultIsRecorded, Recorded
  <2> QED
    BY <1>4, <2>5, <2>6, <2>7 DEF JournalInvariant
<1>8. CASE computed = {}
  <2>1. r = None
    BY <1>2, <1>8
  <2>2. transitions' = (transitions \ Intent(revision, PhaseInput)) \cup {new}
    BY <1>8 DEF ResolveIntent, WithTransition
  <2>3. /\ new.revision = revision /\ new.input = PhaseInput /\ new.status = "computing"
        /\ new.epoch = held[t]
    OBVIOUS
  <2> HIDE DEF new
  <2>4. RowsAreSettled'
    BY <1>1, <2>2, <2>3 DEF JournalInvariant, RowsAreSettled, Recorded
  <2>5. new.revision = task'[t].phase /\ new.input = task'[t].input
    BY <1>3, <2>3
  <2>6. ASSUME NEW u \in Threads, u # t, Anew(u), held[u] = epoch
        PROVE  \E x \in transitions : /\ RowOf(x, u) /\ x.status = "computing"
                                      /\ x.epoch = held[u] /\ x \in transitions'
                                      /\ ~(RowOf(x, t)')
    <3>1. PICK x \in transitions : RowOf(x, u) /\ x.status = "computing" /\ x.epoch = held[u]
      BY <2>6 DEF JournalInvariant, AnewHasItsRow
    <3>2. x \notin Intent(revision, PhaseInput)
      BY <1>1, <2>6, <3>1 DEF InProgress
    <3> QED
      BY <1>5, <2>2, <3>1, <3>2
  <2>7. AnewHasItsRow'
    <3>1. new \in transitions' /\ new.status = "computing" /\ new.epoch = held[t]
      BY <2>2, <2>3
    <3>2. ASSUME NEW u \in Threads, Anew(u)', held'[u] = epoch'
          PROVE  \E x \in transitions' : RowOf(x, u)' /\ x.status = "computing" /\ x.epoch = held'[u]
      <4>1. CASE u = t
        BY <1>1, <2>5, <3>1, <4>1 DEF RowOf
      <4>2. CASE u # t
        BY <1>1, <1>6, <2>6, <3>2, <4>2
      <4> QED
        BY <4>1, <4>2
    <3> QED
      BY <3>2 DEF AnewHasItsRow
  <2>8. \A x \in Intent(revision, PhaseInput) : ~Recorded(x)
    BY <1>8, <1>5 DEF JournalInvariant, TypeOK, RowsAreSettled, Recorded, Intent
  <2>9. ResultIsRecorded'
    <3> SUFFICES ASSUME NEW u \in Threads, task'[u].pc # "idle", task'[u].result # None
        PROVE  \E x \in transitions' : RowOf(x, u)' /\ Recorded(x) /\ x.result = task'[u].result
      BY DEF ResultIsRecorded, Recorded
    <3>1. u # t /\ task'[u] = task[u]
      BY <1>3, <2>1
    <3>2. PICK x \in transitions : RowOf(x, u) /\ Recorded(x) /\ x.result = task[u].result
      BY <3>1 DEF JournalInvariant, ResultIsRecorded
    <3> QED
      BY <1>6, <2>2, <2>8, <3>1, <3>2
  <2>10. \A u \in Threads : u # t /\ Anew(u) /\ held[u] = held[t] =>
           ~(task[u].phase = revision /\ task[u].input = PhaseInput)
    <3> SUFFICES ASSUME NEW u \in Threads, u # t, Anew(u), held[u] = held[t]
        PROVE  ~(task[u].phase = revision /\ task[u].input = PhaseInput)
      OBVIOUS
    <3>1. PICK x \in transitions : RowOf(x, u) /\ ~(RowOf(x, t)')
      BY <1>1, <2>6
    <3> QED
      BY <1>3, <3>1 DEF RowOf
  <2>11. SingleComputation'
    BY <1>1, <1>3, <1>6, <2>10 DEF JournalInvariant, SingleComputation
  <2> QED
    BY <1>4, <2>4, <2>7, <2>9, <2>11 DEF JournalInvariant
<1> QED
  BY <1>7, <1>8

\* Rows are updated in place by a thread that stops computing: recorded ones
\* keep their results, and the row of another computation is not touched.
LEMMA JournalUpdate ==
  ASSUME JournalInvariant, TypeOK', NEW t \in Threads, task[t].pc # "idle",
         NEW f,
         \A x \in transitions :
           /\ f[x].revision = x.revision /\ f[x].input = x.input
           /\ Recorded(x) => Recorded(f[x]) /\ f[x].result = x.result
           /\ f[x] # x => RowOf(x, t) /\ (held[t] = epoch \/ x.epoch = held[t]),
         transitions' = {f[x] : x \in transitions},
         UNCHANGED <<epoch, held>>,
         \A u \in Threads : u # t => task'[u] = task[u],
         ~Anew(t)',
         task'[t].pc # "idle" /\ task'[t].result # None =>
           \E x \in transitions : /\ x.revision = task'[t].phase /\ x.input = task'[t].input
                                  /\ Recorded(f[x]) /\ f[x].result = task'[t].result,
         RowsAreSettled'
  PROVE  JournalInvariant'
<1>1. HeldWereGranted'
  BY DEF JournalInvariant, HeldWereGranted
<1>2. \A u \in Threads : u # t => Anew(u)' = Anew(u) /\ \A x : RowOf(x, u)' = RowOf(x, u)
  BY DEF Anew, RowOf
<1>3. SingleComputation'
  BY <1>2 DEF JournalInvariant, SingleComputation
<1>4. ASSUME NEW u \in Threads, u # t, Anew(u), held[u] = epoch,
             NEW x \in transitions, RowOf(x, u), x.status = "computing", x.epoch = held[u]
      PROVE  f[x] = x
  <2> SUFFICES ASSUME RowOf(x, t), held[t] = epoch PROVE FALSE
    BY <1>4
  <2>1. CASE Anew(t)
    <3>1. task[t].phase = task[u].phase /\ task[t].input = task[u].input
      BY <1>4 DEF RowOf
    <3> QED
      BY <1>4, <2>1, <3>1 DEF JournalInvariant, SingleComputation
  <2>2. CASE task[t].result # None
    <3>1. PICK y \in transitions : RowOf(y, t) /\ Recorded(y)
      BY <2>2 DEF JournalInvariant, ResultIsRecorded
    <3>2. y = x
      BY <3>1, OneRow DEF JournalInvariant
    <3> QED
      BY <1>4, <3>1, <3>2 DEF Recorded
  <2>3. task[t].pc = "compute" \/ task[t].result # None
    BY DEF JournalInvariant, TypeOK, Resolving, Idle
  <2> QED
    BY <2>1, <2>2, <2>3 DEF Anew
<1>5. AnewHasItsRow'
  <2> SUFFICES ASSUME NEW u \in Threads, Anew(u)', held'[u] = epoch'
      PROVE  \E x \in transitions' : RowOf(x, u)' /\ x.status = "computing" /\ x.epoch = held'[u]
    BY DEF AnewHasItsRow
  <2>1. u # t /\ Anew(u) /\ held[u] = epoch
    BY <1>2
  <2>2. PICK x \in transitions : RowOf(x, u) /\ x.status = "computing" /\ x.epoch = held[u]
    BY <2>1 DEF JournalInvariant, AnewHasItsRow
  <2>3. x \in transitions'
    BY <1>4, <2>1, <2>2
  <2> QED
    BY <1>2, <2>1, <2>2, <2>3
<1>6. ResultIsRecorded'
  <2> SUFFICES ASSUME NEW u \in Threads, task'[u].pc # "idle", task'[u].result # None
      PROVE  \E x \in transitions' : RowOf(x, u)' /\ Recorded(x) /\ x.result = task'[u].result
    BY DEF ResultIsRecorded, Recorded
  <2>1. CASE u = t
    BY <2>1 DEF RowOf
  <2>2. CASE u # t
    <3>1. PICK x \in transitions : RowOf(x, u) /\ Recorded(x) /\ x.result = task[u].result
      BY <2>2 DEF JournalInvariant, ResultIsRecorded
    <3>2. f[x] \in transitions' /\ RowOf(f[x], u) /\ Recorded(f[x]) /\ f[x].result = task[u].result
      BY <3>1 DEF RowOf
    <3> QED
      BY <1>2, <2>2, <3>2 DEF RowOf
  <2> QED
    BY <2>1, <2>2
<1> QED
  BY <1>1, <1>3, <1>5, <1>6 DEF JournalInvariant

LEMMA JournalComputed ==
  ASSUME JournalInvariant, TypeOK', NEW t \in Threads, ResolveComputed(t)
  PROVE  JournalInvariant'
<1>1. PICK r \in (IF task[t].result = None THEN Results ELSE {task[t].result}) :
        /\ transitions' =
             {IF x \in Intent(task[t].phase, task[t].input)
                THEN [x EXCEPT !.status = "computed", !.result = r] ELSE x :
              x \in transitions}
        /\ task' = [task EXCEPT ![t].pc = "commit", ![t].result = r]
  BY Zenon DEF ResolveComputed
<1>2. /\ task[t].pc = "compute" /\ task[t].phase = revision /\ held[t] = epoch
      /\ UNCHANGED <<revision, epoch, held>>
  BY Zenon DEF ResolveComputed, MayRecord, Fenced, InputsUnchanged, row, lease
<1>3. task[t] \in Resolving /\ transitions \subseteq TransitionRow
  BY <1>2 DEF JournalInvariant, TypeOK, Idle
<1>4. r # None /\ (task[t].result # None => r = task[t].result)
  BY <1>1, <1>3, ResultsAssumption
<1>5. /\ task'[t].pc = "commit" /\ task'[t].result = r
      /\ task'[t].phase = task[t].phase /\ task'[t].input = task[t].input
      /\ \A u \in Threads : u # t => task'[u] = task[u]
  BY <1>1, <1>3 DEF JournalInvariant, TypeOK, Resolving
<1> DEFINE f == [x \in transitions |->
                   IF x \in Intent(task[t].phase, task[t].input)
                     THEN [x EXCEPT !.status = "computed", !.result = r] ELSE x]
<1>6. transitions' = {f[x] : x \in transitions}
  BY <1>1
<1>7. \A x \in transitions :
        /\ f[x].revision = x.revision /\ f[x].input = x.input
        /\ RowOf(x, t) => f[x].status = "computed" /\ f[x].result = r
        /\ ~RowOf(x, t) => f[x] = x
  BY <1>3 DEF TransitionRow, Intent, RowOf
<1> HIDE DEF f
<1>8. ASSUME NEW x \in transitions, RowOf(x, t), Recorded(x) PROVE x.result = r
  <2>1. CASE task[t].result = None
    <3>1. PICK y \in transitions : RowOf(y, t) /\ y.status = "computing"
      BY <1>2, <2>1 DEF JournalInvariant, AnewHasItsRow, Anew
    <3> QED
      BY <1>8, <3>1, OneRow DEF JournalInvariant, Recorded
  <2>2. CASE task[t].result # None
    <3>1. PICK y \in transitions : RowOf(y, t) /\ y.result = task[t].result
      BY <1>2, <2>2 DEF JournalInvariant, ResultIsRecorded
    <3> QED
      BY <1>4, <1>8, <2>2, <3>1, OneRow DEF JournalInvariant
  <2> QED
    BY <2>1, <2>2
<1>9. \E x \in transitions : RowOf(x, t)
  <2>1. CASE task[t].result = None
    BY <1>2, <2>1 DEF JournalInvariant, AnewHasItsRow, Anew
  <2>2. CASE task[t].result # None
    BY <1>2, <2>2 DEF JournalInvariant, ResultIsRecorded
  <2> QED
    BY <2>1, <2>2
<1>10. \E x \in transitions : /\ x.revision = task'[t].phase /\ x.input = task'[t].input
                              /\ Recorded(f[x]) /\ f[x].result = task'[t].result
  BY <1>5, <1>7, <1>9 DEF RowOf, Recorded
<1>11. RowsAreSettled'
  <2>1. \A x \in transitions : /\ Recorded(f[x]) => f[x].result # None
                               /\ f[x].status = "committed" => f[x].revision < revision
    BY <1>4, <1>7 DEF JournalInvariant, RowsAreSettled, Recorded
  <2> QED
    BY <1>2, <1>6, <2>1 DEF RowsAreSettled, Recorded
<1>12. \A x \in transitions :
         /\ f[x].revision = x.revision /\ f[x].input = x.input
         /\ Recorded(x) => Recorded(f[x]) /\ f[x].result = x.result
         /\ f[x] # x => RowOf(x, t) /\ (held[t] = epoch \/ x.epoch = held[t])
  BY <1>2, <1>7, <1>8 DEF Recorded
<1>13. ~Anew(t)' /\ task[t].pc # "idle"
  BY <1>2, <1>5 DEF Anew
<1> QED
  BY <1>2, <1>5, <1>6, <1>10, <1>11, <1>12, <1>13, JournalUpdate

LEMMA JournalFails ==
  ASSUME JournalInvariant, TypeOK', NEW t \in Threads, ResolveFails(t)
  PROVE  JournalInvariant'
<1>1. /\ task[t].pc = "compute" /\ task' = [task EXCEPT ![t] = Idle]
      /\ UNCHANGED <<revision, epoch, held>>
      /\ transitions' =
           {IF /\ x \in Intent(task[t].phase, task[t].input)
               /\ x.epoch = held[t] /\ x.status = "computing"
              THEN [x EXCEPT !.status = "failed"] ELSE x :
            x \in transitions}
  BY Zenon DEF ResolveFails, row, lease
<1>2. /\ task'[t].pc = "idle" /\ \A u \in Threads : u # t => task'[u] = task[u]
      /\ transitions \subseteq TransitionRow
  BY <1>1 DEF JournalInvariant, TypeOK, Idle
<1> DEFINE f == [x \in transitions |->
                   IF /\ x \in Intent(task[t].phase, task[t].input)
                      /\ x.epoch = held[t] /\ x.status = "computing"
                     THEN [x EXCEPT !.status = "failed"] ELSE x]
<1>3. transitions' = {f[x] : x \in transitions}
  BY <1>1
<1>4. \A x \in transitions :
        /\ f[x].revision = x.revision /\ f[x].input = x.input
        /\ Recorded(x) => f[x] = x
        /\ f[x] # x => RowOf(x, t) /\ x.epoch = held[t] /\ f[x].status = "failed"
  BY <1>2 DEF TransitionRow, Intent, RowOf, Recorded
<1> HIDE DEF f
<1>5. RowsAreSettled'
  <2>1. \A x \in transitions : /\ Recorded(f[x]) => f[x].result # None
                               /\ f[x].status = "committed" => f[x].revision < revision
    BY <1>4 DEF JournalInvariant, RowsAreSettled, Recorded
  <2> QED
    BY <1>1, <1>3, <2>1 DEF RowsAreSettled, Recorded
<1>6. ~Anew(t)' /\ task[t].pc # "idle"
  BY <1>1, <1>2 DEF Anew
<1>7. \A x \in transitions :
        /\ f[x].revision = x.revision /\ f[x].input = x.input
        /\ Recorded(x) => Recorded(f[x]) /\ f[x].result = x.result
        /\ f[x] # x => RowOf(x, t) /\ (held[t] = epoch \/ x.epoch = held[t])
  BY <1>4
<1> QED
  BY <1>1, <1>2, <1>3, <1>5, <1>6, <1>7, JournalUpdate

LEMMA JournalLost ==
  ASSUME JournalInvariant, TypeOK', NEW t \in Threads, ResolveLost(t)
  PROVE  JournalInvariant'
<1>1. /\ task' = [task EXCEPT ![t] = Idle]
      /\ UNCHANGED <<transitions, revision, epoch, held>>
  BY DEF ResolveLost, row, lease, journals
<1>2. \A u \in Threads : task'[u].pc = "idle" \/ task'[u] = task[u]
  BY <1>1 DEF JournalInvariant, TypeOK, Idle
<1>3. \A u \in Threads : /\ Anew(u)' => Anew(u) /\ task'[u] = task[u]
                         /\ task'[u] = task[u] => \A x : RowOf(x, u)' = RowOf(x, u)
  BY <1>2 DEF Anew, RowOf
<1>4. AnewHasItsRow' /\ SingleComputation'
  BY <1>1, <1>3 DEF JournalInvariant, AnewHasItsRow, SingleComputation
<1>5. ResultIsRecorded'
  BY <1>1, <1>2, <1>3 DEF JournalInvariant, ResultIsRecorded
<1> QED
  BY <1>1, <1>4, <1>5 DEF JournalInvariant, HeldWereGranted, RowsAreSettled

\* The commit settles the row whose result it takes.
LEMMA JournalCommit ==
  ASSUME JournalInvariant, TypeOK', NEW t \in Threads, ResolveCommit(t)
  PROVE  /\ JournalInvariant'
         /\ \E x \in transitions' : /\ x.revision = revision /\ x.input = task[t].input
                                    /\ x.status = "committed" /\ x.result = task[t].result
         /\ \A x \in transitions : x.status = "committed" => x \in transitions'
<1>1. /\ task[t].pc = "commit" /\ task' = [task EXCEPT ![t] = Idle]
      /\ task[t].phase = revision /\ revision' = revision + 1 /\ held[t] = epoch
      /\ UNCHANGED <<epoch, held>>
      /\ transitions' =
           {IF x \in Intent(task[t].phase, task[t].input)
              THEN [x EXCEPT !.status = "committed"] ELSE x :
            x \in transitions}
  BY Zenon DEF ResolveCommit, InputsUnchanged, Fenced, lease
<1>2. /\ task'[t].pc = "idle" /\ \A u \in Threads : u # t => task'[u] = task[u]
      /\ transitions \subseteq TransitionRow /\ task[t].result # None
  BY <1>1 DEF JournalInvariant, TypeOK, Idle
<1> DEFINE f == [x \in transitions |->
                   IF x \in Intent(task[t].phase, task[t].input)
                     THEN [x EXCEPT !.status = "committed"] ELSE x]
<1>3. transitions' = {f[x] : x \in transitions}
  BY <1>1
<1>4. \A x \in transitions :
        /\ f[x].revision = x.revision /\ f[x].input = x.input /\ f[x].result = x.result
        /\ RowOf(x, t) => f[x].status = "committed"
        /\ ~RowOf(x, t) => f[x] = x
  BY <1>2 DEF TransitionRow, Intent, RowOf
<1> HIDE DEF f
<1>5. PICK y \in transitions : RowOf(y, t) /\ Recorded(y) /\ y.result = task[t].result
  BY <1>1, <1>2 DEF JournalInvariant, ResultIsRecorded
<1>6. \A x \in transitions : RowOf(x, t) => x = y
  BY <1>5, OneRow DEF JournalInvariant
<1>7. RowsAreSettled'
  <2>1. revision \in Nat /\ \A x \in transitions : x.revision \in Nat
    BY <1>2 DEF JournalInvariant, TypeOK, TransitionRow
  <2>2. \A x \in transitions : /\ Recorded(f[x]) => f[x].result # None
                               /\ f[x].status = "committed" => f[x].revision < revision + 1
    <3> SUFFICES ASSUME NEW x \in transitions
        PROVE  /\ Recorded(f[x]) => f[x].result # None
               /\ f[x].status = "committed" => f[x].revision < revision + 1
      OBVIOUS
    <3>1. CASE RowOf(x, t)
      BY <1>1, <1>2, <1>4, <1>5, <1>6, <2>1, <3>1 DEF RowOf
    <3>2. CASE ~RowOf(x, t)
      BY <1>4, <2>1, <3>2 DEF JournalInvariant, RowsAreSettled
    <3> QED
      BY <3>1, <3>2
  <2> QED
    BY <1>1, <1>3, <2>2 DEF RowsAreSettled, Recorded
<1>8. ~Anew(t)' /\ task[t].pc # "idle"
  BY <1>1, <1>2 DEF Anew
<1>9. \A x \in transitions :
        /\ f[x].revision = x.revision /\ f[x].input = x.input
        /\ Recorded(x) => Recorded(f[x]) /\ f[x].result = x.result
        /\ f[x] # x => RowOf(x, t) /\ (held[t] = epoch \/ x.epoch = held[t])
  BY <1>1, <1>4 DEF Recorded
<1>10. JournalInvariant'
  BY <1>1, <1>2, <1>3, <1>7, <1>8, <1>9, JournalUpdate
<1>11. /\ f[y] \in transitions' /\ f[y].revision = revision /\ f[y].input = task[t].input
       /\ f[y].status = "committed" /\ f[y].result = task[t].result
  BY <1>1, <1>3, <1>4, <1>5 DEF RowOf
<1>12. \A x \in transitions : x.status = "committed" => x \in transitions'
  <2> SUFFICES ASSUME NEW x \in transitions, x.status = "committed" PROVE ~RowOf(x, t)
    BY <1>3, <1>4
  <2>1. x.revision < revision /\ x.revision \in Nat /\ revision \in Nat
    BY <1>2 DEF JournalInvariant, RowsAreSettled, TypeOK, TransitionRow
  <2> QED
    BY <1>1, <2>1 DEF RowOf
<1> QED
  BY <1>10, <1>11, <1>12

\* All other steps leave the journal alone.
LEMMA JournalOthers ==
  ASSUME TypeOK, [Next]_vars,
         \A t \in Threads : ~Resolution(t) /\ ~Acquire(t)
  PROVE  UNCHANGED <<transitions, task, revision, held>> /\ epoch' >= epoch
<1>1. epoch \in Nat
  BY DEF TypeOK
<1>2. ASSUME NEW t \in Threads, Command(t)
      PROVE  UNCHANGED <<transitions, task, revision, held, epoch>>
  BY <1>2, Zenon
  DEF Command, Release, ClosePhase, ExternalEvent, Transfer, Pause, Resume, FinalizeOutcomes,
      row, lease, journals
<1>3. CASE Participation \/ LeaseExpires \/ DeadlineElapses \/ UNCHANGED vars
  <2>1. UNCHANGED <<transitions, task, revision, held, epoch>>
    BY <1>3, Zenon
    DEF Participation, Observe, Submit, Memory, LeaseExpires, DeadlineElapses, row, lease,
        journals, vars
  <2> QED
    BY <1>1, <2>1
<1>4. CASE Cancel
  <2>1. UNCHANGED <<transitions, task, revision, held>> /\ epoch' = epoch + 1
    BY <1>4 DEF Cancel, journals
  <2> QED
    BY <1>1, <2>1
<1> QED
  BY <1>1, <1>2, <1>3, <1>4 DEF Next

LEMMA JournalPreserved == JournalInvariant /\ [Next]_vars => JournalInvariant'
<1> SUFFICES ASSUME JournalInvariant, [Next]_vars PROVE JournalInvariant'
  OBVIOUS
<1>1. TypeOK /\ TypeOK'
  BY TypePreserved DEF JournalInvariant
<1>2. ASSUME NEW t \in Threads, Resolution(t) PROVE JournalInvariant'
  BY <1>1, <1>2, JournalIntent, JournalComputed, JournalFails, JournalCommit, JournalLost
  DEF Resolution
<1>3. ASSUME NEW t \in Threads, Acquire(t) PROVE JournalInvariant'
  BY <1>1, <1>3, JournalAcquire
<1>4. CASE \A t \in Threads : ~Resolution(t) /\ ~Acquire(t)
  BY <1>1, <1>4, JournalOthers, JournalQuiet
<1> QED
  BY <1>2, <1>3, <1>4

\* Callers that share a lease never compute the same phase at the same time,
\* although nothing but the transitions row tells them of one another.
THEOREM PhasesAreComputedOnce == Spec => []OneComputationPerLease
<1>1. JournalInvariant => OneComputationPerLease
  BY DEF JournalInvariant, SingleComputation, Anew, OneComputationPerLease
<1> QED
  BY <1>1, JournalAtInit, JournalPreserved, PTL DEF Spec
------------------------------------------------------------------------------
\* The rows of all that was committed, and the feed events of every phase.
CommitsAreJournaled ==
  \A c \in commits :
    \E x \in transitions : /\ x.revision = c.revision - 1 /\ x.input = c.input
                           /\ x.status = "committed" /\ x.result = c.result

\* A new event is none of the old ones, since cursors only grow.
EventsAreHandedOverOnce ==
  /\ \A e \in ingested : e <= cursor
  /\ ingested = scheduler.events \cup UNION {c.input.scheduler.events : c \in commits}
  /\ \A c \in commits : c.input.scheduler.events \cap scheduler.events = {}
  /\ \A c, d \in commits :
       c # d => c.input.scheduler.events \cap d.input.scheduler.events = {}

LEMMA CommittedRowsStay ==
  ASSUME JournalInvariant, [Next]_vars
  PROVE  \A x \in transitions : x.status = "committed" => x \in transitions'
<1> SUFFICES ASSUME NEW x \in transitions, x.status = "committed" PROVE x \in transitions'
  OBVIOUS
<1>1. /\ x.revision < revision /\ x.revision \in Nat /\ revision \in Nat
      /\ TypeOK /\ TypeOK'
  BY TypePreserved DEF JournalInvariant, RowsAreSettled, TypeOK, TransitionRow
<1>2. ASSUME NEW t \in Threads, ResolveIntent(t) PROVE x \in transitions'
  <2>1. x \notin Intent(revision, PhaseInput)
    BY <1>1 DEF Intent
  <2> QED
    BY <1>2, <2>1 DEF ResolveIntent, WithTransition
<1>3. ASSUME NEW t \in Threads, ResolveComputed(t) PROVE x \in transitions'
  <2>0. task[t].phase = revision
    BY <1>3, Zenon DEF ResolveComputed, MayRecord, InputsUnchanged
  <2>1. x \notin Intent(task[t].phase, task[t].input)
    BY <1>1, <2>0 DEF Intent
  <2> QED
    BY <1>3, <2>1 DEF ResolveComputed
<1>4. ASSUME NEW t \in Threads, ResolveFails(t) PROVE x \in transitions'
  BY <1>4 DEF ResolveFails
<1>5. ASSUME NEW t \in Threads, ResolveCommit(t) PROVE x \in transitions'
  BY <1>1, <1>5, JournalCommit
<1>6. ASSUME NEW t \in Threads, ResolveLost(t) \/ Acquire(t) PROVE x \in transitions'
  BY <1>6 DEF ResolveLost, Acquire, journals
<1> QED
  BY <1>1, <1>2, <1>3, <1>4, <1>5, <1>6, JournalOthers DEF Resolution

LEMMA JournaledPreserved ==
  ASSUME JournalInvariant, CommitsAreJournaled, [Next]_vars
  PROVE  CommitsAreJournaled'
<1>1. TypeOK /\ TypeOK'
  BY TypePreserved DEF JournalInvariant
<1>2. \A x \in transitions : x.status = "committed" => x \in transitions'
  BY CommittedRowsStay
<1>3. \A c \in commits :
        \E x \in transitions' : /\ x.revision = c.revision - 1 /\ x.input = c.input
                                /\ x.status = "committed" /\ x.result = c.result
  BY <1>2 DEF CommitsAreJournaled
<1>4. ASSUME NEW t \in Threads, ResolveCommit(t) PROVE CommitsAreJournaled'
  <2> DEFINE new == [revision |-> revision', epoch |-> held[t], input |-> task[t].input,
                     executed |-> task[t].submitted, result |-> task[t].result]
  <2>1. commits' = commits \cup {new} /\ revision' = revision + 1
    BY <1>4 DEF ResolveCommit
  <2>2. new.revision - 1 = revision /\ new.input = task[t].input /\ new.result = task[t].result
    BY <1>1, <2>1 DEF TypeOK
  <2> HIDE DEF new
  <2>3. \E x \in transitions' : /\ x.revision = new.revision - 1 /\ x.input = new.input
                                /\ x.status = "committed" /\ x.result = new.result
    BY <1>1, <1>4, <2>2, JournalCommit
  <2> QED
    BY <1>3, <2>1, <2>3 DEF CommitsAreJournaled
<1>5. CASE \A t \in Threads : ~ResolveCommit(t)
  BY <1>1, <1>3, <1>5, HistoryMovesByCommits DEF CommitsAreJournaled
<1> QED
  BY <1>4, <1>5

LEMMA EventsPreserved ==
  ASSUME TypeOK, EventsAreHandedOverOnce, [Next]_vars
  PROVE  EventsAreHandedOverOnce'
<1>1. ASSUME NEW t \in Threads, ResolveCommit(t) PROVE EventsAreHandedOverOnce'
  <2>1. PICK new : commits' = commits \cup {new} /\ new.input = task[t].input
    <3> DEFINE c == [revision |-> revision', epoch |-> held[t], input |-> task[t].input,
                     executed |-> task[t].submitted, result |-> task[t].result]
    <3>1. commits' = commits \cup {c} /\ c.input = task[t].input
      BY <1>1 DEF ResolveCommit
    <3> HIDE DEF c
    <3> QED
      BY <3>1
  <2>2. new.input.scheduler = scheduler
    BY <1>1, <2>1 DEF ResolveCommit, InputsUnchanged
  <2>3. scheduler'.events = {} /\ ingested' = ingested /\ cursor' = cursor
    BY <1>1 DEF ResolveCommit
  <2>4. UNION {c.input.scheduler.events : c \in commits'} =
          (UNION {c.input.scheduler.events : c \in commits}) \cup scheduler.events
    BY <2>1, <2>2
  <2>5. \A c, d \in commits' :
          c # d => c.input.scheduler.events \cap d.input.scheduler.events = {}
    BY <2>1, <2>2 DEF EventsAreHandedOverOnce
  <2> QED
    BY <2>3, <2>4, <2>5 DEF EventsAreHandedOverOnce
<1>2. ASSUME NEW t \in Threads, NEW c \in 1..MaxCursor, ExternalEvent(t, c)
      PROVE  EventsAreHandedOverOnce'
  <2>1. /\ c > cursor /\ cursor' = c /\ ingested' = ingested \cup {c}
        /\ scheduler'.events = scheduler.events \cup {c} /\ commits' = commits
    BY <1>2 DEF ExternalEvent, TypeOK, Schedule
  <2>2. c \notin ingested /\ \A e \in ingested' : e <= cursor'
    BY <2>1, BoundsAssumption DEF EventsAreHandedOverOnce, TypeOK
  <2>3. \A d \in commits : d.input.scheduler.events \subseteq ingested
    BY DEF EventsAreHandedOverOnce
  <2> QED
    BY <2>1, <2>2, <2>3 DEF EventsAreHandedOverOnce
<1>3. ASSUME NEW t \in Threads, Command(t), \A c \in 1..MaxCursor : ~ExternalEvent(t, c)
      PROVE  UNCHANGED <<commits, ingested, cursor>> /\ scheduler'.events = scheduler.events
  <2>1. CASE ClosePhase(t)
    BY <2>1 DEF ClosePhase, journals, TypeOK, Schedule
  <2>2. ASSUME NEW p \in Participants, NEW active \in BOOLEAN, Transfer(t, p, active)
        PROVE  UNCHANGED <<commits, ingested, cursor>> /\ scheduler'.events = scheduler.events
    BY <2>2 DEF Transfer, journals, TypeOK, Schedule
  <2>3. CASE Acquire(t) \/ Release(t) \/ Pause(t) \/ Resume(t) \/ FinalizeOutcomes(t)
    <3>1. UNCHANGED <<commits, ingested, cursor, scheduler>>
      BY <2>3, Zenon DEF Acquire, Release, Pause, Resume, FinalizeOutcomes, row, journals
    <3> QED
      BY <3>1
  <2> QED
    BY <1>3, <2>1, <2>2, <2>3 DEF Command
<1>4. ASSUME NEW t \in Threads, Resolution(t), ~ResolveCommit(t)
      PROVE  UNCHANGED <<commits, ingested, cursor, scheduler>>
  BY <1>4, Zenon DEF Resolution, ResolveIntent, ResolveComputed, ResolveFails, ResolveLost,
                     row, journals
<1>5. CASE Participation \/ Cancel \/ LeaseExpires \/ DeadlineElapses \/ UNCHANGED vars
  <2>1. UNCHANGED <<commits, ingested, cursor, scheduler>>
    BY <1>5, Zenon DEF Participation, Observe, Submit, Memory, Cancel, LeaseExpires,
                       DeadlineElapses, row, journals, vars
  <2> QED
    BY <2>1 DEF EventsAreHandedOverOnce
<1>6. UNCHANGED <<commits, ingested, cursor>> /\ scheduler'.events = scheduler.events
        => EventsAreHandedOverOnce'
  BY DEF EventsAreHandedOverOnce
<1> QED
  BY <1>1, <1>2, <1>3, <1>4, <1>5, <1>6 DEF Next

\* Every commit is the one its journal row records, whatever writers were
\* overtaken on the way, and every feed event reaches exactly one of them.
THEOREM HistoryIsExact == Spec => []CommitsAreExact
<1>1. Init => CommitsAreJournaled /\ EventsAreHandedOverOnce
  BY DEF Init, CommitsAreJournaled, EventsAreHandedOverOnce
<1>2. JournalInvariant => TypeOK
  BY DEF JournalInvariant
<1>3. CommitsAreJournaled /\ EventsAreHandedOverOnce => CommitsAreExact
  BY DEF CommitsAreJournaled, EventsAreHandedOverOnce, CommitsAreExact
<1> QED
  BY <1>1, <1>2, <1>3, JournalAtInit, JournalPreserved, JournaledPreserved, EventsPreserved, PTL
  DEF Spec

------------------------------------------------------------------------------
(* A resolution in flight has all the decisions of its phase, so that no   *)
(* accepted action is stranded behind a commit and no commit leaves one    *)
(* out; and participants see a plain ledger.                               *)

\* The decisions of the open phase cannot change any more: all that are
\* required are in, or the phase takes none.
Sealed == Missing = {} \/ ~PhaseOpen

\* A resolution of the open phase holds exactly the accepted actions, and the
\* phase is sealed.  Nothing compares the actions again before the commit:
\* this is why nothing has to.
FrozenDecisions ==
  \A t \in Threads : task[t].pc # "idle" =>
    /\ task[t].phase <= revision
    /\ task[t].phase = revision =>
         /\ Sealed
         /\ task[t].submitted = Submitted
         /\ task[t].input.decisions = DecisionsOf(Submitted)

\* Somebody can act; transfers keep it so.
SomebodyActs == Active # {}

\* The inductive invariant of decisions.  Live acceptances alone do not
\* survive a commit: it has to execute all of them.
DecisionInvariant ==
  /\ TypeOK
  /\ AcceptedActionsAreLive
  /\ FrozenDecisions
  /\ SomebodyActs
------------------------------------------------------------------------------
\* What the invariant says of decisions is a matter of the actions, the
\* revision, who is active or selected, and whether the phase is open.
LEMMA SameDecisions ==
  ASSUME UNCHANGED <<actions, revision>>
  PROVE  /\ Accepted' = Accepted
         /\ Submitted' = Submitted
         /\ DecisionsOf(Submitted)' = DecisionsOf(Submitted)
  BY DEF Accepted, Submitted, DecisionsOf

LEMMA QuietSteps ==
  ASSUME DecisionInvariant, TypeOK', UNCHANGED <<actions, revision, task>>,
         scheduler'.actor = scheduler.actor,
         \A p \in Participants : /\ participants'[p].active = participants[p].active
                                 /\ participants'[p].generation = participants[p].generation,
         PhaseOpen' => PhaseOpen
  PROVE  DecisionInvariant'
<1>1. Active' = Active /\ Required' = Required
  BY DEF Active, Required
<1>2. Missing' = Missing
  BY <1>1, SameDecisions DEF Missing
<1>3. AcceptedActionsAreLive'
  <2>1. \A o \in Accepted : actions[o].participant \in Participants
    BY DEF DecisionInvariant, AcceptedActionsAreLive, Required, Active, TypeOK, Schedule
  <2> QED
    BY <1>1, <2>1, SameDecisions DEF DecisionInvariant, AcceptedActionsAreLive
<1>4. FrozenDecisions'
  BY <1>2, SameDecisions DEF DecisionInvariant, FrozenDecisions, Sealed
<1> QED
  BY <1>1, <1>3, <1>4 DEF DecisionInvariant, SomebodyActs

\* Resolutions that go on or end carry their decisions along.
LEMMA TaskSteps ==
  ASSUME DecisionInvariant, TypeOK', UNCHANGED <<row, actions>>,
         \A t \in Threads :
           \/ task'[t].pc = "idle"
           \/ /\ task[t].pc # "idle"
              /\ task'[t].phase = task[t].phase
              /\ task'[t].submitted = task[t].submitted
              /\ task'[t].input = task[t].input
  PROVE  DecisionInvariant'
<1>1. Active' = Active /\ Missing' = Missing /\ Required' = Required /\ PhaseOpen' = PhaseOpen
  BY SameDecisions DEF Active, Missing, Required, PhaseOpen, row
<1>2. AcceptedActionsAreLive'
  BY <1>1, SameDecisions DEF DecisionInvariant, AcceptedActionsAreLive, row
<1>3. FrozenDecisions'
  BY <1>1, SameDecisions DEF DecisionInvariant, FrozenDecisions, Sealed, row
<1> QED
  BY <1>1, <1>2, <1>3 DEF DecisionInvariant, SomebodyActs

LEMMA DecisionsAtInit == Init => DecisionInvariant
<1> SUFFICES ASSUME Init PROVE DecisionInvariant
  OBVIOUS
<1>1. TypeOK
  BY TypeAtInit
<1>2. Accepted = {} /\ \A t \in Threads : task[t].pc = "idle"
  BY DEF Init, Accepted, NoAction, Idle
<1>3. SomebodyActs
  BY RosterAssumption DEF Init, SomebodyActs, Active
<1> QED
  BY <1>1, <1>2, <1>3 DEF DecisionInvariant, AcceptedActionsAreLive, FrozenDecisions
------------------------------------------------------------------------------
\* A decision is only accepted into a phase that no resolution has frozen.
LEMMA AcceptableMeansUnsealed ==
  ASSUME TypeOK, NEW p \in Participants, participants[p].active, Acceptable(p, revision),
         AcceptedActionsAreLive
  PROVE  ~Sealed
<1>1. p \in Required
  BY DEF Acceptable, Required, Active
<1>2. DecisionsOf(Submitted)[p] = {}
  BY DEF Acceptable, AlreadyDecided, DecisionsOf, Submitted, Accepted
<1> QED
  BY <1>1, <1>2 DEF Acceptable, Sealed, Missing

LEMMA SubmitStep ==
  ASSUME DecisionInvariant, TypeOK', NEW p \in Participants, NEW o \in OpIds, Submit(p, o)
  PROVE  DecisionInvariant'
<1>1. PICK ob \in observations, wellFormed \in BOOLEAN :
        /\ ob.participant = p
        /\ ob.generation = participants[p].generation
        /\ actions' = [actions EXCEPT ![o] =
             [status |-> IF wellFormed /\ Acceptable(p, ob.revision) THEN "accepted" ELSE "blocked",
              participant |-> p, revision |-> ob.revision, generation |-> ob.generation]]
  BY DEF Submit
<1>2. /\ UNCHANGED <<status, revision, participants, scheduler, cursor, due, task>>
      /\ participants[p].active /\ actions[o].status = "none"
  BY DEF Submit, row
<1>3. Active' = Active /\ Required' = Required /\ PhaseOpen' = PhaseOpen
  BY <1>2 DEF Active, Required, PhaseOpen
<1>4. \A q \in OpIds : q # o => actions'[q] = actions[q]
  BY <1>1 DEF DecisionInvariant, TypeOK
<1>5. o \notin Accepted
  BY <1>2 DEF Accepted
<1>6. CASE actions'[o].status = "blocked"
  <2>1. Accepted' = Accepted /\ Submitted' = Submitted
    BY <1>2, <1>4, <1>5, <1>6 DEF Accepted, Submitted
  <2>2. DecisionsOf(Submitted)' = DecisionsOf(Submitted)
    BY <1>4, <1>5, <2>1 DEF DecisionsOf, Submitted, Accepted
  <2>3. Missing' = Missing
    BY <1>3, <2>2 DEF Missing
  <2>4. AcceptedActionsAreLive'
    BY <1>2, <1>3, <1>4, <1>5, <2>1 DEF DecisionInvariant, AcceptedActionsAreLive, Accepted
  <2>5. FrozenDecisions'
    BY <1>2, <1>3, <2>1, <2>2, <2>3 DEF DecisionInvariant, FrozenDecisions, Sealed
  <2> QED
    BY <1>3, <2>4, <2>5 DEF DecisionInvariant, SomebodyActs
<1>7. CASE actions'[o].status = "accepted"
  <2>1. Acceptable(p, ob.revision)
    BY <1>1, <1>7 DEF DecisionInvariant, TypeOK
  <2>2. ob.revision = revision
    BY <2>1 DEF Acceptable
  <2>3. ~Sealed
    BY <1>2, <2>1, <2>2, AcceptableMeansUnsealed DEF DecisionInvariant
  <2>4. FrozenDecisions'
    BY <1>2, <2>3 DEF DecisionInvariant, FrozenDecisions
  <2>5. /\ actions'[o].participant = p /\ actions'[o].revision = revision
        /\ actions'[o].generation = participants[p].generation
    BY <1>1, <2>2 DEF DecisionInvariant, TypeOK
  <2>6. p \in Required
    BY <1>2, <2>1 DEF Acceptable, Required, Active
  <2>7. \A q \in Accepted' : q = o \/ q \in Accepted
    BY <1>4 DEF Accepted
  <2>8. AcceptedActionsAreLive'
    BY <1>2, <1>3, <1>4, <2>5, <2>6, <2>7 DEF DecisionInvariant, AcceptedActionsAreLive, Accepted
  <2> QED
    BY <1>3, <2>4, <2>8 DEF DecisionInvariant, SomebodyActs
<1>8. actions'[o].status \in {"blocked", "accepted"}
  BY <1>1 DEF DecisionInvariant, TypeOK
<1> QED
  BY <1>6, <1>7, <1>8

\* The first transaction of resolve seals the phase.
LEMMA IntentStep ==
  ASSUME DecisionInvariant, TypeOK', NEW t \in Threads, ResolveIntent(t)
  PROVE  DecisionInvariant'
<1>1. UNCHANGED <<status, revision, participants, scheduler, cursor, due, actions>>
  BY DEF ResolveIntent, row
<1>2. Active' = Active /\ Missing' = Missing /\ Required' = Required /\ PhaseOpen' = PhaseOpen
  BY <1>1, SameDecisions DEF Active, Missing, Required, PhaseOpen
<1>3. Sealed
  <2>1. Missing = {} \/ Expired
    BY DEF ResolveIntent
  <2>2. Expired => ~PhaseOpen
    BY ModeAssumption DEF Expired, PhaseOpen
  <2> QED
    BY <2>1, <2>2 DEF Sealed
<1>4. PhaseInput.decisions = DecisionsOf(Submitted)
  <2>1. \A p \in Participants : p \notin Required => DecisionsOf(Submitted)[p] = {}
    BY DEF DecisionInvariant, AcceptedActionsAreLive, DecisionsOf, Submitted
  <2> QED
    BY <2>1 DEF PhaseInput, DecisionsOf
<1>5. /\ task'[t].phase = revision
      /\ task'[t].submitted = Submitted
      /\ task'[t].input = PhaseInput
      /\ \A u \in Threads : u # t => task'[u] = task[u]
  BY DEF ResolveIntent, DecisionInvariant, TypeOK
<1>6. FrozenDecisions'
  BY <1>1, <1>2, <1>3, <1>4, <1>5, SameDecisions
  DEF DecisionInvariant, FrozenDecisions, Sealed, TypeOK
<1>7. AcceptedActionsAreLive'
  BY <1>1, <1>2, SameDecisions DEF DecisionInvariant, AcceptedActionsAreLive
<1> QED
  BY <1>2, <1>6, <1>7 DEF DecisionInvariant, SomebodyActs

\* The commit executes every accepted action and leaves all other resolutions
\* of its phase in the past.
LEMMA CommitStep ==
  ASSUME DecisionInvariant, TypeOK', NEW t \in Threads, ResolveCommit(t)
  PROVE  DecisionInvariant'
<1>1. /\ task[t].pc # "idle" /\ task[t].phase = revision
      /\ revision' = revision + 1 /\ participants' = participants
      /\ task' = [task EXCEPT ![t] = Idle]
  BY DEF ResolveCommit, InputsUnchanged
<1>2. task[t].submitted = Accepted
  BY <1>1 DEF DecisionInvariant, FrozenDecisions, AcceptedActionsAreLive, Submitted
<1>3. Accepted' = {}
  BY <1>2 DEF ResolveCommit, Accepted, DecisionInvariant, TypeOK, ActionRow
<1>4. \A u \in Threads : task'[u].pc # "idle" => task'[u].phase <= revision /\ task'[u].phase \in Nat
  BY <1>1 DEF DecisionInvariant, FrozenDecisions, TypeOK, Idle, Resolving
<1>5. FrozenDecisions'
  BY <1>1, <1>4 DEF FrozenDecisions, DecisionInvariant, TypeOK
<1>6. SomebodyActs'
  BY <1>1 DEF DecisionInvariant, SomebodyActs, Active
<1> QED
  BY <1>3, <1>5, <1>6 DEF DecisionInvariant, AcceptedActionsAreLive

\* A transfer happens between decisions: then only a closed or expired phase
\* is sealed, and it stays so.
LEMMA TransferStep ==
  ASSUME DecisionInvariant, TypeOK', NEW t \in Threads, NEW p \in Participants,
         NEW active \in BOOLEAN, Transfer(t, p, active)
  PROVE  DecisionInvariant'
<1>1. Accepted = {} /\ UNCHANGED <<revision, due, actions, task>>
  BY DEF Transfer, AtDecisionBoundary, journals
<1>2. scheduler'.closed = scheduler.closed
  BY DEF Transfer, DecisionInvariant, TypeOK, Schedule
<1>3. \A q \in Participants : q # p => participants'[q] = participants[q]
  BY DEF Transfer, DecisionInvariant, TypeOK
<1>4. SomebodyActs'
  <2>1. CASE active
    BY <2>1 DEF Transfer, SomebodyActs, Active, DecisionInvariant, TypeOK, Member
  <2>2. CASE ~active
    <3>1. PICK q \in Active : q # p
      BY <2>2 DEF Transfer
    <3> QED
      BY <1>3, <3>1 DEF SomebodyActs, Active
  <2> QED
    BY <2>1, <2>2
<1>5. Missing # {}
  <2>1. Required # {}
    BY DEF DecisionInvariant, SomebodyActs, Required
  <2>2. Required \subseteq Participants
    BY DEF DecisionInvariant, Required, Active, TypeOK, Schedule
  <2> QED
    BY <1>1, <2>1, <2>2 DEF Missing, DecisionsOf, Submitted
<1>6. Sealed => Sealed'
  BY <1>1, <1>2, <1>5 DEF Sealed, PhaseOpen
<1>7. FrozenDecisions'
  BY <1>1, <1>6, SameDecisions DEF DecisionInvariant, FrozenDecisions
<1>8. AcceptedActionsAreLive'
  BY <1>1, SameDecisions DEF AcceptedActionsAreLive
<1> QED
  BY <1>4, <1>7, <1>8 DEF DecisionInvariant
------------------------------------------------------------------------------
LEMMA ResolutionSteps ==
  ASSUME DecisionInvariant, TypeOK', NEW t \in Threads, Resolution(t)
  PROVE  DecisionInvariant'
<1>1. CASE ResolveComputed(t)
  <2>1. PICK r \in Results \cup {task[t].result} :
          task' = [task EXCEPT ![t].pc = "commit", ![t].result = r]
    BY <1>1, Zenon DEF ResolveComputed
  <2>2. task[t] \in Resolving
    <3>1. task[t].pc = "compute"
      BY <1>1, Zenon DEF ResolveComputed
    <3> QED
      BY <3>1 DEF DecisionInvariant, TypeOK, Idle
  <2>3. /\ task'[t].phase = task[t].phase
        /\ task'[t].submitted = task[t].submitted
        /\ task'[t].input = task[t].input
        /\ \A u \in Threads : u # t => task'[u] = task[u]
    BY <2>1, <2>2 DEF DecisionInvariant, TypeOK, Resolving
  <2>4. task[t].pc # "idle"
    BY <2>2 DEF Resolving
  <2>5. UNCHANGED <<row, actions>>
    BY <1>1, Zenon DEF ResolveComputed
  <2>6. \A u \in Threads : task[u].pc = "idle" => task'[u].pc = "idle"
    BY <2>3, <2>4
  <2> QED
    BY <2>3, <2>4, <2>5, <2>6, TaskSteps
<1>2. CASE ResolveFails(t) \/ ResolveLost(t)
  <2>1. UNCHANGED <<row, actions>> /\ task' = [task EXCEPT ![t] = Idle]
    BY <1>2 DEF ResolveFails, ResolveLost, journals
  <2>2. \A u \in Threads : task'[u].pc = "idle" \/ task'[u] = task[u]
    BY <2>1 DEF DecisionInvariant, TypeOK, Idle
  <2> QED
    BY <2>1, <2>2, TaskSteps
<1> QED
  BY <1>1, <1>2, IntentStep, CommitStep DEF Resolution

\* Every step keeps the decisions in order.
LEMMA DecisionsPreserved ==
  ASSUME DecisionInvariant, [Next]_vars
  PROVE  DecisionInvariant'
<1>1. TypeOK'
  BY TypePreserved DEF DecisionInvariant
<1>2. ASSUME NEW t \in Threads, Command(t) PROVE DecisionInvariant'
  <2>1. ASSUME NEW p \in Participants, NEW active \in BOOLEAN, Transfer(t, p, active)
        PROVE  DecisionInvariant'
    BY <1>1, <2>1, TransferStep
  <2>2. CASE ClosePhase(t)
    <3>1. /\ UNCHANGED <<actions, revision, task, participants>>
          /\ scheduler'.actor = scheduler.actor /\ ~PhaseOpen'
      BY <2>2 DEF ClosePhase, PhaseOpen, journals, DecisionInvariant, TypeOK, Schedule
    <3> QED
      BY <1>1, <3>1, QuietSteps
  <2>3. ASSUME NEW c \in 1..MaxCursor, ExternalEvent(t, c) PROVE DecisionInvariant'
    <3>1. /\ UNCHANGED <<actions, revision, task, participants, due>>
          /\ scheduler'.actor = scheduler.actor /\ scheduler'.closed = scheduler.closed
      BY <2>3 DEF ExternalEvent, DecisionInvariant, TypeOK, Schedule
    <3> QED
      BY <1>1, <3>1, QuietSteps DEF PhaseOpen
  <2>4. CASE Acquire(t) \/ Release(t) \/ Pause(t) \/ Resume(t) \/ FinalizeOutcomes(t)
    <3>1. UNCHANGED <<actions, revision, task, participants, scheduler, due>>
      BY <2>4, Zenon DEF Acquire, Release, Pause, Resume, FinalizeOutcomes, row, journals
    <3> QED
      BY <1>1, <3>1, QuietSteps DEF PhaseOpen
  <2> QED
    BY <1>2, <2>1, <2>2, <2>3, <2>4 DEF Command
<1>3. CASE Participation
  <2>1. ASSUME NEW p \in Participants, NEW o \in OpIds, Submit(p, o) PROVE DecisionInvariant'
    BY <1>1, <2>1, SubmitStep
  <2>2. ASSUME NEW p \in Participants, Observe(p) PROVE DecisionInvariant'
    <3>1. UNCHANGED <<actions, revision, task, participants, scheduler, due>>
      BY <2>2, Zenon DEF Observe, row
    <3> QED
      BY <1>1, <3>1, QuietSteps DEF PhaseOpen
  <2>3. ASSUME NEW p \in Participants, NEW m \in Memories, Memory(p, m)
        PROVE  DecisionInvariant'
    <3>1. UNCHANGED <<actions, revision, task, scheduler, due>>
      BY <2>3, Zenon DEF Memory, journals
    <3>2. \A q \in Participants : /\ participants'[q].active = participants[q].active
                                  /\ participants'[q].generation = participants[q].generation
      BY <2>3 DEF Memory, DecisionInvariant, TypeOK, Member
    <3> QED
      BY <1>1, <3>1, <3>2, QuietSteps DEF PhaseOpen
  <2> QED
    BY <1>3, <2>1, <2>2, <2>3 DEF Participation
<1>4. CASE Cancel \/ LeaseExpires \/ UNCHANGED vars
  <2>1. UNCHANGED <<actions, revision, task, participants, scheduler, due>>
    BY <1>4, Zenon DEF Cancel, LeaseExpires, vars, row, journals
  <2> QED
    BY <1>1, <2>1, QuietSteps DEF PhaseOpen
<1>5. CASE DeadlineElapses
  <2>1. UNCHANGED <<actions, revision, task, participants, scheduler>>
    BY <1>5, Zenon DEF DeadlineElapses, journals
  <2>2. ~PhaseOpen'
    BY <1>5 DEF DeadlineElapses, PhaseOpen
  <2> QED
    BY <1>1, <2>1, <2>2, QuietSteps
<1> QED
  BY <1>1, <1>2, <1>3, <1>4, <1>5, ResolutionSteps DEF Next

\* No accepted action is stranded: it belongs to the open phase and to a
\* participant that is still entitled to it.
THEOREM NoDecisionIsStranded == Spec => []AcceptedActionsAreLive
<1>1. DecisionInvariant => AcceptedActionsAreLive
  BY DEF DecisionInvariant
<1> QED
  BY <1>1, DecisionsAtInit, DecisionsPreserved, PTL DEF Spec

\* A commit takes every accepted action along and was computed from the
\* participants and the schedule it replaces.
THEOREM CommitsAreOfFrozenInputs == Spec => CommitsAgainstFrozenInputs
<1> DEFINE New(c) == /\ status = "running"
                     /\ c.input.participants = participants
                     /\ c.input.scheduler = scheduler
                     /\ c.input.decisions = DecisionsOf(Accepted)
<1>1. ASSUME DecisionInvariant, [Next]_vars, NEW c \in commits' \ commits PROVE New(c)
  <2>1. PICK t \in Threads : ResolveCommit(t)
    BY <1>1, HistoryMovesByCommits DEF DecisionInvariant
  <2>2. c.input = task[t].input
    BY <1>1, <2>1 DEF ResolveCommit
  <2>3. /\ status = "running"
        /\ participants = task[t].input.participants
        /\ scheduler = task[t].input.scheduler
        /\ task[t].pc # "idle" /\ task[t].phase = revision
    BY <2>1 DEF ResolveCommit, InputsUnchanged
  <2>4. Submitted = Accepted
    BY <1>1 DEF DecisionInvariant, AcceptedActionsAreLive, Submitted
  <2>5. task[t].input.decisions = DecisionsOf(Accepted)
    BY <1>1, <2>3, <2>4 DEF DecisionInvariant, FrozenDecisions
  <2> QED
    BY <2>2, <2>3, <2>5
<1>2. DecisionInvariant /\ [Next]_vars => [\A c \in commits' \ commits : New(c)]_vars
  BY <1>1
<1> QED
  BY <1>2, DecisionsAtInit, DecisionsPreserved, PTL DEF Spec, CommitsAgainstFrozenInputs
------------------------------------------------------------------------------
(***************************************************************************)
(* Execution, and the ledger of phases.                                    *)
(***************************************************************************)
\* Nobody decides twice in a phase.
OneDecisionEach ==
  \A o, q \in Accepted : actions[o].participant = actions[q].participant => o = q

ExecutionInvariant == CommittedActionsExecuteOnce /\ OneDecisionEach

\* What a step does to decisions and history: nothing, one decision, or the
\* commit of all of them.
LEMMA DecisionsMove ==
  ASSUME TypeOK, [Next]_vars
  PROVE  \/ UNCHANGED <<actions, revision, commits>>
         \/ \E p \in Participants, o \in OpIds : Submit(p, o)
         \/ \E t \in Threads : ResolveCommit(t)
<1>1. ASSUME NEW t \in Threads, Resolution(t), ~ResolveCommit(t)
      PROVE  UNCHANGED <<actions, revision, commits>>
  BY <1>1, Zenon
  DEF Resolution, ResolveIntent, ResolveComputed, ResolveFails, ResolveLost, row, journals
<1>2. ASSUME NEW t \in Threads, Command(t) PROVE UNCHANGED <<actions, revision, commits>>
  BY <1>2, Zenon
  DEF Command, Acquire, Release, ClosePhase, ExternalEvent, Transfer, Pause, Resume,
      FinalizeOutcomes, row, journals
<1>3. ASSUME Participation, \A p \in Participants, o \in OpIds : ~Submit(p, o)
      PROVE  UNCHANGED <<actions, revision, commits>>
  BY <1>3, Zenon DEF Participation, Observe, Memory, row, journals
<1>4. CASE Cancel \/ LeaseExpires \/ DeadlineElapses \/ UNCHANGED vars
  BY <1>4, Zenon DEF Cancel, LeaseExpires, DeadlineElapses, row, journals, vars
<1> QED
  BY <1>1, <1>2, <1>3, <1>4 DEF Next

\* The effect of a submission on the actions.
LEMMA SubmitWrites ==
  ASSUME DecisionInvariant, NEW p \in Participants, NEW o \in OpIds, Submit(p, o)
  PROVE  /\ actions[o].status = "none" /\ participants[p].active
         /\ UNCHANGED <<status, revision, commits>>
         /\ \A q \in OpIds : q # o => actions'[q] = actions[q]
         /\ actions'[o].status \in {"accepted", "blocked"} /\ actions'[o].participant = p
         /\ actions'[o].status = "accepted" =>
              actions'[o].revision = revision /\ Acceptable(p, revision)
<1>1. PICK ob \in observations, wellFormed \in BOOLEAN :
        actions' = [actions EXCEPT ![o] =
             [status |-> IF wellFormed /\ Acceptable(p, ob.revision) THEN "accepted" ELSE "blocked",
              participant |-> p, revision |-> ob.revision, generation |-> ob.generation]]
  BY DEF Submit
<1>2. actions'[o] = [status |-> IF wellFormed /\ Acceptable(p, ob.revision)
                                  THEN "accepted" ELSE "blocked",
                     participant |-> p, revision |-> ob.revision, generation |-> ob.generation]
  BY <1>1 DEF DecisionInvariant, TypeOK
<1>3. actions'[o].status = "accepted" => Acceptable(p, ob.revision) /\ ob.revision = revision
  BY <1>2 DEF Acceptable
<1>4. \A q \in OpIds : q # o => actions'[q] = actions[q]
  BY <1>1 DEF DecisionInvariant, TypeOK
<1>5. /\ actions[o].status = "none" /\ participants[p].active
      /\ UNCHANGED <<status, revision, commits>>
  BY DEF Submit, row
<1> QED
  BY <1>2, <1>3, <1>4, <1>5

\* The effect of a commit: it executes the accepted actions.
LEMMA CommitExecutes ==
  ASSUME DecisionInvariant, NEW t \in Threads, ResolveCommit(t)
  PROVE  /\ \E c : /\ commits' = commits \cup {c} /\ c.revision = revision + 1
                   /\ c.executed = Accepted /\ c.input.decisions = DecisionsOf(Accepted)
         /\ status = "running" /\ revision' = revision + 1
         /\ status' \in {"running", "outcomes_pending", "completed"}
         /\ \A o \in OpIds : actions'[o] = IF o \in Accepted
                                             THEN [actions[o] EXCEPT !.status = "committed"]
                                             ELSE actions[o]
<1>1. /\ task[t].pc # "idle" /\ task[t].phase = revision /\ revision' = revision + 1
      /\ status = "running" /\ status' \in {"running", "outcomes_pending", "completed"}
  BY DEF ResolveCommit, InputsUnchanged
<1>2. Submitted = Accepted
  BY DEF DecisionInvariant, AcceptedActionsAreLive, Submitted
<1>3. task[t].submitted = Accepted /\ task[t].input.decisions = DecisionsOf(Accepted)
  BY <1>1, <1>2 DEF DecisionInvariant, FrozenDecisions
<1> DEFINE c == [revision |-> revision', epoch |-> held[t], input |-> task[t].input,
                 executed |-> task[t].submitted, result |-> task[t].result]
<1>4. commits' = commits \cup {c}
  BY DEF ResolveCommit
<1>5. c.revision = revision + 1 /\ c.executed = Accepted /\ c.input.decisions = DecisionsOf(Accepted)
  BY <1>1, <1>3
<1>6. \A o \in OpIds : actions'[o] = IF o \in Accepted
                                       THEN [actions[o] EXCEPT !.status = "committed"]
                                       ELSE actions[o]
  BY <1>3 DEF ResolveCommit
<1> HIDE DEF c
<1> QED
  BY <1>1, <1>4, <1>5, <1>6

LEMMA ExecutionAfterSubmit ==
  ASSUME DecisionInvariant, ExecutionInvariant, NEW p \in Participants, NEW o \in OpIds, Submit(p, o)
  PROVE  ExecutionInvariant'
<1>1. \A c \in commits : o \notin c.executed /\ c.executed \subseteq OpIds
  BY SubmitWrites DEF DecisionInvariant, TypeOK, Transition, ExecutionInvariant,
                      CommittedActionsExecuteOnce
<1>2. CommittedActionsExecuteOnce'
  BY <1>1, SubmitWrites DEF ExecutionInvariant, CommittedActionsExecuteOnce
<1>3. ASSUME actions'[o].status = "accepted"
      PROVE  \A q \in Accepted : q # o => actions[q].participant # p
  <2>1. ~AlreadyDecided(p, revision)
    BY <1>3, SubmitWrites DEF Acceptable
  <2>2. \A q \in Accepted : actions[q].revision = revision /\ q \in OpIds
    BY DEF DecisionInvariant, AcceptedActionsAreLive, Accepted
  <2> QED
    BY <2>1, <2>2 DEF AlreadyDecided, Accepted
<1>4. OneDecisionEach'
  <2> SUFFICES ASSUME NEW q \in OpIds, NEW r \in OpIds, q # r,
                      actions'[q].status = "accepted", actions'[r].status = "accepted"
      PROVE  actions'[q].participant # actions'[r].participant
    BY DEF OneDecisionEach, Accepted
  <2>1. CASE q = o
    BY <1>3, <2>1, SubmitWrites DEF Accepted
  <2>2. CASE r = o
    BY <1>3, <2>2, SubmitWrites DEF Accepted
  <2>3. CASE q # o /\ r # o
    BY <2>3, SubmitWrites DEF ExecutionInvariant, OneDecisionEach, Accepted
  <2> QED
    BY <2>1, <2>2, <2>3
<1> QED
  BY <1>2, <1>4 DEF ExecutionInvariant

LEMMA ExecutionAfterCommit ==
  ASSUME DecisionInvariant, ExecutionInvariant, NEW t \in Threads, ResolveCommit(t)
  PROVE  ExecutionInvariant'
<1>1. PICK c : /\ commits' = commits \cup {c} /\ c.revision = revision + 1
               /\ c.executed = Accepted /\ c.input.decisions = DecisionsOf(Accepted)
  BY CommitExecutes
<1>2. \A o \in OpIds : /\ actions[o] \in ActionRow
                       /\ o \in Accepted => /\ actions'[o].status = "committed"
                                            /\ actions'[o].participant = actions[o].participant
                                            /\ actions'[o].revision = actions[o].revision
                       /\ o \notin Accepted => actions'[o] = actions[o]
  BY CommitExecutes DEF DecisionInvariant, TypeOK, ActionRow
<1>3. Accepted \subseteq OpIds /\ \A d \in commits : d.executed \subseteq OpIds
  BY DEF Accepted, DecisionInvariant, TypeOK, Transition
<1>4. \A d \in commits : d.executed \cap Accepted = {}
  BY <1>3 DEF ExecutionInvariant, CommittedActionsExecuteOnce, Accepted
<1>5. Accepted' = {}
  BY <1>2 DEF Accepted
<1>6. \A o \in OpIds : actions'[o].status = "committed" <=> \E d \in commits' : o \in d.executed
  BY <1>1, <1>2 DEF ExecutionInvariant, CommittedActionsExecuteOnce, Accepted
<1>7. \A d \in commits' : \A o \in d.executed :
        /\ d.revision = actions'[o].revision + 1
        /\ d.input.decisions[actions'[o].participant] = {o}
  <2> SUFFICES ASSUME NEW d \in commits', NEW o \in d.executed
      PROVE  /\ d.revision = actions'[o].revision + 1
             /\ d.input.decisions[actions'[o].participant] = {o}
    OBVIOUS
  <2>1. CASE d \in commits
    BY <1>2, <1>3, <1>4, <2>1 DEF ExecutionInvariant, CommittedActionsExecuteOnce
  <2>2. CASE d = c
    <3>1. o \in Accepted /\ actions[o].revision = revision /\ actions[o].participant \in Participants
      BY <1>1, <2>2 DEF DecisionInvariant, AcceptedActionsAreLive, Required, Active, TypeOK, Schedule
    <3>2. DecisionsOf(Accepted)[actions[o].participant] = {o}
      BY <3>1 DEF DecisionsOf, ExecutionInvariant, OneDecisionEach
    <3> QED
      BY <1>1, <1>2, <1>3, <2>2, <3>1, <3>2
  <2> QED
    BY <1>1, <2>1, <2>2
<1>8. \A d \in commits', p \in Participants : d.input.decisions[p] \subseteq d.executed
  <2>1. \A p \in Participants : DecisionsOf(Accepted)[p] \subseteq Accepted
    BY DEF DecisionsOf
  <2> QED
    BY <1>1, <2>1 DEF ExecutionInvariant, CommittedActionsExecuteOnce
<1> QED
  BY <1>5, <1>6, <1>7, <1>8 DEF ExecutionInvariant, CommittedActionsExecuteOnce, OneDecisionEach

LEMMA ExecutionPreserved ==
  ASSUME DecisionInvariant, ExecutionInvariant, [Next]_vars
  PROVE  ExecutionInvariant'
<1>1. UNCHANGED <<actions, revision, commits>> => ExecutionInvariant'
  BY DEF ExecutionInvariant, CommittedActionsExecuteOnce, OneDecisionEach, Accepted
<1> QED
  BY <1>1, DecisionsMove, ExecutionAfterSubmit, ExecutionAfterCommit DEF DecisionInvariant

LEMMA ExecutionAtInit == Init => ExecutionInvariant
  BY DEF Init, NoAction, Accepted, ExecutionInvariant, CommittedActionsExecuteOnce, OneDecisionEach

\* Every committed action was executed by one transition, that of its own
\* phase, as the decision of its participant; nothing else was executed.
THEOREM ActionsExecuteOnce == Spec => []CommittedActionsExecuteOnce
<1>1. ExecutionInvariant => CommittedActionsExecuteOnce
  BY DEF ExecutionInvariant
<1> QED
  BY <1>1, DecisionsAtInit, DecisionsPreserved, ExecutionAtInit, ExecutionPreserved, PTL DEF Spec
------------------------------------------------------------------------------
\* The modes of the ledger, one fact per status.
LEMMA Modes ==
  ASSUME TypeOK
  PROVE  /\ status = "running" <=> Mode = "open"
         /\ status = "paused" <=> Mode = "suspended"
         /\ status = "outcomes_pending" <=> Mode = "awaiting"
         /\ status \in {"completed", "cancelled"} <=> Mode = "ended"
  BY DEF TypeOK, Mode

\* An accepted submission decides for its participant; a blocked one shows
\* nothing.
LEMMA SubmitDecides ==
  ASSUME DecisionInvariant, ExecutionInvariant, TypeOK',
         NEW p \in Participants, NEW o \in OpIds, Submit(p, o)
  PROVE  [Ledger!Next]_(Ledger!ledgerVars)
<1>1. /\ actions[o].status = "none" /\ o \notin Accepted
      /\ \A q \in OpIds : q # o => actions'[q] = actions[q]
      /\ UNCHANGED <<status, revision, commits>>
  BY SubmitWrites DEF Accepted
<1>2. Mode' = Mode
  BY <1>1 DEF Mode
<1>3. CASE actions'[o].status = "blocked"
  <2>1. Accepted' = Accepted
    BY <1>1, <1>3 DEF Accepted
  <2>2. DecisionsOf(Accepted)' = DecisionsOf(Accepted)
    BY <1>1, <2>1 DEF DecisionsOf, Accepted
  <2> QED
    BY <1>1, <1>2, <2>2 DEF Ledger!ledgerVars
<1>4. CASE actions'[o].status = "accepted"
  <2>1. /\ Acceptable(p, revision) /\ actions'[o].participant = p
    BY <1>4, SubmitWrites
  <2>2. Mode = "open"
    BY <2>1, Modes DEF Acceptable, DecisionInvariant
  <2>3. \A q \in Accepted : actions[q].participant # p
    BY <2>1 DEF Acceptable, AlreadyDecided, DecisionInvariant, AcceptedActionsAreLive, Accepted
  <2>4. DecisionsOf(Accepted)[p] = {}
    BY <2>3 DEF DecisionsOf
  <2>5. \A q \in Participants : o \notin DecisionsOf(Accepted)[q]
    BY <1>1 DEF DecisionsOf
  <2>6. \A c \in commits, q \in Participants : o \notin c.input.decisions[q]
    BY <1>1 DEF ExecutionInvariant, CommittedActionsExecuteOnce
  <2>7. \A entry \in {[phase |-> c.revision - 1, executed |-> c.input.decisions] : c \in commits} :
          \A q \in Participants : o \notin entry.executed[q]
    BY <2>6
  <2>8. Accepted' = Accepted \cup {o}
    BY <1>1, <1>4 DEF Accepted
  <2>9. DecisionsOf(Accepted)' = [DecisionsOf(Accepted) EXCEPT ![p] = {o}]
    BY <1>1, <2>1, <2>3, <2>8 DEF DecisionsOf, Accepted
  <2>10. Ledger!Decide(p, o)
    BY <1>1, <1>2, <2>2, <2>4, <2>5, <2>7, <2>9 DEF Ledger!Decide
  <2> QED
    BY <2>10 DEF Ledger!Next
<1> QED
  BY <1>3, <1>4, SubmitWrites

LEMMA CommitAddsToLedger ==
  ASSUME DecisionInvariant, TypeOK', NEW t \in Threads, ResolveCommit(t)
  PROVE  Ledger!Commit
<1>1. PICK c : /\ commits' = commits \cup {c} /\ c.revision = revision + 1
               /\ c.executed = Accepted /\ c.input.decisions = DecisionsOf(Accepted)
  BY CommitExecutes
<1>2. /\ status = "running" /\ revision' = revision + 1
      /\ status' \in {"running", "outcomes_pending", "completed"}
  BY CommitExecutes
<1>3. Accepted' = {}
  BY CommitExecutes DEF Accepted, DecisionInvariant, TypeOK, ActionRow
<1>4. DecisionsOf(Accepted)' = Ledger!Undecided
  BY <1>3 DEF DecisionsOf, Ledger!Undecided
<1>5. c.revision - 1 = revision
  BY <1>1 DEF DecisionInvariant, TypeOK
<1>6. {[phase |-> d.revision - 1, executed |-> d.input.decisions] : d \in commits'}
        = {[phase |-> d.revision - 1, executed |-> d.input.decisions] : d \in commits}
            \cup {[phase |-> revision, executed |-> DecisionsOf(Accepted)]}
  BY <1>1, <1>5
<1>7. Mode = "open" /\ Mode' \in {"open", "awaiting", "ended"}
  BY <1>2, Modes DEF DecisionInvariant, Mode
<1> QED
  BY <1>2, <1>4, <1>6, <1>7 DEF Ledger!Commit

\* Every other step shows at most a change of the mode.
LEMMA OtherStepsKeepTheLedger ==
  ASSUME DecisionInvariant, TypeOK', [Next]_vars, UNCHANGED <<actions, revision, commits>>
  PROVE  [Ledger!Next]_(Ledger!ledgerVars)
<1>1. DecisionsOf(Accepted)' = DecisionsOf(Accepted)
  BY DEF DecisionsOf, Accepted
<1>2. ASSUME <<Mode, Mode'>> \in {<<"open", "suspended">>, <<"suspended", "open">>,
                                  <<"open", "ended">>, <<"suspended", "ended">>,
                                  <<"awaiting", "ended">>}
      PROVE  [Ledger!Next]_(Ledger!ledgerVars)
  BY <1>1, <1>2 DEF Ledger!Next, Ledger!Lifecycle
<1>3. CASE status' = status
  <2>1. Mode' = Mode
    BY <1>3 DEF Mode
  <2> QED
    BY <1>1, <2>1 DEF Ledger!ledgerVars
<1>4. ASSUME NEW t \in Threads, Pause(t) \/ Resume(t) \/ FinalizeOutcomes(t)
      PROVE  [Ledger!Next]_(Ledger!ledgerVars)
  <2>1. <<status, status'>> \in {<<"running", "paused">>, <<"paused", "running">>,
                                 <<"outcomes_pending", "completed">>}
    BY <1>4 DEF Pause, Resume, FinalizeOutcomes
  <2> QED
    BY <1>2, <2>1 DEF Mode
<1>5. CASE Cancel
  <2>1. <<status, status'>> \in {<<"running", "cancelled">>, <<"paused", "cancelled">>}
    BY <1>5 DEF Cancel, Cancellable
  <2> QED
    BY <1>2, <2>1 DEF Mode
<1>6. ASSUME NEW t \in Threads, Resolution(t) PROVE status' = status
  <2>1. ~ResolveCommit(t)
    BY CommitAdds DEF DecisionInvariant, TypeOK
  <2> QED
    BY <1>6, <2>1, Zenon DEF Resolution, ResolveIntent, ResolveComputed, ResolveFails, ResolveLost, row
<1>7. ASSUME NEW t \in Threads, Command(t), ~(Pause(t) \/ Resume(t) \/ FinalizeOutcomes(t))
      PROVE  status' = status
  BY <1>7, Zenon DEF Command, Acquire, Release, ClosePhase, ExternalEvent, Transfer, row
<1>8. CASE Participation \/ LeaseExpires \/ DeadlineElapses \/ UNCHANGED vars
  <2>1. status' = status
    BY <1>8, Zenon DEF Participation, Observe, Submit, Memory, LeaseExpires, DeadlineElapses,
                       row, vars
  <2> QED
    BY <1>3, <2>1
<1> QED
  BY <1>3, <1>4, <1>5, <1>6, <1>7, <1>8 DEF Next

\* Participants see a plain ledger: whoever resolves, recovers, pauses or
\* transfers, phases are decided and committed one after the other.
THEOREM SessionImplementsLedger == Spec => ImplementsLedger
<1>1. Init => Ledger!Init
  <2> SUFFICES ASSUME Init PROVE Ledger!Init
    OBVIOUS
  <2>1. Accepted = {} /\ status = "running" /\ revision = 0 /\ commits = {}
    BY DEF Init, NoAction, Accepted
  <2>2. DecisionsOf(Accepted) = Ledger!Undecided
    BY <2>1 DEF DecisionsOf, Ledger!Undecided
  <2> QED
    BY <2>1, <2>2 DEF Ledger!Init, Mode
<1>2. ASSUME DecisionInvariant, ExecutionInvariant, [Next]_vars
      PROVE  [Ledger!Next]_(Ledger!ledgerVars)
  <2>1. TypeOK /\ TypeOK'
    BY <1>2, TypePreserved DEF DecisionInvariant
  <2>2. ASSUME NEW t \in Threads, ResolveCommit(t) PROVE [Ledger!Next]_(Ledger!ledgerVars)
    BY <1>2, <2>1, <2>2, CommitAddsToLedger DEF Ledger!Next
  <2> QED
    BY <1>2, <2>1, <2>2, DecisionsMove, SubmitDecides, OtherStepsKeepTheLedger
<1> QED
  BY <1>1, <1>2, DecisionsAtInit, DecisionsPreserved, ExecutionAtInit, ExecutionPreserved, PTL
  DEF Spec, ImplementsLedger, Ledger!Spec
==============================================================================
