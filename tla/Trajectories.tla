----------------------------- MODULE Trajectories -----------------------------
(***************************************************************************)
(* Imported and native trajectories, their snapshots and the datasets cut  *)
(* from them (trajectories.py TrajectoryRepository, training.py            *)
(* TrainingRepository).  A source's journal arrives in batches that are    *)
(* repeated, reordered or forked; a native session appends its own         *)
(* evidence; readers page through either while both still grow.            *)
(***************************************************************************)
EXTENDS Integers, FiniteSets, Sequences, SequencesExt

CONSTANTS
  Records, PrevOf, IdOf,  \* as in SourceJournal
  Reward,       \* Reward[r]: "none", "granted" or "retracted"
  Supersedes,   \* Supersedes[r]: the identity whose reward r replaces, or None
  Batches,      \* the batches an importer may send, again and in any order
  Readers,      \* threads that freeze snapshots and datasets
  Selections,   \* trajectories a dataset may be asked for
  SchemaOf,     \* SchemaOf[t]: the schema version of a trajectory's source
  PageSize,     \* records of one page of the record stream
  MaxEvents,    \* bound: events of the native session
  MaxCalls,     \* bound: snapshots and datasets asked for
  None

Trajectories == {"native", "imported"}

ASSUME RecordsAssumption ==
  /\ None \notin Records
  /\ PrevOf \in [Records -> Records \cup {None}]
  /\ \A r \in Records : Reward[r] \in {"none", "granted", "retracted"}
  /\ Batches \subseteq Seq(Records) \ {<<>>} /\ PageSize \in Nat \ {0}
ASSUME SelectionsAssumption == Selections \subseteq Seq(Trajectories) \ {<<>>}
ASSUME EventsAssumption == MaxEvents \in Nat \ {0}

VARIABLES
  source,     \* trajectory_sources: the states and the acknowledged boundary
  records,    \* trajectory_source_records in ordinal order
  nativeStatus, \* environments.status of the native session
  events,     \* the kinds of its events, by sequence number
  snapshots,  \* trajectory_snapshots and their records
  datasets,   \* trajectory_datasets
  task,       \* what each reader is in the middle of
  calls       \* calls begun so far

evidence == <<source, records, nativeStatus, events>>
trajectoryVars == <<evidence, snapshots, datasets, task, calls>>
------------------------------------------------------------------------------
Idle == [goal |-> "none", at |-> "none"]
Log(t) == IF t = "native" THEN events ELSE records
Least(a, b) == IF a < b THEN a ELSE b
PageAfter(log, cursor) == SubSeq(log, cursor + 1, Least(cursor + PageSize, Len(log)))

TrajectoryInit ==
  /\ source = [collection |-> "registered", execution |-> "unknown", outcome |-> "unavailable",
               acknowledged |-> None, terminal |-> None]
  /\ records = <<>>
  /\ nativeStatus = "running" /\ events = <<"session.created">>
  /\ snapshots = {} /\ datasets = {}
  /\ task = [c \in Readers |-> Idle] /\ calls = 0
------------------------------------------------------------------------------
(* Ingestion: one transaction per batch, all of it or nothing.             *)

\* Mutant: a new record need not continue from the acknowledged hash.
Conflicting_IdentityOnly(log, r) ==
  \/ \E i \in DOMAIN log : IdOf[log[i]] = IdOf[r] /\ log[i] # r
\* A record under a stored identity must be that record; a new one must
\* continue from the acknowledged hash.
Conflicting(log, r) ==
  \/ \E i \in DOMAIN log : IdOf[log[i]] = IdOf[r] /\ log[i] # r
  \/ r \notin Range(log) /\ PrevOf[r] # (IF log = <<>> THEN None ELSE Last(log))
Stored(log, r) == IF r \in Range(log) THEN log ELSE Append(log, r)

\* Mutant: acknowledges the end of the batch, also when it only repeats records.
Ingest_AcknowledgesBatch(batch) ==
  LET before(i) == FoldLeft(Stored, records, SubSeq(batch, 1, i - 1))
  IN  /\ \A i \in DOMAIN batch : ~Conflicting(before(i), batch[i])
      /\ records' = FoldLeft(Stored, records, batch)
      /\ source' = [source EXCEPT !.acknowledged = Last(batch), !.collection = "current"]
      /\ UNCHANGED <<nativeStatus, events, snapshots, datasets, task, calls>>
Ingest(batch) ==
  LET before(i) == FoldLeft(Stored, records, SubSeq(batch, 1, i - 1))
  IN  /\ \A i \in DOMAIN batch : ~Conflicting(before(i), batch[i])
      /\ records' = FoldLeft(Stored, records, batch)
      /\ source' = [source EXCEPT !.acknowledged = Last(records'), !.collection = "current"]
      /\ UNCHANGED <<nativeStatus, events, snapshots, datasets, task, calls>>

\* The importer's report of its source: collection is complete only at the
\* acknowledged boundary, and the records an outcome cites, if any, are stored.
Report(collection, execution, outcome, cited, terminal) ==
  /\ collection = "complete" => terminal = source.acknowledged
  /\ cited \subseteq Range(records)
  /\ source' = [source EXCEPT !.collection = collection, !.execution = execution,
                              !.outcome = outcome, !.terminal = terminal]
  /\ UNCHANGED <<records, nativeStatus, events, snapshots, datasets, task, calls>>
------------------------------------------------------------------------------
(* The native session appends to its event log (store.py append).          *)

Appends(kind) ==
  /\ Len(events) < MaxEvents
  /\ events' = Append(events, kind)
  /\ UNCHANGED <<source, records, snapshots, datasets, task, calls>>
Happens == nativeStatus = "running" /\ Appends("session.resumed") /\ UNCHANGED nativeStatus
Completes ==
  nativeStatus = "running" /\ Appends("transition.committed") /\ nativeStatus' = "completed"
Scored == Appends("report") /\ UNCHANGED nativeStatus
------------------------------------------------------------------------------
(* A reader: freeze a snapshot, or check and freeze each member of a       *)
(* dataset.  Every step is one transaction of the store.                   *)

Does(c, t) == task' = [task EXCEPT ![c] = t]
At(c, step) == task[c].at = step
Reads == UNCHANGED <<evidence, snapshots, datasets, calls>>

Begin(c, goal, pass, left) ==
  /\ task[c] = Idle /\ calls < MaxCalls /\ calls' = calls + 1
  /\ Does(c, [goal |-> goal, pass |-> pass, at |-> "get", left |-> left, members |-> <<>>])
  /\ UNCHANGED <<evidence, snapshots, datasets>>
Freeze(c, t) == Begin(c, "snapshot", "freeze", <<t>>)
FreezeDataset(c, selection) == Begin(c, "dataset", "check", selection)

\* Collection complete, execution completed, terminated, outcome resolved,
\* and one schema for all members.
Entitled(t, complete, executed, terminated, outcome) ==
  /\ complete /\ executed /\ terminated /\ outcome \notin {"pending", "uncertain"}
  /\ SchemaOf[Head(t.left)] = SchemaOf[IF t.members = <<>> THEN Head(t.left) ELSE t.members[1].trajectory]

\* Mutant: the state of the member is not looked at.
Got_Unchecked(c, t, end, head, complete, entitled) ==
  Does(c, [goal |-> t.goal, pass |-> t.pass, left |-> t.left, members |-> t.members,
           at |-> IF t.pass = "check" THEN "page" ELSE "scores", end |-> end, head |-> head,
           complete |-> complete, scores |-> 0, cursor |-> 0, records |-> <<>>])
\* What follows the detail projection: a member that is not entitled ends
\* the call, a freeze selects its scores, either streams the records.
Got(c, t, end, head, complete, entitled) ==
  Does(c, IF t.pass = "check" /\ ~entitled THEN Idle
          ELSE [goal |-> t.goal, pass |-> t.pass, left |-> t.left, members |-> t.members,
                at |-> IF t.pass = "check" THEN "page" ELSE "scores", end |-> end, head |-> head,
                complete |-> complete, scores |-> 0, cursor |-> 0, records |-> <<>>])

GetImported(c) ==
  LET t == task[c] IN
  /\ At(c, "get") /\ Head(t.left) = "imported" /\ records # <<>>
  /\ Got(c, t, Len(records), source.acknowledged, source.collection = "complete",
         Entitled(t, source.collection = "complete", source.execution = "completed",
                  source.execution = "completed", source.outcome))
  /\ Reads
\* A native trajectory: the row first, then its events to the last page.
GetNative(c) ==
  LET t == task[c] IN
  /\ At(c, "get") /\ Head(t.left) = "native"
  /\ Does(c, [goal |-> t.goal, pass |-> t.pass, at |-> "replay", left |-> t.left,
              members |-> t.members, done |-> nativeStatus = "completed"])
  /\ Reads
Replay(c) ==
  LET t == task[c] IN
  /\ At(c, "replay")
  /\ Got(c, t, Len(events), Last(events), t.done,
         Entitled(t, t.done, t.done, "transition.committed" \in Range(events), "unavailable"))
  /\ Reads

Scores(c) ==
  /\ At(c, "scores")
  /\ Does(c, [task[c] EXCEPT !.at = "page", !.scores =
       IF Head(task[c].left) = "native" THEN Cardinality({i \in DOMAIN events : events[i] = "report"}) ELSE 0])
  /\ Reads

\* Mutant: every page starts again at the first segment.
Projection_SegmentPerPage(t, first, page) ==
  LET resumed(i) == Cardinality({j \in 1..i : page[j] = "session.resumed"})
      earlier == Cardinality({j \in 1..(first - 1) : events[j] = "session.resumed"})
  IN  [i \in DOMAIN page |->
        [record |-> page[i],
         cause |-> IF i > 1 THEN page[i - 1] ELSE IF first > 1 THEN Log(t)[first - 1] ELSE None,
         segment |-> IF t = "native" THEN 1 + resumed(i) ELSE 1]]
\* One page: records in order, each caused by its predecessor and labelled
\* with its segment, the first one by a look at what precedes the page.
Projection(t, first, page) ==
  LET resumed(i) == Cardinality({j \in 1..i : page[j] = "session.resumed"})
      earlier == Cardinality({j \in 1..(first - 1) : events[j] = "session.resumed"})
  IN  [i \in DOMAIN page |->
        [record |-> page[i],
         cause |-> IF i > 1 THEN page[i - 1] ELSE IF first > 1 THEN Log(t)[first - 1] ELSE None,
         segment |-> IF t = "native" THEN 1 + earlier + resumed(i) ELSE 1]]

Streamed(t, page, more) ==
  IF more /\ page # <<>> THEN [t EXCEPT !.at = "page"] ELSE [t EXCEPT !.at = "streamed"]
\* Mutant: the cursor moves on by the limit of a page, however short it was.
Page_CursorByLimit(c) ==
  LET t == task[c]
      trajectory == Head(t.left)
      page == PageAfter(Log(trajectory), t.cursor)
      read == [t EXCEPT !.cursor = @ + PageSize,
                        !.records = @ \o Projection(trajectory, t.cursor + 1, page)]
  IN  /\ At(c, "page")
      /\ Does(c, IF trajectory = "imported" THEN Streamed(read, page, Len(records) > read.cursor)
                 ELSE [read EXCEPT !.at = IF page = <<>> THEN "streamed" ELSE "more"])
      /\ Reads
Page(c) ==
  LET t == task[c]
      trajectory == Head(t.left)
      page == PageAfter(Log(trajectory), t.cursor)
      read == [t EXCEPT !.cursor = @ + Len(page),
                        !.records = @ \o Projection(trajectory, t.cursor + 1, page)]
  IN  /\ At(c, "page")
      /\ Does(c, IF trajectory = "imported" THEN Streamed(read, page, Len(records) > read.cursor)
                 ELSE [read EXCEPT !.at = IF page = <<>> THEN "streamed" ELSE "more"])
      /\ Reads
More(c) ==
  /\ At(c, "more")
  /\ Does(c, [task[c] EXCEPT !.at = IF Len(events) > task[c].cursor THEN "page" ELSE "streamed"])
  /\ Reads

\* Reward chains: complete, unambiguous, acyclic, and not retracted.
Resolved(stream) ==
  LET rewards == {r \in Records : Reward[r] # "none" /\ \E i \in DOMAIN stream : stream[i].record = r}
      chained == {r \in rewards : Supersedes[r] # None}
      superseded(r) == \E q \in rewards : Supersedes[q] = IdOf[r]
  IN  /\ \A r \in chained : \E q \in rewards : IdOf[q] = Supersedes[r]
      /\ \A r, q \in chained : Supersedes[r] = Supersedes[q] => r = q
      /\ \A ring \in SUBSET chained : ring # {} => \E r \in ring : \A q \in ring : Supersedes[q] # IdOf[r]
      /\ \A r \in rewards : ~superseded(r) => Reward[r] # "retracted"

Check(c) ==
  LET t == task[c] IN
  /\ At(c, "streamed") /\ t.pass = "check"
  /\ Does(c, IF Resolved(t.records)
             THEN [goal |-> t.goal, pass |-> "freeze", at |-> "get", left |-> t.left,
                   members |-> Append(t.members, [trajectory |-> Head(t.left), end |-> t.end,
                                                  complete |-> t.complete, snapshot |-> None])]
             ELSE Idle)
  /\ Reads

\* Mutant: the scores are those of the moment the snapshot is stored.
SnapshotOf_LatestScores(t) ==
  [trajectory |-> Head(t.left), end |-> t.end, head |-> t.head, complete |-> t.complete,
   scores |-> IF Head(t.left) # "native" THEN 0 ELSE Cardinality({i \in DOMAIN events : events[i] = "report"}), records |-> t.records]
\* The snapshot: the boundary of the projection with the records of the
\* stream, stored under the digest of both.
SnapshotOf(t) ==
  [trajectory |-> Head(t.left), end |-> t.end, head |-> t.head, complete |-> t.complete,
   scores |-> t.scores, records |-> t.records]
Insert(c) ==
  LET t == task[c]
      n == Len(t.members)
  IN  /\ At(c, "streamed") /\ t.pass = "freeze"
      /\ snapshots' = snapshots \cup {SnapshotOf(t)}
      /\ Does(c, IF t.goal = "snapshot" THEN Idle
                 ELSE [goal |-> t.goal, pass |-> "check", left |-> Tail(t.left),
                       at |-> IF Tail(t.left) = <<>> THEN "dataset" ELSE "get",
                       members |-> [t.members EXCEPT ![n].snapshot = SnapshotOf(t)]])
      /\ UNCHANGED <<evidence, datasets, calls>>
RecordDataset(c) ==
  /\ At(c, "dataset")
  /\ datasets' = datasets \cup {task[c].members}
  /\ Does(c, Idle)
  /\ UNCHANGED <<evidence, snapshots, calls>>
Abandon(c) == task[c] # Idle /\ Does(c, Idle) /\ Reads

Reader(c) ==
  \/ \E t \in Trajectories : Freeze(c, t)
  \/ \E selection \in Selections : FreezeDataset(c, selection)
  \/ GetImported(c) \/ GetNative(c) \/ Replay(c) \/ Scores(c) \/ Page(c) \/ More(c)
  \/ Check(c) \/ Insert(c) \/ RecordDataset(c) \/ Abandon(c)
Importer ==
  \/ \E batch \in Batches : Ingest(batch)
  \/ \E collection \in {"lagging", "complete"}, execution \in {"active", "completed"},
        outcome \in {"pending", "success"}, terminal \in Records :
       \E cited \in {{}, {terminal}} : Report(collection, execution, outcome, cited, terminal)
TrajectoryNext == Importer \/ Happens \/ Completes \/ Scored \/ \E c \in Readers : Reader(c)
TrajectorySpec == TrajectoryInit /\ [][TrajectoryNext]_trajectoryVars
------------------------------------------------------------------------------
(* Paging a dataset: one cursor over the concatenated member snapshots     *)
(* (training.py dataset_records_page).                                     *)

\* The pages of a frozen snapshot, and all of it read page by page.
SnapshotPage(s, after, limit) ==
  [records |-> SubSeq(s.records, after + 1, Least(after + limit, Len(s.records))),
   more |-> Len(s.records) > after + limit]
ReadOut(s, limit) ==
  LET pages[after \in Nat] ==
        LET page == SnapshotPage(s, after, limit)
        IN  IF page.more THEN page.records \o pages[after + limit] ELSE page.records
  IN  pages[0]

\* What the page does with the next record of the stream, and of a member.
TakeRecord(after, limit, page, r) ==
  IF ~page.exhausted THEN page
  ELSE IF page.position < after THEN [page EXCEPT !.position = @ + 1]
  ELSE IF Len(page.records) = limit THEN [page EXCEPT !.exhausted = FALSE]
  ELSE [page EXCEPT !.position = @ + 1, !.records = Append(@, r)]
TakeMember(after, limit, page, member) ==
  FoldLeft(LAMBDA p, r : TakeRecord(after, limit, p, r), page, ReadOut(member.snapshot, limit))
FirstPage == [position |-> 0, records |-> <<>>, exhausted |-> TRUE]
\* Mutant: a page that is full counts as not the last.
DatasetPage_LimitReached(dataset, after, limit) ==
  LET read == FoldLeft(LAMBDA p, m : TakeMember(after, limit, p, m), FirstPage, dataset)
  IN  [records |-> read.records, cursor |-> after + Len(read.records), more |-> Len(read.records) = limit]
DatasetPage(dataset, after, limit) ==
  LET read == FoldLeft(LAMBDA p, m : TakeMember(after, limit, p, m), FirstPage, dataset)
  IN  [records |-> read.records, cursor |-> after + Len(read.records), more |-> ~read.exhausted]
------------------------------------------------------------------------------
\* The shape of the rows and of what each reader is in the middle of.
TrajectoryTypeOK ==
  /\ source.collection \in {"registered", "current", "lagging", "complete"}
  /\ source.acknowledged \in Records \cup {None}
  /\ records \in Seq(Records)
  /\ nativeStatus \in {"running", "completed"} /\ Len(events) \in 1..MaxEvents
  /\ \A s \in snapshots : s.trajectory \in Trajectories /\ s.end \in Nat
  /\ \A c \in Readers : task[c].at \in
       {"none", "get", "replay", "scores", "page", "more", "streamed", "dataset"}
  /\ \A c \in Readers : task[c].at \in {"page", "more", "streamed"} =>
       task[c].cursor = Len(task[c].records) /\ task[c].cursor <= Len(Log(Head(task[c].left)))

Journal == INSTANCE SourceJournal WITH copy <- records

\* The acknowledged boundary is the end of the copy, and collection is
\* complete only while that is the terminal boundary its source reported:
\* neither a retry nor a later batch leaves a stale completion behind.
CompletionIsAcknowledged ==
  /\ source.acknowledged = (IF records = <<>> THEN None ELSE Last(records))
  /\ source.collection = "complete" => source.terminal = source.acknowledged

\* Batches that are repeated, reordered, forked or sent after completion
\* leave a copy that only ever grows along one chain of the journal, and
\* whose end is what the source is told was collected.
ImplementsJournal == Journal!Spec /\ []CompletionIsAcknowledged

\* A snapshot holds its whole boundary: the head it names is its record at
\* the end it names, and its records are those of its trajectory from the
\* first one to some point at or after that end, none skipped, repeated, out
\* of order, or with another cause or segment than it had, although every page
\* and the question whether more follow are separate reads of a growing log;
\* and the scores it selects are evidenced by records it holds, although
\* scoring goes on while it is taken.
SnapshotHoldsItsBoundary ==
  \A s \in snapshots :
    LET log == Log(s.trajectory)
        resumed(i) == Cardinality({j \in 1..i : log[j] = "session.resumed"})
    IN  /\ s.end \in 1..Len(s.records) /\ s.head = s.records[s.end].record
        /\ Len(s.records) <= Len(log)
        /\ \A i \in DOMAIN s.records : s.records[i] =
             [record |-> log[i], cause |-> IF i = 1 THEN None ELSE log[i - 1],
              segment |-> IF s.trajectory = "native" THEN 1 + resumed(i) ELSE 1]
        /\ s.scores <= Cardinality({i \in DOMAIN s.records : s.records[i].record = "report"})

\* A snapshot freezes a trajectory at an explicit source boundary
\* (docs/TRAJECTORIES.md:19-20): it ends where it says.  It need not: nothing
\* bounds the stream by the end that was projected before it.
SnapshotEndsAtItsBoundary == \A s \in snapshots : Len(s.records) = s.end

\* Every member of a dataset was complete with resolved rewards up to a
\* boundary that its snapshot covers.
MembersWereEligible ==
  \A d \in datasets : \A i \in DOMAIN d :
    /\ d[i].complete /\ d[i].snapshot \in snapshots
    /\ d[i].end <= d[i].snapshot.end
    /\ \E n \in d[i].end..Len(d[i].snapshot.records) : Resolved(SubSeq(d[i].snapshot.records, 1, n))

\* Paging a dataset from any cursor neither omits nor repeats a record of
\* its members and says whether more follow.
DatasetPagesAreExact ==
  \A d \in datasets :
    LET all == FlattenSeq([i \in DOMAIN d |-> d[i].snapshot.records]) IN
    \A after \in 0..Len(all), limit \in 1..3 :
      LET page == DatasetPage(d, after, limit) IN
      /\ page.records = SubSeq(all, after + 1, Least(after + limit, Len(all)))
      /\ page.more <=> after + limit < Len(all)

\* A trajectory enters a dataset only when its collection is complete and
\* its reward chains are resolved (TRAINING.md:9-16): so says what the
\* dataset froze of it.
MembersAreEligible ==
  \A d \in datasets : \A i \in DOMAIN d :
    d[i].snapshot.complete /\ Resolved(d[i].snapshot.records)
==============================================================================
