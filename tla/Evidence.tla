------------------------------- MODULE Evidence -------------------------------
(***************************************************************************)
(* The evidence log of a session, the checkpoints cut into it, the lineage *)
(* a branch inherits (store.py append, history.py, runtime.py checkpoint   *)
(* and _branch_legacy), and the activity outbox that is written in the     *)
(* same transactions (activity.py, store.py activity_hierarchy).  A client *)
(* replays a log or follows the activity while sessions write.             *)
(*                                                                         *)
(* A store is local (SQLite, BEGIN IMMEDIATE: one transaction at a time,   *)
(* reads included) or hosted (PostgreSQL, READ COMMITTED: a transaction    *)
(* locks the row of its session, and ids come from a sequence).            *)
(***************************************************************************)
EXTENDS Integers, FiniteSets, Sequences, SequencesExt, FiniteSetsExt

CONSTANTS
  Sessions, Root,   \* session identities; Root is the one created first
  Participants,     \* participants of every session
  Classes,          \* the events a session records: [audience, large]
  Audiences,        \* the audiences an artifact is stored for
  PageRows,         \* rows of one page
  MaxWrites,        \* bound: ids the outbox hands out
  Absent

Everyone == "*"     \* an audience of ["*"]; Evaluator reads all evidence
Evaluator == "evaluator"
Parts == 2          \* chunks a large record is inherited in

ASSUME EvidenceAssumption ==
  /\ Root \in Sessions /\ Absent \notin Sessions
  /\ Evaluator \notin Participants /\ Everyone \notin Participants
  /\ \A c \in Classes : c.audience \subseteq Participants \cup {Everyone} /\ c.large \in BOOLEAN
  /\ \A a \in Audiences : a \subseteq Participants \cup {Everyone}
  /\ PageRows \in Nat \ {0} /\ MaxWrites \in Nat \ {0}

VARIABLES
  hosted,       \* which store this is
  log,          \* events, by session and sequence number
  parent,       \* environments.parent; None also for a session not yet created
  base,         \* environments.checkpoint: the checkpoint a branch was cut at
  checkpoints,  \* the checkpoints table
  artifacts,    \* the artifacts table: id, session, content, audience
  aliases,      \* the artifact_aliases table
  outbox,       \* event_outbox: the committed rows by id, None for the others
  open,         \* the outbox id of the transaction a session has open, or 0
  client        \* what the client is in the middle of

written == <<log, parent, base, checkpoints, artifacts, aliases, outbox>>
evidenceVars == <<hosted, written, open, client>>
------------------------------------------------------------------------------
Max0(S) == Max(S \cup {0})
Committed == {i \in DOMAIN outbox : outbox[i] # Absent}
Born(s) == log[s] # <<>>
ClientIdle == [at |-> "idle"]
MayRead(who, e) == who = Evaluator \/ e.audience = {Everyone} \/ who \in e.audience

Event(kind, class, about) ==
  [kind |-> kind, audience |-> class.audience, large |-> class.large, about |-> about]
Plain == [audience |-> {}, large |-> FALSE]

\* The n-th of a set of positions, and the entries of a sequence at those
\* positions in their order.
UpTo(T, i) == {j \in T : j <= i}
Nth(T, n) == CHOOSE i \in T : Cardinality(UpTo(T, i)) = n
Those(s, T) == [n \in 1..Cardinality(T) |-> s[Nth(T, n)]]

EvidenceInit ==
  /\ hosted \in BOOLEAN
  /\ log = [s \in Sessions |-> IF s = Root THEN <<Event("session.created", Plain, Absent)>> ELSE <<>>]
  /\ parent = [s \in Sessions |-> Absent] /\ base = [s \in Sessions |-> Absent]
  /\ checkpoints = {} /\ artifacts = {} /\ aliases = {}
  /\ outbox = <<Root>> /\ open = [s \in Sessions |-> 0]
  /\ client = ClientIdle
------------------------------------------------------------------------------
(* Transactions.  A local one excludes every other; a hosted one only the  *)
(* others that lock its session.  The outbox id is taken when the row is   *)
(* inserted; the row can be read when the transaction commits.             *)

Unlocked == \A s \in Sessions : open[s] = 0
Free(s) == IF hosted THEN open[s] = 0 ELSE Unlocked
\* Mutant: the overview does not read in one transaction.
Quiet_OverviewUnlocked == hosted \/ Unlocked
Quiet == hosted \/ (Unlocked /\ client.at # "overview")

BeginWrite(s) ==
  /\ Born(s) /\ Free(s) /\ Quiet /\ Len(outbox) < MaxWrites
  /\ outbox' = Append(outbox, Absent)
  /\ open' = [open EXCEPT ![s] = Len(outbox) + 1]
  /\ UNCHANGED <<hosted, log, parent, base, checkpoints, artifacts, aliases, client>>

\* The transaction of s ends with the outbox row of session t.
Commits(s, t) ==
  /\ open[s] # 0
  /\ outbox' = [outbox EXCEPT ![open[s]] = t]
  /\ open' = [open EXCEPT ![s] = 0]
  /\ UNCHANGED <<hosted, client>>

\* An error or a crash: nothing is written.  The local store hands the id
\* out again, the hosted sequence does not.
Abort(s) ==
  /\ open[s] # 0
  /\ open' = [open EXCEPT ![s] = 0]
  /\ outbox' = IF hosted THEN outbox ELSE Front(outbox)
  /\ UNCHANGED <<hosted, log, parent, base, checkpoints, artifacts, aliases, client>>

Appended(s, e) == log' = [log EXCEPT ![s] = Append(@, e)]

Record(s, class) ==
  /\ Commits(s, s) /\ Appended(s, Event("event", class, Absent))
  /\ UNCHANGED <<parent, base, checkpoints, artifacts, aliases>>

\* An artifact is stored with the event that names it.
StoreArtifact(s, audience) ==
  LET id == [in |-> <<s>>, seq |-> Len(log[s]) + 1] IN
  /\ Commits(s, s) /\ Appended(s, Event("artifact", [Plain EXCEPT !.audience = audience], id))
  /\ artifacts' = artifacts \cup
       {[session |-> s, id |-> id, content |-> id, audience |-> audience]}
  /\ UNCHANGED <<parent, base, checkpoints, aliases>>

Of(s, rows) == {r \in rows : r.session = s}

Checkpoint(s) ==
  /\ Commits(s, s)
  /\ checkpoints' = checkpoints \cup
       {[session |-> s, cursor |-> Len(log[s]),
         artifacts |-> Of(s, artifacts), aliases |-> Of(s, aliases)]}
  /\ Appended(s, Event("checkpoint.committed", Plain, Absent))
  /\ UNCHANGED <<parent, base, artifacts, aliases>>
------------------------------------------------------------------------------
(* Inheritance (history.py).  A record names its session, its sequence     *)
(* number and the event; a record too large for one event becomes chunks.  *)

Inherited == {"history.inherited", "history.inherited.chunk"}
Rec(s, i, e) == [session |-> s, seq |-> i, event |-> e]
Wrapped(record, part, parts) ==
  [kind |-> IF parts = 1 THEN "history.inherited" ELSE "history.inherited.chunk",
   audience |-> record.event.audience, about |-> Absent, large |-> TRUE,
   record |-> record, part |-> part, parts |-> parts]

\* Mutant: an inherited event is wrapped like any other.
Inherit_WrapsAgain(s, i) ==
  LET e == log[s][i] IN
  IF e.large THEN [n \in 1..Parts |-> Wrapped(Rec(s, i, e), n, Parts)]
  ELSE <<Wrapped(Rec(s, i, e), 1, 1)>>
\* What a child appends for event i of s; inherited events are copied.
Inherit(s, i) ==
  LET e == log[s][i] IN
  IF e.kind \in Inherited THEN <<e>>
  ELSE IF e.large THEN [n \in 1..Parts |-> Wrapped(Rec(s, i, e), n, Parts)]
  ELSE <<Wrapped(Rec(s, i, e), 1, 1)>>

\* The inherited records of a page, in the order they begin in it; one whose
\* chunks are not all in the page is reported as incomplete.
Chunks(page, i) ==
  {j \in DOMAIN page : page[j].kind \in Inherited /\ page[j].record = page[i].record}
Starts(page) ==
  {i \in DOMAIN page : page[i].kind \in Inherited /\ \A j \in Chunks(page, i) : i <= j}
Found(page, i) ==
  [complete |-> {page[j].part : j \in Chunks(page, i)} = 1..page[i].parts,
   record |-> page[i].record]
Reconstruct(page) ==
  [n \in 1..Cardinality(Starts(page)) |-> Found(page, Nth(Starts(page), n))]
------------------------------------------------------------------------------
(* A branch: the whole child in one transaction.  The events it inherits   *)
(* have no outbox row of their own, the child's registration has.  An      *)
(* existing child of the same checkpoint is returned as it is.             *)

ChildLog(s, cp) ==
  FlattenSeq([i \in 1..cp.cursor |-> Inherit(s, i)]) \o <<Event("session.branched", Plain, Absent)>>
Copied(c, id) == [id EXCEPT !.in = <<c>> \o @]
Copy(c, a) == [a EXCEPT !.session = c, !.id = Copied(c, @)]

\* Mutant: the handles the parent inherited are not carried over.
Branch_DropsAliases(s, cp, c) ==
  /\ cp.session = s /\ ~Born(c)
  /\ Commits(s, c)
  /\ log' = [log EXCEPT ![c] = ChildLog(s, cp)]
  /\ parent' = [parent EXCEPT ![c] = s] /\ base' = [base EXCEPT ![c] = cp]
  /\ artifacts' = artifacts \cup {Copy(c, a) : a \in cp.artifacts}
  /\ aliases' = aliases
       \cup {[session |-> c, alias |-> a.id, artifact |-> Copied(c, a.id)] : a \in cp.artifacts}
  /\ UNCHANGED checkpoints
Branch(s, cp, c) ==
  /\ cp.session = s /\ ~Born(c)
  /\ Commits(s, c)
  /\ log' = [log EXCEPT ![c] = ChildLog(s, cp)]
  /\ parent' = [parent EXCEPT ![c] = s] /\ base' = [base EXCEPT ![c] = cp]
  /\ artifacts' = artifacts \cup {Copy(c, a) : a \in cp.artifacts}
  /\ aliases' = aliases
       \cup {[session |-> c, alias |-> a.id, artifact |-> Copied(c, a.id)] : a \in cp.artifacts}
       \cup {[session |-> c, alias |-> x.alias, artifact |-> Copied(c, x.artifact)] : x \in cp.aliases}
  /\ UNCHANGED checkpoints
------------------------------------------------------------------------------
(* The client.  A replay reads pages of one log until one is empty; the    *)
(* audience is filtered before the page is cut.                            *)

ClientDoes(c) == client' = c /\ UNCHANGED <<hosted, written, open>>
PageOf(S) == {i \in S : Cardinality(UpTo(S, i)) <= PageRows}

BeginReplay(s, who) ==
  /\ client = ClientIdle /\ Born(s)
  /\ ClientDoes([at |-> "replay", session |-> s, who |-> who, cursor |-> 0, got |-> {}, end |-> 0])
\* Mutant: the page is cut before the audience is filtered.
ReplayPage_CutFirst ==
  /\ client.at = "replay" /\ Free(client.session) /\ Quiet
  /\ LET c == client
         page == {i \in PageOf({j \in DOMAIN log[c.session] : j > c.cursor}) :
                    MayRead(c.who, log[c.session][i])}
     IN  IF page # {} THEN ClientDoes([c EXCEPT !.cursor = Max(page), !.got = @ \cup page])
         ELSE ClientDoes([c EXCEPT !.at = "replayed", !.end = Len(log[c.session])])
ReplayPage ==
  /\ client.at = "replay" /\ Free(client.session) /\ Quiet
  /\ LET c == client
         page == PageOf({i \in DOMAIN log[c.session] :
                            i > c.cursor /\ MayRead(c.who, log[c.session][i])})
     IN  IF page # {} THEN ClientDoes([c EXCEPT !.cursor = Max(page), !.got = @ \cup page])
         ELSE ClientDoes([c EXCEPT !.at = "replayed", !.end = Len(log[c.session])])

\* The activity of the tenant or of one session, from the start or from the
\* cursor of an overview.
Follow(scope) ==
  /\ client = ClientIdle
  /\ ClientDoes([at |-> "feed", scope |-> scope, cursor |-> 0, seen |-> {}, view |-> {}])
FeedPage ==
  /\ client.at = "feed" /\ Quiet
  /\ LET page == PageOf({i \in Committed : i > client.cursor /\ outbox[i] \in client.scope})
     IN  /\ page # {}
         /\ ClientDoes([client EXCEPT !.cursor = Max(page), !.seen = @ \cup page])

\* The overview reads the rows first and its cursor last, in one transaction;
\* view stands for the writes its rows show.
OverviewRows ==
  /\ client.at \in {"idle", "feed"} /\ Quiet
  /\ ClientDoes([at |-> "overview", scope |-> Sessions, cursor |-> 0, seen |-> {}, view |-> Committed])
OverviewCursor ==
  /\ client.at = "overview"
  /\ ClientDoes([client EXCEPT !.at = "feed", !.cursor = Max0(Committed)])
Leave == client.at \in {"replayed", "feed"} /\ ClientDoes(ClientIdle)

EvidenceNext ==
  \/ \E s \in Sessions :
       \/ BeginWrite(s) \/ Abort(s) \/ Checkpoint(s)
       \/ \E class \in Classes : Record(s, class)
       \/ \E audience \in Audiences : StoreArtifact(s, audience)
       \/ \E cp \in checkpoints, c \in Sessions : Branch(s, cp, c)
       \/ \E who \in Participants \cup {Evaluator} : BeginReplay(s, who)
       \/ Follow({s})
  \/ Follow(Sessions) \/ ReplayPage \/ FeedPage \/ OverviewRows \/ OverviewCursor \/ Leave

EvidenceSpec == EvidenceInit /\ [][EvidenceNext]_evidenceVars
------------------------------------------------------------------------------
(* Properties.                                                             *)

\* The state is well typed (the tables of store.py), and a row of the local
\* outbox is missing only while the transaction that takes it is open.
EvidenceTypeOK ==
  /\ parent \in [Sessions -> Sessions \cup {Absent}]
  /\ \A s \in Sessions : (parent[s] # Absent) => base[s] \in checkpoints /\ base[s].session = parent[s]
  /\ \A a \in artifacts : a.session \in Sessions /\ a.audience \subseteq Participants \cup {Everyone}
  /\ \A i \in DOMAIN outbox : outbox[i] \in Sessions \cup {Absent}
  /\ \A s \in Sessions : open[s] \in 0..MaxWrites /\ (open[s] # 0 => open[s] \in DOMAIN outbox)
  /\ ~hosted => Committed = DOMAIN outbox \ {open[s] : s \in Sessions}

\* The history of session s up to event n, each event once in its original form.
History(s, n) ==
  LET own == {i \in 1..n : log[s][i].kind \notin Inherited}
  IN  Reconstruct(SubSeq(log[s], 1, n))
        \o Those([i \in 1..n |-> [complete |-> TRUE, record |-> Rec(s, i, log[s][i])]], own)

\* A branch inherits the history of its parent up to the checkpoint exactly,
\* also through a branch of a branch and through chunks: every reader finds
\* the records it may read, in order and complete, and none that it may not
\* (history.py reconstruct_inherited over what store.py events returns).
LineageIsExact ==
  \A s \in Sessions, who \in Participants \cup {Evaluator} :
    parent[s] # Absent =>
      LET h == History(parent[s], base[s].cursor) IN
      Reconstruct(Those(log[s], {i \in DOMAIN log[s] : MayRead(who, log[s][i])}))
        = Those(h, {i \in DOMAIN h : MayRead(who, h[i].record.event)})

Resolve(s, id) ==
  {a \in Of(s, artifacts) :
     a.id = id \/ \E x \in Of(s, aliases) : x.alias = id /\ x.artifact = a.id}

\* Every artifact that the history of a session names is served by that
\* session: one row, the content and the audience it was stored with
\* (store.py read_artifact through the aliases a branch writes).
HandlesResolve ==
  \A s \in Sessions :
    Born(s) => LET h == History(s, Len(log[s])) IN
      \A i \in DOMAIN h :
        LET e == h[i].record.event IN
        e.about # Absent =>
          \E a \in artifacts : /\ Resolve(s, e.about) = {a}
                               /\ a.content = e.about /\ a.audience = e.audience

\* A replay that ends has returned every event its reader may see, although
\* the log grew while it was paged through (store.py replay, events).
ReplayIsWhole ==
  client.at = "replayed" =>
    client.got = {i \in 1..client.end : MayRead(client.who, log[client.session][i])}

\* A client that loads the overview and follows the activity from its cursor
\* sees every write up to its own cursor in the one or the other ("It is the
\* recovery source for clients that miss activity events",
\* docs/API-REFERENCE.md).
OverviewRecovers ==
  client.at = "feed" =>
    \A i \in Committed :
      i <= client.cursor /\ outbox[i] \in client.scope => i \in client.seen \cup client.view

\* The same of the local store, whose transactions are serial.
LocalOverviewRecovers == hosted \/ OverviewRecovers
==============================================================================
