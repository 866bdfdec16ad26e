------------------------ MODULE HostedArtifactsProofs ------------------------
(***************************************************************************)
(* For any keys, sizes, callers and budgets: what is in the bucket is      *)
(* charged, what is indexed is stored, a branch is exposed whole, and an   *)
(* erasure is complete only over settled uploads.                          *)
(***************************************************************************)
EXTENDS HostedArtifacts, SumTheorems

\* What a thread of the host may be in the middle of.
PageRecords == [keys : SUBSET Keys, cursor : Nat, truncated : BOOLEAN]
OperationRows == [status : {"none", "in_flight", "unknown", "committed"}, attempts : Nat,
                  page : PageRecords]
UsageRows == [puts : Nat, gets : Nat, lists : Nat, deletes : Nat, deleted : Nat, objects : Nat,
              bytes : Nat, listed : Nat, page : Nat, cursor : Nat,
              fenced : BOOLEAN, quiesced : BOOLEAN, complete : BOOLEAN]
Uploads == [env : Environments, key : Keys, attempt : Nat \ {0}]
Puts == [goal : {"put"}, left : SUBSET Keys, at : {"put"}, env : {Parent}, key : Keys,
         attempt : Nat \ {0}]
Copies == [goal : {"branch"}, left : SUBSET Keys, at : {"put"}, env : {Child}, key : Keys,
           attempt : Nat \ {0}]
Reads == [goal : {"branch"}, left : SUBSET Keys, at : {"get", "write"}, env : {Parent}, key : Keys,
          attempt : Nat \ {0}]
Branchings == [goal : {"branch"}, at : {"install", "copy", "read"}, left : SUBSET Keys]
Purges == [goal : {"expire", "erase"}, at : {"fence", "evidence", "page", "commit"},
           env : Environments, found : SUBSET Environments]
Lists == [goal : {"expire", "erase"}, at : {"list"}, env : Environments,
          found : SUBSET Environments, name : {"list"} \X Pages, attempt : Nat, cursor : Nat]
Deletes == [goal : {"expire", "erase"}, at : {"delete"}, env : Environments,
            found : SUBSET Environments, name : {"delete"} \X Pages, attempt : Nat,
            page : PageRecords]
Tasks == {Idle} \cup Puts \cup Copies \cup Reads \cup Branchings \cup Purges \cup Lists \cup Deletes

Typed ==
  /\ session \in [Environments -> {"none", "pending", "exposed", "erased"}]
  /\ usage \in [Environments -> UsageRows]
  /\ operation \in [Environments -> [Names -> OperationRows]]
  /\ artifacts \in [Environments -> SUBSET Keys]
  /\ aliases \in SUBSET Keys /\ checkpoint \in SUBSET Keys
  /\ objects \in [Environments -> SUBSET Keys]
  /\ wire \in SUBSET Uploads
  /\ task \in [Callers -> Tasks]


\* The caller c is sending the upload r.
Sends(c, r) ==
  /\ task[c] \in Puts \cup Copies
  /\ task[c].env = r.env /\ task[c].key = r.key /\ task[c].attempt = r.attempt
InFlight(r) == r \in wire \/ \E c \in Callers : Sends(c, r)
PutOf(e, k) == operation[e][<<"put", k>>]
ListOf(e, m) == operation[e][<<"list", m>>]
DeleteOf(e, m) == operation[e][<<"delete", m>>]
Tried(e) == {k \in Keys : PutOf(e, k).attempts > 0}
------------------------------------------------------------------------------
(* The parts of the state that the invariants look at, and how a step      *)
(* moves them.                                                             *)

TaskMoves(c, t) ==
  /\ t \in Tasks /\ task'[c] = t /\ \A d \in Callers \ {c} : task'[d] = task[d]
OperationMoves(e, n, r) ==
  \A f \in Environments, m \in Names :
    operation'[f][m] = IF f = e /\ m = n THEN r ELSE operation[f][m]
UsageMoves(e, u) == \A f \in Environments : usage'[f] = IF f = e THEN u ELSE usage[f]

SamePuts == \A e \in Environments, k \in Keys : PutOf(e, k)' = PutOf(e, k)
SamePages ==
  \A e \in Environments :
    /\ usage'[e].page = usage[e].page /\ usage'[e].cursor = usage[e].cursor
    /\ usage'[e].complete = usage[e].complete /\ usage'[e].lists = usage[e].lists
    /\ \A m \in Pages : ListOf(e, m)' = ListOf(e, m) /\ DeleteOf(e, m)' = DeleteOf(e, m)
SameCharges ==
  \A e \in Environments :
    usage'[e].bytes = usage[e].bytes /\ usage'[e].objects = usage[e].objects
SameFences ==
  \A e \in Environments :
    usage'[e].fenced = usage[e].fenced /\ usage'[e].quiesced = usage[e].quiesced

LEMMA TaskChanges ==
  ASSUME Typed, NEW c \in Callers, NEW t \in Tasks, task' = [task EXCEPT ![c] = t]
  PROVE  task' \in [Callers -> Tasks] /\ TaskMoves(c, t)
BY DEF Typed, TaskMoves

LEMMA OperationChanges ==
  ASSUME Typed, NEW e \in Environments, NEW n \in Names, NEW r \in OperationRows,
         operation' = [operation EXCEPT ![e][n] = r]
  PROVE  /\ operation' \in [Environments -> [Names -> OperationRows]]
         /\ OperationMoves(e, n, r)
BY DEF Typed, OperationMoves

LEMMA UsageChanges ==
  ASSUME Typed, NEW e \in Environments, NEW u \in UsageRows, usage' = [usage EXCEPT ![e] = u]
  PROVE  usage' \in [Environments -> UsageRows] /\ UsageMoves(e, u)
BY DEF Typed, UsageMoves

LEMMA Operations ==
  /\ \A k \in Keys : <<"put", k>> \in Names /\ <<"get", k>> \in Names
  /\ \A m \in Pages : <<"list", m>> \in Names /\ <<"delete", m>> \in Names
  /\ \A k, j \in Keys : <<"put", k>> # <<"get", j>> /\ (<<"put", k>> = <<"put", j>> => k = j)
  /\ \A k \in Keys, m \in Pages : <<"put", k>> # <<"list", m>> /\ <<"put", k>> # <<"delete", m>>
  /\ \A k \in Keys, m \in Pages : <<"get", k>> # <<"list", m>> /\ <<"get", k>> # <<"delete", m>>
  /\ \A m, l \in Pages : /\ <<"list", m>> # <<"delete", l>>
                         /\ <<"list", m>> = <<"list", l>> => m = l
                         /\ <<"delete", m>> = <<"delete", l>> => m = l
BY DEF Names

\* What each kind of operation moves.
LEMMA GetMoves ==
  ASSUME NEW e \in Environments, NEW k \in Keys, NEW r, OperationMoves(e, <<"get", k>>, r)
  PROVE  SamePuts /\ \A f \in Environments, m \in Pages : ListOf(f, m)' = ListOf(f, m) /\ DeleteOf(f, m)' = DeleteOf(f, m)
BY Operations DEF OperationMoves, SamePuts, PutOf, ListOf, DeleteOf

LEMMA PutMoves ==
  ASSUME NEW e \in Environments, NEW k \in Keys, NEW r, OperationMoves(e, <<"put", k>>, r)
  PROVE  /\ \A f \in Environments, j \in Keys :
              PutOf(f, j)' = IF f = e /\ j = k THEN r ELSE PutOf(f, j)
         /\ \A f \in Environments, m \in Pages :
              ListOf(f, m)' = ListOf(f, m) /\ DeleteOf(f, m)' = DeleteOf(f, m)
BY Operations DEF OperationMoves, PutOf, ListOf, DeleteOf

LEMMA ListMoves ==
  ASSUME NEW e \in Environments, NEW n \in Pages, NEW r, OperationMoves(e, <<"list", n>>, r)
  PROVE  /\ SamePuts
         /\ \A f \in Environments, m \in Pages :
              /\ ListOf(f, m)' = IF f = e /\ m = n THEN r ELSE ListOf(f, m)
              /\ DeleteOf(f, m)' = DeleteOf(f, m)
BY Operations DEF OperationMoves, SamePuts, PutOf, ListOf, DeleteOf

LEMMA DeleteMoves ==
  ASSUME NEW e \in Environments, NEW n \in Pages, NEW r, OperationMoves(e, <<"delete", n>>, r)
  PROVE  /\ SamePuts
         /\ \A f \in Environments, m \in Pages :
              /\ DeleteOf(f, m)' = IF f = e /\ m = n THEN r ELSE DeleteOf(f, m)
              /\ ListOf(f, m)' = ListOf(f, m)
BY Operations DEF OperationMoves, SamePuts, PutOf, ListOf, DeleteOf

\* One operation is attempted, or marked with what became of an attempt.
LEMMA Attempts ==
  ASSUME Typed, NEW e \in Environments, NEW n \in Names, operation' = Attempted(e, n)
  PROVE  \E r \in OperationRows :
           /\ r.status = "in_flight" /\ r.attempts = operation[e][n].attempts + 1
           /\ r.page = operation[e][n].page
           /\ operation' \in [Environments -> [Names -> OperationRows]]
           /\ OperationMoves(e, n, r)
<1> DEFINE o == operation[e][n]
           r == [status |-> "in_flight", attempts |-> o.attempts + 1, page |-> o.page]
<1>1. o \in OperationRows
  BY DEF Typed
<1>2. r \in OperationRows
  BY <1>1 DEF OperationRows
<1>3. operation' = [operation EXCEPT ![e][n] = r]
  BY DEF Attempted
<1>4. /\ r.status = "in_flight" /\ r.attempts = operation[e][n].attempts + 1
      /\ r.page = operation[e][n].page
  OBVIOUS
<1> HIDE DEF r
<1> QED
  BY <1>2, <1>3, <1>4, OperationChanges

LEMMA Marking ==
  ASSUME Typed, NEW e \in Environments, NEW n \in Names,
         NEW status \in {"in_flight", "unknown", "committed"}, operation' = Marked(e, n, status)
  PROVE  \E r \in OperationRows :
           /\ r.status = status /\ r.attempts = operation[e][n].attempts
           /\ r.page = operation[e][n].page
           /\ operation' \in [Environments -> [Names -> OperationRows]]
           /\ OperationMoves(e, n, r)
<1> DEFINE r == [operation[e][n] EXCEPT !.status = status]
<1>1. operation[e][n] \in OperationRows
  BY DEF Typed
<1>2. /\ r \in OperationRows /\ r.status = status
      /\ r.attempts = operation[e][n].attempts /\ r.page = operation[e][n].page
  BY <1>1 DEF OperationRows
<1>3. operation' = [operation EXCEPT ![e][n] = r]
  BY DEF Marked, Typed
<1> HIDE DEF r
<1> QED
  BY <1>2, <1>3, OperationChanges

LEMMA NothingMoves ==
  ASSUME operation' = operation
  PROVE  /\ SamePuts
         /\ \A f \in Environments, m \in Pages :
              ListOf(f, m)' = ListOf(f, m) /\ DeleteOf(f, m)' = DeleteOf(f, m)
BY DEF SamePuts, PutOf, ListOf, DeleteOf

LEMMA UnknownMoves ==
  ASSUME Typed, NEW e \in Environments, NEW n \in Names, NEW a, Unknown(e, n, a)
  PROVE  /\ operation' \in [Environments -> [Names -> OperationRows]]
         /\ \/ operation' = operation
            \/ Current(e, n, a) /\ \E r \in OperationRows :
                 /\ r.status = "unknown" /\ r.attempts = operation[e][n].attempts
                 /\ r.page = operation[e][n].page
                 /\ OperationMoves(e, n, r)
BY Marking DEF Unknown, Typed

LEMMA TaskTypes ==
  ASSUME Typed, NEW c \in Callers, task[c] # Idle
  PROVE  /\ task[c].at = "put" => task[c] \in Puts \cup Copies
         /\ task[c].at \in {"get", "write"} => task[c] \in Reads
         /\ task[c].at \in {"install", "copy", "read"} => task[c] \in Branchings
         /\ task[c].at \in {"fence", "evidence", "page", "commit"} => task[c] \in Purges
         /\ task[c].at = "list" => task[c] \in Lists
         /\ task[c].at = "delete" => task[c] \in Deletes
<1>1. task[c] \in Puts \cup Copies \cup Reads \cup Branchings \cup Purges \cup Lists \cup Deletes
  BY DEF Typed, Tasks
<1>2. /\ \A t \in Puts \cup Copies : t.at = "put"
      /\ \A t \in Reads : t.at \in {"get", "write"}
      /\ \A t \in Branchings : t.at \in {"install", "copy", "read"}
      /\ \A t \in Purges : t.at \in {"fence", "evidence", "page", "commit"}
      /\ \A t \in Lists : t.at = "list"
      /\ \A t \in Deletes : t.at = "delete"
  BY DEF Puts, Copies, Reads, Branchings, Purges, Lists, Deletes
<1> QED
  BY <1>1, <1>2

\* The kinds of tasks are told apart by their step.
IsUploading(t) == t \in Puts \cup Copies
IsBranching(t) == t \in Copies \cup Reads \cup Branchings
IsPurging(t) == t \in Purges \cup Lists \cup Deletes

LEMMA Kinds ==
  /\ ~ IsUploading(Idle) /\ ~ IsBranching(Idle) /\ ~ IsPurging(Idle) /\ Idle \in Tasks
  /\ \A t \in Puts : ~ IsBranching(t) /\ ~ IsPurging(t) /\ t # Idle
  /\ \A t \in Copies : t \notin Puts /\ ~ IsPurging(t) /\ t # Idle
  /\ \A t \in Reads \cup Branchings : ~ IsUploading(t) /\ ~ IsPurging(t) /\ t # Idle
  /\ \A t \in Purges \cup Lists \cup Deletes : ~ IsUploading(t) /\ ~ IsBranching(t) /\ t # Idle
  /\ \A t \in Purges : t \notin Lists \cup Deletes
  /\ \A t \in Lists : t \notin Purges \cup Deletes
  /\ \A t \in Deletes : t \notin Purges \cup Lists
<1>1. /\ \A t \in Puts : t.at = "put" /\ t.goal = "put"
      /\ \A t \in Copies : t.at = "put" /\ t.goal = "branch"
      /\ \A t \in Reads : t.at \in {"get", "write"} /\ t.goal = "branch"
      /\ \A t \in Branchings : t.at \in {"install", "copy", "read"} /\ t.goal = "branch"
      /\ \A t \in Purges : t.at \in {"fence", "evidence", "page", "commit"} /\ t.goal # "none"
      /\ \A t \in Lists : t.at = "list" /\ t.goal # "none"
      /\ \A t \in Deletes : t.at = "delete" /\ t.goal # "none"
  BY DEF Puts, Copies, Reads, Branchings, Purges, Lists, Deletes
<1>2. Idle.goal = "none" /\ Idle \in Tasks
  BY DEF Idle, Tasks
<1> QED
  BY <1>1, <1>2 DEF IsUploading, IsBranching, IsPurging

LEMMA NoOperationIsTyped == NoOperation \in OperationRows /\ NoUsage \in UsageRows
BY DEF NoOperation, NoPage, OperationRows, PageRecords, NoUsage, UsageRows

LEMMA InitIsTyped == Init => Typed
BY Kinds, NoOperationIsTyped DEF Init, Typed, Environments

------------------------------------------------------------------------------
(* What each action does to these parts. *)

\* Nothing but tasks, and requests to read, moves.
Unmoved ==
  /\ SamePuts /\ SamePages /\ SameCharges /\ SameFences
  /\ UNCHANGED <<session, artifacts, aliases, checkpoint, objects, wire>>

LEMMA UsageTypes ==
  ASSUME Typed, NEW e \in Environments
  PROVE  /\ usage[e] \in UsageRows
         /\ usage[e].puts \in Nat /\ usage[e].gets \in Nat /\ usage[e].lists \in Nat
         /\ usage[e].deletes \in Nat /\ usage[e].deleted \in Nat /\ usage[e].objects \in Nat
         /\ usage[e].bytes \in Nat /\ usage[e].listed \in Nat /\ usage[e].page \in Nat
         /\ usage[e].cursor \in Nat /\ usage[e].fenced \in BOOLEAN
         /\ usage[e].quiesced \in BOOLEAN /\ usage[e].complete \in BOOLEAN
BY DEF Typed, UsageRows

LEMMA OperationTypes ==
  ASSUME Typed, NEW e \in Environments, NEW n \in Names
  PROVE  /\ operation[e][n] \in OperationRows
         /\ operation[e][n].status \in {"none", "in_flight", "unknown", "committed"}
         /\ operation[e][n].attempts \in Nat /\ operation[e][n].page \in PageRecords
BY DEF Typed, OperationRows

LEMMA UsageStays ==
  ASSUME usage' = usage
  PROVE  /\ SameCharges /\ SameFences
         /\ \A e \in Environments :
              /\ usage'[e].page = usage[e].page /\ usage'[e].cursor = usage[e].cursor
              /\ usage'[e].complete = usage[e].complete /\ usage'[e].lists = usage[e].lists
BY DEF SameCharges, SameFences

LEMMA StillStays ==
  ASSUME Typed, UNCHANGED <<session, usage, operation, index, bucket, task>>
  PROVE  Typed' /\ Unmoved
BY DEF Typed, Unmoved, SamePuts, SamePages, SameCharges, SameFences, PutOf, ListOf, DeleteOf, index, bucket

\* A caller that moves alone.
LEMMA CallerMoves ==
  ASSUME Typed, NEW c \in Callers, NEW t \in Tasks, Does(c, t),
         UNCHANGED <<session, usage, operation, index, bucket>>
  PROVE  Typed' /\ Unmoved /\ TaskMoves(c, t)
<1>1. task' \in [Callers -> Tasks] /\ TaskMoves(c, t)
  BY TaskChanges DEF Does
<1> QED
  BY <1>1 DEF Typed, Unmoved, SamePuts, SamePages, SameCharges, SameFences, PutOf, ListOf, DeleteOf,
              index, bucket

\* What a reservation of an upload moves.
Reserves(c, e, k, goal, left) ==
  /\ SamePages /\ SameFences
  /\ UNCHANGED <<session, artifacts, aliases, checkpoint, objects, wire>>
  /\ ~ usage[e].fenced /\ PutOf(e, k).status # "committed"
  /\ \E r : /\ r.status = "in_flight" /\ r.attempts = PutOf(e, k).attempts + 1
            /\ \A f \in Environments, j \in Keys :
                 PutOf(f, j)' = IF f = e /\ j = k THEN r ELSE PutOf(f, j)
  /\ \E t \in Puts \cup Copies :
       /\ t.goal = goal /\ t.left = left /\ t.env = e /\ t.key = k
       /\ t.attempt = PutOf(e, k).attempts + 1
       /\ TaskMoves(c, t)
  /\ \A f \in Environments \ {e} :
       usage'[f].bytes = usage[f].bytes /\ usage'[f].objects = usage[f].objects
  /\ IF PutOf(e, k).status = "none"
     THEN /\ usage[e].bytes + SizeOf[k] <= MaxLiveBytes /\ usage[e].objects < MaxObjects
          /\ usage'[e].bytes = usage[e].bytes + SizeOf[k]
          /\ usage'[e].objects = usage[e].objects + 1
     ELSE usage'[e].bytes = usage[e].bytes /\ usage'[e].objects = usage[e].objects

LEMMA ReserveMoves ==
  ASSUME Typed, NEW c \in Callers, NEW e \in Environments, NEW k \in Keys,
         NEW goal, goal = IF e = Parent THEN "put" ELSE "branch", NEW left \in SUBSET Keys,
         ReservePut(c, e, k, goal, left), UNCHANGED <<session, index, bucket>>
  PROVE  Typed' /\ Reserves(c, e, k, goal, left)
<1> DEFINE n == <<"put", k>>
           o == operation[e][n]
           new == o.status = "none"
<1>1. n \in Names /\ o \in OperationRows /\ o.attempts \in Nat
  BY Operations, OperationTypes
<1>2. PICK t : t = [goal |-> goal, left |-> left, at |-> "put", env |-> e, key |-> k,
                    attempt |-> o.attempts + 1]
  OBVIOUS
<1>3. /\ ~ usage[e].fenced /\ o.status # "committed"
      /\ new => usage[e].bytes + SizeOf[k] <= MaxLiveBytes /\ usage[e].objects < MaxObjects
      /\ operation' = Attempted(e, n)
      /\ Does(c, t)
  BY <1>2 DEF ReservePut
<1>4. PICK a \in Nat, b \in Nat, x \in Nat :
        /\ a = usage[e].puts + 1
        /\ b = IF new THEN usage[e].bytes + SizeOf[k] ELSE usage[e].bytes
        /\ x = IF new THEN usage[e].objects + 1 ELSE usage[e].objects
  <2>1. SizeOf[k] \in Nat
    BY SizeAssumption
  <2>2. /\ usage[e].puts + 1 \in Nat
        /\ (IF new THEN usage[e].bytes + SizeOf[k] ELSE usage[e].bytes) \in Nat
        /\ (IF new THEN usage[e].objects + 1 ELSE usage[e].objects) \in Nat
    BY <2>1, UsageTypes
  <2> QED
    BY <2>2
<1>5. PICK u : u = [usage[e] EXCEPT !.puts = a, !.bytes = b, !.objects = x]
  OBVIOUS
<1>6. usage' = [usage EXCEPT ![e] = u]
  BY <1>4, <1>5 DEF ReservePut
<1>7. /\ u \in UsageRows /\ u.bytes = b /\ u.objects = x
      /\ u.page = usage[e].page /\ u.cursor = usage[e].cursor /\ u.complete = usage[e].complete
      /\ u.lists = usage[e].lists /\ u.fenced = usage[e].fenced /\ u.quiesced = usage[e].quiesced
  BY <1>5, UsageTypes DEF UsageRows
<1>8. usage' \in [Environments -> UsageRows] /\ UsageMoves(e, u)
  BY <1>6, <1>7, UsageChanges
<1>9. t \in Puts \cup Copies /\ t \in Tasks
  BY <1>1, <1>2, EnvironmentsAssumption DEF Environments, Puts, Copies, Tasks
<1>10. task' \in [Callers -> Tasks] /\ TaskMoves(c, t)
  BY <1>3, <1>9, TaskChanges DEF Does
<1> HIDE DEF n
<1>11. PICK r \in OperationRows :
         /\ r.status = "in_flight" /\ r.attempts = o.attempts + 1
         /\ operation' \in [Environments -> [Names -> OperationRows]]
         /\ OperationMoves(e, n, r)
  BY <1>1, <1>3, Attempts
<1> USE DEF n
<1>12. /\ \A f \in Environments, j \in Keys :
            PutOf(f, j)' = IF f = e /\ j = k THEN r ELSE PutOf(f, j)
       /\ \A f \in Environments, m \in Pages :
            ListOf(f, m)' = ListOf(f, m) /\ DeleteOf(f, m)' = DeleteOf(f, m)
  BY <1>11, PutMoves
<1>13. Typed'
  BY <1>8, <1>10, <1>11 DEF Typed, index, bucket
<1>14. SamePages /\ SameFences
  BY <1>7, <1>8, <1>12 DEF SamePages, SameFences, UsageMoves
<1>15. o = PutOf(e, k)
  BY DEF PutOf
<1>16. /\ t.goal = goal /\ t.left = left /\ t.at = "put" /\ t.env = e /\ t.key = k
       /\ t.attempt = PutOf(e, k).attempts + 1
  BY <1>2, <1>15
<1>17. /\ \A f \in Environments \ {e} :
              usage'[f].bytes = usage[f].bytes /\ usage'[f].objects = usage[f].objects
       /\ usage'[e].bytes = b /\ usage'[e].objects = x
  BY <1>7, <1>8 DEF UsageMoves
<1> HIDE DEF n, o
<1> QED
  BY <1>3, <1>4, <1>9, <1>10, <1>11, <1>12, <1>13, <1>14, <1>15, <1>16, <1>17 DEF Reserves, index, bucket

LEMMA SmallestKey ==
  ASSUME NEW S \in SUBSET Keys, S # {}
  PROVE  Min(S) \in Keys
<1>1. S \in SUBSET Nat
  BY KeysAssumption
<1> QED
  BY <1>1, MinIsLeast

------------------------------------------------------------------------------
(* The turns of a caller that moves nothing else. *)

\* A branch goes on with the same artifacts left, or with one copied.
Continues(c, t) ==
  /\ IsBranching(task[c]) /\ t \in Reads \cup Branchings
  /\ \/ t.left = task[c].left
     \/ \E k \in Keys : PutOf(Child, k).status = "committed" /\ t.left = task[c].left \ {k}
\* A purge starts, goes on to the next session of the tenant, or to its end.
Starts(c, t) ==
  /\ t \in Purges /\ t.at = "fence" /\ t.env \in Live \cup {Parent} /\ t.found \subseteq Live
Proceeds(c, t) ==
  /\ task[c] \in Purges /\ t \in Purges /\ t.found = task[c].found
  /\ \/ t.env \in t.found /\ t.at = "fence"
     \/ t.env = task[c].env /\ task[c].at = "page" /\ t.at = "commit"
Turn(c) ==
  \E t \in Tasks : /\ t = Idle \/ Continues(c, t) \/ Starts(c, t) \/ Proceeds(c, t)
                   /\ Unmoved /\ TaskMoves(c, t)

LEMMA OneTurn ==
  ASSUME Typed, NEW c \in Callers, NEW t \in Tasks, Does(c, t),
         t = Idle \/ Continues(c, t) \/ Starts(c, t) \/ Proceeds(c, t),
         UNCHANGED <<session, usage, operation, index, bucket>>
  PROVE  Typed' /\ Turn(c)
BY CallerMoves DEF Turn

\* A branching caller that is somewhere else in its loop.
LEMMA Branching ==
  ASSUME Typed, NEW c \in Callers, task[c] \in Reads \cup Branchings
  PROVE  /\ task[c].left \subseteq Keys /\ task[c].goal = "branch"
         /\ task[c] \in Reads => task[c].env = Parent /\ task[c].key \in Keys /\ task[c].attempt \in Nat \ {0}
         /\ \A l \in SUBSET Keys, a \in {"install", "copy", "read"} :
              [goal |-> "branch", at |-> a, left |-> l] \in Branchings
         /\ task[c] \in Branchings => \A l \in SUBSET Keys, a \in {"install", "copy", "read"} :
              /\ [task[c] EXCEPT !.left = l] \in Branchings
              /\ [task[c] EXCEPT !.left = l].left = l
              /\ [task[c] EXCEPT !.at = a] \in Branchings
              /\ [task[c] EXCEPT !.at = a].left = task[c].left
BY DEF Reads, Branchings

LEMMA AreTasks == \A t \in Puts \cup Copies \cup Reads \cup Branchings \cup Purges \cup Lists \cup Deletes : t \in Tasks
BY DEF Tasks

LEMMA BranchInstallMoves ==
  ASSUME Typed, NEW c \in Callers, BranchInstall(c)
  PROVE  Typed' /\ Turn(c)
<1> DEFINE t == [task[c] EXCEPT !.at = "copy"]
<1>1. task[c] # Idle /\ task[c].at = "install" /\ Does(c, t)
  BY DEF BranchInstall
<1>2. task[c] \in Branchings
  BY <1>1, TaskTypes
<1>3. t \in Branchings /\ t.left = task[c].left
  BY <1>2, Branching
<1>4. UNCHANGED <<session, usage, operation, index, bucket>>
  BY DEF BranchInstall
<1> HIDE DEF t
<1>5. Continues(c, t) /\ t \in Tasks
  BY <1>2, <1>3, AreTasks DEF Continues, IsBranching
<1> QED
  BY <1>1, <1>4, <1>5, OneTurn

LEMMA BranchLookMoves ==
  ASSUME Typed, NEW c \in Callers, BranchLook(c)
  PROVE  Typed' /\ Turn(c)
<1> DEFINE k == Min(task[c].left)
           fewer == [task[c] EXCEPT !.left = task[c].left \ {k}]
           read == [task[c] EXCEPT !.at = "read"]
           copied == operation[Child][<<"put", k>>].status = "committed"
           t == IF copied THEN fewer ELSE read
<1>1. task[c] # Idle /\ task[c].at = "copy" /\ task[c].left # {} /\ Does(c, t)
  BY DEF BranchLook
<1>2. task[c] \in Branchings
  BY <1>1, TaskTypes
<1>3. k \in Keys
  <2>1. task[c].left \subseteq Keys
    BY <1>2, Branching
  <2> QED
    BY <1>1, <2>1, SmallestKey
<1>4. /\ fewer \in Branchings /\ fewer.left = task[c].left \ {k}
      /\ read \in Branchings /\ read.left = task[c].left
  BY <1>2, Branching
<1>5. UNCHANGED <<session, usage, operation, index, bucket>>
  BY DEF BranchLook, rows, index, bucket
<1>6. copied => PutOf(Child, k).status = "committed"
  BY DEF PutOf
<1> HIDE DEF k, fewer, read, copied
<1>7. Continues(c, t) /\ t \in Tasks
  BY <1>2, <1>3, <1>4, <1>6, AreTasks DEF Continues, IsBranching
<1> HIDE DEF t
<1> QED
  BY <1>1, <1>5, <1>7, OneTurn

LEMMA GetMovesCaller ==
  ASSUME Typed, NEW e \in Environments, NEW k \in Keys, NEW r \in OperationRows,
         operation' \in [Environments -> [Names -> OperationRows]], OperationMoves(e, <<"get", k>>, r),
         NEW c \in Callers, NEW t \in Tasks, Does(c, t),
         t = Idle \/ Continues(c, t),
         UNCHANGED <<session, usage, index, bucket>>
  PROVE  Typed' /\ Turn(c)
<1>1. task' \in [Callers -> Tasks] /\ TaskMoves(c, t)
  BY TaskChanges DEF Does
<1>2. Typed'
  BY <1>1 DEF Typed, index, bucket
<1>3. Unmoved
  BY GetMoves, UsageStays DEF Unmoved, SamePages, index, bucket
<1> QED
  BY <1>1, <1>2, <1>3 DEF Turn

LEMMA GetReplyMoves ==
  ASSUME Typed, NEW c \in Callers, GetReply(c)
  PROVE  Typed' /\ Turn(c)
<1> DEFINE n == <<"get", task[c].key>>
           t == [task[c] EXCEPT !.at = "write"]
<1>1. task[c] # Idle /\ task[c].at = "get" /\ UNCHANGED <<session, usage, index, bucket>>
  BY DEF GetReply
<1>2. task[c] \in Reads /\ task[c].env = Parent /\ task[c].key \in Keys
  BY <1>1, TaskTypes, Branching
<1>3. n \in Names /\ Parent \in Environments
  BY <1>2, Operations DEF Environments
<1>4. CASE Current(Parent, n, task[c].attempt)
  <2>1. operation' = Marked(Parent, n, "committed") /\ Does(c, t)
    BY <1>2, <1>4 DEF GetReply
  <2>2. t \in Reads /\ t.left = task[c].left
    BY <1>2 DEF Reads
  <2> HIDE DEF t, n
  <2>3. t \in Tasks /\ Continues(c, t)
    BY <1>2, <2>2, AreTasks DEF Continues, IsBranching
  <2>4. PICK r \in OperationRows : /\ operation' \in [Environments -> [Names -> OperationRows]]
                                   /\ OperationMoves(Parent, n, r)
    BY <1>3, <2>1, Marking
  <2> QED
    BY <1>1, <1>2, <1>3, <2>1, <2>3, <2>4, GetMovesCaller DEF n
<1>5. CASE ~ Current(Parent, n, task[c].attempt)
  <2>1. Stops(c) /\ operation' = operation
    BY <1>2, <1>5 DEF GetReply
  <2> QED
    BY <1>1, <2>1, OneTurn, Kinds DEF Stops
<1> QED
  BY <1>4, <1>5

LEMMA GetFailsMoves ==
  ASSUME Typed, NEW c \in Callers, GetFails(c)
  PROVE  Typed' /\ Turn(c)
<1> DEFINE n == <<"get", task[c].key>>
<1>1. /\ task[c] # Idle /\ task[c].at = "get" /\ UNCHANGED <<session, usage, index, bucket>>
      /\ Unknown(task[c].env, n, task[c].attempt) /\ Does(c, Idle)
  BY DEF GetFails, Stops
<1>2. task[c] \in Reads /\ task[c].env = Parent /\ task[c].key \in Keys
  BY <1>1, TaskTypes, Branching
<1>3. n \in Names /\ Parent \in Environments
  BY <1>2, Operations DEF Environments
<1> HIDE DEF n
<1>4. CASE operation' = operation
  BY <1>1, <1>4, OneTurn, Kinds
<1>5. CASE operation' # operation
  <2>1. PICK r \in OperationRows : /\ operation' \in [Environments -> [Names -> OperationRows]]
                                   /\ OperationMoves(Parent, n, r)
    BY <1>1, <1>2, <1>3, <1>5, UnknownMoves
  <2> QED
    BY <1>1, <1>2, <1>3, <2>1, GetMovesCaller, Kinds DEF n
<1> QED
  BY <1>4, <1>5

LEMMA BranchReadMoves ==
  ASSUME Typed, NEW c \in Callers, BranchRead(c)
  PROVE  Typed' /\ Turn(c)
<1> DEFINE k == Min(task[c].left)
           n == <<"get", k>>
           t == [goal |-> "branch", left |-> task[c].left, at |-> "get", env |-> Parent, key |-> k,
                 attempt |-> operation[Parent][n].attempts + 1]
<1>1. /\ task[c] # Idle /\ task[c].at = "read" /\ k \in artifacts[Parent]
      /\ operation' = Attempted(Parent, n) /\ usage' = [usage EXCEPT ![Parent].gets = @ + 1]
      /\ Does(c, t) /\ UNCHANGED <<session, index, bucket>>
  BY DEF BranchRead, ReserveGet
<1>2. task[c] \in Branchings /\ task[c].left \subseteq Keys
  BY <1>1, TaskTypes, Branching
<1>3. k \in Keys /\ Parent \in Environments
  BY <1>1 DEF Typed, Environments
<1>4. n \in Names /\ operation[Parent][n].attempts \in Nat
  BY <1>3, Operations, OperationTypes
<1>5. t \in Reads /\ t.left = task[c].left
  BY <1>2, <1>3, <1>4 DEF Reads
<1>6. PICK u : u = [usage[Parent] EXCEPT !.gets = @ + 1]
  OBVIOUS
<1>7. /\ u \in UsageRows /\ u.page = usage[Parent].page /\ u.cursor = usage[Parent].cursor
      /\ u.complete = usage[Parent].complete /\ u.lists = usage[Parent].lists
      /\ u.fenced = usage[Parent].fenced /\ u.quiesced = usage[Parent].quiesced
      /\ u.bytes = usage[Parent].bytes /\ u.objects = usage[Parent].objects
  BY <1>3, <1>6, UsageTypes DEF UsageRows
<1>8. usage' \in [Environments -> UsageRows] /\ UsageMoves(Parent, u)
  <2>1. usage' = [usage EXCEPT ![Parent] = u]
    BY <1>1, <1>6
  <2> QED
    BY <1>3, <1>7, <2>1, UsageChanges
<1> HIDE DEF t, n, k
<1>9. PICK r \in OperationRows : /\ operation' \in [Environments -> [Names -> OperationRows]]
                                 /\ OperationMoves(Parent, n, r)
  BY <1>1, <1>3, <1>4, Attempts
<1>10. SamePuts /\ \A f \in Environments, m \in Pages : ListOf(f, m)' = ListOf(f, m) /\ DeleteOf(f, m)' = DeleteOf(f, m)
  BY <1>3, <1>9, GetMoves DEF n
<1>11. t \in Tasks /\ Continues(c, t)
  BY <1>2, <1>5, AreTasks DEF Continues, IsBranching
<1>12. task' \in [Callers -> Tasks] /\ TaskMoves(c, t)
  BY <1>1, <1>11, TaskChanges DEF Does
<1>13. Typed'
  BY <1>1, <1>8, <1>9, <1>12 DEF Typed, index, bucket
<1>14. Unmoved
  BY <1>1, <1>7, <1>8, <1>10 DEF Unmoved, SamePages, SameCharges, SameFences, UsageMoves, index, bucket
<1> QED
  BY <1>11, <1>12, <1>13, <1>14 DEF Turn

LEMMA BranchWriteMoves ==
  ASSUME Typed, NEW c \in Callers, BranchWrite(c)
  PROVE  /\ Typed' /\ session[Child] # "erased" /\ task[c] \in Reads /\ task[c].key \in Keys
         /\ Turn(c) \/ Reserves(c, Child, task[c].key, "branch", task[c].left)
<1> DEFINE k == task[c].key
           t == [goal |-> "branch", at |-> "copy", left |-> task[c].left \ {k}]
<1>1. /\ task[c] # Idle /\ task[c].at = "write" /\ session[Child] # "erased"
      /\ UNCHANGED <<session, index, bucket>>
  BY DEF BranchWrite
<1>2. task[c] \in Reads /\ task[c].left \subseteq Keys /\ k \in Keys /\ Child \in Environments
  BY <1>1, TaskTypes, Branching DEF Environments
<1>3. CASE PutOf(Child, k).status = "committed"
  <2>1. Does(c, t) /\ UNCHANGED <<usage, operation>>
    BY <1>3 DEF BranchWrite, PutOf
  <2>2. t \in Branchings /\ t.left = task[c].left \ {k}
    BY <1>2, Branching
  <2> HIDE DEF t
  <2>3. t \in Tasks /\ Continues(c, t)
    BY <1>2, <1>3, <2>2, AreTasks DEF Continues, IsBranching
  <2> QED
    BY <1>1, <1>2, <2>1, <2>3, OneTurn
<1>4. CASE PutOf(Child, k).status # "committed"
  <2>1. ReservePut(c, Child, k, "branch", task[c].left)
    BY <1>4 DEF BranchWrite, PutOf
  <2> QED
    BY <1>1, <1>2, <2>1, ReserveMoves, EnvironmentsAssumption
<1> QED
  BY <1>1, <1>2, <1>3, <1>4

LEMMA PutReserves ==
  ASSUME Typed, NEW c \in Callers, NEW k \in Keys, Put(c, k)
  PROVE  /\ Typed' /\ task[c] = Idle /\ session[Parent] = "exposed"
         /\ Reserves(c, Parent, k, "put", {})
<1>1. /\ task[c] = Idle /\ session[Parent] = "exposed" /\ ReservePut(c, Parent, k, "put", {})
      /\ UNCHANGED <<session, index, bucket>>
  BY DEF Put, Begins
<1>2. Parent \in Environments
  BY DEF Environments
<1> DEFINE none == {j \in Keys : FALSE}
<1>3. none = {} /\ none \in SUBSET Keys
  OBVIOUS
<1> HIDE DEF none
<1>4. ReservePut(c, Parent, k, "put", none)
  BY <1>1, <1>3
<1>5. Typed' /\ Reserves(c, Parent, k, "put", none)
  BY <1>1, <1>2, <1>3, <1>4, ReserveMoves
<1> QED
  BY <1>1, <1>3, <1>5

LEMMA ExpireMoves ==
  ASSUME Typed, NEW c \in Callers, NEW e \in Environments, Expire(c, e)
  PROVE  Typed' /\ Turn(c)
<1> DEFINE none == {f \in Environments : FALSE}
           t == [goal |-> "expire", at |-> "fence", env |-> e, found |-> none]
<1>1. none = {}
  OBVIOUS
<1>2. e \in Live /\ Does(c, t) /\ UNCHANGED rows /\ UNCHANGED bucket
  BY <1>1 DEF Expire
<1>3. t \in Purges /\ t.at = "fence" /\ t.env = e /\ t.found = none /\ none \subseteq Live
  BY DEF Purges
<1>4. UNCHANGED <<session, usage, operation, index, bucket>>
  BY <1>2 DEF rows, index
<1> HIDE DEF none, t
<1>5. t \in Tasks /\ Starts(c, t)
  BY <1>2, <1>3, AreTasks DEF Starts
<1> QED
  BY <1>2, <1>4, <1>5, OneTurn

LEMMA EraseMoves ==
  ASSUME Typed, NEW c \in Callers, Erase(c)
  PROVE  Typed' /\ Turn(c)
<1> DEFINE t == [goal |-> "erase", at |-> "fence", env |-> Parent, found |-> Live]
<1>1. Does(c, t) /\ UNCHANGED rows /\ UNCHANGED bucket
  BY DEF Erase
<1>2. Live \in SUBSET Environments
  BY DEF Live
<1>3. t \in Purges /\ t.at = "fence" /\ t.env = Parent /\ t.found = Live
  BY <1>2 DEF Purges, Environments
<1>4. UNCHANGED <<session, usage, operation, index, bucket>>
  BY <1>1 DEF rows, index
<1> HIDE DEF t
<1>5. t \in Tasks /\ Starts(c, t)
  BY <1>3, AreTasks DEF Starts
<1> QED
  BY <1>1, <1>4, <1>5, OneTurn

LEMMA PurgeTask ==
  ASSUME Typed, NEW c \in Callers, IsPurging(task[c])
  PROVE  /\ task[c].env \in Environments /\ task[c].goal \in {"expire", "erase"}
         /\ task[c].found \in SUBSET Environments
         /\ task[c] \in Lists \cup Deletes => task[c].attempt \in Nat
BY DEF IsPurging, Purges, Lists, Deletes

LEMMA PurgedMoves ==
  ASSUME Typed, NEW c \in Callers, Purged(c)
  PROVE  Typed' /\ Turn(c)
<1> DEFINE next == [task[c] EXCEPT !.env = Child, !.at = "fence"]
           last == [task[c] EXCEPT !.at = "commit"]
<1>1. /\ task[c] # Idle /\ task[c].at = "page"
      /\ UNCHANGED rows /\ UNCHANGED bucket
  BY DEF Purged, Paging
<1>2. /\ Does(c, Idle) \/ (Child \in task[c].found /\ Does(c, next)) \/ Does(c, last)
  BY DEF Purged, Stops
<1>3. task[c] \in Purges
  BY <1>1, TaskTypes
<1>4. /\ next \in Purges /\ next.found = task[c].found /\ next.at = "fence" /\ next.env = Child
      /\ last \in Purges /\ last.found = task[c].found /\ last.at = "commit" /\ last.env = task[c].env
  BY <1>3 DEF Purges, Environments
<1>5. UNCHANGED <<session, usage, operation, index, bucket>>
  BY <1>1 DEF rows, index
<1> HIDE DEF next, last
<1>6. /\ next \in Tasks /\ (Child \in task[c].found => Proceeds(c, next))
      /\ last \in Tasks /\ Proceeds(c, last)
  BY <1>1, <1>3, <1>4, AreTasks DEF Proceeds
<1>7. CASE Does(c, Idle)
  BY <1>5, <1>7, OneTurn, Kinds
<1>8. CASE Child \in task[c].found /\ Does(c, next)
  BY <1>5, <1>6, <1>8, OneTurn
<1>9. CASE Does(c, last)
  BY <1>5, <1>6, <1>9, OneTurn
<1> QED
  BY <1>2, <1>7, <1>8, <1>9
------------------------------------------------------------------------------
(* The steps of uploads: a reply, a failure, an upload that lands late. *)

\* An object is stored, by the caller c for the first two.
Stores(e, k) == \A f \in Environments : objects'[f] = IF f = e THEN objects[f] \cup {k} ELSE objects[f]
Commits(c) ==
  LET e == task[c].env
      k == task[c].key
  IN  /\ task[c] \in Puts \cup Copies /\ session[e] # "erased"
      /\ Stores(e, k)
      /\ SamePages /\ SameCharges /\ SameFences
      /\ UNCHANGED <<session, aliases, checkpoint, wire>>
      /\ \/ /\ PutOf(e, k).status = "in_flight" /\ PutOf(e, k).attempts = task[c].attempt
            /\ \E r : /\ r.status = "committed" /\ r.attempts = PutOf(e, k).attempts
                      /\ \A f \in Environments, j \in Keys :
                           PutOf(f, j)' = IF f = e /\ j = k THEN r ELSE PutOf(f, j)
            /\ \A f \in Environments :
                 artifacts'[f] = IF f = e THEN artifacts[f] \cup {k} ELSE artifacts[f]
            /\ \E t \in Tasks : /\ IF task[c] \in Copies
                                   THEN t \in Branchings /\ t.left = task[c].left \ {k}
                                   ELSE t = Idle
                                /\ TaskMoves(c, t)
         \/ SamePuts /\ artifacts' = artifacts /\ TaskMoves(c, Idle)
\* The caller c gives up; an upload it was sending may still land.
GivesUp(c) ==
  /\ SamePages /\ SameCharges /\ SameFences
  /\ UNCHANGED <<session, artifacts, aliases, checkpoint, objects>>
  /\ TaskMoves(c, Idle)
  /\ wire \subseteq wire' /\ \A r \in wire' : r \in wire \/ (r \in Uploads /\ Sends(c, r))
  /\ \/ SamePuts
     \/ \E e \in Environments, k \in Keys : \E r :
          /\ PutOf(e, k).status = "in_flight"
          /\ r.status = "unknown" /\ r.attempts = PutOf(e, k).attempts
          /\ \A f \in Environments, j \in Keys :
               PutOf(f, j)' = IF f = e /\ j = k THEN r ELSE PutOf(f, j)

LEMMA UploadTask ==
  ASSUME Typed, NEW c \in Callers, task[c] \in Puts \cup Copies
  PROVE  /\ task[c].env \in Environments /\ task[c].key \in Keys /\ task[c].attempt \in Nat \ {0}
         /\ task[c].left \in SUBSET Keys
         /\ task[c].goal = "branch" <=> task[c] \in Copies
         /\ task[c] \in Copies => task[c].env = Child
         /\ task[c] \in Puts => task[c].env = Parent
BY EnvironmentsAssumption DEF Puts, Copies, Environments

LEMMA UploadSends ==
  ASSUME Typed, NEW c \in Callers, task[c] # Idle
  PROVE  \A r : r \in Upload(task[c]) <=> r \in Uploads /\ Sends(c, r)
<1>1. CASE task[c] \in Puts \cup Copies
  <2> DEFINE u == [env |-> task[c].env, key |-> task[c].key, attempt |-> task[c].attempt]
  <2>1. task[c].at = "put"
    BY <1>1 DEF Puts, Copies
  <2>2. Upload(task[c]) = {u}
    BY <2>1 DEF Upload
  <2>3. u \in Uploads /\ Sends(c, u)
    BY <1>1, UploadTask DEF Uploads, Sends
  <2>4. ASSUME NEW r \in Uploads, Sends(c, r) PROVE r = u
    BY <2>4 DEF Uploads, Sends
  <2> HIDE DEF u
  <2> QED
    BY <2>2, <2>3, <2>4
<1>2. CASE task[c] \notin Puts \cup Copies
  BY <1>2, TaskTypes DEF Upload, Sends
<1> QED
  BY <1>1, <1>2

LEMMA PutReplyMoves ==
  ASSUME Typed, NEW c \in Callers, PutReply(c)
  PROVE  Typed' /\ Commits(c)
<1> DEFINE e == task[c].env
           k == task[c].key
           n == <<"put", k>>
           t == [goal |-> "branch", at |-> "copy", left |-> task[c].left \ {k}]
<1>1. /\ task[c] # Idle /\ task[c].at = "put" /\ session[e] # "erased"
      /\ objects' = [objects EXCEPT ![e] = @ \cup {k}]
      /\ UNCHANGED <<session, usage, aliases, checkpoint, wire>>
  BY DEF PutReply
<1>2. /\ task[c] \in Puts \cup Copies /\ e \in Environments /\ k \in Keys
      /\ task[c].left \in SUBSET Keys
      /\ task[c].goal = "branch" <=> task[c] \in Copies
  BY <1>1, TaskTypes, UploadTask
<1>3. n \in Names /\ operation[e][n] = PutOf(e, k)
  BY <1>2, Operations DEF PutOf
<1>4. objects' \in [Environments -> SUBSET Keys] /\ Stores(e, k)
  BY <1>1, <1>2 DEF Typed, Stores
<1>5. SameCharges /\ SameFences
  BY <1>1, UsageStays
<1>6. CASE Current(e, n, task[c].attempt)
  <2>1. /\ operation' = Marked(e, n, "committed")
        /\ artifacts' = [artifacts EXCEPT ![e] = @ \cup {k}]
        /\ IF task[c].goal = "branch" THEN Does(c, t) ELSE Does(c, Idle)
    BY <1>6 DEF PutReply, Stops
  <2>2. t \in Branchings /\ t.left = task[c].left \ {k}
    BY <1>2 DEF Branchings
  <2> HIDE DEF t
  <2> DEFINE u == IF task[c].goal = "branch" THEN t ELSE Idle
  <2>3. u \in Tasks /\ Does(c, u)
    BY <2>1, <2>2, AreTasks, Kinds
  <2>4. IF task[c] \in Copies THEN u \in Branchings /\ u.left = task[c].left \ {k} ELSE u = Idle
    BY <1>2, <2>2
  <2> HIDE DEF u
  <2>5. task' \in [Callers -> Tasks] /\ TaskMoves(c, u)
    BY <2>3, TaskChanges DEF Does
  <2> HIDE DEF n
  <2>6. PICK r \in OperationRows :
          /\ r.status = "committed" /\ r.attempts = operation[e][n].attempts
          /\ operation' \in [Environments -> [Names -> OperationRows]]
          /\ OperationMoves(e, n, r)
    BY <1>2, <1>3, <2>1, Marking
  <2>7. /\ \A f \in Environments, j \in Keys :
              PutOf(f, j)' = IF f = e /\ j = k THEN r ELSE PutOf(f, j)
        /\ \A f \in Environments, m \in Pages :
              ListOf(f, m)' = ListOf(f, m) /\ DeleteOf(f, m)' = DeleteOf(f, m)
    BY <1>2, <2>6, PutMoves DEF n
  <2>8. /\ artifacts' \in [Environments -> SUBSET Keys]
        /\ \A f \in Environments : artifacts'[f] = IF f = e THEN artifacts[f] \cup {k} ELSE artifacts[f]
    BY <1>2, <2>1 DEF Typed
  <2>9. Typed'
    BY <1>1, <1>4, <2>5, <2>6, <2>8 DEF Typed
  <2>10. SamePages
    BY <1>1, <2>7 DEF SamePages
  <2>11. PutOf(e, k).status = "in_flight" /\ PutOf(e, k).attempts = task[c].attempt
    BY <1>3, <1>6 DEF Current
  <2>12. Commits(c)
    BY <1>1, <1>2, <1>3, <1>4, <1>5, <2>3, <2>4, <2>5, <2>6, <2>7, <2>8, <2>10, <2>11 DEF Commits
  <2> QED
    BY <2>9, <2>12
<1>7. CASE ~ Current(e, n, task[c].attempt)
  <2>1. Does(c, Idle) /\ UNCHANGED <<operation, artifacts>>
    BY <1>7 DEF PutReply, Stops
  <2>2. task' \in [Callers -> Tasks] /\ TaskMoves(c, Idle)
    BY <2>1, TaskChanges, Kinds DEF Does
  <2>3. Typed'
    BY <1>1, <1>4, <2>1, <2>2 DEF Typed
  <2>4. SamePuts /\ SamePages
    BY <1>1, <2>1, NothingMoves DEF SamePages
  <2> HIDE DEF n
  <2> QED
    BY <1>1, <1>2, <1>4, <1>5, <2>1, <2>2, <2>3, <2>4 DEF Commits
<1> QED
  BY <1>6, <1>7

LEMMA AbandonMoves ==
  ASSUME Typed, NEW c \in Callers, task[c] # Idle, Abandons(c), Stops(c)
  PROVE  /\ wire' \in SUBSET Uploads /\ task' \in [Callers -> Tasks] /\ TaskMoves(c, Idle)
         /\ wire \subseteq wire' /\ \A r \in wire' : r \in wire \/ (r \in Uploads /\ Sends(c, r))
<1>1. wire \subseteq Uploads
  BY DEF Typed
<1>2. \A r \in Upload(task[c]) : r \in Uploads /\ Sends(c, r)
  BY UploadSends
<1>3. task' \in [Callers -> Tasks] /\ TaskMoves(c, Idle)
  BY TaskChanges, Kinds DEF Stops, Does
<1>4. wire' = wire \/ wire' = wire \cup Upload(task[c])
  BY DEF Abandons
<1> QED
  BY <1>1, <1>2, <1>3, <1>4

LEMMA LoseMoves ==
  ASSUME Typed, NEW c \in Callers, Lose(c)
  PROVE  Typed' /\ GivesUp(c)
<1>1. /\ task[c] # Idle /\ Abandons(c) /\ Stops(c)
      /\ UNCHANGED <<session, usage, operation, artifacts, aliases, checkpoint, objects>>
  BY DEF Lose, rows
<1>2. /\ wire' \in SUBSET Uploads /\ task' \in [Callers -> Tasks] /\ TaskMoves(c, Idle)
      /\ wire \subseteq wire' /\ \A r \in wire' : r \in wire \/ (r \in Uploads /\ Sends(c, r))
  BY <1>1, AbandonMoves
<1>3. Typed'
  BY <1>1, <1>2 DEF Typed
<1>4. SamePuts /\ SamePages /\ SameCharges /\ SameFences
  BY <1>1, NothingMoves, UsageStays DEF SamePages
<1> QED
  BY <1>1, <1>2, <1>3, <1>4 DEF GivesUp

LEMMA PutFailsMoves ==
  ASSUME Typed, NEW c \in Callers, PutFails(c)
  PROVE  Typed' /\ GivesUp(c)
<1> DEFINE e == task[c].env
           k == task[c].key
           n == <<"put", k>>
<1>1. /\ task[c] # Idle /\ task[c].at = "put" /\ Abandons(c) /\ Stops(c)
      /\ Unknown(e, n, task[c].attempt)
      /\ UNCHANGED <<session, usage, artifacts, aliases, checkpoint, objects>>
  BY DEF PutFails, index
<1>2. e \in Environments /\ k \in Keys
  BY <1>1, TaskTypes, UploadTask
<1>3. n \in Names /\ operation[e][n] = PutOf(e, k)
  BY <1>2, Operations DEF PutOf
<1>4. /\ wire' \in SUBSET Uploads /\ task' \in [Callers -> Tasks] /\ TaskMoves(c, Idle)
      /\ wire \subseteq wire' /\ \A r \in wire' : r \in wire \/ (r \in Uploads /\ Sends(c, r))
  BY <1>1, AbandonMoves
<1>5. SameCharges /\ SameFences
  BY <1>1, UsageStays
<1> HIDE DEF n
<1>6. /\ operation' \in [Environments -> [Names -> OperationRows]]
      /\ \/ operation' = operation
         \/ Current(e, n, task[c].attempt) /\ \E r \in OperationRows :
              /\ r.status = "unknown" /\ r.attempts = operation[e][n].attempts
              /\ OperationMoves(e, n, r)
  BY <1>1, <1>2, <1>3, UnknownMoves
<1>7. Typed'
  BY <1>1, <1>4, <1>6 DEF Typed
<1>8. CASE operation' = operation
  <2>1. SamePuts /\ SamePages
    BY <1>1, <1>8, NothingMoves DEF SamePages
  <2> QED
    BY <1>1, <1>4, <1>5, <1>7, <2>1 DEF GivesUp
<1>9. CASE operation' # operation
  <2>1. PICK r \in OperationRows :
          /\ PutOf(e, k).status = "in_flight"
          /\ r.status = "unknown" /\ r.attempts = PutOf(e, k).attempts /\ OperationMoves(e, n, r)
    BY <1>3, <1>6, <1>9 DEF Current
  <2>2. /\ \A f \in Environments, j \in Keys :
              PutOf(f, j)' = IF f = e /\ j = k THEN r ELSE PutOf(f, j)
        /\ \A f \in Environments, m \in Pages :
              ListOf(f, m)' = ListOf(f, m) /\ DeleteOf(f, m)' = DeleteOf(f, m)
    BY <1>2, <2>1, PutMoves DEF n
  <2>3. SamePages
    BY <1>1, <2>2 DEF SamePages
  <2> HIDE DEF e, k
  <2>4. \E f \in Environments, j \in Keys : \E q :
          /\ PutOf(f, j).status = "in_flight"
          /\ q.status = "unknown" /\ q.attempts = PutOf(f, j).attempts
          /\ \A g \in Environments, i \in Keys :
               PutOf(g, i)' = IF g = f /\ i = j THEN q ELSE PutOf(g, i)
    BY <1>2, <2>1, <2>2
  <2> QED
    BY <1>1, <1>4, <1>5, <1>7, <2>3, <2>4 DEF GivesUp
<1> QED
  BY <1>8, <1>9

LEMMA LandMoves ==
  ASSUME Typed, NEW r \in wire, Land(r)
  PROVE  /\ Typed' /\ r \in Uploads /\ r.env \in Environments /\ r.key \in Keys
         /\ Stores(r.env, r.key) /\ wire' = wire \ {r}
         /\ UNCHANGED <<session, usage, operation, artifacts, aliases, checkpoint, task>>
<1>1. /\ objects' = [objects EXCEPT ![r.env] = @ \cup {r.key}] /\ wire' = wire \ {r}
      /\ UNCHANGED <<session, usage, operation, artifacts, aliases, checkpoint, task>>
  BY DEF Land, rows
<1>2. r \in Uploads /\ r.env \in Environments /\ r.key \in Keys
  BY DEF Typed, Uploads
<1>3. objects' \in [Environments -> SUBSET Keys] /\ Stores(r.env, r.key)
  BY <1>1, <1>2 DEF Typed, Stores
<1> QED
  BY <1>1, <1>2, <1>3 DEF Typed
------------------------------------------------------------------------------
(* The steps of a branch and of the erasure that move sessions or rows. *)

SameOperations == SamePuts /\ SamePages /\ SameCharges /\ SameFences

LEMMA OperationsStay ==
  ASSUME UNCHANGED <<usage, operation>>
  PROVE  SameOperations
BY NothingMoves, UsageStays DEF SamePages, SameOperations

LEMMA BranchBeginMoves ==
  ASSUME Typed, NEW c \in Callers, BranchBegin(c)
  PROVE  /\ Typed' /\ SameOperations /\ checkpoint # {}
         /\ session[Child] \in {"none", "pending"} /\ session'[Child] = "pending"
         /\ session'[Parent] = session[Parent]
         /\ UNCHANGED <<usage, operation, artifacts, aliases, checkpoint, objects, wire>>
         /\ \E t \in Branchings : t.left = checkpoint /\ TaskMoves(c, t)
<1> DEFINE t == [goal |-> "branch", at |-> "install", left |-> checkpoint]
<1>1. /\ checkpoint # {} /\ session[Child] \in {"none", "pending"}
      /\ session' = [session EXCEPT ![Child] = "pending"] /\ Does(c, t)
      /\ UNCHANGED <<usage, operation, artifacts, aliases, checkpoint, objects, wire>>
  BY DEF BranchBegin, index, bucket
<1>2. t \in Branchings /\ t.left = checkpoint
  BY DEF Branchings, Typed
<1>3. /\ session' \in [Environments -> {"none", "pending", "exposed", "erased"}]
      /\ session'[Child] = "pending" /\ session'[Parent] = session[Parent]
  BY <1>1, EnvironmentsAssumption DEF Typed, Environments
<1> HIDE DEF t
<1>4. task' \in [Callers -> Tasks] /\ TaskMoves(c, t)
  BY <1>1, <1>2, AreTasks, TaskChanges DEF Does
<1>5. Typed'
  BY <1>1, <1>3, <1>4 DEF Typed
<1> QED
  BY <1>1, <1>2, <1>3, <1>4, <1>5, OperationsStay

LEMMA BranchFinishMoves ==
  ASSUME Typed, NEW c \in Callers, BranchFinish(c)
  PROVE  /\ Typed' /\ SameOperations
         /\ session[Child] = "pending" /\ session'[Child] = "exposed"
         /\ session'[Parent] = session[Parent]
         /\ task[c] \in Branchings /\ task[c].left = {} /\ aliases' = checkpoint
         /\ UNCHANGED <<usage, operation, artifacts, checkpoint, objects, wire>>
         /\ TaskMoves(c, Idle)
<1>1. /\ task[c] # Idle /\ task[c].at = "copy" /\ task[c].left = {}
      /\ session[Child] = "pending" /\ aliases' = checkpoint
      /\ session' = [session EXCEPT ![Child] = "exposed"] /\ Does(c, Idle)
      /\ UNCHANGED <<usage, operation, artifacts, checkpoint, objects, wire>>
  BY DEF BranchFinish, bucket, Stops
<1>2. /\ session' \in [Environments -> {"none", "pending", "exposed", "erased"}]
      /\ session'[Child] = "exposed" /\ session'[Parent] = session[Parent]
  BY <1>1, EnvironmentsAssumption DEF Typed, Environments
<1>3. task' \in [Callers -> Tasks] /\ TaskMoves(c, Idle)
  BY <1>1, Kinds, TaskChanges DEF Does
<1>4. Typed'
  BY <1>1, <1>2, <1>3 DEF Typed
<1> QED
  BY <1>1, <1>2, <1>3, <1>4, TaskTypes, OperationsStay

LEMMA CheckpointMoves ==
  ASSUME Typed, Checkpoint
  PROVE  /\ Typed' /\ SameOperations /\ checkpoint = {}
         /\ UNCHANGED <<session, usage, operation, artifacts, aliases, objects, wire, task>>
<1>1. /\ checkpoint = {} /\ checkpoint' = artifacts[Parent]
      /\ UNCHANGED <<session, usage, operation, artifacts, aliases, objects, wire, task>>
  BY DEF Checkpoint, bucket
<1>2. checkpoint' \in SUBSET Keys
  BY <1>1 DEF Typed, Environments
<1> QED
  BY <1>1, <1>2, OperationsStay DEF Typed

LEMMA EraseRowsMoves ==
  ASSUME Typed, NEW c \in Callers, EraseRows(c)
  PROVE  /\ Typed'
         /\ \A e \in Environments :
              /\ session'[e] = IF e \in Live THEN "erased" ELSE session[e]
              /\ usage'[e] = NoUsage /\ artifacts'[e] = {}
              /\ \A n \in Names : operation'[e][n] = NoOperation
         /\ aliases' = {} /\ checkpoint' = {} /\ UNCHANGED <<objects, wire>>
         /\ TaskMoves(c, Idle)
<1>1. /\ session' = [e \in Environments |-> IF e \in Live THEN "erased" ELSE session[e]]
      /\ operation' = [e \in Environments |-> [n \in Names |-> NoOperation]]
      /\ usage' = [e \in Environments |-> NoUsage]
      /\ artifacts' = [e \in Environments |-> {}]
      /\ aliases' = {} /\ checkpoint' = {}
      /\ Does(c, Idle) /\ UNCHANGED <<objects, wire>>
  BY DEF EraseRows, Stops, bucket
<1>2. task' \in [Callers -> Tasks] /\ TaskMoves(c, Idle)
  BY <1>1, TaskChanges, Kinds DEF Does
<1>3. session' \in [Environments -> {"none", "pending", "exposed", "erased"}]
  BY <1>1 DEF Typed
<1>4. /\ operation' \in [Environments -> [Names -> OperationRows]]
      /\ usage' \in [Environments -> UsageRows] /\ artifacts' \in [Environments -> SUBSET Keys]
      /\ aliases' \in SUBSET Keys /\ checkpoint' \in SUBSET Keys
  BY <1>1, NoOperationIsTyped
<1> QED
  BY <1>1, <1>2, <1>3, <1>4 DEF Typed

------------------------------------------------------------------------------
(* The steps of a purge.  Pages are listed and deleted in turn, and as     *)
(* many listings are allowed as there are pages.                           *)

CountedAt(e) ==
  LET p == usage[e].page IN
  /\ p <= usage[e].lists /\ usage[e].lists <= MaxLists
  /\ ListOf(e, p).status # "none" => p < usage[e].lists
  /\ \A m \in Pages : m > p => ListOf(e, m).status = "none"
  /\ \A m \in Pages : DeleteOf(e, m).status \in {"in_flight", "unknown"} =>
       m = p /\ ListOf(e, p).status = "committed" /\ ListOf(e, p).page.keys # {}
PagesCounted == \A e \in Environments : CountedAt(e)

LEMMA CurrentPage ==
  ASSUME Typed, PagesCounted, NEW e \in Environments
  PROVE  /\ usage[e].page \in Pages /\ usage[e].page \in Nat /\ MaxLists \in Nat
         /\ ListName(e) \in Names /\ DeleteName(e) \in Names
         /\ ListName(e) = <<"list", usage[e].page>> /\ DeleteName(e) = <<"delete", usage[e].page>>
         /\ operation[e][ListName(e)] = ListOf(e, usage[e].page)
         /\ operation[e][DeleteName(e)] = DeleteOf(e, usage[e].page)
         /\ Listed(e) <=> ListOf(e, usage[e].page).status = "committed"
         /\ PageOf(e) = ListOf(e, usage[e].page).page /\ PageOf(e) \in PageRecords
<1>1. MaxLists \in Nat
  BY BudgetAssumption
<1>2. /\ usage[e].page <= usage[e].lists /\ usage[e].lists <= MaxLists
      /\ usage[e].page \in Nat /\ usage[e].lists \in Nat
  BY UsageTypes DEF PagesCounted, CountedAt
<1>3. usage[e].page \in Pages
  BY <1>1, <1>2 DEF Pages
<1>4. ListName(e) \in Names /\ DeleteName(e) \in Names
  BY <1>3, Operations DEF ListName, DeleteName
<1>5. /\ ListName(e) = <<"list", usage[e].page>> /\ DeleteName(e) = <<"delete", usage[e].page>>
      /\ operation[e][ListName(e)] = ListOf(e, usage[e].page)
      /\ operation[e][DeleteName(e)] = DeleteOf(e, usage[e].page)
  BY DEF ListName, DeleteName, ListOf, DeleteOf
<1>6. /\ Listed(e) <=> ListOf(e, usage[e].page).status = "committed"
      /\ PageOf(e) = ListOf(e, usage[e].page).page
  BY <1>5 DEF Listed, PageOf
<1>7. PageOf(e) \in PageRecords
  BY <1>4, OperationTypes DEF PageOf
<1> QED
  BY <1>1, <1>2, <1>3, <1>4, <1>5, <1>6, <1>7

\* What a purge leaves alone, and who goes on with it.
PurgeTurn(c) ==
  /\ IsPurging(task[c]) /\ session[task[c].env] # "erased"
  /\ SamePuts /\ SameCharges
  /\ UNCHANGED <<session, artifacts, aliases, checkpoint, wire>>
  /\ \A e \in Environments : objects'[e] \subseteq objects[e]
  /\ \E t \in Tasks :
       /\ TaskMoves(c, t)
       /\ t = Idle \/ (IsPurging(t) /\ t.env = task[c].env /\ t.found = task[c].found)

LEMMA FenceMoves ==
  ASSUME Typed, NEW c \in Callers, Fence(c)
  PROVE  /\ Typed' /\ PurgeTurn(c) /\ SamePages /\ objects' = objects
         /\ \A f \in Environments :
              /\ usage'[f].fenced = (f = task[c].env \/ usage[f].fenced)
              /\ usage'[f].quiesced = usage[f].quiesced
         /\ \E t \in Purges : t.env = task[c].env /\ t.found = task[c].found /\ t.at = "evidence" /\ TaskMoves(c, t)
<1> DEFINE e == task[c].env
           t == [task[c] EXCEPT !.at = "evidence"]
<1>1. /\ task[c] # Idle /\ task[c].at = "fence" /\ session[e] # "erased"
      /\ usage' = [usage EXCEPT ![e].fenced = TRUE] /\ Does(c, t)
      /\ UNCHANGED <<session, operation, artifacts, aliases, checkpoint, objects, wire>>
  BY DEF Fence, index, bucket
<1>2. task[c] \in Purges /\ IsPurging(task[c])
  BY <1>1, TaskTypes DEF IsPurging
<1>3. e \in Environments
  BY <1>2, PurgeTask
<1>4. t \in Purges /\ t.at = "evidence" /\ t.env = e /\ t.found = task[c].found
  BY <1>2 DEF Purges
<1>5. PICK u : u = [usage[e] EXCEPT !.fenced = TRUE]
  OBVIOUS
<1>6. /\ u \in UsageRows /\ u.page = usage[e].page /\ u.cursor = usage[e].cursor
      /\ u.complete = usage[e].complete /\ u.lists = usage[e].lists
      /\ u.fenced = TRUE /\ u.quiesced = usage[e].quiesced
      /\ u.bytes = usage[e].bytes /\ u.objects = usage[e].objects
  BY <1>3, <1>5, UsageTypes DEF UsageRows
<1>7. usage' \in [Environments -> UsageRows] /\ UsageMoves(e, u)
  <2>1. usage' = [usage EXCEPT ![e] = u]
    BY <1>1, <1>5
  <2> QED
    BY <1>3, <1>6, <2>1, UsageChanges
<1> HIDE DEF t
<1>8. task' \in [Callers -> Tasks] /\ TaskMoves(c, t) /\ t \in Tasks
  BY <1>1, <1>4, AreTasks, TaskChanges DEF Does
<1>9. Typed'
  BY <1>1, <1>7, <1>8 DEF Typed
<1>10. SamePuts /\ SamePages /\ SameCharges
  BY <1>1, <1>6, <1>7, NothingMoves DEF SamePages, SameCharges, UsageMoves
<1>11. \A f \in Environments :
         /\ usage'[f].fenced = (f = e \/ usage[f].fenced)
         /\ usage'[f].quiesced = usage[f].quiesced
  <2>1. \A f \in Environments : usage[f].fenced \in BOOLEAN
    BY UsageTypes
  <2> QED
    BY <1>6, <1>7, <2>1 DEF UsageMoves
<1>12. PurgeTurn(c)
  BY <1>1, <1>2, <1>4, <1>8, <1>10 DEF PurgeTurn, IsPurging
<1> QED
  BY <1>1, <1>4, <1>8, <1>9, <1>10, <1>11, <1>12

LEMMA EvidenceMoves ==
  ASSUME Typed, NEW c \in Callers, Evidence(c)
  PROVE  /\ Typed' /\ PurgeTurn(c) /\ SamePages /\ objects' = objects
         /\ task[c] \in Purges /\ task[c].at = "evidence"
         /\ \E brought \in BOOLEAN :
              /\ brought => Quiet(task[c].env)
              /\ \A f \in Environments :
                   /\ usage'[f].fenced = usage[f].fenced
                   /\ usage'[f].quiesced = (usage[f].quiesced \/ (f = task[c].env /\ brought))
         /\ \E t \in Tasks :
              /\ TaskMoves(c, t)
              /\ \/ t = Idle
                 \/ /\ t \in Purges /\ t.env = task[c].env /\ t.found = task[c].found /\ t.at = "page"
                    /\ ~ Unresolved(task[c].env) \/ usage'[task[c].env].quiesced
<1> DEFINE e == task[c].env
           t == [task[c] EXCEPT !.at = "page"]
<1>1. PICK brought \in BOOLEAN :
        /\ task[c] # Idle /\ task[c].at = "evidence" /\ session[e] # "erased"
        /\ brought => Quiet(e)
        /\ usage' = [usage EXCEPT ![e].quiesced = @ \/ brought]
        /\ IF Unresolved(e) /\ ~usage'[e].quiesced THEN Does(c, Idle) ELSE Does(c, t)
        /\ UNCHANGED <<session, operation, artifacts, aliases, checkpoint, objects, wire>>
  BY DEF Evidence, Stops, index, bucket
<1>2. task[c] \in Purges /\ IsPurging(task[c])
  BY <1>1, TaskTypes DEF IsPurging
<1>3. e \in Environments
  BY <1>2, PurgeTask
<1>4. t \in Purges /\ t.at = "page" /\ t.env = e /\ t.found = task[c].found
  BY <1>2 DEF Purges
<1>5. PICK q \in BOOLEAN : q = (usage[e].quiesced \/ brought)
  BY <1>3, UsageTypes
<1>6. PICK u : u = [usage[e] EXCEPT !.quiesced = q]
  OBVIOUS
<1>7. /\ u \in UsageRows /\ u.page = usage[e].page /\ u.cursor = usage[e].cursor
      /\ u.complete = usage[e].complete /\ u.lists = usage[e].lists
      /\ u.fenced = usage[e].fenced /\ u.quiesced = q
      /\ u.bytes = usage[e].bytes /\ u.objects = usage[e].objects
  BY <1>3, <1>6, UsageTypes DEF UsageRows
<1>8. usage' \in [Environments -> UsageRows] /\ UsageMoves(e, u)
  <2>1. usage' = [usage EXCEPT ![e] = u]
    BY <1>1, <1>5, <1>6
  <2> QED
    BY <1>3, <1>7, <2>1, UsageChanges
<1> HIDE DEF t
<1>9. PICK s \in Tasks : /\ Does(c, s)
                         /\ s = Idle \/ (s = t /\ (~ Unresolved(e) \/ usage'[e].quiesced))
  BY <1>1, <1>4, AreTasks, Kinds
<1>10. task' \in [Callers -> Tasks] /\ TaskMoves(c, s)
  BY <1>9, TaskChanges DEF Does
<1>11. Typed'
  BY <1>1, <1>8, <1>10 DEF Typed
<1>12. SamePuts /\ SamePages /\ SameCharges
  BY <1>1, <1>7, <1>8, NothingMoves DEF SamePages, SameCharges, UsageMoves
<1>13. \A f \in Environments :
         /\ usage'[f].fenced = usage[f].fenced
         /\ usage'[f].quiesced = (usage[f].quiesced \/ (f = e /\ brought))
  <2>1. \A f \in Environments : usage[f].quiesced \in BOOLEAN
    BY UsageTypes
  <2> QED
    BY <1>5, <1>7, <1>8, <2>1 DEF UsageMoves
<1>14. PurgeTurn(c)
  BY <1>1, <1>2, <1>4, <1>9, <1>10, <1>12 DEF PurgeTurn, IsPurging
<1> QED
  BY <1>1, <1>2, <1>4, <1>9, <1>10, <1>11, <1>12, <1>13, <1>14

\* A page operation moves nothing but its own row.
LEMMA ListRowMoves ==
  ASSUME Typed, PagesCounted, NEW e \in Environments, operation' = Attempted(e, ListName(e))
  PROVE  /\ operation' \in [Environments -> [Names -> OperationRows]] /\ SamePuts
         /\ \E r \in OperationRows :
              /\ r.status = "in_flight" /\ r.attempts = ListOf(e, usage[e].page).attempts + 1
              /\ \A f \in Environments, m \in Pages :
                   /\ ListOf(f, m)' = IF f = e /\ m = usage[e].page THEN r ELSE ListOf(f, m)
                   /\ DeleteOf(f, m)' = DeleteOf(f, m)
<1>1. /\ ListName(e) \in Names /\ usage[e].page \in Pages
      /\ ListName(e) = <<"list", usage[e].page>>
      /\ operation[e][ListName(e)] = ListOf(e, usage[e].page)
  BY CurrentPage
<1>2. PICK r \in OperationRows :
        /\ r.status = "in_flight" /\ r.attempts = operation[e][ListName(e)].attempts + 1
        /\ operation' \in [Environments -> [Names -> OperationRows]]
        /\ OperationMoves(e, ListName(e), r)
  BY <1>1, Attempts
<1>3. /\ SamePuts
      /\ \A f \in Environments, m \in Pages :
           /\ ListOf(f, m)' = IF f = e /\ m = usage[e].page THEN r ELSE ListOf(f, m)
           /\ DeleteOf(f, m)' = DeleteOf(f, m)
  <2> DEFINE p == usage[e].page
  <2>1. p \in Pages /\ OperationMoves(e, <<"list", p>>, r)
    BY <1>1, <1>2
  <2> HIDE DEF p
  <2>2. /\ SamePuts
        /\ \A f \in Environments, m \in Pages :
             /\ ListOf(f, m)' = IF f = e /\ m = p THEN r ELSE ListOf(f, m)
             /\ DeleteOf(f, m)' = DeleteOf(f, m)
    BY <2>1, ListMoves
  <2> QED
    BY <2>2 DEF p
<1> QED
  BY <1>1, <1>2, <1>3

LEMMA DeleteRowMoves ==
  ASSUME Typed, PagesCounted, NEW e \in Environments, operation' = Attempted(e, DeleteName(e))
  PROVE  /\ operation' \in [Environments -> [Names -> OperationRows]] /\ SamePuts
         /\ \E r \in OperationRows :
              /\ r.status = "in_flight" /\ r.attempts = DeleteOf(e, usage[e].page).attempts + 1
              /\ \A f \in Environments, m \in Pages :
                   /\ DeleteOf(f, m)' = IF f = e /\ m = usage[e].page THEN r ELSE DeleteOf(f, m)
                   /\ ListOf(f, m)' = ListOf(f, m)
<1>1. /\ DeleteName(e) \in Names /\ usage[e].page \in Pages
      /\ DeleteName(e) = <<"delete", usage[e].page>>
      /\ operation[e][DeleteName(e)] = DeleteOf(e, usage[e].page)
  BY CurrentPage
<1>2. PICK r \in OperationRows :
        /\ r.status = "in_flight" /\ r.attempts = operation[e][DeleteName(e)].attempts + 1
        /\ operation' \in [Environments -> [Names -> OperationRows]]
        /\ OperationMoves(e, DeleteName(e), r)
  BY <1>1, Attempts
<1>3. /\ SamePuts
      /\ \A f \in Environments, m \in Pages :
           /\ DeleteOf(f, m)' = IF f = e /\ m = usage[e].page THEN r ELSE DeleteOf(f, m)
           /\ ListOf(f, m)' = ListOf(f, m)
  <2> DEFINE p == usage[e].page
  <2>1. p \in Pages /\ OperationMoves(e, <<"delete", p>>, r)
    BY <1>1, <1>2
  <2> HIDE DEF p
  <2>2. /\ SamePuts
        /\ \A f \in Environments, m \in Pages :
             /\ DeleteOf(f, m)' = IF f = e /\ m = p THEN r ELSE DeleteOf(f, m)
             /\ ListOf(f, m)' = ListOf(f, m)
    BY <2>1, DeleteMoves
  <2> QED
    BY <2>2 DEF p
<1> QED
  BY <1>1, <1>2, <1>3

ListReserved(c) ==
  LET e == task[c].env
      p == usage[e].page
  IN  /\ task[c] \in Purges /\ task[c].at = "page"
      /\ SameFences /\ objects' = objects
      /\ ~ usage[e].complete /\ ListOf(e, p).status # "committed" /\ usage[e].lists < MaxLists
      /\ \A f \in Environments :
           /\ usage'[f].page = usage[f].page /\ usage'[f].cursor = usage[f].cursor
           /\ usage'[f].complete = usage[f].complete
           /\ usage'[f].lists = IF f = e THEN usage[f].lists + 1 ELSE usage[f].lists
      /\ \E r \in OperationRows :
           /\ r.status = "in_flight" /\ r.attempts = ListOf(e, p).attempts + 1
           /\ \A f \in Environments, m \in Pages :
                /\ ListOf(f, m)' = IF f = e /\ m = p THEN r ELSE ListOf(f, m)
                /\ DeleteOf(f, m)' = DeleteOf(f, m)
      /\ \E t \in Lists :
           /\ TaskMoves(c, t) /\ t.env = e /\ t.found = task[c].found
           /\ t.name = <<"list", p>> /\ t.attempt = ListOf(e, p).attempts + 1 /\ t.cursor = usage[e].cursor

LEMMA ReserveListMoves ==
  ASSUME Typed, PagesCounted, NEW c \in Callers, ReserveList(c)
  PROVE  Typed' /\ PurgeTurn(c) /\ ListReserved(c)
<1> DEFINE e == task[c].env
           n == ListName(e)
           t == [goal |-> task[c].goal, at |-> "list", env |-> e, found |-> task[c].found,
                 name |-> n, attempt |-> operation[e][n].attempts + 1, cursor |-> usage[e].cursor]
<1>1. /\ task[c] # Idle /\ task[c].at = "page" /\ session[e] # "erased"
      /\ ~ usage[e].complete /\ ~ Listed(e) /\ usage[e].lists < MaxLists
      /\ operation' = Attempted(e, n) /\ usage' = [usage EXCEPT ![e].lists = @ + 1] /\ Does(c, t)
      /\ UNCHANGED <<session, artifacts, aliases, checkpoint, objects, wire>>
  BY DEF ReserveList, Paging, Allowed, index, bucket
<1>2. task[c] \in Purges /\ IsPurging(task[c])
  BY <1>1, TaskTypes DEF IsPurging
<1>3. e \in Environments /\ task[c].goal \in {"expire", "erase"} /\ task[c].found \in SUBSET Environments
  BY <1>2, PurgeTask
<1>4. /\ n \in Names /\ n = <<"list", usage[e].page>> /\ usage[e].page \in Pages
      /\ operation[e][n] = ListOf(e, usage[e].page)
      /\ Listed(e) <=> ListOf(e, usage[e].page).status = "committed"
  BY <1>3, CurrentPage
<1>5. operation[e][n].attempts \in Nat /\ usage[e].cursor \in Nat
  BY <1>3, <1>4, OperationTypes, UsageTypes
<1>6. t \in Lists /\ t.env = e /\ t.found = task[c].found /\ t.name = n
      /\ t.attempt = operation[e][n].attempts + 1 /\ t.cursor = usage[e].cursor
  BY <1>3, <1>4, <1>5 DEF Lists
<1>7. PICK l \in Nat : l = usage[e].lists + 1
  BY <1>3, UsageTypes
<1>8. PICK u : u = [usage[e] EXCEPT !.lists = l]
  OBVIOUS
<1>9. /\ u \in UsageRows /\ u.page = usage[e].page /\ u.cursor = usage[e].cursor
      /\ u.complete = usage[e].complete /\ u.lists = l
      /\ u.fenced = usage[e].fenced /\ u.quiesced = usage[e].quiesced
      /\ u.bytes = usage[e].bytes /\ u.objects = usage[e].objects
  BY <1>3, <1>8, UsageTypes DEF UsageRows
<1>10. usage' \in [Environments -> UsageRows] /\ UsageMoves(e, u)
  <2>1. usage' = [usage EXCEPT ![e] = u]
    BY <1>1, <1>7, <1>8
  <2> QED
    BY <1>3, <1>9, <2>1, UsageChanges
<1> HIDE DEF t
<1>11. task' \in [Callers -> Tasks] /\ TaskMoves(c, t) /\ t \in Tasks
  BY <1>1, <1>6, AreTasks, TaskChanges DEF Does
<1>12. /\ operation' \in [Environments -> [Names -> OperationRows]] /\ SamePuts
       /\ \E r \in OperationRows :
            /\ r.status = "in_flight" /\ r.attempts = ListOf(e, usage[e].page).attempts + 1
            /\ \A f \in Environments, m \in Pages :
                 /\ ListOf(f, m)' = IF f = e /\ m = usage[e].page THEN r ELSE ListOf(f, m)
                 /\ DeleteOf(f, m)' = DeleteOf(f, m)
  BY <1>1, <1>3, ListRowMoves
<1>13. Typed'
  BY <1>1, <1>10, <1>11, <1>12 DEF Typed
<1>14. SameCharges /\ SameFences
  BY <1>9, <1>10 DEF SameCharges, SameFences, UsageMoves
<1>15. PurgeTurn(c)
  BY <1>1, <1>2, <1>6, <1>11, <1>12, <1>14 DEF PurgeTurn, IsPurging
<1>16. \A f \in Environments :
         /\ usage'[f].page = usage[f].page /\ usage'[f].cursor = usage[f].cursor
         /\ usage'[f].complete = usage[f].complete
         /\ usage'[f].lists = IF f = e THEN usage[f].lists + 1 ELSE usage[f].lists
  BY <1>7, <1>9, <1>10 DEF UsageMoves
<1>17. ListReserved(c)
  <2>1. \E s \in Lists :
           /\ TaskMoves(c, s) /\ s.env = e /\ s.found = task[c].found
           /\ s.name = <<"list", usage[e].page>>
           /\ s.attempt = ListOf(e, usage[e].page).attempts + 1 /\ s.cursor = usage[e].cursor
    BY <1>4, <1>6, <1>11
  <2> HIDE DEF n
  <2> QED
    BY <1>1, <1>2, <1>4, <1>12, <1>14, <1>16, <2>1 DEF ListReserved
<1> QED
  BY <1>13, <1>15, <1>17

DeleteReserved(c) ==
  LET e == task[c].env
      p == usage[e].page
  IN  /\ task[c] \in Purges /\ task[c].at = "page"
      /\ SameFences /\ objects' = objects
      /\ ListOf(e, p).status = "committed" /\ ListOf(e, p).page.keys # {}
      /\ \A f \in Environments :
           /\ usage'[f].page = usage[f].page /\ usage'[f].cursor = usage[f].cursor
           /\ usage'[f].complete = usage[f].complete /\ usage'[f].lists = usage[f].lists
      /\ \E r \in OperationRows :
           /\ r.status = "in_flight" /\ r.attempts = DeleteOf(e, p).attempts + 1
           /\ \A f \in Environments, m \in Pages :
                /\ DeleteOf(f, m)' = IF f = e /\ m = p THEN r ELSE DeleteOf(f, m)
                /\ ListOf(f, m)' = ListOf(f, m)
      /\ \E t \in Deletes :
           /\ TaskMoves(c, t) /\ t.env = e /\ t.found = task[c].found
           /\ t.name = <<"delete", p>> /\ t.attempt = DeleteOf(e, p).attempts + 1
           /\ t.page = ListOf(e, p).page

LEMMA KeysAreFinite ==
  ASSUME NEW S \in SUBSET Keys
  PROVE  IsFiniteSet(S) /\ Cardinality(S) \in Nat
BY KeysAssumption, FS_Subset, FS_CardinalityType

LEMMA ReserveDeleteMoves ==
  ASSUME Typed, PagesCounted, NEW c \in Callers, ReserveDelete(c)
  PROVE  Typed' /\ PurgeTurn(c) /\ DeleteReserved(c)
<1> DEFINE e == task[c].env
           n == DeleteName(e)
           keys == PageOf(e).keys
           t == [goal |-> task[c].goal, at |-> "delete", env |-> e, found |-> task[c].found,
                 name |-> n, attempt |-> operation[e][n].attempts + 1, page |-> PageOf(e)]
<1>1. /\ task[c] # Idle /\ task[c].at = "page" /\ session[e] # "erased"
      /\ Listed(e) /\ keys # {}
      /\ operation' = Attempted(e, n)
      /\ usage' = [usage EXCEPT ![e] = [usage[e] EXCEPT !.deletes = @ + 1, !.deleted = @ + Cardinality(keys)]]
      /\ Does(c, t)
      /\ UNCHANGED <<session, artifacts, aliases, checkpoint, objects, wire>>
  BY DEF ReserveDelete, Paging, index, bucket
<1>2. task[c] \in Purges /\ IsPurging(task[c])
  BY <1>1, TaskTypes DEF IsPurging
<1>3. e \in Environments /\ task[c].goal \in {"expire", "erase"} /\ task[c].found \in SUBSET Environments
  BY <1>2, PurgeTask
<1>4. /\ n \in Names /\ n = <<"delete", usage[e].page>> /\ usage[e].page \in Pages
      /\ operation[e][n] = DeleteOf(e, usage[e].page)
      /\ Listed(e) <=> ListOf(e, usage[e].page).status = "committed"
      /\ PageOf(e) = ListOf(e, usage[e].page).page /\ PageOf(e) \in PageRecords
  BY <1>3, CurrentPage
<1>5. operation[e][n].attempts \in Nat /\ keys \in SUBSET Keys
  BY <1>3, <1>4, OperationTypes DEF PageRecords
<1>6. t \in Deletes /\ t.env = e /\ t.found = task[c].found /\ t.name = n
      /\ t.attempt = operation[e][n].attempts + 1 /\ t.page = PageOf(e)
  BY <1>3, <1>4, <1>5 DEF Deletes
<1>7. PICK a \in Nat, b \in Nat : a = usage[e].deletes + 1 /\ b = usage[e].deleted + Cardinality(keys)
  <2>1. Cardinality(keys) \in Nat
    BY <1>5, KeysAreFinite
  <2>2. usage[e].deletes + 1 \in Nat /\ usage[e].deleted + Cardinality(keys) \in Nat
    BY <1>3, <2>1, UsageTypes
  <2> HIDE DEF keys
  <2> QED
    BY <2>2
<1>8. PICK u : u = [usage[e] EXCEPT !.deletes = a, !.deleted = b]
  OBVIOUS
<1>9. /\ u \in UsageRows /\ u.page = usage[e].page /\ u.cursor = usage[e].cursor
      /\ u.complete = usage[e].complete /\ u.lists = usage[e].lists
      /\ u.fenced = usage[e].fenced /\ u.quiesced = usage[e].quiesced
      /\ u.bytes = usage[e].bytes /\ u.objects = usage[e].objects
  BY <1>3, <1>8, UsageTypes DEF UsageRows
<1>10. usage' \in [Environments -> UsageRows] /\ UsageMoves(e, u)
  <2>1. usage' = [usage EXCEPT ![e] = u]
    BY <1>1, <1>7, <1>8
  <2> QED
    BY <1>3, <1>9, <2>1, UsageChanges
<1> HIDE DEF t
<1>11. task' \in [Callers -> Tasks] /\ TaskMoves(c, t) /\ t \in Tasks
  BY <1>1, <1>6, AreTasks, TaskChanges DEF Does
<1>12. /\ operation' \in [Environments -> [Names -> OperationRows]] /\ SamePuts
       /\ \E r \in OperationRows :
            /\ r.status = "in_flight" /\ r.attempts = DeleteOf(e, usage[e].page).attempts + 1
            /\ \A f \in Environments, m \in Pages :
                 /\ DeleteOf(f, m)' = IF f = e /\ m = usage[e].page THEN r ELSE DeleteOf(f, m)
                 /\ ListOf(f, m)' = ListOf(f, m)
  BY <1>1, <1>3, DeleteRowMoves
<1>13. Typed'
  BY <1>1, <1>10, <1>11, <1>12 DEF Typed
<1>14. SameCharges /\ SameFences
  BY <1>9, <1>10 DEF SameCharges, SameFences, UsageMoves
<1>15. PurgeTurn(c)
  BY <1>1, <1>2, <1>6, <1>11, <1>12, <1>14 DEF PurgeTurn, IsPurging
<1>16. \A f \in Environments :
         /\ usage'[f].page = usage[f].page /\ usage'[f].cursor = usage[f].cursor
         /\ usage'[f].complete = usage[f].complete /\ usage'[f].lists = usage[f].lists
  BY <1>9, <1>10 DEF UsageMoves
<1>17. DeleteReserved(c)
  <2>1. \E s \in Deletes :
           /\ TaskMoves(c, s) /\ s.env = e /\ s.found = task[c].found
           /\ s.name = <<"delete", usage[e].page>>
           /\ s.attempt = DeleteOf(e, usage[e].page).attempts + 1 /\ s.page = ListOf(e, usage[e].page).page
    BY <1>4, <1>6, <1>11
  <2> HIDE DEF n
  <2> QED
    BY <1>1, <1>2, <1>4, <1>12, <1>14, <1>16, <2>1 DEF DeleteReserved
<1> QED
  BY <1>13, <1>15, <1>17

\* The end of an empty page: the next page, or the end of the inventory.
Exhausted(c) ==
  LET e == task[c].env
      p == usage[e].page
      page == ListOf(e, p).page
  IN  /\ task[c] \in Purges /\ task[c].at = "page"
      /\ SameFences /\ objects' = objects
      /\ ListOf(e, p).status = "committed" /\ page.keys = {}
      /\ \A f \in Environments, m \in Pages :
           ListOf(f, m)' = ListOf(f, m) /\ DeleteOf(f, m)' = DeleteOf(f, m)
      /\ \A f \in Environments : usage'[f].lists = usage[f].lists
      /\ \A f \in Environments \ {e} :
           /\ usage'[f].page = usage[f].page /\ usage'[f].cursor = usage[f].cursor
           /\ usage'[f].complete = usage[f].complete
      /\ \/ /\ page.truncated /\ usage'[e].complete = usage[e].complete
            /\ usage'[e].page = p + 1 /\ usage'[e].cursor = page.cursor
            /\ TaskMoves(c, task[c])
         \/ /\ ~ page.truncated
            /\ usage'[e].page = p /\ usage'[e].cursor = usage[e].cursor
            /\ \/ usage'[e].complete = usage[e].complete /\ TaskMoves(c, Idle)
               \/ usage'[e].complete = TRUE /\ TaskMoves(c, task[c])

LEMMA ExhaustMoves ==
  ASSUME Typed, PagesCounted, NEW c \in Callers, Exhaust(c)
  PROVE  Typed' /\ PurgeTurn(c) /\ Exhausted(c)
<1> DEFINE e == task[c].env
           page == PageOf(e)
<1>1. /\ task[c] # Idle /\ task[c].at = "page" /\ session[e] # "erased"
      /\ Listed(e) /\ page.keys = {}
      /\ UNCHANGED <<session, operation, artifacts, aliases, checkpoint, objects, wire>>
  BY DEF Exhaust, Paging, index, bucket
<1>2. task[c] \in Purges /\ IsPurging(task[c])
  BY <1>1, TaskTypes DEF IsPurging
<1>3. e \in Environments
  BY <1>2, PurgeTask
<1>4. /\ usage[e].page \in Nat
      /\ Listed(e) <=> ListOf(e, usage[e].page).status = "committed"
      /\ page = ListOf(e, usage[e].page).page /\ page \in PageRecords
  BY <1>3, CurrentPage
<1>5. page.truncated \in BOOLEAN /\ page.cursor \in Nat
  BY <1>4 DEF PageRecords
<1> HIDE DEF page
<1>6. PICK q \in Nat : q = usage[e].page + 1
  BY <1>4
<1> DEFINE next == [usage[e] EXCEPT !.cursor = page.cursor, !.page = q]
           last == [usage[e] EXCEPT !.complete = TRUE]
<1>7. \/ page.truncated /\ usage' = [usage EXCEPT ![e] = next] /\ task' = task
      \/ ~ page.truncated /\ Does(c, Idle) /\ usage' = [usage EXCEPT ![e] = usage[e]]
      \/ ~ page.truncated /\ usage' = [usage EXCEPT ![e] = last] /\ task' = task
  <2>1. usage = [usage EXCEPT ![e] = usage[e]]
    BY DEF Typed
  <2> QED
    BY <1>6, <2>1 DEF Exhaust, Stops, page
<1>8. /\ next \in UsageRows /\ next.page = q /\ next.cursor = page.cursor
      /\ next.complete = usage[e].complete /\ next.lists = usage[e].lists
      /\ next.fenced = usage[e].fenced /\ next.quiesced = usage[e].quiesced
      /\ next.bytes = usage[e].bytes /\ next.objects = usage[e].objects
  BY <1>3, <1>5, <1>6, UsageTypes DEF UsageRows
<1>9. /\ last \in UsageRows /\ last.page = usage[e].page /\ last.cursor = usage[e].cursor
      /\ last.complete = TRUE /\ last.lists = usage[e].lists
      /\ last.fenced = usage[e].fenced /\ last.quiesced = usage[e].quiesced
      /\ last.bytes = usage[e].bytes /\ last.objects = usage[e].objects
  BY <1>3, UsageTypes DEF UsageRows
<1> HIDE DEF next, last
<1>10. PICK u \in {next, last, usage[e]}, t \in {Idle, task[c]} :
         /\ usage' = [usage EXCEPT ![e] = u] /\ task' = [task EXCEPT ![c] = t]
         /\ \/ page.truncated /\ u = next /\ t = task[c]
            \/ ~ page.truncated /\ u = usage[e] /\ t = Idle
            \/ ~ page.truncated /\ u = last /\ t = task[c]
  <2>1. task = [task EXCEPT ![c] = task[c]]
    BY DEF Typed
  <2> QED
    BY <1>7, <2>1 DEF Does
<1>11. /\ u \in UsageRows /\ u.lists = usage[e].lists
       /\ u.fenced = usage[e].fenced /\ u.quiesced = usage[e].quiesced
       /\ u.bytes = usage[e].bytes /\ u.objects = usage[e].objects
  BY <1>3, <1>8, <1>9, <1>10, UsageTypes
<1>12. usage' \in [Environments -> UsageRows] /\ UsageMoves(e, u)
  BY <1>3, <1>10, <1>11, UsageChanges
<1>13. t \in Tasks
  BY <1>2, <1>10, AreTasks, Kinds
<1>14. task' \in [Callers -> Tasks] /\ TaskMoves(c, t)
  BY <1>10, <1>13, TaskChanges
<1>15. Typed'
  BY <1>1, <1>12, <1>14 DEF Typed
<1>16. /\ SamePuts
       /\ \A f \in Environments, m \in Pages : ListOf(f, m)' = ListOf(f, m) /\ DeleteOf(f, m)' = DeleteOf(f, m)
  BY <1>1, NothingMoves
<1>17. SameCharges /\ SameFences
  BY <1>11, <1>12 DEF SameCharges, SameFences, UsageMoves
<1>18. PurgeTurn(c)
  BY <1>1, <1>2, <1>10, <1>13, <1>14, <1>16, <1>17 DEF PurgeTurn
<1>19. /\ \A f \in Environments : usage'[f].lists = usage[f].lists
       /\ \A f \in Environments \ {e} :
            /\ usage'[f].page = usage[f].page /\ usage'[f].cursor = usage[f].cursor
            /\ usage'[f].complete = usage[f].complete
       /\ usage'[e] = u
  BY <1>3, <1>11, <1>12 DEF UsageMoves
<1>20. \/ /\ page.truncated /\ usage'[e].complete = usage[e].complete
          /\ usage'[e].page = usage[e].page + 1 /\ usage'[e].cursor = page.cursor
          /\ TaskMoves(c, task[c])
       \/ /\ ~ page.truncated
          /\ usage'[e].page = usage[e].page /\ usage'[e].cursor = usage[e].cursor
          /\ \/ usage'[e].complete = usage[e].complete /\ TaskMoves(c, Idle)
             \/ usage'[e].complete = TRUE /\ TaskMoves(c, task[c])
  BY <1>6, <1>8, <1>9, <1>10, <1>14, <1>19
<1>21. Exhausted(c)
  BY <1>1, <1>2, <1>4, <1>16, <1>17, <1>19, <1>20 DEF Exhausted
<1> QED
  BY <1>15, <1>18, <1>21

\* One page of a listing: what it leaves out comes after its cursor.
LEMMA ListingIsPage ==
  ASSUME Typed, NEW e \in Environments, NEW cursor \in Nat, NEW page \in Listings(e, cursor)
  PROVE  /\ page \in PageRecords /\ page.keys \subseteq objects[e]
         /\ \A k \in objects[e] : k > cursor =>
              k \in page.keys \/ (page.truncated /\ k > page.cursor)
         /\ \A k \in page.keys : k > cursor
<1> DEFINE rest == {k \in objects[e] : k > cursor}
           upto(l) == {k \in rest : k <= l}
<1>1. objects[e] \in SUBSET Keys /\ Keys \subseteq Nat
  BY KeysAssumption DEF Typed
<1>2. PICK last \in Keys \cup {cursor} :
        page = [keys |-> upto(last), truncated |-> upto(last) # rest,
                cursor |-> IF upto(last) = rest THEN 0 ELSE Max(upto(last) \cup {cursor})]
  BY DEF Listings
<1>3. rest \in SUBSET Keys /\ upto(last) \in SUBSET Keys /\ last \in Nat
  BY <1>1
<1> DEFINE top == upto(last) \cup {cursor}
<1>4. Max(top) \in top /\ \A i \in top : Max(top) >= i
  <2>1. top \in SUBSET Nat /\ top # {}
    BY <1>1, <1>3
  <2>2. IsFiniteSet(top)
    BY <1>3, KeysAreFinite, FS_AddElement
  <2> HIDE DEF top
  <2> QED
    BY <2>1, <2>2, MaxIsLargest
<1>5. Max(top) \in Nat
  <2>1. top \subseteq Nat
    BY <1>1, <1>3
  <2> QED
    BY <1>4, <2>1
<1>6. \A k \in rest : k \notin upto(last) => k > Max(top)
  <2> SUFFICES ASSUME NEW k \in rest, k \notin upto(last)
               PROVE  k > Max(top)
    OBVIOUS
  <2>1. k \in objects[e] /\ k > cursor /\ ~ (k <= last)
    OBVIOUS
  <2>0. k \in Nat /\ k > last
    <3>1. k \in Nat
      BY <1>1, <2>1
    <3> QED
      BY <1>3, <2>1, <3>1
  <2>2. Max(top) = cursor \/ Max(top) <= last
    BY <1>4
  <2> HIDE DEF top
  <2> QED
    BY <1>3, <1>5, <2>0, <2>1, <2>2
<1>7. page.keys = upto(last) /\ page.truncated = (upto(last) # rest)
      /\ page.cursor = IF upto(last) = rest THEN 0 ELSE Max(top)
  BY <1>2
<1>8. page \in PageRecords
  <2> DEFINE s == upto(last)
             b == (s # rest)
             n == IF s = rest THEN 0 ELSE Max(top)
  <2>1. s \in SUBSET Keys /\ b \in BOOLEAN /\ n \in Nat
    BY <1>3, <1>5
  <2>2. page = [keys |-> s, truncated |-> b, cursor |-> n]
    BY <1>2
  <2> HIDE DEF s, b, n
  <2> QED
    BY <2>1, <2>2 DEF PageRecords
<1>9. \A k \in objects[e] : k > cursor => k \in page.keys \/ (page.truncated /\ k > page.cursor)
  <2> SUFFICES ASSUME NEW k \in rest, k \notin upto(last)
               PROVE  page.truncated /\ k > page.cursor
    BY <1>7
  <2>1. upto(last) # rest /\ k > Max(top)
    BY <1>6
  <2> HIDE DEF top, upto, rest
  <2> QED
    BY <1>7, <2>1
<1> QED
  BY <1>7, <1>8, <1>9

LEMMA PageTask ==
  ASSUME Typed, NEW c \in Callers, task[c] \in Lists \cup Deletes
  PROVE  \E m \in Pages :
           /\ task[c] \in Lists => task[c].name = <<"list", m>> /\ task[c].cursor \in Nat
           /\ task[c] \in Deletes => task[c].name = <<"delete", m>> /\ task[c].page \in PageRecords
BY DEF Lists, Deletes

LEMMA ResumeTask ==
  ASSUME Typed, NEW c \in Callers, IsPurging(task[c]), Resumes(c, task[c])
  PROVE  \E t \in Purges : /\ Does(c, t) /\ t.env = task[c].env /\ t.found = task[c].found
                           /\ t.at = "page"
<1> DEFINE t == [goal |-> task[c].goal, at |-> "page", env |-> task[c].env, found |-> task[c].found]
<1>1. Does(c, t)
  BY DEF Resumes
<1>2. t \in Purges /\ t.env = task[c].env /\ t.found = task[c].found /\ t.at = "page"
  BY PurgeTask DEF Purges
<1> QED
  BY <1>1, <1>2

\* A listing whose attempt is still current records its page.
ListCommitted(c) ==
  LET e == task[c].env
      m == task[c].name[2]
  IN  /\ task[c] \in Lists /\ m \in Pages
      /\ SameFences /\ objects' = objects
      /\ \A f \in Environments :
           /\ usage'[f].page = usage[f].page /\ usage'[f].cursor = usage[f].cursor
           /\ usage'[f].complete = usage[f].complete /\ usage'[f].lists = usage[f].lists
      /\ ListOf(e, m).status = "in_flight" /\ ListOf(e, m).attempts = task[c].attempt
      /\ \E r \in OperationRows, page \in Listings(e, task[c].cursor) :
           /\ r.status = "committed" /\ r.page = page
           /\ \A f \in Environments, j \in Pages :
                /\ ListOf(f, j)' = IF f = e /\ j = m THEN r ELSE ListOf(f, j)
                /\ DeleteOf(f, j)' = DeleteOf(f, j)
      /\ \E t \in Purges : t.env = e /\ t.found = task[c].found /\ t.at = "page" /\ TaskMoves(c, t)
\* A request of a purge fails; a deletion may have been carried out.
RequestFailed(c) ==
  LET e == task[c].env IN
  /\ task[c] \in Lists \cup Deletes
  /\ SameFences
  /\ \A f \in Environments :
       /\ usage'[f].page = usage[f].page /\ usage'[f].cursor = usage[f].cursor
       /\ usage'[f].complete = usage[f].complete /\ usage'[f].lists = usage[f].lists
       /\ objects'[f] = objects[f] \/ (task[c] \in Deletes /\ f = e /\ objects'[f] = objects[f] \ task[c].page.keys)
  /\ \A f \in Environments, j \in Pages :
       /\ \/ ListOf(f, j)' = ListOf(f, j)
          \/ /\ ListOf(f, j).status = "in_flight" /\ ListOf(f, j)'.status = "unknown"
             /\ ListOf(f, j)'.page = ListOf(f, j).page
       /\ \/ DeleteOf(f, j)' = DeleteOf(f, j)
          \/ DeleteOf(f, j).status = "in_flight" /\ DeleteOf(f, j)'.status = "unknown"
  /\ TaskMoves(c, Idle)

LEMMA UnknownRequest ==
  ASSUME Typed, NEW c \in Callers, task[c] \in Lists \cup Deletes,
         Unknown(task[c].env, task[c].name, task[c].attempt)
  PROVE  /\ operation' \in [Environments -> [Names -> OperationRows]] /\ SamePuts
         /\ \A f \in Environments, j \in Pages :
              /\ \/ ListOf(f, j)' = ListOf(f, j)
                 \/ /\ ListOf(f, j).status = "in_flight" /\ ListOf(f, j)'.status = "unknown"
                    /\ ListOf(f, j)'.page = ListOf(f, j).page
              /\ \/ DeleteOf(f, j)' = DeleteOf(f, j)
                 \/ DeleteOf(f, j).status = "in_flight" /\ DeleteOf(f, j)'.status = "unknown"
<1> DEFINE e == task[c].env
           n == task[c].name
<1>1. e \in Environments
  BY PurgeTask DEF IsPurging
<1>2. PICK m \in Pages : /\ task[c] \in Lists => n = <<"list", m>>
                         /\ task[c] \in Deletes => n = <<"delete", m>>
  BY PageTask
<1>3. n \in Names
  BY <1>2, Operations
<1> HIDE DEF n
<1>4. /\ operation' \in [Environments -> [Names -> OperationRows]]
      /\ \/ operation' = operation
         \/ Current(e, n, task[c].attempt) /\ \E r \in OperationRows :
              /\ r.status = "unknown" /\ r.page = operation[e][n].page
              /\ OperationMoves(e, n, r)
  BY <1>1, <1>3, UnknownMoves DEF n
<1>5. CASE operation' = operation
  BY <1>4, <1>5, NothingMoves
<1>6. CASE operation' # operation
  <2>1. PICK r \in OperationRows :
          /\ r.status = "unknown" /\ r.page = operation[e][n].page /\ OperationMoves(e, n, r)
          /\ operation[e][n].status = "in_flight"
    BY <1>4, <1>6 DEF Current
  <2>2. CASE task[c] \in Lists
    <3>1. n = <<"list", m>> /\ operation[e][n] = ListOf(e, m)
      BY <1>2, <2>2 DEF ListOf
    <3>2. /\ SamePuts
          /\ \A f \in Environments, j \in Pages :
               /\ ListOf(f, j)' = IF f = e /\ j = m THEN r ELSE ListOf(f, j)
               /\ DeleteOf(f, j)' = DeleteOf(f, j)
      BY <1>1, <2>1, <3>1, ListMoves
    <3> QED
      BY <1>4, <2>1, <3>1, <3>2
  <2>3. CASE task[c] \in Deletes
    <3>1. n = <<"delete", m>> /\ operation[e][n] = DeleteOf(e, m)
      BY <1>2, <2>3 DEF DeleteOf
    <3>2. /\ SamePuts
          /\ \A f \in Environments, j \in Pages :
               /\ DeleteOf(f, j)' = IF f = e /\ j = m THEN r ELSE DeleteOf(f, j)
               /\ ListOf(f, j)' = ListOf(f, j)
      BY <1>1, <2>1, <3>1, DeleteMoves
    <3> QED
      BY <1>4, <2>1, <3>1, <3>2
  <2> QED
    BY <2>2, <2>3
<1> QED
  BY <1>5, <1>6

LEMMA ListReplyMoves ==
  ASSUME Typed, NEW c \in Callers, ListReply(c)
  PROVE  Typed' /\ PurgeTurn(c) /\ (ListCommitted(c) \/ RequestFailed(c))
<1> DEFINE e == task[c].env
           n == task[c].name
<1>1. /\ task[c] # Idle /\ task[c].at = "list" /\ session[e] # "erased"
      /\ UNCHANGED <<session, artifacts, aliases, checkpoint, objects, wire>>
  BY DEF ListReply, Purging, index, bucket
<1>2. task[c] \in Lists /\ IsPurging(task[c])
  BY <1>1, TaskTypes DEF IsPurging
<1>3. e \in Environments
  BY <1>2, PurgeTask
<1>4. PICK m \in Pages : n = <<"list", m>> /\ task[c].cursor \in Nat
  BY <1>2, PageTask
<1>5. n \in Names /\ operation[e][n] = ListOf(e, m) /\ n[2] = m
  <2>1. n = <<"list", m>>
    BY <1>4
  <2> HIDE DEF n
  <2> QED
    BY <2>1, Operations DEF ListOf
<1> HIDE DEF n
<1>6. PICK page \in Listings(e, task[c].cursor) :
        IF Current(e, n, task[c].attempt) /\ usage[e].listed + Cardinality(page.keys) <= MaxObjects
        THEN /\ operation' = [operation EXCEPT ![e][n] =
                [status |-> "committed", attempts |-> @.attempts, page |-> page]]
             /\ usage' = [usage EXCEPT ![e].listed = usage[e].listed + Cardinality(page.keys)]
             /\ Resumes(c, task[c])
        ELSE Unknown(e, n, task[c].attempt) /\ Does(c, Idle) /\ usage' = usage
  BY DEF ListReply, Stops, n
<1>7. page \in PageRecords
  BY <1>3, <1>4, ListingIsPage
<1>8. CASE Current(e, n, task[c].attempt) /\ usage[e].listed + Cardinality(page.keys) <= MaxObjects
  <2>1. PICK l \in Nat : l = usage[e].listed + Cardinality(page.keys)
    <3>1. Cardinality(page.keys) \in Nat
      BY <1>7, KeysAreFinite DEF PageRecords
    <3> QED
      BY <1>3, <3>1, UsageTypes
  <2>2. PICK u : u = [usage[e] EXCEPT !.listed = l]
    OBVIOUS
  <2>3. /\ u \in UsageRows /\ u.page = usage[e].page /\ u.cursor = usage[e].cursor
        /\ u.complete = usage[e].complete /\ u.lists = usage[e].lists
        /\ u.fenced = usage[e].fenced /\ u.quiesced = usage[e].quiesced
        /\ u.bytes = usage[e].bytes /\ u.objects = usage[e].objects
    BY <1>3, <2>2, UsageTypes DEF UsageRows
  <2>4. usage' \in [Environments -> UsageRows] /\ UsageMoves(e, u)
    <3>1. usage' = [usage EXCEPT ![e] = u]
      BY <1>6, <1>8, <2>1, <2>2
    <3> QED
      BY <1>3, <2>3, <3>1, UsageChanges
  <2> DEFINE o == operation[e][n]
             r == [status |-> "committed", attempts |-> o.attempts, page |-> page]
  <2>5. o \in OperationRows
    BY <1>3, <1>5, OperationTypes
  <2>6. r \in OperationRows /\ r.status = "committed" /\ r.page = page
    BY <1>7, <2>5 DEF OperationRows
  <2>7. operation' = [operation EXCEPT ![e][n] = r]
    BY <1>6, <1>8
  <2> HIDE DEF r, o
  <2>8. operation' \in [Environments -> [Names -> OperationRows]] /\ OperationMoves(e, n, r)
    BY <1>3, <1>5, <2>6, <2>7, OperationChanges
  <2>9. /\ SamePuts
        /\ \A f \in Environments, j \in Pages :
             /\ ListOf(f, j)' = IF f = e /\ j = m THEN r ELSE ListOf(f, j)
             /\ DeleteOf(f, j)' = DeleteOf(f, j)
    BY <1>3, <1>4, <2>8, ListMoves
  <2>10. Resumes(c, task[c])
    BY <1>6, <1>8
  <2>11. PICK t \in Purges : /\ Does(c, t) /\ t.env = e /\ t.found = task[c].found /\ t.at = "page"
    BY <1>2, <2>10, ResumeTask
  <2>12. task' \in [Callers -> Tasks] /\ TaskMoves(c, t) /\ t \in Tasks
    BY <2>11, AreTasks, TaskChanges DEF Does
  <2>13. Typed'
    BY <1>1, <2>4, <2>8, <2>12 DEF Typed
  <2>14. SameCharges /\ SameFences
    BY <2>3, <2>4 DEF SameCharges, SameFences, UsageMoves
  <2>15. PurgeTurn(c)
    BY <1>1, <1>2, <2>9, <2>11, <2>12, <2>14 DEF PurgeTurn, IsPurging
  <2>16. \A f \in Environments :
           /\ usage'[f].page = usage[f].page /\ usage'[f].cursor = usage[f].cursor
           /\ usage'[f].complete = usage[f].complete /\ usage'[f].lists = usage[f].lists
    BY <2>3, <2>4 DEF UsageMoves
  <2>17. ListOf(e, m).status = "in_flight" /\ ListOf(e, m).attempts = task[c].attempt
    BY <1>5, <1>8 DEF Current
  <2>18. task[c].name[2] = m
    BY <1>5 DEF n
  <2>19. ListCommitted(c)
    BY <1>1, <1>2, <2>6, <2>9, <2>11, <2>12, <2>14, <2>16, <2>17, <2>18 DEF ListCommitted
  <2> QED
    BY <2>13, <2>15, <2>19
<1>9. CASE ~ (Current(e, n, task[c].attempt) /\ usage[e].listed + Cardinality(page.keys) <= MaxObjects)
  <2>1. Unknown(e, task[c].name, task[c].attempt) /\ Does(c, Idle) /\ usage' = usage
    BY <1>6, <1>9 DEF n
  <2>2. /\ operation' \in [Environments -> [Names -> OperationRows]] /\ SamePuts
        /\ \A f \in Environments, j \in Pages :
             /\ \/ ListOf(f, j)' = ListOf(f, j)
                \/ /\ ListOf(f, j).status = "in_flight" /\ ListOf(f, j)'.status = "unknown"
                   /\ ListOf(f, j)'.page = ListOf(f, j).page
             /\ \/ DeleteOf(f, j)' = DeleteOf(f, j)
                \/ DeleteOf(f, j).status = "in_flight" /\ DeleteOf(f, j)'.status = "unknown"
    BY <1>2, <2>1, UnknownRequest
  <2>3. task' \in [Callers -> Tasks] /\ TaskMoves(c, Idle) /\ Idle \in Tasks
    BY <2>1, TaskChanges, Kinds DEF Does
  <2>4. Typed'
    BY <1>1, <2>1, <2>2, <2>3 DEF Typed
  <2>5. PurgeTurn(c)
    BY <1>1, <1>2, <2>1, <2>2, <2>3, UsageStays DEF PurgeTurn
  <2>6. RequestFailed(c)
    BY <1>1, <1>2, <2>1, <2>2, <2>3, UsageStays DEF RequestFailed
  <2> QED
    BY <2>4, <2>5, <2>6
<1> QED
  BY <1>8, <1>9

LEMMA PurgeFailsMoves ==
  ASSUME Typed, NEW c \in Callers, PurgeFails(c)
  PROVE  Typed' /\ PurgeTurn(c) /\ RequestFailed(c)
<1> DEFINE e == task[c].env
<1>1. /\ task[c] # Idle /\ task[c].at \in {"list", "delete"} /\ session[e] # "erased"
      /\ \/ objects' = objects
         \/ task[c].at = "delete" /\ objects' = [objects EXCEPT ![e] = @ \ task[c].page.keys]
      /\ Unknown(e, task[c].name, task[c].attempt) /\ Does(c, Idle)
      /\ UNCHANGED <<session, usage, artifacts, aliases, checkpoint, wire>>
  BY DEF PurgeFails, Purging, Stops, index
<1>2. task[c] \in Lists \cup Deletes /\ IsPurging(task[c]) /\ (task[c].at = "delete" => task[c] \in Deletes)
  BY <1>1, TaskTypes DEF IsPurging
<1>3. e \in Environments
  BY <1>2, PurgeTask
<1>4. /\ objects' \in [Environments -> SUBSET Keys]
      /\ \A f \in Environments :
           /\ objects'[f] \subseteq objects[f]
           /\ \/ objects'[f] = objects[f]
              \/ task[c] \in Deletes /\ f = e /\ objects'[f] = objects[f] \ task[c].page.keys
  <2>1. CASE objects' = objects
    BY <2>1 DEF Typed
  <2>2. CASE task[c].at = "delete" /\ objects' = [objects EXCEPT ![e] = @ \ task[c].page.keys]
    BY <1>2, <1>3, <2>2 DEF Typed
  <2> QED
    BY <1>1, <2>1, <2>2
<1>5. /\ operation' \in [Environments -> [Names -> OperationRows]] /\ SamePuts
      /\ \A f \in Environments, j \in Pages :
           /\ \/ ListOf(f, j)' = ListOf(f, j)
              \/ /\ ListOf(f, j).status = "in_flight" /\ ListOf(f, j)'.status = "unknown"
                 /\ ListOf(f, j)'.page = ListOf(f, j).page
           /\ \/ DeleteOf(f, j)' = DeleteOf(f, j)
              \/ DeleteOf(f, j).status = "in_flight" /\ DeleteOf(f, j)'.status = "unknown"
  BY <1>1, <1>2, UnknownRequest
<1>6. task' \in [Callers -> Tasks] /\ TaskMoves(c, Idle) /\ Idle \in Tasks
  BY <1>1, TaskChanges, Kinds DEF Does
<1>7. Typed'
  BY <1>1, <1>4, <1>5, <1>6 DEF Typed
<1>8. PurgeTurn(c)
  BY <1>1, <1>2, <1>4, <1>5, <1>6, UsageStays DEF PurgeTurn
<1>9. RequestFailed(c)
  BY <1>1, <1>2, <1>4, <1>5, <1>6, UsageStays DEF RequestFailed
<1> QED
  BY <1>7, <1>8, <1>9

\* A deletion whose attempt is still current ends its page.
DeleteCommitted(c) ==
  LET e == task[c].env
      m == task[c].name[2]
  IN  /\ task[c] \in Deletes /\ m \in Pages
      /\ SameFences
      /\ \A f \in Environments : objects'[f] = IF f = e THEN objects[f] \ task[c].page.keys ELSE objects[f]
      /\ \A f \in Environments : usage'[f].complete = usage[f].complete /\ usage'[f].lists = usage[f].lists
      /\ \A f \in Environments \ {e} :
           usage'[f].page = usage[f].page /\ usage'[f].cursor = usage[f].cursor
      /\ \A f \in Environments, j \in Pages : ListOf(f, j)' = ListOf(f, j)
      /\ \/ /\ DeleteOf(e, m).status = "in_flight" /\ DeleteOf(e, m).attempts = task[c].attempt
            /\ usage'[e].page = usage[e].page + 1 /\ usage'[e].cursor = task[c].page.cursor
            /\ \E r \in OperationRows :
                 /\ r.status = "committed"
                 /\ \A f \in Environments, j \in Pages :
                      DeleteOf(f, j)' = IF f = e /\ j = m THEN r ELSE DeleteOf(f, j)
            /\ \E t \in Purges : t.env = e /\ t.found = task[c].found /\ t.at = "page" /\ TaskMoves(c, t)
         \/ /\ usage'[e].page = usage[e].page /\ usage'[e].cursor = usage[e].cursor
            /\ \A f \in Environments, j \in Pages : DeleteOf(f, j)' = DeleteOf(f, j)
            /\ TaskMoves(c, Idle)

LEMMA DeleteReplyMoves ==
  ASSUME Typed, NEW c \in Callers, DeleteReply(c)
  PROVE  Typed' /\ PurgeTurn(c) /\ DeleteCommitted(c)
<1> DEFINE e == task[c].env
           n == task[c].name
<1>1. /\ task[c] # Idle /\ task[c].at = "delete" /\ session[e] # "erased"
      /\ objects' = [objects EXCEPT ![e] = @ \ task[c].page.keys]
      /\ UNCHANGED <<session, artifacts, aliases, checkpoint, wire>>
  BY DEF DeleteReply, Purging, index
<1>2. task[c] \in Deletes /\ IsPurging(task[c])
  BY <1>1, TaskTypes DEF IsPurging
<1>3. e \in Environments
  BY <1>2, PurgeTask
<1>4. PICK m \in Pages : n = <<"delete", m>> /\ task[c].page \in PageRecords
  BY <1>2, PageTask
<1>5. n \in Names /\ operation[e][n] = DeleteOf(e, m) /\ n[2] = m
  <2>1. n = <<"delete", m>>
    BY <1>4
  <2> HIDE DEF n
  <2> QED
    BY <2>1, Operations DEF DeleteOf
<1>6. task[c].name[2] = m
  BY <1>5
<1> HIDE DEF n
<1>7. /\ objects' \in [Environments -> SUBSET Keys]
      /\ \A f \in Environments : objects'[f] = IF f = e THEN objects[f] \ task[c].page.keys ELSE objects[f]
  BY <1>1, <1>3 DEF Typed
<1>8. \A f \in Environments : objects'[f] \subseteq objects[f]
  BY <1>7
<1>9. CASE Current(e, n, task[c].attempt)
  <2>1. /\ operation' = Marked(e, n, "committed")
        /\ usage' = [usage EXCEPT ![e] = [usage[e] EXCEPT !.cursor = task[c].page.cursor, !.page = @ + 1]]
        /\ Resumes(c, task[c])
    BY <1>9 DEF DeleteReply, n
  <2>2. PICK q \in Nat, x \in Nat : q = usage[e].page + 1 /\ x = task[c].page.cursor
    <3>1. task[c].page.cursor \in Nat /\ usage[e].page + 1 \in Nat
      BY <1>3, <1>4, UsageTypes DEF PageRecords
    <3> QED
      BY <3>1
  <2>3. PICK u : u = [usage[e] EXCEPT !.cursor = x, !.page = q]
    OBVIOUS
  <2>4. /\ u \in UsageRows /\ u.page = q /\ u.cursor = x
        /\ u.complete = usage[e].complete /\ u.lists = usage[e].lists
        /\ u.fenced = usage[e].fenced /\ u.quiesced = usage[e].quiesced
        /\ u.bytes = usage[e].bytes /\ u.objects = usage[e].objects
    BY <1>3, <2>3, UsageTypes DEF UsageRows
  <2>5. usage' \in [Environments -> UsageRows] /\ UsageMoves(e, u)
    <3>1. usage' = [usage EXCEPT ![e] = u]
      BY <2>1, <2>2, <2>3
    <3> QED
      BY <1>3, <2>4, <3>1, UsageChanges
  <2>6. PICK r \in OperationRows :
          /\ r.status = "committed"
          /\ operation' \in [Environments -> [Names -> OperationRows]]
          /\ OperationMoves(e, n, r)
    BY <1>3, <1>5, <2>1, Marking
  <2>7. n = <<"delete", m>>
    BY <1>4 DEF n
  <2>8. /\ SamePuts
        /\ \A f \in Environments, j \in Pages :
             /\ DeleteOf(f, j)' = IF f = e /\ j = m THEN r ELSE DeleteOf(f, j)
             /\ ListOf(f, j)' = ListOf(f, j)
    BY <1>3, <2>6, <2>7, DeleteMoves
  <2>9. PICK t \in Purges : /\ Does(c, t) /\ t.env = e /\ t.found = task[c].found /\ t.at = "page"
    BY <1>2, <2>1, ResumeTask
  <2>10. task' \in [Callers -> Tasks] /\ TaskMoves(c, t) /\ t \in Tasks
    BY <2>9, AreTasks, TaskChanges DEF Does
  <2>11. Typed'
    BY <1>1, <1>7, <2>5, <2>6, <2>10 DEF Typed
  <2>12. SameCharges /\ SameFences
    BY <2>4, <2>5 DEF SameCharges, SameFences, UsageMoves
  <2>13. PurgeTurn(c)
    BY <1>1, <1>2, <1>8, <2>8, <2>9, <2>10, <2>12 DEF PurgeTurn, IsPurging
  <2>14. /\ \A f \in Environments : usage'[f].complete = usage[f].complete /\ usage'[f].lists = usage[f].lists
         /\ \A f \in Environments \ {e} :
              usage'[f].page = usage[f].page /\ usage'[f].cursor = usage[f].cursor
         /\ usage'[e].page = usage[e].page + 1 /\ usage'[e].cursor = task[c].page.cursor
    BY <1>3, <2>2, <2>4, <2>5 DEF UsageMoves
  <2>15. DeleteOf(e, m).status = "in_flight" /\ DeleteOf(e, m).attempts = task[c].attempt
    BY <1>5, <1>9 DEF Current
  <2>16. DeleteCommitted(c)
    BY <1>2, <1>6, <1>7, <2>6, <2>8, <2>9, <2>10, <2>12, <2>14, <2>15 DEF DeleteCommitted
  <2> QED
    BY <2>11, <2>13, <2>16
<1>10. CASE ~ Current(e, n, task[c].attempt)
  <2>1. Does(c, Idle) /\ UNCHANGED <<operation, usage>>
    BY <1>10 DEF DeleteReply, Stops, n
  <2>2. task' \in [Callers -> Tasks] /\ TaskMoves(c, Idle) /\ Idle \in Tasks
    BY <2>1, TaskChanges, Kinds DEF Does
  <2>3. Typed'
    BY <1>1, <1>7, <2>1, <2>2 DEF Typed
  <2>4. /\ SamePuts
        /\ \A f \in Environments, j \in Pages : ListOf(f, j)' = ListOf(f, j) /\ DeleteOf(f, j)' = DeleteOf(f, j)
    BY <2>1, NothingMoves
  <2>5. PurgeTurn(c)
    BY <1>1, <1>2, <1>8, <2>1, <2>2, <2>4, UsageStays DEF PurgeTurn
  <2>6. DeleteCommitted(c)
    BY <1>2, <1>3, <1>4, <1>6, <1>7, <2>1, <2>2, <2>4, UsageStays DEF DeleteCommitted
  <2> QED
    BY <2>3, <2>5, <2>6
<1> QED
  BY <1>9, <1>10
------------------------------------------------------------------------------
(* Every step moves the state in one of these ways. *)

StillSteps == UNCHANGED <<session, usage, operation, index, bucket, task>>
PurgeSteps(c) ==
  Fence(c) \/ Evidence(c) \/ ReserveList(c) \/ ReserveDelete(c) \/ Exhaust(c)
  \/ ListReply(c) \/ DeleteReply(c) \/ PurgeFails(c)
Moves(c) ==
  \/ Turn(c)
  \/ /\ task[c] = Idle /\ session[Parent] = "exposed"
     /\ \E k \in Keys : Reserves(c, Parent, k, "put", {})
  \/ /\ session[Child] # "erased" /\ task[c] \in Reads /\ task[c].key \in Keys
     /\ Reserves(c, Child, task[c].key, "branch", task[c].left)
  \/ Commits(c) \/ GivesUp(c)
  \/ BranchBegin(c) \/ BranchFinish(c) \/ EraseRows(c)
  \/ PurgeSteps(c)
LEMMA StepsAreTyped ==
  ASSUME Typed, PagesCounted, [Next]_vars
  PROVE  /\ Typed'
         /\ \/ StillSteps /\ Unmoved
            \/ Checkpoint
            \/ \E r \in wire : Land(r)
            \/ \E c \in Callers : Moves(c)
<1> USE DEF Moves, PurgeSteps
<1>1. CASE UNCHANGED vars
  <2>1. UNCHANGED <<session, usage, operation, index, bucket, task>>
    BY <1>1 DEF vars, rows, index, bucket
  <2> QED
    BY <2>1, StillStays DEF StillSteps
<1>2. CASE Checkpoint
  BY <1>2, CheckpointMoves
<1>3. CASE \E r \in wire : Land(r)
  BY <1>3, LandMoves
<1>4. CASE TimePasses
  <2>1. UNCHANGED <<session, usage, operation, index, bucket, task>>
    BY <1>4 DEF TimePasses, rows, index, bucket
  <2> QED
    BY <2>1, StillStays DEF StillSteps
<1>5. ASSUME NEW c \in Callers, Host(c) PROVE Typed' /\ Moves(c)
  <2>1. CASE \E k \in Keys : Put(c, k)
    BY <2>1, PutReserves
  <2>2. CASE PutReply(c)
    BY <2>2, PutReplyMoves
  <2>3. CASE PutFails(c)
    BY <2>3, PutFailsMoves
  <2>4. CASE GetReply(c)
    BY <2>4, GetReplyMoves
  <2>5. CASE GetFails(c)
    BY <2>5, GetFailsMoves
  <2>6. CASE BranchBegin(c)
    BY <2>6, BranchBeginMoves
  <2>7. CASE BranchInstall(c)
    BY <2>7, BranchInstallMoves
  <2>8. CASE BranchLook(c)
    BY <2>8, BranchLookMoves
  <2>9. CASE BranchRead(c)
    BY <2>9, BranchReadMoves
  <2>10. CASE BranchWrite(c)
    BY <2>10, BranchWriteMoves
  <2>11. CASE BranchFinish(c)
    BY <2>11, BranchFinishMoves
  <2>12. CASE Erase(c)
    BY <2>12, EraseMoves
  <2>13. CASE \E e \in Environments : Expire(c, e)
    BY <2>13, ExpireMoves
  <2>14. CASE Fence(c)
    BY <2>14, FenceMoves
  <2>15. CASE Evidence(c)
    BY <2>15, EvidenceMoves
  <2>16. CASE ReserveList(c)
    BY <2>16, ReserveListMoves
  <2>17. CASE ReserveDelete(c)
    BY <2>17, ReserveDeleteMoves
  <2>18. CASE Exhaust(c)
    BY <2>18, ExhaustMoves
  <2>19. CASE ListReply(c)
    BY <2>19, ListReplyMoves
  <2>20. CASE DeleteReply(c)
    BY <2>20, DeleteReplyMoves
  <2>21. CASE PurgeFails(c)
    BY <2>21, PurgeFailsMoves
  <2>22. CASE Purged(c)
    BY <2>22, PurgedMoves
  <2>23. CASE EraseRows(c)
    BY <2>23, EraseRowsMoves
  <2>24. CASE Lose(c)
    BY <2>24, LoseMoves
  <2> QED
    BY <1>5, <2>1, <2>2, <2>3, <2>4, <2>5, <2>6, <2>7, <2>8, <2>9, <2>10, <2>11, <2>12, <2>13,
       <2>14, <2>15, <2>16, <2>17, <2>18, <2>19, <2>20, <2>21, <2>22, <2>23, <2>24, Zenon DEF Host
<1> QED
  BY <1>1, <1>2, <1>3, <1>4, <1>5, Zenon DEF Next, Surroundings

LEMMA PurgeStepsMove ==
  ASSUME Typed, PagesCounted, NEW c \in Callers, PurgeSteps(c)
  PROVE  PurgeTurn(c)
BY FenceMoves, EvidenceMoves, ReserveListMoves, ReserveDeleteMoves, ExhaustMoves, ListReplyMoves,
   DeleteReplyMoves, PurgeFailsMoves, Zenon DEF PurgeSteps

LEMMA CountStays ==
  ASSUME Typed, PagesCounted, NEW e \in Environments,
         usage'[e].page = usage[e].page, usage'[e].lists = usage[e].lists,
         \A m \in Pages : ListOf(e, m)' = ListOf(e, m) /\ DeleteOf(e, m)' = DeleteOf(e, m)
  PROVE  CountedAt(e)'
<1>1. usage[e].page \in Pages /\ CountedAt(e)
  BY CurrentPage DEF PagesCounted
<1>2. ListOf(e, usage[e].page)' = ListOf(e, usage[e].page)
  BY <1>1 DEF ListOf
<1> QED
  BY <1>1, <1>2 DEF CountedAt

LEMMA PagesStay ==
  ASSUME Typed, PagesCounted, SamePages
  PROVE  PagesCounted'
BY CountStays DEF SamePages, PagesCounted

LEMMA ListReservedCounts ==
  ASSUME Typed, PagesCounted, NEW c \in Callers, ListReserved(c)
  PROVE  PagesCounted'
<1>0. PICK e, p : e = task[c].env /\ p = usage[e].page
  OBVIOUS
<1> SUFFICES ASSUME NEW f \in Environments PROVE CountedAt(f)'
  BY DEF PagesCounted
<1>1. CASE f # e
  BY <1>0, <1>1, CountStays DEF ListReserved
<1>2. CASE f = e
  <2>1. /\ CountedAt(e) /\ p \in Pages /\ p \in Nat /\ usage[e].lists \in Nat /\ MaxLists \in Nat
    BY <1>0, <1>2, CurrentPage, UsageTypes DEF PagesCounted
  <2>2. PICK r :
          /\ r.status = "in_flight"
          /\ \A m \in Pages : /\ ListOf(e, m)' = IF m = p THEN r ELSE ListOf(e, m)
                              /\ DeleteOf(e, m)' = DeleteOf(e, m)
    BY <1>0, <1>2 DEF ListReserved
  <2>3. /\ usage'[e].page = p /\ usage'[e].lists = usage[e].lists + 1 /\ usage[e].lists < MaxLists
        /\ ListOf(e, p).status # "committed"
    BY <1>0, <1>2 DEF ListReserved
  <2>4. ListOf(e, usage[e].page)' = ListOf(e, p)'
    BY <2>3 DEF ListOf
  <2>5. \A m \in Pages : DeleteOf(e, m)'.status \notin {"in_flight", "unknown"}
    BY <1>0, <2>1, <2>2, <2>3 DEF CountedAt
  <2>6. \A m \in Pages : m > p => ListOf(e, m)'.status = "none"
    BY <1>0, <2>1, <2>2 DEF CountedAt
  <2>7. p <= usage[e].lists + 1 /\ usage[e].lists + 1 <= MaxLists /\ p < usage[e].lists + 1
    BY <1>0, <2>1, <2>3 DEF CountedAt
  <2> QED
    BY <1>0, <1>2, <2>3, <2>5, <2>6, <2>7 DEF CountedAt, ListOf
<1> QED
  BY <1>1, <1>2

LEMMA DeleteReservedCounts ==
  ASSUME Typed, PagesCounted, NEW c \in Callers, DeleteReserved(c)
  PROVE  PagesCounted'
<1>0. PICK e, p : e = task[c].env /\ p = usage[e].page
  OBVIOUS
<1> SUFFICES ASSUME NEW f \in Environments PROVE CountedAt(f)'
  BY DEF PagesCounted
<1>1. CASE f # e
  BY <1>0, <1>1, CountStays DEF DeleteReserved
<1>2. CASE f = e
  <2>1. CountedAt(e) /\ p \in Pages
    BY <1>0, <1>2, CurrentPage DEF PagesCounted
  <2>2. PICK r :
          \A m \in Pages : /\ DeleteOf(e, m)' = IF m = p THEN r ELSE DeleteOf(e, m)
                           /\ ListOf(e, m)' = ListOf(e, m)
    BY <1>0, <1>2 DEF DeleteReserved
  <2>3. /\ usage'[e].page = p /\ usage'[e].lists = usage[e].lists
        /\ ListOf(e, p).status = "committed" /\ ListOf(e, p).page.keys # {}
    BY <1>0, <1>2 DEF DeleteReserved
  <2>4. ListOf(e, usage[e].page)' = ListOf(e, p)
    <3>1. ListOf(e, p)' = ListOf(e, p)
      BY <2>1, <2>2
    <3> QED
      BY <2>1, <2>2, <2>3 DEF ListOf
  <2>5. \A m \in Pages : DeleteOf(e, m)'.status \in {"in_flight", "unknown"} => m = p
    BY <1>0, <2>1, <2>2, <2>3 DEF CountedAt
  <2>6. \A m \in Pages : m > p => ListOf(e, m)'.status = "none"
    BY <1>0, <2>1, <2>2 DEF CountedAt
  <2>7. p <= usage[e].lists /\ usage[e].lists <= MaxLists /\ p < usage[e].lists
    BY <1>0, <2>1, <2>3 DEF CountedAt
  <2> QED
    BY <1>0, <1>2, <2>3, <2>4, <2>5, <2>6, <2>7 DEF CountedAt, ListOf
<1> QED
  BY <1>1, <1>2

LEMMA ExhaustedCounts ==
  ASSUME Typed, PagesCounted, NEW c \in Callers, Exhausted(c)
  PROVE  PagesCounted'
<1>0. PICK e, p : e = task[c].env /\ p = usage[e].page
  OBVIOUS
<1> SUFFICES ASSUME NEW f \in Environments PROVE CountedAt(f)'
  BY DEF PagesCounted
<1>1. CASE f # e \/ usage'[e].page = p
  BY <1>0, <1>1, CountStays DEF Exhausted
<1>2. CASE f = e /\ usage'[e].page # p
  <2>1. CountedAt(e) /\ p \in Pages /\ p \in Nat /\ usage[e].lists \in Nat /\ MaxLists \in Nat
    BY <1>0, <1>2, CurrentPage, UsageTypes DEF PagesCounted
  <2>2. /\ ListOf(e, p).status = "committed" /\ ListOf(e, p).page.keys = {}
        /\ usage'[e].page = p + 1 /\ usage'[e].lists = usage[e].lists
        /\ \A m \in Pages : ListOf(e, m)' = ListOf(e, m) /\ DeleteOf(e, m)' = DeleteOf(e, m)
    BY <1>0, <1>2 DEF Exhausted
  <2>3. p + 1 <= usage[e].lists /\ usage[e].lists <= MaxLists /\ p + 1 \in Pages
    BY <1>0, <2>1, <2>2 DEF CountedAt, Pages
  <2>4. ListOf(e, usage[e].page)' = ListOf(e, p + 1)
    BY <2>2, <2>3 DEF ListOf
  <2>5. ListOf(e, p + 1).status = "none"
    BY <1>0, <2>1, <2>3 DEF CountedAt
  <2>6. \A m \in Pages : DeleteOf(e, m)'.status \notin {"in_flight", "unknown"}
    BY <1>0, <2>1, <2>2 DEF CountedAt
  <2>7. \A m \in Pages : m > p + 1 => ListOf(e, m)'.status = "none"
    <3> SUFFICES ASSUME NEW m \in Pages, m > p + 1 PROVE ListOf(e, m).status = "none"
      BY <2>2
    <3>1. m > p
      BY <2>1 DEF Pages
    <3> QED
      BY <1>0, <2>1, <3>1 DEF CountedAt
  <2> QED
    BY <1>0, <1>2, <2>2, <2>3, <2>4, <2>5, <2>6, <2>7 DEF CountedAt, ListOf
<1> QED
  BY <1>1, <1>2

LEMMA ListCommittedCounts ==
  ASSUME Typed, PagesCounted, NEW c \in Callers, ListCommitted(c)
  PROVE  PagesCounted'
<1>0. PICK e, p : e = task[c].env /\ p = usage[e].page
  OBVIOUS
<1> SUFFICES ASSUME NEW f \in Environments PROVE CountedAt(f)'
  BY DEF PagesCounted
<1>1. CASE f # e
  BY <1>0, <1>1, CountStays DEF ListCommitted
<1>2. CASE f = e
  <2>1. CountedAt(e) /\ p \in Pages /\ p \in Nat
    BY <1>0, <1>2, CurrentPage DEF PagesCounted
  <2>2. PICK n \in Pages, r \in OperationRows :
          /\ r.status = "committed" /\ ListOf(e, n).status = "in_flight"
          /\ \A m \in Pages : /\ ListOf(e, m)' = IF m = n THEN r ELSE ListOf(e, m)
                              /\ DeleteOf(e, m)' = DeleteOf(e, m)
    BY <1>0, <1>2 DEF ListCommitted
  <2>3. usage'[e].page = p /\ usage'[e].lists = usage[e].lists
    BY <1>0, <1>2 DEF ListCommitted
  <2>4. ListOf(e, usage[e].page)' = ListOf(e, p)'
    BY <2>3 DEF ListOf
  <2>5. ListOf(e, p)' = ListOf(e, p) \/ (n = p /\ ListOf(e, p).status = "in_flight")
    BY <2>1, <2>2
  <2>6. \A m \in Pages : DeleteOf(e, m)'.status \in {"in_flight", "unknown"} =>
          m = p /\ ListOf(e, p)'.status = "committed" /\ ListOf(e, p)'.page.keys # {}
    BY <1>0, <2>1, <2>2, <2>5 DEF CountedAt
  <2>7. \A m \in Pages : m > p => ListOf(e, m)'.status = "none"
    BY <1>0, <2>1, <2>2 DEF CountedAt
  <2>8. ListOf(e, p)'.status # "none" => p < usage[e].lists
    BY <1>0, <2>1, <2>5 DEF CountedAt
  <2>9. p <= usage[e].lists /\ usage[e].lists <= MaxLists
    BY <1>0, <2>1 DEF CountedAt
  <2>10. ListOf(e, p)' = ListOf(e, usage[e].page)'
    BY <2>4
  <2> QED
    BY <1>0, <1>2, <2>3, <2>6, <2>7, <2>8, <2>9 DEF CountedAt, ListOf
<1> QED
  BY <1>1, <1>2

LEMMA RequestFailedCounts ==
  ASSUME Typed, PagesCounted, NEW c \in Callers, RequestFailed(c)
  PROVE  PagesCounted'
<1> SUFFICES ASSUME NEW f \in Environments PROVE CountedAt(f)'
  BY DEF PagesCounted
<1>0. PICK p : p = usage[f].page
  OBVIOUS
<1>1. CountedAt(f) /\ p \in Pages
  BY <1>0, CurrentPage DEF PagesCounted
<1>2. usage'[f].page = p /\ usage'[f].lists = usage[f].lists
  BY <1>0 DEF RequestFailed
<1>3. \A m \in Pages :
        /\ \/ ListOf(f, m)' = ListOf(f, m)
           \/ ListOf(f, m).status = "in_flight" /\ ListOf(f, m)'.status = "unknown"
        /\ DeleteOf(f, m)'.status \in {"in_flight", "unknown"} =>
             DeleteOf(f, m).status \in {"in_flight", "unknown"}
  BY DEF RequestFailed
<1>4. \A m \in Pages : DeleteOf(f, m)'.status \in {"in_flight", "unknown"} =>
        m = p /\ ListOf(f, p)'.status = "committed" /\ ListOf(f, p)'.page.keys # {}
  BY <1>0, <1>1, <1>3 DEF CountedAt
<1>5. \A m \in Pages : m > p => ListOf(f, m)'.status = "none"
  BY <1>0, <1>1, <1>3 DEF CountedAt
<1>6. ListOf(f, p)'.status # "none" => p < usage[f].lists
  BY <1>0, <1>1, <1>3 DEF CountedAt
<1>7. p <= usage[f].lists /\ usage[f].lists <= MaxLists
  BY <1>0, <1>1 DEF CountedAt
<1> QED
  BY <1>2, <1>4, <1>5, <1>6, <1>7 DEF CountedAt, ListOf

\* A deletion that is still current is of the page under way.
LEMMA CurrentDeletion ==
  ASSUME Typed, PagesCounted, NEW c \in Callers, DeleteCommitted(c),
         usage'[task[c].env].page # usage[task[c].env].page \/ ~ TaskMoves(c, Idle)
  PROVE  /\ task[c].name[2] = usage[task[c].env].page
         /\ DeleteOf(task[c].env, task[c].name[2]).status = "in_flight"
         /\ DeleteOf(task[c].env, task[c].name[2]).attempts = task[c].attempt
         /\ ListOf(task[c].env, task[c].name[2]).status = "committed"
         /\ usage'[task[c].env].page = usage[task[c].env].page + 1
<1>0. PICK e, m : e = task[c].env /\ m = task[c].name[2]
  OBVIOUS
<1>1. e \in Environments /\ m \in Pages
  BY <1>0, PurgeTask DEF DeleteCommitted, IsPurging
<1>2. DeleteOf(e, m).status = "in_flight" /\ DeleteOf(e, m).attempts = task[c].attempt
      /\ usage'[e].page = usage[e].page + 1
  BY <1>0 DEF DeleteCommitted
<1>3. CountedAt(e)
  BY <1>1 DEF PagesCounted
<1> QED
  BY <1>0, <1>1, <1>2, <1>3 DEF CountedAt

LEMMA DeleteCommittedCounts ==
  ASSUME Typed, PagesCounted, NEW c \in Callers, DeleteCommitted(c)
  PROVE  PagesCounted'
<1>0. PICK e, p : e = task[c].env /\ p = usage[e].page
  OBVIOUS
<1> SUFFICES ASSUME NEW f \in Environments PROVE CountedAt(f)'
  BY DEF PagesCounted
<1>1. CASE f # e
  <2>1. usage'[f].page = usage[f].page /\ usage'[f].lists = usage[f].lists
    BY <1>0, <1>1 DEF DeleteCommitted
  <2>2. \A m \in Pages : ListOf(f, m)' = ListOf(f, m) /\ DeleteOf(f, m)' = DeleteOf(f, m)
    BY <1>0, <1>1 DEF DeleteCommitted
  <2> QED
    BY <2>1, <2>2, CountStays
<1>2. CASE f = e /\ usage'[e].page # p
  <2>1. CountedAt(f) /\ p \in Pages /\ p \in Nat /\ usage[f].lists \in Nat /\ MaxLists \in Nat
    BY <1>0, <1>2, CurrentPage, UsageTypes DEF PagesCounted
  <2>2. /\ task[c].name[2] = p /\ usage'[f].page = p + 1 /\ ListOf(f, p).status = "committed"
    BY <1>0, <1>2, CurrentDeletion
  <2>3. /\ usage'[f].lists = usage[f].lists
        /\ \A m \in Pages : ListOf(f, m)' = ListOf(f, m)
        /\ \A m \in Pages \ {p} : DeleteOf(f, m)' = DeleteOf(f, m)
        /\ DeleteOf(f, p)'.status = "committed"
    BY <1>0, <1>2, <2>1, <2>2 DEF DeleteCommitted
  <2>4. p + 1 <= usage[f].lists /\ usage[f].lists <= MaxLists /\ p + 1 \in Pages
    BY <1>0, <1>2, <2>1, <2>2 DEF CountedAt, Pages
  <2>5. ListOf(f, p + 1).status = "none"
    BY <1>0, <1>2, <2>1, <2>4 DEF CountedAt
  <2>6. \A m \in Pages : DeleteOf(f, m)'.status \notin {"in_flight", "unknown"}
    BY <1>0, <1>2, <2>1, <2>3 DEF CountedAt
  <2>7. \A m \in Pages : m > p + 1 => ListOf(f, m)'.status = "none"
    <3> SUFFICES ASSUME NEW m \in Pages, m > p + 1 PROVE ListOf(f, m).status = "none"
      BY <2>3
    <3>1. m > p
      BY <2>1 DEF Pages
    <3> QED
      BY <1>0, <1>2, <2>1, <3>1 DEF CountedAt
  <2> QED
    BY <2>2, <2>3, <2>4, <2>5, <2>6, <2>7 DEF CountedAt, ListOf
<1>3. CASE f = e /\ usage'[e].page = p
  <2>1. p \in Pages /\ p \in Nat
    BY <1>0, <1>3, CurrentPage
  <2>2. \A m \in Pages : DeleteOf(f, m)' = DeleteOf(f, m)
    <3>1. p + 1 # p
      BY <2>1
    <3> QED
      BY <1>0, <1>3, <3>1 DEF DeleteCommitted
  <2>3. /\ \A m \in Pages : ListOf(f, m)' = ListOf(f, m)
        /\ usage'[f].page = usage[f].page /\ usage'[f].lists = usage[f].lists
    BY <1>0, <1>3 DEF DeleteCommitted
  <2> QED
    BY <2>2, <2>3, CountStays
<1> QED
  BY <1>1, <1>2, <1>3

LEMMA NothingCounts ==
  ASSUME NEW e \in Environments, usage'[e] = NoUsage, \A n \in Names : operation'[e][n] = NoOperation
  PROVE  CountedAt(e)'
<1>1. 0 \in Pages /\ MaxLists \in Nat /\ \A m \in Pages : m >= 0
  BY BudgetAssumption DEF Pages
<1>2. usage'[e].page = 0 /\ usage'[e].lists = 0
  BY DEF NoUsage
<1>3. \A m \in Pages : ListOf(e, m)'.status = "none" /\ DeleteOf(e, m)'.status = "none"
  <2>1. NoOperation.status = "none"
    BY DEF NoOperation
  <2>2. \A m \in Pages : ListOf(e, m)' = NoOperation /\ DeleteOf(e, m)' = NoOperation
    BY Operations DEF ListOf, DeleteOf
  <2> QED
    BY <2>1, <2>2
<1>4. \A m \in Pages : DeleteOf(e, m)'.status \notin {"in_flight", "unknown"}
  BY <1>3
<1>5. ListOf(e, 0)'.status = "none"
  BY <1>1, <1>3
<1> QED
  BY <1>1, <1>2, <1>3, <1>4, <1>5 DEF CountedAt, ListOf

LEMMA InitIsCounted == Init => PagesCounted
<1> SUFFICES ASSUME Init, NEW e \in Environments PROVE CountedAt(e)
  BY DEF PagesCounted
<1>1. 0 \in Pages /\ MaxLists \in Nat /\ \A m \in Pages : m >= 0
  BY BudgetAssumption DEF Pages
<1>2. usage[e].page = 0 /\ usage[e].lists = 0
  BY DEF Init, NoUsage
<1>3. \A m \in Pages : ListOf(e, m).status = "none" /\ DeleteOf(e, m).status = "none"
  <2>1. \A n \in Names : operation[e][n] = NoOperation
    BY DEF Init
  <2>2. NoOperation.status = "none"
    BY DEF NoOperation
  <2>3. \A m \in Pages : ListOf(e, m) = NoOperation /\ DeleteOf(e, m) = NoOperation
    BY <2>1, Operations DEF ListOf, DeleteOf
  <2> QED
    BY <2>2, <2>3
<1>4. \A m \in Pages : DeleteOf(e, m).status \notin {"in_flight", "unknown"}
  BY <1>3
<1>5. ListOf(e, 0).status = "none"
  BY <1>1, <1>3
<1> QED
  BY <1>1, <1>2, <1>3, <1>4, <1>5 DEF CountedAt

LEMMA StepsAreCounted ==
  ASSUME Typed, PagesCounted, [Next]_vars
  PROVE  PagesCounted'
<1>1. CASE Unmoved
  BY <1>1, PagesStay DEF Unmoved
<1>2. CASE Checkpoint
  BY <1>2, CheckpointMoves, PagesStay DEF SameOperations
<1>3. CASE \E r \in wire : Land(r)
  <2>1. UNCHANGED <<usage, operation>>
    BY <1>3, LandMoves
  <2> QED
    BY <2>1, OperationsStay, PagesStay DEF SameOperations
<1>4. ASSUME NEW c \in Callers, Moves(c) PROVE PagesCounted'
  <2>1. CASE Turn(c) \/ Commits(c) \/ GivesUp(c)
    BY <2>1, PagesStay DEF Turn, Unmoved, Commits, GivesUp
  <2>2. ASSUME NEW e, NEW k, NEW goal, NEW left, Reserves(c, e, k, goal, left) PROVE PagesCounted'
    BY <2>2, PagesStay DEF Reserves
  <2>3. CASE BranchBegin(c)
    BY <2>3, BranchBeginMoves, PagesStay DEF SameOperations
  <2>4. CASE BranchFinish(c)
    BY <2>4, BranchFinishMoves, PagesStay DEF SameOperations
  <2>5. CASE EraseRows(c)
    BY <2>5, EraseRowsMoves, NothingCounts DEF PagesCounted
  <2>6. CASE Fence(c) \/ Evidence(c)
    BY <2>6, FenceMoves, EvidenceMoves, PagesStay
  <2>7. CASE ReserveList(c)
    BY <2>7, ReserveListMoves, ListReservedCounts
  <2>8. CASE ReserveDelete(c)
    BY <2>8, ReserveDeleteMoves, DeleteReservedCounts
  <2>9. CASE Exhaust(c)
    BY <2>9, ExhaustMoves, ExhaustedCounts
  <2>10. CASE ListReply(c)
    BY <2>10, ListReplyMoves, ListCommittedCounts, RequestFailedCounts
  <2>11. CASE DeleteReply(c)
    BY <2>11, DeleteReplyMoves, DeleteCommittedCounts
  <2>12. CASE PurgeFails(c)
    BY <2>12, PurgeFailsMoves, RequestFailedCounts
  <2> QED
    BY <1>4, <2>1, <2>2, <2>3, <2>4, <2>5, <2>6, <2>7, <2>8, <2>9, <2>10, <2>11, <2>12, Zenon
    DEF Moves, PurgeSteps
<1> QED
  BY <1>1, <1>2, <1>3, <1>4, StepsAreTyped, Zenon

------------------------------------------------------------------------------
(* Sessions that callers work on exist. *)

PresentTask(t) ==
  /\ IsBranching(t) => session[Child] # "none"
  /\ IsPurging(t) => session[t.env] # "none" /\ \A e \in t.found : session[e] # "none"
Present ==
  /\ session[Parent] # "none"
  /\ \A c \in Callers : PresentTask(task[c])
  /\ \A e \in Environments, k \in Keys : session[e] = "none" => PutOf(e, k).status = "none"

\* A session, once there, stays; an erased one stays erased.
Lasting ==
  \A e \in Environments :
    /\ session'[e] = "none" => session[e] = "none"
    /\ session[e] = "erased" => session'[e] = "erased"

LEMMA SessionsLast ==
  ASSUME Typed, PagesCounted, [Next]_vars
  PROVE  Lasting
<1>1. CASE session' = session
  BY <1>1 DEF Lasting
<1>2. ASSUME NEW c \in Callers, BranchBegin(c) PROVE Lasting
  BY <1>2, BranchBeginMoves, EnvironmentsAssumption DEF Lasting, Environments
<1>3. ASSUME NEW c \in Callers, BranchFinish(c) PROVE Lasting
  BY <1>3, BranchFinishMoves, EnvironmentsAssumption DEF Lasting, Environments
<1>4. ASSUME NEW c \in Callers, EraseRows(c) PROVE Lasting
  BY <1>4, EraseRowsMoves DEF Lasting
<1>5. CASE Checkpoint
  BY <1>1, <1>5, CheckpointMoves
<1>6. CASE \E r \in wire : Land(r)
  BY <1>1, <1>6, LandMoves
<1>7. ASSUME NEW c \in Callers, Turn(c) \/ Commits(c) \/ GivesUp(c) PROVE Lasting
  BY <1>1, <1>7 DEF Turn, Unmoved, Commits, GivesUp
<1>8. ASSUME NEW c \in Callers, NEW e, NEW k, NEW goal, NEW left, Reserves(c, e, k, goal, left)
      PROVE  Lasting
  BY <1>1, <1>8 DEF Reserves
<1>9. ASSUME NEW c \in Callers, PurgeSteps(c) PROVE Lasting
  BY <1>1, <1>9, PurgeStepsMove DEF PurgeTurn
<1>10. CASE Unmoved
  BY <1>1, <1>10 DEF Unmoved
<1> QED
  BY <1>2, <1>3, <1>4, <1>5, <1>6, <1>7, <1>8, <1>9, <1>10, StepsAreTyped, Zenon DEF Moves

LEMMA PresentMoves ==
  ASSUME Typed, Present, Lasting, NEW c \in Callers, NEW t \in Tasks, TaskMoves(c, t), PresentTask(t)'
  PROVE  \A d \in Callers : PresentTask(task[d])'
<1> SUFFICES ASSUME NEW d \in Callers PROVE PresentTask(task[d])'
  OBVIOUS
<1>1. CASE d = c
  BY <1>1 DEF TaskMoves, PresentTask
<1>2. CASE d # c
  <2>1. task'[d] = task[d] /\ PresentTask(task[d])
    BY <1>2 DEF TaskMoves, Present
  <2>2. IsPurging(task[d]) => task[d].env \in Environments /\ task[d].found \in SUBSET Environments
    BY PurgeTask
  <2>3. Child \in Environments
    BY DEF Environments
  <2> QED
    BY <2>1, <2>2, <2>3 DEF PresentTask, Lasting
<1> QED
  BY <1>1, <1>2

\* A caller that only moves itself, or goes on with its purge.
LEMMA PresentTurn ==
  ASSUME Typed, Present, Lasting, NEW c \in Callers, Turn(c)
  PROVE  \A d \in Callers : PresentTask(task[d])'
<1>1. PICK t \in Tasks : /\ t = Idle \/ Continues(c, t) \/ Starts(c, t) \/ Proceeds(c, t)
                         /\ TaskMoves(c, t)
  BY DEF Turn
<1>2. Child \in Environments /\ Parent \in Environments
  BY DEF Environments
<1>3. CASE t = Idle
  BY <1>1, <1>3, Kinds, PresentMoves DEF PresentTask
<1>4. CASE Continues(c, t)
  <2>1. IsBranching(task[c]) /\ ~ IsPurging(t)
    BY <1>4, Kinds DEF Continues
  <2>2. session'[Child] # "none"
    BY <1>2, <2>1 DEF Present, PresentTask, Lasting
  <2> QED
    BY <1>1, <2>1, <2>2, PresentMoves DEF PresentTask
<1>5. CASE Starts(c, t)
  <2>1. ~ IsBranching(t) /\ t.env \in Live \cup {Parent} /\ t.found \subseteq Live
    BY <1>5, Kinds DEF Starts
  <2>2. \A e \in Live \cup {Parent} : session'[e] # "none"
    BY <1>2 DEF Present, Lasting, Live
  <2> QED
    BY <1>1, <2>1, <2>2, PresentMoves DEF PresentTask
<1>6. CASE Proceeds(c, t)
  <2>1. ~ IsBranching(t) /\ t.found = task[c].found /\ (t.env \in t.found \/ t.env = task[c].env)
        /\ IsPurging(task[c])
    BY <1>6, Kinds DEF Proceeds, IsPurging
  <2>2. PresentTask(task[c]) /\ task[c].env \in Environments /\ task[c].found \in SUBSET Environments
    BY <2>1, PurgeTask DEF Present
  <2>3. session'[task[c].env] # "none" /\ \A e \in task[c].found : session'[e] # "none"
    BY <2>1, <2>2 DEF PresentTask, Lasting
  <2> QED
    BY <1>1, <2>1, <2>3, PresentMoves DEF PresentTask
<1> QED
  BY <1>1, <1>3, <1>4, <1>5, <1>6

LEMMA PresentPurge ==
  ASSUME Typed, Present, Lasting, NEW c \in Callers, PurgeTurn(c)
  PROVE  \A d \in Callers : PresentTask(task[d])'
<1>1. PICK t \in Tasks :
        /\ TaskMoves(c, t)
        /\ t = Idle \/ (IsPurging(t) /\ t.env = task[c].env /\ t.found = task[c].found)
  BY DEF PurgeTurn
<1>2. CASE t = Idle
  BY <1>1, <1>2, Kinds, PresentMoves DEF PresentTask
<1>3. CASE IsPurging(t) /\ t.env = task[c].env /\ t.found = task[c].found
  <2>1. IsPurging(task[c]) /\ ~ IsBranching(t)
    BY <1>3, Kinds DEF PurgeTurn, IsPurging
  <2>2. PresentTask(task[c]) /\ task[c].env \in Environments /\ task[c].found \in SUBSET Environments
    BY <2>1, PurgeTask DEF Present
  <2>3. session'[task[c].env] # "none" /\ \A e \in task[c].found : session'[e] # "none"
    BY <2>1, <2>2 DEF PresentTask, Lasting
  <2> QED
    BY <1>1, <1>3, <2>1, <2>3, PresentMoves DEF PresentTask
<1> QED
  BY <1>1, <1>2, <1>3

\* The uploads of a session that is still to be branched.
LEMMA FreshMoves ==
  ASSUME Typed, Present, Lasting,
         \/ SamePuts
         \/ \E e \in Environments, k \in Keys : \E r :
              /\ session[e] # "none"
              /\ \A f \in Environments, j \in Keys :
                   PutOf(f, j)' = IF f = e /\ j = k THEN r ELSE PutOf(f, j)
  PROVE  \A e \in Environments, k \in Keys : session'[e] = "none" => PutOf(e, k)'.status = "none"
BY DEF Present, Lasting, SamePuts

LEMMA StepsArePresent ==
  ASSUME Typed, PagesCounted, Present, [Next]_vars
  PROVE  Present'
<1>0. Lasting
  BY SessionsLast
<1>1. session'[Parent] # "none"
  BY <1>0 DEF Present, Lasting, Environments
<1> DEFINE Fresh == \A e \in Environments, k \in Keys : session'[e] = "none" => PutOf(e, k)'.status = "none"
           There == \A d \in Callers : PresentTask(task[d])'
<1> SUFFICES Fresh /\ There
  BY <1>1 DEF Present
<1>2. CASE SamePuts /\ task' = task
  <2>1. Fresh
    BY <1>0, <1>2, FreshMoves
  <2>2. There
    <3> SUFFICES ASSUME NEW d \in Callers PROVE PresentTask(task[d])'
      OBVIOUS
    <3>1. PresentTask(task[d]) /\ task'[d] = task[d]
      BY <1>2 DEF Present
    <3>2. IsPurging(task[d]) => task[d].env \in Environments /\ task[d].found \in SUBSET Environments
      BY PurgeTask
    <3> QED
      BY <1>0, <3>1, <3>2 DEF PresentTask, Lasting, Environments
  <2> QED
    BY <2>1, <2>2
<1>3. CASE StillSteps /\ Unmoved
  BY <1>2, <1>3 DEF StillSteps, Unmoved
<1>4. CASE Checkpoint
  BY <1>2, <1>4, CheckpointMoves DEF SameOperations
<1>5. CASE \E r \in wire : Land(r)
  BY <1>2, <1>5, LandMoves, OperationsStay DEF SameOperations
<1>6. ASSUME NEW c \in Callers, Moves(c) PROVE Fresh /\ There
  <2>0. PresentTask(Idle)' /\ Idle \in Tasks
    BY Kinds DEF PresentTask
  <2>1. CASE Turn(c)
    <3>1. Fresh
      BY <1>0, <2>1, FreshMoves DEF Turn, Unmoved
    <3> QED
      BY <1>0, <2>1, <3>1, PresentTurn
  <2>2. ASSUME NEW e \in Environments, NEW k \in Keys, NEW goal, NEW left,
               Reserves(c, e, k, goal, left), session[e] # "none", e = Child \/ goal = "put"
        PROVE  Fresh /\ There
    <3>1. Fresh
      <4>1. PICK o : \A f \in Environments, j \in Keys :
                       PutOf(f, j)' = IF f = e /\ j = k THEN o ELSE PutOf(f, j)
        BY <2>2 DEF Reserves
      <4> QED
        BY <1>0, <2>2, <4>1, FreshMoves
    <3>2. PICK t \in Puts \cup Copies : t.goal = goal /\ t.env = e /\ TaskMoves(c, t)
      BY <2>2 DEF Reserves
    <3>3. t \in Tasks /\ ~ IsPurging(t)
      BY AreTasks, Kinds DEF IsPurging
    <3>4. IsBranching(t) => session'[Child] # "none"
      <4>1. IsBranching(t) => t.goal = "branch" /\ t.env = Child
        BY Kinds DEF Puts, Copies, IsBranching
      <4> QED
        BY <1>0, <2>2, <3>2, <4>1 DEF Lasting, Environments
    <3> QED
      BY <1>0, <3>1, <3>2, <3>3, <3>4, PresentMoves DEF PresentTask
  <2>3. CASE /\ task[c] = Idle /\ session[Parent] = "exposed"
             /\ \E k \in Keys : Reserves(c, Parent, k, "put", {})
    BY <2>2, <2>3 DEF Environments
  <2>4. CASE /\ session[Child] # "erased" /\ task[c] \in Reads /\ task[c].key \in Keys
             /\ Reserves(c, Child, task[c].key, "branch", task[c].left)
    <3>1. session[Child] # "none" /\ Child \in Environments
      BY <2>4 DEF Present, PresentTask, IsBranching, Environments
    <3> QED
      BY <2>2, <2>4, <3>1
  <2>5. CASE Commits(c)
    <3>1. task[c].env \in Environments /\ task[c].key \in Keys
      BY <2>5, UploadTask DEF Commits
    <3>2. Fresh
      <4>1. CASE SamePuts
        BY <1>0, <4>1, FreshMoves
      <4>2. CASE ~ SamePuts
        <5>1. PutOf(task[c].env, task[c].key).status = "in_flight"
          BY <2>5, <4>2 DEF Commits
        <5>2. session[task[c].env] # "none"
          BY <3>1, <5>1 DEF Present
        <5> QED
          BY <1>0, <2>5, <3>1, <4>2, <5>2, FreshMoves DEF Commits
      <4> QED
        BY <4>1, <4>2
    <3>3. PICK t \in Tasks : TaskMoves(c, t) /\ (t = Idle \/ (task[c] \in Copies /\ t \in Branchings))
      BY <2>0, <2>5 DEF Commits
    <3>4. PresentTask(t)'
      <4>1. CASE t = Idle
        BY <2>0, <4>1
      <4>2. CASE task[c] \in Copies /\ t \in Branchings
        BY <1>0, <4>2, Kinds DEF Present, PresentTask, IsBranching, Lasting, Environments
      <4> QED
        BY <3>3, <4>1, <4>2
    <3> QED
      BY <1>0, <3>2, <3>3, <3>4, PresentMoves
  <2>6. CASE GivesUp(c)
    <3>1. Fresh
      <4>1. CASE SamePuts
        BY <1>0, <4>1, FreshMoves
      <4>2. CASE ~ SamePuts
        <5>0. PICK e \in Environments, k \in Keys : \E r :
                /\ PutOf(e, k).status = "in_flight"
                /\ \A f \in Environments, j \in Keys :
                     PutOf(f, j)' = IF f = e /\ j = k THEN r ELSE PutOf(f, j)
          BY <2>6, <4>2 DEF GivesUp
        <5>1. PICK r :
                /\ PutOf(e, k).status = "in_flight"
                /\ \A f \in Environments, j \in Keys :
                     PutOf(f, j)' = IF f = e /\ j = k THEN r ELSE PutOf(f, j)
          BY <5>0
        <5>2. session[e] # "none"
          BY <5>1 DEF Present
        <5> QED
          BY <1>0, <5>1, <5>2, FreshMoves
      <4> QED
        BY <4>1, <4>2
    <3> QED
      BY <1>0, <2>0, <2>6, <3>1, PresentMoves DEF GivesUp
  <2>7. CASE BranchBegin(c)
    <3>1. SamePuts /\ session'[Child] = "pending"
      BY <2>7, BranchBeginMoves DEF SameOperations
    <3>2. PICK t \in Branchings : TaskMoves(c, t)
      BY <2>7, BranchBeginMoves
    <3>3. PresentTask(t)' /\ t \in Tasks
      BY <3>1, AreTasks, Kinds DEF PresentTask
    <3> QED
      BY <1>0, <3>1, <3>2, <3>3, FreshMoves, PresentMoves
  <2>8. CASE BranchFinish(c)
    <3>1. SamePuts /\ TaskMoves(c, Idle)
      BY <2>8, BranchFinishMoves DEF SameOperations
    <3> QED
      BY <1>0, <2>0, <3>1, FreshMoves, PresentMoves
  <2>9. CASE EraseRows(c)
    <3>1. TaskMoves(c, Idle) /\ \A e \in Environments, n \in Names : operation'[e][n] = NoOperation
      BY <2>9, EraseRowsMoves
    <3>2. Fresh
      <4>1. NoOperation.status = "none"
        BY DEF NoOperation
      <4> QED
        BY <3>1, <4>1, Operations DEF PutOf
    <3> QED
      BY <1>0, <2>0, <3>1, <3>2, PresentMoves
  <2>10. CASE PurgeSteps(c)
    <3>1. PurgeTurn(c)
      BY <2>10, PurgeStepsMove
    <3>2. Fresh
      BY <1>0, <3>1, FreshMoves DEF PurgeTurn
    <3> QED
      BY <1>0, <3>1, <3>2, PresentPurge
  <2> HIDE DEF Fresh, There
  <2> QED
    BY <1>6, <2>1, <2>3, <2>4, <2>5, <2>6, <2>7, <2>8, <2>9, <2>10, Zenon DEF Moves
<1> HIDE DEF Fresh, There
<1> QED
  BY <1>3, <1>4, <1>5, <1>6, StepsAreTyped, Zenon

LEMMA InitIsPresent == Init => Present
<1> SUFFICES ASSUME Init PROVE Present
  OBVIOUS
<1>1. session[Parent] = "exposed"
  BY DEF Init, Environments
<1>2. \A c \in Callers : PresentTask(task[c])
  BY Kinds DEF Init, PresentTask
<1>3. \A e \in Environments, k \in Keys : PutOf(e, k).status = "none"
  <2>1. NoOperation.status = "none"
    BY DEF NoOperation
  <2>2. \A e \in Environments, k \in Keys : PutOf(e, k) = NoOperation
    BY Operations DEF Init, PutOf
  <2> QED
    BY <2>1, <2>2
<1> QED
  BY <1>1, <1>2, <1>3 DEF Present
------------------------------------------------------------------------------
(* What is in the bucket, or on its way there, is charged. *)

MarksOK ==
  \A e \in Environments, k \in Keys : PutOf(e, k).status = "none" <=> PutOf(e, k).attempts = 0

\* An upload in flight is of an attempt that was made, and that has not been
\* committed if it is current; one caller is sending it, or none any more.
UploadOK(r) ==
  /\ r.attempt <= PutOf(r.env, r.key).attempts
  /\ r.attempt = PutOf(r.env, r.key).attempts => PutOf(r.env, r.key).status # "committed"
UploadsOK ==
  \A r \in Uploads : session[r.env] # "erased" =>
    /\ InFlight(r) => UploadOK(r)
    /\ r \in wire => \A c \in Callers : ~ Sends(c, r)
    /\ \A c, d \in Callers : Sends(c, r) /\ Sends(d, r) => c = d

ChargedAt(e) ==
  /\ objects[e] \subseteq Tried(e)
  /\ usage[e].bytes = Bytes(Tried(e)) /\ usage[e].bytes <= MaxLiveBytes
  /\ usage[e].objects = Cardinality(Tried(e)) /\ usage[e].objects <= MaxObjects
ChargesOK == \A e \in Environments : session[e] # "erased" => ChargedAt(e)

\* No attempt is added and none is committed.
PutsProceed ==
  \A e \in Environments, k \in Keys :
    /\ PutOf(e, k)'.attempts = PutOf(e, k).attempts
    /\ PutOf(e, k)'.status = "committed" => PutOf(e, k).status = "committed"
    /\ PutOf(e, k)'.status = "none" <=> PutOf(e, k).status = "none"

LEMMA SamePutsProceed == SamePuts => PutsProceed
BY DEF SamePuts, PutsProceed

LEMMA UploadsCarry ==
  ASSUME Typed, UploadsOK, Lasting, PutsProceed,
         NEW c \in Callers, NEW t \in Tasks, TaskMoves(c, t), ~ IsUploading(t),
         \A r \in wire' : r \in wire \/ (r \in Uploads /\ Sends(c, r))
  PROVE  UploadsOK'
<1> SUFFICES ASSUME NEW r \in Uploads, session'[r.env] # "erased"
             PROVE  ( /\ InFlight(r) => UploadOK(r)
                      /\ r \in wire => \A d \in Callers : ~ Sends(d, r)
                      /\ \A b, d \in Callers : Sends(b, r) /\ Sends(d, r) => b = d )'
  BY DEF UploadsOK
<1>1. r.env \in Environments /\ r.key \in Keys /\ session[r.env] # "erased"
  BY DEF Uploads, Lasting
<1>2. /\ InFlight(r) => UploadOK(r)
      /\ r \in wire => \A d \in Callers : ~ Sends(d, r)
      /\ \A b, d \in Callers : Sends(b, r) /\ Sends(d, r) => b = d
  BY <1>1 DEF UploadsOK
<1>3. /\ ~ Sends(c, r)'
      /\ \A d \in Callers : d # c => (Sends(d, r)' <=> Sends(d, r))
  BY DEF TaskMoves, Sends, IsUploading
<1>4. InFlight(r)' => InFlight(r)
  BY <1>3 DEF InFlight
<1>5. UploadOK(r) => UploadOK(r)'
  <2>1. /\ PutOf(r.env, r.key)'.attempts = PutOf(r.env, r.key).attempts
        /\ PutOf(r.env, r.key)'.status = "committed" => PutOf(r.env, r.key).status = "committed"
    BY <1>1 DEF PutsProceed
  <2> QED
    BY <2>1 DEF UploadOK
<1>6. r \in wire' => \A d \in Callers : ~ Sends(d, r)'
  BY <1>2, <1>3
<1> QED
  BY <1>2, <1>3, <1>4, <1>5, <1>6

LEMMA UploadsShrink ==
  ASSUME Typed, UploadsOK, Lasting, PutsProceed, task' = task, wire' \subseteq wire
  PROVE  UploadsOK'
<1> SUFFICES ASSUME NEW r \in Uploads, session'[r.env] # "erased"
             PROVE  ( /\ InFlight(r) => UploadOK(r)
                      /\ r \in wire => \A d \in Callers : ~ Sends(d, r)
                      /\ \A b, d \in Callers : Sends(b, r) /\ Sends(d, r) => b = d )'
  BY DEF UploadsOK
<1>1. r.env \in Environments /\ r.key \in Keys /\ session[r.env] # "erased"
  BY DEF Uploads, Lasting
<1>2. /\ InFlight(r) => UploadOK(r)
      /\ r \in wire => \A d \in Callers : ~ Sends(d, r)
      /\ \A b, d \in Callers : Sends(b, r) /\ Sends(d, r) => b = d
  BY <1>1 DEF UploadsOK
<1>3. \A d \in Callers : Sends(d, r)' <=> Sends(d, r)
  BY DEF Sends
<1>4. InFlight(r)' => InFlight(r)
  BY <1>3 DEF InFlight
<1>5. UploadOK(r) => UploadOK(r)'
  <2>1. /\ PutOf(r.env, r.key)'.attempts = PutOf(r.env, r.key).attempts
        /\ PutOf(r.env, r.key)'.status = "committed" => PutOf(r.env, r.key).status = "committed"
    BY <1>1 DEF PutsProceed
  <2> QED
    BY <2>1 DEF UploadOK
<1> QED
  BY <1>2, <1>3, <1>4, <1>5

\* A new attempt is none of those in flight.
LEMMA UploadsReserve ==
  ASSUME Typed, UploadsOK, NEW c \in Callers, ~ IsUploading(task[c]),
         NEW e \in Environments, NEW k \in Keys, NEW goal, NEW left, Reserves(c, e, k, goal, left)
  PROVE  UploadsOK'
<1>1. PICK o : /\ o.status = "in_flight" /\ o.attempts = PutOf(e, k).attempts + 1
               /\ \A f \in Environments, j \in Keys :
                    PutOf(f, j)' = IF f = e /\ j = k THEN o ELSE PutOf(f, j)
  BY DEF Reserves
<1>2. PICK t \in Puts \cup Copies : /\ t.env = e /\ t.key = k
                                    /\ t.attempt = PutOf(e, k).attempts + 1 /\ TaskMoves(c, t)
  BY DEF Reserves
<1>3. wire' = wire /\ session' = session
  BY DEF Reserves
<1> SUFFICES ASSUME NEW r \in Uploads, session'[r.env] # "erased"
             PROVE  ( /\ InFlight(r) => UploadOK(r)
                      /\ r \in wire => \A d \in Callers : ~ Sends(d, r)
                      /\ \A b, d \in Callers : Sends(b, r) /\ Sends(d, r) => b = d )'
  BY DEF UploadsOK
<1>4. r.env \in Environments /\ r.key \in Keys /\ r.attempt \in Nat /\ session[r.env] # "erased"
  BY <1>3 DEF Uploads
<1>5. PutOf(e, k).attempts \in Nat /\ PutOf(r.env, r.key).attempts \in Nat
  BY <1>4, Operations, OperationTypes DEF PutOf
<1>6. /\ InFlight(r) => UploadOK(r)
      /\ r \in wire => \A d \in Callers : ~ Sends(d, r)
      /\ \A b, d \in Callers : Sends(b, r) /\ Sends(d, r) => b = d
  BY <1>4 DEF UploadsOK
<1>7. /\ ~ Sends(c, r)
      /\ Sends(c, r)' <=> (r.env = e /\ r.key = k /\ r.attempt = PutOf(e, k).attempts + 1)
      /\ \A d \in Callers : d # c => (Sends(d, r)' <=> Sends(d, r))
  BY <1>2 DEF TaskMoves, Sends, IsUploading
<1>8. CASE r.env = e /\ r.key = k
  <2>1. PutOf(r.env, r.key)' = o
    BY <1>1, <1>4, <1>8 DEF PutOf
  <2>2. InFlight(r) => r.attempt <= PutOf(e, k).attempts
    BY <1>6, <1>8 DEF UploadOK
  <2>3. CASE r.attempt = PutOf(e, k).attempts + 1
    <3>1. ~ InFlight(r)
      BY <1>5, <2>2, <2>3
    <3>2. r \notin wire /\ \A d \in Callers : ~ Sends(d, r)
      BY <3>1 DEF InFlight
    <3>3. UploadOK(r)'
      BY <1>1, <1>5, <2>1, <2>3 DEF UploadOK
    <3> QED
      BY <1>3, <1>7, <3>2, <3>3
  <2>4. CASE r.attempt # PutOf(e, k).attempts + 1
    <3>1. \A d \in Callers : Sends(d, r)' <=> Sends(d, r)
      BY <1>7, <2>4
    <3>2. InFlight(r)' => InFlight(r)
      BY <1>3, <3>1 DEF InFlight
    <3>3. InFlight(r) => UploadOK(r)'
      <4>1. InFlight(r) => r.attempt <= o.attempts /\ r.attempt # o.attempts
        BY <1>1, <1>4, <1>5, <2>2, <2>4
      <4> QED
        BY <2>1, <4>1 DEF UploadOK
    <3> QED
      BY <1>3, <1>6, <3>1, <3>2, <3>3
  <2> QED
    BY <2>3, <2>4
<1>9. CASE ~ (r.env = e /\ r.key = k)
  <2>1. PutOf(r.env, r.key)' = PutOf(r.env, r.key)
    BY <1>1, <1>4, <1>9
  <2>2. \A d \in Callers : Sends(d, r)' <=> Sends(d, r)
    BY <1>7, <1>9
  <2>3. InFlight(r)' <=> InFlight(r)
    BY <1>3, <2>2 DEF InFlight
  <2>4. UploadOK(r) => UploadOK(r)'
    BY <2>1 DEF UploadOK
  <2> QED
    BY <1>3, <1>6, <2>2, <2>3, <2>4
<1> QED
  BY <1>8, <1>9

\* A committed attempt was the only one of its number.
LEMMA UploadsCommit ==
  ASSUME Typed, MarksOK, UploadsOK, NEW c \in Callers, Commits(c), ~ SamePuts
  PROVE  UploadsOK'
<1>0. PICK e, k : e = task[c].env /\ k = task[c].key
  OBVIOUS
<1>1. /\ task[c] \in Puts \cup Copies /\ e \in Environments /\ k \in Keys
      /\ task[c].attempt \in Nat \ {0}
  BY <1>0, UploadTask DEF Commits
<1>2. PICK o : /\ o.status = "committed" /\ o.attempts = PutOf(e, k).attempts
               /\ \A f \in Environments, j \in Keys :
                    PutOf(f, j)' = IF f = e /\ j = k THEN o ELSE PutOf(f, j)
  BY <1>0 DEF Commits
<1>3. /\ PutOf(e, k).attempts = task[c].attempt
      /\ wire' = wire /\ session' = session /\ session[e] # "erased"
  BY <1>0 DEF Commits
<1>4. PICK t \in Tasks : TaskMoves(c, t) /\ ~ IsUploading(t)
  BY Kinds DEF Commits
<1> SUFFICES ASSUME NEW r \in Uploads, session'[r.env] # "erased"
             PROVE  ( /\ InFlight(r) => UploadOK(r)
                      /\ r \in wire => \A d \in Callers : ~ Sends(d, r)
                      /\ \A b, d \in Callers : Sends(b, r) /\ Sends(d, r) => b = d )'
  BY DEF UploadsOK
<1>5. r.env \in Environments /\ r.key \in Keys /\ r.attempt \in Nat /\ session[r.env] # "erased"
  BY <1>3 DEF Uploads
<1>6. /\ InFlight(r) => UploadOK(r)
      /\ r \in wire => \A d \in Callers : ~ Sends(d, r)
      /\ \A b, d \in Callers : Sends(b, r) /\ Sends(d, r) => b = d
  BY <1>5 DEF UploadsOK
<1>7. /\ ~ Sends(c, r)'
      /\ \A d \in Callers : d # c => (Sends(d, r)' <=> Sends(d, r))
  BY <1>4 DEF TaskMoves, Sends, IsUploading
<1>8. InFlight(r)' => InFlight(r)
  BY <1>3, <1>7 DEF InFlight
<1>9. InFlight(r)' => UploadOK(r)'
  <2>1. CASE r.env = e /\ r.key = k
    <3>1. PutOf(r.env, r.key)' = o
      BY <1>2, <1>5, <2>1
    <3>2. Sends(c, r) <=> r.attempt = PutOf(e, k).attempts
      BY <1>0, <1>1, <1>3, <2>1 DEF Sends
    <3>3. Sends(c, r) => ~ InFlight(r)'
      BY <1>1, <1>3, <1>6, <1>7 DEF InFlight
    <3>4. InFlight(r)' => r.attempt <= o.attempts /\ r.attempt # o.attempts
      BY <1>2, <1>6, <1>8, <2>1, <3>2, <3>3 DEF UploadOK
    <3> QED
      BY <3>1, <3>4 DEF UploadOK
  <2>2. CASE ~ (r.env = e /\ r.key = k)
    <3>1. PutOf(r.env, r.key)' = PutOf(r.env, r.key)
      BY <1>2, <1>5, <2>2
    <3> QED
      BY <1>6, <1>8, <3>1 DEF UploadOK
  <2> QED
    BY <2>1, <2>2
<1> QED
  BY <1>3, <1>6, <1>7, <1>9

\* An erasure leaves only sessions that nothing was ever sent for.
LEMMA ErasedMoves ==
  ASSUME Typed, Present, MarksOK, UploadsOK, NEW c \in Callers, EraseRows(c)
  PROVE  /\ \A e \in Environments : session'[e] # "erased" =>
               session[e] = "none" /\ \A k \in Keys : PutOf(e, k).attempts = 0
         /\ \A r \in Uploads : session'[r.env] # "erased" =>
               ~ InFlight(r)' /\ \A d \in Callers : ~ Sends(d, r)'
<1>1. /\ \A e \in Environments : session'[e] = IF e \in Live THEN "erased" ELSE session[e]
      /\ wire' = wire /\ TaskMoves(c, Idle)
  BY EraseRowsMoves
<1>2. ASSUME NEW e \in Environments, session'[e] # "erased"
      PROVE  session[e] = "none" /\ \A k \in Keys : PutOf(e, k).attempts = 0
  <2>1. session[e] \notin {"erased", "pending", "exposed"}
    BY <1>1, <1>2 DEF Live
  <2>2. session[e] = "none"
    BY <2>1 DEF Typed
  <2> QED
    BY <2>2 DEF Present, MarksOK
<1>3. ASSUME NEW r \in Uploads, session'[r.env] # "erased"
      PROVE  ~ InFlight(r)' /\ \A d \in Callers : ~ Sends(d, r)'
  <2>1. r.env \in Environments /\ r.key \in Keys /\ r.attempt \in Nat \ {0}
    BY DEF Uploads
  <2>2. session[r.env] = "none" /\ PutOf(r.env, r.key).attempts = 0
    BY <1>2, <1>3, <2>1
  <2>3. ~ InFlight(r)
    BY <2>1, <2>2 DEF UploadsOK, UploadOK
  <2>4. \A d \in Callers : Sends(d, r)' => Sends(d, r)
    BY <1>1, Kinds DEF TaskMoves, Sends, IsUploading
  <2> QED
    BY <1>1, <2>3, <2>4 DEF InFlight
<1> QED
  BY <1>2, <1>3

LEMMA ChargesStay ==
  ASSUME Typed, ChargesOK, Lasting, PutsProceed, SameCharges,
         \A e \in Environments : session'[e] # "erased" => objects'[e] \subseteq Tried(e)
  PROVE  ChargesOK'
<1> SUFFICES ASSUME NEW e \in Environments, session'[e] # "erased" PROVE ChargedAt(e)'
  BY DEF ChargesOK
<1>1. session[e] # "erased" /\ ChargedAt(e)
  BY DEF Lasting, ChargesOK
<1>2. Tried(e)' = Tried(e)
  BY DEF Tried, PutsProceed
<1> QED
  BY <1>1, <1>2 DEF ChargedAt, SameCharges

\* The objects of a step that stores none.
LEMMA ChargesShrink ==
  ASSUME Typed, ChargesOK, Lasting, PutsProceed, SameCharges,
         \A e \in Environments : objects'[e] \subseteq objects[e]
  PROVE  ChargesOK'
<1>1. \A e \in Environments : session'[e] # "erased" => objects'[e] \subseteq Tried(e)
  BY DEF Lasting, ChargesOK, ChargedAt
<1> QED
  BY <1>1, ChargesStay

LEMMA ChargesStored ==
  ASSUME Typed, ChargesOK, UploadsOK, Lasting, PutsProceed, SameCharges,
         NEW r \in Uploads, InFlight(r), Stores(r.env, r.key)
  PROVE  ChargesOK'
<1>1. r.env \in Environments /\ r.key \in Keys /\ r.attempt \in Nat \ {0}
  BY DEF Uploads
<1>2. PutOf(r.env, r.key).attempts \in Nat
  BY <1>1, Operations, OperationTypes DEF PutOf
<1>3. session'[r.env] # "erased" => r.key \in Tried(r.env)
  BY <1>1, <1>2 DEF Lasting, UploadsOK, UploadOK, Tried
<1>4. \A e \in Environments : session'[e] # "erased" => objects'[e] \subseteq Tried(e)
  <2> SUFFICES ASSUME NEW e \in Environments, session'[e] # "erased" PROVE objects'[e] \subseteq Tried(e)
    OBVIOUS
  <2>1. objects[e] \subseteq Tried(e)
    BY DEF Lasting, ChargesOK, ChargedAt
  <2>2. e = r.env => r.key \in Tried(e)
    BY <1>3
  <2>3. objects'[e] = IF e = r.env THEN objects[e] \cup {r.key} ELSE objects[e]
    BY DEF Stores
  <2> QED
    BY <2>1, <2>2, <2>3
<1> QED
  BY <1>4, ChargesStay

LEMMA SizesOfKeys ==
  ASSUME NEW S \in SUBSET Keys
  PROVE  /\ IsFiniteSet(S) /\ \A x \in S : SizeOf[x] \in Nat
         /\ Bytes(S) \in Nat /\ Cardinality(S) \in Nat
         /\ \A T \in SUBSET S : Bytes(T) <= Bytes(S) /\ Cardinality(T) <= Cardinality(S)
         /\ \A k \in Keys \ S : /\ Bytes(S \cup {k}) = Bytes(S) + SizeOf[k]
                                /\ Cardinality(S \cup {k}) = Cardinality(S) + 1
<1>1. IsFiniteSet(S) /\ \A x \in Keys : SizeOf[x] \in Nat
  BY KeysAreFinite, SizeAssumption
<1>2. \A x \in S : SizeOf[x] \in Nat
  BY <1>1
<1>3. Bytes(S) \in Nat /\ Cardinality(S) \in Nat
  BY <1>1, <1>2, SumType, FS_CardinalityType DEF Bytes
<1>4. ASSUME NEW T \in SUBSET S
      PROVE  Bytes(T) <= Bytes(S) /\ Cardinality(T) <= Cardinality(S)
  BY <1>1, <1>2, SumOfPart, FS_Subset DEF Bytes
<1>5. ASSUME NEW k \in Keys \ S
      PROVE  /\ Bytes(S \cup {k}) = Bytes(S) + SizeOf[k]
             /\ Cardinality(S \cup {k}) = Cardinality(S) + 1
  BY <1>1, <1>2, SumAdds, FS_AddElement DEF Bytes
<1> QED
  BY <1>1, <1>2, <1>3, <1>4, <1>5

LEMMA ChargesReserve ==
  ASSUME Typed, MarksOK, ChargesOK,
         NEW c \in Callers, NEW e \in Environments, NEW k \in Keys, NEW goal, NEW left,
         Reserves(c, e, k, goal, left)
  PROVE  ChargesOK'
<1>1. PICK o : /\ o.status = "in_flight" /\ o.attempts = PutOf(e, k).attempts + 1
               /\ \A f \in Environments, j \in Keys :
                    PutOf(f, j)' = IF f = e /\ j = k THEN o ELSE PutOf(f, j)
  BY DEF Reserves
<1>2. objects' = objects /\ session' = session
  BY DEF Reserves
<1> SUFFICES ASSUME NEW f \in Environments, session'[f] # "erased" PROVE ChargedAt(f)'
  BY DEF ChargesOK
<1>3. ChargedAt(f) /\ Tried(f) \in SUBSET Keys
  BY <1>2 DEF ChargesOK, Tried
<1>4. CASE f # e
  <2>1. Tried(f)' = Tried(f)
    BY <1>1, <1>4 DEF Tried
  <2> QED
    BY <1>2, <1>3, <1>4, <2>1 DEF ChargedAt, Reserves
<1>5. CASE f = e
  <2>1. PutOf(e, k).attempts \in Nat
    BY Operations, OperationTypes DEF PutOf
  <2>2. Tried(f)' = Tried(f) \cup {k}
    BY <1>1, <1>5, <2>1 DEF Tried
  <2>3. CASE PutOf(e, k).status = "none"
    <3>1. k \in Keys \ Tried(f)
      BY <1>5, <2>3 DEF MarksOK, Tried
    <3>2. /\ Bytes(Tried(f) \cup {k}) = Bytes(Tried(f)) + SizeOf[k]
          /\ Cardinality(Tried(f) \cup {k}) = Cardinality(Tried(f)) + 1
      BY <1>3, <3>1, SizesOfKeys
    <3>3. /\ usage[f].bytes + SizeOf[k] <= MaxLiveBytes /\ usage[f].objects < MaxObjects
          /\ usage'[f].bytes = usage[f].bytes + SizeOf[k]
          /\ usage'[f].objects = usage[f].objects + 1
      BY <1>5, <2>3 DEF Reserves
    <3>4. usage[f].objects \in Nat /\ MaxObjects \in Nat
      BY UsageTypes, BudgetAssumption
    <3>5. usage[f].objects + 1 <= MaxObjects
      BY <3>3, <3>4
    <3> QED
      BY <1>2, <1>3, <2>2, <3>2, <3>3, <3>5 DEF ChargedAt
  <2>4. CASE PutOf(e, k).status # "none"
    <3>1. k \in Tried(f)
      BY <1>5, <2>1, <2>4 DEF MarksOK, Tried
    <3>2. Tried(f)' = Tried(f)
      BY <2>2, <3>1
    <3>3. usage'[f].bytes = usage[f].bytes /\ usage'[f].objects = usage[f].objects
      BY <1>5, <2>4 DEF Reserves
    <3> QED
      BY <1>2, <1>3, <3>2, <3>3 DEF ChargedAt
  <2> QED
    BY <2>3, <2>4
<1> QED
  BY <1>4, <1>5

\* A reply stores what was charged when its attempt was reserved.
LEMMA CommitCharges ==
  ASSUME Typed, ChargesOK, UploadsOK, Lasting, SameCharges,
         NEW r \in Uploads, InFlight(r), Stores(r.env, r.key),
         NEW o, o.attempts = PutOf(r.env, r.key).attempts,
         \A f \in Environments, j \in Keys :
           PutOf(f, j)' = IF f = r.env /\ j = r.key THEN o ELSE PutOf(f, j)
  PROVE  ChargesOK'
<1>1. r.env \in Environments /\ r.key \in Keys /\ r.attempt \in Nat \ {0}
  BY DEF Uploads
<1>2. PutOf(r.env, r.key).attempts \in Nat
  BY <1>1, Operations, OperationTypes DEF PutOf
<1>3. session'[r.env] # "erased" => r.key \in Tried(r.env)
  BY <1>1, <1>2 DEF Lasting, UploadsOK, UploadOK, Tried
<1> SUFFICES ASSUME NEW e \in Environments, session'[e] # "erased" PROVE ChargedAt(e)'
  BY DEF ChargesOK
<1>4. ChargedAt(e)
  BY DEF Lasting, ChargesOK
<1>5. Tried(e)' = Tried(e)
  BY <1>1 DEF Tried
<1>6. objects'[e] \subseteq Tried(e)
  <2>1. objects'[e] = IF e = r.env THEN objects[e] \cup {r.key} ELSE objects[e]
    BY DEF Stores
  <2>2. objects[e] \subseteq Tried(e)
    BY <1>4 DEF ChargedAt
  <2> QED
    BY <1>3, <2>1, <2>2
<1> QED
  BY <1>4, <1>5, <1>6 DEF ChargedAt, SameCharges

LEMMA MarksMove ==
  ASSUME Typed, MarksOK,
         \/ PutsProceed
         \/ \E e \in Environments, k \in Keys : \E o :
              /\ o.status # "none" /\ o.attempts \in Nat \ {0}
              /\ \A f \in Environments, j \in Keys :
                   PutOf(f, j)' = IF f = e /\ j = k THEN o ELSE PutOf(f, j)
  PROVE  MarksOK'
BY DEF MarksOK, PutsProceed

\* What a failure or a reply does to a put that was tried.
LEMMA SettledPut ==
  ASSUME Typed, MarksOK, NEW e \in Environments, NEW k \in Keys, NEW o,
         PutOf(e, k).status = "in_flight", o.status = "unknown", o.attempts = PutOf(e, k).attempts,
         \A f \in Environments, j \in Keys :
           PutOf(f, j)' = IF f = e /\ j = k THEN o ELSE PutOf(f, j)
  PROVE  PutsProceed
BY DEF PutsProceed

Charged == MarksOK /\ UploadsOK /\ ChargesOK

LEMMA EraseIsCharged ==
  ASSUME Typed, Present, Charged, NEW c \in Callers, EraseRows(c)
  PROVE  Charged'
<1>1. /\ \A e \in Environments :
           usage'[e] = NoUsage /\ \A n \in Names : operation'[e][n] = NoOperation
      /\ objects' = objects
  BY EraseRowsMoves
<1>2. /\ \A e \in Environments : session'[e] # "erased" =>
               session[e] = "none" /\ \A k \in Keys : PutOf(e, k).attempts = 0
      /\ \A r \in Uploads : session'[r.env] # "erased" =>
               ~ InFlight(r)' /\ \A d \in Callers : ~ Sends(d, r)'
  BY ErasedMoves DEF Charged
<1>3. \A e \in Environments, k \in Keys : PutOf(e, k)'.status = "none" /\ PutOf(e, k)'.attempts = 0
  <2>1. NoOperation.status = "none" /\ NoOperation.attempts = 0
    BY DEF NoOperation
  <2>2. \A e \in Environments, k \in Keys : PutOf(e, k)' = NoOperation
    BY <1>1, Operations DEF PutOf
  <2> QED
    BY <2>1, <2>2
<1>4. MarksOK'
  BY <1>3 DEF MarksOK
<1>5. UploadsOK'
  BY <1>2 DEF UploadsOK, InFlight
<1>6. ASSUME NEW e \in Environments, session'[e] # "erased" PROVE ChargedAt(e)'
  <2>0. session[e] = "none" /\ \A k \in Keys : PutOf(e, k).attempts = 0
    BY <1>2, <1>6
  <2>1. Tried(e) = {} /\ objects[e] \subseteq Tried(e)
    <3>1. Tried(e) = {}
      BY <2>0 DEF Tried
    <3>2. ChargedAt(e)
      BY <2>0 DEF Charged, ChargesOK
    <3> QED
      BY <3>1, <3>2 DEF ChargedAt
  <2>2. Tried(e)' = {}
    BY <1>3 DEF Tried
  <2>3. NoUsage.bytes = 0 /\ NoUsage.objects = 0
    BY DEF NoUsage
  <2>4. Bytes({}) = 0 /\ Cardinality({}) = 0
    BY SumOfNothing, FS_EmptySet DEF Bytes
  <2>5. MaxLiveBytes \in Nat /\ MaxObjects \in Nat /\ MaxLiveBytes >= 0 /\ MaxObjects >= 0
    BY BudgetAssumption
  <2> QED
    BY <1>1, <1>6, <2>1, <2>2, <2>3, <2>4, <2>5 DEF ChargedAt
<1> QED
  BY <1>4, <1>5, <1>6 DEF Charged, ChargesOK

LEMMA StepsAreCharged ==
  ASSUME Typed, PagesCounted, Present, Charged, [Next]_vars
  PROVE  Charged'
<1>0. Lasting /\ MarksOK /\ UploadsOK /\ ChargesOK
  BY SessionsLast DEF Charged
<1>1. CASE SamePuts /\ SameCharges /\ task' = task /\ wire' \subseteq wire /\ objects' = objects
  BY <1>0, <1>1, SamePutsProceed, MarksMove, UploadsShrink, ChargesShrink DEF Charged
<1>2. CASE StillSteps /\ Unmoved
  BY <1>1, <1>2 DEF StillSteps, Unmoved, bucket
<1>3. CASE Checkpoint
  BY <1>1, <1>3, CheckpointMoves DEF SameOperations
<1>4. CASE \E r \in wire : Land(r)
  <2>1. PICK r \in wire : Land(r)
    BY <1>4
  <2>2. /\ r \in Uploads /\ InFlight(r) /\ Stores(r.env, r.key) /\ wire' \subseteq wire /\ task' = task
        /\ SamePuts /\ SameCharges
    BY <2>1, LandMoves, OperationsStay DEF InFlight, SameOperations
  <2> QED
    BY <1>0, <2>2, SamePutsProceed, MarksMove, UploadsShrink, ChargesStored DEF Charged
<1>5. ASSUME NEW c \in Callers, NEW t \in Tasks, TaskMoves(c, t), ~ IsUploading(t),
             PutsProceed, SameCharges, \A e \in Environments : objects'[e] \subseteq objects[e],
             \A r \in wire' : r \in wire \/ (r \in Uploads /\ Sends(c, r))
      PROVE  Charged'
  BY <1>0, <1>5, MarksMove, UploadsCarry, ChargesShrink DEF Charged
<1>6. ASSUME NEW c \in Callers, Moves(c) PROVE Charged'
  <2>1. CASE Turn(c)
    <3>1. PICK t \in Tasks : TaskMoves(c, t) /\ ~ IsUploading(t)
      BY <2>1, Kinds DEF Turn, Continues, Starts, Proceeds
    <3> QED
      BY <1>5, <2>1, <3>1, SamePutsProceed DEF Turn, Unmoved
  <2>2. ASSUME NEW e \in Environments, NEW k \in Keys, NEW goal, NEW left,
               Reserves(c, e, k, goal, left), ~ IsUploading(task[c])
        PROVE  Charged'
    <3>1. PutOf(e, k).attempts \in Nat
      BY Operations, OperationTypes DEF PutOf
    <3>2. MarksOK'
      <4>1. PICK o : /\ o.status = "in_flight" /\ o.attempts = PutOf(e, k).attempts + 1
                     /\ \A f \in Environments, j \in Keys :
                          PutOf(f, j)' = IF f = e /\ j = k THEN o ELSE PutOf(f, j)
        BY <2>2 DEF Reserves
      <4>2. o.status # "none" /\ o.attempts \in Nat \ {0}
        BY <3>1, <4>1
      <4> QED
        BY <1>0, <4>1, <4>2, MarksMove
    <3> QED
      BY <1>0, <2>2, <3>2, UploadsReserve, ChargesReserve DEF Charged
  <2>3. CASE /\ task[c] = Idle /\ session[Parent] = "exposed"
             /\ \E k \in Keys : Reserves(c, Parent, k, "put", {})
    BY <2>2, <2>3, Kinds DEF Environments
  <2>4. CASE /\ session[Child] # "erased" /\ task[c] \in Reads /\ task[c].key \in Keys
             /\ Reserves(c, Child, task[c].key, "branch", task[c].left)
    <3>1. Child \in Environments /\ ~ IsUploading(task[c])
      BY <2>4, Kinds DEF Environments
    <3> QED
      BY <2>2, <2>4, <3>1
  <2>5. CASE Commits(c)
    <3>1. /\ task[c] \in Puts \cup Copies /\ task[c].env \in Environments /\ task[c].key \in Keys
          /\ task[c].attempt \in Nat \ {0}
      BY <2>5, UploadTask DEF Commits
    <3> DEFINE r == [env |-> task[c].env, key |-> task[c].key, attempt |-> task[c].attempt]
    <3>2. r \in Uploads /\ Sends(c, r) /\ r.env = task[c].env /\ r.key = task[c].key
      BY <3>1 DEF Uploads, Sends
    <3> HIDE DEF r
    <3>3. InFlight(r) /\ Stores(r.env, r.key)
      BY <2>5, <3>2 DEF InFlight, Commits
    <3>4. SameCharges /\ wire' = wire
      BY <2>5 DEF Commits
    <3>5. CASE SamePuts
      <4>1. PICK t \in Tasks : TaskMoves(c, t) /\ ~ IsUploading(t)
        BY <2>5, Kinds DEF Commits
      <4> QED
        BY <1>0, <3>2, <3>3, <3>4, <3>5, <4>1, SamePutsProceed, MarksMove, UploadsCarry, ChargesStored
        DEF Charged
    <3>6. CASE ~ SamePuts
      <4>1. UploadsOK'
        BY <1>0, <2>5, <3>6, UploadsCommit
      <4>2. PICK o : /\ o.status = "committed" /\ o.attempts = PutOf(task[c].env, task[c].key).attempts
                     /\ \A f \in Environments, j \in Keys :
                          PutOf(f, j)' = IF f = task[c].env /\ j = task[c].key THEN o ELSE PutOf(f, j)
        BY <2>5, <3>6 DEF Commits
      <4>3. PutOf(task[c].env, task[c].key).attempts = task[c].attempt
        BY <2>5, <3>6 DEF Commits
      <4>4. MarksOK'
        BY <1>0, <3>1, <4>2, <4>3, MarksMove
      <4>5. ChargesOK'
        BY <1>0, <3>2, <3>3, <3>4, <4>2, CommitCharges
      <4> QED
        BY <4>1, <4>4, <4>5 DEF Charged
    <3> QED
      BY <3>5, <3>6
  <2>6. CASE GivesUp(c)
    <3>1. PutsProceed
      <4>1. CASE SamePuts
        BY <4>1, SamePutsProceed
      <4>2. CASE ~ SamePuts
        BY <1>0, <2>6, <4>2, SettledPut DEF GivesUp
      <4> QED
        BY <4>1, <4>2
    <3> QED
      BY <1>5, <2>6, <3>1, Kinds DEF GivesUp
  <2>7. CASE BranchBegin(c)
    <3>1. PICK t \in Branchings : TaskMoves(c, t)
      BY <2>7, BranchBeginMoves
    <3>2. t \in Tasks /\ ~ IsUploading(t) /\ SamePuts /\ SameCharges /\ objects' = objects /\ wire' = wire
      BY <2>7, BranchBeginMoves, AreTasks, Kinds DEF SameOperations
    <3> QED
      BY <1>5, <3>1, <3>2, SamePutsProceed
  <2>8. CASE BranchFinish(c)
    BY <1>5, <2>8, BranchFinishMoves, Kinds, SamePutsProceed DEF SameOperations
  <2>9. CASE EraseRows(c)
    BY <2>9, EraseIsCharged
  <2>10. CASE PurgeSteps(c)
    <3>1. PurgeTurn(c)
      BY <2>10, PurgeStepsMove
    <3>2. PICK t \in Tasks : TaskMoves(c, t) /\ ~ IsUploading(t)
      BY <3>1, Kinds DEF PurgeTurn, IsPurging
    <3> QED
      BY <1>5, <3>1, <3>2, SamePutsProceed DEF PurgeTurn
  <2> QED
    BY <1>6, <2>1, <2>3, <2>4, <2>5, <2>6, <2>7, <2>8, <2>9, <2>10, Zenon DEF Moves
<1> QED
  BY <1>2, <1>3, <1>4, <1>6, StepsAreTyped, Zenon

LEMMA InitIsCharged == Init => Charged
<1> SUFFICES ASSUME Init PROVE Charged
  OBVIOUS
<1>1. \A e \in Environments, k \in Keys : PutOf(e, k).status = "none" /\ PutOf(e, k).attempts = 0
  <2>1. NoOperation.status = "none" /\ NoOperation.attempts = 0
    BY DEF NoOperation
  <2>2. \A e \in Environments, k \in Keys : PutOf(e, k) = NoOperation
    BY Operations DEF Init, PutOf
  <2> QED
    BY <2>1, <2>2
<1>2. MarksOK
  BY <1>1 DEF MarksOK
<1>3. UploadsOK
  <2>1. wire = {} /\ \A c \in Callers : task[c] = Idle
    BY DEF Init
  <2>2. \A c \in Callers, r \in Uploads : ~ Sends(c, r)
    BY <2>1, Kinds DEF Sends, IsUploading
  <2> QED
    BY <2>1, <2>2 DEF UploadsOK, InFlight
<1>4. ASSUME NEW e \in Environments PROVE ChargedAt(e)
  <2>1. Tried(e) = {}
    BY <1>1 DEF Tried
  <2>2. usage[e] = NoUsage /\ objects[e] = {}
    BY DEF Init
  <2>3. NoUsage.bytes = 0 /\ NoUsage.objects = 0
    BY DEF NoUsage
  <2>4. Bytes({}) = 0 /\ Cardinality({}) = 0
    BY SumOfNothing, FS_EmptySet DEF Bytes
  <2>5. MaxLiveBytes \in Nat /\ MaxObjects \in Nat /\ MaxLiveBytes >= 0 /\ MaxObjects >= 0
    BY BudgetAssumption
  <2> QED
    BY <2>1, <2>2, <2>3, <2>4, <2>5 DEF ChargedAt
<1> QED
  BY <1>2, <1>3, <1>4 DEF Charged, ChargesOK

\* What may still land in a bucket is in flight.
LEMMA OnTheWayIsInFlight ==
  ASSUME Typed, NEW e \in Environments, NEW k \in OnTheWay(e)
  PROVE  \E r \in Uploads : InFlight(r) /\ r.env = e /\ r.key = k
<1>1. PICK r \in wire \cup UNION {Upload(task[c]) : c \in {d \in Callers : task[d] # Idle}} :
        r.env = e /\ r.key = k
  BY DEF OnTheWay
<1>2. CASE r \in wire
  BY <1>1, <1>2 DEF Typed, InFlight
<1>3. CASE \E c \in Callers : task[c] # Idle /\ r \in Upload(task[c])
  BY <1>1, <1>3, UploadSends DEF InFlight
<1> QED
  BY <1>1, <1>2, <1>3

LEMMA OnTheWayIsTried ==
  ASSUME Typed, Charged, NEW e \in Environments, session[e] # "erased"
  PROVE  OnTheWay(e) \subseteq Tried(e)
<1> SUFFICES ASSUME NEW k \in OnTheWay(e) PROVE k \in Tried(e)
  OBVIOUS
<1>1. PICK r \in Uploads : InFlight(r) /\ r.env = e /\ r.key = k
  BY OnTheWayIsInFlight
<1>2. r.attempt \in Nat \ {0} /\ k \in Keys
  BY <1>1 DEF Uploads
<1>3. r.attempt <= PutOf(e, k).attempts
  BY <1>1 DEF Charged, UploadsOK, UploadOK
<1>4. PutOf(e, k).attempts \in Nat
  BY <1>2, Operations, OperationTypes DEF PutOf
<1> QED
  BY <1>2, <1>3, <1>4 DEF Tried

LEMMA ChargesHold ==
  ASSUME Typed, Charged
  PROVE  BucketIsCharged
<1> SUFFICES ASSUME NEW e \in Environments, session[e] # "erased"
             PROVE  /\ Bytes(objects[e] \cup OnTheWay(e)) <= usage[e].bytes
                    /\ usage[e].bytes <= MaxLiveBytes
                    /\ Cardinality(objects[e] \cup OnTheWay(e)) <= usage[e].objects
                    /\ usage[e].objects <= MaxObjects
                    /\ usage[e].objects =
                         Cardinality({k \in Keys : operation[e][<<"put", k>>].attempts > 0})
  BY Zenon DEF BucketIsCharged
<1>1. ChargedAt(e)
  BY DEF Charged, ChargesOK
<1>2. Tried(e) = {k \in Keys : operation[e][<<"put", k>>].attempts > 0}
  BY DEF Tried, PutOf
<1>3. objects[e] \cup OnTheWay(e) \in SUBSET Tried(e) /\ Tried(e) \in SUBSET Keys
  BY <1>1, OnTheWayIsTried DEF ChargedAt, Tried
<1> QED
  BY <1>1, <1>2, <1>3, SizesOfKeys DEF ChargedAt

------------------------------------------------------------------------------
(* A branch: what was committed is indexed, and what a branching caller no *)
(* longer has left is indexed in the child.                                *)

Copied == \A e \in Environments, k \in Keys : PutOf(e, k).status = "committed" => k \in artifacts[e]
BranchesOK ==
  \A c \in Callers : session[Child] # "erased" /\ IsBranching(task[c]) =>
    checkpoint \ task[c].left \subseteq artifacts[Child]
Frozen == session[Child] \in {"pending", "exposed"} => checkpoint # {}
Branched == Copied /\ BranchesOK /\ Frozen /\ ExposedBranchIsWhole

Grows == \A e \in Environments : artifacts[e] \subseteq artifacts'[e]

LEMMA CopiedProceeds ==
  ASSUME Copied, PutsProceed, Grows
  PROVE  Copied'
BY DEF Copied, PutsProceed, Grows

\* One copy changes, and is indexed if it is committed.
LEMMA CopiedMoves ==
  ASSUME Copied, Grows, NEW e \in Environments, NEW k \in Keys, NEW o,
         \A f \in Environments, j \in Keys :
           PutOf(f, j)' = IF f = e /\ j = k THEN o ELSE PutOf(f, j),
         o.status = "committed" => k \in artifacts'[e]
  PROVE  Copied'
BY DEF Copied, Grows

LEMMA BranchesMove ==
  ASSUME Typed, BranchesOK, Lasting, Grows, checkpoint' = checkpoint,
         NEW c \in Callers, NEW t, TaskMoves(c, t),
         session'[Child] # "erased" /\ IsBranching(t) => checkpoint \ t.left \subseteq artifacts'[Child]
  PROVE  BranchesOK'
<1> SUFFICES ASSUME NEW d \in Callers, session'[Child] # "erased", IsBranching(task'[d])
             PROVE  checkpoint' \ task'[d].left \subseteq artifacts'[Child]
  BY DEF BranchesOK, IsBranching
<1>1. CASE d = c
  BY <1>1 DEF TaskMoves
<1>2. CASE d # c
  <2>1. task'[d] = task[d] /\ Child \in Environments
    BY <1>2 DEF TaskMoves, Environments
  <2>2. session[Child] # "erased"
    BY <2>1 DEF Lasting
  <2> QED
    BY <2>1, <2>2 DEF BranchesOK, Grows
<1> QED
  BY <1>1, <1>2

LEMMA BranchesStay ==
  ASSUME BranchesOK, Grows, UNCHANGED <<session, checkpoint, task>>
  PROVE  BranchesOK'
BY DEF BranchesOK, Grows, Environments

LEMMA WholeStays ==
  ASSUME Frozen, ExposedBranchIsWhole, Grows, UNCHANGED <<session, aliases, checkpoint>>
  PROVE  Frozen' /\ ExposedBranchIsWhole'
BY DEF Frozen, ExposedBranchIsWhole, Grows, Environments

LEMMA StepsAreBranched ==
  ASSUME Typed, PagesCounted, Present, Charged, Branched, [Next]_vars
  PROVE  Branched'
<1>0. Lasting /\ MarksOK /\ Copied /\ BranchesOK /\ Frozen /\ ExposedBranchIsWhole
      /\ Child \in Environments /\ Parent \in Environments
  BY SessionsLast DEF Charged, Branched, Environments
<1>1. CASE SamePuts /\ UNCHANGED <<session, artifacts, aliases, checkpoint, task>>
  <2>1. Grows
    BY <1>1 DEF Grows
  <2> QED
    BY <1>0, <1>1, <2>1, SamePutsProceed, CopiedProceeds, BranchesStay, WholeStays DEF Branched
<1>2. CASE StillSteps /\ Unmoved
  BY <1>1, <1>2 DEF StillSteps, Unmoved
<1>3. CASE Checkpoint
  <2>1. /\ SamePuts /\ checkpoint = {}
        /\ UNCHANGED <<session, artifacts, aliases, task>>
    BY <1>3, CheckpointMoves DEF SameOperations
  <2>2. Grows
    BY <2>1 DEF Grows
  <2>3. session'[Child] \notin {"pending", "exposed"}
    BY <1>0, <2>1 DEF Frozen
  <2>4. BranchesOK'
    <3> SUFFICES ASSUME NEW d \in Callers, session'[Child] # "erased", IsBranching(task'[d])
                 PROVE  FALSE
      BY DEF BranchesOK, IsBranching
    <3>1. session[Child] # "none"
      BY <2>1 DEF Present, PresentTask
    <3> QED
      BY <1>0, <2>1, <2>3, <3>1 DEF Typed
  <2> QED
    BY <1>0, <2>1, <2>2, <2>3, <2>4, SamePutsProceed, CopiedProceeds
    DEF Branched, Frozen, ExposedBranchIsWhole
<1>4. CASE \E r \in wire : Land(r)
  <2>1. UNCHANGED <<session, usage, operation, artifacts, aliases, checkpoint, task>>
    BY <1>4, LandMoves
  <2>2. SamePuts
    BY <2>1, OperationsStay DEF SameOperations
  <2> QED
    BY <1>1, <2>1, <2>2
<1>5. ASSUME NEW c \in Callers, NEW t \in Tasks, TaskMoves(c, t), PutsProceed,
             UNCHANGED <<session, artifacts, aliases, checkpoint>>,
             IsBranching(t) /\ session[Child] # "erased" => checkpoint \ t.left \subseteq artifacts[Child]
      PROVE  Branched'
  <2>1. Grows
    BY <1>5 DEF Grows
  <2>2. BranchesOK'
    BY <1>0, <1>5, <2>1, BranchesMove
  <2> QED
    BY <1>0, <1>5, <2>1, <2>2, CopiedProceeds, WholeStays DEF Branched
<1>6. ASSUME NEW c \in Callers, Moves(c) PROVE Branched'
  <2>1. CASE Turn(c)
    <3>1. PICK t \in Tasks : /\ t = Idle \/ Continues(c, t) \/ Starts(c, t) \/ Proceeds(c, t)
                             /\ Unmoved /\ TaskMoves(c, t)
      BY <2>1 DEF Turn
    <3>2. IsBranching(t) /\ session[Child] # "erased" => checkpoint \ t.left \subseteq artifacts[Child]
      <4>1. CASE Continues(c, t)
        <5>1. IsBranching(task[c])
          BY <4>1 DEF Continues
        <5>2. session[Child] # "erased" => checkpoint \ task[c].left \subseteq artifacts[Child]
          BY <1>0, <5>1 DEF BranchesOK
        <5> QED
          BY <1>0, <4>1, <5>2 DEF Continues, Copied
      <4>2. CASE t = Idle \/ Starts(c, t) \/ Proceeds(c, t)
        BY <4>2, Kinds DEF Starts, Proceeds
      <4> QED
        BY <3>1, <4>1, <4>2
    <3> QED
      BY <1>5, <3>1, <3>2, SamePutsProceed DEF Unmoved
  <2>2. ASSUME NEW e \in Environments, NEW k \in Keys, NEW goal, NEW left,
               Reserves(c, e, k, goal, left),
               e = Child => IsBranching(task[c]) /\ left = task[c].left
        PROVE  Branched'
    <3>1. UNCHANGED <<session, artifacts, aliases, checkpoint>>
      BY <2>2 DEF Reserves
    <3>2. Grows
      BY <3>1 DEF Grows
    <3>3. Copied'
      <4>1. PICK o : /\ o.status = "in_flight"
                     /\ \A f \in Environments, j \in Keys :
                          PutOf(f, j)' = IF f = e /\ j = k THEN o ELSE PutOf(f, j)
        BY <2>2 DEF Reserves
      <4>2. o.status # "committed"
        BY <4>1
      <4> QED
        BY <1>0, <3>2, <4>1, <4>2, CopiedMoves
    <3>4. PICK t \in Puts \cup Copies : t.left = left /\ t.env = e /\ TaskMoves(c, t)
      BY <2>2 DEF Reserves
    <3>5. IsBranching(t) => e = Child
      BY <3>4, Kinds DEF Copies
    <3>6. session'[Child] # "erased" /\ IsBranching(t) => checkpoint \ t.left \subseteq artifacts'[Child]
      BY <1>0, <2>2, <3>1, <3>4, <3>5 DEF BranchesOK
    <3>7. BranchesOK'
      BY <1>0, <3>1, <3>2, <3>4, <3>6, BranchesMove
    <3> QED
      BY <1>0, <3>1, <3>2, <3>3, <3>7, WholeStays DEF Branched
  <2>3. CASE /\ task[c] = Idle /\ session[Parent] = "exposed"
             /\ \E k \in Keys : Reserves(c, Parent, k, "put", {})
    BY <1>0, <2>2, <2>3, EnvironmentsAssumption
  <2>4. CASE /\ session[Child] # "erased" /\ task[c] \in Reads /\ task[c].key \in Keys
             /\ Reserves(c, Child, task[c].key, "branch", task[c].left)
    <3>1. IsBranching(task[c])
      BY <2>4 DEF IsBranching
    <3> QED
      BY <1>0, <2>2, <2>4, <3>1
  <2>5. CASE Commits(c)
    <3>1. /\ task[c] \in Puts \cup Copies /\ task[c].env \in Environments /\ task[c].key \in Keys
          /\ task[c] \in Copies => task[c].env = Child
      BY <2>5, UploadTask DEF Commits
    <3>2. UNCHANGED <<session, aliases, checkpoint>>
      BY <2>5 DEF Commits
    <3>3. CASE SamePuts /\ artifacts' = artifacts /\ TaskMoves(c, Idle)
      BY <1>5, <3>2, <3>3, Kinds, SamePutsProceed
    <3>4. CASE ~ (SamePuts /\ artifacts' = artifacts /\ TaskMoves(c, Idle))
      <4>1. PICK o : \A f \in Environments, j \in Keys :
                       PutOf(f, j)' = IF f = task[c].env /\ j = task[c].key THEN o ELSE PutOf(f, j)
        BY <2>5, <3>4 DEF Commits
      <4>2. \A f \in Environments : artifacts'[f] =
              IF f = task[c].env THEN artifacts[f] \cup {task[c].key} ELSE artifacts[f]
        BY <2>5, <3>4 DEF Commits
      <4>3. Grows /\ task[c].key \in artifacts'[task[c].env]
        BY <3>1, <4>2 DEF Grows
      <4>4. Copied'
        BY <1>0, <3>1, <4>1, <4>3, CopiedMoves
      <4>5. PICK t \in Tasks : /\ IF task[c] \in Copies
                                  THEN t \in Branchings /\ t.left = task[c].left \ {task[c].key}
                                  ELSE t = Idle
                               /\ TaskMoves(c, t)
        BY <2>5, <3>4 DEF Commits
      <4>6. session'[Child] # "erased" /\ IsBranching(t) => checkpoint \ t.left \subseteq artifacts'[Child]
        <5>1. CASE task[c] \in Copies
          <6>1. IsBranching(task[c]) /\ task[c].env = Child
            BY <3>1, <5>1 DEF IsBranching
          <6>2. session'[Child] # "erased" => checkpoint \ task[c].left \subseteq artifacts[Child]
            BY <1>0, <3>2, <6>1 DEF BranchesOK
          <6>3. artifacts'[Child] = artifacts[Child] \cup {task[c].key}
            BY <1>0, <4>2, <6>1
          <6>4. t.left = task[c].left \ {task[c].key}
            BY <4>5, <5>1
          <6> QED
            BY <6>2, <6>3, <6>4
        <5>2. CASE task[c] \notin Copies
          BY <4>5, <5>2, Kinds
        <5> QED
          BY <5>1, <5>2
      <4>7. BranchesOK'
        BY <1>0, <3>2, <4>3, <4>5, <4>6, BranchesMove
      <4> QED
        BY <1>0, <3>2, <4>3, <4>4, <4>7, WholeStays DEF Branched
    <3> QED
      BY <3>3, <3>4
  <2>6. CASE GivesUp(c)
    <3>1. PutsProceed
      <4>1. CASE SamePuts
        BY <4>1, SamePutsProceed
      <4>2. CASE ~ SamePuts
        BY <1>0, <2>6, <4>2, SettledPut DEF GivesUp
      <4> QED
        BY <4>1, <4>2
    <3> QED
      BY <1>5, <2>6, <3>1, Kinds DEF GivesUp
  <2>7. CASE BranchBegin(c)
    <3>1. /\ SamePuts /\ checkpoint # {} /\ session'[Child] = "pending"
          /\ UNCHANGED <<artifacts, aliases, checkpoint>>
      BY <2>7, BranchBeginMoves DEF SameOperations
    <3>2. PICK t \in Branchings : t.left = checkpoint /\ TaskMoves(c, t)
      BY <2>7, BranchBeginMoves
    <3>3. Grows
      BY <3>1 DEF Grows
    <3>4. BranchesOK'
      BY <1>0, <3>1, <3>2, <3>3, BranchesMove
    <3> QED
      BY <1>0, <3>1, <3>3, <3>4, SamePutsProceed, CopiedProceeds DEF Branched, Frozen, ExposedBranchIsWhole
  <2>8. CASE BranchFinish(c)
    <3>1. /\ SamePuts /\ session[Child] = "pending" /\ session'[Child] = "exposed"
          /\ task[c] \in Branchings /\ task[c].left = {} /\ aliases' = checkpoint
          /\ UNCHANGED <<artifacts, checkpoint>> /\ TaskMoves(c, Idle)
      BY <2>8, BranchFinishMoves DEF SameOperations
    <3>2. Grows
      BY <3>1 DEF Grows
    <3>3. BranchesOK'
      BY <1>0, <3>1, <3>2, Kinds, BranchesMove
    <3>4. checkpoint \subseteq artifacts[Child]
      BY <1>0, <3>1 DEF BranchesOK, IsBranching
    <3>5. Frozen' /\ ExposedBranchIsWhole'
      BY <1>0, <3>1, <3>4 DEF Frozen, ExposedBranchIsWhole
    <3> QED
      BY <1>0, <3>1, <3>2, <3>3, <3>5, SamePutsProceed, CopiedProceeds DEF Branched
  <2>9. CASE EraseRows(c)
    <3>1. /\ \A e \in Environments :
               /\ session'[e] = IF e \in Live THEN "erased" ELSE session[e]
               /\ \A n \in Names : operation'[e][n] = NoOperation
          /\ checkpoint' = {} /\ TaskMoves(c, Idle)
      BY <2>9, EraseRowsMoves
    <3>2. session'[Child] \notin {"pending", "exposed"}
      BY <1>0, <3>1 DEF Live
    <3>3. Copied'
      <4>1. NoOperation.status # "committed"
        BY DEF NoOperation
      <4>2. \A e \in Environments, k \in Keys : PutOf(e, k)' = NoOperation
        BY <3>1, Operations DEF PutOf
      <4> QED
        BY <4>1, <4>2 DEF Copied
    <3>4. BranchesOK'
      BY <3>1 DEF BranchesOK
    <3> QED
      BY <3>2, <3>3, <3>4 DEF Branched, Frozen, ExposedBranchIsWhole
  <2>10. CASE PurgeSteps(c)
    <3>1. PurgeTurn(c)
      BY <2>10, PurgeStepsMove
    <3>2. PICK t \in Tasks : TaskMoves(c, t) /\ ~ IsBranching(t)
      BY <3>1, Kinds DEF PurgeTurn, IsPurging
    <3> QED
      BY <1>5, <3>1, <3>2, SamePutsProceed DEF PurgeTurn
  <2> QED
    BY <1>6, <2>1, <2>3, <2>4, <2>5, <2>6, <2>7, <2>8, <2>9, <2>10, Zenon DEF Moves
<1> QED
  BY <1>2, <1>3, <1>4, <1>6, StepsAreTyped, Zenon

LEMMA InitIsBranched == Init => Branched
<1> SUFFICES ASSUME Init PROVE Branched
  OBVIOUS
<1>1. Copied
  <2>1. NoOperation.status # "committed"
    BY DEF NoOperation
  <2>2. \A e \in Environments, k \in Keys : PutOf(e, k) = NoOperation
    BY Operations DEF Init, PutOf
  <2> QED
    BY <2>1, <2>2 DEF Copied
<1>2. session[Child] = "none" /\ \A c \in Callers : ~ IsBranching(task[c])
  BY Kinds, EnvironmentsAssumption DEF Init, Environments
<1> QED
  BY <1>1, <1>2 DEF Branched, BranchesOK, Frozen, ExposedBranchIsWhole

------------------------------------------------------------------------------
(* The fence of an erasure stops new uploads; what is settled behind it    *)
(* stays settled, and what is indexed is stored until it is raised.        *)

Settled(e) == usage[e].fenced /\ (usage[e].quiesced \/ ~ Unresolved(e))
PurgeOK(t) ==
  IsPurging(t) /\ session[t.env] # "erased" =>
    /\ t.at # "fence" => usage[t.env].fenced
    /\ t.at \notin {"fence", "evidence"} => Settled(t.env)
PurgesOK == \A c \in Callers : PurgeOK(task[c])
QuietsOK ==
  \A e \in Environments : usage[e].quiesced =>
    usage[e].fenced /\ \A r \in Uploads : r.env = e => ~ InFlight(r)
Fenced == PurgesOK /\ QuietsOK /\ IndexedArtifactIsStored

\* Fences are only raised; behind one no upload is attempted or sent.
Holds ==
  \A e \in Environments :
    /\ usage[e].fenced => usage'[e].fenced
    /\ usage[e].quiesced => usage'[e].quiesced
    /\ usage[e].fenced => \A k \in Keys :
         PutOf(e, k)'.status \in {"in_flight", "unknown"} => PutOf(e, k).status \in {"in_flight", "unknown"}
Sealed ==
  \A r \in Uploads : usage[r.env].fenced /\ InFlight(r)' => InFlight(r)

LEMMA SettledStays ==
  ASSUME Holds, NEW e \in Environments, Settled(e)
  PROVE  Settled(e)'
<1>1. usage[e].fenced /\ usage'[e].fenced /\ (usage[e].quiesced => usage'[e].quiesced)
  BY DEF Settled, Holds
<1>2. ~ Unresolved(e) => ~ Unresolved(e)'
  BY <1>1 DEF Unresolved, Holds, PutOf
<1> QED
  BY <1>1, <1>2 DEF Settled

LEMMA PurgeStays ==
  ASSUME Typed, Lasting, Holds, NEW c \in Callers, PurgeOK(task[c]), task'[c] = task[c]
  PROVE  PurgeOK(task[c])'
<1> SUFFICES ASSUME IsPurging(task[c]), session'[task[c].env] # "erased"
             PROVE  /\ task[c].at # "fence" => usage'[task[c].env].fenced
                    /\ task[c].at \notin {"fence", "evidence"} => Settled(task[c].env)'
  BY DEF PurgeOK, Settled, Unresolved
<1>1. task[c].env \in Environments /\ session[task[c].env] # "erased"
  BY PurgeTask DEF Lasting
<1>2. /\ task[c].at # "fence" => usage[task[c].env].fenced
      /\ task[c].at \notin {"fence", "evidence"} => Settled(task[c].env)
  BY <1>1 DEF PurgeOK
<1>3. PICK e \in Environments : e = task[c].env
  BY <1>1
<1>4. Settled(e) => Settled(e)'
  BY SettledStays
<1>5. usage[e].fenced => usage'[e].fenced
  BY DEF Holds
<1> QED
  BY <1>2, <1>3, <1>4, <1>5 DEF Settled, Unresolved

LEMMA PurgesMove ==
  ASSUME Typed, PurgesOK, Lasting, Holds, NEW c \in Callers, NEW t, TaskMoves(c, t), PurgeOK(t)'
  PROVE  PurgesOK'
<1> SUFFICES ASSUME NEW d \in Callers PROVE PurgeOK(task[d])'
  BY DEF PurgesOK
<1>1. CASE d = c
  BY <1>1 DEF TaskMoves, PurgeOK, Settled, Unresolved
<1>2. CASE d # c
  BY <1>2, PurgeStays DEF TaskMoves, PurgesOK
<1> QED
  BY <1>1, <1>2

LEMMA QuietsMove ==
  ASSUME QuietsOK, Holds, Sealed,
         \A e \in Environments : usage'[e].quiesced => usage[e].quiesced
  PROVE  QuietsOK'
BY DEF QuietsOK, Holds, Sealed

\* A caller that sends nothing new.
LEMMA FlightsCarry ==
  ASSUME NEW c \in Callers, NEW t, TaskMoves(c, t), ~ IsUploading(t),
         \A r \in wire' : r \in wire \/ Sends(c, r)
  PROVE  Sealed
<1> SUFFICES ASSUME NEW r \in Uploads, InFlight(r)' PROVE InFlight(r)
  BY DEF Sealed
<1>1. /\ ~ Sends(c, r)'
      /\ \A d \in Callers : d # c => (Sends(d, r)' <=> Sends(d, r))
  BY DEF TaskMoves, Sends, IsUploading
<1> QED
  BY <1>1 DEF InFlight

LEMMA FlightsShrink ==
  ASSUME task' = task, wire' \subseteq wire
  PROVE  Sealed
<1>1. \A d \in Callers, r \in Uploads : Sends(d, r)' <=> Sends(d, r)
  BY DEF Sends
<1> QED
  BY <1>1 DEF Sealed, InFlight

LEMMA FlightsReserve ==
  ASSUME NEW c \in Callers, NEW e \in Environments, NEW k, NEW goal, NEW left,
         Reserves(c, e, k, goal, left)
  PROVE  Sealed
<1> SUFFICES ASSUME NEW r \in Uploads, usage[r.env].fenced, InFlight(r)' PROVE InFlight(r)
  BY DEF Sealed
<1>1. PICK t \in Puts \cup Copies : t.env = e /\ TaskMoves(c, t)
  BY DEF Reserves
<1>2. ~ usage[e].fenced /\ wire' = wire
  BY DEF Reserves
<1>3. ~ Sends(c, r)'
  <2>1. r.env # e
    BY <1>2
  <2> QED
    BY <1>1, <2>1 DEF TaskMoves, Sends
<1>4. \A d \in Callers : d # c => (Sends(d, r)' <=> Sends(d, r))
  BY <1>1 DEF TaskMoves, Sends
<1> QED
  BY <1>2, <1>3, <1>4 DEF InFlight

\* Uploads proceed behind the same fences.
LEMMA FencesHold ==
  ASSUME SameFences,
         \A e \in Environments, k \in Keys :
           usage[e].fenced /\ PutOf(e, k)'.status \in {"in_flight", "unknown"}
             => PutOf(e, k).status \in {"in_flight", "unknown"}
  PROVE  Holds /\ \A e \in Environments : usage'[e].quiesced => usage[e].quiesced
BY DEF Holds, SameFences

LEMMA SamePutsHold ==
  ASSUME SameFences, SamePuts
  PROVE  Holds /\ \A e \in Environments : usage'[e].quiesced => usage[e].quiesced
BY FencesHold DEF SamePuts

LEMMA StoredStays ==
  ASSUME IndexedArtifactIsStored, Holds, artifacts' = artifacts,
         \A e \in Environments : ~ usage'[e].fenced => objects[e] \subseteq objects'[e]
  PROVE  IndexedArtifactIsStored'
BY DEF IndexedArtifactIsStored, Holds

\* A caller that settles nothing of an erasure, or goes on behind its fence.
LEMMA FencedTurn ==
  ASSUME Typed, Fenced, Lasting, SameFences, Holds, Sealed,
         NEW c \in Callers, NEW t, TaskMoves(c, t),
         \/ ~ IsPurging(t) \/ t.at = "fence"
         \/ IsPurging(task[c]) /\ t.env = task[c].env /\ task[c].at \notin {"fence", "evidence"},
         artifacts' = artifacts,
         \A e \in Environments : objects[e] \subseteq objects'[e] \/ usage[e].fenced
  PROVE  Fenced'
<1>1. PurgeOK(t)'
  <2>1. CASE ~ IsPurging(t) \/ t.at = "fence"
    BY <2>1 DEF PurgeOK
  <2>2. CASE IsPurging(task[c]) /\ t.env = task[c].env /\ task[c].at \notin {"fence", "evidence"}
    <3>1. PICK e \in Environments : e = task[c].env
      BY <2>2, PurgeTask
    <3>2. session'[e] # "erased" => Settled(e)
      BY <2>2, <3>1 DEF Lasting, Fenced, PurgesOK, PurgeOK
    <3>3. session'[e] # "erased" => usage'[e].fenced /\ Settled(e)'
      BY <3>2, SettledStays DEF Settled
    <3> QED
      BY <2>2, <3>1, <3>3 DEF PurgeOK
  <2> QED
    BY <2>1, <2>2
<1>2. PurgesOK'
  BY <1>1, PurgesMove DEF Fenced
<1>3. QuietsOK'
  BY QuietsMove DEF Fenced, SameFences
<1>4. IndexedArtifactIsStored'
  BY StoredStays DEF Fenced, SameFences
<1> QED
  BY <1>2, <1>3, <1>4 DEF Fenced

LEMMA FencedStill ==
  ASSUME Typed, Fenced, Lasting, SameFences, SamePuts, task' = task, wire' \subseteq wire,
         artifacts' = artifacts, \A e \in Environments : objects[e] \subseteq objects'[e]
  PROVE  Fenced'
<1>1. Holds /\ Sealed
  BY SamePutsHold, FlightsShrink
<1>2. PurgesOK'
  BY <1>1, PurgeStays DEF PurgesOK, Fenced
<1>3. QuietsOK'
  BY <1>1, QuietsMove DEF Fenced, SameFences
<1>4. IndexedArtifactIsStored'
  BY <1>1, StoredStays DEF Fenced
<1> QED
  BY <1>2, <1>3, <1>4 DEF Fenced

LEMMA FencedPurge ==
  ASSUME Typed, PagesCounted, Fenced, Lasting, NEW c \in Callers, PurgeSteps(c)
  PROVE  Fenced'
<1>0. PurgeTurn(c) /\ IsPurging(task[c]) /\ session[task[c].env] # "erased" /\ SamePuts
      /\ artifacts' = artifacts /\ wire' = wire /\ task[c].env \in Environments
  BY PurgeStepsMove, PurgeTask DEF PurgeTurn
<1>1. PICK e \in Environments : e = task[c].env
  BY <1>0
<1>2. Sealed
  <2>1. PICK t \in Tasks : TaskMoves(c, t) /\ ~ IsUploading(t)
    BY <1>0, Kinds DEF PurgeTurn, IsPurging
  <2> QED
    BY <1>0, <2>1, FlightsCarry
<1>3. PurgeOK(task[c])
  BY DEF Fenced, PurgesOK
<1>4. CASE Fence(c)
  <2>1. /\ objects' = objects
        /\ \A f \in Environments : /\ usage'[f].fenced = (f = e \/ usage[f].fenced)
                                   /\ usage'[f].quiesced = usage[f].quiesced
    BY <1>1, <1>4, FenceMoves
  <2>2. PICK t \in Purges : t.env = e /\ t.at = "evidence" /\ TaskMoves(c, t)
    BY <1>1, <1>4, FenceMoves
  <2>3. Holds
    BY <1>0, <2>1 DEF Holds, SamePuts
  <2>4. PurgesOK'
    BY <2>1, <2>2, <2>3, PurgesMove DEF Fenced, PurgeOK
  <2>5. QuietsOK'
    BY <1>2, <2>1, <2>3, QuietsMove DEF Fenced
  <2>6. IndexedArtifactIsStored'
    BY <1>0, <2>1, <2>3, StoredStays DEF Fenced
  <2> QED
    BY <2>4, <2>5, <2>6 DEF Fenced
<1>5. CASE Evidence(c)
  <2>1. objects' = objects /\ task[c].at = "evidence"
    BY <1>5, EvidenceMoves
  <2>2. PICK brought \in BOOLEAN :
          /\ brought => Quiet(e)
          /\ \A f \in Environments :
               /\ usage'[f].fenced = usage[f].fenced
               /\ usage'[f].quiesced = (usage[f].quiesced \/ (f = e /\ brought))
    BY <1>1, <1>5, EvidenceMoves
  <2>3. PICK t \in Tasks :
          /\ TaskMoves(c, t)
          /\ \/ t = Idle
             \/ /\ t \in Purges /\ t.env = e /\ t.at = "page"
                /\ ~ Unresolved(e) \/ usage'[e].quiesced
    BY <1>1, <1>5, EvidenceMoves
  <2>4. Holds
    BY <1>0, <2>2 DEF Holds, SamePuts
  <2>5. usage[e].fenced /\ usage'[e].fenced
    BY <1>0, <1>1, <1>3, <2>1, <2>2 DEF PurgeOK
  <2>6. PurgesOK'
    <3>1. CASE t = Idle
      BY <2>3, <2>4, <3>1, Kinds, PurgesMove DEF Fenced, PurgeOK
    <3>2. CASE /\ t \in Purges /\ t.env = e /\ t.at = "page"
               /\ ~ Unresolved(e) \/ usage'[e].quiesced
      <4>1. Settled(e)'
        <5>1. CASE usage'[e].quiesced
          BY <2>5, <5>1 DEF Settled
        <5>2. CASE ~ Unresolved(e)
          BY <2>4, <2>5, <5>2, SettledStays DEF Settled
        <5> QED
          BY <3>2, <5>1, <5>2
      <4>2. PurgeOK(t)'
        BY <2>5, <3>2, <4>1 DEF PurgeOK
      <4> QED
        BY <2>3, <2>4, <4>2, PurgesMove DEF Fenced
    <3> QED
      BY <2>3, <3>1, <3>2
  <2>7. QuietsOK'
    <3> SUFFICES ASSUME NEW f \in Environments, usage'[f].quiesced
                 PROVE  usage'[f].fenced /\ \A r \in Uploads : r.env = f => ~ InFlight(r)'
      BY DEF QuietsOK
    <3>1. CASE usage[f].quiesced
      BY <1>2, <2>4, <3>1 DEF Fenced, QuietsOK, Holds, Sealed
    <3>2. CASE ~ usage[f].quiesced
      <4>1. f = e /\ Quiet(e)
        BY <2>2, <3>2
      <4>2. \A d \in Callers : task[d] \in Puts \cup Copies => task[d] # Idle /\ task[d].at = "put"
        BY Kinds DEF Puts, Copies
      <4>3. \A r \in Uploads : r.env = e => ~ InFlight(r)
        BY <4>1, <4>2 DEF Quiet, InFlight, Sends
      <4> QED
        BY <1>2, <2>5, <4>1, <4>3 DEF Sealed
    <3> QED
      BY <3>1, <3>2
  <2>8. IndexedArtifactIsStored'
    BY <1>0, <2>1, <2>4, StoredStays DEF Fenced
  <2> QED
    BY <2>6, <2>7, <2>8 DEF Fenced
<1>6. ASSUME SameFences, task[c].at \notin {"fence", "evidence"},
             \A f \in Environments : f # e => objects'[f] = objects[f]
      PROVE  Fenced'
  <2>1. usage[e].fenced
    BY <1>0, <1>1, <1>3, <1>6 DEF PurgeOK
  <2>2. \A f \in Environments : objects[f] \subseteq objects'[f] \/ usage[f].fenced
    BY <1>6, <2>1
  <2>3. PICK t \in Tasks : /\ TaskMoves(c, t)
                           /\ t = Idle \/ (IsPurging(t) /\ t.env = task[c].env)
    BY <1>0 DEF PurgeTurn
  <2>4. ~ IsPurging(t) \/ t.env = task[c].env
    BY <2>3, Kinds
  <2> QED
    BY <1>0, <1>2, <1>6, <2>2, <2>3, <2>4, SamePutsHold, FencedTurn
<1>7. CASE ReserveList(c)
  BY <1>6, <1>7, ReserveListMoves DEF ListReserved
<1>8. CASE ReserveDelete(c)
  BY <1>6, <1>8, ReserveDeleteMoves DEF DeleteReserved
<1>9. CASE Exhaust(c)
  BY <1>6, <1>9, ExhaustMoves DEF Exhausted
<1>10. task[c] \in Lists \cup Deletes => task[c].at \notin {"fence", "evidence"}
  BY DEF Lists, Deletes
<1>11. CASE ListCommitted(c)
  BY <1>6, <1>10, <1>11 DEF ListCommitted
<1>12. CASE RequestFailed(c)
  BY <1>1, <1>6, <1>10, <1>12 DEF RequestFailed
<1>13. CASE DeleteCommitted(c)
  BY <1>1, <1>6, <1>10, <1>13 DEF DeleteCommitted
<1> QED
  BY <1>4, <1>5, <1>7, <1>8, <1>9, <1>11, <1>12, <1>13, ListReplyMoves, PurgeFailsMoves,
     DeleteReplyMoves, Zenon DEF PurgeSteps

LEMMA FencedErase ==
  ASSUME Typed, Present, Fenced, NEW c \in Callers, EraseRows(c)
  PROVE  Fenced'
<1>1. /\ \A e \in Environments :
           /\ session'[e] = IF e \in Live THEN "erased" ELSE session[e]
           /\ usage'[e] = NoUsage /\ artifacts'[e] = {}
      /\ TaskMoves(c, Idle)
  BY EraseRowsMoves
<1>2. PurgesOK'
  <2> SUFFICES ASSUME NEW d \in Callers, IsPurging(task'[d]), session'[task'[d].env] # "erased"
               PROVE  FALSE
    BY DEF PurgesOK, PurgeOK, IsPurging
  <2>1. d # c /\ task'[d] = task[d]
    BY <1>1, Kinds DEF TaskMoves
  <2>2. task[d].env \in Environments /\ session[task[d].env] # "none"
    BY <2>1, PurgeTask DEF Present, PresentTask
  <2> QED
    BY <1>1, <2>1, <2>2 DEF Live, Typed
<1>3. QuietsOK'
  <2>1. NoUsage.quiesced = FALSE
    BY DEF NoUsage
  <2> QED
    BY <1>1, <2>1 DEF QuietsOK
<1>4. IndexedArtifactIsStored'
  BY <1>1 DEF IndexedArtifactIsStored
<1> QED
  BY <1>2, <1>3, <1>4 DEF Fenced

LEMMA StepsAreFenced ==
  ASSUME Typed, PagesCounted, Present, Charged, Fenced, [Next]_vars
  PROVE  Fenced'
<1>0. Lasting /\ Child \in Environments /\ Parent \in Environments
  BY SessionsLast DEF Environments
<1>1. CASE StillSteps /\ Unmoved
  BY <1>0, <1>1, FencedStill DEF StillSteps, Unmoved, bucket
<1>2. CASE Checkpoint
  BY <1>0, <1>2, CheckpointMoves, FencedStill DEF SameOperations
<1>3. CASE \E r \in wire : Land(r)
  <2>1. PICK r \in wire : Land(r)
    BY <1>3
  <2>2. /\ SamePuts /\ SameFences /\ task' = task /\ wire' \subseteq wire /\ artifacts' = artifacts
        /\ \A e \in Environments : objects[e] \subseteq objects'[e]
    BY <2>1, LandMoves, OperationsStay DEF Stores, SameOperations
  <2> QED
    BY <1>0, <2>2, FencedStill
<1>4. ASSUME NEW c \in Callers, Moves(c) PROVE Fenced'
  <2>0. ASSUME NEW t \in Tasks, TaskMoves(c, t), ~ IsUploading(t), SameFences, artifacts' = artifacts,
               \/ ~ IsPurging(t) \/ t.at = "fence"
               \/ IsPurging(task[c]) /\ t.env = task[c].env /\ task[c].at \notin {"fence", "evidence"},
               \A r \in wire' : r \in wire \/ Sends(c, r),
               \A e \in Environments : objects[e] \subseteq objects'[e],
               \A e \in Environments, k \in Keys :
                 PutOf(e, k)'.status \in {"in_flight", "unknown"}
                   => PutOf(e, k).status \in {"in_flight", "unknown"}
        PROVE  Fenced'
    BY <1>0, <2>0, FlightsCarry, FencesHold, FencedTurn
  <2>1. CASE Turn(c)
    <3>1. PICK t \in Tasks : /\ t = Idle \/ Continues(c, t) \/ Starts(c, t) \/ Proceeds(c, t)
                             /\ Unmoved /\ TaskMoves(c, t)
      BY <2>1 DEF Turn
    <3>2. /\ ~ IsUploading(t)
          /\ \/ ~ IsPurging(t) \/ t.at = "fence"
             \/ IsPurging(task[c]) /\ t.env = task[c].env /\ task[c].at \notin {"fence", "evidence"}
      BY <3>1, Kinds DEF Continues, Starts, Proceeds, IsPurging
    <3> QED
      BY <2>0, <3>1, <3>2 DEF Unmoved, SamePuts
  <2>2. ASSUME NEW e \in Environments, NEW k \in Keys, NEW goal, NEW left, Reserves(c, e, k, goal, left)
        PROVE  Fenced'
    <3>1. PICK o : \A f \in Environments, j \in Keys :
                     PutOf(f, j)' = IF f = e /\ j = k THEN o ELSE PutOf(f, j)
      BY <2>2 DEF Reserves
    <3>2. SameFences /\ ~ usage[e].fenced /\ artifacts' = artifacts /\ objects' = objects
      BY <2>2 DEF Reserves
    <3>3. PICK t \in Puts \cup Copies : TaskMoves(c, t)
      BY <2>2 DEF Reserves
    <3>4. ~ IsPurging(t)
      BY Kinds
    <3>5. Holds
      BY <3>1, <3>2, FencesHold
    <3>6. Sealed
      BY <2>2, FlightsReserve
    <3> QED
      BY <1>0, <3>2, <3>3, <3>4, <3>5, <3>6, FencedTurn
  <2>3. CASE /\ task[c] = Idle /\ session[Parent] = "exposed"
             /\ \E k \in Keys : Reserves(c, Parent, k, "put", {})
    BY <1>0, <2>2, <2>3
  <2>4. CASE /\ session[Child] # "erased" /\ task[c] \in Reads /\ task[c].key \in Keys
             /\ Reserves(c, Child, task[c].key, "branch", task[c].left)
    BY <1>0, <2>2, <2>4
  <2>5. CASE Commits(c)
    <3>1. /\ task[c].env \in Environments /\ task[c].key \in Keys
          /\ SameFences /\ wire' = wire
          /\ \A f \in Environments :
               objects'[f] = IF f = task[c].env THEN objects[f] \cup {task[c].key} ELSE objects[f]
      BY <2>5, UploadTask DEF Commits, Stores
    <3>2. CASE SamePuts /\ artifacts' = artifacts /\ TaskMoves(c, Idle)
      BY <2>0, <3>1, <3>2, Kinds DEF SamePuts
    <3>3. CASE ~ (SamePuts /\ artifacts' = artifacts /\ TaskMoves(c, Idle))
      <4>1. PICK o : /\ o.status = "committed"
                     /\ \A f \in Environments, j \in Keys :
                          PutOf(f, j)' = IF f = task[c].env /\ j = task[c].key THEN o ELSE PutOf(f, j)
        BY <2>5, <3>3 DEF Commits
      <4>2. \A f \in Environments : artifacts'[f] =
              IF f = task[c].env THEN artifacts[f] \cup {task[c].key} ELSE artifacts[f]
        BY <2>5, <3>3 DEF Commits
      <4>3. PICK t \in Tasks : TaskMoves(c, t) /\ ~ IsUploading(t) /\ ~ IsPurging(t)
        BY <2>5, <3>3, Kinds DEF Commits
      <4>4. o.status \notin {"in_flight", "unknown"}
        BY <4>1
      <4>5. Holds /\ \A e \in Environments : usage'[e].quiesced => usage[e].quiesced
        BY <3>1, <4>1, <4>4, FencesHold
      <4>6. PurgesOK'
        BY <1>0, <4>3, <4>5, PurgesMove DEF Fenced, PurgeOK
      <4>7. QuietsOK'
        BY <3>1, <4>3, <4>5, FlightsCarry, QuietsMove DEF Fenced
      <4>8. IndexedArtifactIsStored'
        <5> SUFFICES ASSUME NEW e \in Environments, ~ usage'[e].fenced
                     PROVE  artifacts'[e] \subseteq objects'[e]
          BY DEF IndexedArtifactIsStored
        <5>1. artifacts[e] \subseteq objects[e]
          BY <4>5 DEF Holds, Fenced, IndexedArtifactIsStored
        <5> QED
          BY <3>1, <4>2, <5>1
      <4> QED
        BY <4>6, <4>7, <4>8 DEF Fenced
    <3> QED
      BY <3>2, <3>3
  <2>6. CASE GivesUp(c)
    <3>1. \A e \in Environments, k \in Keys :
            PutOf(e, k)'.status \in {"in_flight", "unknown"}
              => PutOf(e, k).status \in {"in_flight", "unknown"}
      <4>1. CASE SamePuts
        BY <4>1 DEF SamePuts
      <4>2. CASE ~ SamePuts
        BY <2>6, <4>2 DEF GivesUp
      <4> QED
        BY <4>1, <4>2
    <3> QED
      BY <2>0, <2>6, <3>1, Kinds DEF GivesUp
  <2>7. CASE BranchBegin(c)
    <3>1. /\ SamePuts /\ SameFences /\ UNCHANGED <<artifacts, objects, wire>>
      BY <2>7, BranchBeginMoves DEF SameOperations
    <3>2. PICK t \in Branchings : TaskMoves(c, t)
      BY <2>7, BranchBeginMoves
    <3>3. t \in Tasks /\ ~ IsUploading(t) /\ ~ IsPurging(t)
      BY AreTasks, Kinds
    <3> QED
      BY <2>0, <3>1, <3>2, <3>3 DEF SamePuts
  <2>8. CASE BranchFinish(c)
    <3>1. /\ SamePuts /\ SameFences /\ UNCHANGED <<artifacts, objects, wire>> /\ TaskMoves(c, Idle)
      BY <2>8, BranchFinishMoves DEF SameOperations
    <3> QED
      BY <2>0, <3>1, Kinds DEF SamePuts
  <2>9. CASE EraseRows(c)
    BY <2>9, FencedErase
  <2>10. CASE PurgeSteps(c)
    BY <1>0, <2>10, FencedPurge
  <2> QED
    BY <1>4, <2>1, <2>3, <2>4, <2>5, <2>6, <2>7, <2>8, <2>9, <2>10, Zenon DEF Moves
<1> QED
  BY <1>1, <1>2, <1>3, <1>4, StepsAreTyped, Zenon

LEMMA InitIsFenced == Init => Fenced
<1> SUFFICES ASSUME Init PROVE Fenced
  OBVIOUS
<1>1. PurgesOK
  BY Kinds DEF Init, PurgesOK, PurgeOK
<1>2. QuietsOK
  BY DEF Init, QuietsOK, NoUsage
<1>3. IndexedArtifactIsStored
  BY DEF Init, IndexedArtifactIsStored
<1> QED
  BY <1>1, <1>2, <1>3 DEF Fenced

------------------------------------------------------------------------------
(* The inventory of an erasure.  An object is solid unless it is that of a *)
(* committed upload which was attempted more than once.                    *)

Solid(e) == {k \in objects[e] : ~ (PutOf(e, k).status = "committed" /\ PutOf(e, k).attempts > 1)}
Started(e) ==
  usage[e].page > 0 \/ usage[e].cursor > 0 \/ usage[e].complete \/ ListOf(e, 0).status # "none"
CoveredBy(page, k) == k \in page.keys \/ (page.truncated /\ k > page.cursor)
InventoryAt(e) ==
  /\ Started(e) => Settled(e) /\ session[e] # "erased"
  /\ \A k \in Solid(e) : k > usage[e].cursor
  /\ ListOf(e, usage[e].page).status = "committed" =>
       \A k \in Solid(e) : CoveredBy(ListOf(e, usage[e].page).page, k)
  /\ usage[e].complete => Solid(e) = {}
InventoryOK == \A e \in Environments : InventoryAt(e)

\* A request of a purge is of the page under way, or of one that is done.
RequestOK(t) ==
  session[t.env] # "erased" =>
    /\ t \in Lists =>
         /\ t.name[2] <= usage[t.env].page
         /\ t.name[2] = usage[t.env].page => t.cursor = usage[t.env].cursor
    /\ t \in Deletes =>
         /\ t.name[2] <= usage[t.env].page
         /\ t.name[2] = usage[t.env].page =>
              /\ ListOf(t.env, usage[t.env].page).status = "committed"
              /\ t.page = ListOf(t.env, usage[t.env].page).page
RequestsOK == \A c \in Callers : task[c] \in Lists \cup Deletes => RequestOK(task[c])
Inventoried == InventoryOK /\ RequestsOK

PutsLast ==
  \A e \in Environments, k \in Keys : PutOf(e, k).status = "committed" => PutOf(e, k)' = PutOf(e, k)
SolidsShrink ==
  \A e \in Environments : Settled(e) /\ session[e] # "erased" => Solid(e)' \subseteq Solid(e)

LEMMA SolidsAreKept ==
  ASSUME Typed, PutsLast, NEW e \in Environments, objects'[e] \subseteq objects[e]
  PROVE  Solid(e)' \subseteq Solid(e)
<1> SUFFICES ASSUME NEW k \in Solid(e)' PROVE k \in Solid(e)
  OBVIOUS
<1>1. k \in objects[e] /\ k \in Keys
  BY DEF Solid, Typed
<1>2. ~ (PutOf(e, k)'.status = "committed" /\ PutOf(e, k)'.attempts > 1)
  BY DEF Solid
<1> QED
  BY <1>1, <1>2 DEF Solid, PutsLast

\* Behind the fence, what still lands is of a committed upload.
LEMMA LateIsCommitted ==
  ASSUME Typed, Charged, Fenced, NEW r \in Uploads, InFlight(r),
         Settled(r.env), session[r.env] # "erased"
  PROVE  /\ PutOf(r.env, r.key).status = "committed" /\ PutOf(r.env, r.key).attempts > 1
         /\ r.key \in Keys /\ r.env \in Environments
<1>1. r.env \in Environments /\ r.key \in Keys /\ r.attempt \in Nat \ {0}
  BY DEF Uploads
<1>2. ~ Unresolved(r.env)
  BY <1>1 DEF Settled, Fenced, QuietsOK
<1>3. /\ PutOf(r.env, r.key).status \in {"none", "in_flight", "unknown", "committed"}
      /\ PutOf(r.env, r.key).attempts \in Nat
  BY <1>1, Operations, OperationTypes DEF PutOf
<1>4. PutOf(r.env, r.key).status \notin {"in_flight", "unknown"}
  BY <1>1, <1>2 DEF Unresolved, PutOf
<1>5. UploadOK(r)
  BY DEF Charged, UploadsOK
<1>6. PutOf(r.env, r.key).status # "none"
  <2>1. PutOf(r.env, r.key).attempts # 0
    BY <1>1, <1>3, <1>5 DEF UploadOK
  <2> QED
    BY <1>1, <2>1 DEF Charged, MarksOK
<1>7. PutOf(r.env, r.key).status = "committed"
  BY <1>3, <1>4, <1>6
<1> QED
  BY <1>1, <1>3, <1>5, <1>7 DEF UploadOK

LEMMA SolidsStored ==
  ASSUME Typed, Charged, Fenced, PutsLast, NEW r \in Uploads, InFlight(r), Stores(r.env, r.key)
  PROVE  SolidsShrink
<1> SUFFICES ASSUME NEW e \in Environments, Settled(e), session[e] # "erased"
             PROVE  Solid(e)' \subseteq Solid(e)
  BY DEF SolidsShrink
<1>1. CASE e # r.env
  BY <1>1, SolidsAreKept DEF Stores
<1>2. CASE e = r.env
  <2>1. /\ PutOf(e, r.key).status = "committed" /\ PutOf(e, r.key).attempts > 1
        /\ r.key \in Keys /\ PutOf(e, r.key)' = PutOf(e, r.key)
    BY <1>2, LateIsCommitted DEF PutsLast
  <2>2. objects'[e] = objects[e] \cup {r.key}
    BY <1>2 DEF Stores
  <2> SUFFICES ASSUME NEW k \in Solid(e)' PROVE k \in Solid(e)
    OBVIOUS
  <2>3. ~ (PutOf(e, k)'.status = "committed" /\ PutOf(e, k)'.attempts > 1)
    BY DEF Solid
  <2>4. k # r.key
    BY <2>1, <2>3
  <2>5. k \in objects[e] /\ k \in Keys
    BY <2>2, <2>4 DEF Solid, Typed
  <2> QED
    BY <2>3, <2>5 DEF Solid, PutsLast
<1> QED
  BY <1>1, <1>2

LEMMA SamePutsLast == SamePuts => PutsLast
BY DEF SamePuts, PutsLast

\* One upload changes, that is not committed.
LEMMA PutsLastMoves ==
  ASSUME NEW e \in Environments, NEW k \in Keys, NEW o, PutOf(e, k).status # "committed",
         \A f \in Environments, j \in Keys :
           PutOf(f, j)' = IF f = e /\ j = k THEN o ELSE PutOf(f, j)
  PROVE  PutsLast
BY DEF PutsLast

LEMMA SolidsStay ==
  ASSUME Typed, PutsLast, \A e \in Environments : objects'[e] \subseteq objects[e]
  PROVE  SolidsShrink
BY SolidsAreKept DEF SolidsShrink

\* What every step keeps but those of a purge.
Keeps ==
  /\ SamePages /\ Holds /\ SolidsShrink
  /\ \A e \in Environments : session'[e] = "erased" => session[e] = "erased"
  /\ \A c \in Callers : task'[c] \in Lists \cup Deletes => task'[c] = task[c]

LEMMA TurnKeeps ==
  ASSUME NEW c \in Callers, NEW t, TaskMoves(c, t), t \notin Lists \cup Deletes
  PROVE  \A d \in Callers : task'[d] \in Lists \cup Deletes => task'[d] = task[d]
BY DEF TaskMoves

LEMMA StepsKeep ==
  ASSUME Typed, PagesCounted, Present, Charged, Fenced, [Next]_vars
  PROVE  Keeps \/ \E c \in Callers : EraseRows(c) \/ PurgeSteps(c)
<1>0. Child \in Environments /\ Parent \in Environments /\ Parent # Child
      /\ \A e \in Environments : e = Child \/ e = Parent
  BY EnvironmentsAssumption DEF Environments
<1>1. ASSUME SamePuts, SamePages, SameFences, UNCHANGED <<session, task>>,
             \A e \in Environments : objects'[e] \subseteq objects[e]
      PROVE  Keeps
  BY <1>1, SamePutsHold, SamePutsLast, SolidsStay DEF Keeps
<1>2. CASE StillSteps /\ Unmoved
  BY <1>1, <1>2 DEF StillSteps, Unmoved
<1>3. CASE Checkpoint
  BY <1>1, <1>3, CheckpointMoves DEF SameOperations
<1>4. CASE \E r \in wire : Land(r)
  <2>1. PICK r \in wire : Land(r)
    BY <1>4
  <2>2. /\ r \in Uploads /\ InFlight(r) /\ Stores(r.env, r.key) /\ UNCHANGED <<session, task>>
        /\ SamePuts /\ SamePages /\ SameFences
    BY <2>1, LandMoves, OperationsStay DEF InFlight, SameOperations
  <2>3. SolidsShrink
    BY <2>2, SamePutsLast, SolidsStored
  <2> QED
    BY <2>2, <2>3, SamePutsHold DEF Keeps
<1>5. ASSUME NEW c \in Callers, Moves(c), ~ EraseRows(c), ~ PurgeSteps(c) PROVE Keeps
  <2>1. ASSUME NEW t, TaskMoves(c, t), t \notin Lists \cup Deletes, SamePages, Holds, PutsLast,
               \A e \in Environments : objects'[e] \subseteq objects[e],
               \A e \in Environments : session'[e] = "erased" => session[e] = "erased"
        PROVE  Keeps
    BY <2>1, TurnKeeps, SolidsStay DEF Keeps
  <2>2. CASE Turn(c)
    <3>1. PICK t \in Tasks : TaskMoves(c, t) /\ t \notin Lists \cup Deletes
      BY <2>2, Kinds DEF Turn, Continues, Starts, Proceeds, IsPurging
    <3> QED
      BY <2>1, <2>2, <3>1, SamePutsHold, SamePutsLast DEF Turn, Unmoved
  <2>3. ASSUME NEW e \in Environments, NEW k \in Keys, NEW goal, NEW left, Reserves(c, e, k, goal, left)
        PROVE  Keeps
    <3>1. PICK o : \A f \in Environments, j \in Keys :
                     PutOf(f, j)' = IF f = e /\ j = k THEN o ELSE PutOf(f, j)
      BY <2>3 DEF Reserves
    <3>2. /\ SameFences /\ SamePages /\ ~ usage[e].fenced /\ UNCHANGED <<session, objects>>
          /\ PutOf(e, k).status # "committed"
      BY <2>3 DEF Reserves
    <3>3. PICK t \in Puts \cup Copies : TaskMoves(c, t)
      BY <2>3 DEF Reserves
    <3>4. t \notin Lists \cup Deletes
      BY Kinds DEF IsPurging
    <3>5. Holds
      BY <3>1, <3>2, FencesHold
    <3>6. PutsLast
      BY <3>1, <3>2, PutsLastMoves
    <3> QED
      BY <2>1, <3>2, <3>3, <3>4, <3>5, <3>6
  <2>4. CASE /\ task[c] = Idle /\ session[Parent] = "exposed"
             /\ \E k \in Keys : Reserves(c, Parent, k, "put", {})
    BY <1>0, <2>3, <2>4
  <2>5. CASE /\ session[Child] # "erased" /\ task[c] \in Reads /\ task[c].key \in Keys
             /\ Reserves(c, Child, task[c].key, "branch", task[c].left)
    BY <1>0, <2>3, <2>5
  <2>6. CASE Commits(c)
    <3>1. /\ task[c] \in Puts \cup Copies /\ task[c].env \in Environments /\ task[c].key \in Keys
          /\ task[c].attempt \in Nat \ {0}
      BY <2>6, UploadTask DEF Commits
    <3> DEFINE r == [env |-> task[c].env, key |-> task[c].key, attempt |-> task[c].attempt]
    <3>2. r \in Uploads /\ Sends(c, r) /\ r.env = task[c].env /\ r.key = task[c].key
      BY <3>1 DEF Uploads, Sends
    <3> HIDE DEF r
    <3>3. InFlight(r) /\ Stores(r.env, r.key) /\ SameFences /\ SamePages /\ session' = session
      BY <2>6, <3>2 DEF InFlight, Commits
    <3>4. PICK t \in Tasks : TaskMoves(c, t) /\ t \notin Lists \cup Deletes
      BY <2>6, Kinds DEF Commits, IsPurging
    <3>5. PutsLast /\ Holds
      <4>1. CASE SamePuts
        BY <3>3, <4>1, SamePutsHold, SamePutsLast
      <4>2. CASE ~ SamePuts
        <5>1. PICK o : /\ o.status = "committed"
                       /\ \A f \in Environments, j \in Keys :
                            PutOf(f, j)' = IF f = task[c].env /\ j = task[c].key THEN o ELSE PutOf(f, j)
          BY <2>6, <4>2 DEF Commits
        <5>2. PutOf(task[c].env, task[c].key).status = "in_flight"
          BY <2>6, <4>2 DEF Commits
        <5>3. PutsLast
          BY <3>1, <5>1, <5>2, PutsLastMoves
        <5>4. o.status \notin {"in_flight", "unknown"}
          BY <5>1
        <5>5. Holds
          BY <3>3, <5>1, <5>4, FencesHold
        <5> QED
          BY <5>3, <5>5
      <4> QED
        BY <4>1, <4>2
    <3>6. SolidsShrink
      BY <3>2, <3>3, <3>5, SolidsStored
    <3> QED
      BY <3>3, <3>4, <3>5, <3>6, TurnKeeps DEF Keeps
  <2>7. CASE GivesUp(c)
    <3>1. /\ SamePages /\ SameFences /\ session' = session /\ objects' = objects
          /\ TaskMoves(c, Idle) /\ Idle \notin Lists \cup Deletes
      BY <2>7, Kinds DEF GivesUp, IsPurging
    <3>2. PutsLast /\ Holds
      <4>1. CASE SamePuts
        BY <3>1, <4>1, SamePutsHold, SamePutsLast
      <4>2. CASE ~ SamePuts
        <5>0. PICK e \in Environments, k \in Keys : \E o :
                /\ PutOf(e, k).status = "in_flight"
                /\ \A f \in Environments, j \in Keys :
                     PutOf(f, j)' = IF f = e /\ j = k THEN o ELSE PutOf(f, j)
          BY <2>7, <4>2 DEF GivesUp
        <5>1. PICK o :
                /\ PutOf(e, k).status = "in_flight"
                /\ \A f \in Environments, j \in Keys :
                     PutOf(f, j)' = IF f = e /\ j = k THEN o ELSE PutOf(f, j)
          BY <5>0
        <5>2. PutsLast
          BY <5>1, PutsLastMoves
        <5>3. Holds
          BY <3>1, <5>1, FencesHold
        <5> QED
          BY <5>2, <5>3
      <4> QED
        BY <4>1, <4>2
    <3> QED
      BY <2>1, <3>1, <3>2
  <2>8. CASE BranchBegin(c)
    <3>1. /\ SamePuts /\ SamePages /\ SameFences /\ objects' = objects
          /\ session'[Child] = "pending" /\ session'[Parent] = session[Parent]
      BY <2>8, BranchBeginMoves DEF SameOperations
    <3>2. PICK t \in Branchings : TaskMoves(c, t)
      BY <2>8, BranchBeginMoves
    <3>3. t \notin Lists \cup Deletes
      BY Kinds DEF IsPurging
    <3>4. \A e \in Environments : session'[e] = "erased" => session[e] = "erased"
      BY <1>0, <3>1
    <3> QED
      BY <2>1, <3>1, <3>2, <3>3, <3>4, SamePutsHold, SamePutsLast
  <2>9. CASE BranchFinish(c)
    <3>1. /\ SamePuts /\ SamePages /\ SameFences /\ objects' = objects /\ TaskMoves(c, Idle)
          /\ session'[Child] = "exposed" /\ session'[Parent] = session[Parent]
      BY <2>9, BranchFinishMoves DEF SameOperations
    <3>2. Idle \notin Lists \cup Deletes
      BY Kinds DEF IsPurging
    <3>3. \A e \in Environments : session'[e] = "erased" => session[e] = "erased"
      BY <1>0, <3>1
    <3> QED
      BY <2>1, <3>1, <3>2, <3>3, SamePutsHold, SamePutsLast
  <2> QED
    BY <1>5, <2>2, <2>4, <2>5, <2>6, <2>7, <2>8, <2>9, Zenon DEF Moves
<1> QED
  BY <1>2, <1>3, <1>4, <1>5, StepsAreTyped, Zenon

\* Pages are taken in turn, and a listing that was recorded stays.
PagesProceed ==
  /\ \A e \in Environments :
       /\ usage[e].page <= usage'[e].page
       /\ usage'[e].page = usage[e].page => usage'[e].cursor = usage[e].cursor
  /\ \A e \in Environments, m \in Pages :
       ListOf(e, m).status = "committed" => ListOf(e, m)' = ListOf(e, m)

LEMMA RequestTask ==
  ASSUME Typed, NEW c \in Callers, task[c] \in Lists \cup Deletes
  PROVE  task[c].env \in Environments /\ task[c].name[2] \in Pages /\ task[c].name[2] \in Nat
BY DEF Lists, Deletes, Pages

LEMMA RequestStays ==
  ASSUME Typed, Typed', PagesCounted, Lasting, PagesProceed, NEW c \in Callers,
         task[c] \in Lists \cup Deletes, RequestOK(task[c]), task'[c] = task[c]
  PROVE  RequestOK(task[c])'
<1>0. PICK t : t = task[c]
  OBVIOUS
<1>1. PICK e \in Environments, m \in Nat : t = task[c] /\ e = t.env /\ m = t.name[2]
  BY <1>0, RequestTask
<1>2. PICK p \in Pages : p = usage[e].page /\ p \in Nat
  BY CurrentPage
<1>3. PICK q \in Nat : q = usage'[e].page
  BY UsageTypes DEF Typed, UsageRows
<1>4. p <= q /\ (q = p => usage'[e].cursor = usage[e].cursor)
      /\ (ListOf(e, p).status = "committed" => ListOf(e, p)' = ListOf(e, p))
  BY <1>2, <1>3 DEF PagesProceed
<1> SUFFICES ASSUME session'[e] # "erased"
             PROVE  /\ t \in Lists => m <= q /\ (m = q => t.cursor = usage'[e].cursor)
                    /\ t \in Deletes => m <= q /\ (m = q => /\ ListOf(e, q)'.status = "committed"
                                                            /\ t.page = ListOf(e, q)'.page)
  BY <1>1, <1>3 DEF RequestOK, ListOf
<1>5. session[e] # "erased"
  BY DEF Lasting
<1>6. /\ t \in Lists => m <= p /\ (m = p => t.cursor = usage[e].cursor)
      /\ t \in Deletes => m <= p /\ (m = p => /\ ListOf(e, p).status = "committed"
                                              /\ t.page = ListOf(e, p).page)
  BY <1>1, <1>2, <1>5 DEF RequestOK
<1>7. m <= p => m <= q /\ (m = q => q = p)
  BY <1>2, <1>3, <1>4
<1> QED
  BY <1>4, <1>6, <1>7

LEMMA RequestsMove ==
  ASSUME Typed, Typed', PagesCounted, Lasting, PagesProceed, RequestsOK,
         NEW c \in Callers, NEW t, TaskMoves(c, t), t \in Lists \cup Deletes => RequestOK(t)'
  PROVE  RequestsOK'
<1> SUFFICES ASSUME NEW d \in Callers, task'[d] \in Lists \cup Deletes PROVE RequestOK(task[d])'
  BY DEF RequestsOK, Lists, Deletes, Pages, PageRecords
<1>1. CASE d = c
  BY <1>1 DEF TaskMoves, RequestOK, ListOf
<1>2. CASE d # c
  BY <1>2, RequestStays DEF TaskMoves, RequestsOK
<1> QED
  BY <1>1, <1>2

LEMMA NotStarted ==
  ASSUME Typed', NEW e \in Environments, ~ Started(e)'
  PROVE  InventoryAt(e)'
<1>1. usage'[e].page = 0 /\ usage'[e].cursor = 0 /\ ~ usage'[e].complete /\ ListOf(e, 0)'.status = "none"
  <2>1. usage'[e].page \in Nat /\ usage'[e].cursor \in Nat
    BY DEF Typed, UsageRows
  <2> QED
    BY <2>1 DEF Started
<1>2. \A k \in Solid(e)' : k > usage'[e].cursor
  BY <1>1, KeysAssumption DEF Solid, Typed
<1>3. ListOf(e, usage[e].page)'.status # "committed"
  BY <1>1 DEF ListOf
<1> QED
  BY <1>1, <1>2, <1>3 DEF InventoryAt

LEMMA InventoryStays ==
  ASSUME Typed, Typed', PagesCounted, Holds, NEW e \in Environments, InventoryAt(e),
         usage'[e].page = usage[e].page, usage'[e].cursor = usage[e].cursor,
         usage'[e].complete = usage[e].complete,
         \A m \in Pages : ListOf(e, m)' = ListOf(e, m),
         Settled(e) /\ session[e] # "erased" => Solid(e)' \subseteq Solid(e),
         session'[e] = "erased" => session[e] = "erased"
  PROVE  InventoryAt(e)'
<1>1. PICK p \in Pages : p = usage[e].page
  BY CurrentPage
<1>2. 0 \in Pages
  BY BudgetAssumption DEF Pages
<1>3. CASE ~ Started(e)
  <2>1. ~ Started(e)'
    BY <1>2, <1>3 DEF Started
  <2> QED
    BY <2>1, NotStarted
<1>4. CASE Started(e)
  <2>1. Settled(e) /\ session[e] # "erased"
    BY <1>4 DEF InventoryAt
  <2>2. Settled(e)' /\ session'[e] # "erased" /\ Solid(e)' \subseteq Solid(e)
    BY <2>1, SettledStays
  <2>3. ListOf(e, usage[e].page)' = ListOf(e, usage[e].page)
    BY <1>1 DEF ListOf
  <2> QED
    BY <2>2, <2>3 DEF InventoryAt
<1> QED
  BY <1>3, <1>4

LEMMA KeepsInventory ==
  ASSUME Typed, Typed', PagesCounted, Lasting, Inventoried, Keeps
  PROVE  Inventoried'
<1>1. InventoryOK'
  BY InventoryStays DEF InventoryOK, Inventoried, Keeps, SamePages, SolidsShrink
<1>2. PagesProceed
  <2>1. \A e \in Environments : usage[e].page \in Nat
    BY UsageTypes
  <2> QED
    BY <2>1 DEF PagesProceed, Keeps, SamePages
<1>3. RequestsOK'
  <2> SUFFICES ASSUME NEW d \in Callers, task'[d] \in Lists \cup Deletes PROVE RequestOK(task[d])'
    BY DEF RequestsOK, Lists, Deletes, Pages, PageRecords
  <2>1. task'[d] = task[d]
    BY DEF Keeps
  <2> QED
    BY <1>2, <2>1, RequestStays DEF Inventoried, RequestsOK
<1> QED
  BY <1>1, <1>3 DEF Inventoried

LEMMA EraseInventory ==
  ASSUME Typed, Present, Inventoried, NEW c \in Callers, EraseRows(c)
  PROVE  Inventoried'
<1>1. /\ Typed' /\ TaskMoves(c, Idle)
      /\ \A e \in Environments :
           /\ session'[e] = IF e \in Live THEN "erased" ELSE session[e]
           /\ usage'[e] = NoUsage /\ \A n \in Names : operation'[e][n] = NoOperation
  BY EraseRowsMoves
<1>2. InventoryOK'
  <2> SUFFICES ASSUME NEW e \in Environments PROVE InventoryAt(e)'
    BY DEF InventoryOK
  <2>1. 0 \in Pages
    BY BudgetAssumption DEF Pages
  <2>2. ListOf(e, 0)' = NoOperation
    BY <1>1, <2>1, Operations DEF ListOf
  <2>3. NoOperation.status = "none" /\ NoUsage.page = 0 /\ NoUsage.cursor = 0 /\ ~ NoUsage.complete
    BY DEF NoOperation, NoUsage
  <2>4. ~ Started(e)'
    BY <1>1, <2>2, <2>3 DEF Started
  <2> QED
    BY <1>1, <2>4, NotStarted
<1>3. RequestsOK'
  <2> SUFFICES ASSUME NEW d \in Callers, task'[d] \in Lists \cup Deletes, session'[task'[d].env] # "erased"
               PROVE  FALSE
    BY DEF RequestsOK, RequestOK, Lists, Deletes, Pages, PageRecords
  <2>1. d # c /\ task'[d] = task[d] /\ IsPurging(task[d])
    BY <1>1, Kinds DEF TaskMoves, IsPurging
  <2>2. task[d].env \in Environments /\ session[task[d].env] # "none"
    BY <2>1, PurgeTask DEF Present, PresentTask
  <2> QED
    BY <1>1, <2>1, <2>2 DEF Live, Typed
<1> QED
  BY <1>2, <1>3 DEF Inventoried

LEMMA PurgeHolds ==
  ASSUME Typed, PagesCounted, NEW c \in Callers, PurgeSteps(c)
  PROVE  Holds
<1>1. PurgeTurn(c)
  BY PurgeStepsMove
<1>2. SamePuts
  BY <1>1 DEF PurgeTurn
<1>3. CASE SameFences
  BY <1>2, <1>3, SamePutsHold
<1>4. CASE Fence(c)
  <2>1. \A f \in Environments : /\ usage'[f].fenced = (f = task[c].env \/ usage[f].fenced)
                                /\ usage'[f].quiesced = usage[f].quiesced
    BY <1>4, FenceMoves
  <2> QED
    BY <1>2, <2>1 DEF Holds, SamePuts
<1>5. CASE Evidence(c)
  <2>1. PICK brought \in BOOLEAN :
          \A f \in Environments :
             /\ usage'[f].fenced = usage[f].fenced
             /\ usage'[f].quiesced = (usage[f].quiesced \/ (f = task[c].env /\ brought))
    BY <1>5, EvidenceMoves
  <2> QED
    BY <1>2, <2>1 DEF Holds, SamePuts
<1>6. ReserveList(c) \/ ReserveDelete(c) \/ Exhaust(c) => SameFences
  BY ReserveListMoves, ReserveDeleteMoves, ExhaustMoves DEF ListReserved, DeleteReserved, Exhausted
<1>7. ListReply(c) \/ DeleteReply(c) \/ PurgeFails(c) => SameFences
  BY ListReplyMoves, DeleteReplyMoves, PurgeFailsMoves DEF ListCommitted, RequestFailed, DeleteCommitted
<1> QED
  BY <1>3, <1>4, <1>5, <1>6, <1>7, Zenon DEF PurgeSteps

\* The session of a purge that is past its fence, when it keeps its page.
LEMMA InventoryRecorded ==
  ASSUME Typed, PagesCounted, Holds, NEW e \in Environments, InventoryAt(e),
         Settled(e), session'[e] # "erased", Solid(e)' \subseteq Solid(e),
         usage'[e].page = usage[e].page, usage'[e].cursor = usage[e].cursor,
         usage'[e].complete = usage[e].complete,
         \A m \in Pages : m = usage[e].page /\ ListOf(e, m)'.status = "committed" =>
            \/ ListOf(e, m)' = ListOf(e, m)
            \/ \A k \in Solid(e) : CoveredBy(ListOf(e, m)'.page, k)
  PROVE  InventoryAt(e)'
<1>1. PICK p \in Pages : p = usage[e].page /\ p = usage'[e].page
  BY CurrentPage
<1>2. /\ \A k \in Solid(e) : k > usage[e].cursor
      /\ ListOf(e, p).status = "committed" => \A k \in Solid(e) : CoveredBy(ListOf(e, p).page, k)
      /\ usage[e].complete => Solid(e) = {}
  BY <1>1 DEF InventoryAt
<1>3. Settled(e)'
  BY SettledStays
<1>4. ListOf(e, p)'.status = "committed" => \A k \in Solid(e)' : CoveredBy(ListOf(e, p)'.page, k)
  BY <1>1, <1>2
<1>5. ListOf(e, p)' = ListOf(e, usage[e].page)'
  BY <1>1 DEF ListOf
<1>6. ListOf(e, usage[e].page)'.status = "committed" =>
        \A k \in Solid(e)' : CoveredBy(ListOf(e, usage[e].page)'.page, k)
  BY <1>4, <1>5
<1> QED
  BY <1>2, <1>3, <1>6 DEF InventoryAt, CoveredBy

\* The next page, that was not listed yet.
LEMMA InventoryAdvances ==
  ASSUME Typed, Typed', PagesCounted, PagesCounted', Holds, NEW e \in Environments, InventoryAt(e),
         Settled(e), session'[e] # "erased", usage'[e].page = usage[e].page + 1,
         \A m \in Pages : ListOf(e, m)' = ListOf(e, m),
         \A k \in Solid(e)' : k > usage'[e].cursor,
         Solid(e)' \subseteq Solid(e), usage'[e].complete = usage[e].complete
  PROVE  InventoryAt(e)'
<1>1. PICK p \in Pages : p = usage[e].page /\ p \in Nat
  BY CurrentPage
<1>2. usage'[e].page <= usage'[e].lists /\ usage'[e].lists <= MaxLists
  BY DEF PagesCounted, CountedAt
<1>3. usage'[e].lists \in Nat /\ usage'[e].page = p + 1 /\ MaxLists \in Nat
  BY <1>1, BudgetAssumption DEF Typed, UsageRows
<1>4. p + 1 \in Pages
  BY <1>1, <1>2, <1>3 DEF Pages
<1>5. ListOf(e, p + 1).status = "none"
  BY <1>1, <1>4 DEF PagesCounted, CountedAt
<1>6. ListOf(e, p + 1)' = ListOf(e, p + 1)
  BY <1>4
<1>7. ListOf(e, usage[e].page)' = ListOf(e, p + 1)'
  BY <1>3 DEF ListOf
<1>8. ListOf(e, usage[e].page)'.status # "committed"
  BY <1>5, <1>6, <1>7
<1>9. Settled(e)'
  BY SettledStays
<1> QED
  BY <1>8, <1>9 DEF InventoryAt

\* Everything of an erasure that a step of it leaves alone.
LEMMA InventoryElsewhere ==
  ASSUME Typed, Typed', PagesCounted, InventoryOK, NEW c \in Callers, PurgeSteps(c),
         NEW e \in Environments,
         usage'[e].page = usage[e].page, usage'[e].cursor = usage[e].cursor,
         usage'[e].complete = usage[e].complete,
         \A m \in Pages : ListOf(e, m)' = ListOf(e, m)
  PROVE  InventoryAt(e)'
<1>1. PurgeTurn(c) /\ Holds
  BY PurgeStepsMove, PurgeHolds
<1>2. Solid(e)' \subseteq Solid(e) /\ session'[e] = session[e]
  BY <1>1, SamePutsLast, SolidsAreKept DEF PurgeTurn
<1> QED
  BY <1>1, <1>2, InventoryStays DEF InventoryOK

LEMMA PurgeIsSettled ==
  ASSUME Typed, PagesCounted, Fenced, NEW c \in Callers, PurgeSteps(c),
         task[c].at \notin {"fence", "evidence"}
  PROVE  Settled(task[c].env) /\ session'[task[c].env] # "erased"
BY PurgeStepsMove DEF PurgeTurn, Fenced, PurgesOK, PurgeOK

LEMMA ListReservedInventory ==
  ASSUME Typed, Typed', PagesCounted, Fenced, Lasting, Inventoried,
         NEW c \in Callers, PurgeSteps(c), ListReserved(c)
  PROVE  Inventoried'
<1>0. PurgeTurn(c) /\ Holds /\ task[c].env \in Environments /\ task[c].at = "page"
  BY PurgeStepsMove, PurgeHolds, PurgeTask DEF PurgeTurn, ListReserved
<1>1. PICK e \in Environments : e = task[c].env
  BY <1>0
<1>2. PICK p \in Pages : p = usage[e].page /\ p \in Nat
  BY CurrentPage
<1>3. /\ \A f \in Environments :
           /\ usage'[f].page = usage[f].page /\ usage'[f].cursor = usage[f].cursor
           /\ usage'[f].complete = usage[f].complete
      /\ ListOf(e, p).status # "committed" /\ objects' = objects
  BY <1>1, <1>2 DEF ListReserved
<1>4. PICK o \in OperationRows :
        /\ o.status = "in_flight"
        /\ \A f \in Environments, m \in Pages : ListOf(f, m)' = IF f = e /\ m = p THEN o ELSE ListOf(f, m)
  BY <1>1, <1>2 DEF ListReserved
<1>5. PICK t \in Lists : TaskMoves(c, t) /\ t.env = e /\ t.name = <<"list", p>> /\ t.cursor = usage[e].cursor
  BY <1>1, <1>2 DEF ListReserved
<1>6. InventoryAt(e)'
  <2>1. Settled(e) /\ session'[e] # "erased"
    BY <1>0, <1>1, PurgeIsSettled
  <2>2. Solid(e)' \subseteq Solid(e)
    BY <1>0, SamePutsLast, SolidsAreKept DEF PurgeTurn
  <2>3. \A m \in Pages : m = p => ListOf(e, m)'.status # "committed"
    BY <1>4
  <2> QED
    BY <1>0, <1>2, <1>3, <2>1, <2>2, <2>3, InventoryRecorded DEF Inventoried, InventoryOK
<1>7. \A f \in Environments : f # e => InventoryAt(f)'
  BY <1>3, <1>4, InventoryElsewhere DEF Inventoried
<1>8. PagesProceed
  <2>1. \A f \in Environments : usage[f].page \in Nat
    BY UsageTypes
  <2> QED
    BY <1>3, <1>4, <2>1 DEF PagesProceed
<1>9. RequestOK(t)'
  <2>1. t \notin Deletes
    BY Kinds
  <2>2. t.name[2] = p
    BY <1>5
  <2>3. t.name[2] <= usage'[t.env].page /\ t.cursor = usage'[t.env].cursor
    BY <1>2, <1>3, <1>5, <2>2
  <2> QED
    BY <2>1, <2>3 DEF RequestOK
<1>10. RequestsOK'
  BY <1>5, <1>8, <1>9, RequestsMove DEF Inventoried
<1> QED
  BY <1>6, <1>7, <1>10 DEF Inventoried, InventoryOK

LEMMA DeleteReservedInventory ==
  ASSUME Typed, Typed', PagesCounted, Fenced, Lasting, Inventoried,
         NEW c \in Callers, PurgeSteps(c), DeleteReserved(c)
  PROVE  Inventoried'
<1>0. task[c].env \in Environments
  BY PurgeStepsMove, PurgeTask DEF PurgeTurn
<1>1. PICK e \in Environments : e = task[c].env
  BY <1>0
<1>2. PICK p \in Pages : p = usage[e].page /\ p \in Nat
  BY CurrentPage
<1>3. /\ \A f \in Environments :
           /\ usage'[f].page = usage[f].page /\ usage'[f].cursor = usage[f].cursor
           /\ usage'[f].complete = usage[f].complete
      /\ \A f \in Environments, m \in Pages : ListOf(f, m)' = ListOf(f, m)
      /\ ListOf(e, p).status = "committed"
  BY <1>1, <1>2 DEF DeleteReserved
<1>4. PICK t \in Deletes : TaskMoves(c, t) /\ t.env = e /\ t.name = <<"delete", p>> /\ t.page = ListOf(e, p).page
  BY <1>1, <1>2 DEF DeleteReserved
<1>5. InventoryOK'
  BY <1>3, InventoryElsewhere DEF Inventoried, InventoryOK
<1>6. PagesProceed
  <2>1. \A f \in Environments : usage[f].page \in Nat
    BY UsageTypes
  <2> QED
    BY <1>3, <2>1 DEF PagesProceed
<1>7. RequestOK(t)'
  <2>1. t \notin Lists
    BY Kinds
  <2>2. t.name[2] = p /\ usage'[t.env].page = p
    BY <1>2, <1>3, <1>4
  <2>3. ListOf(t.env, usage[t.env].page)' = ListOf(e, p)
    BY <1>3, <1>4, <2>2 DEF ListOf
  <2> QED
    BY <1>2, <1>3, <1>4, <2>1, <2>2, <2>3 DEF RequestOK
<1>8. RequestsOK'
  BY <1>4, <1>6, <1>7, RequestsMove DEF Inventoried
<1> QED
  BY <1>5, <1>8 DEF Inventoried

LEMMA ExhaustedInventory ==
  ASSUME Typed, Typed', PagesCounted, PagesCounted', Fenced, Lasting, Inventoried,
         NEW c \in Callers, PurgeSteps(c), Exhausted(c)
  PROVE  Inventoried'
<1>0. PurgeTurn(c) /\ Holds /\ task[c].env \in Environments /\ task[c].at = "page" /\ task[c] \in Purges
  BY PurgeStepsMove, PurgeHolds, PurgeTask DEF PurgeTurn, Exhausted
<1>1. PICK e \in Environments : e = task[c].env
  BY <1>0
<1>2. PICK p \in Pages : p = usage[e].page /\ p \in Nat
  BY CurrentPage
<1>2a. PICK page : page = ListOf(e, p).page
  OBVIOUS
<1>3. /\ \A f \in Environments \ {e} :
           /\ usage'[f].page = usage[f].page /\ usage'[f].cursor = usage[f].cursor
           /\ usage'[f].complete = usage[f].complete
      /\ \A f \in Environments, m \in Pages : ListOf(f, m)' = ListOf(f, m)
      /\ ListOf(e, p).status = "committed" /\ page.keys = {} /\ objects' = objects
  BY <1>1, <1>2, <1>2a DEF Exhausted
<1>4. PICK t : TaskMoves(c, t) /\ t \notin Lists \cup Deletes
  BY <1>0, Kinds DEF Exhausted, IsPurging
<1>5. /\ \/ /\ page.truncated /\ usage'[e].complete = usage[e].complete
            /\ usage'[e].page = p + 1 /\ usage'[e].cursor = page.cursor
         \/ /\ ~ page.truncated
            /\ usage'[e].page = p /\ usage'[e].cursor = usage[e].cursor
            /\ usage'[e].complete \in {usage[e].complete, TRUE}
  BY <1>1, <1>2, <1>2a DEF Exhausted
<1>6. Settled(e) /\ session'[e] # "erased" /\ Solid(e)' \subseteq Solid(e)
  BY <1>0, <1>1, PurgeIsSettled, SamePutsLast, SolidsAreKept DEF PurgeTurn
<1>7. \A k \in Solid(e) : page.truncated /\ k > page.cursor
  BY <1>2, <1>2a, <1>3 DEF Inventoried, InventoryOK, InventoryAt, CoveredBy
<1>8. InventoryAt(e)'
  <2>1. CASE usage'[e].page = p + 1
    <3>1. usage'[e].complete = usage[e].complete /\ usage'[e].cursor = page.cursor
      <4>1. p + 1 # p
        BY <1>2
      <4> QED
        BY <1>5, <2>1, <4>1, Zenon
    <3>2. \A k \in Solid(e)' : k > usage'[e].cursor
      BY <1>6, <1>7, <3>1
    <3>3. usage'[e].page = usage[e].page + 1 /\ InventoryAt(e)
      BY <1>2, <1>2a, <2>1 DEF Inventoried, InventoryOK
    <3> QED
      BY <1>0, <1>3, <1>6, <3>1, <3>2, <3>3, InventoryAdvances
  <2>2. CASE ~ page.truncated
    <3>1. Solid(e)' = {}
      BY <1>6, <1>7, <2>2
    <3>2. Settled(e)'
      BY <1>0, <1>6, SettledStays
    <3> QED
      BY <1>6, <3>1, <3>2 DEF InventoryAt
  <2> QED
    BY <1>5, <2>1, <2>2
<1>9. \A f \in Environments : f # e => InventoryAt(f)'
  BY <1>3, InventoryElsewhere DEF Inventoried
<1>10. PagesProceed
  <2>1. \A f \in Environments : usage[f].page \in Nat
    BY UsageTypes
  <2>2. usage[e].page <= usage'[e].page /\ (usage'[e].page = usage[e].page => usage'[e].cursor = usage[e].cursor)
    <3>1. p + 1 # p /\ p <= p + 1 /\ p <= p
      BY <1>2
    <3> QED
      BY <1>2, <1>2a, <1>5, <3>1
  <2> QED
    BY <1>3, <2>1, <2>2 DEF PagesProceed
<1>11. RequestsOK'
  BY <1>4, <1>10, RequestsMove DEF Inventoried
<1> QED
  BY <1>8, <1>9, <1>11 DEF Inventoried, InventoryOK

LEMMA ListCommittedInventory ==
  ASSUME Typed, Typed', PagesCounted, Fenced, Lasting, Inventoried,
         NEW c \in Callers, PurgeSteps(c), ListCommitted(c)
  PROVE  Inventoried'
<1>0. /\ PurgeTurn(c) /\ Holds /\ task[c] \in Lists /\ task[c].at \notin {"fence", "evidence"}
      /\ task[c].env \in Environments /\ task[c].name[2] \in Pages /\ task[c].cursor \in Nat
  BY PurgeStepsMove, PurgeHolds, PurgeTask, RequestTask DEF PurgeTurn, ListCommitted, Lists
<1>1. PICK e \in Environments : e = task[c].env
  BY <1>0
<1>2. PICK m \in Pages : m = task[c].name[2]
  BY <1>0
<1>3. PICK p \in Pages : p = usage[e].page /\ p \in Nat
  BY CurrentPage
<1>4. /\ \A f \in Environments :
           /\ usage'[f].page = usage[f].page /\ usage'[f].cursor = usage[f].cursor
           /\ usage'[f].complete = usage[f].complete
      /\ ListOf(e, m).status = "in_flight" /\ objects' = objects
  BY <1>1, <1>2 DEF ListCommitted
<1>5. PICK o \in OperationRows, page \in Listings(e, task[c].cursor) :
        /\ o.page = page
        /\ \A f \in Environments, j \in Pages : ListOf(f, j)' = IF f = e /\ j = m THEN o ELSE ListOf(f, j)
  BY <1>1, <1>2 DEF ListCommitted
<1>6. PICK t \in Purges : TaskMoves(c, t)
  BY <1>1, <1>2 DEF ListCommitted
<1>7. Settled(e) /\ session'[e] # "erased" /\ Solid(e)' \subseteq Solid(e)
  BY <1>0, <1>1, PurgeIsSettled, SamePutsLast, SolidsAreKept DEF PurgeTurn
<1>8. m = p => \A k \in Solid(e) : CoveredBy(page, k)
  <2> SUFFICES ASSUME m = p, NEW k \in Solid(e) PROVE CoveredBy(page, k)
    OBVIOUS
  <2>1. task[c].cursor = usage[e].cursor
    BY <1>0, <1>1, <1>2, <1>3, <1>7 DEF Inventoried, RequestsOK, RequestOK, PurgeTurn
  <2>2. k \in objects[e] /\ k > task[c].cursor
    BY <2>1 DEF Inventoried, InventoryOK, InventoryAt, Solid
  <2> QED
    BY <1>0, <2>2, ListingIsPage DEF CoveredBy
<1>9. InventoryAt(e)'
  <2>1. \A j \in Pages : j = usage[e].page /\ ListOf(e, j)'.status = "committed" =>
          \/ ListOf(e, j)' = ListOf(e, j)
          \/ \A k \in Solid(e) : CoveredBy(ListOf(e, j)'.page, k)
    BY <1>3, <1>5, <1>8
  <2> QED
    BY <1>0, <1>4, <1>7, <2>1, InventoryRecorded DEF Inventoried, InventoryOK
<1>10. \A f \in Environments : f # e => InventoryAt(f)'
  BY <1>4, <1>5, InventoryElsewhere DEF Inventoried
<1>11. PagesProceed
  <2>1. \A f \in Environments : usage[f].page \in Nat
    BY UsageTypes
  <2>2. \A f \in Environments, j \in Pages : ListOf(f, j).status = "committed" => ListOf(f, j)' = ListOf(f, j)
    BY <1>4, <1>5
  <2> QED
    BY <1>4, <2>1, <2>2 DEF PagesProceed
<1>12. t \notin Lists \cup Deletes
  BY Kinds
<1>13. RequestsOK'
  BY <1>6, <1>11, <1>12, RequestsMove DEF Inventoried
<1> QED
  BY <1>9, <1>10, <1>13 DEF Inventoried, InventoryOK

LEMMA RequestFailedInventory ==
  ASSUME Typed, Typed', PagesCounted, Fenced, Lasting, Inventoried,
         NEW c \in Callers, PurgeSteps(c), RequestFailed(c)
  PROVE  Inventoried'
<1>0. /\ PurgeTurn(c) /\ Holds /\ task[c] \in Lists \cup Deletes /\ task[c].at \notin {"fence", "evidence"}
      /\ task[c].env \in Environments
  BY PurgeStepsMove, PurgeHolds, PurgeTask DEF PurgeTurn, RequestFailed, Lists, Deletes
<1>1. PICK e \in Environments : e = task[c].env
  BY <1>0
<1>2. /\ \A f \in Environments :
           /\ usage'[f].page = usage[f].page /\ usage'[f].cursor = usage[f].cursor
           /\ usage'[f].complete = usage[f].complete
      /\ \A f \in Environments, j \in Pages :
           \/ ListOf(f, j)' = ListOf(f, j)
           \/ ListOf(f, j).status = "in_flight" /\ ListOf(f, j)'.status = "unknown"
      /\ TaskMoves(c, Idle)
  BY DEF RequestFailed
<1>3. Settled(e) /\ session'[e] # "erased"
  BY <1>0, <1>1, PurgeIsSettled
<1>4. \A f \in Environments : Solid(f)' \subseteq Solid(f)
  BY <1>0, SamePutsLast, SolidsAreKept DEF PurgeTurn
<1>5. \A f \in Environments, j \in Pages : ListOf(f, j).status = "committed" => ListOf(f, j)' = ListOf(f, j)
  BY <1>2
<1>6. \A f \in Environments, j \in Pages : ListOf(f, j)'.status = "committed" => ListOf(f, j)' = ListOf(f, j)
  BY <1>2
<1>7. ASSUME NEW f \in Environments PROVE InventoryAt(f)'
  <2>1. CASE Started(f)
    <3>1. Settled(f) /\ session[f] # "erased" /\ InventoryAt(f)
      BY <2>1 DEF Inventoried, InventoryOK, InventoryAt
    <3>2. session' = session
      BY <1>0 DEF PurgeTurn
    <3> QED
      BY <1>0, <1>2, <1>4, <1>6, <3>1, <3>2, InventoryRecorded
  <2>2. CASE ~ Started(f)
    <3>1. usage[f].page \in Nat /\ usage[f].cursor \in Nat /\ 0 \in Pages
      BY UsageTypes, BudgetAssumption DEF Pages
    <3>2. ~ usage[f].complete /\ ListOf(f, 0).status = "none" /\ ~ (usage[f].page > 0) /\ ~ (usage[f].cursor > 0)
      BY <2>2 DEF Started
    <3>3. ListOf(f, 0)' = ListOf(f, 0)
      BY <1>2, <3>1, <3>2
    <3>4. ~ Started(f)'
      BY <1>2, <3>2, <3>3 DEF Started
    <3> QED
      BY <3>4, NotStarted
  <2> QED
    BY <2>1, <2>2
<1>8. PagesProceed
  <2>1. \A f \in Environments : usage[f].page \in Nat
    BY UsageTypes
  <2> QED
    BY <1>2, <1>5, <2>1 DEF PagesProceed
<1>9. RequestsOK'
  BY <1>2, <1>8, Kinds, RequestsMove DEF Inventoried, IsPurging
<1> QED
  BY <1>7, <1>9 DEF Inventoried, InventoryOK

LEMMA DeleteCommittedInventory ==
  ASSUME Typed, Typed', PagesCounted, PagesCounted', Fenced, Lasting, Inventoried,
         NEW c \in Callers, PurgeSteps(c), DeleteCommitted(c)
  PROVE  Inventoried'
<1>0. /\ PurgeTurn(c) /\ Holds /\ task[c] \in Deletes /\ task[c].at \notin {"fence", "evidence"}
      /\ task[c].env \in Environments /\ task[c].name[2] \in Pages
  BY PurgeStepsMove, PurgeHolds, PurgeTask, RequestTask DEF PurgeTurn, DeleteCommitted, Deletes
<1>1. PICK e \in Environments : e = task[c].env
  BY <1>0
<1>2. PICK p \in Pages : p = usage[e].page /\ p \in Nat
  BY CurrentPage
<1>3. /\ \A f \in Environments : usage'[f].complete = usage[f].complete
      /\ \A f \in Environments \ {e} :
           usage'[f].page = usage[f].page /\ usage'[f].cursor = usage[f].cursor
      /\ \A f \in Environments, j \in Pages : ListOf(f, j)' = ListOf(f, j)
      /\ objects'[e] = objects[e] \ task[c].page.keys
  BY <1>1 DEF DeleteCommitted
<1>4. Settled(e) /\ session'[e] # "erased" /\ Solid(e)' \subseteq Solid(e)
  BY <1>0, <1>1, PurgeIsSettled, SamePutsLast, SolidsAreKept DEF PurgeTurn
<1>5. \A f \in Environments : f # e => InventoryAt(f)'
  BY <1>3, InventoryElsewhere DEF Inventoried
<1>6. PICK t : TaskMoves(c, t) /\ t \notin Lists \cup Deletes
  BY Kinds DEF DeleteCommitted, IsPurging
<1>7. CASE usage'[e].page = usage[e].page /\ usage'[e].cursor = usage[e].cursor
  <2>1. InventoryAt(e)'
    BY <1>3, <1>7, InventoryElsewhere DEF Inventoried
  <2>2. PagesProceed
    <3>1. \A f \in Environments : usage[f].page \in Nat
      BY UsageTypes
    <3> QED
      BY <1>3, <1>7, <3>1 DEF PagesProceed
  <2>3. RequestsOK'
    BY <1>6, <2>2, RequestsMove DEF Inventoried
  <2> QED
    BY <1>5, <2>1, <2>3 DEF Inventoried, InventoryOK
<1>8. CASE ~ (usage'[e].page = usage[e].page /\ usage'[e].cursor = usage[e].cursor)
  <2>1. /\ DeleteOf(e, task[c].name[2]).status = "in_flight"
        /\ usage'[e].page = p + 1 /\ usage'[e].cursor = task[c].page.cursor
    BY <1>1, <1>2, <1>8 DEF DeleteCommitted
  <2>2. task[c].name[2] = p
    BY <1>0, <1>2, <2>1 DEF PagesCounted, CountedAt
  <2>3. ListOf(e, p).status = "committed" /\ task[c].page = ListOf(e, p).page
    BY <1>0, <1>1, <1>2, <2>2 DEF Inventoried, RequestsOK, RequestOK, PurgeTurn
  <2>4. \A k \in Solid(e)' : k > usage'[e].cursor
    <3> SUFFICES ASSUME NEW k \in Solid(e)' PROVE k > usage'[e].cursor
      OBVIOUS
    <3>1. k \in Solid(e) /\ k \notin task[c].page.keys
      BY <1>3, <1>4 DEF Solid
    <3>2. CoveredBy(task[c].page, k)
      BY <1>2, <2>3, <3>1 DEF Inventoried, InventoryOK, InventoryAt
    <3> QED
      BY <2>1, <3>1, <3>2 DEF CoveredBy
  <2>5. InventoryAt(e)'
    BY <1>0, <1>2, <1>3, <1>4, <2>1, <2>4, InventoryAdvances DEF Inventoried, InventoryOK
  <2>6. PagesProceed
    <3>1. \A f \in Environments : usage[f].page \in Nat
      BY UsageTypes
    <3>2. usage[e].page <= usage'[e].page /\ usage'[e].page # usage[e].page
      BY <1>2, <2>1
    <3> QED
      BY <1>3, <3>1, <3>2 DEF PagesProceed
  <2>7. RequestsOK'
    BY <1>6, <2>6, RequestsMove DEF Inventoried
  <2> QED
    BY <1>5, <2>5, <2>7 DEF Inventoried, InventoryOK
<1> QED
  BY <1>7, <1>8

LEMMA PurgeInventory ==
  ASSUME Typed, Typed', PagesCounted, PagesCounted', Fenced, Lasting, Inventoried,
         NEW c \in Callers, PurgeSteps(c)
  PROVE  Inventoried'
<1>1. CASE Fence(c) \/ Evidence(c)
  <2>1. SamePages
    BY <1>1, FenceMoves, EvidenceMoves
  <2>2. PICK t : TaskMoves(c, t) /\ t \notin Lists \cup Deletes
    BY <1>1, FenceMoves, EvidenceMoves, Kinds DEF IsPurging
  <2>3. InventoryOK'
    BY <2>1, InventoryElsewhere DEF Inventoried, InventoryOK, SamePages
  <2>4. PagesProceed
    <3>1. \A f \in Environments : usage[f].page \in Nat
      BY UsageTypes
    <3> QED
      BY <2>1, <3>1 DEF PagesProceed, SamePages
  <2>5. RequestsOK'
    BY <2>2, <2>4, RequestsMove DEF Inventoried
  <2> QED
    BY <2>3, <2>5 DEF Inventoried
<1>2. CASE ReserveList(c)
  BY <1>2, ReserveListMoves, ListReservedInventory
<1>3. CASE ReserveDelete(c)
  BY <1>3, ReserveDeleteMoves, DeleteReservedInventory
<1>4. CASE Exhaust(c)
  BY <1>4, ExhaustMoves, ExhaustedInventory
<1>5. CASE ListReply(c)
  BY <1>5, ListReplyMoves, ListCommittedInventory, RequestFailedInventory
<1>6. CASE DeleteReply(c)
  BY <1>6, DeleteReplyMoves, DeleteCommittedInventory
<1>7. CASE PurgeFails(c)
  BY <1>7, PurgeFailsMoves, RequestFailedInventory
<1> QED
  BY <1>1, <1>2, <1>3, <1>4, <1>5, <1>6, <1>7, Zenon DEF PurgeSteps

LEMMA StepsAreInventoried ==
  ASSUME Typed, PagesCounted, Present, Charged, Fenced, Inventoried, [Next]_vars
  PROVE  Inventoried'
<1>1. Typed' /\ PagesCounted' /\ Lasting
  BY StepsAreTyped, StepsAreCounted, SessionsLast
<1>2. CASE Keeps
  BY <1>1, <1>2, KeepsInventory
<1>3. ASSUME NEW c \in Callers, EraseRows(c) PROVE Inventoried'
  BY <1>3, EraseInventory
<1>4. ASSUME NEW c \in Callers, PurgeSteps(c) PROVE Inventoried'
  BY <1>1, <1>4, PurgeInventory
<1> QED
  BY <1>2, <1>3, <1>4, StepsKeep

LEMMA InitIsInventoried == Init => Inventoried
<1> SUFFICES ASSUME Init PROVE Inventoried
  OBVIOUS
<1>1. ASSUME NEW e \in Environments PROVE InventoryAt(e)
  <2>1. usage[e] = NoUsage /\ objects[e] = {}
    BY DEF Init
  <2>2. NoUsage.page = 0 /\ NoUsage.cursor = 0 /\ ~ NoUsage.complete
    BY DEF NoUsage
  <2>3. 0 \in Pages
    BY BudgetAssumption DEF Pages
  <2>4. ListOf(e, 0) = NoOperation
    BY <2>3, Operations DEF Init, ListOf
  <2>5. NoOperation.status = "none"
    BY DEF NoOperation
  <2>6. ~ Started(e)
    BY <2>1, <2>2, <2>4, <2>5 DEF Started
  <2>7. Solid(e) = {}
    BY <2>1 DEF Solid
  <2> QED
    BY <2>6, <2>7 DEF InventoryAt
<1>2. RequestsOK
  BY Kinds DEF Init, RequestsOK, IsPurging
<1> QED
  BY <1>1, <1>2 DEF Inventoried, InventoryOK

LEMMA CompletionHolds ==
  ASSUME Typed, Charged, Fenced, Inventoried
  PROVE  CompletionIsProven
<1> SUFFICES ASSUME NEW e \in Environments, usage[e].complete, NEW k \in objects[e] \cup OnTheWay(e)
             PROVE  PutOf(e, k).status = "committed" /\ PutOf(e, k).attempts > 1
  BY DEF CompletionIsProven, PutOf
<1>1. Settled(e) /\ session[e] # "erased" /\ Solid(e) = {}
  BY DEF Inventoried, InventoryOK, InventoryAt, Started
<1>2. CASE k \in objects[e]
  BY <1>1, <1>2 DEF Solid
<1>3. CASE k \in OnTheWay(e)
  BY <1>1, <1>3, OnTheWayIsInFlight, LateIsCommitted
<1> QED
  BY <1>2, <1>3
------------------------------------------------------------------------------
(* The invariant, and what follows from it. *)

\* The budgets and the clock, which the rest does not look at.
Clocked == budgeted \subseteq Environments /\ phase \in 0..3
HostedInvariant ==
  /\ Typed /\ Clocked /\ PagesCounted /\ Present
  /\ Charged /\ Branched /\ Fenced /\ Inventoried

LEMMA StepsAreClocked ==
  ASSUME Clocked, [Next]_vars
  PROVE  Clocked'
<1>0. Child \in Environments
  BY DEF Environments
<1>1. CASE UNCHANGED vars
  BY <1>1 DEF Clocked, vars, rows, host
<1>2. CASE Checkpoint
  BY <1>2 DEF Checkpoint, Clocked, host
<1>3. CASE Surroundings
  BY <1>3 DEF Surroundings, Land, TimePasses, Clocked, rows, host
<1>4. ASSUME NEW c \in Callers, Host(c) PROVE Clocked'
  <2>1. phase' = phase
    <3>1. (\E k \in Keys : Put(c, k)) \/ PutReply(c) \/ PutFails(c) \/ GetReply(c) \/ GetFails(c) => phase' = phase
      BY DEF Put, PutReply, PutFails, GetReply, GetFails, host
    <3>2. /\ BranchBegin(c) \/ BranchInstall(c) \/ BranchLook(c) => phase' = phase
          /\ BranchRead(c) \/ BranchWrite(c) \/ BranchFinish(c) => phase' = phase
      BY DEF BranchBegin, BranchInstall, BranchLook, BranchRead, ReserveGet, BranchWrite, BranchFinish, host
    <3>3. /\ Erase(c) \/ (\E e \in Environments : Expire(c, e)) => phase' = phase
          /\ Fence(c) \/ Evidence(c) \/ ReserveList(c) \/ ReserveDelete(c) \/ Exhaust(c) => phase' = phase
      BY DEF Erase, Expire, Fence, Evidence, ReserveList, ReserveDelete, Exhaust, host
    <3>4. /\ ListReply(c) \/ DeleteReply(c) \/ PurgeFails(c) => phase' = phase
          /\ Purged(c) \/ EraseRows(c) \/ Lose(c) => phase' = phase
      BY DEF ListReply, DeleteReply, PurgeFails, Purged, EraseRows, Lose, host
    <3> QED
      BY <1>4, <3>1, <3>2, <3>3, <3>4, Zenon DEF Host
  <2>2. budgeted' \subseteq budgeted \cup {Child}
    <3>1. (\E k \in Keys : Put(c, k)) \/ PutReply(c) \/ PutFails(c) \/ GetReply(c) \/ GetFails(c)
            => budgeted' = budgeted
      BY DEF Put, PutReply, PutFails, GetReply, GetFails
    <3>2. /\ BranchBegin(c) \/ BranchLook(c) \/ BranchRead(c) => budgeted' = budgeted
          /\ BranchWrite(c) \/ BranchFinish(c) => budgeted' = budgeted
          /\ BranchInstall(c) => budgeted' = budgeted \cup {Child}
      BY DEF BranchBegin, BranchInstall, BranchLook, BranchRead, ReserveGet, BranchWrite, BranchFinish, rows
    <3>3. /\ Erase(c) \/ (\E e \in Environments : Expire(c, e)) => budgeted' = budgeted
          /\ Fence(c) \/ Evidence(c) \/ ReserveList(c) \/ ReserveDelete(c) \/ Exhaust(c) => budgeted' = budgeted
      BY DEF Erase, Expire, Fence, Evidence, ReserveList, ReserveDelete, Exhaust, rows
    <3>4. /\ ListReply(c) \/ DeleteReply(c) \/ PurgeFails(c) => budgeted' = budgeted
          /\ Purged(c) \/ Lose(c) => budgeted' = budgeted
          /\ EraseRows(c) => budgeted' = {}
      BY DEF ListReply, DeleteReply, PurgeFails, Purged, EraseRows, Lose, rows
    <3>5. budgeted' = budgeted \/ budgeted' = budgeted \cup {Child} \/ budgeted' = {}
      BY <1>4, <3>1, <3>2, <3>3, <3>4, Zenon DEF Host
    <3> QED
      BY <3>5
  <2> QED
    BY <1>0, <2>1, <2>2 DEF Clocked
<1> QED
  BY <1>1, <1>2, <1>3, <1>4, Zenon DEF Next

LEMMA InitHasInvariant == Init => HostedInvariant
<1>1. Init => Clocked
  BY DEF Init, Clocked, Environments
<1> QED
  BY <1>1, InitIsTyped, InitIsCounted, InitIsPresent, InitIsCharged, InitIsBranched, InitIsFenced,
     InitIsInventoried DEF HostedInvariant

LEMMA StepsKeepInvariant == HostedInvariant /\ [Next]_vars => HostedInvariant'
<1> SUFFICES ASSUME HostedInvariant, [Next]_vars PROVE HostedInvariant'
  OBVIOUS
<1>1. /\ Typed /\ Clocked /\ PagesCounted /\ Present
      /\ Charged /\ Branched /\ Fenced /\ Inventoried
  BY DEF HostedInvariant
<1>2. Typed' /\ Clocked' /\ PagesCounted' /\ Present'
  BY <1>1, StepsAreTyped, StepsAreClocked, StepsAreCounted, StepsArePresent
<1>3. Charged' /\ Branched'
  BY <1>1, StepsAreCharged, StepsAreBranched
<1>4. Fenced' /\ Inventoried'
  BY <1>1, StepsAreFenced, StepsAreInventoried
<1> QED
  BY <1>2, <1>3, <1>4 DEF HostedInvariant

LEMMA HostedHolds == Spec => []HostedInvariant
BY InitHasInvariant, StepsKeepInvariant, PTL DEF Spec

LEMMA TypesHold == HostedInvariant => TypeOK
<1> SUFFICES ASSUME HostedInvariant PROVE TypeOK
  OBVIOUS
<1>1. Typed /\ Clocked /\ PagesCounted
  BY DEF HostedInvariant
<1>2. \A e \in Environments, n \in Names :
        operation[e][n].status \in {"none", "in_flight", "unknown", "committed"}
  BY <1>1, OperationTypes
<1>3. \A e \in Environments : usage[e].page \in Pages /\ artifacts[e] \cup objects[e] \subseteq Keys
  BY <1>1, CurrentPage DEF Typed
<1>4. \A r \in wire : r.env \in Environments /\ r.key \in Keys
  BY <1>1 DEF Typed, Uploads
<1> QED
  BY <1>1, <1>2, <1>3, <1>4 DEF TypeOK, Typed, Clocked

\* The rows, the bucket and the uploads in flight of the hosted store have
\* their types (hosted.py: environments, artifact_budget_usage,
\* artifact_operations, artifacts), for any keys, callers and budgets.
THEOREM HostedTypes == Spec => []TypeOK
BY HostedHolds, TypesHold, PTL

\* Whatever is in a session's bucket, or may still land there, was charged
\* to its frozen budget: the reservation of an upload charges its content
\* once, over retries, lost replies and abandoned uploads that land late
\* (hosted.py: artifact).
THEOREM BucketsAreCharged == Spec => []BucketIsCharged
<1>1. HostedInvariant => BucketIsCharged
  BY ChargesHold DEF HostedInvariant
<1> QED
  BY <1>1, HostedHolds, PTL

\* An indexed artifact can be read until its session is fenced for erasure:
\* only a purge deletes objects, and never before its fence.
THEOREM IndexedArtifactsAreStored == Spec => []IndexedArtifactIsStored
<1>1. HostedInvariant => IndexedArtifactIsStored
  BY DEF HostedInvariant, Fenced
<1> QED
  BY <1>1, HostedHolds, PTL

\* A branch is exposed only whole, over any number of abandoned, retried and
\* concurrent attempts at it (runtime.py: _branch_hosted).
THEOREM ExposedBranchesAreWhole == Spec => []ExposedBranchIsWhole
<1>1. HostedInvariant => ExposedBranchIsWhole
  BY DEF HostedInvariant, Branched
<1> QED
  BY <1>1, HostedHolds, PTL

\* An erasure is complete only over settled uploads: nothing is in the
\* bucket, or may still land there, but what a superseded attempt of a
\* committed upload delivers late (hosted.py: _purge_budgeted_environment).
THEOREM CompletionsAreProven == Spec => []CompletionIsProven
<1>1. HostedInvariant => CompletionIsProven
  BY CompletionHolds DEF HostedInvariant
<1> QED
  BY <1>1, HostedHolds, PTL
==============================================================================
