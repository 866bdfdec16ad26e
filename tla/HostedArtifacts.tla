--------------------------- MODULE HostedArtifacts ---------------------------
(***************************************************************************)
(* Budgeted artifacts of hosted sessions (hosted.py PostgresEvidenceStore) *)
(* and the branch that copies them (runtime.py _branch_hosted).  Every     *)
(* provider request is reserved in one transaction and settled in another; *)
(* between them the caller may fail or be lost, and an upload may still    *)
(* land in the bucket long after its caller has given it up.               *)
(***************************************************************************)
EXTENDS Integers, FiniteSets, FiniteSetsExt, Functions

CONSTANTS
  Parent, Child,  \* the source session and the session branched from it
  Keys,           \* object keys 1, 2, ... in the bucket's listing order
  SizeOf,         \* SizeOf[k]: bytes of the content written under k
  Callers,        \* threads of the host
  PageSize,       \* objects of one listing (PURGE_PAGE_OBJECTS)
  MaxLiveBytes, MaxObjects, MaxPuts, MaxGets, MaxLists, MaxDeletes,
                  \* the frozen HostedArtifactBudget of each session
  MaxCalls        \* bound: calls begun, to write, branch, expire or erase

Environments == {Parent, Child}

ASSUME EnvironmentsAssumption == Parent # Child
\* Contract of the budget (contracts.py consistent_limits).
ASSUME KeysAssumption == Keys \subseteq Nat \ {0} /\ IsFiniteSet(Keys)
ASSUME SizeAssumption == SizeOf \in [Keys -> Nat \ {0}]
ASSUME BudgetAssumption ==
  /\ {PageSize, MaxLiveBytes, MaxObjects} \subseteq Nat \ {0}
  /\ {MaxPuts, MaxGets, MaxLists, MaxDeletes} \subseteq Nat
  /\ MaxPuts >= MaxObjects
  /\ MaxDeletes * PageSize >= MaxObjects /\ (MaxLists - 1) * PageSize >= MaxObjects

VARIABLES
  \* rows
  session,    \* environments.status: "none", "pending", "exposed", "erased"
  budgeted,   \* sessions whose budget is installed
  usage,      \* artifact_budget_usage
  operation,  \* artifact_operations
  artifacts,  \* artifacts: the keys indexed per session
  aliases,    \* artifact_aliases: source keys the branched session resolves
  checkpoint, \* the artifact inventory that a checkpoint of the parent froze
  \* the deadlines of the budgets: 0 none has passed, 1 expired, 2 past
  \* retention, 3 past cleanup
  phase,
  \* the bucket, and the abandoned uploads that may still land in it
  objects, wire,
  \* what each caller is in the middle of, and the calls begun so far
  task, calls

rows == <<session, budgeted, usage, operation, artifacts, aliases, checkpoint>>
index == <<artifacts, aliases, checkpoint>>
bucket == <<objects, wire>>
host == <<phase, calls>>
vars == <<rows, host, bucket, task>>
------------------------------------------------------------------------------
Pages == 0..MaxLists
Names == ({"put", "get"} \X Keys) \cup ({"list", "delete"} \X Pages)
NoPage == [keys |-> {}, cursor |-> 0, truncated |-> FALSE]
NoOperation == [status |-> "none", attempts |-> 0, page |-> NoPage]
NoUsage == [puts |-> 0, gets |-> 0, lists |-> 0, deletes |-> 0, deleted |-> 0,
            objects |-> 0, bytes |-> 0, listed |-> 0, page |-> 0, cursor |-> 0,
            fenced |-> FALSE, quiesced |-> FALSE, complete |-> FALSE]
Idle == [goal |-> "none"]

Bytes(keys) == SumFunctionOnSet(SizeOf, keys)

Init ==
  /\ session = [e \in Environments |-> IF e = Parent THEN "exposed" ELSE "none"]
  /\ budgeted = {Parent}
  /\ usage = [e \in Environments |-> NoUsage]
  /\ operation = [e \in Environments |-> [n \in Names |-> NoOperation]]
  /\ artifacts = [e \in Environments |-> {}]
  /\ aliases = {} /\ checkpoint = {}
  /\ phase = 0
  /\ objects = [e \in Environments |-> {}]
  /\ wire = {}
  /\ task = [c \in Callers |-> Idle]
  /\ calls = 0

\* Only an exposed session that no erasure fenced serves its callers.
Served(e) == session[e] = "exposed" /\ ~usage[e].fenced

\* A reply settles only the attempt it belongs to.  An attempt in flight
\* excludes another for ARTIFACT_ATTEMPT_LEASE_SECONDS, which its request
\* may outlive: time is not counted, so a retry may come at any moment.
Current(e, n, attempt) ==
  operation[e][n].status = "in_flight" /\ operation[e][n].attempts = attempt
Attempted(e, n) ==
  [operation EXCEPT ![e][n] = [status |-> "in_flight", attempts |-> @.attempts + 1, page |-> @.page]]
Marked(e, n, status) == [operation EXCEPT ![e][n].status = status]
Unknown(e, n, attempt) ==
  operation' = IF Current(e, n, attempt) THEN Marked(e, n, "unknown") ELSE operation

Does(c, t) == task' = [task EXCEPT ![c] = t]
Stops(c) == Does(c, Idle)
Begins(c) == task[c] = Idle /\ calls < MaxCalls /\ calls' = calls + 1
------------------------------------------------------------------------------
(* Writing under a stable operation key: the first attempt charges the     *)
(* content, every attempt charges a request, then the upload is sent.      *)

\* One more attempt of a kind fits its allowance.
Allowed(u, kind) ==
  CASE kind = "put" -> u.puts < MaxPuts
    [] kind = "get" -> u.gets < MaxGets
    [] kind = "list" -> u.lists < MaxLists
    [] kind = "delete" -> u.deletes < MaxDeletes

\* Mutant: a retry is charged as new content.
ReservePut_RetryCharged(c, e, k, goal, left) ==
  LET n == <<"put", k>>
      u == usage[e]
      new == operation[e][n].status # "committed"
      attempt == operation[e][n].attempts + 1
  IN  /\ e \in budgeted /\ ~u.fenced /\ phase = 0
      /\ operation[e][n].status # "committed"
      /\ new => u.bytes + SizeOf[k] <= MaxLiveBytes /\ u.objects < MaxObjects
      /\ Allowed(u, "put")
      /\ operation' = Attempted(e, n)
      /\ usage' = [usage EXCEPT ![e] =
           [u EXCEPT !.puts = @ + 1,
                     !.bytes = IF new THEN @ + SizeOf[k] ELSE @,
                     !.objects = IF new THEN @ + 1 ELSE @]]
      /\ Does(c, [goal |-> goal, left |-> left, at |-> "put", env |-> e, key |-> k,
                  attempt |-> attempt])
ReservePut(c, e, k, goal, left) ==
  LET n == <<"put", k>>
      u == usage[e]
      new == operation[e][n].status = "none"
      attempt == operation[e][n].attempts + 1
  IN  /\ e \in budgeted /\ ~u.fenced /\ phase = 0
      /\ operation[e][n].status # "committed"
      /\ new => u.bytes + SizeOf[k] <= MaxLiveBytes /\ u.objects < MaxObjects
      /\ Allowed(u, "put")
      /\ operation' = Attempted(e, n)
      /\ usage' = [usage EXCEPT ![e] =
           [u EXCEPT !.puts = @ + 1,
                     !.bytes = IF new THEN @ + SizeOf[k] ELSE @,
                     !.objects = IF new THEN @ + 1 ELSE @]]
      /\ Does(c, [goal |-> goal, left |-> left, at |-> "put", env |-> e, key |-> k,
                  attempt |-> attempt])

Put(c, k) ==
  /\ Begins(c) /\ session[Parent] = "exposed"
  /\ ReservePut(c, Parent, k, "put", {})
  /\ UNCHANGED <<session, budgeted, index, phase, bucket>>

\* The reply: the artifact is indexed by the attempt that is still current.
PutReply(c) ==
  LET t == task[c]
      n == <<"put", t.key>>
  IN  /\ t # Idle /\ t.at = "put" /\ session[t.env] # "erased"
      /\ objects' = [objects EXCEPT ![t.env] = @ \cup {t.key}]
      /\ IF Current(t.env, n, t.attempt)
         THEN /\ operation' = Marked(t.env, n, "committed")
              /\ artifacts' = [artifacts EXCEPT ![t.env] = @ \cup {t.key}]
              /\ IF t.goal = "branch"
                 THEN Does(c, [goal |-> "branch", at |-> "copy", left |-> t.left \ {t.key}])
                 ELSE Stops(c)
         ELSE Stops(c) /\ UNCHANGED <<operation, artifacts>>
      /\ UNCHANGED <<session, budgeted, usage, aliases, checkpoint, host, wire>>

\* An upload whose caller raises or is lost may land later, or never.
Upload(t) == IF t.at = "put" THEN {[env |-> t.env, key |-> t.key, attempt |-> t.attempt]} ELSE {}
Abandons(c) == wire' \in {wire, wire \cup Upload(task[c])}
PutFails(c) ==
  LET t == task[c] IN
  /\ t # Idle /\ t.at = "put" /\ session[t.env] # "erased"
  /\ Unknown(t.env, <<"put", t.key>>, t.attempt)
  /\ Abandons(c)
  /\ Stops(c)
  /\ UNCHANGED <<session, budgeted, usage, index, host, objects>>
Land(r) ==
  /\ objects' = [objects EXCEPT ![r.env] = @ \cup {r.key}]
  /\ wire' = wire \ {r}
  /\ UNCHANGED <<rows, host, task>>
------------------------------------------------------------------------------
(* Bounded reads under an operation identifier, here those of a branch.   *)

ReserveGet(c, e, k, left) ==
  LET n == <<"get", k>> IN
  /\ Served(e) /\ k \in artifacts[e]
  /\ phase <= 1
  /\ Allowed(usage[e], "get")
  /\ operation' = Attempted(e, n)
  /\ usage' = [usage EXCEPT ![e].gets = @ + 1]
  /\ Does(c, [goal |-> "branch", left |-> left, at |-> "get", env |-> e, key |-> k,
              attempt |-> operation[e][n].attempts + 1])
  /\ UNCHANGED <<session, budgeted, index, host, bucket>>

GetReply(c) ==
  LET t == task[c] IN
  /\ t # Idle /\ t.at = "get" /\ t.key \in objects[t.env]
  /\ IF Current(t.env, <<"get", t.key>>, t.attempt)
     THEN /\ operation' = Marked(t.env, <<"get", t.key>>, "committed")
          /\ Does(c, [t EXCEPT !.at = "write"])
     ELSE Stops(c) /\ UNCHANGED operation
  /\ UNCHANGED <<session, budgeted, usage, index, host, bucket>>
GetFails(c) ==
  LET t == task[c] IN
  /\ t # Idle /\ t.at = "get"
  /\ Unknown(t.env, <<"get", t.key>>, t.attempt)
  /\ Stops(c)
  /\ UNCHANGED <<session, budgeted, usage, index, host, bucket>>
------------------------------------------------------------------------------
(* Branching: a hidden child, its own budget, one journaled copy per       *)
(* artifact of the checkpoint, then the child is exposed.                  *)

Checkpoint ==
  /\ Served(Parent) /\ checkpoint = {}
  /\ checkpoint' = artifacts[Parent]
  /\ UNCHANGED <<session, budgeted, usage, operation, artifacts, aliases, host, bucket, task>>

BranchBegin(c) ==
  /\ Begins(c) /\ checkpoint # {}
  /\ Served(Parent) /\ session[Child] \in {"none", "pending"}
  /\ session' = [session EXCEPT ![Child] = "pending"]
  /\ Does(c, [goal |-> "branch", at |-> "install", left |-> checkpoint])
  /\ UNCHANGED <<budgeted, usage, operation, index, phase, bucket>>

BranchInstall(c) ==
  /\ task[c] # Idle /\ task[c].at = "install"
  /\ session[Child] # "erased" /\ phase = 0
  /\ budgeted' = budgeted \cup {Child}
  /\ Does(c, [task[c] EXCEPT !.at = "copy"])
  /\ UNCHANGED <<session, usage, operation, index, host, bucket>>

\* Mutant: any earlier attempt of a copy counts as a copy.
BranchLook_AnyAttempt(c) ==
  LET t == task[c]
      k == Min(t.left)
      n == <<"put", k>>
  IN  /\ t # Idle /\ t.at = "copy" /\ t.left # {}
      /\ Does(c, IF operation[Child][n].status # "none"
                 THEN [t EXCEPT !.left = @ \ {k}] ELSE [t EXCEPT !.at = "read"])
      /\ UNCHANGED <<rows, host, bucket>>
\* Each artifact in turn: a committed copy is reused, one under way refused (as Lose).
BranchLook(c) ==
  LET t == task[c]
      k == Min(t.left)
      n == <<"put", k>>
  IN  /\ t # Idle /\ t.at = "copy" /\ t.left # {}
      /\ Does(c, IF operation[Child][n].status = "committed"
                 THEN [t EXCEPT !.left = @ \ {k}] ELSE [t EXCEPT !.at = "read"])
      /\ UNCHANGED <<rows, host, bucket>>
BranchRead(c) ==
  LET t == task[c] IN
  /\ t # Idle /\ t.at = "read"
  /\ ReserveGet(c, Parent, Min(t.left), t.left)
BranchWrite(c) ==
  LET t == task[c] IN
  /\ t # Idle /\ t.at = "write" /\ session[Child] # "erased"
  /\ IF operation[Child][<<"put", t.key>>].status = "committed"
     THEN /\ ~usage[Child].fenced
          /\ Does(c, [goal |-> "branch", at |-> "copy", left |-> t.left \ {t.key}])
          /\ UNCHANGED <<usage, operation>>
     ELSE ReservePut(c, Child, t.key, "branch", t.left)
  /\ UNCHANGED <<session, budgeted, index, host, bucket>>
\* Mutant: the status of the copy intent is written to the session.
BranchFinish_IntentStatus(c) ==
  LET t == task[c] IN
  /\ t # Idle /\ t.at = "copy" /\ t.left = {}
  /\ Served(Parent) /\ session[Child] = "pending"
  /\ aliases' = checkpoint
  /\ session' = [session EXCEPT ![Child] = "completed"]
  /\ Stops(c)
  /\ UNCHANGED <<budgeted, usage, operation, artifacts, checkpoint, host, bucket>>
BranchFinish(c) ==
  LET t == task[c] IN
  /\ t # Idle /\ t.at = "copy" /\ t.left = {}
  /\ Served(Parent) /\ session[Child] = "pending"
  /\ aliases' = checkpoint
  /\ session' = [session EXCEPT ![Child] = "exposed"]
  /\ Stops(c)
  /\ UNCHANGED <<budgeted, usage, operation, artifacts, checkpoint, host, bucket>>
------------------------------------------------------------------------------
(* Erasure of one session's objects: expiry of a session, or the erasure   *)
(* of the tenant that owns both.                                           *)

\* Mutant: only failed attempts are unresolved.
Unresolved_FailedOnly(e) == \E k \in Keys : operation[e][<<"put", k>>].status = "unknown"
Unresolved(e) == \E k \in Keys : operation[e][<<"put", k>>].status \in {"in_flight", "unknown"}
Live == {e \in Environments : session[e] \in {"pending", "exposed"}}

Expire(c, e) ==
  /\ Begins(c) /\ e \in Live \cap budgeted /\ phase >= 2
  /\ Does(c, [goal |-> "expire", at |-> "fence", env |-> e, found |-> {}])
  /\ UNCHANGED <<rows, phase, bucket>>
Erase(c) ==
  /\ Begins(c) /\ Live # {} /\ session[Child] # "pending"
  /\ Does(c, [goal |-> "erase", at |-> "fence", env |-> Parent, found |-> Live])
  /\ UNCHANGED <<rows, phase, bucket>>

\* Mutant: the fence is raised once the inventory is complete.
Fence_Late(c) ==
  /\ task[c] # Idle /\ task[c].at = "fence" /\ session[task[c].env] # "erased"
  /\ Does(c, [task[c] EXCEPT !.at = "evidence"])
  /\ UNCHANGED <<session, budgeted, usage, operation, index, host, bucket>>
Fence(c) ==
  /\ task[c] # Idle /\ task[c].at = "fence" /\ session[task[c].env] # "erased"
  /\ usage' = [usage EXCEPT ![task[c].env].fenced = TRUE]
  /\ Does(c, [task[c] EXCEPT !.at = "evidence"])
  /\ UNCHANGED <<session, budgeted, operation, index, host, bucket>>

\* Unresolved uploads need evidence that the gateway is quiet, which a
\* tenant erasure may bring and which is genuine.
Quiet(e) ==
  /\ \A r \in wire : r.env # e
  /\ \A c \in Callers : task[c] # Idle /\ task[c].at = "put" => task[c].env # e
Evidence(c) ==
  LET e == task[c].env IN
  /\ task[c] # Idle /\ task[c].at = "evidence" /\ session[e] # "erased"
  /\ \E brought \in BOOLEAN :
       /\ brought => task[c].goal = "erase" /\ Quiet(e)
       /\ usage' = [usage EXCEPT ![e].quiesced = @ \/ brought]
       /\ IF Unresolved(e) /\ ~usage'[e].quiesced THEN Stops(c)
          ELSE Does(c, [task[c] EXCEPT !.at = "page"])
  /\ UNCHANGED <<session, budgeted, operation, index, host, bucket>>

\* One page of the exact prefix, in key order after the cursor; a gateway
\* may return fewer objects than it was asked for.
Listings(e, cursor) ==
  LET rest == {k \in objects[e] : k > cursor}
      page(keys) == [keys |-> keys, truncated |-> keys # rest,
                     cursor |-> IF keys = rest THEN 0 ELSE Max(keys \cup {cursor})]
  IN  {page({k \in rest : k <= last}) : last \in {l \in Keys \cup {cursor} :
         Cardinality({k \in rest : k <= l}) <= PageSize}}

\* The transaction that decides the next step of the page under way.
ListName(e) == <<"list", usage[e].page>>
DeleteName(e) == <<"delete", usage[e].page>>
PageOf(e) == operation[e][ListName(e)].page
Paging(c) == task[c] # Idle /\ task[c].at = "page" /\ session[task[c].env] # "erased" /\ phase <= 2
Listed(e) == operation[e][ListName(e)].status = "committed"

ReserveList(c) ==
  LET e == task[c].env
      n == ListName(e)
  IN  /\ Paging(c) /\ ~usage[e].complete /\ ~Listed(e)
      /\ Allowed(usage[e], "list")
      /\ operation' = Attempted(e, n)
      /\ usage' = [usage EXCEPT ![e].lists = @ + 1]
      /\ Does(c, [goal |-> task[c].goal, at |-> "list", env |-> e, found |-> task[c].found,
                  name |-> n, attempt |-> operation[e][n].attempts + 1,
                  cursor |-> usage[e].cursor])
      /\ UNCHANGED <<session, budgeted, index, host, bucket>>

ReserveDelete(c) ==
  LET e == task[c].env
      n == DeleteName(e)
      keys == PageOf(e).keys
  IN  /\ Paging(c) /\ ~usage[e].complete /\ Listed(e) /\ keys # {}
      /\ Allowed(usage[e], "delete")
      /\ usage[e].deleted + Cardinality(keys) <= MaxDeletes * PageSize
      /\ operation' = Attempted(e, n)
      /\ usage' = [usage EXCEPT ![e] =
           [usage[e] EXCEPT !.deletes = @ + 1, !.deleted = @ + Cardinality(keys)]]
      /\ Does(c, [goal |-> task[c].goal, at |-> "delete", env |-> e, found |-> task[c].found,
                  name |-> n, attempt |-> operation[e][n].attempts + 1,
                  page |-> PageOf(e)])
      /\ UNCHANGED <<session, budgeted, index, host, bucket>>

\* An empty page either has a successor or ends the inventory, unless an
\* upload is still unresolved.
Exhaust(c) ==
  LET e == task[c].env
      page == PageOf(e)
  IN  /\ Paging(c) /\ ~usage[e].complete /\ Listed(e) /\ page.keys = {}
      /\ IF page.truncated
         THEN /\ usage' = [usage EXCEPT ![e] = [usage[e] EXCEPT !.cursor = page.cursor, !.page = @ + 1]]
              /\ UNCHANGED task
         ELSE IF Unresolved(e) /\ ~usage[e].quiesced
              THEN Stops(c) /\ UNCHANGED usage
              ELSE usage' = [usage EXCEPT ![e].complete = TRUE] /\ UNCHANGED task
      /\ UNCHANGED <<session, budgeted, operation, index, host, bucket>>

\* Back to the decision about the page, or raised, when a reply settles.
Resumes(c, t) == Does(c, [goal |-> t.goal, at |-> "page", env |-> t.env, found |-> t.found])
Purging(c, step) == task[c] # Idle /\ task[c].at = step /\ session[task[c].env] # "erased"

ListReply(c) ==
  LET t == task[c]
      e == t.env
  IN  /\ Purging(c, "list")
      /\ \E page \in Listings(e, t.cursor) :
           LET listed == usage[e].listed + Cardinality(page.keys) IN
           IF Current(e, t.name, t.attempt) /\ listed <= MaxObjects
           THEN /\ operation' = [operation EXCEPT ![e][t.name] =
                     [status |-> "committed", attempts |-> @.attempts, page |-> page]]
                /\ usage' = [usage EXCEPT ![e].listed = listed]
                /\ Resumes(c, t)
           ELSE /\ Unknown(e, t.name, t.attempt)
                /\ Stops(c) /\ UNCHANGED usage
      /\ UNCHANGED <<session, budgeted, index, host, bucket>>

DeleteReply(c) ==
  LET t == task[c]
      e == t.env
  IN  /\ Purging(c, "delete")
      /\ objects' = [objects EXCEPT ![e] = @ \ t.page.keys]
      /\ IF Current(e, t.name, t.attempt)
         THEN /\ operation' = Marked(e, t.name, "committed")
              /\ usage' = [usage EXCEPT ![e] =
                   [usage[e] EXCEPT !.cursor = t.page.cursor, !.page = @ + 1]]
              /\ Resumes(c, t)
         ELSE Stops(c) /\ UNCHANGED <<operation, usage>>
      /\ UNCHANGED <<session, budgeted, index, host, wire>>

\* Either request fails; a failed deletion may have been carried out.
PurgeFails(c) ==
  LET t == task[c]
      e == t.env
  IN  /\ Purging(c, "list") \/ Purging(c, "delete")
      /\ objects' \in {objects} \cup
           (IF t.at = "delete" THEN {[objects EXCEPT ![e] = @ \ t.page.keys]} ELSE {})
      /\ Unknown(e, t.name, t.attempt)
      /\ Stops(c)
      /\ UNCHANGED <<session, budgeted, usage, index, host, wire>>

\* A complete session: the next one of the tenant, or the end of the purge.
Purged(c) ==
  LET t == task[c] IN
  /\ Paging(c) /\ usage[t.env].complete
  /\ CASE t.goal = "expire" -> Stops(c)
       [] t.goal = "erase" /\ t.env = Parent /\ Child \in t.found ->
            Does(c, [t EXCEPT !.env = Child, !.at = "fence"])
       [] OTHER -> Does(c, [t EXCEPT !.at = "commit"])
  /\ UNCHANGED <<rows, host, bucket>>

\* The rows go last, all at once, and only over a complete inventory.
EraseRows(c) ==
  /\ Purging(c, "commit")
  /\ Live = task[c].found /\ \A e \in Live : usage[e].complete
  /\ session' = [e \in Environments |-> IF e \in Live THEN "erased" ELSE session[e]]
  /\ operation' = [e \in Environments |-> [n \in Names |-> NoOperation]]
  /\ usage' = [e \in Environments |-> NoUsage]
  /\ artifacts' = [e \in Environments |-> {}]
  /\ budgeted' = {} /\ aliases' = {} /\ checkpoint' = {}
  /\ Stops(c)
  /\ UNCHANGED <<host, bucket>>
------------------------------------------------------------------------------
(* Time, and callers that vanish at any step or whose next guard refuses.  *)

TimePasses ==
  /\ phase < 3 /\ phase' = phase + 1
  /\ UNCHANGED <<rows, bucket, task, calls>>
Lose(c) ==
  /\ task[c] # Idle /\ Stops(c)
  /\ Abandons(c)
  /\ UNCHANGED <<rows, host, objects>>

Host(c) ==
  \/ \E k \in Keys : Put(c, k)
  \/ PutReply(c) \/ PutFails(c) \/ GetReply(c) \/ GetFails(c)
  \/ BranchBegin(c) \/ BranchInstall(c) \/ BranchLook(c) \/ BranchRead(c)
  \/ BranchWrite(c) \/ BranchFinish(c)
  \/ Erase(c) \/ \E e \in Environments : Expire(c, e)
  \/ Fence(c) \/ Evidence(c) \/ ReserveList(c) \/ ReserveDelete(c) \/ Exhaust(c)
  \/ ListReply(c) \/ DeleteReply(c) \/ PurgeFails(c) \/ Purged(c) \/ EraseRows(c)
  \/ Lose(c)
Surroundings ==
  \/ \E r \in wire : Land(r)
  \/ TimePasses
Next == Checkpoint \/ Surroundings \/ \E c \in Callers : Host(c)
Spec == Init /\ [][Next]_vars
------------------------------------------------------------------------------
\* The shape of the rows, the bucket and the uploads in flight.
TypeOK ==
  /\ session \in [Environments -> {"none", "pending", "exposed", "erased"}]
  /\ budgeted \subseteq Environments
  /\ \A e \in Environments, n \in Names :
       operation[e][n].status \in {"none", "in_flight", "unknown", "committed"}
  /\ \A e \in Environments : usage[e].page \in Pages /\ artifacts[e] \cup objects[e] \subseteq Keys
  /\ aliases \cup checkpoint \subseteq Keys
  /\ phase \in 0..3
  /\ \A r \in wire : r.env \in Environments /\ r.key \in Keys

OnTheWay(e) ==
  {r.key : r \in {w \in wire \cup UNION {Upload(task[c]) : c \in {d \in Callers : task[d] # Idle}} : w.env = e}}

\* Whatever is in a session's bucket, or may still land there, was charged
\* to its frozen budget, although retries, lost replies and copies of a
\* branch upload the same content again and erasure races with all of them.
BucketIsCharged ==
  \A e \in Environments : session[e] # "erased" =>
    LET keys == objects[e] \cup OnTheWay(e) IN
    /\ Bytes(keys) <= usage[e].bytes /\ usage[e].bytes <= MaxLiveBytes
    /\ Cardinality(keys) <= usage[e].objects /\ usage[e].objects <= MaxObjects
    /\ usage[e].objects = Cardinality({k \in Keys : operation[e][<<"put", k>>].attempts > 0})

\* An indexed artifact can be read until its session is fenced for erasure.
IndexedArtifactIsStored ==
  \A e \in Environments : ~usage[e].fenced => artifacts[e] \subseteq objects[e]

\* A branch is exposed only whole: every artifact its checkpoint froze was
\* copied, indexed and aliased, over any number of abandoned and concurrent
\* attempts at the same branch.
ExposedBranchIsWhole ==
  session[Child] = "exposed" => checkpoint \subseteq artifacts[Child] \cap aliases

\* An erasure is complete only over uploads that are settled: nothing is in
\* the bucket, or may still land there, but what a superseded attempt of a
\* committed upload delivers late, or what genuine evidence of a quiet
\* gateway said cannot be (_purge_budgeted_environment).
CompletionIsProven ==
  \A e \in Environments : usage[e].complete =>
    \A k \in objects[e] \cup OnTheWay(e) :
      operation[e][<<"put", k>>].status = "committed" /\ operation[e][<<"put", k>>].attempts > 1

\* An erasure that was given genuine evidence that the gateway is quiet is
\* complete over an empty inventory (DEPLOYMENT.md:254-260).  The inventory
\* it relies on may be older than the evidence.
QuietErasureIsEmpty ==
  \A e \in Environments : usage[e].complete /\ usage[e].quiesced => objects[e] = {}
==============================================================================
