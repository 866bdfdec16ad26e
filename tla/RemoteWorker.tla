---------------------------- MODULE RemoteWorker -----------------------------
(***************************************************************************)
(* The supplier's environment in a container (adapters/remote.py,          *)
(* worker_server.py).  A request and its receipt carry an id.  The client  *)
(* lets one request out at a time and repeats none; one it gave up on may  *)
(* still be at the worker when the next arrives, and what stands between   *)
(* them may hand the client a receipt that is not for its request.         *)
(***************************************************************************)
EXTENDS Naturals

CONSTANTS
  Callers,
  Nobody,       \* no caller holds the lock
  MaxRequests   \* bound on the requests posted

VARIABLES
  lock,      \* the caller whose request is out, or Nobody
  call,      \* what each caller is doing and what it was given
  sent,      \* requests posted so far
  arrived,   \* requests at the worker, waiting for its lock
  serving,   \* the request being dispatched, or 0
  receipts   \* receipts the worker produced

vars == <<lock, call, sent, arrived, serving, receipts>>
Requests == 1..MaxRequests
Receipts == [id : Requests, error : BOOLEAN]

TypeOK ==
  /\ lock \in Callers \cup {Nobody}
  /\ call \in [Callers -> [stage : {"idle", "queued", "waiting", "answered", "failed"},
                           asked : {0} \cup Requests, got : {0} \cup Requests]]
  /\ sent \in {0} \cup Requests /\ serving \in {0} \cup Requests
  /\ arrived \subseteq Requests /\ receipts \subseteq Receipts

Init ==
  /\ lock = Nobody
  /\ call = [c \in Callers |-> [stage |-> "idle", asked |-> 0, got |-> 0]]
  /\ sent = 0 /\ arrived = {} /\ serving = 0 /\ receipts = {}

Ask(c) ==
  /\ call[c].stage \in {"idle", "answered", "failed"}
  /\ call' = [call EXCEPT ![c].stage = "queued"]
  /\ UNCHANGED <<lock, sent, arrived, serving, receipts>>

\* The request is posted; it reaches the worker or is lost.
Begin(c) ==
  /\ call[c].stage = "queued" /\ lock = Nobody /\ sent < MaxRequests
  /\ lock' = c
  /\ sent' = sent + 1
  /\ call' = [call EXCEPT ![c] = [stage |-> "waiting", asked |-> sent + 1, got |-> 0]]
  /\ arrived' \in {arrived, arrived \cup {sent + 1}}
  /\ UNCHANGED <<serving, receipts>>

\* Any thread of the server; dispatches exclude each other.
Dispatch ==
  /\ serving = 0
  /\ \E id \in arrived : serving' = id /\ arrived' = arrived \ {id}
  /\ UNCHANGED <<lock, call, sent, receipts>>

Finish ==
  /\ serving # 0
  /\ \E error \in BOOLEAN : receipts' = receipts \cup {[id |-> serving, error |-> error]}
  /\ serving' = 0
  /\ UNCHANGED <<lock, call, sent, arrived>>

\* Mutant: the receipt's identity is not compared.
Accepts_AnyIdentity(c, receipt) == ~receipt.error
Accepts(c, receipt) == receipt.id = call[c].asked /\ ~receipt.error

\* Any receipt on the connection, the caller's own or another's.
Receive(c) ==
  /\ lock = c
  /\ \E receipt \in receipts :
       call' = [call EXCEPT ![c] =
         IF Accepts(c, receipt)
         THEN [stage |-> "answered", asked |-> call[c].asked, got |-> receipt.id]
         ELSE [@ EXCEPT !.stage = "failed"]]
  /\ lock' = Nobody
  /\ UNCHANGED <<sent, arrived, serving, receipts>>

\* Timeout, refused connection, unreadable body: not retried.
Lose(c) ==
  /\ lock = c
  /\ call' = [call EXCEPT ![c].stage = "failed"]
  /\ lock' = Nobody
  /\ UNCHANGED <<sent, arrived, serving, receipts>>

Caller(c) == Begin(c) \/ Receive(c) \/ Lose(c)
Worker == Dispatch \/ Finish

(* An answer is the receipt of the caller's own request, though requests   *)
(* given up on are still served and their receipts may turn up later.      *)
TakesOwnReceipt ==
  \A c \in Callers : call[c].stage = "answered" => call[c].got = call[c].asked
==============================================================================
