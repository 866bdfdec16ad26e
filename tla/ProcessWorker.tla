---------------------------- MODULE ProcessWorker ----------------------------
(***************************************************************************)
(* The supplier's environment in a process of its own                      *)
(* (adapters/process.py, worker.py, adapters/_subprocess.py).  Threads of  *)
(* the supervisor share one ProcessEnvironment: one request at a time goes *)
(* down the pipe, and its answer is the next line that comes back.  Lines  *)
(* carry no identity, so the pairing rests on the order alone.  The worker *)
(* may hang, print what is not an answer, exit, or leave a process of its  *)
(* group behind that still holds the pipe.                                 *)
(***************************************************************************)
EXTENDS Naturals, Sequences, FiniteSets

CONSTANTS
  Callers,      \* threads that call the environment
  Nobody,       \* no caller, no request
  MaxRequests   \* bound on the requests written

VARIABLES
  lock,       \* the caller inside _call, or Nobody
  call,       \* what each caller is doing and what it was given
  sent,       \* requests written so far; the last one is the current one
  writer,     \* the write thread of the current request: "none", "busy", "done", "broken"
  stdin,      \* requests in the pipe
  worker,     \* the leader, the request it computes, what it leaves behind, and
              \* the request whose call closed it, or 0
  stdout,     \* lines in the pipe back
  reader,     \* the reader thread: still reading or ended
  responses   \* its queue

vars == <<lock, call, sent, writer, stdin, worker, stdout, reader, responses>>

Requests == 1..MaxRequests
Line(kind, id) == [kind |-> kind, id |-> id]
\* A stray line is one the environment printed itself; "none" ends the queue.
Lines == [kind : {"result", "error", "stray", "none"}, id : {0} \cup Requests]

TypeOK ==
  /\ lock \in Callers \cup {Nobody}
  /\ call \in [Callers -> [stage : {"idle", "queued", "waiting", "listening", "closing", "answered", "failed"},
                           asked : {0} \cup Requests, got : {0} \cup Requests]]
  /\ sent \in {0} \cup Requests
  /\ writer \in {"none", "busy", "done", "broken"}
  /\ stdin \in Seq(Requests) /\ stdout \in Seq(Lines) /\ responses \in Seq(Lines)
  /\ worker \in [leader : {"running", "exited"}, at : {0} \cup Requests,
                 helper : {"none", "silent", "holding"}, closed : {0} \cup Requests]
  /\ reader \in {"reading", "ended"}

Init ==
  /\ lock = Nobody
  /\ call = [c \in Callers |-> [stage |-> "idle", asked |-> 0, got |-> 0]]
  /\ sent = 0 /\ writer = "none"
  /\ stdin = <<>> /\ stdout = <<>> /\ responses = <<>>
  /\ worker = [leader |-> "running", at |-> 0, helper |-> "none", closed |-> 0]
  /\ reader = "reading"

Running == worker.leader = "running"
\* The pipe has an end of file once nobody of the group holds its other side.
Ended == ~Running /\ worker.helper # "holding"

Ask(c) ==
  /\ call[c].stage \in {"idle", "answered", "failed"}
  /\ call' = [call EXCEPT ![c].stage = "queued"]
  /\ UNCHANGED <<lock, sent, writer, stdin, worker, stdout, reader, responses>>

\* The lock is taken and a thread of its own starts to write the request.
Begin(c) ==
  /\ call[c].stage = "queued" /\ lock = Nobody /\ sent < MaxRequests
  /\ lock' = c
  /\ sent' = sent + 1
  /\ writer' = "busy"
  /\ call' = [call EXCEPT ![c] = [stage |-> "waiting", asked |-> sent + 1, got |-> 0]]
  /\ UNCHANGED <<stdin, worker, stdout, reader, responses>>

\* A process the worker left behind may have the other end of the pipe: what
\* is written then is served by nobody.  The stream of a closed worker is closed.
Write ==
  /\ writer = "busy"
  /\ \/ Running /\ writer' = "done" /\ stdin' = Append(stdin, sent)
     \/ ~Running /\ writer' = "broken" /\ UNCHANGED stdin
     \/ /\ ~Running /\ worker.helper # "none" /\ worker.closed \in {0, sent}
        /\ writer' = "done" /\ UNCHANGED stdin
  /\ UNCHANGED <<lock, call, sent, worker, stdout, reader, responses>>
------------------------------------------------------------------------------
(* worker.py: one request after the other, one line for each.              *)
Receive ==
  /\ Running /\ worker.at = 0 /\ stdin # <<>>
  /\ worker' = [worker EXCEPT !.at = Head(stdin)]
  /\ stdin' = Tail(stdin)
  /\ UNCHANGED <<lock, call, sent, writer, stdout, reader, responses>>

Reply ==
  /\ Running /\ worker.at # 0
  /\ \E kind \in {"result", "error"} : stdout' = Append(stdout, Line(kind, worker.at))
  /\ worker' = [worker EXCEPT !.at = 0]
  /\ UNCHANGED <<lock, call, sent, writer, stdin, reader, responses>>

\* Fault: the environment prints to the protocol's stream while it computes.
Stray ==
  /\ Running /\ worker.at # 0
  /\ Line("stray", worker.at) \notin {stdout[i] : i \in DOMAIN stdout} \cup {responses[i] : i \in DOMAIN responses}
  /\ stdout' = Append(stdout, Line("stray", worker.at))
  /\ UNCHANGED <<lock, call, sent, writer, stdin, worker, reader, responses>>

\* Fault: the leader exits, alone or with a process of its group alive.
Exit ==
  /\ Running
  /\ \E helper \in {"none", "silent", "holding"} :
       worker' = [leader |-> "exited", at |-> 0, helper |-> helper, closed |-> 0]
  /\ UNCHANGED <<lock, call, sent, writer, stdin, stdout, reader, responses>>

HelperEnds ==
  /\ worker.helper # "none"
  /\ worker' = [worker EXCEPT !.helper = "none"]
  /\ UNCHANGED <<lock, call, sent, writer, stdin, stdout, reader, responses>>
------------------------------------------------------------------------------
(* The reader thread.                                                      *)
Read ==
  /\ reader = "reading" /\ stdout # <<>>
  /\ responses' = Append(responses, Head(stdout))
  /\ stdout' = Tail(stdout)
  /\ UNCHANGED <<lock, call, sent, writer, stdin, worker, reader>>

ReadEnd ==
  /\ reader = "reading" /\ stdout = <<>> /\ Ended
  /\ reader' = "ended"
  /\ responses' = Append(responses, Line("none", 0))
  /\ UNCHANGED <<lock, call, sent, writer, stdin, worker, stdout>>
------------------------------------------------------------------------------
(* The caller's loop: poll the writer, then listen for a line.             *)
Waits(c) == lock = c /\ call[c].stage = "waiting"
Listens(c) == lock = c /\ call[c].stage = "listening"
Leave(c, stage, got) ==
  /\ lock' = Nobody
  /\ call' = [call EXCEPT ![c] = [stage |-> stage, asked |-> call[c].asked, got |-> got]]

\* Mutant: a failed call returns and leaves the process to the next one.
Abandon_KeepsProcess(c) == Leave(c, "failed", 0)
\* Every failure closes the process before the lock is given up.
Abandon(c) ==
  /\ call' = [call EXCEPT ![c].stage = "closing"]
  /\ UNCHANGED lock

Poll(c) ==
  /\ Waits(c)
  /\ IF writer = "broken" THEN Abandon(c)
     ELSE call' = [call EXCEPT ![c].stage = "listening"] /\ UNCHANGED lock
  /\ UNCHANGED <<sent, writer, stdin, worker, stdout, reader, responses>>

\* Whatever became of the write since it was polled.
Take(c) ==
  /\ Listens(c) /\ responses # <<>>
  /\ IF Head(responses).kind = "result"
     THEN Leave(c, "answered", Head(responses).id)
     ELSE Abandon(c)
  /\ responses' = Tail(responses)
  /\ UNCHANGED <<sent, writer, stdin, worker, stdout, reader>>

\* No line yet: from a process that is no longer there none is awaited, and
\* the next round finds what the writer ran into.
Broken(c) ==
  /\ Listens(c) /\ responses = <<>>
  /\ writer = "broken" \/ ~Running
  /\ Abandon(c)
  /\ UNCHANGED <<sent, writer, stdin, worker, stdout, reader, responses>>

\* Mutant: the loop waits for a line for as long as the process lives.
Overdue_Never(c) == FALSE /\ Waits(c)
\* A line that is there in time is taken.
Overdue(c) == Waits(c) \/ (Listens(c) /\ responses = <<>>)
Deadline(c) ==
  /\ Overdue(c)
  /\ Abandon(c)
  /\ UNCHANGED <<sent, writer, stdin, worker, stdout, reader, responses>>

\* close: the group is stopped only while its leader runs.
Stop(c) ==
  /\ lock = c /\ call[c].stage = "closing" /\ worker.closed = 0
  /\ worker' = [leader |-> "exited", at |-> 0, closed |-> sent,
                helper |-> IF Running THEN "none" ELSE worker.helper]
  /\ UNCHANGED <<lock, call, sent, writer, stdin, stdout, reader, responses>>

\* Closing the stream waits for the reader inside it; then the lock is free.
Closed(c) ==
  /\ lock = c /\ call[c].stage = "closing" /\ worker.closed # 0
  /\ reader = "ended"
  /\ Leave(c, "failed", 0)
  /\ UNCHANGED <<sent, writer, stdin, worker, stdout, reader, responses>>

Caller(c) == Begin(c) \/ Poll(c) \/ Take(c) \/ Broken(c) \/ Deadline(c) \/ Stop(c) \/ Closed(c)
Threads == Write \/ Read \/ ReadEnd
Supplier == Receive \/ Reply \/ Stray \/ Exit \/ HelperEnds
------------------------------------------------------------------------------
(* The line a call takes is the answer to its own request, with one        *)
(* exception: once a call has given up and closed the process, what its    *)
(* reader had still queued stays there, and a later call that polls its    *)
(* writer before the closed stream has failed it takes the answer of the   *)
(* call that gave up.                                                      *)
TakesOwnAnswer ==
  \A c \in Callers :
    call'[c].stage = "answered" /\ call[c].stage # "answered"
      => call'[c].got = call'[c].asked \/ (worker.closed # 0 /\ call'[c].got = worker.closed)
==============================================================================
