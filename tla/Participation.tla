---------------------------- MODULE Participation ----------------------------
(***************************************************************************)
(* How participants take part in a decision (runner.py, server.py).  The   *)
(* environment that shows them an observation runs in this process, behind *)
(* a pipe or behind HTTP.  A participant is an agent of the runner's, one  *)
(* that calls its model besides, a command the runner starts, a remote     *)
(* caller with a credential, or one whose observation an operator reads    *)
(* over HTTP.  The runner takes the authority and the observation of one   *)
(* participant after the other and then lets them act, each in a thread of *)
(* its own, which it leaves behind when the phase fails; remote callers    *)
(* keep to no phase.                                                       *)
(***************************************************************************)
EXTENDS Inference

CONSTANTS
  Nobody,
  MaxRequests,  \* bound on the requests to the environment
  Deployments   \* where the environment runs and what each participant is

\* the threads are the callers of whichever worker serves the environment
ASSUME ThreadsAssumption == Nobody \notin Participants /\ MaxRequests \in Nat \ {0}
ASSUME DeploymentAssumption ==
  Deployments \subseteq [environment : {"local", "pipe", "http"},
                         agents : [Participants ->
                           {"plain", "model", "command", "remote", "watched"}]]

VARIABLES
  deployment, thread,
  pipeLock, pipeCall, pipeSent, writer, stdin, worker, stdout, reader, responses,
  httpLock, httpCall, httpSent, arrived, serving, receipts,
  program, act

pipeVars ==
  <<pipeLock, pipeCall, pipeSent, writer, stdin, worker, stdout, reader, responses>>
httpVars == <<httpLock, httpCall, httpSent, arrived, serving, receipts>>
commandVars == <<program, act>>
vars == <<deployment, thread, inferenceVars, pipeVars, httpVars, commandVars>>

Pipe == INSTANCE ProcessWorker WITH Callers <- Participants,
          lock <- pipeLock, call <- pipeCall, sent <- pipeSent
Http == INSTANCE RemoteWorker WITH Callers <- Participants,
          lock <- httpLock, call <- httpCall, sent <- httpSent
Command == INSTANCE CommandAgent WITH Agents <- Participants

Kind(p) == deployment.agents[p]
OverPipe == deployment.environment = "pipe"
OverHttp == deployment.environment = "http"

TypeOK ==
  /\ deployment \in Deployments
  /\ thread \in
       [Participants -> {"idle", "observing", "ready", "acting", "waiting"}]
  /\ InferenceTypeOK /\ Pipe!TypeOK /\ Http!TypeOK /\ Command!TypeOK

Init ==
  /\ deployment \in Deployments
  /\ thread = [p \in Participants |-> "idle"]
  /\ InferenceInit /\ Pipe!Init /\ Http!Init /\ Command!Init

Running == {p \in Participants : Kind(p) \notin {"remote", "watched"}}
Observe(p) ==
  /\ IF OverPipe THEN Pipe!Ask(p) ELSE UNCHANGED pipeVars
  /\ IF OverHttp THEN Http!Ask(p) ELSE UNCHANGED httpVars
  /\ thread' = [thread EXCEPT ![p] = IF OverPipe \/ OverHttp THEN "observing" ELSE "ready"]
  /\ UNCHANGED <<deployment, commandVars>>

\* The authority first, then the observation.
Start(p) ==
  /\ p \in Running /\ thread[p] = "idle" /\ members[p].active
  /\ \A q \in Running : thread[q] \in {"idle", "ready"}
  /\ UNCHANGED inferenceVars
  /\ Observe(p)

StartRemote(p) ==
  /\ p \notin Running /\ thread[p] = "idle" /\ members[p].active
  /\ \/ Kind(p) = "watched"
     \/ remote[p] # Absent /\ Permits(remote[p], "session.read")
  /\ remote' = [remote EXCEPT ![p] = Absent]
  /\ UNCHANGED <<members, credentials, issuing, revision, inference, overlap, artifacts, evidence>>
  /\ Observe(p)

\* A failed observation ends the runner's phase; a remote one, its request.
Observed(p) ==
  /\ thread[p] = "observing"
  /\ LET stage == IF OverPipe THEN pipeCall[p].stage ELSE httpCall[p].stage
     IN \/ /\ stage = "answered"
           /\ thread' = [thread EXCEPT ![p] = IF p \in Running THEN "ready" ELSE "idle"]
        \/ /\ stage = "failed"
           /\ thread' = [q \in Participants |->
                IF q = p \/ (p \in Running /\ q \in Running) THEN "idle" ELSE thread[q]]
  /\ UNCHANGED <<deployment, inferenceVars, pipeVars, httpVars, commandVars>>

\* The others have acted on this revision already, or are not active.
Dispatch ==
  /\ \E p \in Running : thread[p] = "ready"
  /\ \A p \in Running : thread[p] \in {"idle", "ready"}
  /\ thread' = [p \in Participants |-> IF thread[p] = "ready" THEN "acting" ELSE thread[p]]
  /\ UNCHANGED <<deployment, inferenceVars, pipeVars, httpVars, commandVars>>

\* The agent runs from here on, whether the runner waits for it or leaves it
\* behind; nothing tells the two apart.
ActByModel(p) ==
  /\ thread[p] = "acting" /\ Kind(p) = "model"
  /\ Invoke(p)
  /\ thread' = [thread EXCEPT ![p] = "idle"]
  /\ UNCHANGED <<deployment, pipeVars, httpVars, commandVars>>

ActByCommand(p) ==
  /\ thread[p] = "acting" /\ Kind(p) = "command"
  /\ Command!Spawn(p)
  /\ thread' = [thread EXCEPT ![p] = "waiting"]
  /\ UNCHANGED <<deployment, inferenceVars, pipeVars, httpVars>>

Acted(p) ==
  /\ \/ thread[p] = "acting" /\ Kind(p) = "plain"
     \/ thread[p] = "waiting" /\ act[p].stage \in {"answered", "failed"}
  /\ thread' = [thread EXCEPT ![p] = "idle"]
  /\ UNCHANGED <<deployment, inferenceVars, pipeVars, httpVars, commandVars>>

\* The phase fails: its deadline, its lease, or one of its agents.  A command
\* is waited for; other threads are left behind, or refuse to dispatch.
Abandon ==
  /\ \E p \in Running : thread[p] = "acting"
  /\ thread' = [p \in Participants |-> IF thread[p] = "acting" THEN "idle" ELSE thread[p]]
  /\ UNCHANGED <<deployment, inferenceVars, pipeVars, httpVars, commandVars>>

\* The agents call their models, waited for or left behind.
Models ==
  /\ \E work \in Works : Kind(work.participant) = "model" /\ InferenceStep(work)
  /\ UNCHANGED <<deployment, thread, pipeVars, httpVars, commandVars>>

\* Revisions count for the agents whose works they name.
Advance ==
  /\ \E p \in Participants : Kind(p) = "model"
  /\ Resolve
  /\ UNCHANGED <<deployment, thread, pipeVars, httpVars, commandVars>>

\* A remote caller's credential, requests and artifacts.
ActRemotely(p) ==
  /\ Kind(p) = "remote"
  /\ \/ Upload(p)
     \/ /\ ReadMember(p) \/ Issue(p) \/ Authenticate(p)
        /\ UNCHANGED <<revision, inference, overlap, artifacts, evidence>>
  /\ UNCHANGED <<deployment, thread, pipeVars, httpVars, commandVars>>

Authority ==
  /\ Expire \/ \E p \in Participants : Transfer(p)
  /\ UNCHANGED <<deployment, thread, revision, inference, overlap, artifacts, evidence,
                 pipeVars, httpVars, commandVars>>

PipeOnly == UNCHANGED <<deployment, thread, inferenceVars, httpVars, commandVars>>
Environment ==
  \/ /\ OverPipe
     /\ Pipe!Threads \/ Pipe!Supplier \/ \E p \in Participants : Pipe!Caller(p)
     /\ PipeOnly
  \/ /\ OverHttp
     /\ Http!Worker \/ \E p \in Participants : Http!Caller(p)
     /\ UNCHANGED <<deployment, thread, inferenceVars, pipeVars, commandVars>>

Commands ==
  /\ \E p \in Participants : Kind(p) = "command" /\ (Command!Caller(p) \/ Command!Program(p))
  /\ UNCHANGED <<deployment, thread, inferenceVars, pipeVars, httpVars>>

Next ==
  \/ Authority \/ Environment \/ Commands \/ Models \/ Dispatch \/ Abandon \/ Advance
  \/ \E p \in Participants :
       \/ Start(p) \/ StartRemote(p) \/ Observed(p) \/ Acted(p)
       \/ ActByModel(p) \/ ActByCommand(p) \/ ActRemotely(p)

\* A loop with a deadline runs on, and so do the threads it started.
Fairness ==
  /\ WF_vars(Pipe!Threads /\ PipeOnly)
  /\ \A p \in Participants :
       /\ SF_vars(Pipe!Begin(p) /\ PipeOnly)
       /\ WF_vars(Pipe!Caller(p) /\ PipeOnly)

Spec == Init /\ [][Next]_vars /\ Fairness
------------------------------------------------------------------------------
(* An observation or transition is the answer to the request it was asked  *)
(* with, and of no other participant's (process.py and remote.py: _call),  *)
(* but for one: a call that gives up closes the process before the lock is *)
(* free, so that no request is served after it, but its own answer may be  *)
(* queued already, and a later call may take that one for its own.  No     *)
(* line of any other request, no line the environment printed itself and   *)
(* no receipt of another's is ever taken.                                  *)
AnswersMatchRequests == [][Pipe!TakesOwnAnswer /\ Http!TakesOwnReceipt']_vars

(* Every call that waits behind the pipe ends, answered or failed,         *)
(* whatever the worker does: one that hangs costs its caller the deadline  *)
(* (process.py: _call).  The exception is a process the worker left behind *)
(* with the pipe in its hand: close neither stops it nor gets past the     *)
(* reader it keeps waiting, and the lock stays taken.                      *)
EveryCallReturns ==
  \A p \in Participants :
    pipeCall[p].stage = "queued" ~>
      \/ pipeCall[p].stage \in {"answered", "failed"}
      \/ worker.helper = "holding" \/ pipeSent = MaxRequests

(* Nothing an agent started outlives its call, the leader or what it left  *)
(* behind (adapters/_subprocess.py: terminate_tree).                       *)
NoProgramOutlivesItsCall == Command!NoProgramOutlivesItsCall
==============================================================================
