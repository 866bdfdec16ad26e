------------------------- MODULE ParticipationProofs -------------------------
(***************************************************************************)
(* For any participants in any deployment, any number of requests, model   *)
(* calls and transfers: no program outlives its call, an answer is the one *)
(* that was asked for, and nothing is written under a past authority.      *)
(***************************************************************************)
EXTENDS Participation, SumTheorems, TLAPS

(***************************************************************************)
(* The command agent: what is left of a group is stopped after every call. *)
(***************************************************************************)
CommandInv == Command!TypeOK /\ NoProgramOutlivesItsCall

LEMMA CommandInit == Command!Init => CommandInv
BY DEF Command!Init, CommandInv, Command!TypeOK, NoProgramOutlivesItsCall,
       Command!NoProgramOutlivesItsCall, Command!Leads, Command!Helpers

LEMMA CommandStep ==
  ASSUME CommandInv, NEW a \in Participants,
         Command!Spawn(a) \/ Command!Caller(a) \/ Command!Program(a)
  PROVE  CommandInv'
<1> USE DEF CommandInv, NoProgramOutlivesItsCall, Command!NoProgramOutlivesItsCall,
            Command!TypeOK, Command!Leads, Command!Helpers
<1>1. CASE Command!Spawn(a)
  <2>1. CASE act' = [act EXCEPT ![a] = [stage |-> "failed", result |-> FALSE]] /\ UNCHANGED program
    BY <1>1, <2>1 DEF Command!Spawn
  <2>2. CASE /\ program' = [program EXCEPT ![a] = [leader |-> "running", helper |-> "none", output |-> "none"]]
             /\ act' = [act EXCEPT ![a] = [stage |-> "running", result |-> FALSE]]
    BY <2>2
  <2> QED BY <1>1, <2>1, <2>2 DEF Command!Spawn
<1>2. CASE Command!Caller(a)
  <2>1. CASE Command!Collect(a)
    BY <2>1 DEF Command!Collect, Command!Writes
  <2>2. CASE Command!GiveUp(a)
    BY <2>2 DEF Command!GiveUp
  <2>3. CASE Command!Terminate(a)
    <3> DEFINE group == [leader |-> IF program[a].leader = "running" THEN "failed" ELSE program[a].leader,
                         helper |-> "none", output |-> program[a].output]
               stage == IF act[a].result THEN "answered" ELSE "failed"
    <3>2. program' = [program EXCEPT ![a] = group]
      BY <2>3 DEF Command!Terminate, Command!Terminated
    <3>3. act' = [act EXCEPT ![a] = [stage |-> stage, result |-> act[a].result]]
      <4>1. act[a] \in [stage : {"idle", "running", "ending", "answered", "failed"}, result : BOOLEAN]
        OBVIOUS
      <4>2. [act[a] EXCEPT !.stage = stage] = [stage |-> stage, result |-> act[a].result]
        BY <4>1
      <4> QED BY <2>3, <4>2, Zenon DEF Command!Terminate
    <3> QED BY <3>2, <3>3
  <2> QED BY <1>2, <2>1, <2>2, <2>3 DEF Command!Caller
<1>3. CASE Command!Program(a)
  <2>1. CASE Command!WriteOut(a)
    BY <2>1 DEF Command!WriteOut, Command!Writes
  <2>2. CASE Command!Fork(a)
    BY <2>2 DEF Command!Fork
  <2>3. CASE Command!Exit(a)
    BY <2>3 DEF Command!Exit
  <2>4. CASE Command!HelperEnds(a)
    BY <2>4 DEF Command!HelperEnds
  <2> QED BY <1>3, <2>1, <2>2, <2>3, <2>4 DEF Command!Program
<1> QED BY <1>1, <1>2, <1>3

(***************************************************************************)
(* The environment behind HTTP: a receipt is compared with the request.    *)
(***************************************************************************)
HttpInv == Http!TypeOK /\ Http!TakesOwnReceipt

CallRecord == [stage : {"idle", "queued", "waiting", "listening", "closing", "answered", "failed"},
               asked : {0} \cup 1..MaxRequests, got : {0} \cup 1..MaxRequests]

LEMMA FailedCall ==
  ASSUME NEW r \in CallRecord
  PROVE  [r EXCEPT !.stage = "failed"] = [stage |-> "failed", asked |-> r.asked, got |-> r.got]
BY DEF CallRecord

LEMMA HttpInit == Http!Init => HttpInv
BY DEF Http!Init, HttpInv, Http!TypeOK, Http!TakesOwnReceipt

LEMMA HttpStep ==
  ASSUME HttpInv,
         \/ Http!Worker
         \/ \E p \in Participants : Http!Ask(p) \/ Http!Caller(p)
  PROVE  HttpInv'
<1> USE ThreadsAssumption
    DEF HttpInv, Http!TypeOK, Http!TakesOwnReceipt, Http!Requests, Http!Receipts
<1>1. CASE Http!Worker
  <2>1. CASE Http!Dispatch
    BY <2>1 DEF Http!Dispatch
  <2>2. CASE Http!Finish
    BY <2>2 DEF Http!Finish
  <2> QED BY <1>1, <2>1, <2>2 DEF Http!Worker
<1>2. ASSUME NEW p \in Participants, Http!Ask(p) PROVE HttpInv'
  BY <1>2 DEF Http!Ask
<1>3. ASSUME NEW p \in Participants, Http!Caller(p) PROVE HttpInv'
  <2>1. CASE Http!Begin(p)
    BY <2>1 DEF Http!Begin
  <2>2. CASE Http!Receive(p)
    <3>1. PICK receipt \in receipts :
            httpCall' = [httpCall EXCEPT ![p] =
              IF Http!Accepts(p, receipt)
              THEN [stage |-> "answered", asked |-> httpCall[p].asked, got |-> receipt.id]
              ELSE [httpCall[p] EXCEPT !.stage = "failed"]]
      BY <2>2 DEF Http!Receive
    <3>2. UNCHANGED <<httpSent, arrived, serving, receipts>> /\ httpLock' = Nobody
      BY <2>2 DEF Http!Receive
    <3> httpCall[p] \in CallRecord
      BY DEF CallRecord
    <3>3. CASE Http!Accepts(p, receipt)
      <4>1. httpCall' = [httpCall EXCEPT ![p] =
              [stage |-> "answered", asked |-> httpCall[p].asked, got |-> receipt.id]]
        BY <3>1, <3>3
      <4> QED BY <3>2, <3>3, <4>1 DEF Http!Accepts
    <3>4. CASE ~Http!Accepts(p, receipt)
      <4>1. httpCall' = [httpCall EXCEPT ![p] =
              [stage |-> "failed", asked |-> httpCall[p].asked, got |-> httpCall[p].got]]
        BY <3>1, <3>4, FailedCall, Zenon
      <4> QED BY <3>2, <4>1
    <3> QED BY <3>3, <3>4
  <2>3. CASE Http!Lose(p)
    BY <2>3 DEF Http!Lose
  <2> QED BY <1>3, <2>1, <2>2, <2>3 DEF Http!Caller
<1> QED BY <1>1, <1>2, <1>3

(***************************************************************************)
(* The environment behind a pipe: while it is open, everything in it       *)
(* belongs to the request of the caller that holds the lock, and once its  *)
(* answer was printed nothing follows.  Once it is closed, what is left in *)
(* it belongs to the request whose call closed it.                         *)
(***************************************************************************)
Holds(c) == pipeCall[c].stage \in {"waiting", "listening", "closing"}
LockIsHeld ==
  \A c \in Participants :
    (Holds(c) <=> pipeLock = c) /\ (pipeLock = c => pipeCall[c].asked = pipeSent /\ pipeSent # 0)

IsAnswer(line) == line.kind \in {"result", "error"}
Answered ==
  \/ \E i \in DOMAIN stdout : IsAnswer(stdout[i])
  \/ \E i \in DOMAIN responses : IsAnswer(responses[i])

\* A request is with its writer, in the pipe, at the worker, or answered.
RequestIsInOnePlace ==
  /\ writer = "busy" => stdin = <<>> /\ worker.at = 0
  /\ stdin # <<>> => worker.at = 0 /\ Len(stdin) = 1
  /\ Answered => writer # "busy" /\ stdin = <<>> /\ worker.at = 0

LinesAreCurrent ==
  /\ \A i \in DOMAIN stdin : stdin[i] = pipeSent
  /\ worker.at \in {0, pipeSent}
  /\ \A i \in DOMAIN stdout : stdout[i].kind # "none" /\ stdout[i].id = pipeSent
  /\ \A i \in DOMAIN responses : responses[i].kind = "none" \/ responses[i].id = pipeSent

AnswerIsLast ==
  /\ \A i \in DOMAIN stdout : IsAnswer(stdout[i]) => i = Len(stdout)
  /\ \A i \in DOMAIN responses : IsAnswer(responses[i]) =>
       stdout = <<>> /\ \A j \in DOMAIN responses : i < j => responses[j].kind = "none"

FreePipeIsEmpty ==
  pipeLock = Nobody =>
    /\ writer # "busy" /\ stdin = <<>> /\ worker.at = 0 /\ stdout = <<>>
    /\ \A i \in DOMAIN responses : responses[i].kind = "none"

RequestWasSent == writer = "busy" => pipeSent \in Pipe!Requests
PairsUp == RequestIsInOnePlace /\ LinesAreCurrent /\ AnswerIsLast /\ FreePipeIsEmpty
LeftLines ==
  worker.closed # 0 =>
    /\ worker.leader = "exited"
    /\ \A i \in DOMAIN stdout : stdout[i].id = worker.closed
    /\ \A i \in DOMAIN responses : responses[i].kind = "none" \/ responses[i].id = worker.closed
PipeInv ==
  Pipe!TypeOK /\ LockIsHeld /\ RequestWasSent /\ (worker.closed = 0 => PairsUp) /\ LeftLines

LEMMA Grown ==
  ASSUME NEW S, NEW s \in Seq(S), NEW e \in S
  PROVE  /\ Append(s, e) \in Seq(S) /\ Append(s, e) # <<>> /\ Len(s) \in Nat
         /\ DOMAIN s = 1..Len(s) /\ Len(Append(s, e)) = Len(s) + 1
         /\ DOMAIN Append(s, e) = 1..(Len(s) + 1) /\ Append(s, e)[Len(s) + 1] = e
         /\ \A i \in 1..Len(s) : Append(s, e)[i] = s[i]
OBVIOUS

LEMMA Shrunk ==
  ASSUME NEW S, NEW s \in Seq(S), s # <<>>
  PROVE  /\ Tail(s) \in Seq(S) /\ Head(s) \in S /\ Head(s) = s[1]
         /\ Len(s) \in Nat \ {0} /\ DOMAIN s = 1..Len(s)
         /\ Len(Tail(s)) = Len(s) - 1 /\ DOMAIN Tail(s) = 1..(Len(s) - 1)
         /\ \A i \in 1..(Len(s) - 1) : Tail(s)[i] = s[i + 1]
OBVIOUS

LEMMA StagedCall ==
  ASSUME NEW p \in Participants, NEW calls \in [Participants -> CallRecord],
         NEW stage \in {"queued", "listening", "closing"}
  PROVE  /\ [calls EXCEPT ![p].stage = stage] \in [Participants -> CallRecord]
         /\ [calls EXCEPT ![p].stage = stage][p].stage = stage
         /\ [calls EXCEPT ![p].stage = stage][p].asked = calls[p].asked
         /\ \A c \in Participants \ {p} : [calls EXCEPT ![p].stage = stage][c] = calls[c]
<1>1. ASSUME NEW r \in CallRecord
      PROVE  [r EXCEPT !.stage = stage] \in CallRecord /\ [r EXCEPT !.stage = stage].asked = r.asked
                /\ [r EXCEPT !.stage = stage].stage = stage
  BY DEF CallRecord
<1> QED BY <1>1

LEMMA PipeInit == Pipe!Init => PipeInv
BY ThreadsAssumption
   DEF Pipe!Init, PipeInv, Pipe!TypeOK, Pipe!Requests, Pipe!Lines, LockIsHeld, Holds, RequestWasSent,
       PairsUp, RequestIsInOnePlace, LinesAreCurrent, AnswerIsLast, FreePipeIsEmpty, Answered, LeftLines

LEMMA PipeStep ==
  ASSUME PipeInv,
         \/ Pipe!Threads \/ Pipe!Supplier
         \/ \E p \in Participants : Pipe!Ask(p) \/ Pipe!Caller(p)
  PROVE  PipeInv' /\ Pipe!TakesOwnAnswer
<1> USE ThreadsAssumption
<1> DEFINE Goal == PipeInv' /\ Pipe!TakesOwnAnswer
<1>1. CASE Pipe!Write
  <2>1. Pipe!TypeOK'
    <3>1. writer = "busy" => Append(stdin, pipeSent) \in Seq(Pipe!Requests)
      BY Grown DEF PipeInv, Pipe!TypeOK, RequestWasSent
    <3>2. /\ stdin' \in Seq(Pipe!Requests) /\ writer' \in {"done", "broken"}
          /\ UNCHANGED <<pipeLock, pipeCall, pipeSent, worker, stdout, reader, responses>>
      BY <1>1, <3>1 DEF Pipe!Write, PipeInv, Pipe!TypeOK
    <3> QED BY <3>2 DEF PipeInv, Pipe!TypeOK
  <2>2. LockIsHeld' /\ RequestWasSent' /\ Pipe!TakesOwnAnswer
    BY <1>1 DEF PipeInv, RequestWasSent, LockIsHeld, Holds, Pipe!TakesOwnAnswer, Pipe!Write
  <2>3. ASSUME worker'.closed = 0 PROVE PairsUp'
    <3>0. worker.closed = 0 /\ PairsUp
      BY <1>1, <2>3 DEF PipeInv, Pipe!TypeOK, Pipe!Write
    <3>1. RequestIsInOnePlace'
      BY <1>1, Grown, Shrunk, <3>0 DEF PipeInv, Pipe!TypeOK, Pipe!Write, PairsUp, RequestIsInOnePlace, Answered, IsAnswer, Pipe!Lines, Pipe!Requests
    <3>2. LinesAreCurrent'
      BY <1>1, Grown, Shrunk, <3>0 DEF PipeInv, Pipe!TypeOK, Pipe!Write, PairsUp, RequestIsInOnePlace, LinesAreCurrent, Pipe!Lines, Pipe!Requests
    <3>3. AnswerIsLast'
      BY <1>1, Grown, Shrunk, <3>0 DEF PipeInv, Pipe!TypeOK, Pipe!Write, PairsUp, RequestIsInOnePlace, LinesAreCurrent, AnswerIsLast, Answered, IsAnswer, Pipe!Lines, Pipe!Requests
    <3>4. FreePipeIsEmpty'
      BY <1>1, Grown, Shrunk, <3>0 DEF PipeInv, Pipe!TypeOK, Pipe!Write, PairsUp, FreePipeIsEmpty, Pipe!Lines, Pipe!Requests
    <3> QED BY <3>1, <3>2, <3>3, <3>4 DEF PairsUp
  <2>4. LeftLines'
    BY <1>1 DEF Pipe!Write, PipeInv, LeftLines
  <2> QED BY <2>1, <2>2, <2>3, <2>4 DEF PipeInv
<1>2. CASE Pipe!Read
  <2>0. /\ stdout # <<>> /\ responses' = Append(responses, Head(stdout)) /\ stdout' = Tail(stdout)
        /\ UNCHANGED <<pipeLock, pipeCall, pipeSent, writer, stdin, worker, reader>>
        /\ stdout \in Seq(Pipe!Lines) /\ responses \in Seq(Pipe!Lines)
    BY <1>2 DEF Pipe!Read, PipeInv, Pipe!TypeOK
  <2>a. /\ Tail(stdout) \in Seq(Pipe!Lines) /\ Head(stdout) \in Pipe!Lines /\ Head(stdout) = stdout[1]
        /\ Len(stdout) \in Nat \ {0} /\ DOMAIN stdout = 1..Len(stdout)
        /\ Len(stdout') = Len(stdout) - 1 /\ DOMAIN stdout' = 1..(Len(stdout) - 1)
        /\ \A i \in 1..(Len(stdout) - 1) : stdout'[i] = stdout[i + 1]
    BY <2>0, Shrunk
  <2>b. /\ responses' \in Seq(Pipe!Lines) /\ DOMAIN responses = 1..Len(responses) /\ Len(responses) \in Nat
        /\ DOMAIN responses' = 1..(Len(responses) + 1)
        /\ responses'[Len(responses) + 1] = stdout[1]
        /\ \A i \in 1..Len(responses) : responses'[i] = responses[i]
    BY <2>0, <2>a, Grown
  <2>1. Pipe!TypeOK'
    BY <2>0, <2>a, <2>b DEF PipeInv, Pipe!TypeOK
  <2>2. LockIsHeld' /\ RequestWasSent' /\ Pipe!TakesOwnAnswer
    BY <2>0 DEF PipeInv, RequestWasSent, LockIsHeld, Holds, Pipe!TakesOwnAnswer
  <2>3. ASSUME worker'.closed = 0 PROVE PairsUp'
    <3>0. worker.closed = 0 /\ PairsUp
      BY <2>0, <2>3 DEF PipeInv
    <3>1. RequestIsInOnePlace'
      BY <2>0, <2>a, <2>b, <3>0 DEF PairsUp, RequestIsInOnePlace, Answered, IsAnswer
    <3>2. LinesAreCurrent'
      BY <2>0, <2>a, <2>b, <3>0 DEF PairsUp, LinesAreCurrent
    <3>3. AnswerIsLast'
      <4>1. \A i \in DOMAIN stdout' : IsAnswer(stdout'[i]) => i = Len(stdout')
        BY <2>a, <3>0 DEF PairsUp, AnswerIsLast
      <4>2. ~\E i \in DOMAIN responses : IsAnswer(responses[i])
        BY <2>0, <3>0 DEF PairsUp, AnswerIsLast
      <4>3. IsAnswer(stdout[1]) => Len(stdout) = 1
        BY <2>a, <3>0 DEF PairsUp, AnswerIsLast
      <4>4. Len(stdout) = 1 => stdout' = <<>>
        BY <2>0, <2>a
      <4> QED BY <2>b, <4>1, <4>2, <4>3, <4>4 DEF AnswerIsLast
    <3>4. FreePipeIsEmpty'
      BY <2>0, <3>0 DEF PairsUp, FreePipeIsEmpty
    <3> QED BY <3>1, <3>2, <3>3, <3>4 DEF PairsUp
  <2>4. LeftLines'
    BY <2>0, <2>a, <2>b DEF PipeInv, LeftLines
  <2> QED BY <2>1, <2>2, <2>3, <2>4 DEF PipeInv
<1>3. CASE Pipe!ReadEnd
  <2>1. Pipe!TypeOK'
    BY <1>3, Grown, Shrunk DEF PipeInv, Pipe!TypeOK, Pipe!ReadEnd, Pipe!Line, RequestWasSent, Pipe!Lines
  <2>2. LockIsHeld' /\ RequestWasSent' /\ Pipe!TakesOwnAnswer
    BY <1>3 DEF PipeInv, RequestWasSent, LockIsHeld, Holds, Pipe!TakesOwnAnswer, Pipe!ReadEnd
  <2>3. ASSUME worker'.closed = 0 PROVE PairsUp'
    <3>0. worker.closed = 0 /\ PairsUp
      BY <1>3, <2>3 DEF PipeInv, Pipe!TypeOK, Pipe!ReadEnd, Pipe!Line
    <3>1. RequestIsInOnePlace'
      BY <1>3, Grown, Shrunk, <3>0 DEF PipeInv, Pipe!TypeOK, Pipe!ReadEnd, Pipe!Line, PairsUp, RequestIsInOnePlace, Answered, IsAnswer, Pipe!Lines, Pipe!Requests
    <3>2. LinesAreCurrent'
      BY <1>3, Grown, Shrunk, <3>0 DEF PipeInv, Pipe!TypeOK, Pipe!ReadEnd, Pipe!Line, PairsUp, RequestIsInOnePlace, LinesAreCurrent, Pipe!Lines, Pipe!Requests
    <3>3. AnswerIsLast'
      BY <1>3, Grown, Shrunk, <3>0 DEF PipeInv, Pipe!TypeOK, Pipe!ReadEnd, Pipe!Line, PairsUp, RequestIsInOnePlace, LinesAreCurrent, AnswerIsLast, Answered, IsAnswer, Pipe!Lines, Pipe!Requests
    <3>4. FreePipeIsEmpty'
      BY <1>3, Grown, Shrunk, <3>0 DEF PipeInv, Pipe!TypeOK, Pipe!ReadEnd, Pipe!Line, PairsUp, FreePipeIsEmpty, Pipe!Lines, Pipe!Requests
    <3> QED BY <3>1, <3>2, <3>3, <3>4 DEF PairsUp
  <2>4. LeftLines'
    <3>1. responses' = Append(responses, Pipe!Line("none", 0)) /\ responses \in Seq(Pipe!Lines)
          /\ Pipe!Line("none", 0).kind = "none" /\ Pipe!Line("none", 0) \in Pipe!Lines
          /\ UNCHANGED <<worker, stdout>>
      BY <1>3 DEF Pipe!ReadEnd, Pipe!Line, Pipe!Lines, PipeInv, Pipe!TypeOK
    <3>2. /\ DOMAIN responses' = 1..(Len(responses) + 1) /\ DOMAIN responses = 1..Len(responses)
          /\ responses'[Len(responses) + 1].kind = "none" /\ Len(responses) \in Nat
          /\ \A i \in 1..Len(responses) : responses'[i] = responses[i]
      BY <3>1, Grown
    <3> QED BY <3>1, <3>2 DEF PipeInv, LeftLines
  <2> QED BY <2>1, <2>2, <2>3, <2>4 DEF PipeInv
<1>4. CASE Pipe!Receive
  <2>1. Pipe!TypeOK'
    BY <1>4, Grown, Shrunk DEF PipeInv, Pipe!TypeOK, Pipe!Receive, Pipe!Running, RequestWasSent
  <2>2. LockIsHeld' /\ RequestWasSent' /\ Pipe!TakesOwnAnswer
    BY <1>4 DEF PipeInv, RequestWasSent, LockIsHeld, Holds, Pipe!TakesOwnAnswer, Pipe!Receive
  <2>3. ASSUME worker'.closed = 0 PROVE PairsUp'
    <3>0. worker.closed = 0 /\ PairsUp
      BY <1>4, <2>3 DEF PipeInv, Pipe!TypeOK, Pipe!Receive, Pipe!Running
    <3>1. RequestIsInOnePlace'
      <4>1. /\ stdin # <<>> /\ stdin \in Seq(Pipe!Requests) /\ stdin' = Tail(stdin)
            /\ UNCHANGED <<writer, stdout, responses>>
        BY <1>4 DEF Pipe!Receive, PipeInv, Pipe!TypeOK
      <4>2. Len(stdin) = 1 /\ writer # "busy" /\ ~Answered
        BY <3>0, <4>1 DEF PairsUp, RequestIsInOnePlace
      <4>3. stdin' = <<>>
        BY <4>1, <4>2, Shrunk
      <4>4. ~Answered'
        BY <4>1, <4>2 DEF Answered
      <4> QED BY <4>1, <4>2, <4>3, <4>4 DEF RequestIsInOnePlace
    <3>2. LinesAreCurrent'
      <4>1. stdin # <<>> /\ Len(stdin) = 1 /\ stdin' = Tail(stdin) /\ worker' = [worker EXCEPT !.at = Head(stdin)]
        BY <1>4, <3>0 DEF Pipe!Receive, PairsUp, RequestIsInOnePlace
      <4>2. Head(stdin) = pipeSent /\ stdin' = <<>>
        BY <3>0, <4>1, Shrunk DEF PipeInv, Pipe!TypeOK, PairsUp, LinesAreCurrent
      <4>3. worker'.at = pipeSent
        BY <4>1, <4>2 DEF PipeInv, Pipe!TypeOK
      <4> QED BY <1>4, <3>0, <4>2, <4>3 DEF Pipe!Receive, PairsUp, LinesAreCurrent
    <3>3. AnswerIsLast'
      BY <1>4, Grown, Shrunk, <3>0 DEF PipeInv, Pipe!TypeOK, Pipe!Receive, Pipe!Running, PairsUp, RequestIsInOnePlace, LinesAreCurrent, AnswerIsLast, Answered, IsAnswer, Pipe!Lines, Pipe!Requests
    <3>4. FreePipeIsEmpty'
      BY <1>4, Grown, Shrunk, <3>0 DEF PipeInv, Pipe!TypeOK, Pipe!Receive, Pipe!Running, PairsUp, FreePipeIsEmpty, Pipe!Lines, Pipe!Requests
    <3> QED BY <3>1, <3>2, <3>3, <3>4 DEF PairsUp
  <2>4. LeftLines'
    BY <1>4 DEF Pipe!Receive, Pipe!Running, PipeInv, Pipe!TypeOK, LeftLines
  <2> QED BY <2>1, <2>2, <2>3, <2>4 DEF PipeInv
<1>5. CASE Pipe!Reply
  <2>1. Pipe!TypeOK'
    <3>1. PICK kind \in {"result", "error"} : stdout' = Append(stdout, Pipe!Line(kind, worker.at))
      BY <1>5 DEF Pipe!Reply
    <3>2. Pipe!Line(kind, worker.at) \in Pipe!Lines
      BY DEF Pipe!Line, Pipe!Lines, PipeInv, Pipe!TypeOK
    <3>3. stdout' \in Seq(Pipe!Lines)
      BY <3>1, <3>2, Grown DEF PipeInv, Pipe!TypeOK
    <3> QED BY <1>5, <3>3 DEF PipeInv, Pipe!TypeOK, Pipe!Reply
  <2>2. LockIsHeld' /\ RequestWasSent' /\ Pipe!TakesOwnAnswer
    BY <1>5 DEF PipeInv, RequestWasSent, LockIsHeld, Holds, Pipe!TakesOwnAnswer, Pipe!Reply
  <2>3. ASSUME worker'.closed = 0 PROVE PairsUp'
    <3>0. worker.closed = 0 /\ PairsUp
      BY <1>5, <2>3 DEF PipeInv, Pipe!TypeOK, Pipe!Reply, Pipe!Running, Pipe!Line
    <3>1. RequestIsInOnePlace'
      BY <1>5, Grown, Shrunk, <3>0 DEF PipeInv, Pipe!TypeOK, Pipe!Reply, Pipe!Running, Pipe!Line, PairsUp, RequestIsInOnePlace, Answered, IsAnswer, Pipe!Lines, Pipe!Requests
    <3>2. LinesAreCurrent'
      BY <1>5, Grown, Shrunk, <3>0 DEF PipeInv, Pipe!TypeOK, Pipe!Reply, Pipe!Running, Pipe!Line, PairsUp, RequestIsInOnePlace, LinesAreCurrent, Pipe!Lines, Pipe!Requests
    <3>3. AnswerIsLast'
      BY <1>5, Grown, Shrunk, <3>0 DEF PipeInv, Pipe!TypeOK, Pipe!Reply, Pipe!Running, Pipe!Line, PairsUp, RequestIsInOnePlace, LinesAreCurrent, AnswerIsLast, Answered, IsAnswer, Pipe!Lines, Pipe!Requests
    <3>4. FreePipeIsEmpty'
      BY <1>5, Grown, Shrunk, <3>0 DEF PipeInv, Pipe!TypeOK, Pipe!Reply, Pipe!Running, Pipe!Line, PairsUp, FreePipeIsEmpty, Pipe!Lines, Pipe!Requests
    <3> QED BY <3>1, <3>2, <3>3, <3>4 DEF PairsUp
  <2>4. LeftLines'
    BY <1>5 DEF Pipe!Reply, Pipe!Running, PipeInv, Pipe!TypeOK, LeftLines
  <2> QED BY <2>1, <2>2, <2>3, <2>4 DEF PipeInv
<1>6. CASE Pipe!Stray
  <2>1. Pipe!TypeOK'
    BY <1>6, Grown, Shrunk DEF PipeInv, Pipe!TypeOK, Pipe!Stray, Pipe!Running, Pipe!Line, RequestWasSent, Pipe!Lines
  <2>2. LockIsHeld' /\ RequestWasSent' /\ Pipe!TakesOwnAnswer
    BY <1>6 DEF PipeInv, RequestWasSent, LockIsHeld, Holds, Pipe!TakesOwnAnswer, Pipe!Stray
  <2>3. ASSUME worker'.closed = 0 PROVE PairsUp'
    <3>0. worker.closed = 0 /\ PairsUp
      BY <1>6, <2>3 DEF PipeInv, Pipe!TypeOK, Pipe!Stray, Pipe!Running, Pipe!Line
    <3>1. RequestIsInOnePlace'
      BY <1>6, Grown, Shrunk, <3>0 DEF PipeInv, Pipe!TypeOK, Pipe!Stray, Pipe!Running, Pipe!Line, PairsUp, RequestIsInOnePlace, Answered, IsAnswer, Pipe!Lines, Pipe!Requests
    <3>2. LinesAreCurrent'
      BY <1>6, Grown, Shrunk, <3>0 DEF PipeInv, Pipe!TypeOK, Pipe!Stray, Pipe!Running, Pipe!Line, PairsUp, RequestIsInOnePlace, LinesAreCurrent, Pipe!Lines, Pipe!Requests
    <3>3. AnswerIsLast'
      BY <1>6, Grown, Shrunk, <3>0 DEF PipeInv, Pipe!TypeOK, Pipe!Stray, Pipe!Running, Pipe!Line, PairsUp, RequestIsInOnePlace, LinesAreCurrent, AnswerIsLast, Answered, IsAnswer, Pipe!Lines, Pipe!Requests
    <3>4. FreePipeIsEmpty'
      BY <1>6, Grown, Shrunk, <3>0 DEF PipeInv, Pipe!TypeOK, Pipe!Stray, Pipe!Running, Pipe!Line, PairsUp, FreePipeIsEmpty, Pipe!Lines, Pipe!Requests
    <3> QED BY <3>1, <3>2, <3>3, <3>4 DEF PairsUp
  <2>4. LeftLines'
    BY <1>6 DEF Pipe!Stray, Pipe!Running, PipeInv, Pipe!TypeOK, LeftLines
  <2> QED BY <2>1, <2>2, <2>3, <2>4 DEF PipeInv
<1>7. CASE Pipe!Exit
  <2>1. Pipe!TypeOK'
    BY <1>7 DEF PipeInv, Pipe!TypeOK, Pipe!Exit, Pipe!Running, RequestWasSent
  <2>2. LockIsHeld' /\ RequestWasSent' /\ Pipe!TakesOwnAnswer
    BY <1>7 DEF PipeInv, RequestWasSent, LockIsHeld, Holds, Pipe!TakesOwnAnswer, Pipe!Exit
  <2>3. ASSUME worker'.closed = 0 PROVE PairsUp'
    <3>0. worker.closed = 0 /\ PairsUp
      BY <1>7, <2>3 DEF PipeInv, Pipe!TypeOK, Pipe!Exit, Pipe!Running, LeftLines
    <3>1. RequestIsInOnePlace'
      BY <1>7, <3>0 DEF PipeInv, Pipe!TypeOK, Pipe!Exit, Pipe!Running, PairsUp, RequestIsInOnePlace, Answered, IsAnswer, Pipe!Lines, Pipe!Requests
    <3>2. LinesAreCurrent'
      BY <1>7, <3>0 DEF PipeInv, Pipe!TypeOK, Pipe!Exit, Pipe!Running, PairsUp, RequestIsInOnePlace, LinesAreCurrent, Pipe!Lines, Pipe!Requests
    <3>3. AnswerIsLast'
      BY <1>7, <3>0 DEF PipeInv, Pipe!TypeOK, Pipe!Exit, Pipe!Running, PairsUp, RequestIsInOnePlace, LinesAreCurrent, AnswerIsLast, Answered, IsAnswer, Pipe!Lines, Pipe!Requests
    <3>4. FreePipeIsEmpty'
      BY <1>7, <3>0 DEF PipeInv, Pipe!TypeOK, Pipe!Exit, Pipe!Running, PairsUp, FreePipeIsEmpty, Pipe!Lines, Pipe!Requests
    <3> QED BY <3>1, <3>2, <3>3, <3>4 DEF PairsUp
  <2>4. LeftLines'
    BY <1>7 DEF Pipe!Exit, PipeInv, Pipe!TypeOK, LeftLines
  <2> QED BY <2>1, <2>2, <2>3, <2>4 DEF PipeInv
<1>8. CASE Pipe!HelperEnds
  <2>1. Pipe!TypeOK'
    BY <1>8 DEF PipeInv, Pipe!TypeOK, Pipe!HelperEnds, RequestWasSent
  <2>2. LockIsHeld' /\ RequestWasSent' /\ Pipe!TakesOwnAnswer
    BY <1>8 DEF PipeInv, RequestWasSent, LockIsHeld, Holds, Pipe!TakesOwnAnswer, Pipe!HelperEnds
  <2>3. ASSUME worker'.closed = 0 PROVE PairsUp'
    <3>0. worker.closed = 0 /\ PairsUp
      BY <1>8, <2>3 DEF PipeInv, Pipe!TypeOK, Pipe!HelperEnds
    <3>1. RequestIsInOnePlace'
      BY <1>8, <3>0 DEF PipeInv, Pipe!TypeOK, Pipe!HelperEnds, PairsUp, RequestIsInOnePlace, Answered, IsAnswer, Pipe!Lines, Pipe!Requests
    <3>2. LinesAreCurrent'
      BY <1>8, <3>0 DEF PipeInv, Pipe!TypeOK, Pipe!HelperEnds, PairsUp, RequestIsInOnePlace, LinesAreCurrent, Pipe!Lines, Pipe!Requests
    <3>3. AnswerIsLast'
      BY <1>8, <3>0 DEF PipeInv, Pipe!TypeOK, Pipe!HelperEnds, PairsUp, RequestIsInOnePlace, LinesAreCurrent, AnswerIsLast, Answered, IsAnswer, Pipe!Lines, Pipe!Requests
    <3>4. FreePipeIsEmpty'
      BY <1>8, <3>0 DEF PipeInv, Pipe!TypeOK, Pipe!HelperEnds, PairsUp, FreePipeIsEmpty, Pipe!Lines, Pipe!Requests
    <3> QED BY <3>1, <3>2, <3>3, <3>4 DEF PairsUp
  <2>4. LeftLines'
    BY <1>8 DEF Pipe!HelperEnds, PipeInv, Pipe!TypeOK, LeftLines
  <2> QED BY <2>1, <2>2, <2>3, <2>4 DEF PipeInv
<1>9. ASSUME NEW p \in Participants, Pipe!Ask(p) PROVE Goal
  <2>1. pipeCall' = [pipeCall EXCEPT ![p].stage = "queued"] /\ ~Holds(p)
    BY <1>9 DEF Pipe!Ask, Holds, PipeInv, Pipe!TypeOK
  <2>2. pipeCall' \in [Participants -> CallRecord] /\ Pipe!TypeOK'
    <3>1. pipeCall' \in [Participants -> CallRecord]
      BY <2>1, StagedCall DEF PipeInv, Pipe!TypeOK, CallRecord, Pipe!Requests
    <3> QED BY <1>9, <3>1 DEF CallRecord, PipeInv, Pipe!TypeOK, Pipe!Requests, Pipe!Ask
  <2>3. /\ pipeCall'[p].stage = "queued" /\ \A c \in Participants \ {p} : pipeCall'[c] = pipeCall[c]
        /\ UNCHANGED pipeLock /\ UNCHANGED pipeSent
    BY <1>9, <2>1 DEF PipeInv, Pipe!TypeOK, Pipe!Ask
  <2>4. LockIsHeld' /\ Pipe!TakesOwnAnswer
    BY <2>1, <2>3 DEF PipeInv, LockIsHeld, Holds, Pipe!TakesOwnAnswer
  <2>5. RequestWasSent' /\ (worker'.closed = 0 => PairsUp') /\ LeftLines'
    BY <1>9 DEF Pipe!Ask, PipeInv, RequestWasSent, PairsUp, LeftLines,
       RequestIsInOnePlace, LinesAreCurrent, AnswerIsLast, FreePipeIsEmpty, Answered, IsAnswer
  <2> QED BY <2>2, <2>4, <2>5 DEF PipeInv
<1>10. ASSUME NEW p \in Participants, Pipe!Caller(p) PROVE Goal
  <2> pipeCall \in [Participants -> CallRecord]
    BY DEF PipeInv, Pipe!TypeOK, CallRecord, Pipe!Requests
  <2>1. CASE Pipe!Begin(p)
    <3>1. /\ pipeCall[p].stage = "queued" /\ pipeLock = Nobody /\ pipeLock' = p
          /\ pipeSent' = pipeSent + 1 /\ pipeSent' \in Pipe!Requests /\ writer' = "busy"
          /\ UNCHANGED <<stdin, worker, stdout, reader, responses>>
      BY <2>1 DEF Pipe!Begin, PipeInv, Pipe!TypeOK, Pipe!Requests
    <3>2. pipeCall' = [pipeCall EXCEPT ![p] = [stage |-> "waiting", asked |-> pipeSent', got |-> 0]]
      BY <2>1, <3>1 DEF Pipe!Begin
    <3>3. pipeCall' \in [Participants -> CallRecord]
      BY <3>1, <3>2 DEF CallRecord, Pipe!Requests
    <3>4. Pipe!TypeOK'
      BY <3>1, <3>3 DEF PipeInv, Pipe!TypeOK, CallRecord, Pipe!Requests
    <3>5. LockIsHeld' /\ RequestWasSent' /\ Pipe!TakesOwnAnswer
      <4>1. pipeSent' # 0
        BY <3>1 DEF Pipe!Requests
      <4> QED BY <3>1, <3>2, <4>1 DEF PipeInv, LockIsHeld, Holds, RequestWasSent, Pipe!TakesOwnAnswer
    <3>7. LeftLines'
      BY <3>1 DEF PipeInv, LeftLines
    <3>6. ASSUME worker'.closed = 0 PROVE PairsUp'
      BY <3>1, <3>6 DEF PipeInv, PairsUp, RequestIsInOnePlace, LinesAreCurrent, AnswerIsLast,
                        FreePipeIsEmpty, Answered, IsAnswer
    <3> QED BY <3>4, <3>5, <3>6, <3>7 DEF PipeInv
  <2>2. ASSUME pipeLock = p, Pipe!Abandon(p), UNCHANGED <<pipeSent, writer, stdin, worker, stdout, reader>>,
               responses' = responses \/ (responses # <<>> /\ responses' = Tail(responses))
        PROVE  Goal
    <3>1. pipeCall' = [pipeCall EXCEPT ![p].stage = "closing"] /\ UNCHANGED pipeLock
      BY <2>2 DEF Pipe!Abandon
    <3>2. /\ pipeCall' \in [Participants -> CallRecord]
          /\ pipeCall'[p].stage = "closing" /\ pipeCall'[p].asked = pipeCall[p].asked
          /\ \A c \in Participants \ {p} : pipeCall'[c] = pipeCall[c]
      <4>1. pipeCall' \in [Participants -> CallRecord]
        BY <3>1, StagedCall
      <4>2. /\ pipeCall'[p].stage = "closing" /\ pipeCall'[p].asked = pipeCall[p].asked
            /\ \A c \in Participants \ {p} : pipeCall'[c] = pipeCall[c]
        BY <3>1 DEF CallRecord
      <4> QED BY <4>1, <4>2
    <3>3. responses' \in Seq(Pipe!Lines)
      <4>1. responses \in Seq(Pipe!Lines)
        BY DEF PipeInv, Pipe!TypeOK
      <4>2. responses # <<>> => Tail(responses) \in Seq(Pipe!Lines)
        BY <4>1, Shrunk
      <4> QED BY <2>2, <4>1, <4>2
    <3>4. Pipe!TypeOK'
      BY <2>2, <3>1, <3>2, <3>3 DEF PipeInv, Pipe!TypeOK, CallRecord, Pipe!Requests
    <3>5. LockIsHeld' /\ RequestWasSent' /\ Pipe!TakesOwnAnswer
      BY <2>2, <3>1, <3>2 DEF PipeInv, LockIsHeld, Holds, RequestWasSent, Pipe!TakesOwnAnswer
    <3>6. ASSUME worker'.closed = 0 PROVE PairsUp'
      <4>1. PairsUp /\ pipeLock' = p
        BY <2>2, <3>1, <3>6 DEF PipeInv
      <4>2. CASE responses' = responses
        BY <2>2, <4>1, <4>2 DEF PairsUp, RequestIsInOnePlace, LinesAreCurrent, AnswerIsLast,
                                FreePipeIsEmpty, Answered, IsAnswer
      <4>3. CASE responses # <<>> /\ responses' = Tail(responses)
        <5>1. /\ DOMAIN responses = 1..Len(responses) /\ DOMAIN responses' = 1..(Len(responses) - 1)
              /\ Len(responses) \in Nat
              /\ \A i \in 1..(Len(responses) - 1) : responses'[i] = responses[i + 1]
          BY <4>3, Shrunk DEF PipeInv, Pipe!TypeOK
        <5>2. RequestIsInOnePlace'
          BY <2>2, <4>1, <5>1 DEF PairsUp, RequestIsInOnePlace, Answered, IsAnswer
        <5>3. LinesAreCurrent'
          BY <2>2, <4>1, <5>1 DEF PairsUp, LinesAreCurrent
        <5>4. AnswerIsLast'
          BY <2>2, <4>1, <5>1 DEF PairsUp, AnswerIsLast, IsAnswer
        <5> QED BY <4>1, <5>2, <5>3, <5>4, ThreadsAssumption DEF PairsUp, FreePipeIsEmpty
      <4> QED BY <2>2, <4>2, <4>3
    <3>7. LeftLines'
      <4>1. CASE responses' = responses
        BY <2>2, <4>1 DEF PipeInv, LeftLines
      <4>2. CASE responses # <<>> /\ responses' = Tail(responses)
        <5>1. /\ DOMAIN responses = 1..Len(responses) /\ DOMAIN responses' = 1..(Len(responses) - 1)
              /\ Len(responses) \in Nat
              /\ \A i \in 1..(Len(responses) - 1) : responses'[i] = responses[i + 1]
          BY <4>2, Shrunk DEF PipeInv, Pipe!TypeOK
        <5> QED BY <2>2, <5>1 DEF PipeInv, LeftLines
      <4> QED BY <2>2, <4>1, <4>2
    <3> QED BY <3>4, <3>5, <3>6, <3>7 DEF PipeInv
  <2>3. CASE Pipe!Take(p)
    <3>1. /\ pipeLock = p /\ pipeCall[p].stage = "listening" /\ responses # <<>>
          /\ responses' = Tail(responses)
          /\ UNCHANGED <<pipeSent, writer, stdin, worker, stdout, reader>>
      BY <2>3 DEF Pipe!Take, Pipe!Listens
    <3>2. CASE Head(responses).kind # "result"
      BY <2>2, <2>3, <3>1, <3>2 DEF Pipe!Take
    <3>3. CASE Head(responses).kind = "result"
      <4> DEFINE line == Head(responses)
      <4>1. /\ line \in Pipe!Lines /\ line = responses[1] /\ Len(responses) \in Nat \ {0}
            /\ DOMAIN responses = 1..Len(responses) /\ DOMAIN responses' = 1..(Len(responses) - 1)
            /\ \A i \in 1..(Len(responses) - 1) : responses'[i] = responses[i + 1]
            /\ responses' \in Seq(Pipe!Lines)
        BY <3>1, Shrunk DEF PipeInv, Pipe!TypeOK
      <4>2. /\ pipeLock' = Nobody
            /\ pipeCall' = [pipeCall EXCEPT ![p] =
                 [stage |-> "answered", asked |-> pipeCall[p].asked, got |-> line.id]]
        BY <2>3, <3>3 DEF Pipe!Take, Pipe!Leave
      <4>3. pipeCall' \in [Participants -> CallRecord]
        BY <4>1, <4>2 DEF CallRecord, Pipe!Lines, Pipe!Requests
      <4>4. Pipe!TypeOK'
        BY <3>1, <4>1, <4>2, <4>3 DEF PipeInv, Pipe!TypeOK, CallRecord, Pipe!Requests
      <4>5. LockIsHeld' /\ RequestWasSent'
        BY <3>1, <4>2 DEF PipeInv, LockIsHeld, Holds, RequestWasSent
      <4>6. Pipe!TakesOwnAnswer
        <5>1. line.id = IF worker.closed = 0 THEN pipeSent ELSE worker.closed
          BY <3>3, <4>1 DEF PipeInv, PairsUp, LinesAreCurrent, LeftLines
        <5>2. pipeCall[p].asked = pipeSent
          BY <3>1 DEF PipeInv, LockIsHeld
        <5> QED BY <4>2, <5>1, <5>2 DEF Pipe!TakesOwnAnswer
      <4>7. ASSUME worker'.closed = 0 PROVE PairsUp'
        <5>1. PairsUp
          BY <3>1, <4>7 DEF PipeInv
        <5>2. /\ writer # "busy" /\ stdin = <<>> /\ worker.at = 0 /\ stdout = <<>>
              /\ \A i \in DOMAIN responses' : responses'[i].kind = "none"
          <6>1. 1 \in DOMAIN responses /\ IsAnswer(responses[1]) /\ Answered
            BY <3>3, <4>1 DEF IsAnswer, Answered
          <6>2. writer # "busy" /\ stdin = <<>> /\ worker.at = 0
            BY <5>1, <6>1 DEF PairsUp, RequestIsInOnePlace
          <6>3. stdout = <<>> /\ \A j \in DOMAIN responses : 1 < j => responses[j].kind = "none"
            BY <5>1, <6>1 DEF PairsUp, AnswerIsLast
          <6>4. ASSUME NEW i \in DOMAIN responses' PROVE responses'[i].kind = "none"
            <7>1. i \in 1..(Len(responses) - 1) /\ i + 1 \in DOMAIN responses /\ 1 < i + 1
              BY <4>1
            <7> QED BY <4>1, <6>3, <7>1
          <6> QED BY <6>2, <6>3, <6>4
        <5> QED BY <3>1, <4>2, <5>1, <5>2
                DEF PairsUp, RequestIsInOnePlace, LinesAreCurrent, AnswerIsLast, FreePipeIsEmpty,
                    Answered, IsAnswer
      <4>8. LeftLines'
        BY <3>1, <4>1 DEF PipeInv, LeftLines
      <4> QED BY <4>4, <4>5, <4>6, <4>7, <4>8 DEF PipeInv
    <3> QED BY <3>2, <3>3
  <2>4. CASE Pipe!Broken(p)
    BY <2>2, <2>4 DEF Pipe!Broken, Pipe!Listens
  <2>5. CASE Pipe!Deadline(p)
    BY <2>2, <2>5 DEF Pipe!Deadline, Pipe!Overdue, Pipe!Waits, Pipe!Listens
  <2>6. CASE Pipe!Stop(p)
    <3>1. /\ pipeLock = p /\ worker.closed = 0 /\ worker'.closed = pipeSent /\ worker'.leader = "exited"
          /\ UNCHANGED <<pipeLock, pipeCall, pipeSent, writer, stdin, stdout, reader, responses>>
      BY <2>6 DEF Pipe!Stop
    <3>2. Pipe!TypeOK'
      BY <2>6 DEF Pipe!Stop, PipeInv, Pipe!TypeOK
    <3>3. LockIsHeld' /\ RequestWasSent' /\ Pipe!TakesOwnAnswer
      BY <3>1 DEF PipeInv, LockIsHeld, Holds, RequestWasSent, Pipe!TakesOwnAnswer
    <3>4. worker'.closed # 0
      BY <3>1 DEF PipeInv, LockIsHeld
    <3>5. LeftLines'
      BY <3>1 DEF PipeInv, PairsUp, LinesAreCurrent, LeftLines
    <3> QED BY <3>2, <3>3, <3>4, <3>5 DEF PipeInv
  <2>7. CASE Pipe!Closed(p)
    <3>1. /\ pipeLock = p /\ worker.closed # 0 /\ pipeLock' = Nobody
          /\ pipeCall' = [pipeCall EXCEPT ![p] = [stage |-> "failed", asked |-> pipeCall[p].asked, got |-> 0]]
          /\ UNCHANGED <<pipeSent, writer, stdin, worker, stdout, reader, responses>>
      BY <2>7 DEF Pipe!Closed, Pipe!Leave
    <3>2. pipeCall' \in [Participants -> CallRecord]
      BY <3>1 DEF CallRecord
    <3>3. Pipe!TypeOK'
      BY <3>1, <3>2 DEF PipeInv, Pipe!TypeOK, CallRecord, Pipe!Requests
    <3>4. LockIsHeld' /\ RequestWasSent' /\ Pipe!TakesOwnAnswer
      BY <3>1 DEF PipeInv, LockIsHeld, Holds, RequestWasSent, Pipe!TakesOwnAnswer
    <3>5. LeftLines'
      BY <3>1 DEF PipeInv, LeftLines
    <3> QED BY <3>1, <3>3, <3>4, <3>5 DEF PipeInv
  <2>8. CASE Pipe!Poll(p)
    <3>1. CASE writer = "broken"
      BY <2>2, <2>8, <3>1 DEF Pipe!Poll, Pipe!Waits
    <3>2. CASE writer # "broken"
      <4>1. /\ pipeLock = p /\ pipeCall' = [pipeCall EXCEPT ![p].stage = "listening"]
            /\ UNCHANGED <<pipeLock, pipeSent, writer, stdin, worker, stdout, reader, responses>>
        BY <2>8, <3>2 DEF Pipe!Poll, Pipe!Waits
      <4>2. /\ pipeCall' \in [Participants -> CallRecord]
            /\ pipeCall'[p].stage = "listening" /\ pipeCall'[p].asked = pipeCall[p].asked
            /\ \A c \in Participants \ {p} : pipeCall'[c] = pipeCall[c]
        <5>1. pipeCall' \in [Participants -> CallRecord]
          BY <4>1, StagedCall
        <5>2. /\ pipeCall'[p].stage = "listening" /\ pipeCall'[p].asked = pipeCall[p].asked
              /\ \A c \in Participants \ {p} : pipeCall'[c] = pipeCall[c]
          BY <4>1 DEF CallRecord
        <5> QED BY <5>1, <5>2
      <4>3. Pipe!TypeOK'
        BY <4>1, <4>2 DEF PipeInv, Pipe!TypeOK, CallRecord, Pipe!Requests
      <4>4. LockIsHeld' /\ RequestWasSent' /\ Pipe!TakesOwnAnswer
        BY <4>1, <4>2 DEF PipeInv, LockIsHeld, Holds, RequestWasSent, Pipe!TakesOwnAnswer
      <4>5. (worker'.closed = 0 => PairsUp') /\ LeftLines'
        BY <4>1 DEF PipeInv, LeftLines, PairsUp, RequestIsInOnePlace, LinesAreCurrent, AnswerIsLast,
                    FreePipeIsEmpty, Answered, IsAnswer
      <4> QED BY <4>3, <4>4, <4>5 DEF PipeInv
    <3> QED BY <3>1, <3>2
  <2> QED BY <1>10, <2>1, <2>3, <2>4, <2>5, <2>6, <2>7, <2>8 DEF Pipe!Caller
<1> QED BY <1>1, <1>2, <1>3, <1>4, <1>5, <1>6, <1>7, <1>8, <1>9, <1>10 DEF Pipe!Threads, Pipe!Supplier

(***************************************************************************)
(* The composition: the phases of the runner and of the remote callers     *)
(* touch the commands, the pipe and HTTP by their own actions alone.       *)
(***************************************************************************)
CompositionInv == CommandInv /\ HttpInv /\ PipeInv

LEMMA CompositionInit == Init => CompositionInv
BY CommandInit, HttpInit, PipeInit DEF Init, CompositionInv

LEMMA CommandUnchanged == CommandInv /\ UNCHANGED commandVars => CommandInv'
BY DEF CommandInv, commandVars, Command!TypeOK, NoProgramOutlivesItsCall,
       Command!NoProgramOutlivesItsCall, Command!Leads, Command!Helpers

LEMMA HttpUnchanged == HttpInv /\ UNCHANGED httpVars => HttpInv'
BY DEF HttpInv, httpVars, Http!TypeOK, Http!TakesOwnReceipt, Http!Requests, Http!Receipts

LEMMA PipeUnchanged ==
  PipeInv /\ UNCHANGED pipeVars => PipeInv' /\ Pipe!TakesOwnAnswer
BY DEF PipeInv, pipeVars, Pipe!TypeOK, Pipe!TakesOwnAnswer, LockIsHeld, Holds, RequestWasSent, LeftLines,
       PairsUp, RequestIsInOnePlace, LinesAreCurrent, AnswerIsLast, FreePipeIsEmpty, Answered, IsAnswer

\* What a step of the composition is to each of its parts.
CommandMoves ==
  \/ UNCHANGED commandVars
  \/ \E p \in Participants : Command!Spawn(p) \/ Command!Caller(p) \/ Command!Program(p)
HttpMoves ==
  \/ UNCHANGED httpVars
  \/ Http!Worker
  \/ \E p \in Participants : Http!Ask(p) \/ Http!Caller(p)
PipeMoves ==
  \/ UNCHANGED pipeVars
  \/ Pipe!Threads \/ Pipe!Supplier
  \/ \E p \in Participants : Pipe!Ask(p) \/ Pipe!Caller(p)

LEMMA PartsMove == [Next]_vars => CommandMoves /\ HttpMoves /\ PipeMoves
<1> SUFFICES ASSUME [Next]_vars PROVE CommandMoves /\ HttpMoves /\ PipeMoves
  OBVIOUS
<1> USE DEF CommandMoves, HttpMoves, PipeMoves
<1>1. CASE UNCHANGED vars
  BY <1>1 DEF vars
<1>2. CASE Authority
  BY <1>2 DEF Authority
<1>3. CASE Environment
  BY <1>3 DEF Environment, PipeOnly
<1>4. CASE Commands
  BY <1>4 DEF Commands
<1>5. CASE Dispatch
  BY <1>5 DEF Dispatch
<1>6. ASSUME NEW p \in Participants, Start(p) \/ StartRemote(p)
      PROVE  CommandMoves /\ HttpMoves /\ PipeMoves
  <2>1. Observe(p)
    BY <1>6 DEF Start, StartRemote
  <2> QED BY <2>1 DEF Observe
<1>7. ASSUME NEW p \in Participants, Observed(p) \/ Acted(p) \/ ActByModel(p) \/ ActRemotely(p)
      PROVE  UNCHANGED <<pipeVars, httpVars, commandVars>>
  BY <1>7 DEF Observed, Acted, ActByModel, ActRemotely
<1>9. CASE Models \/ Abandon \/ Advance
  BY <1>9 DEF Models, Abandon, Advance
<1>8. ASSUME NEW p \in Participants, ActByCommand(p)
      PROVE  CommandMoves /\ HttpMoves /\ PipeMoves
  BY <1>8 DEF ActByCommand
<1> QED BY <1>1, <1>2, <1>3, <1>4, <1>5, <1>6, <1>7, <1>8, <1>9 DEF Next

LEMMA CompositionStep ==
  CompositionInv /\ [Next]_vars => CompositionInv' /\ Pipe!TakesOwnAnswer
<1> SUFFICES ASSUME CompositionInv, [Next]_vars PROVE CompositionInv' /\ Pipe!TakesOwnAnswer
  OBVIOUS
<1>0. CommandInv /\ HttpInv /\ PipeInv /\ CommandMoves /\ HttpMoves /\ PipeMoves
  BY PartsMove DEF CompositionInv
<1>1. CommandInv'
  BY <1>0, CommandStep, CommandUnchanged DEF CommandMoves
<1>2. HttpInv'
  BY <1>0, HttpStep, HttpUnchanged DEF HttpMoves
<1>3. PipeInv' /\ Pipe!TakesOwnAnswer
  BY <1>0, PipeStep, PipeUnchanged DEF PipeMoves
<1> QED BY <1>1, <1>2, <1>3 DEF CompositionInv

LEMMA CompositionHolds == Spec => []CompositionInv
BY CompositionInit, CompositionStep, PTL DEF Spec

(* However the processes of a command's group die, linger or print, none   *)
(* of them is left once its call has ended (_subprocess.py:                *)
(* terminate_tree, called by every way out of CommandAgent).               *)
THEOREM NoProgramSurvives == Spec => []NoProgramOutlivesItsCall
<1>1. CompositionInv => NoProgramOutlivesItsCall
  BY DEF CompositionInv, CommandInv
<1> QED BY <1>1, CompositionHolds, PTL

(* A caller behind the pipe takes the answer to its own request or, of a   *)
(* closed process, the one left by the call that closed it, and a caller   *)
(* behind HTTP its own receipt, for any number of callers, requests and    *)
(* stray lines (process.py and remote.py: _call).                          *)
THEOREM AnswersArePaired == Spec => AnswersMatchRequests
<1>1. CompositionInv /\ [Next]_vars => [Pipe!TakesOwnAnswer /\ Http!TakesOwnReceipt']_vars
  BY CompositionStep DEF CompositionInv, HttpInv
<1> QED BY <1>1, CompositionHolds, PTL DEF Spec, AnswersMatchRequests

(***************************************************************************)
(* The evidence of model calls: whatever is written is written by a step   *)
(* that has just compared its context with the members of that moment.     *)
(***************************************************************************)
EvidenceLogs ==
  /\ evidence = [p \in Participants |-> evidence[p]]
  /\ \A p \in Participants : \E S : evidence[p] \in Seq(S)

\* The calls a step writes about, and that they are of a present authority.
Written ==
  {Last(evidence'[p]).call : p \in {q \in Participants : evidence'[q] # evidence[q]}}
    \cup {a.call : a \in artifacts' \ artifacts}
WritesAreCurrent == \A call \in Written : Current(AuthorityOf(call.work))
NothingWritten == UNCHANGED <<artifacts, evidence>>

LEMMA PermittedCallIsCurrent ==
  ASSUME NEW work, NEW action, NEW id, Permits(AuthorityOf(work), action)
  PROVE  Current(AuthorityOf(CallId(work, id).work))
BY DEF Permits, CallId

LEMMA Logged ==
  ASSUME NEW S, NEW s \in Seq(S), NEW e
  PROVE  /\ Append(s, e) \in Seq(S \cup {e}) /\ Last(Append(s, e)) = e
<1>1. s \in Seq(S \cup {e}) /\ e \in S \cup {e}
  OBVIOUS
<1> QED BY <1>1, Grown DEF Last

LEMMA UnwrittenKeeps == EvidenceLogs /\ NothingWritten => EvidenceLogs' /\ WritesAreCurrent
BY DEF EvidenceLogs, NothingWritten, WritesAreCurrent, Written

LEMMA ArtifactIsCurrent ==
  ASSUME EvidenceLogs, UNCHANGED evidence, NEW call, Current(AuthorityOf(call.work)),
         NEW purpose, NEW size,
         artifacts' = artifacts \cup {[call |-> call, purpose |-> purpose, size |-> size]}
  PROVE  EvidenceLogs' /\ WritesAreCurrent
<1>1. Written \subseteq {call}
  BY DEF Written
<1> QED BY <1>1 DEF EvidenceLogs, WritesAreCurrent

LEMMA RecordIsCurrent ==
  ASSUME EvidenceLogs, NEW work \in Works, NEW kind, NEW action, NEW next,
         Record(work, kind, action, next)
  PROVE  EvidenceLogs' /\ WritesAreCurrent
<1> DEFINE p == work.participant
           entry == [kind |-> kind, call |-> CallId(work, inference[work].id)]
<1>0. p \in Participants
  BY DEF Works
<1>1. CASE ~Permits(AuthorityOf(work), action)
  <2>1. NothingWritten
    BY <1>1 DEF Record, NothingWritten
  <2> QED BY <2>1, UnwrittenKeeps
<1>2. CASE Permits(AuthorityOf(work), action)
  <2>1. evidence' = [evidence EXCEPT ![p] = Append(evidence[p], entry)] /\ UNCHANGED artifacts
    BY <1>2 DEF Record
  <2>2. PICK S : evidence[p] \in Seq(S)
    BY <1>0 DEF EvidenceLogs
  <2>3. Append(evidence[p], entry) \in Seq(S \cup {entry}) /\ Last(Append(evidence[p], entry)) = entry
    BY <2>2, Logged
  <2> HIDE DEF entry, p
  <2>4. /\ evidence'[p] = Append(evidence[p], entry)
        /\ \A q \in Participants \ {p} : evidence'[q] = evidence[q]
        /\ evidence' = [q \in Participants |-> evidence'[q]]
    BY <1>0, <2>1 DEF EvidenceLogs
  <2>5. EvidenceLogs'
    BY <1>0, <2>3, <2>4 DEF EvidenceLogs
  <2>6. Written \subseteq {entry.call}
    BY <2>1, <2>3, <2>4 DEF Written
  <2>7. entry.call = CallId(work, inference[work].id)
    BY DEF entry
  <2> QED BY <1>2, <2>5, <2>6, <2>7, PermittedCallIsCurrent DEF WritesAreCurrent
<1> QED BY <1>1, <1>2

LEMMA InferenceWrites ==
  ASSUME EvidenceLogs, NEW work \in Works, InferenceStep(work)
  PROVE  EvidenceLogs' /\ WritesAreCurrent
<1>1. CASE Call(work) \/ Break(work)
  BY <1>1, UnwrittenKeeps DEF Call, Break, NothingWritten
<1>2. CASE Requested(work) \/ Failed(work) \/ Responded(work)
  BY <1>2, RecordIsCurrent DEF Requested, Failed, Responded
<1>3. ASSUME NEW purpose \in {"request", "response"}, Charge(work, purpose)
      PROVE  EvidenceLogs' /\ WritesAreCurrent
  BY <1>3, UnwrittenKeeps DEF Charge, NothingWritten
<1>4. ASSUME NEW purpose \in {"request", "response"}, Store(work, purpose)
      PROVE  EvidenceLogs' /\ WritesAreCurrent
  <2>1. CASE UNCHANGED artifacts
    BY <1>4, <2>1, UnwrittenKeeps DEF Store, NothingWritten
  <2>2. CASE ~UNCHANGED artifacts
    <3>1. /\ UNCHANGED evidence /\ Permits(AuthorityOf(work), "artifact.write")
          /\ artifacts' = artifacts \cup {[call |-> CallId(work, inference[work].id),
                                           purpose |-> purpose, size |-> inference[work].size]}
      BY <1>4, <2>2 DEF Store
    <3>2. Current(AuthorityOf(CallId(work, inference[work].id).work))
      BY <3>1, PermittedCallIsCurrent
    <3> QED BY <3>1, <3>2, ArtifactIsCurrent
  <2> QED BY <2>1, <2>2
<1> QED BY <1>1, <1>2, <1>3, <1>4 DEF InferenceStep

LEMMA UploadIsCurrent ==
  ASSUME EvidenceLogs, NEW p \in Participants, Upload(p)
  PROVE  EvidenceLogs' /\ WritesAreCurrent
<1>1. CASE ~Permits(remote[p], "artifact.write")
  BY <1>1, UnwrittenKeeps DEF Upload, NothingWritten
<1>2. CASE Permits(remote[p], "artifact.write")
  <2> DEFINE call == CallId(Work(remote[p].participant, 0, remote[p].generation), 0)
  <2>1. PICK size \in Sizes :
          artifacts' = artifacts \cup {[call |-> call, purpose |-> "upload", size |-> size]}
    BY <1>2 DEF Upload
  <2>2. UNCHANGED evidence
    BY DEF Upload
  <2>3. Current(AuthorityOf(call.work))
    BY <1>2 DEF Permits, Current, AuthorityOf, Context, CallId, Work
  <2> HIDE DEF call
  <2> QED BY <2>1, <2>2, <2>3, ArtifactIsCurrent
<1> QED BY <1>1, <1>2

LEMMA WritesStep == EvidenceLogs /\ [Next]_vars => EvidenceLogs' /\ WritesAreCurrent
<1> SUFFICES ASSUME EvidenceLogs, [Next]_vars PROVE EvidenceLogs' /\ WritesAreCurrent
  OBVIOUS
<1>1. CASE UNCHANGED vars \/ Authority \/ Environment \/ Commands \/ Dispatch \/ Abandon \/ Advance
  BY <1>1, UnwrittenKeeps
     DEF vars, inferenceVars, NothingWritten, Authority, Environment, PipeOnly, Commands,
         Dispatch, Abandon, Advance, Resolve
<1>2. ASSUME NEW p \in Participants,
             \/ Start(p) \/ StartRemote(p) \/ Observed(p) \/ Acted(p)
             \/ ActByCommand(p) \/ ActByModel(p)
      PROVE  NothingWritten
  BY <1>2 DEF Start, StartRemote, Observed, Acted, ActByCommand, ActByModel, Invoke,
              inferenceVars, NothingWritten
<1>3. CASE Models
  BY <1>3, InferenceWrites DEF Models
<1>4. ASSUME NEW p \in Participants, ActRemotely(p) PROVE EvidenceLogs' /\ WritesAreCurrent
  BY <1>4, UploadIsCurrent, UnwrittenKeeps DEF ActRemotely, NothingWritten
<1> QED BY <1>1, <1>2, <1>3, <1>4, UnwrittenKeeps DEF Next

(* Nothing is recorded or stored under an authority that has since been    *)
(* transferred, for any number of participants, calls and transfers        *)
(* (store.py: environment, programs.py: InstrumentedModel.call).           *)
THEOREM WritesAreUnderCurrentAuthority == Spec => AuthorityIsCurrent
<1>1. Init => EvidenceLogs
  BY DEF Init, InferenceInit, EvidenceLogs
<1>2. WritesAreCurrent <=>
        (\A call \in {Last(evidence'[p]).call : p \in {q \in Participants : evidence'[q] # evidence[q]}}
                     \cup {a.call : a \in artifacts' \ artifacts} :
           Current(AuthorityOf(call.work)))
  BY DEF WritesAreCurrent, Written
<1>3. EvidenceLogs /\ [Next]_vars => EvidenceLogs' /\ [WritesAreCurrent]_inferenceVars
  BY WritesStep
<1> QED BY <1>1, <1>2, <1>3, PTL DEF Spec, AuthorityIsCurrent

LEMMA SizesAreSums ==
  ASSUME NEW A, IsFiniteSet(A)
  PROVE  MapThenSumSet(LAMBDA a : a.size, A) = SumFunctionOnSet([a \in A |-> a.size], A)
<1> DEFINE f == [a \in A |-> a.size]
           Adds(g) ==
             g = [s \in SUBSET A |-> IF s = {} THEN 0 ELSE FirstOf(s).size + g[s \ {FirstOf(s)}]]
           h == CHOOSE g : Adds(g)
<1>1. MapThenSumSet(LAMBDA a : a.size, A) = h[A]
  BY DEF MapThenSumSet, MapThenFoldSet, FirstOf
<1>2. \A s \in SUBSET A : s # {} => f[FirstOf(s)] = FirstOf(s).size
  BY FirstOfIsIn
<1> HIDE DEF f
<1>3. \A g : Adds(g) <=> Sums(g, f, A)
  BY <1>2 DEF Sums
<1>4. \E g : Sums(g, f, A)
  BY SumsExist
<1>5. \E g : Adds(g)
  BY <1>3, <1>4
<1> HIDE DEF Adds
<1>6. Adds(h)
  BY <1>5
<1>7. Sums(h, f, A)
  BY <1>3, <1>6
<1> HIDE DEF h
<1>8. SumFunctionOnSet(f, A) = h[A]
  BY <1>7, SumIsComputed
<1> QED BY <1>1, <1>8 DEF f

LEMMA SizesAreNat == {0} \cup Sizes \subseteq Nat
BY InferenceAssumption

LEMMA LargestSize == Max(Sizes) \in Nat /\ \A size \in Sizes : size <= Max(Sizes)
<1>1. \E m \in Sizes : \A x \in Sizes : m >= x
  BY InferenceAssumption, LargestNumber
<1>2. Max(Sizes) \in Sizes /\ \A x \in Sizes : Max(Sizes) >= x
  BY <1>1 DEF Max
<1> QED BY <1>2, InferenceAssumption

\* What a set of artifacts amounts to, and that a part of it is no more.
LEMMA SizesOfPart ==
  ASSUME NEW A, IsFiniteSet(A), \A a \in A : a.size \in Nat, NEW B \in SUBSET A
  PROVE  /\ MapThenSumSet(LAMBDA a : a.size, A) \in Nat
         /\ MapThenSumSet(LAMBDA a : a.size, B) \in Nat
         /\ MapThenSumSet(LAMBDA a : a.size, B) <= MapThenSumSet(LAMBDA a : a.size, A)
<1> DEFINE f == [a \in A |-> a.size]
           g == [a \in B |-> a.size]
<1>1. IsFiniteSet(B) /\ \A a \in A : f[a] \in Nat
  BY FS_Subset
<1>2. \A a \in B : f[a] = g[a]
  OBVIOUS
<1>3. /\ MapThenSumSet(LAMBDA a : a.size, A) = SumFunctionOnSet(f, A)
      /\ MapThenSumSet(LAMBDA a : a.size, B) = SumFunctionOnSet(g, B)
  BY <1>1, SizesAreSums
<1> HIDE DEF f, g
<1>4. SumFunctionOnSet(f, B) = SumFunctionOnSet(g, B)
  BY <1>1, <1>2, SumSame
<1>5. /\ SumFunctionOnSet(f, B) \in Nat /\ SumFunctionOnSet(f, A) \in Nat
      /\ SumFunctionOnSet(f, B) <= SumFunctionOnSet(f, A)
  BY <1>1, SumOfPart
<1> QED BY <1>3, <1>4, <1>5

(***************************************************************************)
(* The model calls of one work, step by step.  What a charge reads is a    *)
(* sum over whatever the works of the session have stored.                 *)
(***************************************************************************)
ModelRun == [step : Steps, ordinal : Nat, id : Nat, size : {0} \cup Sizes]
Entries ==
  [kind : {"request", "response", "failure"}, call : [work : Works, ordinal : Nat]]

RunsTyped ==
  /\ inference \in [Works -> ModelRun] /\ overlap \in Nat
  /\ evidence \in [Participants -> Seq(Entries)]
  /\ IsFiniteSet(artifacts) /\ \A a \in artifacts : a.size \in Nat

\* A call is the last whose ordinal its work has taken.
CallsNumbered ==
  \A w \in Works :
    /\ inference[w].step = "none" => inference[w].ordinal = 0
    /\ inference[w].step \notin {"none", "free"} => inference[w].ordinal = inference[w].id + 1
CallsInv == RunsTyped /\ CallsNumbered

ThisCall(w) == CallId(w, inference[w].id)
AfterRequest == {"response", Storing.response, Recording.response}
Details == {a \in artifacts : a.purpose # "upload"}

LEMMA StepsAreApart ==
  /\ BeforeRequest \cap AfterRequest = {} /\ "response" \in AfterRequest
  /\ {"none", "free"} \cap (BeforeRequest \cup AfterRequest) = {}
  /\ BeforeRequest \cup AfterRequest \subseteq Steps /\ {"none", "free"} \subseteq Steps
BY DEF BeforeRequest, AfterRequest, Storing, Recording, Steps

\* What a step is to one work and to the log.
SameCall(w) == inference'[w].id = inference[w].id /\ inference'[w].ordinal = inference[w].ordinal
Logs(w, kind) ==
  evidence' = [evidence EXCEPT ![w.participant] = Append(@, [kind |-> kind, call |-> ThisCall(w)])]

Idles(w) ==
  /\ UNCHANGED evidence /\ inference'[w].step = "free"
  /\ inference'[w].ordinal = inference[w].ordinal
Begins(w) ==
  /\ UNCHANGED evidence /\ inference[w].step = "free" /\ inference'[w].step = "request"
  /\ inference'[w].id = inference[w].ordinal /\ inference'[w].ordinal = inference[w].ordinal + 1
Proceeds(w) ==
  /\ UNCHANGED evidence /\ SameCall(w)
  /\ \/ inference[w].step \in BeforeRequest /\ inference'[w].step \in BeforeRequest
     \/ inference[w].step \in AfterRequest /\ inference'[w].step \in AfterRequest
Requests(w) ==
  /\ Logs(w, "request") /\ SameCall(w)
  /\ inference[w].step \in BeforeRequest /\ inference'[w].step = "response"
Finishes(w) ==
  /\ \E kind \in {"response", "failure"} : Logs(w, kind)
  /\ inference[w].step \in AfterRequest /\ inference'[w].step = "free"
  /\ inference'[w].ordinal = inference[w].ordinal
WorkMoves(w) == Idles(w) \/ Begins(w) \/ Proceeds(w) \/ Requests(w) \/ Finishes(w)

\* What a step is to the charges and to the details stored.
Keeps(w) == Details' = Details /\ overlap' = overlap /\ Pending' = Pending \ {w}
Charges(w) ==
  /\ Details' = Details /\ w \notin Pending /\ Pending' = Pending \cup {w}
  /\ Spent + inference'[w].size <= Budget
  /\ overlap' = Max({overlap, Cardinality(Pending) + 1})
Stores(w) ==
  /\ w \in Pending /\ Pending' = Pending \ {w} /\ overlap' = overlap
  /\ \E a : /\ Details' = Details \cup {a}
            /\ a.size = inference[w].size /\ a.call = ThisCall(w)
            /\ a.purpose = "response" => inference[w].step \in AfterRequest
WorkCharges(w) == Keeps(w) \/ Charges(w) \/ Stores(w)

MovesOnly(w) ==
  /\ RunsTyped' /\ WorkMoves(w) /\ WorkCharges(w)
  /\ \A v \in Works \ {w} : inference'[v] = inference[v]

\* Whatever else happens leaves calls, logs and details as they are.
Elsewhere ==
  /\ RunsTyped' /\ UNCHANGED <<inference, evidence, overlap>>
  /\ Details' = Details

\* A run in every of its parts.
RunIs(r, step, ordinal, id, size) ==
  /\ r \in ModelRun
  /\ r.step = step /\ r.ordinal = ordinal /\ r.id = id /\ r.size = size

LEMMA StepChanges ==
  ASSUME NEW q \in ModelRun, NEW step \in Steps
  PROVE  RunIs([q EXCEPT !.step = step], step, q.ordinal, q.id, q.size)
BY DEF ModelRun, RunIs

LEMMA ChargeChanges ==
  ASSUME NEW q \in ModelRun, NEW step \in Steps, NEW size \in {0} \cup Sizes
  PROVE  RunIs([q EXCEPT !.step = step, !.size = size], step, q.ordinal, q.id, size)
BY DEF ModelRun, RunIs

LEMMA ReturnChanges ==
  ASSUME NEW q \in ModelRun
  PROVE  RunIs(Returned(q), "free", q.ordinal, 0, 0)
BY DEF ModelRun, RunIs, Returned, Steps

LEMMA CallChanges ==
  ASSUME NEW q \in ModelRun
  PROVE  RunIs([q EXCEPT !.step = "request", !.id = q.ordinal, !.ordinal = NextOrdinal(q)],
               "request", q.ordinal + 1, q.ordinal, q.size)
<1>1. NextOrdinal(q) = q.ordinal + 1 /\ q.ordinal \in Nat /\ q.ordinal + 1 \in Nat /\ "request" \in Steps
  BY DEF ModelRun, NextOrdinal, Steps
<1> QED BY <1>1 DEF ModelRun, RunIs

\* The step of a work and of no other.
LEMMA OneRun ==
  ASSUME RunsTyped, NEW w \in Works, NEW r, NEW step, NEW ordinal, NEW id, NEW size,
         RunIs(r, step, ordinal, id, size), inference' = [inference EXCEPT ![w] = r]
  PROVE  /\ inference' \in [Works -> ModelRun]
         /\ RunIs(inference'[w], step, ordinal, id, size)
         /\ \A v \in Works \ {w} : inference'[v] = inference[v]
BY DEF RunsTyped, RunIs

LEMMA WorksAreFinite == IsFiniteSet(Works) /\ IsFiniteSet(Pending) /\ Cardinality(Pending) \in Nat
<1> DEFINE D == (Participants \X (0..MaxRevision)) \X Generations
           f == [x \in D |-> Work(x[1][1], x[1][2], x[2])]
<1>1. IsFiniteSet(D)
  <2>1. IsFiniteSet(0..MaxRevision) /\ IsFiniteSet(Generations)
    BY InferenceAssumption, AccessAssumption, FS_Interval DEF Generations
  <2>2. IsFiniteSet(Participants \X (0..MaxRevision))
    BY <2>1, InferenceAssumption, FS_Product
  <2> QED BY <2>1, <2>2, FS_Product
<1>2. ASSUME NEW w \in Works PROVE \E x \in D : f[x] = w
  <2>1. <<<<w.participant, w.revision>>, w.generation>> \in D
    BY DEF Works
  <2>2. f[<<<<w.participant, w.revision>>, w.generation>>] = w
    BY <2>1 DEF Work, Works
  <2> QED BY <2>1, <2>2
<1>3. f \in [D -> Works]
  BY DEF Work, Works
<1>4. f \in Surjection(D, Works)
  <2> HIDE DEF f, D
  <2> QED BY <1>2, <1>3 DEF Surjection
<1>5. IsFiniteSet(Works)
  <2> HIDE DEF f, D
  <2> QED BY <1>1, <1>4, FS_Surjection
<1>6. IsFiniteSet(Pending)
  BY <1>5, FS_Subset DEF Pending
<1> QED BY <1>5, <1>6, FS_CardinalityType

LEMMA LargerOf ==
  ASSUME NEW m \in Nat, NEW n \in Nat
  PROVE  Max({m, n}) \in Nat /\ m <= Max({m, n}) /\ n <= Max({m, n})
<1>1. IsFiniteSet({m, n}) /\ {m, n} \in SUBSET Nat /\ {m, n} # {}
  <2>1. IsFiniteSet({m}) /\ {m, n} = {m} \cup {n}
    BY FS_Singleton
  <2>2. IsFiniteSet({m, n})
    BY <2>1, FS_AddElement
  <2> QED BY <2>2
<1>2. Max({m, n}) \in {m, n} /\ \A i \in {m, n} : Max({m, n}) >= i
  BY <1>1, MaxIsLargest
<1> QED BY <1>2

LEMMA PendingChanges ==
  ASSUME NEW w \in Works, \A v \in Works \ {w} : inference'[v] = inference[v]
  PROVE  /\ inference'[w].step \in {Storing.request, Storing.response} => Pending' = Pending \cup {w}
         /\ inference'[w].step \notin {Storing.request, Storing.response} => Pending' = Pending \ {w}
BY DEF Pending

LEMMA SameLog ==
  ASSUME RunsTyped, inference' \in [Works -> ModelRun], UNCHANGED <<artifacts, evidence>>, overlap' \in Nat
  PROVE  RunsTyped' /\ Details' = Details
BY DEF RunsTyped, Details

LEMMA CallMoves == ASSUME CallsInv, NEW w \in Works, Call(w) PROVE MovesOnly(w)
<1> DEFINE q == inference[w]
           r == [q EXCEPT !.step = "request", !.id = q.ordinal, !.ordinal = NextOrdinal(q)]
<1>0. RunsTyped /\ q \in ModelRun
  BY DEF CallsInv, RunsTyped
<1>1. /\ inference' = [inference EXCEPT ![w] = r] /\ q.step = "free"
      /\ UNCHANGED <<overlap, artifacts, evidence>>
  BY DEF Call
<1>2. RunIs(r, "request", q.ordinal + 1, q.ordinal, q.size)
  BY <1>0, CallChanges
<1> HIDE DEF r
<1>3. /\ inference' \in [Works -> ModelRun]
      /\ RunIs(inference'[w], "request", q.ordinal + 1, q.ordinal, q.size)
      /\ \A v \in Works \ {w} : inference'[v] = inference[v]
  BY <1>0, <1>1, <1>2, OneRun
<1>4. RunsTyped' /\ Details' = Details
  BY <1>0, <1>1, <1>3, SameLog DEF RunsTyped
<1>5. Begins(w)
  BY <1>1, <1>3 DEF Begins, RunIs
<1>6. Pending' = Pending \ {w}
  <2>1. inference'[w].step \notin {Storing.request, Storing.response}
    BY <1>3 DEF RunIs, Storing
  <2> QED BY <1>3, <2>1, PendingChanges
<1> QED BY <1>1, <1>3, <1>4, <1>5, <1>6 DEF MovesOnly, WorkMoves, WorkCharges, Keeps

\* A call that ends without a record.
LEMMA EndMoves ==
  ASSUME CallsInv, NEW w \in Works,
         inference' = [inference EXCEPT ![w] = Returned(inference[w])],
         UNCHANGED <<overlap, artifacts, evidence>>
  PROVE  MovesOnly(w)
<1> DEFINE q == inference[w]
<1>0. RunsTyped /\ q \in ModelRun
  BY DEF CallsInv, RunsTyped
<1>1. RunIs(Returned(q), "free", q.ordinal, 0, 0)
  BY <1>0, ReturnChanges
<1>2. /\ inference' \in [Works -> ModelRun]
      /\ RunIs(inference'[w], "free", q.ordinal, 0, 0)
      /\ \A v \in Works \ {w} : inference'[v] = inference[v]
  BY <1>0, <1>1, OneRun
<1>3. RunsTyped' /\ Details' = Details
  BY <1>0, <1>2, SameLog DEF RunsTyped
<1>4. Idles(w)
  BY <1>2 DEF Idles, RunIs
<1>5. Pending' = Pending \ {w}
  <2>1. inference'[w].step \notin {Storing.request, Storing.response}
    BY <1>2 DEF RunIs, Storing
  <2> QED BY <1>2, <2>1, PendingChanges
<1> QED BY <1>2, <1>3, <1>4, <1>5 DEF MovesOnly, WorkMoves, WorkCharges, Keeps

LEMMA InvokeMoves ==
  ASSUME CallsInv, NEW p \in Participants, Invoke(p)
  PROVE  Elsewhere \/ \E w \in Works : MovesOnly(w)
<1>0. PICK w : /\ w = Work(p, revision, members[p].generation) /\ inference[w].step = "none"
               /\ inference' = [inference EXCEPT ![w] = Outside("free")]
               /\ UNCHANGED <<overlap, artifacts, evidence>>
  BY DEF Invoke
<1>1. RunsTyped /\ CallsNumbered
  BY DEF CallsInv
<1>2. CASE w \notin Works
  <2>1. inference' = inference
    BY <1>0, <1>1, <1>2 DEF RunsTyped
  <2> QED BY <1>0, <1>1, <2>1, SameLog DEF Elsewhere, RunsTyped
<1>3. CASE w \in Works
  <2>1. inference[w].ordinal = 0
    BY <1>0, <1>1, <1>3 DEF CallsNumbered
  <2>2. RunIs(Outside("free"), "free", 0, 0, 0)
    BY DEF RunIs, Outside, ModelRun, Steps
  <2>3. /\ inference' \in [Works -> ModelRun]
        /\ RunIs(inference'[w], "free", 0, 0, 0)
        /\ \A v \in Works \ {w} : inference'[v] = inference[v]
    BY <1>0, <1>1, <1>3, <2>2, OneRun
  <2>4. RunsTyped' /\ Details' = Details
    BY <1>0, <1>1, <2>3, SameLog DEF RunsTyped
  <2>5. Idles(w)
    BY <1>0, <2>1, <2>3 DEF Idles, RunIs
  <2>6. Pending' = Pending \ {w}
    <3>1. inference'[w].step \notin {Storing.request, Storing.response}
      BY <2>3 DEF RunIs, Storing
    <3> QED BY <1>3, <2>3, <3>1, PendingChanges
  <2> QED BY <1>0, <1>3, <2>3, <2>4, <2>5, <2>6 DEF MovesOnly, WorkMoves, WorkCharges, Keeps
<1> QED BY <1>2, <1>3

\* The step of a call that writes no event, at either side of its request.
LEMMA SidesOfRequest ==
  ASSUME NEW purpose \in {"request", "response"}
  PROVE  /\ Storing[purpose] \in Steps /\ Recording[purpose] \in Steps
         /\ Storing[purpose] \in {Storing.request, Storing.response}
         /\ Recording[purpose] \notin {Storing.request, Storing.response}
         /\ purpose \notin {Storing.request, Storing.response}
         /\ \/ {purpose, Storing[purpose], Recording[purpose]} \subseteq BeforeRequest /\ purpose = "request"
            \/ {purpose, Storing[purpose], Recording[purpose]} \subseteq AfterRequest /\ purpose = "response"
<1>1. CASE purpose = "request"
  BY <1>1 DEF Steps, Storing, Recording, BeforeRequest, AfterRequest
<1>2. CASE purpose = "response"
  BY <1>2 DEF Steps, Storing, Recording, BeforeRequest, AfterRequest
<1> QED BY <1>1, <1>2

LEMMA ChargeMoves ==
  ASSUME CallsInv, NEW w \in Works, NEW purpose \in {"request", "response"}, Charge(w, purpose)
  PROVE  MovesOnly(w)
<1> DEFINE q == inference[w]
<1>0. /\ RunsTyped /\ q \in ModelRun /\ q.step = purpose /\ UNCHANGED <<artifacts, evidence>>
  BY DEF CallsInv, RunsTyped, Charge
<1>1. CASE inference' = [inference EXCEPT ![w] = Returned(q)] /\ UNCHANGED overlap
  BY <1>0, <1>1, EndMoves
<1>2. CASE inference' = [inference EXCEPT ![w] = [q EXCEPT !.step = Recording[purpose]]] /\ UNCHANGED overlap
  <2> DEFINE r == [q EXCEPT !.step = Recording[purpose]]
  <2>1. RunIs(r, Recording[purpose], q.ordinal, q.id, q.size)
    BY <1>0, StepChanges, SidesOfRequest
  <2>2. inference' = [inference EXCEPT ![w] = r]
    BY <1>2
  <2> HIDE DEF r
  <2>3. /\ inference' \in [Works -> ModelRun]
        /\ RunIs(inference'[w], Recording[purpose], q.ordinal, q.id, q.size)
        /\ \A v \in Works \ {w} : inference'[v] = inference[v]
    BY <1>0, <2>1, <2>2, OneRun
  <2>4. RunsTyped' /\ Details' = Details
    BY <1>0, <1>2, <2>3, SameLog DEF RunsTyped
  <2>5. Proceeds(w)
    BY <1>0, <2>3, SidesOfRequest DEF Proceeds, RunIs, SameCall
  <2>6. Pending' = Pending \ {w}
    <3>1. inference'[w].step \notin {Storing.request, Storing.response}
      BY <2>3, SidesOfRequest DEF RunIs
    <3> QED BY <2>3, <3>1, PendingChanges
  <2> QED BY <1>2, <2>3, <2>4, <2>5, <2>6 DEF MovesOnly, WorkMoves, WorkCharges, Keeps
<1>3. ASSUME NEW size \in Sizes, Spent + size <= Budget,
             inference' = [inference EXCEPT ![w] = [q EXCEPT !.step = Storing[purpose], !.size = size]],
             overlap' = Max({overlap, Cardinality(Pending) + 1}), overlap' \in Nat
      PROVE  MovesOnly(w)
  <2> DEFINE r == [q EXCEPT !.step = Storing[purpose], !.size = size]
  <2>1. RunIs(r, Storing[purpose], q.ordinal, q.id, size)
    BY <1>0, ChargeChanges, SidesOfRequest
  <2>2. inference' = [inference EXCEPT ![w] = r]
    BY <1>3
  <2> HIDE DEF r
  <2>3. /\ inference' \in [Works -> ModelRun]
        /\ RunIs(inference'[w], Storing[purpose], q.ordinal, q.id, size)
        /\ \A v \in Works \ {w} : inference'[v] = inference[v]
    BY <1>0, <2>1, <2>2, OneRun
  <2>4. RunsTyped' /\ Details' = Details
    BY <1>0, <1>3, <2>3, SameLog DEF RunsTyped
  <2>5. Proceeds(w)
    BY <1>0, <2>3, SidesOfRequest DEF Proceeds, RunIs, SameCall
  <2>6. Pending' = Pending \cup {w}
    <3>1. inference'[w].step \in {Storing.request, Storing.response}
      BY <2>3, SidesOfRequest DEF RunIs
    <3> QED BY <2>3, <3>1, PendingChanges
  <2>7. w \notin Pending
    BY <1>0, SidesOfRequest DEF Pending
  <2>8. inference'[w].size = size
    BY <2>3 DEF RunIs
  <2> QED BY <1>3, <2>3, <2>4, <2>5, <2>6, <2>7, <2>8 DEF MovesOnly, WorkMoves, WorkCharges, Charges
<1>4. Max({overlap, Cardinality(Pending) + 1}) \in Nat
  <2>1. overlap \in Nat /\ Cardinality(Pending) + 1 \in Nat
    BY <1>0, WorksAreFinite DEF RunsTyped
  <2> QED BY <2>1, LargerOf
<1>5. \/ inference' = [inference EXCEPT ![w] = [q EXCEPT !.step = Recording[purpose]]] /\ UNCHANGED overlap
      \/ inference' = [inference EXCEPT ![w] = Returned(q)] /\ UNCHANGED overlap
      \/ \E size \in Sizes :
           /\ Spent + size <= Budget
           /\ inference' = [inference EXCEPT ![w] = [q EXCEPT !.step = Storing[purpose], !.size = size]]
           /\ overlap' = Max({overlap, Cardinality(Pending) + 1})
  BY DEF Charge, Charged
<1> QED BY <1>1, <1>2, <1>3, <1>4, <1>5

\* The detail is stored; the call goes on to its event or breaks off.
LEMMA StoredMoves ==
  ASSUME CallsInv, NEW w \in Works, NEW purpose \in {"request", "response"},
         inference[w].step = Storing[purpose], UNCHANGED <<overlap, evidence>>,
         artifacts' = artifacts \cup
           {[call |-> ThisCall(w), purpose |-> purpose, size |-> inference[w].size]},
         \/ inference' = [inference EXCEPT ![w] = [inference[w] EXCEPT !.step = Recording[purpose], !.size = 0]]
         \/ inference' = [inference EXCEPT ![w] = Returned(inference[w])]
  PROVE  MovesOnly(w)
<1> DEFINE q == inference[w]
           a == [call |-> ThisCall(w), purpose |-> purpose, size |-> q.size]
<1>0. RunsTyped /\ q \in ModelRun
  BY DEF CallsInv, RunsTyped
<1>1. /\ a.purpose # "upload" /\ a.size = q.size /\ a.size \in Nat /\ a.call = ThisCall(w)
      /\ a.purpose = purpose
  <2>1. q.size \in Nat
    BY <1>0, SizesAreNat DEF ModelRun
  <2> QED BY <2>1
<1> HIDE DEF a
<1>2. artifacts' = artifacts \cup {a}
  BY DEF a
<1>3. Details' = Details \cup {a}
  BY <1>1, <1>2 DEF Details
<1>4. IsFiniteSet(artifacts') /\ \A b \in artifacts' : b.size \in Nat
  BY <1>0, <1>1, <1>2, FS_AddElement DEF RunsTyped
<1>5. w \in Pending
  BY SidesOfRequest DEF Pending
<1>6. a.purpose = "response" => q.step \in AfterRequest
  BY <1>1, SidesOfRequest
<1>7. ASSUME inference' \in [Works -> ModelRun],
             inference'[w].step \notin {Storing.request, Storing.response},
             \A v \in Works \ {w} : inference'[v] = inference[v]
      PROVE  RunsTyped' /\ Stores(w)
  <2>1. RunsTyped'
    BY <1>0, <1>4, <1>7 DEF RunsTyped
  <2>2. Pending' = Pending \ {w}
    BY <1>7, PendingChanges
  <2> QED BY <1>1, <1>3, <1>5, <1>6, <2>1, <2>2 DEF Stores
<1>8. CASE inference' = [inference EXCEPT ![w] = [q EXCEPT !.step = Recording[purpose], !.size = 0]]
  <2> DEFINE r == [q EXCEPT !.step = Recording[purpose], !.size = 0]
  <2>1. RunIs(r, Recording[purpose], q.ordinal, q.id, 0)
    BY <1>0, ChargeChanges, SidesOfRequest
  <2>2. inference' = [inference EXCEPT ![w] = r]
    BY <1>8
  <2> HIDE DEF r
  <2>3. /\ inference' \in [Works -> ModelRun]
        /\ RunIs(inference'[w], Recording[purpose], q.ordinal, q.id, 0)
        /\ \A v \in Works \ {w} : inference'[v] = inference[v]
    BY <1>0, <2>1, <2>2, OneRun
  <2>4. inference'[w].step \notin {Storing.request, Storing.response}
    BY <2>3, SidesOfRequest DEF RunIs
  <2>5. Proceeds(w)
    BY <1>0, <2>3, SidesOfRequest DEF Proceeds, RunIs, SameCall
  <2> QED BY <1>7, <2>3, <2>4, <2>5 DEF MovesOnly, WorkMoves, WorkCharges
<1>9. CASE inference' = [inference EXCEPT ![w] = Returned(q)]
  <2>1. RunIs(Returned(q), "free", q.ordinal, 0, 0)
    BY <1>0, ReturnChanges
  <2>2. /\ inference' \in [Works -> ModelRun]
        /\ RunIs(inference'[w], "free", q.ordinal, 0, 0)
        /\ \A v \in Works \ {w} : inference'[v] = inference[v]
    BY <1>0, <1>9, <2>1, OneRun
  <2>3. inference'[w].step \notin {Storing.request, Storing.response}
    BY <2>2 DEF RunIs, Storing
  <2>4. Idles(w)
    BY <2>2 DEF Idles, RunIs
  <2> QED BY <1>7, <2>2, <2>3, <2>4 DEF MovesOnly, WorkMoves, WorkCharges
<1> QED BY <1>8, <1>9

LEMMA StoreMoves ==
  ASSUME CallsInv, NEW w \in Works, NEW purpose \in {"request", "response"}, Store(w, purpose)
  PROVE  MovesOnly(w)
<1>1. CASE inference' = [inference EXCEPT ![w] = Returned(inference[w])] /\ UNCHANGED artifacts
  BY <1>1, EndMoves DEF Store
<1>2. CASE ~(inference' = [inference EXCEPT ![w] = Returned(inference[w])] /\ UNCHANGED artifacts)
  <2>1. /\ inference[w].step = Storing[purpose] /\ UNCHANGED <<overlap, evidence>>
        /\ artifacts' = artifacts \cup
             {[call |-> ThisCall(w), purpose |-> purpose, size |-> inference[w].size]}
        /\ \/ inference' = [inference EXCEPT ![w] = [inference[w] EXCEPT !.step = Recording[purpose], !.size = 0]]
           \/ inference' = [inference EXCEPT ![w] = Returned(inference[w])]
    BY <1>2 DEF Store, ThisCall
  <2> QED BY <2>1, StoredMoves
<1> QED BY <1>1, <1>2

\* An event is logged and the call moves on.
LEMMA LogTyped ==
  ASSUME RunsTyped, NEW w \in Works, NEW kind \in {"request", "response", "failure"}, Logs(w, kind),
         inference' \in [Works -> ModelRun], UNCHANGED <<overlap, artifacts>>
  PROVE  RunsTyped' /\ Details' = Details
<1> DEFINE p == w.participant
           e == [kind |-> kind, call |-> ThisCall(w)]
<1>1. p \in Participants
  BY DEF Works
<1>2. e \in Entries
  BY DEF Entries, ThisCall, CallId, RunsTyped, ModelRun
<1>3. evidence[p] \in Seq(Entries)
  BY <1>1 DEF RunsTyped
<1>4. evidence' = [evidence EXCEPT ![p] = Append(evidence[p], e)]
  BY DEF Logs
<1> HIDE DEF e, p
<1>5. Append(evidence[p], e) \in Seq(Entries)
  BY <1>2, <1>3, Grown
<1>6. evidence' \in [Participants -> Seq(Entries)]
  BY <1>4, <1>5 DEF RunsTyped
<1> QED BY <1>6 DEF RunsTyped, Details

LEMMA RequestMoves == ASSUME CallsInv, NEW w \in Works, Requested(w) PROVE MovesOnly(w)
<1> DEFINE q == inference[w]
           r == [q EXCEPT !.step = "response"]
<1>0. RunsTyped /\ q \in ModelRun /\ q.step = Recording.request
  BY DEF CallsInv, RunsTyped, Requested
<1>1. CASE ~Permits(AuthorityOf(w), "participant.act")
  BY <1>1, EndMoves DEF Requested, Record
<1>2. CASE Permits(AuthorityOf(w), "participant.act")
  <2>1. /\ Logs(w, "request") /\ inference' = [inference EXCEPT ![w] = r]
        /\ UNCHANGED <<overlap, artifacts>>
    BY <1>2 DEF Requested, Record, Logs, ThisCall
  <2>2. RunIs(r, "response", q.ordinal, q.id, q.size)
    BY <1>0, StepChanges DEF Steps
  <2> HIDE DEF r
  <2>3. /\ inference' \in [Works -> ModelRun]
        /\ RunIs(inference'[w], "response", q.ordinal, q.id, q.size)
        /\ \A v \in Works \ {w} : inference'[v] = inference[v]
    BY <1>0, <2>1, <2>2, OneRun
  <2>4. RunsTyped' /\ Details' = Details
    BY <1>0, <2>1, <2>3, LogTyped
  <2>5. Requests(w)
    BY <1>0, <2>1, <2>3 DEF Requests, RunIs, SameCall, BeforeRequest
  <2>6. Pending' = Pending \ {w}
    <3>1. inference'[w].step \notin {Storing.request, Storing.response}
      BY <2>3 DEF RunIs, Storing
    <3> QED BY <2>3, <3>1, PendingChanges
  <2> QED BY <2>1, <2>3, <2>4, <2>5, <2>6 DEF MovesOnly, WorkMoves, WorkCharges, Keeps
<1> QED BY <1>1, <1>2

LEMMA FinishMoves ==
  ASSUME CallsInv, NEW w \in Works, NEW kind \in {"response", "failure"},
         inference[w].step \in AfterRequest, Record(w, kind, "session.read", Returned(inference[w]))
  PROVE  MovesOnly(w)
<1> DEFINE q == inference[w]
<1>0. RunsTyped /\ q \in ModelRun
  BY DEF CallsInv, RunsTyped
<1>1. CASE ~Permits(AuthorityOf(w), "session.read")
  BY <1>1, EndMoves DEF Record
<1>2. CASE Permits(AuthorityOf(w), "session.read")
  <2>1. /\ Logs(w, kind) /\ inference' = [inference EXCEPT ![w] = Returned(q)]
        /\ UNCHANGED <<overlap, artifacts>>
    BY <1>2 DEF Record, Logs, ThisCall
  <2>2. RunIs(Returned(q), "free", q.ordinal, 0, 0)
    BY <1>0, ReturnChanges
  <2>3. /\ inference' \in [Works -> ModelRun]
        /\ RunIs(inference'[w], "free", q.ordinal, 0, 0)
        /\ \A v \in Works \ {w} : inference'[v] = inference[v]
    BY <1>0, <2>1, <2>2, OneRun
  <2>4. RunsTyped' /\ Details' = Details
    <3>1. kind \in {"request", "response", "failure"}
      OBVIOUS
    <3> QED BY <1>0, <2>1, <2>3, <3>1, LogTyped
  <2>5. Finishes(w)
    BY <2>1, <2>3 DEF Finishes, RunIs
  <2>6. Pending' = Pending \ {w}
    <3>1. inference'[w].step \notin {Storing.request, Storing.response}
      BY <2>3 DEF RunIs, Storing
    <3> QED BY <2>3, <3>1, PendingChanges
  <2> QED BY <2>1, <2>3, <2>4, <2>5, <2>6 DEF MovesOnly, WorkMoves, WorkCharges, Keeps
<1> QED BY <1>1, <1>2

LEMMA InferenceMoves ==
  ASSUME CallsInv, NEW w \in Works, InferenceStep(w)
  PROVE  MovesOnly(w)
<1>1. CASE Failed(w) \/ Responded(w)
  BY <1>1, FinishMoves DEF Failed, Responded, AfterRequest
<1>2. CASE Break(w)
  BY <1>2, EndMoves DEF Break
<1> QED BY <1>1, <1>2, CallMoves, RequestMoves, ChargeMoves, StoreMoves DEF InferenceStep

LEMMA UploadMoves == ASSUME CallsInv, NEW p \in Participants, Upload(p) PROVE Elsewhere
<1>0. RunsTyped /\ UNCHANGED <<inference, overlap, evidence>>
  BY DEF CallsInv, Upload
<1>1. CASE artifacts' = artifacts
  BY <1>0, <1>1 DEF RunsTyped, Details, Elsewhere
<1>2. ASSUME NEW size \in Sizes, NEW call,
             artifacts' = artifacts \cup {[call |-> call, purpose |-> "upload", size |-> size]}
      PROVE  Elsewhere
  <2> DEFINE a == [call |-> call, purpose |-> "upload", size |-> size]
  <2>1. a.purpose = "upload" /\ a.size \in Nat
    BY InferenceAssumption
  <2> HIDE DEF a
  <2>2. artifacts' = artifacts \cup {a}
    BY <1>2 DEF a
  <2>3. IsFiniteSet(artifacts')
    BY <1>0, <2>2, FS_AddElement DEF RunsTyped
  <2> QED BY <1>0, <2>1, <2>2, <2>3 DEF RunsTyped, Details, Elsewhere
<1> QED BY <1>1, <1>2 DEF Upload

LEMMA StepMoves ==
  ASSUME CallsInv, [Next]_vars
  PROVE  Elsewhere \/ \E w \in Works : MovesOnly(w)
<1>0. RunsTyped
  BY DEF CallsInv
<1>1. ASSUME UNCHANGED <<inference, overlap, artifacts, evidence>> PROVE Elsewhere
  BY <1>0, <1>1 DEF RunsTyped, Details, Elsewhere
<1>2. CASE UNCHANGED vars \/ Environment \/ Commands \/ Dispatch \/ Abandon
  BY <1>1, <1>2 DEF vars, inferenceVars, Environment, PipeOnly, Commands, Dispatch, Abandon
<1>3. CASE Authority \/ Advance
  BY <1>1, <1>3 DEF Authority, Advance, Resolve
<1>4. ASSUME NEW p \in Participants,
             Start(p) \/ StartRemote(p) \/ Observed(p) \/ Acted(p) \/ ActByCommand(p)
      PROVE  Elsewhere
  BY <1>1, <1>4 DEF Start, StartRemote, Observed, Acted, ActByCommand, inferenceVars
<1>5. ASSUME NEW p \in Participants, ActByModel(p)
      PROVE  Elsewhere \/ \E w \in Works : MovesOnly(w)
  <2>1. Invoke(p)
    BY <1>5 DEF ActByModel
  <2> QED BY <2>1, InvokeMoves
<1>6. ASSUME NEW p \in Participants, ActRemotely(p) PROVE Elsewhere
  <2>1. Upload(p) \/ UNCHANGED <<inference, overlap, artifacts, evidence>>
    BY <1>6 DEF ActRemotely
  <2> QED BY <1>1, <2>1, UploadMoves
<1>7. CASE Models
  <2>1. PICK w \in Works : InferenceStep(w)
    BY <1>7 DEF Models
  <2> QED BY <2>1, InferenceMoves
<1> QED BY <1>2, <1>3, <1>4, <1>5, <1>6, <1>7 DEF Next

LEMMA CallsInit == Init => CallsInv
<1> SUFFICES ASSUME Init PROVE CallsInv
  OBVIOUS
<1>1. /\ inference = [w \in Works |-> [step |-> "none", ordinal |-> 0, id |-> 0, size |-> 0]]
      /\ overlap = 0 /\ artifacts = {} /\ evidence = [p \in Participants |-> <<>>]
  BY DEF Init, InferenceInit, Outside
<1>2. RunsTyped
  <2>1. inference \in [Works -> ModelRun]
    BY <1>1 DEF ModelRun, Steps
  <2> QED BY <1>1, <2>1, FS_EmptySet DEF RunsTyped
<1> QED BY <1>1, <1>2 DEF CallsInv, CallsNumbered

LEMMA CallsStep == ASSUME CallsInv, [Next]_vars PROVE CallsInv'
<1>0. RunsTyped /\ CallsNumbered
  BY DEF CallsInv
<1>1. CASE Elsewhere
  BY <1>0, <1>1 DEF Elsewhere, CallsInv, CallsNumbered
<1>2. ASSUME NEW w \in Works, MovesOnly(w) PROVE CallsInv'
  <2>1. RunsTyped' /\ WorkMoves(w) /\ \A v \in Works \ {w} : inference'[v] = inference[v]
    BY <1>2 DEF MovesOnly
  <2>2. /\ inference'[w].step # "none"
        /\ inference'[w].step # "free" => inference'[w].ordinal = inference'[w].id + 1
    <3>1. CASE Idles(w) \/ Finishes(w)
      BY <3>1 DEF Idles, Finishes
    <3>2. CASE Begins(w)
      BY <3>2 DEF Begins
    <3>3. CASE Proceeds(w) \/ Requests(w)
      <4>1. SameCall(w) /\ inference[w].step \notin {"none", "free"} /\ inference'[w].step \notin {"none", "free"}
        BY <3>3, StepsAreApart DEF Proceeds, Requests
      <4> QED BY <1>0, <4>1 DEF SameCall, CallsNumbered
    <3> QED BY <2>1, <3>1, <3>2, <3>3 DEF WorkMoves
  <2>3. CallsNumbered'
    BY <1>0, <2>1, <2>2 DEF CallsNumbered
  <2> QED BY <2>1, <2>3 DEF CallsInv
<1> QED BY <1>1, <1>2, StepMoves

(***************************************************************************)
(* The log pairs up.  Its entries are of earlier calls than the next one   *)
(* of their work; a call is not in it before its request is recorded, and  *)
(* only as a request until its outcome is.                                 *)
(***************************************************************************)
LogOf(w) == evidence[w.participant]
RequestOf(call) == [kind |-> "request", call |-> call]

EntriesArePast(p) ==
  \A i \in DOMAIN evidence[p] :
    /\ evidence[p][i].call.work.participant = p
    /\ evidence[p][i].call.ordinal < inference[evidence[p][i].call.work].ordinal
OneOutcome(p) ==
  \A i \in DOMAIN evidence[p] :
    /\ \A j \in 1..(i - 1) :
         evidence[p][i].call = evidence[p][j].call =>
           evidence[p][i].kind # "request" /\ evidence[p][j].kind = "request"
    /\ evidence[p][i].kind # "request" =>
         \E j \in 1..(i - 1) : evidence[p][j] = RequestOf(evidence[p][i].call)
CallIsNew(w) ==
  inference[w].step \in BeforeRequest =>
    \A i \in DOMAIN LogOf(w) : LogOf(w)[i].call # ThisCall(w)
CallIsRequested(w) ==
  inference[w].step \in AfterRequest =>
    /\ \E i \in DOMAIN LogOf(w) : LogOf(w)[i] = RequestOf(ThisCall(w))
    /\ \A i \in DOMAIN LogOf(w) : LogOf(w)[i].call = ThisCall(w) => LogOf(w)[i].kind = "request"
IsRequested(call) ==
  /\ call.work \in Works
  /\ \E i \in DOMAIN LogOf(call.work) : LogOf(call.work)[i] = RequestOf(call)
DetailsRequested == \A a \in Details : a.purpose = "response" => IsRequested(a.call)

LogInv ==
  /\ \A p \in Participants : EntriesArePast(p) /\ OneOutcome(p)
  /\ \A w \in Works : CallIsNew(w) /\ CallIsRequested(w)
  /\ DetailsRequested

LEMMA LogFacts ==
  ASSUME RunsTyped, NEW p \in Participants
  PROVE  /\ evidence[p] \in Seq(Entries) /\ Len(evidence[p]) \in Nat
         /\ DOMAIN evidence[p] = 1..Len(evidence[p])
         /\ \A i \in DOMAIN evidence[p] :
              /\ evidence[p][i] \in Entries /\ evidence[p][i].call.work \in Works
              /\ evidence[p][i].call.ordinal \in Nat
<1>1. evidence[p] \in Seq(Entries)
  BY DEF RunsTyped
<1>2. Len(evidence[p]) \in Nat /\ DOMAIN evidence[p] = 1..Len(evidence[p])
  BY <1>1
<1>3. ASSUME NEW i \in DOMAIN evidence[p]
      PROVE  /\ evidence[p][i] \in Entries /\ evidence[p][i].call.work \in Works
             /\ evidence[p][i].call.ordinal \in Nat
  <2>1. evidence[p][i] \in Entries
    BY <1>1, <1>2, <1>3
  <2> QED BY <2>1 DEF Entries
<1> QED BY <1>1, <1>2, <1>3

LEMMA WorkFacts ==
  ASSUME RunsTyped, NEW w \in Works
  PROVE  /\ w.participant \in Participants
         /\ inference[w].ordinal \in Nat /\ inference[w].id \in Nat
         /\ ThisCall(w).work = w /\ ThisCall(w).ordinal = inference[w].id
BY DEF RunsTyped, ModelRun, Works, ThisCall, CallId

LEMMA ElsewhereKeepsLog == ASSUME LogInv, Elsewhere PROVE LogInv'
<1>1. ASSUME NEW p \in Participants PROVE EntriesArePast(p)' /\ OneOutcome(p)'
  BY DEF LogInv, Elsewhere, EntriesArePast, OneOutcome
<1>2. ASSUME NEW w \in Works PROVE CallIsNew(w)' /\ CallIsRequested(w)'
  BY DEF LogInv, Elsewhere, CallIsNew, CallIsRequested, LogOf, ThisCall
<1>3. DetailsRequested'
  BY DEF LogInv, Elsewhere, DetailsRequested, IsRequested, LogOf
<1> QED BY <1>1, <1>2, <1>3 DEF LogInv

\* What is kept of a step that leaves the log alone, but for the call itself.
LEMMA SameLogKeeps ==
  ASSUME CallsInv, LogInv, NEW w \in Works, MovesOnly(w), UNCHANGED evidence,
         inference'[w].ordinal \in {inference[w].ordinal, inference[w].ordinal + 1}
  PROVE  /\ \A p \in Participants : EntriesArePast(p)' /\ OneOutcome(p)'
         /\ \A v \in Works \ {w} : CallIsNew(v)' /\ CallIsRequested(v)'
<1>1. RunsTyped /\ \A v \in Works \ {w} : inference'[v] = inference[v]
  BY DEF MovesOnly, CallsInv
<1>2. ASSUME NEW p \in Participants PROVE EntriesArePast(p)'
  <2>1. ASSUME NEW i \in DOMAIN evidence[p]
        PROVE  /\ evidence[p][i].call.work.participant = p
               /\ evidence[p][i].call.ordinal < inference'[evidence[p][i].call.work].ordinal
    <3>1. PICK v \in Works : v = evidence[p][i].call.work
      BY <1>1, LogFacts
    <3>2. /\ evidence[p][i].call.ordinal \in Nat /\ v.participant = p
          /\ evidence[p][i].call.ordinal < inference[v].ordinal /\ inference[v].ordinal \in Nat
      BY <1>1, <3>1, LogFacts, WorkFacts DEF LogInv, EntriesArePast
    <3>3. evidence[p][i].call.ordinal < inference'[v].ordinal
      BY <1>1, <3>2
    <3> QED BY <3>1, <3>2, <3>3
  <2> QED BY <2>1 DEF EntriesArePast
<1>3. ASSUME NEW p \in Participants PROVE OneOutcome(p)'
  BY DEF LogInv, OneOutcome
<1>4. ASSUME NEW v \in Works \ {w} PROVE CallIsNew(v)' /\ CallIsRequested(v)'
  BY <1>1 DEF LogInv, CallIsNew, CallIsRequested, LogOf, ThisCall
<1> QED BY <1>2, <1>3, <1>4

\* What is stored was requested, and what was requested stays so.
LEMMA DetailsStayRequested ==
  ASSUME LogInv, NEW w \in Works, WorkCharges(w),
         \A call : IsRequested(call) => IsRequested(call)'
  PROVE  DetailsRequested'
<1>1. DetailsRequested /\ CallIsRequested(w)
  BY DEF LogInv
<1>2. CASE Details' = Details
  BY <1>1, <1>2 DEF DetailsRequested
<1>3. CASE Stores(w)
  <2>1. PICK a : /\ Details' = Details \cup {a} /\ a.call = ThisCall(w)
                 /\ a.purpose = "response" => inference[w].step \in AfterRequest
    BY <1>3 DEF Stores
  <2>2. a.purpose = "response" => IsRequested(a.call)
    <3>1. ThisCall(w).work = w
      BY DEF ThisCall, CallId
    <3> QED BY <1>1, <2>1, <3>1 DEF CallIsRequested, IsRequested
  <2> QED BY <1>1, <2>1, <2>2 DEF DetailsRequested
<1> QED BY <1>2, <1>3 DEF WorkCharges, Keeps, Charges

LEMMA RequestsStay ==
  ASSUME UNCHANGED evidence
  PROVE  \A call : IsRequested(call) => IsRequested(call)'
BY DEF IsRequested, LogOf

LEMMA IdlesKeepsLog ==
  ASSUME CallsInv, LogInv, NEW w \in Works, MovesOnly(w), Idles(w)
  PROVE  LogInv'
<1>1. CallIsNew(w)' /\ CallIsRequested(w)'
  BY StepsAreApart DEF Idles, CallIsNew, CallIsRequested
<1>2. DetailsRequested'
  BY RequestsStay, DetailsStayRequested DEF Idles, MovesOnly
<1>3. /\ \A p \in Participants : EntriesArePast(p)' /\ OneOutcome(p)'
      /\ \A v \in Works \ {w} : CallIsNew(v)' /\ CallIsRequested(v)'
  BY SameLogKeeps DEF Idles
<1> QED BY <1>1, <1>2, <1>3 DEF LogInv

LEMMA BeginsKeepsLog ==
  ASSUME CallsInv, LogInv, NEW w \in Works, MovesOnly(w), Begins(w)
  PROVE  LogInv'
<1>1. CallIsRequested(w)'
  BY StepsAreApart DEF Begins, CallIsRequested, AfterRequest, Storing, Recording
<1>2. CallIsNew(w)'
  <2>1. w.participant \in Participants /\ inference[w].ordinal \in Nat /\ RunsTyped
    BY WorkFacts DEF CallsInv
  <2>2. ThisCall(w)'.work = w /\ ThisCall(w)'.ordinal = inference[w].ordinal
    BY DEF ThisCall, CallId, Begins
  <2>3. ASSUME NEW i \in DOMAIN LogOf(w) PROVE LogOf(w)[i].call # ThisCall(w)'
    <3>1. /\ LogOf(w)[i].call.ordinal < inference[LogOf(w)[i].call.work].ordinal
          /\ LogOf(w)[i].call.ordinal \in Nat
      BY <2>1, LogFacts DEF LogOf, LogInv, EntriesArePast
    <3> QED BY <2>1, <2>2, <3>1
  <2>4. LogOf(w)' = LogOf(w)
    BY DEF LogOf, Begins
  <2> QED BY <2>3, <2>4 DEF CallIsNew
<1>3. DetailsRequested'
  BY RequestsStay, DetailsStayRequested DEF Begins, MovesOnly
<1>4. /\ \A p \in Participants : EntriesArePast(p)' /\ OneOutcome(p)'
      /\ \A v \in Works \ {w} : CallIsNew(v)' /\ CallIsRequested(v)'
  BY SameLogKeeps DEF Begins
<1> QED BY <1>1, <1>2, <1>3, <1>4 DEF LogInv

LEMMA ProceedsKeepsLog ==
  ASSUME CallsInv, LogInv, NEW w \in Works, MovesOnly(w), Proceeds(w)
  PROVE  LogInv'
<1>1. ThisCall(w)' = ThisCall(w) /\ LogOf(w)' = LogOf(w)
  BY DEF Proceeds, SameCall, ThisCall, LogOf
<1>2. CallIsNew(w)' /\ CallIsRequested(w)'
  BY <1>1, StepsAreApart DEF LogInv, Proceeds, CallIsNew, CallIsRequested
<1>3. DetailsRequested'
  BY RequestsStay, DetailsStayRequested DEF Proceeds, MovesOnly
<1>4. /\ \A p \in Participants : EntriesArePast(p)' /\ OneOutcome(p)'
      /\ \A v \in Works \ {w} : CallIsNew(v)' /\ CallIsRequested(v)'
  BY SameLogKeeps DEF Proceeds, SameCall
<1> QED BY <1>2, <1>3, <1>4 DEF LogInv

LEMMA LogGrows ==
  ASSUME RunsTyped, NEW w \in Works, NEW kind, Logs(w, kind)
  PROVE  /\ Len(LogOf(w)) \in Nat /\ DOMAIN LogOf(w) = 1..Len(LogOf(w))
         /\ DOMAIN LogOf(w)' = 1..(Len(LogOf(w)) + 1)
         /\ LogOf(w)'[Len(LogOf(w)) + 1] = [kind |-> kind, call |-> ThisCall(w)]
         /\ \A i \in 1..Len(LogOf(w)) : LogOf(w)'[i] = LogOf(w)[i]
         /\ \A q \in Participants \ {w.participant} : evidence'[q] = evidence[q]
<1> DEFINE p == w.participant
           e == [kind |-> kind, call |-> ThisCall(w)]
           log == evidence[p]
<1>1. p \in Participants
  BY WorkFacts
<1>2. log \in Seq(Entries \cup {e}) /\ e \in Entries \cup {e}
  BY <1>1 DEF RunsTyped
<1>3. evidence' = [evidence EXCEPT ![p] = Append(log, e)]
  BY DEF Logs
<1>4. DOMAIN evidence = Participants
  BY DEF RunsTyped
<1> HIDE DEF e, p
<1>5. evidence'[p] = Append(log, e) /\ \A q \in Participants \ {p} : evidence'[q] = evidence[q]
  BY <1>1, <1>3, <1>4
<1> HIDE DEF log
<1>6. /\ Len(log) \in Nat /\ DOMAIN log = 1..Len(log)
      /\ DOMAIN Append(log, e) = 1..(Len(log) + 1) /\ Append(log, e)[Len(log) + 1] = e
      /\ \A i \in 1..Len(log) : Append(log, e)[i] = log[i]
  BY <1>2, Grown
<1>7. LogOf(w) = log /\ LogOf(w)' = Append(log, e)
  BY <1>5 DEF LogOf, log, p
<1> QED BY <1>5, <1>6, <1>7 DEF e, p

\* What is kept of a step that adds an entry of its call.
LEMMA AppendKeeps ==
  ASSUME CallsInv, LogInv, NEW w \in Works, MovesOnly(w), NEW kind, Logs(w, kind),
         inference[w].step \in BeforeRequest \cup AfterRequest,
         inference'[w].ordinal = inference[w].ordinal
  PROVE  /\ \A p \in Participants : EntriesArePast(p)'
         /\ \A p \in Participants \ {w.participant} : OneOutcome(p)'
         /\ \A v \in Works \ {w} : CallIsNew(v)' /\ CallIsRequested(v)'
         /\ \A call : IsRequested(call) => IsRequested(call)'
<1> DEFINE n == Len(LogOf(w))
           e == [kind |-> kind, call |-> ThisCall(w)]
<1>0. /\ RunsTyped /\ w.participant \in Participants
      /\ \A v \in Works \ {w} : inference'[v] = inference[v]
      /\ \A v \in Works : inference'[v].ordinal = inference[v].ordinal
  BY WorkFacts DEF CallsInv, MovesOnly
<1>1. /\ n \in Nat /\ DOMAIN LogOf(w) = 1..n /\ DOMAIN LogOf(w)' = 1..(n + 1)
      /\ LogOf(w)'[n + 1] = e /\ \A i \in 1..n : LogOf(w)'[i] = LogOf(w)[i]
      /\ \A q \in Participants \ {w.participant} : evidence'[q] = evidence[q]
  BY <1>0, LogGrows
<1>2. /\ e.call.work = w /\ e.call.ordinal < inference[w].ordinal /\ e.call = ThisCall(w)
  <2>1. inference[w].ordinal = inference[w].id + 1 /\ inference[w].id \in Nat
    BY <1>0, WorkFacts, StepsAreApart DEF CallsInv, CallsNumbered
  <2> QED BY <1>0, <2>1, WorkFacts
<1> HIDE DEF e, n
<1>3. ASSUME NEW p \in Participants PROVE EntriesArePast(p)'
  <2>1. ASSUME NEW i \in DOMAIN evidence[p]
        PROVE  /\ evidence[p][i].call.work.participant = p
               /\ evidence[p][i].call.ordinal < inference'[evidence[p][i].call.work].ordinal
    <3>1. PICK v \in Works : v = evidence[p][i].call.work
      BY <1>0, LogFacts
    <3>2. v.participant = p /\ evidence[p][i].call.ordinal < inference[v].ordinal
      BY <3>1 DEF LogInv, EntriesArePast
    <3> QED BY <1>0, <3>1, <3>2
  <2>2. CASE p # w.participant
    BY <1>1, <2>1, <2>2 DEF EntriesArePast
  <2>3. CASE p = w.participant
    <3>1. evidence'[p] = LogOf(w)' /\ evidence[p] = LogOf(w)
      BY <2>3 DEF LogOf
    <3>2. ASSUME NEW i \in 1..(n + 1)
          PROVE  /\ LogOf(w)'[i].call.work.participant = p
                 /\ LogOf(w)'[i].call.ordinal < inference'[LogOf(w)'[i].call.work].ordinal
      <4>1. CASE i = n + 1
        BY <1>0, <1>1, <1>2, <2>3, <4>1
      <4>2. CASE i \in 1..n
        BY <1>1, <2>1, <3>1, <4>2
      <4> QED BY <1>1, <4>1, <4>2
    <3> QED BY <1>1, <3>1, <3>2 DEF EntriesArePast
  <2> QED BY <2>2, <2>3
<1>4. ASSUME NEW p \in Participants \ {w.participant} PROVE OneOutcome(p)'
  BY <1>1 DEF LogInv, OneOutcome
<1>5. ASSUME NEW v \in Works \ {w} PROVE CallIsNew(v)' /\ CallIsRequested(v)'
  <2>1. /\ v.participant \in Participants /\ inference'[v] = inference[v] /\ ThisCall(v)' = ThisCall(v)
        /\ ThisCall(v) # e.call /\ CallIsNew(v) /\ CallIsRequested(v)
    BY <1>0, <1>2, WorkFacts DEF ThisCall, LogInv
  <2>2. CASE v.participant # w.participant
    <3>1. LogOf(v)' = LogOf(v)
      BY <1>1, <2>1, <2>2 DEF LogOf
    <3> QED BY <2>1, <3>1 DEF CallIsNew, CallIsRequested
  <2>3. CASE v.participant = w.participant
    <3>1. LogOf(v)' = LogOf(w)' /\ LogOf(v) = LogOf(w)
      BY <2>3 DEF LogOf
    <3>2. CallIsNew(v)'
      BY <1>1, <2>1, <3>1 DEF CallIsNew
    <3>3. CallIsRequested(v)'
      BY <1>1, <2>1, <3>1 DEF CallIsRequested
    <3> QED BY <3>2, <3>3
  <2> QED BY <2>2, <2>3
<1>6. ASSUME NEW call, IsRequested(call) PROVE IsRequested(call)'
  <2>1. PICK i \in DOMAIN LogOf(call.work) : LogOf(call.work)[i] = RequestOf(call)
    BY <1>6 DEF IsRequested
  <2>2. call.work \in Works /\ call.work.participant \in Participants
    BY <1>0, <1>6, WorkFacts DEF IsRequested
  <2>3. i \in DOMAIN LogOf(call.work)' /\ LogOf(call.work)'[i] = RequestOf(call)
    <3>1. CASE call.work.participant # w.participant
      BY <1>1, <2>1, <2>2, <3>1 DEF LogOf
    <3>2. CASE call.work.participant = w.participant
      <4>1. LogOf(call.work)' = LogOf(w)' /\ LogOf(call.work) = LogOf(w)
        BY <3>2 DEF LogOf
      <4> QED BY <1>1, <2>1, <4>1
    <3> QED BY <3>1, <3>2
  <2> QED BY <2>2, <2>3 DEF IsRequested
<1> QED BY <1>3, <1>4, <1>5, <1>6

\* The log of a participant, with an entry that may follow the others.
LEMMA OutcomeIsOne ==
  ASSUME CallsInv, LogInv, NEW w \in Works, NEW kind, Logs(w, kind),
         \/ kind = "request" /\ inference[w].step \in BeforeRequest
         \/ kind # "request" /\ inference[w].step \in AfterRequest
  PROVE  OneOutcome(w.participant)'
<1> DEFINE n == Len(LogOf(w))
           c == ThisCall(w)
           e == [kind |-> kind, call |-> c]
<1>0. RunsTyped /\ w.participant \in Participants
  BY WorkFacts DEF CallsInv
<1>1. /\ n \in Nat /\ DOMAIN LogOf(w) = 1..n /\ DOMAIN LogOf(w)' = 1..(n + 1)
      /\ LogOf(w)'[n + 1] = e /\ \A i \in 1..n : LogOf(w)'[i] = LogOf(w)[i]
  BY <1>0, LogGrows
<1>2. e.kind = kind /\ e.call = c
  OBVIOUS
<1>3. \/ kind = "request" /\ \A i \in 1..n : LogOf(w)[i].call # c
      \/ /\ kind # "request"
         /\ \A i \in 1..n : LogOf(w)[i].call = c => LogOf(w)[i].kind = "request"
         /\ \E i \in 1..n : LogOf(w)[i] = RequestOf(c)
  BY <1>1, StepsAreApart DEF LogInv, CallIsNew, CallIsRequested
<1>4. OneOutcome(w.participant)
  BY <1>0 DEF LogInv
<1> HIDE DEF e, n, c
<1>5. ASSUME NEW i \in 1..n
      PROVE  /\ \A j \in 1..(i - 1) :
                  LogOf(w)'[i].call = LogOf(w)'[j].call =>
                    LogOf(w)'[i].kind # "request" /\ LogOf(w)'[j].kind = "request"
             /\ LogOf(w)'[i].kind # "request" =>
                  \E j \in 1..(i - 1) : LogOf(w)'[j] = RequestOf(LogOf(w)'[i].call)
  <2>1. /\ \A j \in 1..(i - 1) :
             LogOf(w)[i].call = LogOf(w)[j].call =>
               LogOf(w)[i].kind # "request" /\ LogOf(w)[j].kind = "request"
        /\ LogOf(w)[i].kind # "request" =>
             \E j \in 1..(i - 1) : LogOf(w)[j] = RequestOf(LogOf(w)[i].call)
    BY <1>1, <1>4 DEF OneOutcome, LogOf
  <2>2. \A j \in 1..(i - 1) : j \in 1..n
    BY <1>1
  <2> QED BY <1>1, <2>1, <2>2
<1>6. /\ \A j \in 1..n :
           e.call = LogOf(w)'[j].call => kind # "request" /\ LogOf(w)'[j].kind = "request"
      /\ kind # "request" => \E j \in 1..n : LogOf(w)'[j] = RequestOf(e.call)
  BY <1>1, <1>2, <1>3
<1>7. ASSUME NEW i \in 1..(n + 1)
      PROVE  /\ \A j \in 1..(i - 1) :
                  LogOf(w)'[i].call = LogOf(w)'[j].call =>
                    LogOf(w)'[i].kind # "request" /\ LogOf(w)'[j].kind = "request"
             /\ LogOf(w)'[i].kind # "request" =>
                  \E j \in 1..(i - 1) : LogOf(w)'[j] = RequestOf(LogOf(w)'[i].call)
  <2>1. CASE i = n + 1
    <3>1. 1..(i - 1) = 1..n /\ LogOf(w)'[i] = e
      BY <1>1, <2>1
    <3> QED BY <1>2, <1>6, <3>1
  <2>2. CASE i \in 1..n
    BY <1>5, <2>2
  <2> QED BY <1>1, <2>1, <2>2
<1> QED BY <1>1, <1>7 DEF OneOutcome, LogOf

LEMMA RequestsKeepsLog ==
  ASSUME CallsInv, LogInv, NEW w \in Works, MovesOnly(w), Requests(w)
  PROVE  LogInv'
<1> DEFINE n == Len(LogOf(w))
           c == ThisCall(w)
           e == [kind |-> "request", call |-> c]
<1>0. /\ RunsTyped /\ inference'[w].step = "response" /\ Logs(w, "request") /\ c = ThisCall(w)'
      /\ inference[w].step \in BeforeRequest /\ inference'[w].ordinal = inference[w].ordinal
  BY DEF CallsInv, Requests, SameCall, ThisCall
<1>1. /\ n \in Nat /\ DOMAIN LogOf(w) = 1..n /\ DOMAIN LogOf(w)' = 1..(n + 1)
      /\ LogOf(w)'[n + 1] = e /\ \A i \in 1..n : LogOf(w)'[i] = LogOf(w)[i]
  BY <1>0, LogGrows
<1>2. /\ \A p \in Participants : EntriesArePast(p)'
      /\ \A p \in Participants \ {w.participant} : OneOutcome(p)'
      /\ \A v \in Works \ {w} : CallIsNew(v)' /\ CallIsRequested(v)'
      /\ \A call : IsRequested(call) => IsRequested(call)'
  BY <1>0, AppendKeeps
<1>3. OneOutcome(w.participant)'
  BY <1>0, OutcomeIsOne
<1>4. DetailsRequested'
  BY <1>2, DetailsStayRequested DEF MovesOnly
<1>5. CallIsNew(w)'
  BY <1>0, StepsAreApart DEF CallIsNew
<1>6. CallIsRequested(w)'
  <2>1. \A i \in 1..n : LogOf(w)[i].call # c
    BY <1>0, <1>1 DEF LogInv, CallIsNew
  <2>2. e = RequestOf(c) /\ e.kind = "request"
    BY DEF RequestOf
  <2> HIDE DEF e, n, c
  <2>3. LogOf(w)'[n + 1] = RequestOf(c) /\ n + 1 \in DOMAIN LogOf(w)'
    BY <1>1, <2>2
  <2>4. \A i \in DOMAIN LogOf(w)' : LogOf(w)'[i].call = c => LogOf(w)'[i].kind = "request"
    BY <1>1, <2>1, <2>2
  <2> QED BY <1>0, <2>3, <2>4 DEF CallIsRequested
<1> QED BY <1>2, <1>3, <1>4, <1>5, <1>6 DEF LogInv

LEMMA FinishesKeepsLog ==
  ASSUME CallsInv, LogInv, NEW w \in Works, MovesOnly(w), Finishes(w)
  PROVE  LogInv'
<1>0. PICK kind \in {"response", "failure"} : Logs(w, kind)
  BY DEF Finishes
<1>1. /\ inference'[w].step = "free" /\ inference[w].step \in AfterRequest
      /\ inference'[w].ordinal = inference[w].ordinal
  BY DEF Finishes
<1>2. /\ \A p \in Participants : EntriesArePast(p)'
      /\ \A p \in Participants \ {w.participant} : OneOutcome(p)'
      /\ \A v \in Works \ {w} : CallIsNew(v)' /\ CallIsRequested(v)'
      /\ \A call : IsRequested(call) => IsRequested(call)'
  BY <1>0, <1>1, AppendKeeps
<1>3. OneOutcome(w.participant)'
  BY <1>0, <1>1, OutcomeIsOne
<1>4. DetailsRequested'
  BY <1>2, DetailsStayRequested DEF MovesOnly
<1>5. CallIsNew(w)' /\ CallIsRequested(w)'
  BY <1>1, StepsAreApart DEF CallIsNew, CallIsRequested
<1> QED BY <1>2, <1>3, <1>4, <1>5 DEF LogInv

LEMMA LogInit == Init => LogInv
<1> SUFFICES ASSUME Init PROVE LogInv
  OBVIOUS
<1>1. artifacts = {} /\ \A p \in Participants : DOMAIN evidence[p] = {}
  BY DEF Init, InferenceInit
<1>2. \A w \in Works : inference[w].step = "none"
  BY DEF Init, InferenceInit, Outside
<1>3. \A p \in Participants : EntriesArePast(p) /\ OneOutcome(p)
  BY <1>1 DEF EntriesArePast, OneOutcome
<1>4. \A w \in Works : CallIsNew(w) /\ CallIsRequested(w)
  BY <1>2, StepsAreApart DEF CallIsNew, CallIsRequested
<1>5. DetailsRequested
  BY <1>1 DEF DetailsRequested, Details
<1> QED BY <1>3, <1>4, <1>5 DEF LogInv

LEMMA LogStep == CallsInv /\ LogInv /\ [Next]_vars => LogInv'
<1> SUFFICES ASSUME CallsInv, LogInv, [Next]_vars PROVE LogInv'
  OBVIOUS
<1>1. ASSUME NEW w \in Works, MovesOnly(w) PROVE LogInv'
  <2>1. WorkMoves(w)
    BY <1>1 DEF MovesOnly
  <2> QED
    BY <1>1, <2>1, IdlesKeepsLog, BeginsKeepsLog, ProceedsKeepsLog, RequestsKeepsLog,
       FinishesKeepsLog DEF WorkMoves
<1> QED BY <1>1, StepMoves, ElsewhereKeepsLog

(* Whatever calls break off, are refused or overtaken, and however many    *)
(* agents call their models for one participant, its log records a request *)
(* once and at most one outcome after it, and no response's detail is kept *)
(* that was not requested (programs.py: InstrumentedModel.call).           *)
THEOREM RequestsAndOutcomesPairUp == Spec => []EvidencePairsUp
<1>1. Init => CallsInv /\ LogInv
  BY CallsInit, LogInit
<1>2. CallsInv /\ LogInv /\ [Next]_vars => CallsInv' /\ LogInv'
  BY CallsStep, LogStep
<1>3. CallsInv /\ LogInv => EvidencePairsUp
  <2> SUFFICES ASSUME CallsInv, LogInv PROVE EvidencePairsUp
    OBVIOUS
  <2>1. ASSUME NEW p \in Participants PROVE OneOutcome(p)
    BY DEF LogInv
  <2>2. ASSUME NEW a \in artifacts, a.purpose = "response"
        PROVE  a.call \in Calls(a.call.work.participant, {"request"})
    <3>1. a \in Details
      BY <2>2 DEF Details
    <3>2. IsRequested(a.call)
      BY <2>2, <3>1 DEF LogInv, DetailsRequested
    <3>3. PICK i \in DOMAIN LogOf(a.call.work) : LogOf(a.call.work)[i] = RequestOf(a.call)
      BY <3>2 DEF IsRequested
    <3>4. LogOf(a.call.work)[i].kind = "request" /\ LogOf(a.call.work)[i].call = a.call
      BY <3>3 DEF RequestOf
    <3> QED BY <3>4 DEF Calls, LogOf
  <2> QED BY <2>1, <2>2 DEF EvidencePairsUp, OneOutcome, RequestOf
<1> QED BY <1>1, <1>2, <1>3, PTL DEF Spec

\* A detail is added to the sum at most once.
LEMMA SizesGrow ==
  ASSUME NEW A, IsFiniteSet(A), \A a \in A : a.size \in Nat, NEW b, b.size \in Nat
  PROVE  /\ MapThenSumSet(LAMBDA a : a.size, A \cup {b}) \in Nat
         /\ MapThenSumSet(LAMBDA a : a.size, A \cup {b}) <= MapThenSumSet(LAMBDA a : a.size, A) + b.size
<1> DEFINE B == A \cup {b}
           f == [a \in A |-> a.size]
           g == [a \in B |-> a.size]
<1>1. IsFiniteSet(B) /\ \A a \in B : a.size \in Nat
  BY FS_AddElement
<1>2. MapThenSumSet(LAMBDA a : a.size, B) \in Nat /\ MapThenSumSet(LAMBDA a : a.size, A) \in Nat
  <2> HIDE DEF B
  <2>1. A \in SUBSET B
    BY DEF B
  <2> QED BY <1>1, <2>1, SizesOfPart
<1>3. CASE b \in A
  <2>1. B = A
    BY <1>3
  <2> HIDE DEF B
  <2>2. MapThenSumSet(LAMBDA a : a.size, B) <= MapThenSumSet(LAMBDA a : a.size, A) + b.size
    BY <1>2, <2>1
  <2> QED BY <1>2, <2>2 DEF B
<1>4. CASE b \notin A
  <2>1. /\ MapThenSumSet(LAMBDA a : a.size, A) = SumFunctionOnSet(f, A)
        /\ MapThenSumSet(LAMBDA a : a.size, B) = SumFunctionOnSet(g, B)
    BY <1>1, SizesAreSums
  <2>2. (\A a \in A : g[a] \in Nat /\ f[a] = g[a]) /\ g[b] = b.size /\ g[b] \in Nat
    OBVIOUS
  <2> HIDE DEF f, g
  <2>3. SumFunctionOnSet(g, A \cup {b}) = SumFunctionOnSet(f, A) + g[b]
    BY <1>4, <2>2, SumAdds
  <2> QED BY <1>2, <2>1, <2>2, <2>3
<1> QED BY <1>3, <1>4

(***************************************************************************)
(* The budget.  What was charged and is not stored yet counts as if it     *)
(* were stored; a charge reads what is stored only, and so may be made     *)
(* beside as many others as were ever pending at once.                     *)
(***************************************************************************)
DetailSizes == MapThenSumSet(LAMBDA a : a.size, Details)
SizeOf == [w \in Works |-> inference[w].size]
Owed == SumFunctionOnSet(SizeOf, Pending)
Allowed(n) == IF n = 0 THEN 0 ELSE Budget + (n - 1) * Max(Sizes)
BudgetInv == DetailSizes + Owed <= Allowed(overlap)

LEMMA AllowedFacts ==
  ASSUME NEW n \in Nat, NEW k \in Nat
  PROVE  /\ Allowed(n) \in Nat /\ k * Max(Sizes) \in Nat
         /\ k + 1 <= n => Budget + k * Max(Sizes) <= Allowed(n)
<1> DEFINE m == Max(Sizes)
<1>1. m \in Nat /\ Budget \in Nat
  BY LargestSize, InferenceAssumption
<1> HIDE DEF m
<1>2. \A i, j \in Nat : i * j \in Nat
  OBVIOUS
<1>3. Allowed(n) \in Nat
  <2>1. CASE n # 0
    <3>1. n - 1 \in Nat
      BY <2>1
    <3>2. (n - 1) * m \in Nat
      BY <1>1, <1>2, <3>1
    <3>3. Budget + (n - 1) * m \in Nat
      BY <1>1, <3>2
    <3> QED BY <2>1, <3>3 DEF Allowed, m
  <2>2. CASE n = 0
    BY <2>2 DEF Allowed
  <2> QED BY <2>1, <2>2
<1>4. ASSUME k + 1 <= n PROVE Budget + k * m <= Allowed(n)
  <2>1. n # 0 /\ (n - 1) - k \in Nat
    BY <1>4
  <2>2. PICK d \in Nat : d = (n - 1) - k
    BY <2>1
  <2>3. d * m \in Nat /\ k * m \in Nat
    BY <1>1, <1>2
  <2>4. (n - 1) * m = k * m + d * m
    <3>1. n - 1 = k + d
      BY <2>2
    <3>2. (k + d) * m = k * m + d * m
      BY <1>1
    <3> QED BY <3>1, <3>2
  <2>5. Allowed(n) = Budget + (n - 1) * m
    BY <2>1 DEF Allowed, m
  <2> QED BY <1>1, <2>3, <2>4, <2>5
<1> QED BY <1>1, <1>2, <1>3, <1>4 DEF m

LEMMA DetailFacts ==
  ASSUME RunsTyped
  PROVE  /\ IsFiniteSet(Details) /\ \A a \in Details : a.size \in Nat
         /\ DetailSizes \in Nat /\ Spent \in Nat /\ DetailSizes <= Spent
<1>1. Details \in SUBSET artifacts /\ IsFiniteSet(artifacts) /\ \A a \in artifacts : a.size \in Nat
  BY DEF Details, RunsTyped
<1>2. IsFiniteSet(Details)
  BY <1>1, FS_Subset
<1>3. DetailSizes \in Nat /\ Spent \in Nat /\ DetailSizes <= Spent
  BY <1>1, SizesOfPart DEF DetailSizes, Spent
<1> QED BY <1>1, <1>2, <1>3

LEMMA OwedFacts ==
  ASSUME RunsTyped
  PROVE  /\ \A w \in Works : SizeOf[w] \in 0..Max(Sizes) /\ SizeOf[w] \in Nat
         /\ Owed \in Nat /\ Owed <= Cardinality(Pending) * Max(Sizes)
<1> DEFINE P == Pending
           f == SizeOf
           m == Max(Sizes)
<1>0. m \in Nat /\ IsFiniteSet(P) /\ P \subseteq Works
  BY LargestSize, WorksAreFinite DEF Pending
<1>1. ASSUME NEW w \in Works PROVE f[w] \in 0..m /\ f[w] \in Nat
  <2>1. inference[w].size \in {0} \cup Sizes
    BY DEF RunsTyped, ModelRun
  <2>2. inference[w].size \in 0..m /\ inference[w].size \in Nat
    BY <2>1, SizesAreNat, LargestSize
  <2> QED BY <2>2 DEF SizeOf
<1> HIDE DEF f, P, m
<1>2. \A w \in P : f[w] \in 0..m
  BY <1>0, <1>1
<1>3. /\ SumFunctionOnSet(f, P) \in Nat
      /\ SumFunctionOnSet(f, P) <= Cardinality(P) * m
  BY <1>0, <1>2, SumIsBounded
<1> QED BY <1>1, <1>3 DEF f, P, m, Owed

LEMMA DetailSizesAfter ==
  ASSUME RunsTyped, RunsTyped', NEW w \in Works, WorkCharges(w)
  PROVE  /\ DetailSizes' \in Nat
         /\ ~Stores(w) => DetailSizes' = DetailSizes
         /\ Stores(w) => DetailSizes' <= DetailSizes + SizeOf[w]
<1>1. DetailSizes' = MapThenSumSet(LAMBDA a : a.size, Details')
  BY DEF DetailSizes, MapThenSumSet, MapThenFoldSet
<1>2. DetailSizes' \in Nat
  <2>1. /\ Details' \in SUBSET artifacts' /\ IsFiniteSet(artifacts')
        /\ \A a \in artifacts' : a.size \in Nat
    BY DEF Details, RunsTyped
  <2> QED BY <1>1, <2>1, SizesOfPart
<1>3. Details' = Details => DetailSizes' = DetailSizes
  BY DEF DetailSizes, MapThenSumSet, MapThenFoldSet
<1>4. ASSUME Stores(w) PROVE DetailSizes' <= DetailSizes + SizeOf[w]
  <2>1. PICK a : Details' = Details \cup {a} /\ a.size = inference[w].size
    BY <1>4 DEF Stores
  <2>2. a.size = SizeOf[w] /\ a.size \in Nat
    BY <2>1, OwedFacts DEF SizeOf
  <2>3. DetailSizes' = MapThenSumSet(LAMBDA b : b.size, Details \cup {a})
    BY <2>1 DEF DetailSizes, MapThenSumSet, MapThenFoldSet
  <2>4. MapThenSumSet(LAMBDA b : b.size, Details \cup {a})
          <= MapThenSumSet(LAMBDA b : b.size, Details) + a.size
    BY <2>2, DetailFacts, SizesGrow
  <2> QED BY <2>2, <2>3, <2>4 DEF DetailSizes
<1>5. ~Stores(w) => Details' = Details
  BY DEF WorkCharges, Keeps, Charges
<1> QED BY <1>2, <1>3, <1>4, <1>5

\* The sums over the pending charges before and after a step.
LEMMA OwedAfter ==
  ASSUME RunsTyped, RunsTyped', NEW w \in Works,
         \A v \in Works \ {w} : inference'[v] = inference[v]
  PROVE  /\ Owed' \in Nat
         /\ Pending' = Pending \ {w} => Owed' <= Owed
         /\ Pending' = Pending \ {w} /\ w \in Pending => Owed = SizeOf[w] + Owed'
         /\ Pending' = Pending \cup {w} /\ w \notin Pending => Owed' = Owed + SizeOf'[w]
<1> DEFINE P == Pending
           Q == Pending'
           f == SizeOf
           g == SizeOf'
<1>0. /\ IsFiniteSet(P) /\ P \subseteq Works /\ IsFiniteSet(Q) /\ Q \subseteq Works
      /\ \A v \in Works \ {w} : f[v] = g[v]
      /\ \A v \in Works : f[v] \in Nat
  <2>1. IsFiniteSet(Works)
    BY WorksAreFinite
  <2>2. P \subseteq Works /\ Q \subseteq Works
    BY DEF Pending
  <2>3. IsFiniteSet(P) /\ IsFiniteSet(Q)
    BY <2>1, <2>2, FS_Subset
  <2>4. \A v \in Works \ {w} : f[v] = g[v]
    BY DEF SizeOf
  <2> QED BY <2>2, <2>3, <2>4, OwedFacts
<1>1. \A v \in Works : g[v] \in Nat
  <2> SUFFICES ASSUME NEW v \in Works PROVE g[v] \in Nat
    OBVIOUS
  <2>1. inference'[v].size \in {0} \cup Sizes
    BY DEF RunsTyped, ModelRun
  <2> QED BY <2>1, SizesAreNat DEF SizeOf
<1>2. Owed = SumFunctionOnSet(f, P) /\ Owed' = SumFunctionOnSet(g, Q)
  BY DEF Owed, SumFunctionOnSet, FoldFunctionOnSet, MapThenFoldSet
<1> HIDE DEF f, g, P, Q
<1>3. SumFunctionOnSet(f, P) \in Nat /\ SumFunctionOnSet(g, Q) \in Nat
  <2>1. (\A v \in P : f[v] \in Nat) /\ (\A v \in Q : g[v] \in Nat)
    BY <1>0, <1>1
  <2>2. SumFunctionOnSet(f, P) \in Nat
    BY <1>0, <2>1, SumType
  <2>3. SumFunctionOnSet(g, Q) \in Nat
    BY <1>0, <2>1, SumType
  <2> QED BY <2>2, <2>3
<1>4. ASSUME Q = P \ {w}
      PROVE  /\ SumFunctionOnSet(g, Q) <= SumFunctionOnSet(f, P)
             /\ w \in P => SumFunctionOnSet(f, P) = f[w] + SumFunctionOnSet(g, Q)
  <2>1. \A v \in Q : g[v] = f[v]
    BY <1>0, <1>4
  <2>2. SumFunctionOnSet(g, Q) = SumFunctionOnSet(f, Q)
    BY <1>0, <2>1, SumSame
  <2>3. CASE w \in P
    <3>1. \A v \in P : f[v] \in Nat
      BY <1>0
    <3>2. SumFunctionOnSet(f, P) = f[w] + SumFunctionOnSet(f, P \ {w})
      BY <1>0, <2>3, <3>1, SumTakesOut
    <3>3. f[w] \in Nat
      BY <1>0
    <3> QED BY <1>3, <1>4, <2>2, <3>2, <3>3
  <2>4. CASE w \notin P
    <3>1. Q = P
      BY <1>4, <2>4
    <3> QED BY <1>3, <2>2, <2>4, <3>1
  <2> QED BY <2>3, <2>4
<1>5. ASSUME Q = P \cup {w}, w \notin P
      PROVE  SumFunctionOnSet(g, Q) = SumFunctionOnSet(f, P) + g[w]
  <2>1. (\A v \in P : g[v] \in Nat /\ f[v] = g[v]) /\ g[w] \in Nat
    BY <1>0, <1>1, <1>5
  <2> QED BY <1>0, <1>5, <2>1, SumAdds
<1> QED BY <1>2, <1>3, <1>4, <1>5 DEF f, g, P, Q

LEMMA ChargeKeepsBudget ==
  ASSUME RunsTyped, BudgetInv, NEW w \in Works, MovesOnly(w)
  PROVE  BudgetInv'
<1>0. /\ RunsTyped' /\ WorkCharges(w) /\ overlap \in Nat /\ overlap' \in Nat
      /\ \A v \in Works \ {w} : inference'[v] = inference[v]
  BY DEF RunsTyped, MovesOnly
<1>1. /\ DetailSizes \in Nat /\ Spent \in Nat /\ DetailSizes <= Spent
      /\ Owed \in Nat /\ Owed <= Cardinality(Pending) * Max(Sizes)
      /\ SizeOf[w] \in Nat /\ Cardinality(Pending) \in Nat
  BY DetailFacts, OwedFacts, WorksAreFinite
<1>2. /\ DetailSizes' \in Nat
      /\ ~Stores(w) => DetailSizes' = DetailSizes
      /\ Stores(w) => DetailSizes' <= DetailSizes + SizeOf[w]
  BY <1>0, DetailSizesAfter
<1>3. /\ Owed' \in Nat
      /\ Pending' = Pending \ {w} => Owed' <= Owed
      /\ Pending' = Pending \ {w} /\ w \in Pending => Owed = SizeOf[w] + Owed'
      /\ Pending' = Pending \cup {w} /\ w \notin Pending => Owed' = Owed + SizeOf'[w]
  BY <1>0, OwedAfter
<1>4. DetailSizes + Owed <= Allowed(overlap) /\ Allowed(overlap) \in Nat
  BY <1>0, AllowedFacts DEF BudgetInv
<1>5. Allowed(overlap)' = Allowed(overlap')
  BY DEF Allowed
<1>6. CASE Stores(w)
  <2>1. overlap' = overlap /\ Pending' = Pending \ {w} /\ w \in Pending
    BY <1>6 DEF Stores
  <2>2. DetailSizes' + Owed' <= DetailSizes + Owed
    BY <1>1, <1>2, <1>3, <1>6, <2>1
  <2>3. DetailSizes' + Owed' <= Allowed(overlap')
    BY <1>1, <1>2, <1>3, <1>4, <2>1, <2>2
  <2> QED BY <1>5, <2>3 DEF BudgetInv
<1>7. CASE Keeps(w) /\ ~Stores(w)
  <2>1. overlap' = overlap /\ Owed' <= Owed /\ DetailSizes' = DetailSizes
    BY <1>2, <1>3, <1>7 DEF Keeps
  <2>2. DetailSizes' + Owed' <= Allowed(overlap')
    BY <1>1, <1>3, <1>4, <2>1
  <2> QED BY <1>5, <2>2 DEF BudgetInv
<1>8. CASE Charges(w) /\ ~Stores(w)
  <2>1. /\ Spent + inference'[w].size <= Budget
        /\ overlap' = Max({overlap, Cardinality(Pending) + 1})
        /\ Owed' = Owed + SizeOf'[w] /\ DetailSizes' = DetailSizes
    BY <1>2, <1>3, <1>8 DEF Charges
  <2>2. SizeOf'[w] = inference'[w].size /\ SizeOf'[w] \in Nat
    <3>1. inference'[w].size \in {0} \cup Sizes
      BY <1>0 DEF RunsTyped, ModelRun
    <3> QED BY <3>1, SizesAreNat DEF SizeOf
  <2>3. Cardinality(Pending) + 1 <= overlap'
    <3>1. Cardinality(Pending) + 1 \in Nat
      BY <1>1
    <3> QED BY <1>0, <2>1, <3>1, LargerOf
  <2>4. Budget + Cardinality(Pending) * Max(Sizes) <= Allowed(overlap')
    BY <1>0, <1>1, <2>3, AllowedFacts
  <2>5. Cardinality(Pending) * Max(Sizes) \in Nat /\ Allowed(overlap') \in Nat /\ Budget \in Nat
    BY <1>0, <1>1, AllowedFacts, InferenceAssumption
  <2> DEFINE slack == Cardinality(Pending) * Max(Sizes)
             most == Allowed(overlap')
  <2> HIDE DEF slack, most
  <2>6. slack \in Nat /\ most \in Nat /\ Budget \in Nat /\ Budget + slack <= most /\ Owed <= slack
    BY <1>1, <2>4, <2>5 DEF slack, most
  <2>7. DetailSizes' + Owed' <= most
    BY <1>1, <1>2, <1>3, <2>1, <2>2, <2>6
  <2> QED BY <1>5, <2>7 DEF BudgetInv, most
<1> QED BY <1>0, <1>6, <1>7, <1>8 DEF WorkCharges

LEMMA BudgetInit == Init => BudgetInv
<1> SUFFICES ASSUME Init PROVE BudgetInv
  OBVIOUS
<1>1. artifacts = {} /\ overlap = 0 /\ \A w \in Works : inference[w].step = "none"
  BY DEF Init, InferenceInit, Outside
<1>2. DetailSizes = 0
  <2>1. Details = {}
    BY <1>1 DEF Details
  <2>2. DetailSizes = SumFunctionOnSet([a \in {} |-> a.size], {})
    BY <2>1, FS_EmptySet, SizesAreSums DEF DetailSizes
  <2> QED BY <2>2, SumOfNothing
<1>3. Owed = 0
  <2>1. Pending = {}
    BY <1>1 DEF Pending, Storing
  <2> QED BY <2>1, SumOfNothing DEF Owed
<1> QED BY <1>1, <1>2, <1>3 DEF BudgetInv, Allowed

LEMMA BudgetStep == CallsInv /\ BudgetInv /\ [Next]_vars => BudgetInv'
<1> SUFFICES ASSUME CallsInv, BudgetInv, [Next]_vars PROVE BudgetInv'
  OBVIOUS
<1>0. RunsTyped
  BY DEF CallsInv
<1>1. CASE Elsewhere
  <2>1. UNCHANGED <<Pending, Details, SizeOf, overlap>>
    BY <1>1 DEF Elsewhere, Pending, SizeOf
  <2>2. UNCHANGED <<DetailSizes, Owed>>
    BY <2>1 DEF DetailSizes, Owed, MapThenSumSet, SumFunctionOnSet, FoldFunctionOnSet, MapThenFoldSet
  <2> QED BY <2>1, <2>2 DEF BudgetInv, Allowed
<1>2. ASSUME NEW w \in Works, MovesOnly(w) PROVE BudgetInv'
  BY <1>0, <1>2, ChargeKeepsBudget
<1> QED BY <1>1, <1>2, StepMoves

(* However the charges and stores of any number of calls interleave, those *)
(* of threads left behind among them, the details of a session exceed its  *)
(* budget by at most one artifact less than were ever pending at once      *)
(* (programs.py: _charge_inference_budget).                                *)
THEOREM DetailsStayWithinBudget == Spec => []OvershootIsBounded
<1>1. Init => CallsInv /\ BudgetInv
  BY CallsInit, BudgetInit
<1>2. CallsInv /\ BudgetInv /\ [Next]_vars => CallsInv' /\ BudgetInv'
  BY CallsStep, BudgetStep
<1>3. CallsInv /\ BudgetInv => OvershootIsBounded
  <2> SUFFICES ASSUME CallsInv, BudgetInv PROVE OvershootIsBounded
    OBVIOUS
  <2>1. RunsTyped /\ overlap \in Nat
    BY DEF CallsInv, RunsTyped
  <2>2. DetailSizes \in Nat /\ Owed \in Nat /\ Allowed(overlap) \in Nat
    BY <2>1, DetailFacts, OwedFacts, AllowedFacts
  <2>3. DetailSizes <= Allowed(overlap)
    BY <2>2 DEF BudgetInv
  <2>4. overlap = 0 => DetailSizes = 0
    BY <2>2, <2>3 DEF Allowed
  <2>5. overlap # 0 => DetailSizes <= Budget + (overlap - 1) * Max(Sizes)
    BY <2>3 DEF Allowed
  <2> QED BY <2>4, <2>5 DEF OvershootIsBounded, DetailSizes, Details
<1> QED BY <1>1, <1>2, <1>3, PTL DEF Spec
==============================================================================
