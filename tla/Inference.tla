------------------------------ MODULE Inference ------------------------------
(***************************************************************************)
(* The evidence of model calls (adapters/programs.py: InstrumentedModel).  *)
(* The runner invokes an agent for one work: a participant, the revision   *)
(* it was shown and the generation it acts under.  The agent calls its     *)
(* model, and each call is a chain of transactions: charge and store the   *)
(* detail of the request, record the request, ask the provider, charge and *)
(* store the detail of the response, record the response.  The authority   *)
(* may be transferred between any two of them, and nothing ends an agent   *)
(* the runner has given up on (runner.py: run): it calls on, while the     *)
(* session moves to the next revision and the participant is invoked for   *)
(* that one.                                                               *)
(***************************************************************************)
EXTENDS Access, FiniteSets, FiniteSetsExt, SequencesExt

CONSTANTS
  Level,     \* the frozen capture level: "none", "summary" or "training"
  Budget,    \* max_inference_artifact_bytes
  Sizes,     \* sizes of a detail that does not fit its event
  MaxRevision,   \* bound on resolutions
  MaxInvoked,    \* bound on the works dispatched
  MaxCalls       \* bound on the calls of all of them

ASSUME InferenceAssumption ==
  /\ Level \in {"none", "summary", "training"}
  /\ IsFiniteSet(Participants) /\ Participants # {}   \* contracts.py: min_length=1
  /\ Sizes \subseteq Nat \ {0} /\ IsFiniteSet(Sizes) /\ Sizes # {}
  /\ Budget \in Nat /\ MaxRevision \in Nat /\ MaxInvoked \in Nat
  /\ MaxCalls \in Nat

VARIABLES
  revision,    \* of the session
  inference,   \* work -> where the agent invoked for it stands
  overlap,     \* history: the most charges ever made and not yet stored at once
  artifacts,   \* the session's JSON artifacts: whose, for what, how large
  evidence     \* participant -> its model events in the session's log, in order

inferenceVars ==
  <<members, credentials, issuing, remote, revision, inference, overlap, artifacts, evidence>>

Works == [participant : Participants, revision : 0..MaxRevision, generation : Generations]
Work(p, r, g) == [participant |-> p, revision |-> r, generation |-> g]
\* The context the agent was handed.
AuthorityOf(work) == Context("participant", work.participant, work.generation)
CallId(work, ordinal) == [work |-> work, ordinal |-> ordinal]

\* Where the agent of a work stands; "none": it was not invoked, "free": it
\* is not calling its model, for now or for good.
Storing == [request |-> "storing request", response |-> "storing response"]
Recording == [request |-> "recording request", response |-> "recording response"]
Steps == {"none", "free", "request", "response"} \cup
         {Storing.request, Storing.response, Recording.request, Recording.response}
BeforeRequest == {"request", Storing.request, Recording.request}
Outside(step) == [step |-> step, ordinal |-> 0, id |-> 0, size |-> 0]
\* The call returned or raised; the agent may call again.
Returned(run) == [run EXCEPT !.step = "free", !.id = 0, !.size = 0]

InferenceTypeOK ==
  /\ AccessTypeOK
  /\ revision \in 0..MaxRevision /\ overlap \in Nat
  /\ inference \in [Works ->
       [step : Steps, ordinal : 0..MaxCalls, id : 0..MaxCalls, size : {0} \cup Sizes]]
  /\ \A a \in artifacts : a.size \in Sizes /\ a.purpose \in {"request", "response", "upload"}
  /\ evidence \in [Participants -> Seq([kind : {"request", "response", "failure"},
       call : [work : Works, ordinal : 0..MaxCalls]])]

InferenceInit ==
  /\ AccessInit
  /\ revision = 0 /\ overlap = 0
  /\ inference = [w \in Works |-> Outside("none")]
  /\ artifacts = {} /\ evidence = [p \in Participants |-> <<>>]

Spent == MapThenSumSet(LAMBDA a : a.size, artifacts)
\* Mutant: a participant is charged for its own artifacts only.
Charged_OwnOnly(work) ==
  MapThenSumSet(LAMBDA a : a.size, {a \in artifacts : a.call.work.participant = work.participant})
\* The sum over the session that a charge reads.
Charged(work) == Spent

\* The ordinal of the next call for this work, taken by this one.
\* Mutant: the sequence is read and not advanced.
NextOrdinal_Same(run) == run.ordinal
NextOrdinal(run) == run.ordinal + 1

\* A work is dispatched once, while it is the participant's present one.
Invoke(p) ==
  LET work == Work(p, revision, members[p].generation)
  IN /\ inference[work].step = "none"
     /\ Cardinality({w \in Works : inference[w].step # "none"}) < MaxInvoked
     /\ Permits(AuthorityOf(work), "participant.act")
     /\ inference' = [inference EXCEPT ![work] = Outside("free")]
     /\ UNCHANGED <<members, credentials, issuing, remote, revision, overlap, artifacts, evidence>>

\* A call breaks off anywhere: its process is lost, or what the provider
\* raises is no Exception.
Break(work) ==
  /\ inference[work].step \notin {"none", "free"}
  /\ inference' = [inference EXCEPT ![work] = Returned(@)]
  /\ UNCHANGED <<members, credentials, issuing, remote, revision, overlap, artifacts, evidence>>

\* The session goes on to the next revision, whoever resolves it.
Resolve ==
  /\ revision < MaxRevision
  /\ revision' = revision + 1
  /\ UNCHANGED <<members, credentials, issuing, remote, inference, overlap, artifacts, evidence>>

Calls(p, kinds) == {evidence[p][i].call : i \in {j \in DOMAIN evidence[p] : evidence[p][j].kind \in kinds}}

\* The policy is read; at level "none" the provider is asked and nothing recorded.
Call(work) ==
  LET run == inference[work]
  IN /\ run.step = "free"
     /\ MapThenSumSet(LAMBDA w : inference[w].ordinal, Works) < MaxCalls
     /\ Permits(AuthorityOf(work), "session.read")
     /\ Level # "none"
     /\ inference' = [inference EXCEPT ![work] =
          [@ EXCEPT !.step = "request", !.id = run.ordinal, !.ordinal = NextOrdinal(run)]]
     /\ UNCHANGED <<members, credentials, issuing, remote, revision, overlap, artifacts, evidence>>

\* Charges made and not yet stored.
Pending == {w \in Works : inference[w].step \in {Storing.request, Storing.response}}

\* What is larger than its event is charged, at any level; the sum is read
\* in one transaction and the artifact written in another.
Charge(work, purpose) ==
  LET run == inference[work]
  IN /\ run.step = purpose
     /\ \/ /\ Permits(AuthorityOf(work), "session.read")
           /\ inference' = [inference EXCEPT ![work] = [run EXCEPT !.step = Recording[purpose]]]
           /\ UNCHANGED overlap
        \/ \E size \in Sizes :
             IF Permits(AuthorityOf(work), "artifact.write") /\ Charged(work) + size <= Budget
             THEN /\ inference' = [inference EXCEPT ![work] = [run EXCEPT !.step = Storing[purpose], !.size = size]]
                  /\ overlap' = Max({overlap, Cardinality(Pending) + 1})
             ELSE inference' = [inference EXCEPT ![work] = Returned(run)] /\ UNCHANGED overlap
     /\ UNCHANGED <<members, credentials, issuing, remote, revision, artifacts, evidence>>

\* Stored, or refused as too large or for its authority.  What is then left
\* for the event may still be too large; without a detail to leave out, at
\* level "summary", it always is.
Store(work, purpose) ==
  LET run == inference[work]
  IN /\ run.step = Storing[purpose]
     /\ \/ /\ Permits(AuthorityOf(work), "artifact.write")
           /\ artifacts' = artifacts \cup
                {[call |-> CallId(work, run.id), purpose |-> purpose, size |-> run.size]}
           /\ Level = "training"
           /\ inference' = [inference EXCEPT ![work] = [run EXCEPT !.step = Recording[purpose], !.size = 0]]
        \/ /\ Permits(AuthorityOf(work), "artifact.write")
           /\ artifacts' = artifacts \cup
                {[call |-> CallId(work, run.id), purpose |-> purpose, size |-> run.size]}
           /\ inference' = [inference EXCEPT ![work] = Returned(run)]
        \/ inference' = [inference EXCEPT ![work] = Returned(run)] /\ UNCHANGED artifacts
     /\ UNCHANGED <<members, credentials, issuing, remote, revision, overlap, evidence>>

\* One event, under the authority its transaction asks for.
Record(work, kind, action, next) ==
  LET run == inference[work]
  IN /\ IF Permits(AuthorityOf(work), action)
        THEN /\ evidence' = [evidence EXCEPT ![work.participant] =
                  Append(@, [kind |-> kind, call |-> CallId(work, run.id)])]
             /\ inference' = [inference EXCEPT ![work] = next]
        ELSE inference' = [inference EXCEPT ![work] = Returned(run)] /\ UNCHANGED evidence
     /\ UNCHANGED <<members, credentials, issuing, remote, revision, overlap, artifacts>>

Requested(work) ==
  /\ inference[work].step = Recording.request
  /\ Record(work, "request", "participant.act", [inference[work] EXCEPT !.step = "response"])

\* The provider failed, or answered outside its schema; an answer is charged.
Failed(work) ==
  /\ inference[work].step = "response"
  /\ Record(work, "failure", "session.read", Returned(inference[work]))

Responded(work) ==
  /\ inference[work].step = Recording.response
  /\ Record(work, "response", "session.read", Returned(inference[work]))

\* A JSON artifact a participant uploads is summed with the details and
\* charged by none of them.
Upload(p) ==
  /\ remote[p] # Absent
  /\ remote' = [remote EXCEPT ![p] = Absent]
  /\ IF Permits(remote[p], "artifact.write")
     THEN \E size \in Sizes :
            artifacts' = artifacts \cup
              {[call |-> CallId(Work(remote[p].participant, 0, remote[p].generation), 0),
                purpose |-> "upload", size |-> size]}
     ELSE UNCHANGED artifacts
  /\ UNCHANGED <<members, credentials, issuing, revision, inference, overlap, evidence>>

InferenceStep(work) ==
  \/ Call(work) \/ Requested(work) \/ Failed(work) \/ Responded(work) \/ Break(work)
  \/ \E purpose \in {"request", "response"} : Charge(work, purpose) \/ Store(work, purpose)
------------------------------------------------------------------------------
(* The log pairs up (programs.py: InstrumentedModel.call), whoever else    *)
(* calls for the same participant: a request is recorded once for its      *)
(* call; at most one outcome names it, later in the log; and the detail of *)
(* a response is kept for no call that was not requested.  A request may   *)
(* stay without an outcome: its agent may die, lose its authority, or have *)
(* the detail of its answer refused.                                       *)
EvidencePairsUp ==
  /\ \A p \in Participants :
       LET log == evidence[p]
       IN \A i \in DOMAIN log :
            /\ \A j \in 1..(i - 1) :
                 log[i].call = log[j].call => log[i].kind # "request" /\ log[j].kind = "request"
            /\ log[i].kind # "request"
                 => \E j \in 1..(i - 1) : log[j] = [kind |-> "request", call |-> log[i].call]
  /\ \A a \in artifacts :
       a.purpose = "response" => a.call \in Calls(a.call.work.participant, {"request"})

(* The details of all calls of a session stay within its budget but for    *)
(* one detail less than were ever charged and not yet stored at once       *)
(* (programs.py: _charge_inference_budget and the artifact it precedes are *)
(* two transactions): calls that take turns never exceed it, and threads   *)
(* the runner has left behind count with those it has started since.       *)
OvershootIsBounded ==
  LET details == MapThenSumSet(LAMBDA a : a.size, {a \in artifacts : a.purpose # "upload"})
  IN IF overlap = 0 THEN details = 0
     ELSE details <= Budget + (overlap - 1) * Max(Sizes)

(* What is added to the log or to the artifacts is added under the         *)
(* participant's authority of that moment (store.py: environment), however *)
(* long ago the context or the credential was made: a call that outlives a *)
(* transfer leaves nothing behind.                                         *)
AuthorityIsCurrent ==
  [][\A call \in {Last(evidence'[p]).call : p \in {q \in Participants : evidence'[q] # evidence[q]}}
                  \cup {a.call : a \in artifacts' \ artifacts} :
       Current(AuthorityOf(call.work))]_inferenceVars
==============================================================================
