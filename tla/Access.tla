------------------------------- MODULE Access --------------------------------
(***************************************************************************)
(* Whose authority a call carries (access.py, store.py, the credential     *)
(* routes of server.py and harness.py).  A context holds a policy of the   *)
(* server's and, for a participant, the generation it was made for.  It    *)
(* outlives the transaction that made it: every later transaction checks   *)
(* it against the session as it then stands.  A controller changes only    *)
(* together with its generation and is left out.                           *)
(***************************************************************************)
EXTENDS Naturals, Sequences, FiniteSetsExt

CONSTANTS
  Participants,
  Anyone,          \* a context that is no participant's
  MaxGeneration,   \* bound on transfers, of all participants together
  MaxTokens        \* bound on credentials

ASSUME AccessAssumption ==
  /\ Anyone \notin Participants
  /\ MaxGeneration \in Nat /\ MaxTokens \in Nat

VARIABLES
  members,       \* participant -> its generation and whether it is active
  credentials,   \* the rows, in order of issue
  issuing,       \* participant -> the generation an issue has read, not yet inserted
  remote         \* participant -> the context of its HTTP request, if one runs

accessVars == <<members, credentials, issuing, remote>>

Generations == 0..MaxGeneration
Policies == {"trusted-local", "admin", "viewer", "participant"}
Reads == {"session.read", "evidence.read.full"}
ParticipantActions == {"session.read", "participant.act", "artifact.write"}
Actions == Reads \cup ParticipantActions \cup {"session.control", "credential.issue"}
PolicyActions ==
  [policy \in Policies |->
     CASE policy = "trusted-local" -> Actions
       [] policy = "admin" -> Actions \ {"participant.act"}
       [] policy = "viewer" -> Reads
       [] OTHER -> ParticipantActions]

Context(policy, p, g) == [policy |-> policy, participant |-> p, generation |-> g]
Contexts == [policy : Policies, participant : Participants \cup {Anyone}, generation : Generations]
Absent == Context("viewer", Anyone, 0)

AccessTypeOK ==
  /\ members \in [Participants -> [generation : Generations, active : BOOLEAN]]
  /\ \A t \in DOMAIN credentials : credentials[t] \in [context : Contexts, valid : BOOLEAN]
  /\ issuing \in [Participants -> Generations \cup {MaxGeneration + 1}]
  /\ remote \in [Participants -> Contexts]

AccessInit ==
  /\ members = [p \in Participants |-> [generation |-> 0, active |-> TRUE]]
  /\ credentials = <<>>
  /\ issuing = [p \in Participants |-> MaxGeneration + 1]
  /\ remote = [p \in Participants |-> Absent]

Current(ctx) ==
  ctx.participant # Anyone =>
    members[ctx.participant] = [generation |-> ctx.generation, active |-> TRUE]

\* Mutant: a context is good for as long as its policy is.
Permits_PolicyOnly(ctx, action) == action \in PolicyActions[ctx.policy]
\* What every transaction checks of the context it was handed.
Permits(ctx, action) == action \in PolicyActions[ctx.policy] /\ Current(ctx)

\* The context the runner gives an agent: the participant as it is now.
ParticipantContext(p) == Context("participant", p, members[p].generation)

Transfer(p) ==
  /\ MapThenSumSet(LAMBDA q : members[q].generation, Participants) < MaxGeneration
  /\ \E active \in BOOLEAN :
       /\ active \/ \E q \in Participants \ {p} : members[q].active
       /\ members' = [members EXCEPT ![p] = [generation |-> @.generation + 1, active |-> active]]
  /\ UNCHANGED <<credentials, issuing, remote>>

\* Issuing reads the member in one transaction and inserts in another.
ReadMember(p) ==
  /\ issuing[p] = MaxGeneration + 1 /\ Len(credentials) < MaxTokens
  /\ issuing' = [issuing EXCEPT ![p] = members[p].generation]
  /\ UNCHANGED <<members, credentials, remote>>

Issue(p) ==
  /\ issuing[p] # MaxGeneration + 1 /\ Len(credentials) < MaxTokens
  /\ credentials' = Append(credentials,
       [context |-> Context("participant", p, issuing[p]), valid |-> TRUE])
  /\ issuing' = [issuing EXCEPT ![p] = MaxGeneration + 1]
  /\ UNCHANGED <<members, remote>>

Expire ==
  /\ \E t \in DOMAIN credentials :
       credentials[t].valid /\ credentials' = [credentials EXCEPT ![t].valid = FALSE]
  /\ UNCHANGED <<members, issuing, remote>>

\* A request is authenticated before, and apart from, what it then does.
Authenticate(p) ==
  /\ remote[p] = Absent
  /\ \E t \in DOMAIN credentials :
       /\ credentials[t].valid /\ credentials[t].context.participant = p
       /\ remote' = [remote EXCEPT ![p] = credentials[t].context]
  /\ UNCHANGED <<members, credentials, issuing>>
==============================================================================
