---------------------------- MODULE CommandAgent -----------------------------
(***************************************************************************)
(* An agent that is a command (adapters/programs.py: CommandAgent,         *)
(* adapters/_subprocess.py): a process group per decision, whose leader    *)
(* may exit before the processes it started.                               *)
(***************************************************************************)
CONSTANT Agents

VARIABLES
  program,   \* agent -> its process group and what it printed
  act        \* agent -> its call

vars == <<program, act>>

\* "held": a started process keeps the output open; "silent": it does not.
Helpers == {"none", "silent", "held"}
TypeOK ==
  /\ program \in [Agents -> [leader : {"none", "running", "failed", "succeeded"},
                             helper : Helpers, output : {"none", "answer", "other"}]]
  /\ act \in [Agents -> [stage : {"idle", "running", "ending", "answered", "failed"},
                         result : BOOLEAN]]

Init ==
  /\ program = [a \in Agents |-> [leader |-> "none", helper |-> "none", output |-> "none"]]
  /\ act = [a \in Agents |-> [stage |-> "idle", result |-> FALSE]]

Leads(a) == program[a].leader = "running"
Writes(a) == Leads(a) \/ program[a].helper = "held"

\* A cancelled call starts no process.
Spawn(a) ==
  /\ act[a].stage \in {"idle", "answered", "failed"}
  /\ \/ /\ program' = [program EXCEPT ![a] = [leader |-> "running", helper |-> "none", output |-> "none"]]
        /\ act' = [act EXCEPT ![a] = [stage |-> "running", result |-> FALSE]]
     \/ act' = [act EXCEPT ![a] = [stage |-> "failed", result |-> FALSE]] /\ UNCHANGED program

\* What is printed so far is an answer or is not; anyone with the pipe adds to it.
WriteOut(a) ==
  /\ Writes(a)
  /\ \E output \in {"answer", "other"} \ {program[a].output} :
       program' = [program EXCEPT ![a].output = output]
  /\ UNCHANGED act

\* The leader starts a process, or exits with its code.
Fork(a) ==
  /\ Leads(a) /\ program[a].helper = "none"
  /\ \E helper \in {"silent", "held"} : program' = [program EXCEPT ![a].helper = helper]
  /\ UNCHANGED act
Exit(a) ==
  /\ Leads(a)
  /\ \E code \in {"failed", "succeeded"} : program' = [program EXCEPT ![a].leader = code]
  /\ UNCHANGED act
HelperEnds(a) ==
  /\ program[a].helper # "none"
  /\ program' = [program EXCEPT ![a].helper = "none"]
  /\ UNCHANGED act

\* The output is closed and the leader has exited.
Collect(a) ==
  /\ act[a].stage = "running" /\ ~Writes(a)
  /\ act' = [act EXCEPT ![a] =
       [stage |-> "ending", result |-> program[a].leader = "succeeded" /\ program[a].output = "answer"]]
  /\ UNCHANGED program

\* Cancelled, overdue, or more output than the limit.
GiveUp(a) ==
  /\ act[a].stage = "running"
  /\ act' = [act EXCEPT ![a].stage = "ending"]
  /\ UNCHANGED program

\* Mutant: the group is stopped only while its leader runs.
Terminated_WithLeader(group) ==
  [group EXCEPT !.helper = IF group.leader = "running" THEN "none" ELSE @,
                !.leader = IF @ = "running" THEN "failed" ELSE @]
\* Whatever is left of the group, after success too.
Terminated(group) ==
  [leader |-> IF group.leader = "running" THEN "failed" ELSE group.leader,
   helper |-> "none", output |-> group.output]
Terminate(a) ==
  /\ act[a].stage = "ending"
  /\ program' = [program EXCEPT ![a] = Terminated(@)]
  /\ act' = [act EXCEPT ![a].stage = IF act[a].result THEN "answered" ELSE "failed"]

Caller(a) == Collect(a) \/ GiveUp(a) \/ Terminate(a)
Program(a) == WriteOut(a) \/ Fork(a) \/ Exit(a) \/ HelperEnds(a)

(* Nothing an agent started outlives its call (_subprocess.py: "The group  *)
(* may outlive its leader.  Always clean descendants, including after      *)
(* success."): not the leader, and not what it left behind.                *)
NoProgramOutlivesItsCall ==
  \A a \in Agents :
    act[a].stage \in {"idle", "answered", "failed"} => ~Leads(a) /\ program[a].helper = "none"
==============================================================================
