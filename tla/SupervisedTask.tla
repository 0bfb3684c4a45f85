--------------------------- MODULE SupervisedTask ---------------------------
(***************************************************************************)
(* What supervision promises about a task, whatever the number of calls,   *)
(* reads and transactions it takes: a driver works on a task as long as    *)
(* nothing is asked about it, then parks it with one question; the latest  *)
(* answers, policy and the state of the task decide what becomes of it,    *)
(* and the decision, the end of the question and the new state are one     *)
(* step.  A task that was refused is never asked about or moved again.     *)
(***************************************************************************)
EXTENDS Governance

CONSTANT Tasks

VARIABLES state,        \* state[t]: where the task is, or Absent
          gate,         \* gate[t]: the checkpoint open on t, a set of one or none
          human,        \* human[t]: what a human last said about it, likewise
          supervisor,   \* supervisor[t]: what a supervisor last said about it
          refused       \* refused[t]: was t blocked by a human's answer?

task == <<state, gate, human, supervisor, refused>>

Init ==
  /\ state = [t \in Tasks |-> Absent]
  /\ gate = [t \in Tasks |-> {}]
  /\ human = [t \in Tasks |-> {}]
  /\ supervisor = [t \in Tasks |-> {}]
  /\ refused = [t \in Tasks |-> FALSE]

Enter(t, to) == state' = [state EXCEPT ![t] = to]

Create(t) ==
  /\ state[t] = Absent
  /\ Enter(t, "PENDING")
  /\ UNCHANGED <<gate, human, supervisor, refused>>

Work(t, to) ==
  /\ gate[t] = {} /\ state[t] \in {"PENDING", "RUNNING", "VERIFYING"}
  /\ TransitionAllowed(state[t], to)
  /\ Enter(t, to)
  /\ UNCHANGED <<gate, human, supervisor, refused>>

Park(t, cp) ==
  /\ gate[t] = {} /\ ~refused[t]
  /\ state[t] = IF cp = "candidate_ready" THEN "READY" ELSE "BLOCKED"
  /\ gate' = [gate EXCEPT ![t] = {cp}]
  /\ UNCHANGED <<state, human, supervisor, refused>>

HumanSays(t, d) ==
  /\ gate[t] # {}
  /\ human' = [human EXCEPT ![t] = {d}]
  /\ UNCHANGED <<state, gate, supervisor, refused>>

SupervisorSays(t, d) ==
  /\ gate[t] # {}
  /\ supervisor' = [supervisor EXCEPT ![t] = {d}]
  /\ UNCHANGED <<state, gate, human, refused>>

(***************************************************************************)
(* A human's answer prevails over a supervisor's.                          *)
(***************************************************************************)
HumanGrants(t) ==
  human[t] = {"APPROVED"} /\ \E cp \in gate[t] : HumanMayGrant(cp)
SupervisorGrants(t) ==
  /\ human[t] = {} /\ supervisor[t] = {"CONTINUE_AUTONOMOUSLY"}
  /\ TransitionAllowed(state[t], "RUNNING")
  /\ \E cp \in gate[t] : SupervisorMayGrant(cp)

Close(t) ==
  /\ gate' = [gate EXCEPT ![t] = {}]
  /\ human' = [human EXCEPT ![t] = {}]
  /\ supervisor' = [supervisor EXCEPT ![t] = {}]

Resume(t) ==
  /\ HumanGrants(t) \/ SupervisorGrants(t)
  /\ Enter(t, "RUNNING") /\ Close(t)
  /\ UNCHANGED refused

Refuse(t) ==
  /\ gate[t] # {} /\ human[t] # {} /\ ~HumanGrants(t)
  /\ Enter(t, "BLOCKED") /\ Close(t)
  /\ refused' = [refused EXCEPT ![t] = TRUE]

Escalate(t) ==
  /\ gate[t] # {} /\ human[t] = {} /\ supervisor[t] # {} /\ ~SupervisorGrants(t)
  /\ Enter(t, "WAITING_HUMAN")
  /\ UNCHANGED <<gate, human, supervisor, refused>>

Step(t) ==
  \/ Create(t) \/ Resume(t) \/ Refuse(t) \/ Escalate(t)
  \/ \E to \in TaskState : Work(t, to)
  \/ \E cp \in Checkpoint : Park(t, cp)
  \/ \E d \in HumanKinds : HumanSays(t, d)
  \/ \E d \in SupervisorKinds : SupervisorSays(t, d)

Next == \E t \in Tasks : Step(t)

Spec == Init /\ [][Next]_task
=============================================================================
