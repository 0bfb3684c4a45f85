------------------------------- MODULE Domain -------------------------------
(***************************************************************************)
(* The task state machine of domain.py: the states a row of the tasks      *)
(* table can hold and the edges transition_task accepts.                   *)
(***************************************************************************)

TaskState == {"PENDING", "RUNNING", "VERIFYING", "READY", "WAITING_HUMAN",
              "BLOCKED", "INTERRUPTED", "FAILED", "DONE"}

LegalTransitions ==
  [PENDING       |-> {"RUNNING", "BLOCKED"},
   RUNNING       |-> {"VERIFYING", "INTERRUPTED", "BLOCKED", "FAILED"},
   VERIFYING     |-> {"READY", "RUNNING", "BLOCKED", "FAILED"},
   READY         |-> {"WAITING_HUMAN", "DONE"},
   WAITING_HUMAN |-> {"RUNNING", "DONE", "BLOCKED"},
   INTERRUPTED   |-> {"RUNNING", "BLOCKED", "FAILED"},
   BLOCKED       |-> {"RUNNING", "WAITING_HUMAN", "FAILED"},
   FAILED        |-> {},
   DONE          |-> {}]

TransitionAllowed(current, target) == target \in LegalTransitions[current]

Absent == "ABSENT"                     \* no row of the tasks table has this id
RowState == TaskState \cup {Absent}
=============================================================================
