----------------------------- MODULE TaskLedger -----------------------------
(***************************************************************************)
(* What HarnessStore promises its callers about a task, whatever the       *)
(* number of processes that share the database file: tasks are created     *)
(* PENDING and never disappear, move one legal edge at a time, and receive *)
(* a candidate head only while they are RUNNING.  Every operation is one   *)
(* indivisible step; the modules that split them into reads and guarded    *)
(* writes are shown to implement this one.                                 *)
(***************************************************************************)
EXTENDS Domain

CONSTANTS Tasks,    \* task ids
          Heads,    \* candidate commits
          NoHead    \* head_sha IS NULL

VARIABLES state,    \* state[t]: tasks.state, or Absent
          head      \* head[t]: tasks.head_sha

ledger == <<state, head>>

Init ==
  /\ state = [t \in Tasks |-> Absent]
  /\ head = [t \in Tasks |-> NoHead]

Create(t) ==
  /\ state[t] = Absent
  /\ state' = [state EXCEPT ![t] = "PENDING"]
  /\ UNCHANGED head

Move(t, to) ==
  /\ state[t] # Absent
  /\ TransitionAllowed(state[t], to)
  /\ state' = [state EXCEPT ![t] = to]
  /\ UNCHANGED head

SetHead(t, h) ==
  /\ state[t] = "RUNNING"
  /\ head' = [head EXCEPT ![t] = h]
  /\ UNCHANGED state

Next ==
  \E t \in Tasks :
    \/ Create(t)
    \/ \E to \in TaskState : Move(t, to)
    \/ \E h \in Heads : SetHead(t, h)

Spec == Init /\ [][Next]_ledger
=============================================================================
