----------------------------- MODULE TaskTable ------------------------------
(***************************************************************************)
(* The tasks and events tables of store.py and the transactions that write *)
(* them.  SQLite runs one writing transaction at a time and commits it as  *)
(* a whole, so a "with self._conn" block is one step; the SELECT that      *)
(* precedes it in a method runs outside the transaction, so a method is    *)
(* two steps, and what it read may be stale when it writes.  The modules   *)
(* that extend this one own those two steps.                               *)
(***************************************************************************)
EXTENDS Domain, Trail

CONSTANTS Tasks,      \* task ids (uuid4: never reused)
          Heads,      \* candidate commits a provider may produce
          NoHead      \* head_sha IS NULL

ASSUME NoHeadAssumption == NoHead \notin Heads

VARIABLES state,      \* state[t]: tasks.state, Absent without a row
          head,       \* head[t]: tasks.head_sha
          events      \* events[t]: rows of the events table, by event_id

tables == <<state, head, events>>

(***************************************************************************)
(* Audit events.  Payload fields no property reads are left out.           *)
(***************************************************************************)
TaskCreated == [type |-> "TASK_CREATED", to |-> "PENDING"]
StateTransition(from, to) ==
  [type |-> "STATE_TRANSITION", from |-> from, to |-> to]
CandidateHeadSet(h) == [type |-> "CANDIDATE_HEAD_SET", head |-> h]
RowRecorded(type) == [type |-> type]

Log(t, e) == events' = [events EXCEPT ![t] = Append(@, e)]

TablesInit ==
  /\ state = [t \in Tasks |-> Absent]
  /\ head = [t \in Tasks |-> NoHead]
  /\ events = [t \in Tasks |-> <<>>]

(***************************************************************************)
(* Transactions.                                                           *)
(***************************************************************************)
CreateTaskTxn(t) ==
  /\ state[t] = Absent
  /\ state' = [state EXCEPT ![t] = "PENDING"]
  /\ Log(t, TaskCreated)
  /\ UNCHANGED head

\* mutant: the UPDATE without AND state=from
TransitionTxnUnguarded(t, from, to) ==
  /\ state[t] # Absent
  /\ state' = [state EXCEPT ![t] = to]
  /\ Log(t, StateTransition(from, to))
  /\ UNCHANGED head

\* UPDATE tasks SET state=to WHERE task_id=t AND state=from, rowcount = 1
TransitionTxn(t, from, to) ==
  /\ state[t] = from
  /\ state' = [state EXCEPT ![t] = to]
  /\ Log(t, StateTransition(from, to))
  /\ UNCHANGED head

\* mutant: the UPDATE without AND state='RUNNING'
SetHeadTxnUnguarded(t, h) ==
  /\ head' = [head EXCEPT ![t] = h]
  /\ Log(t, CandidateHeadSet(h))
  /\ UNCHANGED state

\* mutant: the event carries the head the method read
SetHeadTxnLogsOld(t, h) ==
  /\ state[t] = "RUNNING"
  /\ head' = [head EXCEPT ![t] = h]
  /\ Log(t, CandidateHeadSet(head[t]))
  /\ UNCHANGED state

\* UPDATE tasks SET head_sha=h WHERE task_id=t AND state='RUNNING', rowcount = 1
SetHeadTxn(t, h) ==
  /\ state[t] = "RUNNING"
  /\ head' = [head EXCEPT ![t] = h]
  /\ Log(t, CandidateHeadSet(h))
  /\ UNCHANGED state

\* INSERT of a row of another table together with its audit event
RecordTxn(t, e) ==
  /\ state[t] # Absent
  /\ Log(t, e)
  /\ UNCHANGED <<state, head>>

(***************************************************************************)
(* Reading the audit trail back.                                           *)
(***************************************************************************)
StateEvents == {"TASK_CREATED", "STATE_TRANSITION"}
HeadEvents == {"CANDIDATE_HEAD_SET"}

\* after its first n events the log says the task is in state s
LogSays(log, n, s) ==
  \E i \in 1..n : IsLatest(log, StateEvents, i, n) /\ log[i].to = s

\* the log reads back as a row in state s with candidate head h
ReadsBackAs(log, s, h) ==
  LET n == Len(log) IN
  /\ s = Absent => n = 0
  /\ s # Absent => LogSays(log, n, s)
  /\ h = NoHead => \A i \in 1..n : log[i].type \notin HeadEvents
  /\ h # NoHead =>
       \E i \in 1..n : IsLatest(log, HeadEvents, i, n) /\ log[i].head = h

\* the j-th event follows from the events before it
Follows(log, j) ==
  LET e == log[j] IN
  /\ e.type = "STATE_TRANSITION" =>
       LogSays(log, j - 1, e.from) /\ TransitionAllowed(e.from, e.to)
  /\ e.type = "CANDIDATE_HEAD_SET" => LogSays(log, j - 1, "RUNNING")

Unbroken(log) == \A j \in 1..Len(log) : Follows(log, j)

(***************************************************************************)
(* The audit trail reproduces the tasks row: the last state event names    *)
(* the current state, the last head event the current head, and a task     *)
(* without a row has no events.  A writer that logs one thing and stores   *)
(* another, or stores over a row that moved since it was read, breaks it.  *)
(***************************************************************************)
TrailMatchesRow == \A t \in Tasks : ReadsBackAs(events[t], state[t], head[t])

(***************************************************************************)
(* The audit trail is an unbroken legal history: every recorded transition *)
(* starts where the trail had left the task and follows a legal edge, and  *)
(* every recorded head was set while the trail says RUNNING.  It fails as  *)
(* soon as one writer acts on a state another writer has changed.          *)
(***************************************************************************)
TrailIsUnbroken == \A t \in Tasks : Unbroken(events[t])
=============================================================================
