---------------------------- MODULE HarnessStore ----------------------------
(***************************************************************************)
(* The task methods of HarnessStore, called by several connections to one  *)
(* database file (processes that each opened a HarnessStore).  A method is *)
(* a read, a decision on what was read, and a guarded transaction; between *)
(* the two any other connection may commit.  A call that raises before it  *)
(* writes (illegal transition, wrong state, unknown task) leaves nothing   *)
(* behind and is no step.                                                  *)
(***************************************************************************)
EXTENDS TaskTable

CONSTANTS Conns,      \* connections: one per process that opened the store
          MaxEvents   \* bound: no call starts on a task with this many events

ASSUME MaxEventsAssumption == MaxEvents \in Nat

VARIABLE call         \* call[c]: the locals of the method c is executing

vars == <<tables, call>>

NoCall == [op |-> "none"]
TransitionCall(t, from, to) ==
  [op |-> "transition_task", task |-> t, from |-> from, to |-> to]
HeadCall(t, h) == [op |-> "set_head_sha", task |-> t, head |-> h]

Call == {NoCall}
   \cup [op : {"transition_task"}, task : Tasks, from : TaskState, to : TaskState]
   \cup [op : {"set_head_sha"}, task : Tasks, head : Heads]

RowEventTypes == {"PROVIDER_ATTEMPT_RECORDED", "EVIDENCE_RECORDED"}

Event ==
       [type : {"TASK_CREATED"}, to : {"PENDING"}]
  \cup [type : {"STATE_TRANSITION"}, from : TaskState, to : TaskState]
  \cup [type : {"CANDIDATE_HEAD_SET"}, head : Heads]
  \cup [type : RowEventTypes]

Idle(c) == call[c] = NoCall
Room(t) == Len(events[t]) < MaxEvents
Begin(c, locals) == call' = [call EXCEPT ![c] = locals]
Return(c) == call' = [call EXCEPT ![c] = NoCall]

Init ==
  /\ TablesInit
  /\ call = [c \in Conns |-> NoCall]

CreateTask(c, t) ==
  /\ Idle(c)
  /\ CreateTaskTxn(t)
  /\ UNCHANGED call

\* transition_task: get_task, then the legality test on what it returned
TransitionRead(c, t, to) ==
  /\ Idle(c) /\ Room(t)
  /\ state[t] # Absent
  /\ TransitionAllowed(state[t], to)
  /\ Begin(c, TransitionCall(t, state[t], to))
  /\ UNCHANGED tables

TransitionCommit(c) ==
  /\ call[c].op = "transition_task"
  /\ TransitionTxn(call[c].task, call[c].from, call[c].to)
  /\ Return(c)

\* rowcount # 1: "task state changed concurrently", rolled back
TransitionLost(c) ==
  /\ call[c].op = "transition_task"
  /\ state[call[c].task] # call[c].from
  /\ Return(c)
  /\ UNCHANGED tables

\* set_head_sha: get_task, then the test for RUNNING
SetHeadRead(c, t, h) ==
  /\ Idle(c) /\ Room(t)
  /\ state[t] = "RUNNING"
  /\ Begin(c, HeadCall(t, h))
  /\ UNCHANGED tables

SetHeadCommit(c) ==
  /\ call[c].op = "set_head_sha"
  /\ SetHeadTxn(call[c].task, call[c].head)
  /\ Return(c)

SetHeadLost(c) ==
  /\ call[c].op = "set_head_sha"
  /\ state[call[c].task] # "RUNNING"
  /\ Return(c)
  /\ UNCHANGED tables

\* record_provider_attempt, record_evidence: rows are never deleted, so the
\* existence test cannot go stale and the method is one step
RecordRow(c, t, type) ==
  /\ Idle(c) /\ Room(t)
  /\ RecordTxn(t, RowRecorded(type))
  /\ UNCHANGED call

\* the process dies, or SQLite raises after busy_timeout, before the write:
\* the transaction rolls back and the locals are gone
Abandon(c) ==
  /\ ~Idle(c)
  /\ Return(c)
  /\ UNCHANGED tables

Step(c) ==
  \/ \E t \in Tasks :
       \/ CreateTask(c, t)
       \/ \E to \in TaskState : TransitionRead(c, t, to)
       \/ \E h \in Heads : SetHeadRead(c, t, h)
       \/ \E type \in RowEventTypes : RecordRow(c, t, type)
  \/ TransitionCommit(c) \/ TransitionLost(c)
  \/ SetHeadCommit(c) \/ SetHeadLost(c)
  \/ Abandon(c)

Next == \E c \in Conns : Step(c)

Spec == Init /\ [][Next]_vars

-----------------------------------------------------------------------------
TypeOK ==
  /\ state \in [Tasks -> RowState]
  /\ head \in [Tasks -> Heads \cup {NoHead}]
  /\ events \in [Tasks -> Seq(Event)]
  /\ call \in [Conns -> Call]

(***************************************************************************)
(* Every interleaving of reads and guarded writes is a history of          *)
(* indivisible legal operations: no lost update, no move out of FAILED or  *)
(* DONE, no head set outside RUNNING.                                      *)
(***************************************************************************)
Ledger == INSTANCE TaskLedger
LedgerSpec == Ledger!Spec
=============================================================================
