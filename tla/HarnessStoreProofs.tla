------------------------- MODULE HarnessStoreProofs -------------------------
(***************************************************************************)
(* For any number of tasks, connections and events: the store's type       *)
(* invariant, the two audit-trail invariants, and that the interleaved     *)
(* methods implement TaskLedger.  The first part is about the transactions *)
(* of TaskTable alone: what each does to the audit trail, for logs of any  *)
(* length and any kind of event (S).                                       *)
(***************************************************************************)
EXTENDS HarnessStore, TLAPS

\* The log and the row agree, and the log is a legal history.
GoodTrail(log, s, h) == ReadsBackAs(log, s, h) /\ Unbroken(log)

-----------------------------------------------------------------------------
\* Appending an event leaves what the log said before it as it was.
LEMMA AppendKeepsPrefix ==
  ASSUME NEW S, NEW log \in Seq(S), NEW e \in S, NEW T, NEW i,
         NEW n \in 0..Len(log)
  PROVE  IsLatest(Append(log, e), T, i, n) <=> IsLatest(log, T, i, n)
<1>1. \A k \in 1..n : Append(log, e)[k] = log[k]
  OBVIOUS
<1> QED BY <1>1 DEF IsLatest

\* An event whose type is sought is the latest of them when it is appended.
LEMMA AppendIsLatest ==
  ASSUME NEW S, NEW log \in Seq(S), NEW e \in S, NEW T, e.type \in T
  PROVE  IsLatest(Append(log, e), T, Len(log) + 1, Len(log) + 1)
<1>1. /\ Append(log, e)[Len(log) + 1] = e
      /\ Len(log) \in Nat
  OBVIOUS
<1>2. (Len(log) + 1 + 1)..(Len(log) + 1) = {}
  BY <1>1
<1> QED BY <1>1, <1>2 DEF IsLatest

\* An event of another type leaves the latest one where it was.
LEMMA AppendKeepsLatest ==
  ASSUME NEW S, NEW log \in Seq(S), NEW e \in S, NEW T, e.type \notin T,
         NEW i, IsLatest(log, T, i, Len(log))
  PROVE  IsLatest(Append(log, e), T, i, Len(log) + 1)
<1>1. /\ Append(log, e)[Len(log) + 1] = e
      /\ \A k \in 1..Len(log) : Append(log, e)[k] = log[k]
      /\ Len(log) \in Nat
  OBVIOUS
<1>2. i \in 1..Len(log)
  BY DEF IsLatest
<1>3. \A k \in (i + 1)..(Len(log) + 1) :
        k \in (i + 1)..Len(log) \/ k = Len(log) + 1
  BY <1>1, <1>2
<1>4. \A k \in (i + 1)..Len(log) : k \in 1..Len(log)
  BY <1>2
<1> QED BY <1>1, <1>2, <1>3, <1>4 DEF IsLatest

\* What the log said after its first n events, it still says.
LEMMA AppendKeepsSays ==
  ASSUME NEW S, NEW log \in Seq(S), NEW e \in S, NEW s,
         NEW n \in 0..Len(log)
  PROVE  LogSays(Append(log, e), n, s) <=> LogSays(log, n, s)
<1>1. \A i \in 1..n : /\ Append(log, e)[i] = log[i]
                      /\ IsLatest(Append(log, e), StateEvents, i, n)
                           <=> IsLatest(log, StateEvents, i, n)
  BY AppendKeepsPrefix
<1> QED BY <1>1 DEF LogSays

\* A log stays a legal history if the event it gains follows from it.
LEMMA AppendKeepsUnbroken ==
  ASSUME NEW S, NEW log \in Seq(S), NEW e \in S, Unbroken(log),
         e.type = "STATE_TRANSITION" =>
           LogSays(log, Len(log), e.from) /\ TransitionAllowed(e.from, e.to),
         e.type = "CANDIDATE_HEAD_SET" => LogSays(log, Len(log), "RUNNING")
  PROVE  Unbroken(Append(log, e))
<1> DEFINE new == Append(log, e)
<1>1. /\ Len(new) = Len(log) + 1 /\ Len(log) \in Nat
      /\ new[Len(log) + 1] = e
      /\ \A k \in 1..Len(log) : new[k] = log[k]
  OBVIOUS
<1>2. ASSUME NEW j \in 1..Len(log) PROVE Follows(new, j)
  <2>1. Follows(log, j)
    BY DEF Unbroken
  <2>2. new[j] = log[j] /\ j - 1 \in 0..Len(log)
    BY <1>1
  <2>3. \A s : LogSays(new, j - 1, s) <=> LogSays(log, j - 1, s)
    BY <2>2, AppendKeepsSays
  <2> HIDE DEF new
  <2> QED BY <2>1, <2>2, <2>3 DEF Follows
<1>3. Follows(new, Len(log) + 1)
  <2>1. \A s : LogSays(new, Len(log), s) <=> LogSays(log, Len(log), s)
    BY <1>1, AppendKeepsSays
  <2>2. (Len(log) + 1) - 1 = Len(log)
    BY <1>1
  <2> HIDE DEF new
  <2> QED BY <1>1, <2>1, <2>2 DEF Follows
<1> HIDE DEF new
<1>4. \A j \in 1..Len(new) : j \in 1..Len(log) \/ j = Len(log) + 1
  BY <1>1
<1>5. Unbroken(new)
  BY <1>2, <1>3, <1>4 DEF Unbroken
<1> QED BY <1>5 DEF new

-----------------------------------------------------------------------------
\* The log of a task that has just been created.
LEMMA CreateKeepsTrail ==
  ASSUME NEW S, TaskCreated \in S, NEW log \in Seq(S), NEW h,
         GoodTrail(log, Absent, h)
  PROVE  GoodTrail(Append(log, TaskCreated), "PENDING", h)
<1> DEFINE new == Append(log, TaskCreated)
<1>1. log = <<>> /\ Len(log) = 0
  BY DEF GoodTrail, ReadsBackAs
<1>2. Len(new) = 1 /\ new[1] = TaskCreated
  BY <1>1
<1>3. IsLatest(new, StateEvents, 1, 1)
  <2>1. TaskCreated.type \in StateEvents
    BY DEF TaskCreated, StateEvents
  <2>2. IsLatest(new, StateEvents, Len(log) + 1, Len(log) + 1)
    BY <2>1, AppendIsLatest
  <2>3. Len(log) + 1 = 1
    BY <1>1
  <2> HIDE DEF new
  <2> QED BY <2>2, <2>3
<1>4. LogSays(new, 1, "PENDING")
  BY <1>2, <1>3 DEF LogSays, TaskCreated
<1>5. h = NoHead
  BY <1>1 DEF GoodTrail, ReadsBackAs
<1>6. ReadsBackAs(new, "PENDING", h)
  <2> HIDE DEF new
  <2> QED BY <1>2, <1>4, <1>5 DEF ReadsBackAs, Absent, TaskCreated, HeadEvents
<1>7. Unbroken(new)
  BY AppendKeepsUnbroken DEF GoodTrail, TaskCreated
<1> QED BY <1>6, <1>7 DEF GoodTrail

\* A log in state s that gains an event of neither kind still reads the same.
LEMMA RowKeepsTrail ==
  ASSUME NEW S, NEW log \in Seq(S), NEW e \in S, NEW s, NEW h,
         s # Absent, GoodTrail(log, s, h),
         e.type \notin StateEvents \cup HeadEvents
  PROVE  GoodTrail(Append(log, e), s, h)
<1> DEFINE new == Append(log, e)  n == Len(log)
<1>1. /\ Len(new) = n + 1 /\ n \in Nat /\ new[n + 1] = e
      /\ \A k \in 1..n : new[k] = log[k]
  OBVIOUS
<1>2. e.type \notin StateEvents /\ e.type \notin HeadEvents
  OBVIOUS
<1>3. LogSays(new, n + 1, s)
  <2>1. PICK i \in 1..n : IsLatest(log, StateEvents, i, n) /\ log[i].to = s
    BY DEF GoodTrail, ReadsBackAs, LogSays
  <2>2. IsLatest(new, StateEvents, i, n + 1)
    BY <1>2, <2>1, AppendKeepsLatest
  <2> HIDE DEF new
  <2> QED BY <1>1, <2>1, <2>2 DEF LogSays
<1>4. ASSUME h = NoHead
      PROVE  \A i \in 1..(n + 1) : new[i].type \notin HeadEvents
  <2>1. \A i \in 1..n : log[i].type \notin HeadEvents
    BY <1>4 DEF GoodTrail, ReadsBackAs
  <2>2. \A i \in 1..(n + 1) : i \in 1..n \/ i = n + 1
    BY <1>1
  <2> HIDE DEF new
  <2> QED BY <1>1, <1>2, <2>1, <2>2
<1>5. ASSUME h # NoHead
      PROVE  \E i \in 1..(n + 1) :
               IsLatest(new, HeadEvents, i, n + 1) /\ new[i].head = h
  <2>1. PICK i \in 1..n : IsLatest(log, HeadEvents, i, n) /\ log[i].head = h
    BY <1>5 DEF GoodTrail, ReadsBackAs
  <2>2. IsLatest(new, HeadEvents, i, n + 1)
    BY <1>2, <2>1, AppendKeepsLatest
  <2> HIDE DEF new
  <2> QED BY <1>1, <2>1, <2>2
<1>6. ReadsBackAs(new, s, h)
  <2> HIDE DEF new
  <2> QED BY <1>1, <1>3, <1>4, <1>5 DEF ReadsBackAs
<1>7. Unbroken(new)
  BY <1>2, AppendKeepsUnbroken DEF GoodTrail, StateEvents, HeadEvents
<1> QED BY <1>6, <1>7 DEF GoodTrail

\* A guarded transition appends the state it moved to.
LEMMA MoveKeepsTrail ==
  ASSUME NEW S, NEW log \in Seq(S), NEW from, NEW to, NEW h,
         StateTransition(from, to) \in S, from # Absent, to # Absent,
         GoodTrail(log, from, h), TransitionAllowed(from, to)
  PROVE  GoodTrail(Append(log, StateTransition(from, to)), to, h)
<1> DEFINE e == StateTransition(from, to)  new == Append(log, e)  n == Len(log)
<1>1. /\ Len(new) = n + 1 /\ n \in Nat /\ new[n + 1] = e
      /\ \A k \in 1..n : new[k] = log[k]
  OBVIOUS
<1>2. /\ e.type = "STATE_TRANSITION" /\ e.from = from /\ e.to = to
      /\ e.type \in StateEvents /\ e.type \notin HeadEvents
  BY DEF StateTransition, StateEvents, HeadEvents
<1>3. LogSays(new, n + 1, to)
  <2>1. IsLatest(new, StateEvents, n + 1, n + 1)
    BY <1>2, AppendIsLatest
  <2> HIDE DEF new, e
  <2> QED BY <1>1, <1>2, <2>1 DEF LogSays
<1>4. ASSUME h = NoHead
      PROVE  \A i \in 1..(n + 1) : new[i].type \notin HeadEvents
  <2>1. \A i \in 1..n : log[i].type \notin HeadEvents
    BY <1>4 DEF GoodTrail, ReadsBackAs
  <2>2. \A i \in 1..(n + 1) : i \in 1..n \/ i = n + 1
    BY <1>1
  <2> HIDE DEF new, e
  <2> QED BY <1>1, <1>2, <2>1, <2>2
<1>5. ASSUME h # NoHead
      PROVE  \E i \in 1..(n + 1) :
               IsLatest(new, HeadEvents, i, n + 1) /\ new[i].head = h
  <2>1. PICK i \in 1..n : IsLatest(log, HeadEvents, i, n) /\ log[i].head = h
    BY <1>5 DEF GoodTrail, ReadsBackAs
  <2>2. IsLatest(new, HeadEvents, i, n + 1)
    BY <1>2, <2>1, AppendKeepsLatest
  <2> HIDE DEF new, e
  <2> QED BY <1>1, <2>1, <2>2
<1>6. ReadsBackAs(new, to, h)
  <2> HIDE DEF new, e
  <2> QED BY <1>1, <1>3, <1>4, <1>5 DEF ReadsBackAs
<1>7. LogSays(log, n, from)
  BY DEF GoodTrail, ReadsBackAs
<1>8. Unbroken(new)
  BY <1>2, <1>7, AppendKeepsUnbroken DEF GoodTrail
<1> QED BY <1>6, <1>8 DEF GoodTrail

\* A guarded head update appends the head it stored.
LEMMA HeadKeepsTrail ==
  ASSUME NEW S, NEW log \in Seq(S), NEW old, NEW h, h # NoHead,
         CandidateHeadSet(h) \in S, GoodTrail(log, "RUNNING", old)
  PROVE  GoodTrail(Append(log, CandidateHeadSet(h)), "RUNNING", h)
<1> DEFINE e == CandidateHeadSet(h)  new == Append(log, e)  n == Len(log)
<1>1. /\ Len(new) = n + 1 /\ n \in Nat /\ new[n + 1] = e
      /\ \A k \in 1..n : new[k] = log[k]
  OBVIOUS
<1>2. /\ e.type = "CANDIDATE_HEAD_SET" /\ e.head = h
      /\ e.type \notin StateEvents /\ e.type \in HeadEvents
  BY DEF CandidateHeadSet, StateEvents, HeadEvents
<1>3. LogSays(log, n, "RUNNING")
  BY DEF GoodTrail, ReadsBackAs, Absent
<1>4. LogSays(new, n + 1, "RUNNING")
  <2>1. PICK i \in 1..n :
          IsLatest(log, StateEvents, i, n) /\ log[i].to = "RUNNING"
    BY <1>3 DEF LogSays
  <2>2. IsLatest(new, StateEvents, i, n + 1)
    BY <1>2, <2>1, AppendKeepsLatest
  <2> HIDE DEF new
  <2> QED BY <1>1, <2>1, <2>2 DEF LogSays
<1>5. IsLatest(new, HeadEvents, n + 1, n + 1)
  BY <1>2, AppendIsLatest
<1>6. ReadsBackAs(new, "RUNNING", h)
  <2> HIDE DEF new, e
  <2> QED BY <1>1, <1>2, <1>4, <1>5 DEF ReadsBackAs, Absent
<1>7. Unbroken(new)
  BY <1>2, <1>3, AppendKeepsUnbroken DEF GoodTrail
<1> QED BY <1>6, <1>7 DEF GoodTrail

-----------------------------------------------------------------------------
\* A transition in flight was legal in the state it was read in.  Without it
\* the commit's guard, which only compares states, would not imply legality.
CallsAreLegal ==
  \A c \in Conns : call[c].op = "transition_task" =>
    TransitionAllowed(call[c].from, call[c].to)

TrailsAreGood == \A t \in Tasks : GoodTrail(events[t], state[t], head[t])

IInv == TypeOK /\ CallsAreLegal /\ TrailsAreGood

-----------------------------------------------------------------------------
\* What a call in flight holds.
LEMMA CallFacts ==
  ASSUME TypeOK, NEW c \in Conns
  PROVE  /\ call[c].op = "transition_task" =>
              /\ call[c].task \in Tasks
              /\ call[c].from \in TaskState /\ call[c].to \in TaskState
         /\ call[c].op = "set_head_sha" =>
              call[c].task \in Tasks /\ call[c].head \in Heads
<1>1. call[c] \in Call
  BY DEF TypeOK
<1>2. CASE call[c] \in {NoCall}
  BY <1>2 DEF NoCall
<1>3. CASE call[c] \in [op : {"transition_task"}, task : Tasks,
                        from : TaskState, to : TaskState]
  BY <1>3
<1>4. CASE call[c] \in [op : {"set_head_sha"}, task : Tasks, head : Heads]
  BY <1>4
<1> QED BY <1>1, <1>2, <1>3, <1>4 DEF Call

\* Every event the methods append is an Event.
LEMMA EventsAreTyped ==
  /\ TaskCreated \in Event
  /\ \A from, to \in TaskState : StateTransition(from, to) \in Event
  /\ \A h \in Heads : CandidateHeadSet(h) \in Event
  /\ \A type \in RowEventTypes : RowRecorded(type) \in Event
BY DEF Event, TaskCreated, StateTransition, CandidateHeadSet, RowRecorded

\* Ending a call keeps what holds of the calls in flight.
LEMMA ReturnKeepsCalls ==
  ASSUME call \in [Conns -> Call], CallsAreLegal, NEW c \in Conns, Return(c)
  PROVE  call' \in [Conns -> Call] /\ CallsAreLegal'
<1>1. NoCall \in Call /\ NoCall.op # "transition_task"
  BY DEF Call, NoCall
<1>2. \A d \in Conns : call'[d] = IF d = c THEN NoCall ELSE call[d]
  BY DEF Return
<1> QED BY <1>1, <1>2 DEF Return, CallsAreLegal

\* Appending to one task's log, with its row, keeps types and trails.
LEMMA LogKeepsTrails ==
  ASSUME TypeOK, TrailsAreGood, NEW t \in Tasks, NEW e \in Event, Log(t, e),
         NEW s \in RowState, state' = [state EXCEPT ![t] = s],
         NEW h \in Heads \cup {NoHead}, head' = [head EXCEPT ![t] = h],
         GoodTrail(Append(events[t], e), s, h)
  PROVE  /\ state' \in [Tasks -> RowState]
         /\ head' \in [Tasks -> Heads \cup {NoHead}]
         /\ events' \in [Tasks -> Seq(Event)]
         /\ TrailsAreGood'
<1>1. events[t] \in Seq(Event)
  BY DEF TypeOK
<1>2. Append(events[t], e) \in Seq(Event)
  BY <1>1
<1>3. events' = [events EXCEPT ![t] = Append(events[t], e)]
  BY DEF Log
<1>4. ASSUME NEW u \in Tasks
      PROVE  GoodTrail(events'[u], state'[u], head'[u])
  <2>1. CASE u = t
    BY <1>3, <2>1 DEF TypeOK
  <2>2. CASE u # t
    <3>1. events'[u] = events[u] /\ state'[u] = state[u] /\ head'[u] = head[u]
      BY <1>3, <2>2 DEF TypeOK
    <3> QED BY <3>1 DEF TrailsAreGood
  <2> QED BY <2>1, <2>2
<1> QED BY <1>2, <1>3, <1>4 DEF TypeOK, TrailsAreGood

-----------------------------------------------------------------------------
LEMMA InitIInv == Init => IInv
<1> SUFFICES ASSUME Init PROVE IInv
  OBVIOUS
<1>1. TypeOK
  BY DEF Init, TablesInit, TypeOK, RowState, Call
<1>2. CallsAreLegal
  BY DEF Init, CallsAreLegal, NoCall
<1>3. TrailsAreGood
  <2>1. Len(<<>>) = 0 /\ 1..0 = {}
    OBVIOUS
  <2>2. GoodTrail(<<>>, Absent, NoHead)
    BY <2>1 DEF GoodTrail, ReadsBackAs, Unbroken
  <2> QED BY <2>2 DEF Init, TablesInit, TrailsAreGood
<1> QED BY <1>1, <1>2, <1>3 DEF IInv

LEMMA NextIInv == IInv /\ [Next]_vars => IInv'
<1> SUFFICES ASSUME IInv, [Next]_vars PROVE IInv'
  OBVIOUS
<1>0. TypeOK /\ CallsAreLegal /\ TrailsAreGood
  BY DEF IInv
<1>1. ASSUME NEW c \in Conns, NEW t \in Tasks, CreateTask(c, t) PROVE IInv'
  <2>1. /\ state[t] = Absent /\ Log(t, TaskCreated)
        /\ state' = [state EXCEPT ![t] = "PENDING"]
        /\ head' = [head EXCEPT ![t] = head[t]] /\ call' = call
    BY <1>0, <1>1 DEF CreateTask, CreateTaskTxn, TypeOK
  <2>2. /\ "PENDING" \in RowState /\ head[t] \in Heads \cup {NoHead}
        /\ events[t] \in Seq(Event)
    BY <1>0 DEF TypeOK, RowState, TaskState
  <2>3. GoodTrail(Append(events[t], TaskCreated), "PENDING", head[t])
    <3>1. GoodTrail(events[t], Absent, head[t])
      BY <1>0, <2>1 DEF TrailsAreGood
    <3> QED BY <3>1, <2>2, EventsAreTyped, CreateKeepsTrail
  <2> QED BY <1>0, <2>1, <2>2, <2>3, EventsAreTyped, LogKeepsTrails
          DEF IInv, TypeOK, CallsAreLegal
<1>2. ASSUME NEW c \in Conns, NEW t \in Tasks, NEW to \in TaskState,
             TransitionRead(c, t, to)
      PROVE  IInv'
  <2> DEFINE new == TransitionCall(t, state[t], to)
  <2>1. /\ state[t] # Absent /\ TransitionAllowed(state[t], to)
        /\ call' = [call EXCEPT ![c] = new]
        /\ UNCHANGED tables
    BY <1>2 DEF TransitionRead, Begin
  <2>2. state[t] \in TaskState
    BY <1>0, <2>1 DEF TypeOK, RowState
  <2>3. new \in Call
    BY <2>2 DEF Call, TransitionCall
  <2>4. new.from = state[t] /\ new.to = to
    BY DEF TransitionCall
  <2> HIDE DEF new
  <2>5. call' \in [Conns -> Call] /\ CallsAreLegal'
    BY <1>0, <2>1, <2>3, <2>4 DEF TypeOK, CallsAreLegal
  <2> QED BY <1>0, <2>1, <2>5 DEF IInv, TypeOK, TrailsAreGood, tables
<1>3. ASSUME NEW c \in Conns, NEW t \in Tasks, NEW h \in Heads,
             SetHeadRead(c, t, h)
      PROVE  IInv'
  <2> DEFINE new == HeadCall(t, h)
  <2>1. call' = [call EXCEPT ![c] = new] /\ UNCHANGED tables
    BY <1>3 DEF SetHeadRead, Begin
  <2>2. new \in Call /\ new.op # "transition_task"
    BY DEF Call, HeadCall
  <2> HIDE DEF new
  <2>3. call' \in [Conns -> Call] /\ CallsAreLegal'
    BY <1>0, <2>1, <2>2 DEF TypeOK, CallsAreLegal
  <2> QED BY <1>0, <2>1, <2>3 DEF IInv, TypeOK, TrailsAreGood, tables
<1>4. ASSUME NEW c \in Conns, NEW t \in Tasks, NEW type \in RowEventTypes,
             RecordRow(c, t, type)
      PROVE  IInv'
  <2>1. /\ state[t] # Absent /\ Log(t, RowRecorded(type))
        /\ state' = [state EXCEPT ![t] = state[t]]
        /\ head' = [head EXCEPT ![t] = head[t]] /\ call' = call
    BY <1>0, <1>4 DEF RecordRow, RecordTxn, TypeOK
  <2>2. /\ state[t] \in RowState /\ head[t] \in Heads \cup {NoHead}
        /\ events[t] \in Seq(Event)
    BY <1>0 DEF TypeOK
  <2>3. RowRecorded(type).type \notin StateEvents \cup HeadEvents
    BY DEF RowRecorded, RowEventTypes, StateEvents, HeadEvents
  <2>4. GoodTrail(Append(events[t], RowRecorded(type)), state[t], head[t])
    <3>1. GoodTrail(events[t], state[t], head[t])
      BY <1>0 DEF TrailsAreGood
    <3> QED BY <2>1, <2>2, <2>3, <3>1, EventsAreTyped, RowKeepsTrail
  <2> QED BY <1>0, <2>1, <2>2, <2>4, EventsAreTyped, LogKeepsTrails
          DEF IInv, TypeOK, CallsAreLegal
<1>5. ASSUME NEW c \in Conns, TransitionCommit(c) PROVE IInv'
  <2> DEFINE t == call[c].task  from == call[c].from  to == call[c].to
  <2>1. /\ call[c].op = "transition_task" /\ state[t] = from
        /\ Log(t, StateTransition(from, to))
        /\ state' = [state EXCEPT ![t] = to] /\ head' = head /\ Return(c)
    BY <1>5 DEF TransitionCommit, TransitionTxn
  <2>2. t \in Tasks /\ from \in TaskState /\ to \in TaskState
    BY <1>0, <2>1, CallFacts
  <2>3. TransitionAllowed(from, to)
    BY <1>0, <2>1 DEF CallsAreLegal
  <2> HIDE DEF t, from, to
  <2>4. /\ to \in RowState /\ head[t] \in Heads \cup {NoHead}
        /\ events[t] \in Seq(Event) /\ from # Absent /\ to # Absent
        /\ head' = [head EXCEPT ![t] = head[t]]
    BY <1>0, <2>1, <2>2 DEF TypeOK, RowState, TaskState, Absent
  <2>5. GoodTrail(Append(events[t], StateTransition(from, to)), to, head[t])
    <3>1. GoodTrail(events[t], from, head[t])
      BY <1>0, <2>1, <2>2 DEF TrailsAreGood
    <3> QED BY <2>2, <2>3, <2>4, <3>1, EventsAreTyped, MoveKeepsTrail
  <2>6. StateTransition(from, to) \in Event
    BY <2>2, EventsAreTyped
  <2>7. call' \in [Conns -> Call] /\ CallsAreLegal'
    BY <1>0, <2>1, ReturnKeepsCalls DEF TypeOK
  <2> QED BY <1>0, <2>1, <2>2, <2>4, <2>5, <2>6, <2>7, LogKeepsTrails
          DEF IInv, TypeOK
<1>6. ASSUME NEW c \in Conns, SetHeadCommit(c) PROVE IInv'
  <2> DEFINE t == call[c].task  h == call[c].head
  <2>1. /\ call[c].op = "set_head_sha" /\ state[t] = "RUNNING"
        /\ Log(t, CandidateHeadSet(h))
        /\ head' = [head EXCEPT ![t] = h] /\ state' = state /\ Return(c)
    BY <1>6 DEF SetHeadCommit, SetHeadTxn
  <2>2. t \in Tasks /\ h \in Heads
    BY <1>0, <2>1, CallFacts
  <2> HIDE DEF t, h
  <2>3. /\ "RUNNING" \in RowState /\ h # NoHead /\ h \in Heads \cup {NoHead}
        /\ events[t] \in Seq(Event)
        /\ state' = [state EXCEPT ![t] = "RUNNING"]
    BY <1>0, <2>1, <2>2, NoHeadAssumption DEF TypeOK, RowState, TaskState
  <2>4. GoodTrail(Append(events[t], CandidateHeadSet(h)), "RUNNING", h)
    <3>1. GoodTrail(events[t], "RUNNING", head[t])
      BY <1>0, <2>1, <2>2 DEF TrailsAreGood
    <3> QED BY <2>2, <2>3, <3>1, EventsAreTyped, HeadKeepsTrail
  <2>5. CandidateHeadSet(h) \in Event
    BY <2>2, EventsAreTyped
  <2>6. call' \in [Conns -> Call] /\ CallsAreLegal'
    BY <1>0, <2>1, ReturnKeepsCalls DEF TypeOK
  <2> QED BY <1>0, <2>1, <2>2, <2>3, <2>4, <2>5, <2>6, LogKeepsTrails
          DEF IInv, TypeOK
<1>7. ASSUME NEW c \in Conns, Return(c), UNCHANGED tables PROVE IInv'
  <2>1. call' \in [Conns -> Call] /\ CallsAreLegal'
    BY <1>0, <1>7, ReturnKeepsCalls DEF TypeOK
  <2> QED BY <1>0, <1>7, <2>1 DEF IInv, TypeOK, TrailsAreGood, tables
<1>8. ASSUME UNCHANGED vars PROVE IInv'
  BY <1>0, <1>8 DEF IInv, TypeOK, CallsAreLegal, TrailsAreGood, vars, tables
<1> QED
  <2>1. CASE Next
    <3>1. PICK c \in Conns : Step(c)
      BY <2>1 DEF Next
    <3>2. CASE TransitionLost(c) \/ SetHeadLost(c) \/ Abandon(c)
      BY <3>2, <1>7 DEF TransitionLost, SetHeadLost, Abandon
    <3> QED BY <3>1, <3>2, <1>1, <1>2, <1>3, <1>4, <1>5, <1>6 DEF Step
  <2> QED BY <2>1, <1>8

-----------------------------------------------------------------------------
LEMMA Invariance == Spec => []IInv
BY InitIInv, NextIInv, PTL DEF Spec

\* The tables and the locals of every method keep their types.
THEOREM TypeCorrect == Spec => []TypeOK
<1>1. IInv => TypeOK
  BY DEF IInv
<1> QED BY <1>1, Invariance, PTL

\* The audit trail always reproduces the tasks row, however many processes
\* write: no update is lost and none is logged that did not happen.
THEOREM TrailMatches == Spec => []TrailMatchesRow
<1>1. IInv => TrailMatchesRow
  BY DEF IInv, TrailsAreGood, GoodTrail, TrailMatchesRow
<1> QED BY <1>1, Invariance, PTL

\* The audit trail is always an unbroken legal history, although every
\* transition is checked against a state that may be stale when it commits.
THEOREM TrailUnbroken == Spec => []TrailIsUnbroken
<1>1. IInv => TrailIsUnbroken
  BY DEF IInv, TrailsAreGood, GoodTrail, TrailIsUnbroken
<1> QED BY <1>1, Invariance, PTL

-----------------------------------------------------------------------------
LEMMA InitRefines == Init => Ledger!Init
BY DEF Init, TablesInit, Ledger!Init, Absent, Ledger!Absent

LEMMA NextRefines == IInv /\ [Next]_vars => [Ledger!Next]_(Ledger!ledger)
<1> SUFFICES ASSUME IInv, [Next]_vars
             PROVE  Ledger!Next \/ UNCHANGED Ledger!ledger
  OBVIOUS
<1>0. TypeOK /\ CallsAreLegal
  BY DEF IInv
<1> USE DEF Ledger!Next, Ledger!ledger
<1>1. ASSUME NEW c \in Conns, NEW t \in Tasks, CreateTask(c, t)
      PROVE  Ledger!Next
  BY <1>1 DEF CreateTask, CreateTaskTxn, Ledger!Create, Absent, Ledger!Absent
<1>2. ASSUME NEW c \in Conns, TransitionCommit(c) PROVE Ledger!Next
  <2>1. call[c].task \in Tasks /\ call[c].from \in TaskState
        /\ call[c].to \in TaskState
    BY <1>0, <1>2, CallFacts DEF TransitionCommit
  <2>2. TransitionAllowed(call[c].from, call[c].to)
    BY <1>0, <1>2 DEF CallsAreLegal, TransitionCommit
  <2>3. Ledger!TransitionAllowed(call[c].from, call[c].to)
    BY <2>2 DEF TransitionAllowed, Ledger!TransitionAllowed,
                LegalTransitions, Ledger!LegalTransitions
  <2>4. call[c].from # Ledger!Absent /\ call[c].to \in Ledger!TaskState
    BY <2>1 DEF TaskState, Ledger!TaskState, Ledger!Absent
  <2>5. Ledger!Move(call[c].task, call[c].to)
    BY <1>2, <2>3, <2>4 DEF TransitionCommit, TransitionTxn, Ledger!Move
  <2> QED BY <2>1, <2>4, <2>5
<1>3. ASSUME NEW c \in Conns, SetHeadCommit(c) PROVE Ledger!Next
  <2>1. call[c].task \in Tasks /\ call[c].head \in Heads
    BY <1>0, <1>3, CallFacts DEF SetHeadCommit
  <2>2. Ledger!SetHead(call[c].task, call[c].head)
    BY <1>3 DEF SetHeadCommit, SetHeadTxn, Ledger!SetHead
  <2> QED BY <2>1, <2>2
<1>4. ASSUME UNCHANGED <<state, head>> PROVE UNCHANGED Ledger!ledger
  BY <1>4
<1> QED
  <2>1. CASE UNCHANGED vars
    BY <2>1, <1>4 DEF vars, tables
  <2>2. CASE Next
    <3>1. PICK c \in Conns : Step(c)
      BY <2>2 DEF Next
    <3>2. ASSUME NEW t \in Tasks,
                 \/ \E to \in TaskState : TransitionRead(c, t, to)
                 \/ \E h \in Heads : SetHeadRead(c, t, h)
                 \/ \E type \in RowEventTypes : RecordRow(c, t, type)
          PROVE  UNCHANGED Ledger!ledger
      BY <3>2, <1>4 DEF TransitionRead, SetHeadRead, RecordRow, RecordTxn, tables
    <3>3. CASE TransitionLost(c) \/ SetHeadLost(c) \/ Abandon(c)
      BY <3>3, <1>4 DEF TransitionLost, SetHeadLost, Abandon, tables
    <3> QED BY <3>1, <3>2, <3>3, <1>1, <1>2, <1>3 DEF Step
  <2> QED BY <2>1, <2>2

\* Methods that read, decide and then write under a guard implement a ledger
\* whose operations are indivisible and legal.
THEOREM Refinement == Spec => LedgerSpec
BY InitRefines, NextRefines, Invariance, PTL DEF Spec, LedgerSpec, Ledger!Spec
=============================================================================
