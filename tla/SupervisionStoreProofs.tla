------------------------ MODULE SupervisionStoreProofs -----------------------
(***************************************************************************)
(* For any number of connections, requests, comments and statuses: the     *)
(* type invariant, the audit trail of requests and decisions, that a       *)
(* request is published once, and that the interleaved methods implement   *)
(* SupervisionRecord.                                                      *)
(***************************************************************************)
EXTENDS SupervisionStore, TLAPS

\* A call that will write to a request found its row, and no row is deleted.
\* Without it a late set_supervision_status would create a status from nothing.
CallsHaveRows ==
  \A c \in Conns : call[c].op \in {"set_ref", "set_status", "decide"} =>
    status[call[c].request] # Absent

IInv == TypeOK /\ CallsHaveRows /\ TrailMatchesRequest /\ PublishedOnce

-----------------------------------------------------------------------------
\* What a call in flight holds.
LEMMA CallFacts ==
  ASSUME TypeOK, NEW c \in Conns
  PROVE  /\ call[c].op = "open" => call[c].request \in Requests
         /\ call[c].op = "set_ref" =>
              call[c].request \in Requests /\ call[c].ref \in Refs
         /\ call[c].op = "set_status" =>
              /\ call[c].request \in Requests
              /\ call[c].from \in Status /\ call[c].to \in Statuses
         /\ call[c].op = "decide" =>
              /\ call[c].request \in Requests
              /\ call[c].comment \in Comments \cup {NoComment}
<1>1. call[c] \in Call
  BY DEF TypeOK
<1> QED BY <1>1 DEF Call, NoCall

\* The events the transactions append.
LEMMA EventFacts ==
  /\ RequestCreated \in Event /\ RequestCreated.type = "SUPERVISION_REQUEST_CREATED"
  /\ \A x \in Refs : /\ Published(x) \in Event /\ Published(x).ref = x
                     /\ Published(x).type = "SUPERVISION_PUBLISHED"
  /\ \A from, to \in Status :
       /\ StatusChanged(from, to) \in Event /\ StatusChanged(from, to).to = to
       /\ StatusChanged(from, to).type = "SUPERVISION_STATUS_CHANGED"
  /\ \A n \in Nat \ {0} :
       /\ DecisionRecorded(n) \in Event /\ DecisionRecorded(n).row = n
       /\ DecisionRecorded(n).type = "SUPERVISION_DECISION_RECORDED"
BY DEF Event, RequestCreated, Published, StatusChanged, DecisionRecorded

\* What logging an event for r does to the logs.
LEMMA LogFacts ==
  ASSUME TypeOK, NEW r \in Requests, NEW e \in Event, Log(r, e)
  PROVE  /\ events' \in [Requests -> Seq(Event)]
         /\ events'[r] = Append(events[r], e)
         /\ Len(events[r]) \in Nat
         /\ Len(events'[r]) = Len(events[r]) + 1
         /\ events'[r][Len(events[r]) + 1] = e
         /\ \A i \in 1..Len(events[r]) : events'[r][i] = events[r][i]
         /\ \A q \in Requests \ {r} : events'[q] = events[q]
<1>1. events \in [Requests -> Seq(Event)] /\ events[r] \in Seq(Event)
  BY DEF TypeOK
<1>2. /\ events'[r] = Append(events[r], e)
      /\ \A q \in Requests \ {r} : events'[q] = events[q]
      /\ events' \in [Requests -> Seq(Event)]
  BY <1>1 DEF Log
<1> QED BY <1>1, <1>2

\* A status event makes the trail say the status it names.
LEMMA StatusEventIsRead ==
  ASSUME NEW log \in Seq(Event), NEW e \in Event, e.type \in StatusEvents,
         StatusAfter(e) # Absent
  PROVE  StatusReadsBack(Append(log, e), StatusAfter(e))
<1>1. /\ Append(log, e)[Len(log) + 1] = e
      /\ Len(Append(log, e)) = Len(log) + 1 /\ Len(log) \in Nat
  OBVIOUS
<1>2. (Len(log) + 1 + 1)..(Len(log) + 1) = {}
  BY <1>1
<1>3. IsLatest(Append(log, e), StatusEvents, Len(log) + 1, Len(log) + 1)
  BY <1>1, <1>2 DEF IsLatest
<1> QED BY <1>1, <1>3 DEF StatusReadsBack

\* Any other event leaves the status the trail says as it is.
LEMMA OtherEventKeepsStatus ==
  ASSUME NEW log \in Seq(Event), NEW e \in Event, e.type \notin StatusEvents,
         NEW s, s # Absent, StatusReadsBack(log, s)
  PROVE  StatusReadsBack(Append(log, e), s)
<1>1. PICK i \in 1..Len(log) :
        IsLatest(log, StatusEvents, i, Len(log)) /\ StatusAfter(log[i]) = s
  BY DEF StatusReadsBack
<1>2. /\ \A k \in 1..Len(log) : Append(log, e)[k] = log[k]
      /\ Append(log, e)[Len(log) + 1] = e
      /\ Len(Append(log, e)) = Len(log) + 1 /\ i \in 1..(Len(log) + 1)
  OBVIOUS
<1>3. \A k \in (i + 1)..(Len(log) + 1) :
        k = Len(log) + 1 \/ (k \in 1..Len(log) /\ k \in (i + 1)..Len(log))
  OBVIOUS
<1>4. IsLatest(Append(log, e), StatusEvents, i, Len(log) + 1)
  BY <1>1, <1>2, <1>3 DEF IsLatest
<1> QED BY <1>1, <1>2, <1>4 DEF StatusReadsBack

\* An event that announces nothing keeps what is known of the publication.
LEMMA OtherEventKeepsRef ==
  ASSUME NEW log \in Seq(Event), NEW e \in Event,
         e.type # "SUPERVISION_PUBLISHED", NEW x, RefReadsBack(log, x)
  PROVE  RefReadsBack(Append(log, e), x)
<1>1. /\ Append(log, e)[Len(log) + 1] = e
      /\ \A k \in 1..Len(log) : Append(log, e)[k] = log[k]
      /\ Len(Append(log, e)) = Len(log) + 1 /\ Len(log) \in Nat
  OBVIOUS
<1> QED BY <1>1 DEF RefReadsBack

\* An event that records no decision keeps the decisions readable.
LEMMA OtherEventKeepsDecisions ==
  ASSUME TypeOK, TrailMatchesRequest, NEW r \in Requests, NEW e \in Event,
         Log(r, e), e.type # "SUPERVISION_DECISION_RECORDED", UNCHANGED rows,
         NEW q \in Requests
  PROVE  DecisionsReadBack(q)'
<1>1. DecisionsReadBack(q)
  BY DEF TrailMatchesRequest
<1>2. CASE q # r
  BY <1>1, <1>2, LogFacts DEF DecisionsReadBack
<1>3. CASE q = r
  <2>1. \A i \in 1..(Len(events[r]) + 1) :
          i \in 1..Len(events[r]) \/ i = Len(events[r]) + 1
    BY LogFacts
  <2>2. \A i \in 1..Len(events[r]) : i \in 1..(Len(events[r]) + 1)
    BY LogFacts
  <2>3. ASSUME NEW n \in 1..Len(rows), rows[n].request = r
        PROVE  \E i \in 1..Len(events'[r]) : events'[r][i] = DecisionRecorded(n)
    <3>1. PICK i \in 1..Len(events[r]) : events[r][i] = DecisionRecorded(n)
      BY <1>1, <1>3, <2>3 DEF DecisionsReadBack
    <3> QED BY <2>2, <3>1, LogFacts
  <2>4. ASSUME NEW i \in 1..Len(events'[r]),
               events'[r][i].type = "SUPERVISION_DECISION_RECORDED"
        PROVE  /\ events'[r][i].row \in 1..Len(rows)
               /\ rows[events'[r][i].row].request = r
    <3>1. i \in 1..Len(events[r])
      BY <2>1, <2>4, LogFacts
    <3>2. events'[r][i] = events[r][i]
      BY <3>1, LogFacts
    <3> QED BY <1>1, <1>3, <2>4, <3>1, <3>2 DEF DecisionsReadBack
  <2> QED BY <1>3, <2>3, <2>4 DEF DecisionsReadBack
<1> QED BY <1>2, <1>3

\* An event that announces nothing keeps the announcement unique.
LEMMA OtherEventKeepsPublishedOnce ==
  ASSUME TypeOK, PublishedOnce, NEW r \in Requests, NEW e \in Event,
         Log(r, e), e.type # "SUPERVISION_PUBLISHED"
  PROVE  PublishedOnce'
<1> SUFFICES ASSUME NEW q \in Requests, NEW i \in 1..Len(events'[q]),
                    NEW j \in 1..Len(events'[q]),
                    events'[q][i].type = "SUPERVISION_PUBLISHED",
                    events'[q][j].type = "SUPERVISION_PUBLISHED"
             PROVE  i = j
  BY DEF PublishedOnce
<1>1. CASE q # r
  BY <1>1, LogFacts DEF PublishedOnce
<1>2. CASE q = r
  <2>1. i \in 1..Len(events[r]) /\ j \in 1..Len(events[r])
    BY <1>2, LogFacts
  <2> QED BY <1>2, <2>1, LogFacts DEF PublishedOnce
<1> QED BY <1>1, <1>2

\* Ending a call, with no row lost, keeps what holds of the calls in flight.
LEMMA ReturnKeepsCalls ==
  ASSUME TypeOK, CallsHaveRows, NEW c \in Conns, Return(c),
         \A r \in Requests : status[r] # Absent => status'[r] # Absent
  PROVE  call' \in [Conns -> Call] /\ CallsHaveRows'
<1>1. NoCall \in Call /\ NoCall.op = "none"
  BY DEF Call, NoCall
<1>2. \A d \in Conns : call'[d] = IF d = c THEN NoCall ELSE call[d]
  BY DEF Return, TypeOK
<1>3. call' \in [Conns -> Call]
  BY <1>1 DEF Return, TypeOK
<1>4. ASSUME NEW d \in Conns, call'[d].op \in {"set_ref", "set_status", "decide"}
      PROVE  status'[call'[d].request] # Absent
  <2>1. call'[d] = call[d]
    BY <1>1, <1>2, <1>4
  <2>2. call[d].request \in Requests
    BY <1>4, <2>1, CallFacts
  <2> QED BY <1>4, <2>1, <2>2 DEF CallsHaveRows
<1> QED BY <1>3, <1>4 DEF CallsHaveRows

\* Beginning a call that found its row keeps the invariant.
LEMMA BeginKeepsIInv ==
  ASSUME IInv, NEW c \in Conns, NEW new \in Call, Begin(c, new), UNCHANGED tables,
         told' \subseteq Comments,
         new.op \in {"set_ref", "set_status", "decide"} =>
           status[new.request] # Absent
  PROVE  IInv'
<1>1. call' \in [Conns -> Call] /\ CallsHaveRows'
  BY DEF IInv, TypeOK, CallsHaveRows, Begin, tables
<1>2. TrailMatchesRequest' /\ PublishedOnce'
  BY DEF IInv, tables, TrailMatchesRequest, PublishedOnce, DecisionsReadBack
<1> QED BY <1>1, <1>2 DEF IInv, TypeOK, tables

-----------------------------------------------------------------------------
LEMMA InitIInv == Init => IInv
<1> SUFFICES ASSUME Init PROVE IInv
  OBVIOUS
<1>1. TypeOK
  BY DEF Init, TypeOK, Call
<1>2. CallsHaveRows
  BY DEF Init, CallsHaveRows, NoCall
<1>3. Len(<<>>) = 0 /\ 1..0 = {}
  OBVIOUS
<1>4. TrailMatchesRequest
  BY <1>3 DEF Init, TrailMatchesRequest, StatusReadsBack, RefReadsBack,
              DecisionsReadBack
<1>5. PublishedOnce
  BY <1>3 DEF Init, PublishedOnce
<1> QED BY <1>1, <1>2, <1>4, <1>5 DEF IInv

\* A transaction that sets a status and records no decision.
LEMMA StatusTxnKeepsIInv ==
  ASSUME IInv, NEW c \in Conns, Return(c), NEW r \in Requests,
         NEW e \in Event, Log(r, e), UNCHANGED <<ref, rows, told>>,
         e.type \in {"SUPERVISION_REQUEST_CREATED", "SUPERVISION_STATUS_CHANGED"},
         StatusAfter(e) \in Status,
         status' = [status EXCEPT ![r] = StatusAfter(e)]
  PROVE  IInv'
<1>0. TypeOK /\ CallsHaveRows /\ TrailMatchesRequest /\ PublishedOnce
  BY DEF IInv
<1>1. /\ Absent \notin Status /\ e.type \in StatusEvents
      /\ status'[r] = StatusAfter(e) /\ status' \in [Requests -> Status \cup {Absent}]
      /\ \A q \in Requests \ {r} : status'[q] = status[q]
  BY <1>0, StatusAssumption DEF TypeOK, Status, Absent, StatusEvents
<1>2. call' \in [Conns -> Call] /\ CallsHaveRows'
  <2>1. \A q \in Requests : status[q] # Absent => status'[q] # Absent
    BY <1>1
  <2> QED BY <1>0, <2>1, ReturnKeepsCalls
<1>3. ASSUME NEW q \in Requests
      PROVE  /\ StatusReadsBack(events'[q], status'[q])
             /\ RefReadsBack(events'[q], ref'[q])
  <2>1. StatusReadsBack(events[q], status[q]) /\ RefReadsBack(events[q], ref[q])
    BY <1>0 DEF TrailMatchesRequest
  <2>2. CASE q # r
    BY <1>0, <1>1, <2>1, <2>2, LogFacts
  <2>3. CASE q = r
    <3>1. events[r] \in Seq(Event) /\ events'[r] = Append(events[r], e)
      BY <1>0, LogFacts DEF TypeOK
    <3>2. StatusReadsBack(events'[r], status'[r])
      BY <1>1, <3>1, StatusEventIsRead
    <3>3. RefReadsBack(events'[r], ref'[r])
      BY <2>1, <2>3, <3>1, OtherEventKeepsRef
    <3> QED BY <2>3, <3>2, <3>3
  <2> QED BY <2>2, <2>3
<1>4. \A q \in Requests : DecisionsReadBack(q)'
  BY <1>0, OtherEventKeepsDecisions
<1>5. TrailMatchesRequest'
  BY <1>3, <1>4 DEF TrailMatchesRequest
<1>6. PublishedOnce'
  BY <1>0, OtherEventKeepsPublishedOnce
<1>7. TypeOK'
  BY <1>0, <1>1, <1>2, LogFacts DEF TypeOK
<1> QED BY <1>2, <1>5, <1>6, <1>7 DEF IInv

\* The guard on external_ref IS NULL makes the announcement the first one.
LEMMA RefCommitKeepsIInv ==
  ASSUME IInv, NEW c \in Conns, RefCommit(c)
  PROVE  IInv'
<1> DEFINE r == call[c].request
           x == call[c].ref
           e == Published(x)
<1>0. TypeOK /\ CallsHaveRows /\ TrailMatchesRequest /\ PublishedOnce
  BY DEF IInv
<1>1. /\ call[c].op = "set_ref" /\ RefTxn(r, x) /\ Return(c) /\ told' = told
  BY DEF RefCommit
<1>2. r \in Requests /\ x \in Refs
  BY <1>0, <1>1, CallFacts
<1>3. e \in Event /\ e.ref = x /\ e.type = "SUPERVISION_PUBLISHED"
  BY <1>2, EventFacts
<1>4. /\ ref[r] = NoRef /\ ref' = [ref EXCEPT ![r] = x] /\ Log(r, e)
      /\ status' = status /\ rows' = rows /\ status[r] # Absent
  BY <1>0, <1>1 DEF RefTxn, CallsHaveRows
<1> HIDE DEF r, x, e
<1>5. call' \in [Conns -> Call] /\ CallsHaveRows'
  BY <1>0, <1>1, <1>4, ReturnKeepsCalls
<1>6. \A i \in 1..Len(events[r]) : events[r][i].type # "SUPERVISION_PUBLISHED"
  <2> SUFFICES ASSUME NEW i \in 1..Len(events[r]),
                      events[r][i].type = "SUPERVISION_PUBLISHED"
               PROVE  FALSE
    OBVIOUS
  <2>1. events[r][i].ref = NoRef
    BY <1>0, <1>2, <1>4 DEF TrailMatchesRequest, RefReadsBack
  <2>2. events[r][i] \in Event
    BY <1>0, <1>2 DEF TypeOK
  <2>3. events[r][i].ref \in Refs
    BY <2>2 DEF Event, RequestCreated
  <2> QED BY <2>1, <2>3, NullAssumption
<1>7. ASSUME NEW q \in Requests
      PROVE  /\ StatusReadsBack(events'[q], status'[q])
             /\ RefReadsBack(events'[q], ref'[q])
  <2>1. StatusReadsBack(events[q], status[q]) /\ RefReadsBack(events[q], ref[q])
    BY <1>0 DEF TrailMatchesRequest
  <2>2. CASE q # r
    BY <1>0, <1>2, <1>3, <1>4, <2>1, <2>2, LogFacts DEF TypeOK
  <2>3. CASE q = r
    <3>1. events[r] \in Seq(Event) /\ events'[r] = Append(events[r], e)
      BY <1>0, <1>2, <1>3, <1>4, LogFacts DEF TypeOK
    <3>2. StatusReadsBack(events'[r], status'[r])
      BY <1>3, <1>4, <2>1, <2>3, <3>1, OtherEventKeepsStatus DEF StatusEvents
    <3>3. ref'[r] = x
      BY <1>0, <1>2, <1>4 DEF TypeOK
    <3>4. RefReadsBack(events'[r], ref'[r])
      <4>1. /\ Len(events[r]) + 1 \in 1..Len(events'[r])
            /\ events'[r][Len(events[r]) + 1] = e
        BY <1>0, <1>2, <1>3, <1>4, LogFacts
      <4>2. \A k \in 1..Len(events'[r]) :
              events'[r][k].type = "SUPERVISION_PUBLISHED" => events'[r][k] = e
        BY <1>0, <1>2, <1>3, <1>4, <1>6, LogFacts
      <4> QED BY <1>3, <3>3, <4>1, <4>2 DEF RefReadsBack
    <3> QED BY <2>3, <3>2, <3>4
  <2> QED BY <2>2, <2>3
<1>8. \A q \in Requests : DecisionsReadBack(q)'
  BY <1>0, <1>2, <1>3, <1>4, OtherEventKeepsDecisions
<1>9. TrailMatchesRequest'
  BY <1>7, <1>8 DEF TrailMatchesRequest
<1>10. PublishedOnce'
  <2> SUFFICES ASSUME NEW q \in Requests, NEW i \in 1..Len(events'[q]),
                      NEW j \in 1..Len(events'[q]),
                      events'[q][i].type = "SUPERVISION_PUBLISHED",
                      events'[q][j].type = "SUPERVISION_PUBLISHED"
               PROVE  i = j
    BY DEF PublishedOnce
  <2>1. CASE q # r
    BY <1>0, <1>2, <1>3, <1>4, <2>1, LogFacts DEF PublishedOnce
  <2>2. CASE q = r
    <3>1. \A k \in 1..Len(events'[r]) :
            events'[r][k].type = "SUPERVISION_PUBLISHED" => k = Len(events[r]) + 1
      <4>1. PICK n : n = Len(events[r])
        OBVIOUS
      <4>2. /\ Len(events'[r]) = n + 1 /\ n \in Nat
            /\ \A k \in 1..n : events'[r][k] = events[r][k]
        BY <1>0, <1>2, <1>3, <1>4, <4>1, LogFacts
      <4>3. \A k \in 1..n : events[r][k].type # "SUPERVISION_PUBLISHED"
        BY <1>6, <4>1
      <4>4. \A k \in 1..(n + 1) : k \in 1..n \/ k = n + 1
        BY <4>2
      <4> QED BY <4>1, <4>2, <4>3, <4>4
    <3> QED BY <2>2, <3>1
  <2> QED BY <2>1, <2>2
<1>11. TypeOK'
  BY <1>0, <1>2, <1>3, <1>4, <1>5, <1>1, LogFacts DEF TypeOK
<1> QED BY <1>5, <1>9, <1>10, <1>11 DEF IInv

\* A decision, its request's status and its event are stored together.
LEMMA DecisionCommitKeepsIInv ==
  ASSUME IInv, NEW c \in Conns, DecisionCommit(c)
  PROVE  IInv'
<1> DEFINE r == call[c].request
           m == call[c].comment
           n == Len(rows) + 1
           e == DecisionRecorded(n)
<1>0. TypeOK /\ CallsHaveRows /\ TrailMatchesRequest /\ PublishedOnce
  BY DEF IInv
<1>1. /\ call[c].op = "decide" /\ DecisionTxn(r, m) /\ Return(c)
      /\ told' \in {told, told \cup ({m} \ {NoComment})}
  BY DEF DecisionCommit
<1>2. r \in Requests /\ m \in Comments \cup {NoComment}
  BY <1>0, <1>1, CallFacts
<1>3. n \in Nat \ {0} /\ n = Len(rows) + 1
      /\ e \in Event /\ e.row = n /\ e.type = "SUPERVISION_DECISION_RECORDED"
  <2>1. Len(rows) \in Nat
    BY <1>0 DEF TypeOK
  <2>2. n \in Nat \ {0}
    BY <2>1
  <2> QED BY <2>2, EventFacts
<1>4. /\ rows' = Append(rows, [request |-> r, comment |-> m])
      /\ status' = [status EXCEPT ![r] = "DECIDED"] /\ Log(r, e) /\ ref' = ref
  BY <1>1 DEF DecisionTxn
<1>5. e = DecisionRecorded(n)
  OBVIOUS
<1> HIDE DEF r, m, n, e
<1>6. /\ "DECIDED" # Absent /\ StatusAfter(e) = "DECIDED"
      /\ status'[r] = "DECIDED" /\ status' \in [Requests -> Status \cup {Absent}]
      /\ \A q \in Requests \ {r} : status'[q] = status[q]
  BY <1>0, <1>2, <1>3, <1>4 DEF TypeOK, Status, Absent, StatusAfter
<1>7. call' \in [Conns -> Call] /\ CallsHaveRows'
  <2>1. \A q \in Requests : status[q] # Absent => status'[q] # Absent
    BY <1>6
  <2> QED BY <1>0, <1>1, <2>1, ReturnKeepsCalls
<1>8. ASSUME NEW q \in Requests
      PROVE  /\ StatusReadsBack(events'[q], status'[q])
             /\ RefReadsBack(events'[q], ref'[q])
  <2>1. StatusReadsBack(events[q], status[q]) /\ RefReadsBack(events[q], ref[q])
    BY <1>0 DEF TrailMatchesRequest
  <2>2. CASE q # r
    BY <1>0, <1>2, <1>3, <1>4, <1>6, <2>1, <2>2, LogFacts
  <2>3. CASE q = r
    <3>1. events[r] \in Seq(Event) /\ events'[r] = Append(events[r], e)
      BY <1>0, <1>2, <1>3, <1>4, LogFacts DEF TypeOK
    <3>2. StatusReadsBack(events'[r], status'[r])
      BY <1>3, <1>6, <3>1, StatusEventIsRead DEF StatusEvents
    <3>3. RefReadsBack(events'[r], ref'[r])
      BY <1>3, <1>4, <2>1, <2>3, <3>1, OtherEventKeepsRef
    <3> QED BY <2>3, <3>2, <3>3
  <2> QED BY <2>2, <2>3
<1>9. /\ rows' \in Seq([request : Requests, comment : Comments \cup {NoComment}])
      /\ Len(rows) \in Nat /\ Len(rows') = n
      /\ rows'[n].request = r
      /\ \A k \in 1..Len(rows) : rows'[k] = rows[k]
  <2>1. [request |-> r, comment |-> m]
          \in [request : Requests, comment : Comments \cup {NoComment}]
    BY <1>2
  <2> QED BY <1>0, <1>3, <1>4, <2>1 DEF TypeOK
<1>10. ASSUME NEW q \in Requests PROVE DecisionsReadBack(q)'
  <2>0. DecisionsReadBack(q)
    BY <1>0 DEF TrailMatchesRequest
  <2>1. ASSUME NEW k \in 1..Len(rows'), rows'[k].request = q
        PROVE  \E i \in 1..Len(events'[q]) : events'[q][i] = DecisionRecorded(k)
    <3>1. CASE k = n
      <4>1. q = r
        BY <1>9, <2>1, <3>1
      <4>2. /\ Len(events[r]) + 1 \in 1..Len(events'[r])
            /\ events'[r][Len(events[r]) + 1] = DecisionRecorded(n)
        BY <1>0, <1>2, <1>3, <1>4, <1>5, LogFacts
      <4> QED BY <3>1, <4>1, <4>2
    <3>2. CASE k \in 1..Len(rows)
      <4>1. PICK i \in 1..Len(events[q]) : events[q][i] = DecisionRecorded(k)
        BY <1>9, <2>0, <2>1, <3>2 DEF DecisionsReadBack
      <4>2. CASE q = r
        <5>1. /\ Len(events'[q]) = Len(events[q]) + 1 /\ Len(events[q]) \in Nat
              /\ \A j \in 1..Len(events[q]) : events'[q][j] = events[q][j]
          BY <1>0, <1>2, <1>3, <1>4, <4>2, LogFacts
        <5>2. i \in 1..Len(events'[q]) /\ events'[q][i] = DecisionRecorded(k)
          BY <4>1, <5>1
        <5> QED BY <5>2
      <4>3. CASE q # r
        <5>1. events'[q] = events[q]
          BY <1>0, <1>2, <1>3, <1>4, <4>3, LogFacts
        <5> QED BY <4>1, <5>1
      <4> QED BY <4>2, <4>3
    <3> QED BY <1>3, <1>9, <3>1, <3>2
  <2>2. ASSUME NEW i \in 1..Len(events'[q]),
               events'[q][i].type = "SUPERVISION_DECISION_RECORDED"
        PROVE  /\ events'[q][i].row \in 1..Len(rows')
               /\ rows'[events'[q][i].row].request = q
    <3>1. CASE i \in 1..Len(events[q])
      <4>1. events'[q][i] = events[q][i]
        BY <1>0, <1>2, <1>3, <1>4, <3>1, LogFacts
      <4>2. /\ events[q][i].row \in 1..Len(rows)
            /\ rows[events[q][i].row].request = q
        BY <2>0, <2>2, <3>1, <4>1 DEF DecisionsReadBack
      <4> QED BY <1>3, <1>9, <4>1, <4>2
    <3>2. CASE i \notin 1..Len(events[q])
      <4>1. q = r /\ i = Len(events[r]) + 1
        BY <1>0, <1>2, <1>3, <1>4, <3>2, LogFacts
      <4>2. events'[q][i].row = n
        BY <1>0, <1>2, <1>3, <1>4, <4>1, LogFacts
      <4> QED BY <1>3, <1>9, <4>1, <4>2
    <3> QED BY <3>1, <3>2
  <2> QED BY <2>1, <2>2 DEF DecisionsReadBack
<1>11. TrailMatchesRequest'
  BY <1>8, <1>10 DEF TrailMatchesRequest
<1>12. PublishedOnce'
  BY <1>0, <1>2, <1>3, <1>4, OtherEventKeepsPublishedOnce
<1>13. TypeOK'
  BY <1>0, <1>1, <1>2, <1>3, <1>4, <1>6, <1>7, <1>9, LogFacts DEF TypeOK
<1> QED BY <1>7, <1>11, <1>12, <1>13 DEF IInv

\* Ending a call that wrote nothing.
LEMMA ReturnKeepsIInv ==
  ASSUME IInv, NEW c \in Conns, Return(c), UNCHANGED tables,
         told' \subseteq Comments
  PROVE  IInv'
<1>1. call' \in [Conns -> Call] /\ CallsHaveRows'
  BY ReturnKeepsCalls DEF IInv, tables
<1>2. TrailMatchesRequest' /\ PublishedOnce'
  BY DEF IInv, tables, TrailMatchesRequest, PublishedOnce, DecisionsReadBack
<1> QED BY <1>1, <1>2 DEF IInv, TypeOK, tables

LEMMA NextIInv == IInv /\ [Next]_vars => IInv'
<1> SUFFICES ASSUME IInv, [Next]_vars PROVE IInv'
  OBVIOUS
<1>0. TypeOK /\ CallsHaveRows /\ told \subseteq Comments
      /\ status \in [Requests -> Status \cup {Absent}]
  BY DEF IInv, TypeOK
<1>1. ASSUME NEW c \in Conns, NEW r \in Requests, OpenFind(c, r) PROVE IInv'
  <2> DEFINE new == [op |-> "open", request |-> r]
  <2>1. new \in Call /\ new.op \notin {"set_ref", "set_status", "decide"}
    BY DEF Call
  <2>2. Begin(c, new) /\ UNCHANGED <<tables, told>>
    BY <1>1 DEF OpenFind
  <2> HIDE DEF new
  <2> QED BY <1>0, <2>1, <2>2, BeginKeepsIInv
<1>2. ASSUME NEW c \in Conns, NEW r \in Requests, NEW x \in Refs, RefRead(c, r, x)
      PROVE  IInv'
  <2> DEFINE new == [op |-> "set_ref", request |-> r, ref |-> x]
  <2>1. new \in Call /\ new.request = r
    BY DEF Call
  <2>2. Begin(c, new) /\ UNCHANGED <<tables, told>> /\ status[r] # Absent
    BY <1>2 DEF RefRead
  <2> HIDE DEF new
  <2> QED BY <1>0, <2>1, <2>2, BeginKeepsIInv
<1>3. ASSUME NEW c \in Conns, NEW r \in Requests, NEW s \in Statuses,
             StatusRead(c, r, s)
      PROVE  IInv'
  <2> DEFINE new == [op |-> "set_status", request |-> r, from |-> status[r], to |-> s]
  <2>1. Begin(c, new) /\ UNCHANGED <<tables, told>> /\ status[r] # Absent
    BY <1>3 DEF StatusRead
  <2>2. status[r] \in Status
    BY <1>0, <2>1
  <2>3. new \in Call /\ new.request = r
    BY <2>2 DEF Call
  <2> HIDE DEF new
  <2> QED BY <1>0, <2>1, <2>3, BeginKeepsIInv
<1>4. ASSUME NEW c \in Conns, NEW r \in Requests,
             NEW m \in Comments \cup {NoComment}, DecisionRead(c, r, m)
      PROVE  IInv'
  <2> DEFINE new == [op |-> "decide", request |-> r, comment |-> m]
  <2>1. new \in Call /\ new.request = r
    BY DEF Call
  <2>2. Begin(c, new) /\ UNCHANGED <<tables, told>> /\ status[r] # Absent
    BY <1>4 DEF DecisionRead
  <2> HIDE DEF new
  <2> QED BY <1>0, <2>1, <2>2, BeginKeepsIInv
<1>5. ASSUME NEW c \in Conns, NEW r \in Requests,
             NEW m \in Comments \cup {NoComment}, DecisionKnown(c, r, m)
      PROVE  IInv'
  <2>1. m \in Comments /\ told' = told \cup {m} /\ UNCHANGED <<tables, call>>
    BY <1>5 DEF DecisionKnown, Known
  <2>2. CallsHaveRows' /\ TrailMatchesRequest' /\ PublishedOnce'
    BY <2>1 DEF IInv, tables, CallsHaveRows, TrailMatchesRequest, PublishedOnce,
                DecisionsReadBack
  <2> QED BY <1>0, <2>1, <2>2 DEF IInv, TypeOK, tables
<1>6. ASSUME NEW c \in Conns, OpenInsert(c) PROVE IInv'
  <2> DEFINE r == call[c].request
  <2>1. r \in Requests /\ CreateTxn(r) /\ Return(c) /\ told' = told
    BY <1>0, <1>6, CallFacts DEF OpenInsert
  <2>2. /\ StatusAfter(RequestCreated) = "PENDING" /\ "PENDING" \in Status
        /\ UNCHANGED <<ref, rows, told>> /\ Log(r, RequestCreated)
        /\ status' = [status EXCEPT ![r] = "PENDING"]
    BY <2>1, EventFacts DEF CreateTxn, StatusAfter, Status
  <2> HIDE DEF r
  <2> QED BY <2>1, <2>2, EventFacts, StatusTxnKeepsIInv
<1>7. ASSUME NEW c \in Conns, StatusCommit(c) PROVE IInv'
  <2> DEFINE r == call[c].request
             e == StatusChanged(call[c].from, call[c].to)
  <2>1. /\ r \in Requests /\ call[c].from \in Status /\ call[c].to \in Status
        /\ Return(c) /\ told' = told /\ StatusTxn(r, call[c].from, call[c].to)
    BY <1>0, <1>7, CallFacts DEF StatusCommit, Status
  <2>2. /\ e \in Event /\ e.type = "SUPERVISION_STATUS_CHANGED"
        /\ e.to = call[c].to
    BY <2>1, EventFacts
  <2>3. StatusAfter(e) = call[c].to
    BY <2>2 DEF StatusAfter
  <2>4. /\ UNCHANGED <<ref, rows, told>> /\ Log(r, e)
        /\ status' = [status EXCEPT ![r] = StatusAfter(e)]
    BY <2>1, <2>3 DEF StatusTxn
  <2> HIDE DEF r, e
  <2> QED BY <2>1, <2>2, <2>3, <2>4, StatusTxnKeepsIInv
<1>8. ASSUME NEW c \in Conns,
             \/ OpenRefused(c) \/ RefLost(c) \/ DecisionRefused(c) \/ Abandon(c)
      PROVE  IInv'
  <2>1. Return(c) /\ UNCHANGED <<tables, told>>
    BY <1>8 DEF OpenRefused, RefLost, DecisionRefused, Abandon
  <2> QED BY <1>0, <2>1, ReturnKeepsIInv
<1>9. CASE UNCHANGED vars
  BY <1>9 DEF IInv, vars, tables, TypeOK, CallsHaveRows, TrailMatchesRequest,
              PublishedOnce, DecisionsReadBack
<1> QED BY <1>1, <1>2, <1>3, <1>4, <1>5, <1>6, <1>7, <1>8, <1>9,
           RefCommitKeepsIInv, DecisionCommitKeepsIInv DEF Next, Step

-----------------------------------------------------------------------------
LEMMA AlwaysIInv == Spec => []IInv
<1> QED BY InitIInv, NextIInv, PTL DEF Spec

\* Every reachable state of the supervision tables and of the calls in
\* progress is well typed (HarnessStore's supervision methods).
THEOREM SupervisionTypeCorrect == Spec => []TypeOK
<1>1. IInv => TypeOK
  BY DEF IInv
<1> QED BY <1>1, AlwaysIInv, PTL

\* The audit events of a request reproduce its status, its reference and its
\* decisions, whatever connections overwrote (store.py _append_event).
THEOREM RequestTrailMatches == Spec => []TrailMatchesRequest
<1>1. IInv => TrailMatchesRequest
  BY DEF IInv
<1> QED BY <1>1, AlwaysIInv, PTL

\* However many publishers race, a request is announced once
\* (set_supervision_external_ref).
THEOREM AnnouncedOnce == Spec => []PublishedOnce
<1>1. IInv => PublishedOnce
  BY DEF IInv
<1> QED BY <1>1, AlwaysIInv, PTL

-----------------------------------------------------------------------------
\* The initial tables are the empty record.
LEMMA InitRefines == Init => Record!Init
BY DEF Init, Record!Init

\* Each method's step is one of the record's, or none of them.
LEMMA StepRefines ==
  IInv /\ [Next]_vars => [Record!Next]_(Record!record)
<1> SUFFICES ASSUME IInv, [Next]_vars
             PROVE  Record!Next \/ UNCHANGED Record!record
  OBVIOUS
<1>0. TypeOK /\ CallsHaveRows
  BY DEF IInv
<1> DEFINE opened == {r \in Requests : status[r] # Absent}
<1>1. ASSUME NEW c \in Conns, OpenInsert(c) PROVE Record!Next
  <2> DEFINE r == call[c].request
  <2>1. r \in Requests /\ CreateTxn(r) /\ told' = told
    BY <1>0, <1>1, CallFacts DEF OpenInsert
  <2>2. /\ r \notin opened /\ opened' = opened \cup {r}
        /\ ref' = ref /\ rows' = rows
    BY <1>0, <2>1 DEF CreateTxn, TypeOK, Absent
  <2> QED BY <2>1, <2>2 DEF Record!Next, Record!Open
<1>2. ASSUME NEW c \in Conns, RefCommit(c) PROVE Record!Next
  <2> DEFINE r == call[c].request
             x == call[c].ref
  <2>1. r \in Requests /\ x \in Refs /\ RefTxn(r, x) /\ told' = told
        /\ r \in opened
    BY <1>0, <1>2, CallFacts DEF RefCommit, CallsHaveRows
  <2>2. Record!Publish(r, x)
    BY <2>1 DEF RefTxn, Record!Publish
  <2> QED BY <2>1, <2>2 DEF Record!Next
<1>3. ASSUME NEW c \in Conns, StatusCommit(c) PROVE UNCHANGED Record!record
  <2> DEFINE r == call[c].request
  <2>1. /\ r \in Requests /\ call[c].to \in Statuses /\ told' = told
        /\ StatusTxn(r, call[c].from, call[c].to) /\ status[r] # Absent
    BY <1>0, <1>3, CallFacts DEF StatusCommit, CallsHaveRows
  <2>2. opened' = opened /\ ref' = ref /\ rows' = rows
    BY <1>0, <2>1, StatusAssumption DEF StatusTxn, TypeOK, Absent
  <2> QED BY <2>1, <2>2 DEF Record!record
<1>4. ASSUME NEW c \in Conns, DecisionCommit(c) PROVE Record!Next
  <2> DEFINE r == call[c].request
             m == call[c].comment
  <2>1. /\ r \in Requests /\ m \in Comments \cup {NoComment} /\ r \in opened
        /\ DecisionTxn(r, m) /\ told' \in {told, told \cup ({m} \ {NoComment})}
    BY <1>0, <1>4, CallFacts DEF DecisionCommit, CallsHaveRows
  <2>2. opened' = opened /\ ref' = ref
    BY <1>0, <2>1 DEF DecisionTxn, TypeOK, Absent
  <2>3. m # NoComment => ~Record!Answered(m)
    BY <2>1 DEF DecisionTxn, Known, RowsOf, Record!Answered
  <2>4. Record!Answer(r, m)
    BY <2>1, <2>2, <2>3 DEF DecisionTxn, Record!Answer
  <2> QED BY <2>1, <2>4 DEF Record!Next
<1>5. ASSUME NEW c \in Conns, NEW r \in Requests,
             NEW m \in Comments \cup {NoComment}, DecisionKnown(c, r, m)
      PROVE  Record!Next
  <2>1. m \in Comments /\ UNCHANGED tables /\ told' = told \cup {m}
        /\ Record!Answered(m)
    BY <1>5 DEF DecisionKnown, Known, RowsOf, Record!Answered
  <2>2. Record!Tell(m)
    BY <2>1 DEF tables, Record!Tell
  <2> QED BY <2>1, <2>2 DEF Record!Next
<1>6. CASE UNCHANGED <<tables, told>>
  BY <1>6 DEF tables, Record!record
<1> QED BY <1>1, <1>2, <1>3, <1>4, <1>5, <1>6
        DEF Next, Step, vars, OpenFind, RefRead, StatusRead, DecisionRead,
            OpenRefused, RefLost, DecisionRefused, Abandon

\* The interleaved, abandoned and repeated calls of any number of connections
\* implement a record published once and answered once per comment
\* (open_supervision_request, set_supervision_external_ref,
\* record_supervision_decision).
THEOREM RecordRefinement == Spec => RecordSpec
<1> QED BY AlwaysIInv, InitRefines, StepRefines, PTL DEF Spec, RecordSpec, Record!Spec
=============================================================================
