--------------------------- MODULE SupervisionStore --------------------------
(***************************************************************************)
(* The supervision_requests and supervision_decisions methods of           *)
(* HarnessStore, called by several connections: the side of the store a    *)
(* transport uses to publish checkpoints and to bring decisions back.      *)
(* A method is a read and a transaction; between the two any other         *)
(* connection may commit.  A call that returns or raises before it writes  *)
(* and tells its caller nothing new is no step.  claim_supervision_verdict *)
(* and the unresolved query are modelled in ExecutionManager.              *)
(***************************************************************************)
EXTENDS Trail

CONSTANTS Conns,      \* connections: one per process that opened the store
          Requests,   \* request ids
          Refs,       \* references of published requests
          NoRef,      \* external_ref IS NULL
          Comments,   \* external_comment_id
          NoComment,  \* external_comment_id IS NULL
          Statuses,   \* what callers pass to set_supervision_status
          MaxEvents,  \* bound: no call starts on a request with this many events
          MaxRows     \* bound: nor while there are this many decisions

ASSUME NullAssumption == NoRef \notin Refs /\ NoComment \notin Comments
ASSUME BoundAssumption == MaxEvents \in Nat /\ MaxRows \in Nat

\* no caller passes the model's marker of a missing row
ASSUME StatusAssumption == "ABSENT" \notin Statuses

VARIABLES status,     \* supervision_requests.status, Absent without a row
          ref,        \* supervision_requests.external_ref
          rows,       \* supervision_decisions; the decision_id is the index
          events,     \* events[r]: the events that name r, by event_id
          call,       \* call[c]: the locals of the method c is executing
          told        \* comments for which some caller was given a decision_id

tables == <<status, ref, rows, events>>
vars == <<tables, call, told>>

Absent == "ABSENT"
Status == {"PENDING", "DECIDED"} \cup Statuses

(***************************************************************************)
(* Audit events.                                                           *)
(***************************************************************************)
RequestCreated == [type |-> "SUPERVISION_REQUEST_CREATED"]
Published(x) == [type |-> "SUPERVISION_PUBLISHED", ref |-> x]
StatusChanged(from, to) ==
  [type |-> "SUPERVISION_STATUS_CHANGED", from |-> from, to |-> to]
DecisionRecorded(n) == [type |-> "SUPERVISION_DECISION_RECORDED", row |-> n]

Event ==
       {RequestCreated}
  \cup [type : {"SUPERVISION_PUBLISHED"}, ref : Refs]
  \cup [type : {"SUPERVISION_STATUS_CHANGED"}, from : Status, to : Status]
  \cup [type : {"SUPERVISION_DECISION_RECORDED"}, row : Nat \ {0}]

Log(r, e) == events' = [events EXCEPT ![r] = Append(@, e)]

RowsOf(m) == {n \in 1..Len(rows) : rows[n].comment = m}
Known(m) == m # NoComment /\ RowsOf(m) # {}

(***************************************************************************)
(* Transactions.                                                           *)
(***************************************************************************)
\* INSERT INTO supervision_requests: request_id is the primary key
CreateTxn(r) ==
  /\ status[r] = Absent
  /\ status' = [status EXCEPT ![r] = "PENDING"]
  /\ Log(r, RequestCreated)
  /\ UNCHANGED <<ref, rows>>

\* mutant: the UPDATE without AND external_ref IS NULL
RefTxnUnguarded(r, x) ==
  /\ ref' = [ref EXCEPT ![r] = x]
  /\ Log(r, Published(x))
  /\ UNCHANGED <<status, rows>>

\* mutant: the event carries the reference the method read
RefTxnLogsOld(r, x) ==
  /\ ref[r] = NoRef
  /\ ref' = [ref EXCEPT ![r] = x]
  /\ Log(r, Published(ref[r]))
  /\ UNCHANGED <<status, rows>>

\* UPDATE ... SET external_ref=x WHERE request_id=r AND external_ref IS NULL
RefTxn(r, x) ==
  /\ ref[r] = NoRef
  /\ ref' = [ref EXCEPT ![r] = x]
  /\ Log(r, Published(x))
  /\ UNCHANGED <<status, rows>>

\* UPDATE ... SET status=to WHERE request_id=r, whatever it is by now
StatusTxn(r, from, to) ==
  /\ status' = [status EXCEPT ![r] = to]
  /\ Log(r, StatusChanged(from, to))
  /\ UNCHANGED <<ref, rows>>

\* mutant: the decision does not touch its request
DecisionTxnKeepsStatus(r, m) ==
  /\ ~Known(m)
  /\ rows' = Append(rows, [request |-> r, comment |-> m])
  /\ Log(r, DecisionRecorded(Len(rows) + 1))
  /\ UNCHANGED <<status, ref>>

\* mutant: the schema without the unique index on external_comment_id
DecisionTxnNotUnique(r, m) ==
  /\ rows' = Append(rows, [request |-> r, comment |-> m])
  /\ status' = [status EXCEPT ![r] = "DECIDED"]
  /\ Log(r, DecisionRecorded(Len(rows) + 1))
  /\ UNCHANGED ref

\* INSERT INTO supervision_decisions, unique where the comment is not null,
\* and the request becomes DECIDED
DecisionTxn(r, m) ==
  /\ ~Known(m)
  /\ rows' = Append(rows, [request |-> r, comment |-> m])
  /\ status' = [status EXCEPT ![r] = "DECIDED"]
  /\ Log(r, DecisionRecorded(Len(rows) + 1))
  /\ UNCHANGED ref

(***************************************************************************)
(* Calls.                                                                  *)
(***************************************************************************)
NoCall == [op |-> "none"]
Call == {NoCall}
   \cup [op : {"open"}, request : Requests]
   \cup [op : {"set_ref"}, request : Requests, ref : Refs]
   \cup [op : {"set_status"}, request : Requests, from : Status, to : Statuses]
   \cup [op : {"decide"}, request : Requests, comment : Comments \cup {NoComment}]

Idle(c) == call[c] = NoCall
Room(r) == Len(events[r]) < MaxEvents
Begin(c, locals) == call' = [call EXCEPT ![c] = locals]
Return(c) == call' = [call EXCEPT ![c] = NoCall]

Init ==
  /\ status = [r \in Requests |-> Absent]
  /\ ref = [r \in Requests |-> NoRef]
  /\ rows = <<>>
  /\ events = [r \in Requests |-> <<>>]
  /\ call = [c \in Conns |-> NoCall]
  /\ told = {}

\* open_supervision_request: find, then create; an existing row is returned
OpenFind(c, r) ==
  /\ Idle(c) /\ Room(r)
  /\ status[r] = Absent
  /\ Begin(c, [op |-> "open", request |-> r])
  /\ UNCHANGED <<tables, told>>

OpenInsert(c) ==
  /\ call[c].op = "open"
  /\ CreateTxn(call[c].request)
  /\ Return(c)
  /\ UNCHANGED told

\* the primary key is taken: IntegrityError
OpenRefused(c) ==
  /\ call[c].op = "open"
  /\ status[call[c].request] # Absent
  /\ Return(c)
  /\ UNCHANGED <<tables, told>>

\* set_supervision_external_ref: an equal reference returns, another raises
RefRead(c, r, x) ==
  /\ Idle(c) /\ Room(r)
  /\ status[r] # Absent /\ ref[r] = NoRef
  /\ Begin(c, [op |-> "set_ref", request |-> r, ref |-> x])
  /\ UNCHANGED <<tables, told>>

RefCommit(c) ==
  /\ call[c].op = "set_ref"
  /\ RefTxn(call[c].request, call[c].ref)
  /\ Return(c)
  /\ UNCHANGED told

\* rowcount # 1: "external_ref changed concurrently", rolled back
RefLost(c) ==
  /\ call[c].op = "set_ref"
  /\ ref[call[c].request] # NoRef
  /\ Return(c)
  /\ UNCHANGED <<tables, told>>

\* set_supervision_status: nothing to do if it is the status already
StatusRead(c, r, s) ==
  /\ Idle(c) /\ Room(r)
  /\ status[r] \notin {Absent, s}
  /\ Begin(c, [op |-> "set_status", request |-> r, from |-> status[r], to |-> s])
  /\ UNCHANGED <<tables, told>>

StatusCommit(c) ==
  /\ call[c].op = "set_status"
  /\ StatusTxn(call[c].request, call[c].from, call[c].to)
  /\ Return(c)
  /\ UNCHANGED told

\* record_supervision_decision: the request exists, the comment is not known
DecisionRead(c, r, m) ==
  /\ Idle(c) /\ Room(r) /\ Len(rows) < MaxRows
  /\ status[r] # Absent /\ ~Known(m)
  /\ Begin(c, [op |-> "decide", request |-> r, comment |-> m])
  /\ UNCHANGED <<tables, told>>

\* the comment is known: the decision it brought is returned, whichever
\* request it was for
DecisionKnown(c, r, m) ==
  /\ Idle(c) /\ status[r] # Absent /\ Known(m)
  /\ told' = told \cup {m}
  /\ UNCHANGED <<tables, call>>

\* the process may die between the commit and the return
DecisionCommit(c) ==
  LET m == call[c].comment IN
  /\ call[c].op = "decide"
  /\ DecisionTxn(call[c].request, m)
  /\ told' \in {told, told \cup ({m} \ {NoComment})}
  /\ Return(c)

\* the comment was recorded since it was looked up: IntegrityError
DecisionRefused(c) ==
  /\ call[c].op = "decide"
  /\ Known(call[c].comment)
  /\ Return(c)
  /\ UNCHANGED <<tables, told>>

\* the process dies, or SQLite raises after busy_timeout, before the write
Abandon(c) ==
  /\ ~Idle(c)
  /\ Return(c)
  /\ UNCHANGED <<tables, told>>

Step(c) ==
  \/ \E r \in Requests :
       \/ OpenFind(c, r)
       \/ \E x \in Refs : RefRead(c, r, x)
       \/ \E s \in Statuses : StatusRead(c, r, s)
       \/ \E m \in Comments \cup {NoComment} :
            DecisionRead(c, r, m) \/ DecisionKnown(c, r, m)
  \/ OpenInsert(c) \/ OpenRefused(c)
  \/ RefCommit(c) \/ RefLost(c)
  \/ StatusCommit(c)
  \/ DecisionCommit(c) \/ DecisionRefused(c)
  \/ Abandon(c)

Next == \E c \in Conns : Step(c)

Spec == Init /\ [][Next]_vars

-----------------------------------------------------------------------------
TypeOK ==
  /\ status \in [Requests -> Status \cup {Absent}]
  /\ ref \in [Requests -> Refs \cup {NoRef}]
  /\ rows \in Seq([request : Requests, comment : Comments \cup {NoComment}])
  /\ events \in [Requests -> Seq(Event)]
  /\ call \in [Conns -> Call]
  /\ told \subseteq Comments

(***************************************************************************)
(* The trail of a request reproduces its row and its decisions.  The       *)
(* latest event that sets a status names the status in the row, although   *)
(* set_supervision_status overwrites whatever was stored since it read (an *)
(* event's from may then be wrong; its to never is).  A request is         *)
(* published in the trail exactly if its row holds that reference, and     *)
(* every decision has its event under the request it is stored for.        *)
(***************************************************************************)
StatusEvents == {"SUPERVISION_REQUEST_CREATED", "SUPERVISION_STATUS_CHANGED",
                 "SUPERVISION_DECISION_RECORDED"}
StatusAfter(e) ==
  CASE e.type = "SUPERVISION_REQUEST_CREATED"   -> "PENDING"
    [] e.type = "SUPERVISION_DECISION_RECORDED" -> "DECIDED"
    [] OTHER -> e.to

StatusReadsBack(log, s) ==
  IF s = Absent THEN log = <<>>
  ELSE \E i \in 1..Len(log) :
         IsLatest(log, StatusEvents, i, Len(log)) /\ StatusAfter(log[i]) = s

RefReadsBack(log, x) ==
  /\ \A i \in 1..Len(log) : log[i].type = "SUPERVISION_PUBLISHED" => log[i].ref = x
  /\ x # NoRef => \E i \in 1..Len(log) : log[i].type = "SUPERVISION_PUBLISHED"

DecisionsReadBack(r) ==
  LET log == events[r] IN
  /\ \A n \in 1..Len(rows) :
       rows[n].request = r => \E i \in 1..Len(log) : log[i] = DecisionRecorded(n)
  /\ \A i \in 1..Len(log) : log[i].type = "SUPERVISION_DECISION_RECORDED" =>
       log[i].row \in 1..Len(rows) /\ rows[log[i].row].request = r

TrailMatchesRequest ==
  \A r \in Requests :
    /\ StatusReadsBack(events[r], status[r])
    /\ RefReadsBack(events[r], ref[r])
    /\ DecisionsReadBack(r)

(***************************************************************************)
(* A request is announced once: however many publishers race, its trail    *)
(* never holds a second SUPERVISION_PUBLISHED.                             *)
(***************************************************************************)
PublishedOnce ==
  \A r \in Requests : \A i, j \in 1..Len(events[r]) :
    events[r][i].type = "SUPERVISION_PUBLISHED"
      /\ events[r][j].type = "SUPERVISION_PUBLISHED" => i = j

(***************************************************************************)
(* Connections that read first and write later, die, and deliver comments  *)
(* twice implement a record that is published once and answered once per   *)
(* comment (tests/test_supervision_store_parity.py:60).                    *)
(***************************************************************************)
Record == INSTANCE SupervisionRecord WITH
            opened    <- {r \in Requests : status[r] # Absent},
            published <- ref,
            decisions <- rows
RecordSpec == Record!Spec
=============================================================================
