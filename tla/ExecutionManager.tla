-------------------------- MODULE ExecutionManager --------------------------
(***************************************************************************)
(* ExecutionManager, the supervision tables it reads and writes through    *)
(* HarnessStore, and InMemorySupervisionPort, run by several processes on  *)
(* one database.  Each process is sequential and owns a store connection,  *)
(* a manager and a port whose memory dies with it.                         *)
(*                                                                         *)
(* A lifecycle method is a plan: the sequence of store calls it makes.     *)
(* One step executes one read or one transaction of the current call, so   *)
(* the methods of different processes interleave between any two of them.  *)
(* The tasks table is TaskLedger's, which HarnessStore implements.         *)
(***************************************************************************)
EXTENDS Governance, Naturals, Sequences, FiniteSets

CONSTANTS Tasks, Heads, NoHead,
          Drivers,        \* processes that run tasks (Slice0Orchestrator.run)
          Syncers,        \* processes that collect decisions and sync them
          MaxAttempts,    \* bound: provider attempts recorded per task
          MaxDecisions,   \* bound: no submission once this many are recorded
          Foreign,        \* may callers open checkpoints of their own?
          Crashes,        \* may a process die?
          Faults,         \* may a store call raise (database busy)?
          Redrive         \* may a driver take up a RUNNING task nobody drives?

ASSUME ConfigAssumption ==
  /\ MaxAttempts \in Nat /\ MaxDecisions \in Nat
  /\ {Foreign, Crashes, Faults, Redrive} \subseteq BOOLEAN
ASSUME NoVerdictAssumption == NoVerdict \notin Verdict

Procs == Drivers \cup Syncers

VARIABLES
  state, head,    \* the tasks table
  attempts,       \* attempts[t]: rows of provider_attempts for t
  requests,       \* supervision_requests, in the order they were created
  decided,        \* supervision_decisions: <<request, actor, decision>>
  human,          \* human[p]: port._human of process p, a dict by request
  supervisor,     \* supervisor[p]: port._supervisor
  drive,          \* drive[p]: the task p is running, and how far it is
  frame           \* frame[p]: what the method p is executing has left to do

database == <<state, head, attempts, requests, decided>>
memory == <<human, supervisor>>
vars == <<database, memory, drive, frame>>

Ledger == INSTANCE TaskLedger

-----------------------------------------------------------------------------
(***************************************************************************)
(* Store calls.                                                            *)
(***************************************************************************)
Move(to) == [do |-> "move", to |-> to]                 \* _move
Require(s) == [do |-> "require", in |-> s]             \* _require
SetHead(h) == [do |-> "set_head", head |-> h]          \* set_head_sha
Open(cp) == [do |-> "open", checkpoint |-> cp]         \* _open_checkpoint
HumanRequired == [do |-> "human_required"]
Consult == [do |-> "consult"]                          \* poll, then the policy
CanApply == [do |-> "can_apply"]
Claim == [do |-> "claim"]                              \* claim_supervision_verdict

(***************************************************************************)
(* Lifecycle methods, as the calls they make.                              *)
(***************************************************************************)
Blocked(cp) == <<Move("BLOCKED"), Open(cp)>>
HumanDecided(to) == <<Require("WAITING_HUMAN"), Move(to)>>

\* what a process that drives a task calls once the provider has returned
ProviderEnds ==
  {<<Move("INTERRUPTED")>>,                            \* provider_timed_out
   <<Move("FAILED")>>,                                 \* provider_failed
   <<Move("BLOCKED")>>,                                \* no_progress
   Blocked("provider_unavailable")}
CandidateProduced(h) ==
  <<Require("RUNNING"), SetHead(h), Move("VERIFYING")>>

\* and once the gates have been evaluated
GatesEnd ==
  {<<Require("VERIFYING"), Move("READY"), Open("candidate_ready")>>,
   Blocked("gates_blocked"),
   <<Move("BLOCKED")>>}                                \* retry_refused
GatesRetry == <<Move("RUNNING")>>

\* mutant: human_decided without human_required before it
EffectWithoutHumanRequired(verdict) ==
  CASE verdict = "CONTINUE"       -> <<Move("RUNNING")>>
    [] verdict = "HUMAN_REQUIRED" -> <<HumanRequired>>
    [] verdict = "HUMAN_RESUME"   -> HumanDecided("RUNNING")
    [] verdict = "HUMAN_BLOCK"    -> HumanDecided("BLOCKED")

\* what _apply_supervision does after it has claimed a verdict
Effect(verdict) ==
  CASE verdict = "CONTINUE"       -> <<Move("RUNNING")>>
    [] verdict = "HUMAN_REQUIRED" -> <<HumanRequired>>
    [] verdict = "HUMAN_RESUME"   -> <<HumanRequired>> \o HumanDecided("RUNNING")
    [] verdict = "HUMAN_BLOCK"    -> <<HumanRequired>> \o HumanDecided("BLOCKED")

(***************************************************************************)
(* Frames: the method's task, the calls it has left, what the current call *)
(* has read ("none" before its read), and, in sync_supervision, the        *)
(* request and verdict at hand and the requests listed but not yet seen.   *)
(***************************************************************************)
NoTask == "none"
ASSUME NoTaskAssumption == NoTask \notin Tasks
NoDrive == [task |-> NoTask, phase |-> "none"]
NoFrame == [task |-> NoTask, todo |-> <<>>, read |-> "none",
            request |-> 0, verdict |-> NoVerdict, queue |-> <<>>]

Idle(p) == frame[p] = NoFrame
Call(p, t, plan) ==
  frame' = [frame EXCEPT ![p] = [NoFrame EXCEPT !.task = t, !.todo = plan]]
Doing(p, do) == frame[p].todo # <<>> /\ Head(frame[p].todo).do = do
Arg(p) == Head(frame[p].todo)

\* the frame of a sync that starts on the first request of its list
Visit(queue) ==
  IF queue = <<>> THEN NoFrame
  ELSE [NoFrame EXCEPT !.task = requests[Head(queue)].task,
                       !.todo = <<Consult>>, !.request = Head(queue),
                       !.queue = Tail(queue)]

\* the frame after the current call returns, or after the method does
AfterCall(f) ==
  IF Len(f.todo) > 1 THEN [f EXCEPT !.todo = Tail(@), !.read = "none"]
                     ELSE Visit(f.queue)
Returns(p) == frame' = [frame EXCEPT ![p] = AfterCall(@)]
MethodReturns(p) == frame' = [frame EXCEPT ![p] = Visit(@.queue)]

Driven(t) == \E p \in Drivers :
  drive[p].task = t \/ (frame[p].task = t /\ frame[p].request = 0)
Drives(p, t, phase) == drive[p] = [task |-> t, phase |-> phase]
EnterPhase(p, t, phase) ==
  drive' = [drive EXCEPT ![p] = [task |-> t, phase |-> phase]]
LetGo(p) == drive' = [drive EXCEPT ![p] = NoDrive]

-----------------------------------------------------------------------------
Init ==
  /\ Ledger!Init
  /\ attempts = [t \in Tasks |-> 0]
  /\ requests = <<>>
  /\ decided = {}
  /\ human = [p \in Procs |-> <<>>]
  /\ supervisor = [p \in Procs |-> <<>>]
  /\ drive = [p \in Procs |-> NoDrive]
  /\ frame = [p \in Procs |-> NoFrame]

(***************************************************************************)
(* The driver of a task.                                                   *)
(***************************************************************************)
\* begin: create_task, then _move to RUNNING
Begin(p, t) ==
  /\ p \in Drivers /\ Idle(p) /\ drive[p] = NoDrive
  /\ Ledger!Create(t)
  /\ EnterPhase(p, t, "provider")
  /\ Call(p, t, <<Move("RUNNING")>>)
  /\ UNCHANGED <<attempts, requests, decided, memory>>

\* a caller takes up a task that was left RUNNING
Adopt(p, t) ==
  /\ Redrive
  /\ p \in Drivers /\ Idle(p) /\ drive[p] = NoDrive
  /\ state[t] = "RUNNING" /\ ~Driven(t)
  /\ EnterPhase(p, t, "provider")
  /\ UNCHANGED <<database, memory, frame>>

\* the provider returns and record_provider_attempt commits
Attempt(p, t) ==
  /\ Idle(p) /\ Drives(p, t, "provider")
  /\ attempts[t] < MaxAttempts
  /\ attempts' = [attempts EXCEPT ![t] = @ + 1]
  /\ EnterPhase(p, t, "outcome")
  /\ UNCHANGED <<state, head, requests, decided, memory, frame>>

\* a lifecycle method after which run() returns, and one after which it goes on
EndDrive(p, t, phase, plan) ==
  /\ Idle(p) /\ Drives(p, t, phase)
  /\ Call(p, t, plan)
  /\ LetGo(p)
  /\ UNCHANGED <<database, memory>>

KeepDriving(p, t, phase, plan, next) ==
  /\ Idle(p) /\ Drives(p, t, phase)
  /\ Call(p, t, plan)
  /\ EnterPhase(p, t, next)
  /\ UNCHANGED <<database, memory>>

ProviderDone(p, t) ==
  \/ \E plan \in ProviderEnds : EndDrive(p, t, "outcome", plan)
  \/ \E h \in Heads : KeepDriving(p, t, "outcome", CandidateProduced(h), "gates")

GatesDone(p, t) ==
  \/ \E plan \in GatesEnd : EndDrive(p, t, "gates", plan)
  \/ KeepDriving(p, t, "gates", GatesRetry, "provider")

(***************************************************************************)
(* The steps of a lifecycle method.                                        *)
(***************************************************************************)
\* transition_task: read the state, test the edge, then the guarded UPDATE
MoveRead(p) ==
  /\ Doing(p, "move") /\ frame[p].read = "none"
  /\ TransitionAllowed(state[frame[p].task], Arg(p).to)
  /\ frame' = [frame EXCEPT ![p].read = state[frame[p].task]]
  /\ UNCHANGED <<database, memory, drive>>

MoveCommit(p) ==
  /\ Doing(p, "move")
  /\ state[frame[p].task] = frame[p].read
  /\ Ledger!Move(frame[p].task, Arg(p).to)
  /\ Returns(p)
  /\ UNCHANGED <<attempts, requests, decided, memory, drive>>

RequireRead(p) ==
  /\ Doing(p, "require")
  /\ state[frame[p].task] = Arg(p).in
  /\ Returns(p)
  /\ UNCHANGED <<database, memory, drive>>

\* set_head_sha tests RUNNING when it reads and again when it writes: one step
SetHeadCommit(p) ==
  /\ Doing(p, "set_head")
  /\ Ledger!SetHead(frame[p].task, Arg(p).head)
  /\ Returns(p)
  /\ UNCHANGED <<attempts, requests, decided, memory, drive>>

\* human_required: nothing to do in WAITING_HUMAN, else a transition
HumanRequiredRead(p) ==
  /\ Doing(p, "human_required")
  /\ IF state[frame[p].task] = "WAITING_HUMAN" THEN Returns(p)
     ELSE frame' = [frame EXCEPT ![p].todo = <<Move("WAITING_HUMAN")>> \o Tail(@)]
  /\ UNCHANGED <<database, memory, drive>>

\* open_checkpoint: the id is a hash of what is read; a row with it is reused
Row(t, cp, h, n) ==
  [task |-> t, checkpoint |-> cp, head |-> h, attempt |-> n, applied |-> NoVerdict]
\* mutant: the id leaves head_sha and attempt_id out
SameIdByTask(r, row) == r.task = row.task
SameId(r, row) == [r EXCEPT !.applied = NoVerdict] = row
Exists(row) == \E r \in 1..Len(requests) : SameId(requests[r], row)

OpenRead(p) ==
  /\ Doing(p, "open")
  /\ LET t == frame[p].task
         row == Row(t, Arg(p).checkpoint, head[t], attempts[t])
     IN  IF Exists(row) THEN Returns(p)
         ELSE frame' = [frame EXCEPT ![p].todo =
                          <<[do |-> "insert", row |-> row]>> \o Tail(@)]
  /\ UNCHANGED <<database, memory, drive>>

OpenInsert(p) ==
  /\ Doing(p, "insert")
  /\ ~Exists(Arg(p).row)
  /\ requests' = Append(requests, Arg(p).row)
  /\ Returns(p)
  /\ UNCHANGED <<state, head, attempts, decided, memory, drive>>

\* a caller opens a checkpoint of its own through the port
OpenForeign(p, t) ==
  /\ Foreign
  /\ p \in Syncers /\ Idle(p) /\ drive[p] = NoDrive
  /\ state[t] = "BLOCKED"
  /\ ~Exists(Row(t, "synthetic_denied_action", head[t], attempts[t]))
  /\ Call(p, t, <<Open("synthetic_denied_action")>>)
  /\ UNCHANGED <<database, memory, drive>>

(***************************************************************************)
(* Decisions reach the port of one process: its memory first, then the     *)
(* supervision_decisions row, which the store may fail to write.           *)
(***************************************************************************)
Put(f, r, d) == [x \in DOMAIN f \cup {r} |-> IF x = r THEN d ELSE f[x]]
MaySubmit(p) ==
  /\ p \in Syncers /\ Idle(p) /\ drive[p] = NoDrive
  /\ Cardinality(decided) < MaxDecisions
Answer(f, r) == IF r \in DOMAIN f THEN f[r] ELSE "none"
\* mutant: submit_* only remembers
RecordsNothing(entry) == UNCHANGED decided
Records(entry) == decided' = decided \cup {entry} \/ (Faults /\ UNCHANGED decided)

SubmitHuman(p, r, d) ==
  /\ MaySubmit(p)
  /\ human' = [human EXCEPT ![p] = Put(@, r, d)]
  /\ Records(<<r, "HUMAN", d>>)
  /\ UNCHANGED <<state, head, attempts, requests, supervisor, drive, frame>>

SubmitSupervisor(p, r, d) ==
  /\ MaySubmit(p)
  /\ supervisor' = [supervisor EXCEPT ![p] = Put(@, r, d)]
  /\ Records(<<r, "SUPERVISOR", d>>)
  /\ UNCHANGED <<state, head, attempts, requests, human, drive, frame>>

(***************************************************************************)
(* sync_supervision: list the unresolved requests once, then apply each.   *)
(***************************************************************************)
Unresolved(r) == requests[r].applied \notin TerminalVerdicts
\* mutant: the query without its WHERE on applied_verdict
UnresolvedOfAll(T) == {r \in 1..Len(requests) : requests[r].task \in T}
UnresolvedOf(T) == {r \in 1..Len(requests) : Unresolved(r) /\ requests[r].task \in T}
\* ORDER BY created_at, request_id: a stamp taken before the insert, then a hash
Listings(S) == {list \in [1..Cardinality(S) -> S] :
                  \A i, j \in 1..Cardinality(S) : i # j => list[i] # list[j]}

StartSync(p, T) ==
  /\ p \in Syncers /\ Idle(p) /\ drive[p] = NoDrive
  /\ UnresolvedOf(T) # {}
  /\ \E list \in Listings(UnresolvedOf(T)) : frame' = [frame EXCEPT ![p] = Visit(list)]
  /\ UNCHANGED <<database, memory, drive>>

\* mutant: a supervisor's answer hides the human's
PollSupervisorFirst(p, r) ==
  CASE Answer(supervisor[p], r) = "CONTINUE_AUTONOMOUSLY" -> VerdictForStatus("CONTINUE", TRUE)
    [] Answer(supervisor[p], r) = "REQUEST_HUMAN_ACTION" ->
         VerdictForStatus("WAITING_HUMAN", FALSE)
    [] OTHER ->
         CASE Answer(human[p], r) = "REJECTED" -> VerdictForStatus("HUMAN_REJECTED", FALSE)
           [] Answer(human[p], r) = "APPROVED" -> VerdictForStatus("HUMAN_DECIDED", TRUE)
           [] OTHER -> VerdictForStatus("PENDING", FALSE)

\* InMemorySupervisionPort.poll: a human's answer hides the supervisor's
Poll(p, r) ==
  CASE Answer(human[p], r) = "REJECTED" -> VerdictForStatus("HUMAN_REJECTED", FALSE)
    [] Answer(human[p], r) = "APPROVED" -> VerdictForStatus("HUMAN_DECIDED", TRUE)
    [] Answer(human[p], r) = "none" ->
         CASE Answer(supervisor[p], r) = "none" -> VerdictForStatus("PENDING", FALSE)
           [] Answer(supervisor[p], r) = "CONTINUE_AUTONOMOUSLY" ->
                VerdictForStatus("CONTINUE", TRUE)
           [] OTHER -> VerdictForStatus("WAITING_HUMAN", FALSE)

\* mutant: policy is not consulted
GovernedByAnswer(verdict, checkpoint, s) ==
  IF verdict = "CONTINUE" /\ ~TransitionAllowed(s, "RUNNING") THEN "HUMAN_REQUIRED"
  ELSE verdict

\* the polled verdict, weighed against policy and the state of the task
Governed(verdict, checkpoint, s) ==
  CASE verdict = "CONTINUE" ->
         IF SupervisorMayGrant(checkpoint) /\ TransitionAllowed(s, "RUNNING")
         THEN "CONTINUE" ELSE "HUMAN_REQUIRED"
    [] verdict = "HUMAN_RESUME" ->
         IF HumanMayGrant(checkpoint) THEN "HUMAN_RESUME" ELSE "HUMAN_BLOCK"
    [] OTHER -> verdict

ConsultRead(p) ==
  LET f == frame[p]
      verdict == Governed(Poll(p, f.request), requests[f.request].checkpoint,
                          state[f.task])
  IN  /\ Doing(p, "consult")
      /\ IF verdict = "PENDING" THEN MethodReturns(p)
         ELSE frame' = [frame EXCEPT ![p].verdict = verdict,
                                     ![p].todo = <<CanApply>>]
      /\ UNCHANGED <<database, memory, drive>>

\* mutant: a human verdict applies only to a task that waits already
ApplicableWhenWaiting(verdict, s) ==
  IF verdict = "CONTINUE" THEN TransitionAllowed(s, "RUNNING") ELSE s = "WAITING_HUMAN"
Applicable(verdict, s) ==
  IF verdict = "CONTINUE" THEN TransitionAllowed(s, "RUNNING")
  ELSE s = "WAITING_HUMAN" \/ TransitionAllowed(s, "WAITING_HUMAN")

CanApplyRead(p) ==
  /\ Doing(p, "can_apply")
  /\ IF Applicable(frame[p].verdict, state[frame[p].task])
     THEN frame' = [frame EXCEPT ![p].todo = <<Claim>>]
     ELSE MethodReturns(p)
  /\ UNCHANGED <<database, memory, drive>>

\* mutant: the claim tests the row but does not store CONTINUE
ClaimTxnForgetful(r, verdict) ==
  /\ requests[r].applied # verdict
  /\ requests' = IF verdict = "CONTINUE" THEN requests
                 ELSE [requests EXCEPT ![r].applied = verdict]

\* UPDATE ... WHERE applied_verdict IS NULL OR applied_verdict != verdict
ClaimTxn(r, verdict) ==
  /\ requests[r].applied # verdict
  /\ requests' = [requests EXCEPT ![r].applied = verdict]

ClaimCommit(p) ==
  /\ Doing(p, "claim")
  /\ ClaimTxn(frame[p].request, frame[p].verdict)
  /\ frame' = [frame EXCEPT ![p].todo = Effect(frame[p].verdict)]
  /\ UNCHANGED <<state, head, attempts, decided, memory, drive>>

ClaimRefused(p) ==
  /\ Doing(p, "claim")
  /\ requests[frame[p].request].applied = frame[p].verdict
  /\ MethodReturns(p)
  /\ UNCHANGED <<database, memory, drive>>

(***************************************************************************)
(* Failure.                                                                *)
(***************************************************************************)
Fails(p) ==
  LET s == state[frame[p].task] IN
  \/ Doing(p, "move") /\ frame[p].read = "none" /\ ~TransitionAllowed(s, Arg(p).to)
  \/ Doing(p, "move") /\ frame[p].read # "none" /\ s # frame[p].read
  \/ Doing(p, "require") /\ s # Arg(p).in
  \/ Doing(p, "set_head") /\ s # "RUNNING"
  \/ Doing(p, "insert") /\ Exists(Arg(p).row)

\* the method raises: run() propagates it, sync_supervision too unless it was
\* given an on_error, and then it goes on with the next request
Raise(p) ==
  /\ ~Idle(p)
  /\ Fails(p) \/ Faults
  /\ \/ frame' = [frame EXCEPT ![p] = NoFrame]
     \/ frame[p].queue # <<>> /\ MethodReturns(p)
  /\ LetGo(p)
  /\ UNCHANGED <<database, memory>>

\* the process dies and is started again: the database is all that is left
Crash(p) ==
  /\ Crashes
  /\ frame' = [frame EXCEPT ![p] = NoFrame]
  /\ human' = [human EXCEPT ![p] = <<>>]
  /\ supervisor' = [supervisor EXCEPT ![p] = <<>>]
  /\ LetGo(p)
  /\ UNCHANGED database

-----------------------------------------------------------------------------
Continue(p) ==
  \/ MoveRead(p) \/ MoveCommit(p) \/ RequireRead(p) \/ SetHeadCommit(p)
  \/ HumanRequiredRead(p) \/ OpenRead(p) \/ OpenInsert(p)
  \/ ConsultRead(p) \/ CanApplyRead(p) \/ ClaimCommit(p) \/ ClaimRefused(p)
  \/ Raise(p)

Drive(p, t) ==
  \/ Begin(p, t) \/ Adopt(p, t) \/ Attempt(p, t)
  \/ ProviderDone(p, t) \/ GatesDone(p, t)

Submit(p, r) ==
  \/ \E d \in HumanKinds : SubmitHuman(p, r, d)
  \/ \E d \in SupervisorKinds : SubmitSupervisor(p, r, d)

Sync(p) == \E T \in {Tasks} \cup {{t} : t \in Tasks} : StartSync(p, T)

Next ==
  \E p \in Procs :
    \/ \E t \in Tasks : Drive(p, t) \/ OpenForeign(p, t)
    \/ \E r \in 1..Len(requests) : Submit(p, r)
    \/ Sync(p) \/ Continue(p) \/ Crash(p)

Spec == Init /\ [][Next]_vars

\* a started method goes on, and a caller that has unresolved requests syncs
Fairness ==
  \A p \in Procs : WF_vars(Continue(p)) /\ WF_vars(Sync(p))
FairSpec == Spec /\ Fairness

-----------------------------------------------------------------------------
Request == [task : Tasks, checkpoint : Checkpoint, head : Heads \cup {NoHead},
            attempt : 0..MaxAttempts, applied : Verdict \cup {NoVerdict}]
Instruction ==
       [do : {"move"}, to : TaskState] \cup [do : {"require"}, in : TaskState]
  \cup [do : {"set_head"}, head : Heads] \cup [do : {"open"}, checkpoint : Checkpoint]
  \cup [do : {"insert"}, row : Request]
  \cup [do : {"human_required", "consult", "can_apply", "claim"}]
Frame == [task : Tasks \cup {NoTask}, todo : Seq(Instruction),
          read : TaskState \cup {"none"}, request : Nat,
          verdict : Verdict \cup {NoVerdict}, queue : Seq(Nat)]
IsAnswers(f, kinds) == DOMAIN f \subseteq 1..Len(requests) /\ \A r \in DOMAIN f : f[r] \in kinds

TypeOK ==
  /\ state \in [Tasks -> RowState]
  /\ head \in [Tasks -> Heads \cup {NoHead}]
  /\ attempts \in [Tasks -> 0..MaxAttempts]
  /\ requests \in Seq(Request)
  /\ decided \subseteq (1..Len(requests)) \X {"HUMAN", "SUPERVISOR"}
                        \X (HumanKinds \cup SupervisorKinds)
  /\ \A p \in Procs : IsAnswers(human[p], HumanKinds)
                      /\ IsAnswers(supervisor[p], SupervisorKinds)
  /\ drive \in [Procs -> {NoDrive} \cup
                 [task : Tasks, phase : {"provider", "outcome", "gates"}]]
  /\ frame \in [Procs -> Frame]

-----------------------------------------------------------------------------
RequestsOf(t) == {r \in 1..Len(requests) : requests[r].task = t}

(***************************************************************************)
(* The task as supervision shows it: from the claim of a verdict on, where *)
(* the verdict takes it, with the checkpoint that is open and the answers  *)
(* the ports hold to it.                                                   *)
(***************************************************************************)
Outcome(verdict) ==
  CASE verdict \in {"CONTINUE", "HUMAN_RESUME"} -> "RUNNING"
    [] verdict = "HUMAN_BLOCK"                 -> "BLOCKED"
    [] OTHER                                   -> "WAITING_HUMAN"
Applies(p, t) ==
  /\ frame[p].task = t /\ frame[p].request # 0
  /\ \E do \in {"move", "require", "human_required"} : Doing(p, do)
Shown(t) ==
  IF \E p \in Syncers : Applies(p, t)
  THEN Outcome(frame[CHOOSE p \in Syncers : Applies(p, t)].verdict)
  ELSE state[t]

OpenOn(t) == {requests[r].checkpoint : r \in UnresolvedOf({t})}
Said(memories, kinds, t) ==
  {d \in kinds : \E p \in Syncers, r \in UnresolvedOf({t}) : Answer(memories[p], r) = d}
Refused(t) == \E r \in RequestsOf(t) : requests[r].applied = "HUMAN_BLOCK"

Supervised == INSTANCE SupervisedTask WITH
  state      <- [t \in Tasks |-> Shown(t)],
  gate       <- [t \in Tasks |-> OpenOn(t)],
  human      <- [t \in Tasks |-> Said(human, HumanKinds, t)],
  supervisor <- [t \in Tasks |-> Said(supervisor, SupervisorKinds, t)],
  refused    <- [t \in Tasks |-> Refused(t)]

(***************************************************************************)
(* One process that syncs, which neither dies nor meets a busy database,   *)
(* implements SupervisedTask: listing, polling, weighing, claiming and the *)
(* two transactions that move the task behave as the one step of the claim *)
(* on the answers, the policy and the state of that moment.                *)
(***************************************************************************)
SettlesAtOnce == Supervised!Spec

-----------------------------------------------------------------------------
(***************************************************************************)
(* Authority.                                                              *)
(***************************************************************************)
\* process p holds an answer to r that policy lets the answerer give
Granted(p, r) ==
  \/ /\ Answer(human[p], r) = "APPROVED"
     /\ HumanMayGrant(requests[r].checkpoint)
  \/ /\ Answer(human[p], r) = "none"
     /\ Answer(supervisor[p], r) = "CONTINUE_AUTONOMOUSLY"
     /\ SupervisorMayGrant(requests[r].checkpoint)

(***************************************************************************)
(* A task that was put in front of supervision runs again only on an       *)
(* answer whose giver policy empowers: a supervisor for an ALLOW           *)
(* capability, a human for anything but DENY (the last paragraph of        *)
(* docs/trust-model.md), whatever else happens between poll and move.      *)
(***************************************************************************)
ResumeIsAuthorised ==
  [][\A t \in Tasks :
       state[t] \in {"READY", "BLOCKED", "WAITING_HUMAN"} /\ state'[t] = "RUNNING"
         => \E p \in Syncers, r \in RequestsOf(t) : Granted(p, r)]_vars

(***************************************************************************)
(* A verdict on record has the decision behind it on record: what          *)
(* supervision_requests says was applied, supervision_decisions explains.  *)
(***************************************************************************)
VerdictIsBacked ==
  \A r \in 1..Len(requests) :
    /\ requests[r].applied = "CONTINUE" =>
         <<r, "SUPERVISOR", "CONTINUE_AUTONOMOUSLY">> \in decided
    /\ requests[r].applied = "HUMAN_RESUME" => <<r, "HUMAN", "APPROVED">> \in decided
    /\ requests[r].applied = "HUMAN_BLOCK" =>
         \/ <<r, "HUMAN", "REJECTED">> \in decided
         \/ /\ <<r, "HUMAN", "APPROVED">> \in decided
            /\ ~HumanMayGrant(requests[r].checkpoint)

(***************************************************************************)
(* CONTINUE, HUMAN_RESUME and HUMAN_BLOCK are terminal: once one is        *)
(* recorded as applied, the request is settled and never changes verdict.  *)
(***************************************************************************)
TerminalVerdictIsFinal ==
  [][\A r \in 1..Len(requests) :
       requests[r].applied \in TerminalVerdicts =>
         requests'[r].applied = requests[r].applied]_vars

(***************************************************************************)
(* A recorded terminal verdict is the state of its task, once nobody is    *)
(* applying it and until the task is tried again: the claim and the moves  *)
(* that follow it are separate transactions.                               *)
(***************************************************************************)
BeingApplied(r) == \E p \in Syncers : frame[p].request = r
VerdictTakesEffect ==
  \A r \in 1..Len(requests) :
    LET t == requests[r].task
        latest == \A q \in RequestsOf(t) \ {r} :
                    requests[q].attempt < requests[r].attempt
    IN  latest /\ attempts[t] = requests[r].attempt /\ ~BeingApplied(r) =>
          /\ requests[r].applied \in {"CONTINUE", "HUMAN_RESUME"} => state[t] = "RUNNING"
          /\ requests[r].applied = "HUMAN_BLOCK" => state[t] = "BLOCKED"

(***************************************************************************)
(* While a task is being driven, nobody but its driver takes it out of     *)
(* RUNNING or VERIFYING: supervision does not reach into a verification.   *)
(***************************************************************************)
DriverOwnsActiveTask ==
  [][\A t \in Tasks :
       Driven(t) /\ state[t] \in {"RUNNING", "VERIFYING"} /\ state'[t] # state[t]
         => \E p \in Drivers : /\ frame[p].task = t /\ frame[p].request = 0
                               /\ frame'[p] # frame[p]]_vars

(***************************************************************************)
(* A task that waits for a human over its merge runs again only on a       *)
(* human's approval of that very request: neither a supervisor nor an      *)
(* answer to an older checkpoint of the same task opens the merge gate.    *)
(***************************************************************************)
MergeGate(t) == {r \in RequestsOf(t) : /\ requests[r].checkpoint = "candidate_ready"
                                       /\ requests[r].attempt = attempts[t]
                                       /\ requests[r].head = head[t]}
HumanGateHolds ==
  [][\A t \in Tasks :
       state[t] = "WAITING_HUMAN" /\ state'[t] = "RUNNING" /\ MergeGate(t) # {}
         => \E p \in Syncers, r \in MergeGate(t) : Answer(human[p], r) = "APPROVED"]_vars

(***************************************************************************)
(* READY means there is something for a human to decide: the checkpoint of *)
(* the verified head exists as soon as the driver has let the task go.     *)
(***************************************************************************)
ReadyHasCheckpoint ==
  \A t \in Tasks : state[t] = "READY" /\ ~Driven(t) => MergeGate(t) # {}

(***************************************************************************)
(* Of the checkpoints the manager opens for a task, at most one is open.   *)
(***************************************************************************)
OneOpenGate ==
  \A t \in Tasks :
    Cardinality({r \in RequestsOf(t) :
      Unresolved(r) /\ requests[r].checkpoint # "synthetic_denied_action"}) <= 1

(***************************************************************************)
(* A refusal that is recorded finds its task put aside and leaves it so,   *)
(* though the process may die before it moves the task: no driver is at    *)
(* work that would take it up again, as gates_failed(retrying) does from   *)
(* whatever state the task is in.                                          *)
(***************************************************************************)
RefusalStands ==
  \A r \in 1..Len(requests) :
    requests[r].applied = "HUMAN_BLOCK" =>
      state[requests[r].task] \in {"READY", "BLOCKED", "WAITING_HUMAN"}

(***************************************************************************)
(* A human's answer settles its request, unless the task has moved on to   *)
(* where no verdict applies.                                               *)
(***************************************************************************)
AnswerSettles ==
  \A p \in Syncers, r \in 1..(2 * MaxAttempts) :
    r \in DOMAIN human[p] ~>
      \/ r > Len(requests) \/ ~Unresolved(r)
      \/ state[requests[r].task] \notin {"READY", "BLOCKED", "WAITING_HUMAN"}
=============================================================================
