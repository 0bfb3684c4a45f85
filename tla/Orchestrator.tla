---------------------------- MODULE Orchestrator ----------------------------
(***************************************************************************)
(* One Slice0Orchestrator.run: provider attempts on a writer branch, a     *)
(* detached checkout of the candidate, trusted pytest, the gate engine,    *)
(* and the rows run() leaves in the database.  Around it run the provider, *)
(* whose processes may go on committing after execute has returned, and,   *)
(* once a checkpoint is open, another process that applies supervision.    *)
(*                                                                         *)
(* As in ExecutionManager a branch of the loop is a plan of store calls,   *)
(* one transaction a step.  transition_task is a single step here: what    *)
(* can come between its read and its write only makes it raise, and any    *)
(* step may raise (Stop).                                                  *)
(***************************************************************************)
EXTENDS Domain, Naturals, Sequences

CONSTANTS Heads,        \* commits a provider can make
          Base,         \* base_sha
          NoHead,       \* None, for head_sha and previous_head_sha
          Passing,      \* commits on which pytest exits 0 when it ends in time
          InBounds,     \* commits with an ok scope report and a CLEAN or
                        \* JUSTIFIED verification surface
          Supervised,   \* supervision is not None
          MaxAttempts,  \* the constructor's max_attempts
          MaxTrail      \* bound: supervision does not move a longer trail

ASSUME CommitAssumption ==
  /\ Passing \subseteq Heads /\ InBounds \subseteq Heads
  /\ Base \notin Heads /\ NoHead \notin Heads \cup {Base}
ASSUME MaxAttemptsAssumption == MaxAttempts \in Nat \ {0} /\ MaxTrail \in Nat
ASSUME SupervisedAssumption == Supervised \in BOOLEAN

VARIABLES
  state, head,  \* the tasks row
  trail,        \* the states its STATE_TRANSITION events say it moved to
  runs,         \* the runs table: state, ended, and the trail's length at start
  attempts,     \* provider_attempts, by attempt_number
  evidence,     \* the evidence table
  checkpoints,  \* supervision_requests
  writer,       \* HEAD of the writer worktree
  checkout,     \* HEAD of the latest verification checkout
  pc, plan,     \* where run() is, and the store calls it makes before going on
  provider,     \* provider_result
  candidate,    \* head_sha
  previous,     \* previous_head_sha
  cited,        \* previous_evidence_id: index into evidence, 0 for None
  result        \* what run() returns

database == <<state, head, trail, runs, attempts, evidence, checkpoints>>
git == <<writer, checkout>>
locals == <<provider, candidate, previous, cited>>
vars == <<database, git, pc, plan, locals, result>>

attempt == Len(runs)                   \* create_run is called once per attempt

-----------------------------------------------------------------------------
(***************************************************************************)
(* The provider (external) and the trusted runner: what they may report.   *)
(***************************************************************************)
Outcome == {"SUCCEEDED", "FAILED", "TIMED_OUT", "CANCELLED", "QUOTA_EXHAUSTED",
            "AUTH_UNAVAILABLE", "TRANSPORT_FAILED", "OUTCOME_UNKNOWN"}
ProviderResult == [outcome : Outcome, ok : BOOLEAN, timed_out : BOOLEAN]
TimedOut == [outcome |-> "TIMED_OUT", ok |-> FALSE, timed_out |-> TRUE]
Ended == {r \in ProviderResult : ~r.timed_out}     \* the seam relates them no further

\* mutant: no timeout is passed on
ProviderReturnsUntimed(hangs) == IF hangs THEN {} ELSE Ended
\* execute(timeout_s): a command that hangs is killed at its deadline
ProviderReturns(hangs) == IF hangs THEN {TimedOut} ELSE Ended \cup {TimedOut}

Unavailable(r) == r.outcome \in {"QUOTA_EXHAUSTED", "AUTH_UNAVAILABLE"}
\* mutant: any attempt that exited 0 is repeated
MayAutoRetryIfOk(r) == r.ok
MayAutoRetry(r) == r.outcome \in {"SUCCEEDED", "FAILED"}

\* TrustedRunner.run("pytest"): exit_code 0, another one, or None
PytestReturns(commit) ==
  {"timeout"} \cup (IF commit \in Passing THEN {"0"} ELSE {"1"})
\* git_rev_parse, "" when it failed or timed out
RevParseReturns(commit) == {commit, NoHead}

(***************************************************************************)
(* GateEngine.evaluate.  The intake is frozen and run() passes the same    *)
(* one everywhere, so its hashes, base_sha and task_id cannot differ here. *)
(***************************************************************************)
\* mutant: a run that timed out (exit_code None) is not a failure
FailuresButTimeout(e) ==
  {f \in {"task_not_verifying", "out_of_bounds", "head_sha_mismatch",
          "verification_head_mismatch", "trusted_runner_failed"} :
     CASE f = "task_not_verifying"         -> state # "VERIFYING"
       [] f = "out_of_bounds"              -> e.head \notin InBounds
       [] f = "head_sha_mismatch"          -> head = NoHead \/ e.head # head
       [] f = "verification_head_mismatch" -> e.verified # e.head
       [] f = "trusted_runner_failed"      -> e.exit = "1"}

Failures(e) ==
  {f \in {"task_not_verifying", "out_of_bounds", "head_sha_mismatch",
          "verification_head_mismatch", "trusted_runner_failed"} :
     CASE f = "task_not_verifying"         -> state # "VERIFYING"
       [] f = "out_of_bounds"              -> e.head \notin InBounds
       [] f = "head_sha_mismatch"          -> head = NoHead \/ e.head # head
       [] f = "verification_head_mismatch" -> e.verified # e.head
       [] f = "trusted_runner_failed"      -> e.exit # "0"}

(***************************************************************************)
(* Plans.                                                                  *)
(***************************************************************************)
Require(s) == [do |-> "require", in |-> s]
Move(to) == [do |-> "move", to |-> to]
SetHead == [do |-> "set_head"]
Open(cp, refs) == [do |-> "open", checkpoint |-> cp, refs |-> refs]
FinishRun(s) == [do |-> "finish_run", state |-> s]

\* mutant: the run is finished before the task moves
EndsAsReversed(s) == <<FinishRun(s), Move(s)>>
EndsAs(s) == <<Move(s), FinishRun(s)>>
\* mutant: the run is not finished
EndsAtCheckpointOpen(s, cp, refs) == <<Move(s), Open(cp, refs)>>
EndsAtCheckpoint(s, cp, refs) == <<Move(s), Open(cp, refs), FinishRun(s)>>
\* mutant: the candidate is not stored
CandidateProducedUnset == <<Require("RUNNING"), Move("VERIFYING")>>
CandidateProduced == <<Require("RUNNING"), SetHead, Move("VERIFYING")>>
GatesPassed(refs) ==
  <<Require("VERIFYING")>> \o EndsAtCheckpoint("READY", "candidate_ready", refs)
Retry == <<FinishRun("RUNNING"), Move("RUNNING")>>

At(label) == pc = label /\ plan = <<>>
GoTo(label) == pc' = label
ReturnWith(s, e) ==
  /\ result' = [state |-> s, ready |-> s = "READY", evidence |-> e]
  /\ GoTo("returned")

Init ==
  /\ state = Absent /\ head = NoHead /\ trail = <<>>
  /\ runs = <<>> /\ attempts = <<>> /\ evidence = <<>> /\ checkpoints = <<>>
  /\ writer = Base /\ checkout = NoHead
  /\ pc = "begin" /\ plan = <<>>
  /\ provider = TimedOut /\ candidate = NoHead /\ previous = NoHead /\ cited = 0
  /\ result = [state |-> Absent, ready |-> FALSE, evidence |-> 0]

\* begin: create_task, _move to RUNNING; then the writer worktree at base_sha
Begin ==
  /\ At("begin")
  /\ state' = "PENDING"
  /\ plan' = <<Move("RUNNING")>>
  /\ GoTo("loop")
  /\ UNCHANGED <<head, trail, runs, attempts, evidence, checkpoints, git, locals, result>>

CreateRun ==
  /\ At("loop")
  /\ runs' = Append(runs, [state |-> "RUNNING", ended |-> FALSE, since |-> Len(trail)])
  /\ \E hangs \in BOOLEAN : GoTo(IF hangs THEN "hanging" ELSE "executing")
  /\ UNCHANGED <<state, head, trail, attempts, evidence, checkpoints, git, plan,
                 locals, result>>

Execute ==
  /\ At("executing") \/ At("hanging")
  /\ \E r \in ProviderReturns(pc = "hanging") : provider' = r
  /\ GoTo("inspect")
  /\ UNCHANGED <<database, git, plan, candidate, previous, cited, result>>

\* candidate_head, record_provider_attempt
Inspect ==
  /\ At("inspect")
  /\ candidate' = writer
  /\ attempts' = Append(attempts, [result |-> provider,
                                   candidate |-> IF writer = Base THEN NoHead ELSE writer])
  /\ GoTo("decide")
  /\ UNCHANGED <<state, head, trail, runs, evidence, checkpoints, git, plan,
                 provider, previous, cited, result>>

(***************************************************************************)
(* The early returns, in the order of the code, and the way on.            *)
(***************************************************************************)
NoProgress == candidate = previous
\* mutant: one attempt too many
ExhaustedLate == attempt > MaxAttempts
Exhausted == attempt >= MaxAttempts
\* mutant: exit_code is not looked at
FailedWithoutCommit == candidate = Base
Failed == ~provider.ok \/ candidate = Base

Decide ==
  /\ At("decide")
  /\ \/ /\ provider.timed_out
        /\ plan' = EndsAs("INTERRUPTED") /\ ReturnWith("INTERRUPTED", cited)
     \/ /\ ~provider.timed_out /\ Unavailable(provider)
        /\ plan' = EndsAtCheckpoint("BLOCKED", "provider_unavailable", {})
        /\ ReturnWith("BLOCKED", cited)
     \/ /\ ~provider.timed_out /\ ~Unavailable(provider) /\ Failed
        /\ plan' = EndsAs("FAILED")
        /\ ReturnWith("FAILED", IF provider.ok THEN 0 ELSE cited)
     \/ /\ ~provider.timed_out /\ ~Unavailable(provider) /\ ~Failed /\ NoProgress
        /\ plan' = EndsAs("BLOCKED") /\ ReturnWith("BLOCKED", cited)
     \/ /\ ~provider.timed_out /\ ~Unavailable(provider) /\ ~Failed /\ ~NoProgress
        /\ plan' = CandidateProduced
        /\ GoTo("checkout") /\ UNCHANGED result
  /\ UNCHANGED <<database, git, locals>>

\* create_verification_checkout: git worktree add --detach at head_sha
CreateCheckout ==
  /\ At("checkout")
  /\ checkout' = candidate
  /\ GoTo("verify")
  /\ UNCHANGED <<database, writer, plan, locals, result>>

\* the trusted runner's two actions, then record_evidence
Verify ==
  /\ At("verify")
  /\ \E verified \in RevParseReturns(checkout), exit \in PytestReturns(checkout) :
       evidence' = Append(evidence, [run |-> attempt, head |-> candidate,
                                     verified |-> verified, exit |-> exit])
  /\ GoTo("gates")
  /\ UNCHANGED <<state, head, trail, runs, attempts, checkpoints, git, plan,
                 locals, result>>

EvaluateGates ==
  /\ At("gates")
  /\ LET latest == Len(evidence)
         ready == Failures(evidence[latest]) = {}
     IN  \/ /\ ready
            /\ plan' = GatesPassed({latest}) /\ ReturnWith("READY", latest)
            /\ UNCHANGED locals
         \/ /\ ~ready /\ Exhausted
            /\ plan' = EndsAtCheckpoint("BLOCKED", "gates_blocked", {latest})
            /\ ReturnWith("BLOCKED", latest)
            /\ UNCHANGED locals
         \/ /\ ~ready /\ ~Exhausted /\ ~MayAutoRetry(provider)
            /\ plan' = EndsAs("BLOCKED") /\ ReturnWith("BLOCKED", latest)
            /\ UNCHANGED locals
         \/ /\ ~ready /\ ~Exhausted /\ MayAutoRetry(provider)
            /\ plan' = Retry /\ GoTo("loop")
            /\ previous' = candidate /\ cited' = latest
            /\ UNCHANGED <<result, provider, candidate>>
  /\ UNCHANGED <<database, git>>

(***************************************************************************)
(* Store calls.                                                            *)
(***************************************************************************)
Doing(do) == plan # <<>> /\ Head(plan).do = do
Arg == Head(plan)
CallReturns == plan' = Tail(plan) /\ UNCHANGED <<pc, git, locals, result>>

RequireCall ==
  /\ Doing("require") /\ state = Arg.in
  /\ CallReturns
  /\ UNCHANGED database

MoveCall ==
  /\ Doing("move") /\ TransitionAllowed(state, Arg.to)
  /\ state' = Arg.to /\ trail' = Append(trail, Arg.to)
  /\ CallReturns
  /\ UNCHANGED <<head, runs, attempts, evidence, checkpoints>>

SetHeadCall ==
  /\ Doing("set_head") /\ state = "RUNNING"
  /\ head' = candidate
  /\ CallReturns
  /\ UNCHANGED <<state, trail, runs, attempts, evidence, checkpoints>>

\* without a port there is no checkpoint; head, attempt and checkpoint make
\* the id, so no row of this run has it yet
OpenCall ==
  /\ Doing("open")
  /\ LET row == [checkpoint |-> Arg.checkpoint, head |-> head,
                 attempt |-> Len(attempts), refs |-> Arg.refs]
     IN  checkpoints' = IF Supervised THEN Append(checkpoints, row) ELSE checkpoints
  /\ CallReturns
  /\ UNCHANGED <<state, head, trail, runs, attempts, evidence>>

FinishRunCall ==
  /\ Doing("finish_run")
  /\ runs' = [runs EXCEPT ![attempt].state = Arg.state, ![attempt].ended = TRUE]
  /\ CallReturns
  /\ UNCHANGED <<state, head, trail, attempts, evidence, checkpoints>>

\* run() raises or the process dies, between any two of its steps
Running == pc # "stopped" /\ ~At("returned")
Stop ==
  /\ Running
  /\ pc' = "stopped" /\ plan' = <<>>
  /\ UNCHANGED <<database, git, locals, result>>

Step ==
  \/ Begin \/ CreateRun \/ Execute \/ Inspect \/ Decide
  \/ CreateCheckout \/ Verify \/ EvaluateGates
  \/ RequireCall \/ MoveCall \/ SetHeadCall \/ OpenCall \/ FinishRunCall

(***************************************************************************)
(* The others.                                                             *)
(***************************************************************************)
\* the provider commits or resets, also from processes execute left behind:
\* subprocess.run kills the command it started and nothing below it; after
\* run() is over nothing reads its branch
Commit(h) ==
  /\ Running /\ runs # <<>>
  /\ writer' = h
  /\ UNCHANGED <<database, checkout, pc, plan, locals, result>>

\* another process applies a verdict on a checkpoint of this task
Supervise(to) ==
  /\ checkpoints # <<>> /\ Len(trail) < MaxTrail
  /\ state \in {"READY", "BLOCKED", "WAITING_HUMAN"} /\ to # "DONE" /\ to # "FAILED"
  /\ TransitionAllowed(state, to)
  /\ state' = to /\ trail' = Append(trail, to)
  /\ UNCHANGED <<head, runs, attempts, evidence, checkpoints, git, pc, plan, locals, result>>

Next ==
  \/ Step \/ Stop
  \/ \E h \in Heads \cup {Base} : Commit(h)
  \/ \E to \in TaskState : Supervise(to)

Spec == Init /\ [][Next]_vars

\* a sequential program that is scheduled: the provider and the trusted runner's
\* actions have deadlines, and the git commands, which have none, are assumed to end
FairSpec == Spec /\ WF_vars(Step)

-----------------------------------------------------------------------------
Commits == Heads \cup {Base}
Labels == {"begin", "loop", "executing", "hanging", "inspect", "decide", "checkout",
           "verify", "gates", "returned", "stopped"}
EvidenceRow == [run : 1..MaxAttempts, head : Heads, verified : Heads \cup {NoHead},
                exit : {"0", "1", "timeout"}]
CheckpointRow ==
  [checkpoint : {"provider_unavailable", "gates_blocked", "candidate_ready"},
   head : Heads \cup {NoHead}, attempt : 1..MaxAttempts, refs : SUBSET (1..MaxAttempts)]

TypeOK ==
  /\ state \in RowState /\ head \in Heads \cup {NoHead} /\ trail \in Seq(TaskState)
  /\ runs \in Seq([state : TaskState, ended : BOOLEAN, since : Nat])
  /\ attempt <= MaxAttempts
  /\ attempts \in Seq([result : ProviderResult, candidate : Heads \cup {NoHead}])
  /\ evidence \in Seq(EvidenceRow)
  /\ checkpoints \in Seq(CheckpointRow)
  /\ writer \in Commits /\ checkout \in Heads \cup {NoHead} /\ pc \in Labels
  /\ provider \in ProviderResult /\ candidate \in Commits \cup {NoHead}
  /\ previous \in Heads \cup {NoHead} /\ cited \in 0..MaxAttempts
  /\ result \in [state : RowState, ready : BOOLEAN, evidence : 0..MaxAttempts]

Holds(e) == e.exit = "0" /\ e.verified = e.head /\ e.head \in InBounds

(***************************************************************************)
(* A task that ever became READY has a candidate that really passes, and   *)
(* evidence of that very commit on record, though the provider may have    *)
(* gone on committing after it was asked for its candidate.                *)
(***************************************************************************)
ReadyIsVerified ==
  (\E i \in 1..Len(trail) : trail[i] = "READY") =>
    /\ head \in Passing \cap InBounds
    /\ \E i \in 1..Len(evidence) : evidence[i].head = head /\ Holds(evidence[i])

(***************************************************************************)
(* A row of evidence is about the candidate its own attempt recorded, of   *)
(* an attempt that ended by itself and successfully, and the verifier is   *)
(* never run on the commit it judged in the attempt before.                *)
(***************************************************************************)
EvidenceIsOfItsAttempt ==
  \A i \in 1..Len(evidence) :
    LET row == attempts[evidence[i].run] IN
    /\ row.candidate = evidence[i].head
    /\ row.result.ok /\ ~row.result.timed_out /\ ~Unavailable(row.result)
    /\ i > 1 => evidence[i - 1].head # evidence[i].head

(***************************************************************************)
(* The provider is called again only after an attempt with an unambiguous  *)
(* outcome (docs/trust-model.md: "Ambiguous execution outcomes are not     *)
(* automatically retried"), whose candidate was verified and did not hold. *)
(***************************************************************************)
RetryIsAuthorised ==
  \A k \in 2..Len(runs) :
    /\ k - 1 \in 1..Len(attempts)
    /\ attempts[k - 1].result.outcome \in {"SUCCEEDED", "FAILED"}
    /\ \E i \in 1..Len(evidence) : evidence[i].run = k - 1 /\ ~Holds(evidence[i])

(***************************************************************************)
(* A run row that was finished as READY, BLOCKED, FAILED or INTERRUPTED    *)
(* does not say so before the task: the task went there during that run.   *)
(* Only the latest run is open, and none once run() has returned.          *)
(***************************************************************************)
RunRowsAreTruthful ==
  \A k \in 1..Len(runs) :
    /\ runs[k].ended /\ runs[k].state # "RUNNING" =>
         \E i \in (runs[k].since + 1)..Len(trail) : trail[i] = runs[k].state
    /\ ~runs[k].ended => k = Len(runs) /\ ~At("returned")

(***************************************************************************)
(* What a checkpoint puts before a supervisor or a human is about the head *)
(* it names: candidate_ready cites evidence of it that holds,              *)
(* gates_blocked evidence of it that does not.                             *)
(***************************************************************************)
CheckpointCitesItsEvidence ==
  \A k \in 1..Len(checkpoints) :
    LET c == checkpoints[k] IN
    /\ c.checkpoint # "provider_unavailable" => c.refs # {}
    /\ \A i \in c.refs :
         /\ evidence[i].head = c.head /\ evidence[i].run = c.attempt
         /\ Holds(evidence[i]) <=> c.checkpoint = "candidate_ready"

(***************************************************************************)
(* The value run() returns is ready exactly when the evidence it cites     *)
(* holds, and the run row says the state it returns.                       *)
(***************************************************************************)
ResultIsBacked ==
  At("returned") =>
    /\ runs[attempt].state = result.state
    /\ result.ready <=> result.evidence # 0 /\ Holds(evidence[result.evidence])

(***************************************************************************)
(* run() ends, whatever the provider and pytest do with their time: these  *)
(* have deadlines, the retry loop has a budget, and no lifecycle call of   *)
(* run() is ever refused (nobody else moves the task before run() has      *)
(* opened its checkpoint).                                                 *)
(***************************************************************************)
Terminates == <>(~Running)
=============================================================================
