-------------------------- MODULE OrchestratorProofs -------------------------
(***************************************************************************)
(* For any set of commits, any budget of attempts and any number of        *)
(* commits made behind run()'s back: READY is verified, evidence belongs   *)
(* to its attempt, retries are authorised and checkpoints cite evidence    *)
(* that says what they claim.                                              *)
(***************************************************************************)
EXTENDS Orchestrator, SequenceTheorems, TLAPS

Deciding == pc \notin {"returned", "stopped"}

PlannedCall ==
       [do : {"require"}, in : TaskState]
  \cup [do : {"move"}, to : TaskState]
  \cup {SetHead}
  \cup [do : {"open"}, checkpoint : {"provider_unavailable", "gates_blocked",
                                     "candidate_ready"},
        refs : SUBSET (1..MaxAttempts)]
  \cup [do : {"finish_run"}, state : TaskState]

\* What run() still has to do at each point.  Only on the way to a checkout
\* does it store a head.
PlanOK ==
  /\ plan \in Seq(PlannedCall)
  /\ pc \notin {"loop", "checkout", "returned"} => plan = <<>>
  /\ pc = "loop" => plan \in {<<>>, <<Move("RUNNING")>>, Retry}
  /\ pc = "checkout" => plan \in {<<>>, <<Move("VERIFYING")>>,
                                  <<SetHead, Move("VERIFYING")>>, CandidateProduced}
  /\ pc = "returned" => \A i \in 1..Len(plan) : plan[i].do # "set_head"

\* One run per attempt, one attempt row per run, at most one evidence row each.
CountsOK ==
  /\ Len(evidence) <= Len(attempts)
  /\ Len(attempts) <= Len(runs)
  /\ Len(runs) <= MaxAttempts
  /\ pc = "begin" => Len(runs) = 0
  /\ pc = "loop" => Len(attempts) = Len(runs) /\ Len(runs) < MaxAttempts
  /\ pc \in {"executing", "hanging", "inspect"} => Len(attempts) + 1 = Len(runs)
  /\ pc \in {"decide", "checkout", "verify", "gates", "returned"} =>
       Len(attempts) = Len(runs) /\ Len(runs) > 0
  /\ pc \in {"decide", "checkout", "verify"} => Len(evidence) < Len(attempts)
  /\ pc = "gates" => Len(evidence) > 0

\* The candidate at hand is the one of the latest attempt row, and once it is
\* on its way to the gates the provider had ended well.
CandidateOK ==
  /\ pc = "decide" => candidate \in Commits
  /\ pc \in {"checkout", "verify", "gates"} =>
       /\ candidate \in Heads
       /\ provider.ok /\ ~provider.timed_out /\ ~Unavailable(provider)
  /\ pc = "verify" => checkout = candidate
  /\ pc \in {"decide", "checkout", "verify", "gates"} =>
       attempts[Len(attempts)] =
         [result |-> provider, candidate |-> IF candidate = Base THEN NoHead ELSE candidate]

\* Until run() opens a checkpoint nobody else moves the task, so it is where
\* run() left it.
TaskOK ==
  /\ Deciding => checkpoints = <<>>
  /\ pc \in {"verify", "gates"} => state = "VERIFYING" /\ head = candidate
  /\ pc = "checkout" /\ plan = <<Move("VERIFYING")>> => head = candidate
  /\ pc = "checkout" /\ plan = <<>> => state = "VERIFYING" /\ head = candidate

\* Evidence names its attempt; pytest's exit 0 is about the candidate.
EvidenceOK ==
  /\ \A i \in 1..Len(evidence) :
       /\ evidence[i].run \in 1..Len(attempts)
       /\ evidence[i].exit = "0" => evidence[i].head \in Passing
  /\ pc = "gates" => /\ evidence[Len(evidence)].run = Len(attempts)
                     /\ evidence[Len(evidence)].head = candidate
  /\ EvidenceIsOfItsAttempt

\* previous_head_sha is the head of the latest evidence.
PreviousOK ==
  /\ pc \in {"begin", "loop", "executing", "hanging", "inspect", "decide",
             "checkout", "verify"} =>
       previous = IF Len(evidence) = 0 THEN NoHead ELSE evidence[Len(evidence)].head
  /\ pc \in {"checkout", "verify"} => candidate # previous

JudgedAndRetriable(k) ==
  /\ k \in 1..Len(attempts)
  /\ attempts[k].result.outcome \in {"SUCCEEDED", "FAILED"}
  /\ \E i \in 1..Len(evidence) : evidence[i].run = k /\ ~Holds(evidence[i])

RetryOK ==
  /\ \A k \in 1..(Len(runs) - 1) : JudgedAndRetriable(k)
  /\ pc = "loop" /\ Len(runs) > 0 => JudgedAndRetriable(Len(runs))

\* Ready, or about to be: READY is on the trail or in the plan.
Ready == \E i \in 1..Len(trail) : trail[i] = "READY"
PlansReady == \E i \in 1..Len(plan) : plan[i] = Move("READY")
HeadIsVerified ==
  /\ head \in Passing \cap InBounds
  /\ \E i \in 1..Len(evidence) : evidence[i].head = head /\ Holds(evidence[i])
ReadyOK == Ready \/ PlansReady => HeadIsVerified /\ ~Deciding

\* A checkpoint that was opened, or is about to be, cites what it claims.
Cites(c, refs, h, n) ==
  /\ c # "provider_unavailable" => refs # {}
  /\ \A i \in refs : /\ i \in 1..Len(evidence)
                     /\ evidence[i].head = h /\ evidence[i].run = n
                     /\ Holds(evidence[i]) <=> c = "candidate_ready"
CheckpointOK ==
  /\ \A k \in 1..Len(checkpoints) :
       Cites(checkpoints[k].checkpoint, checkpoints[k].refs,
             checkpoints[k].head, checkpoints[k].attempt)
  /\ \A i \in 1..Len(plan) : plan[i].do = "open" =>
       Cites(plan[i].checkpoint, plan[i].refs, head, Len(attempts))

IInv ==
  /\ TypeOK /\ PlanOK /\ CountsOK /\ CandidateOK /\ TaskOK /\ EvidenceOK
  /\ PreviousOK /\ RetryOK /\ ReadyOK /\ CheckpointOK

-----------------------------------------------------------------------------
\* What is left of a plan after its first call.
LEMMA TailFacts ==
  ASSUME NEW S, NEW s \in Seq(S), s # <<>>
  PROVE  /\ Head(s) = s[1] /\ s[1] \in S /\ Len(s) \in Nat \ {0} /\ 1 \in 1..Len(s)
         /\ Tail(s) \in Seq(S) /\ Len(Tail(s)) = Len(s) - 1
         /\ \A i \in 1..Len(Tail(s)) : i + 1 \in 1..Len(s) /\ Tail(s)[i] = s[i + 1]
OBVIOUS

LEMMA ShortTails ==
  /\ \A a : Tail(<<a>>) = <<>>
  /\ \A a, b : Tail(<<a, b>>) = <<b>>
  /\ \A a, b, c : Tail(<<a, b, c>>) = <<b, c>>
OBVIOUS

\* What appending does to a table.
LEMMA AppendFacts ==
  ASSUME NEW S, NEW s \in Seq(S), NEW e \in S
  PROVE  /\ Append(s, e) \in Seq(S) /\ Len(s) \in Nat /\ Len(Append(s, e)) = Len(s) + 1
         /\ Append(s, e)[Len(s) + 1] = e
         /\ \A i \in 1..Len(s) : Append(s, e)[i] = s[i]
         /\ \A i \in 1..Len(Append(s, e)) : i \in 1..Len(s) \/ i = Len(s) + 1
OBVIOUS

\* The calls of the plans.
LEMMA CallFacts ==
  /\ \A s \in TaskState : /\ Require(s) \in PlannedCall /\ Require(s).do = "require"
                          /\ Move(s) \in PlannedCall /\ Move(s).do = "move"
                          /\ Move(s).to = s
                          /\ FinishRun(s) \in PlannedCall /\ FinishRun(s).do = "finish_run"
                          /\ FinishRun(s).state = s
  /\ SetHead \in PlannedCall /\ SetHead.do = "set_head"
  /\ \A c \in {"provider_unavailable", "gates_blocked", "candidate_ready"} :
       \A refs \in SUBSET (1..MaxAttempts) :
         /\ Open(c, refs) \in PlannedCall /\ Open(c, refs).do = "open"
         /\ Open(c, refs).checkpoint = c /\ Open(c, refs).refs = refs
BY DEF PlannedCall, Require, Move, FinishRun, SetHead, Open

LEMMA PlanShapes ==
  /\ \A s : EndsAs(s) = <<Move(s), FinishRun(s)>>
  /\ \A s, c, refs : EndsAtCheckpoint(s, c, refs) = <<Move(s), Open(c, refs), FinishRun(s)>>
  /\ \A refs : GatesPassed(refs) = <<Require("VERIFYING"), Move("READY"),
                                     Open("candidate_ready", refs), FinishRun("READY")>>
<1>1. ASSUME NEW a, NEW b, NEW c, NEW d
      PROVE  <<a>> \o <<b, c, d>> = <<a, b, c, d>>
  <2> DEFINE S == {a, b, c, d}
             s == <<a>> \o <<b, c, d>>
             u == <<a, b, c, d>>
  <2>1. <<a>> \in Seq(S) /\ <<b, c, d>> \in Seq(S) /\ u \in Seq(S)
    OBVIOUS
  <2>2. Len(<<a>>) = 1 /\ Len(<<b, c, d>>) = 3 /\ Len(u) = 4
    OBVIOUS
  <2>3. /\ s \in Seq(S) /\ Len(s) = 4
        /\ \A i \in 1..4 : s[i] = IF i <= 1 THEN <<a>>[i] ELSE <<b, c, d>>[i - 1]
    <3> HIDE DEF S
    <3> QED BY <2>1, <2>2, ConcatProperties
  <2>4. \A i \in 1..4 : i = 1 \/ i = 2 \/ i = 3 \/ i = 4
    OBVIOUS
  <2>5. s[1] = u[1] /\ s[2] = u[2] /\ s[3] = u[3] /\ s[4] = u[4]
    <3> HIDE DEF s
    <3> QED BY <2>3
  <2>6. \A i \in 1..Len(s) : s[i] = u[i]
    <3> HIDE DEF s, u
    <3> QED BY <2>3, <2>4, <2>5
  <2> HIDE DEF s, u, S
  <2>7. s = u
    BY <2>1, <2>2, <2>3, <2>6, SeqEqual
  <2> QED BY <2>7 DEF s, u
<1> QED BY <1>1 DEF EndsAs, EndsAtCheckpoint, GatesPassed

\* Making a call leaves a plan of the same kind.
LEMMA CallKeepsPlan ==
  ASSUME PlanOK, plan # <<>>, CallReturns
  PROVE  PlanOK' /\ pc \in {"loop", "checkout", "returned"}
<1>1. plan' = Tail(plan) /\ pc' = pc
  BY DEF CallReturns
<1>2. /\ plan' \in Seq(PlannedCall)
      /\ \A i \in 1..Len(plan') : i + 1 \in 1..Len(plan) /\ plan'[i] = plan[i + 1]
  BY <1>1, TailFacts DEF PlanOK
<1>3. pc \in {"loop", "checkout", "returned"}
  BY DEF PlanOK
<1>4. CASE pc = "loop"
  <2>1. plan \in {<<Move("RUNNING")>>, Retry}
    BY <1>4 DEF PlanOK
  <2>2. plan' \in {<<>>, <<Move("RUNNING")>>}
    BY <1>1, <2>1, ShortTails DEF Retry
  <2> QED BY <1>1, <1>2, <1>4, <2>2 DEF PlanOK
<1>5. CASE pc = "checkout"
  <2>1. plan \in {<<Move("VERIFYING")>>, <<SetHead, Move("VERIFYING")>>, CandidateProduced}
    BY <1>5 DEF PlanOK
  <2>2. plan' \in {<<>>, <<Move("VERIFYING")>>, <<SetHead, Move("VERIFYING")>>}
    <3>1. CASE plan = <<Move("VERIFYING")>>
      BY <1>1, <3>1, ShortTails
    <3>2. CASE plan = <<SetHead, Move("VERIFYING")>>
      BY <1>1, <3>2, ShortTails
    <3>3. CASE plan = CandidateProduced
      <4>1. plan = <<Require("RUNNING"), SetHead, Move("VERIFYING")>>
        BY <3>3 DEF CandidateProduced
      <4> QED BY <1>1, <4>1, ShortTails
    <3> QED BY <2>1, <3>1, <3>2, <3>3
  <2> QED BY <1>1, <1>2, <1>5, <2>2 DEF PlanOK
<1>6. CASE pc = "returned"
  BY <1>1, <1>2, <1>6 DEF PlanOK
<1> QED BY <1>3, <1>4, <1>5, <1>6

-----------------------------------------------------------------------------
LEMMA InitIInv == Init => IInv
<1> SUFFICES ASSUME Init PROVE IInv
  OBVIOUS
<1>1. Len(<<>>) = 0 /\ 1..0 = {} /\ 1..(0 - 1) = {}
  OBVIOUS
<1>2. TypeOK
  BY <1>1, MaxAttemptsAssumption
     DEF Init, TypeOK, RowState, TaskState, Absent, Labels, Commits, TimedOut,
         ProviderResult, Outcome, attempt
<1>3. PlanOK /\ CountsOK /\ CandidateOK /\ TaskOK
  BY <1>1, MaxAttemptsAssumption DEF Init, PlanOK, CountsOK, CandidateOK, TaskOK
<1>4. EvidenceOK /\ PreviousOK
  BY <1>1 DEF Init, EvidenceOK, EvidenceIsOfItsAttempt, PreviousOK
<1>5. RetryOK
  BY <1>1 DEF Init, RetryOK
<1>6. ReadyOK
  BY <1>1 DEF Init, ReadyOK, Ready, PlansReady
<1>7. CheckpointOK
  BY <1>1 DEF Init, CheckpointOK
<1> QED BY <1>2, <1>3, <1>4, <1>5, <1>6, <1>7 DEF IInv

LEMMA BeginKeepsIInv ==
  ASSUME IInv, Begin
  PROVE  IInv'
<1>0. /\ TypeOK /\ PlanOK /\ CountsOK /\ CandidateOK /\ TaskOK /\ EvidenceOK
      /\ PreviousOK /\ RetryOK /\ ReadyOK /\ CheckpointOK
  BY DEF IInv
<1>1. /\ pc = "begin" /\ plan = <<>> /\ state' = "PENDING"
      /\ plan' = <<Move("RUNNING")>> /\ pc' = "loop"
      /\ UNCHANGED <<head, trail, runs, attempts, evidence, checkpoints, git, locals, result>>
  BY DEF Begin, At, GoTo
<1>2. /\ Len(plan') = 1 /\ plan'[1] = Move("RUNNING") /\ plan' \in Seq(PlannedCall)
      /\ plan'[1].do = "move" /\ plan'[1].to = "RUNNING"
  BY <1>1, CallFacts DEF TaskState
<1>3. TypeOK'
  BY <1>0, <1>1 DEF TypeOK, git, locals, attempt, RowState, TaskState, Labels
<1>4. PlanOK' /\ CandidateOK' /\ TaskOK'
  BY <1>0, <1>1, <1>2 DEF PlanOK, CandidateOK, TaskOK, Deciding
<1>5. CountsOK' /\ EvidenceOK' /\ PreviousOK'
  BY <1>0, <1>1, MaxAttemptsAssumption
     DEF TypeOK, CountsOK, EvidenceOK, EvidenceIsOfItsAttempt, PreviousOK, locals
<1>6. RetryOK'
  BY <1>0, <1>1 DEF CountsOK, RetryOK, JudgedAndRetriable
<1>7. ReadyOK'
  BY <1>0, <1>1, <1>2, CallFacts DEF ReadyOK, Ready, PlansReady, Deciding, TaskState
<1>8. CheckpointOK'
  BY <1>0, <1>1, <1>2 DEF TaskOK, Deciding, CheckpointOK
<1> QED BY <1>3, <1>4, <1>5, <1>6, <1>7, <1>8 DEF IInv

LEMMA CreateRunKeepsIInv ==
  ASSUME IInv, CreateRun
  PROVE  IInv'
<1> DEFINE row == [state |-> "RUNNING", ended |-> FALSE, since |-> Len(trail)]
<1>0. /\ TypeOK /\ PlanOK /\ CountsOK /\ CandidateOK /\ TaskOK /\ EvidenceOK
      /\ PreviousOK /\ RetryOK /\ ReadyOK /\ CheckpointOK
  BY DEF IInv
<1>1. /\ pc = "loop" /\ plan = <<>> /\ runs' = Append(runs, row)
      /\ pc' \in {"hanging", "executing"}
      /\ UNCHANGED <<state, head, trail, attempts, evidence, checkpoints, git, plan,
                     locals, result>>
  BY DEF CreateRun, At, GoTo
<1>2. /\ runs' \in Seq([state : TaskState, ended : BOOLEAN, since : Nat])
      /\ Len(runs) \in Nat /\ Len(runs') = Len(runs) + 1
  <2>1. row \in [state : TaskState, ended : BOOLEAN, since : Nat]
    BY <1>0 DEF TypeOK, TaskState
  <2> HIDE DEF row
  <2> QED BY <1>0, <1>1, <2>1, AppendFacts DEF TypeOK
<1> HIDE DEF row
<1>3. TypeOK'
  BY <1>0, <1>1, <1>2, MaxAttemptsAssumption DEF TypeOK, CountsOK, git, locals, attempt, Labels
<1>4. PlanOK' /\ CandidateOK' /\ TaskOK'
  BY <1>0, <1>1 DEF PlanOK, CandidateOK, TaskOK, Deciding
<1>5. CountsOK' /\ EvidenceOK' /\ PreviousOK'
  BY <1>0, <1>1, <1>2, MaxAttemptsAssumption
     DEF TypeOK, CountsOK, EvidenceOK, EvidenceIsOfItsAttempt, PreviousOK, locals
<1>6. RetryOK'
  <2>1. \A k \in 1..(Len(runs') - 1) : k \in 1..(Len(runs) - 1) \/ k = Len(runs)
    BY <1>2
  <2> QED BY <1>0, <1>1, <1>2, <2>1 DEF RetryOK, JudgedAndRetriable
<1>7. ReadyOK' /\ CheckpointOK'
  BY <1>0, <1>1 DEF ReadyOK, Ready, PlansReady, Deciding, CheckpointOK, TaskOK
<1> QED BY <1>3, <1>4, <1>5, <1>6, <1>7 DEF IInv

LEMMA ExecuteKeepsIInv ==
  ASSUME IInv, Execute
  PROVE  IInv'
<1>0. /\ TypeOK /\ PlanOK /\ CountsOK /\ CandidateOK /\ TaskOK /\ EvidenceOK
      /\ PreviousOK /\ RetryOK /\ ReadyOK /\ CheckpointOK
  BY DEF IInv
<1>1. /\ pc \in {"executing", "hanging"} /\ plan = <<>> /\ pc' = "inspect"
      /\ provider' \in ProviderResult
      /\ UNCHANGED <<database, git, plan, candidate, previous, cited, result>>
  <2>1. \A hangs \in BOOLEAN : ProviderReturns(hangs) \subseteq ProviderResult
    <3>1. Ended \subseteq ProviderResult /\ TimedOut \in ProviderResult
      BY DEF Ended, TimedOut, ProviderResult, Outcome
    <3> QED BY <3>1 DEF ProviderReturns
  <2>2. PICK r \in ProviderReturns(pc = "hanging") : provider' = r
    BY DEF Execute
  <2>3. (pc = "hanging") \in BOOLEAN
    OBVIOUS
  <2>4. provider' \in ProviderResult
    BY <2>1, <2>2, <2>3
  <2> QED BY <2>4 DEF Execute, At, GoTo
<1>2. TypeOK'
  BY <1>0, <1>1 DEF TypeOK, database, git, attempt, Labels
<1>3. PlanOK' /\ CountsOK' /\ CandidateOK' /\ TaskOK'
  BY <1>0, <1>1 DEF PlanOK, CountsOK, CandidateOK, TaskOK, Deciding, database
<1>4. EvidenceOK' /\ PreviousOK'
  BY <1>0, <1>1 DEF EvidenceOK, EvidenceIsOfItsAttempt, PreviousOK, database
<1>5. RetryOK' /\ ReadyOK' /\ CheckpointOK'
  BY <1>0, <1>1 DEF RetryOK, JudgedAndRetriable, ReadyOK, Ready, PlansReady, Deciding,
                    CheckpointOK, TaskOK, database
<1> QED BY <1>2, <1>3, <1>4, <1>5 DEF IInv

LEMMA InspectKeepsIInv ==
  ASSUME IInv, Inspect
  PROVE  IInv'
<1> DEFINE row == [result |-> provider,
                   candidate |-> IF writer = Base THEN NoHead ELSE writer]
<1>0. /\ TypeOK /\ PlanOK /\ CountsOK /\ CandidateOK /\ TaskOK /\ EvidenceOK
      /\ PreviousOK /\ RetryOK /\ ReadyOK /\ CheckpointOK
  BY DEF IInv
<1>1. /\ pc = "inspect" /\ plan = <<>> /\ pc' = "decide" /\ candidate' = writer
      /\ attempts' = Append(attempts, row)
      /\ UNCHANGED <<state, head, trail, runs, evidence, checkpoints, git, plan,
                     provider, previous, cited, result>>
  BY DEF Inspect, At, GoTo
<1>2. writer \in Commits /\ Len(evidence) \in Nat /\ Len(runs) \in Nat
  BY <1>0 DEF TypeOK
<1>3. /\ attempts' \in Seq([result : ProviderResult, candidate : Heads \cup {NoHead}])
      /\ Len(attempts) \in Nat /\ Len(attempts') = Len(attempts) + 1
      /\ attempts'[Len(attempts) + 1] = row
      /\ \A i \in 1..Len(attempts) : attempts'[i] = attempts[i]
  <2>1. row \in [result : ProviderResult, candidate : Heads \cup {NoHead}]
    BY <1>0, <1>2 DEF TypeOK, Commits
  <2> HIDE DEF row
  <2> QED BY <1>0, <1>1, <2>1, AppendFacts DEF TypeOK
<1>4. TypeOK'
  BY <1>0, <1>1, <1>2, <1>3 DEF TypeOK, git, attempt, Labels
<1>5. PlanOK' /\ TaskOK'
  BY <1>0, <1>1 DEF PlanOK, TaskOK, Deciding
<1>6. CountsOK' /\ CandidateOK'
  BY <1>0, <1>1, <1>2, <1>3 DEF CountsOK, CandidateOK
<1> HIDE DEF row
<1>7. EvidenceOK' /\ PreviousOK'
  BY <1>0, <1>1, <1>2, <1>3 DEF EvidenceOK, EvidenceIsOfItsAttempt, PreviousOK, Unavailable
<1>8. RetryOK'
  BY <1>0, <1>1, <1>2, <1>3 DEF RetryOK, JudgedAndRetriable
<1>9. ReadyOK' /\ CheckpointOK'
  BY <1>0, <1>1 DEF ReadyOK, Ready, PlansReady, Deciding, CheckpointOK, TaskOK
<1> QED BY <1>4, <1>5, <1>6, <1>7, <1>8, <1>9 DEF IInv

LEMMA ShortSequences ==
  /\ \A S : \A a, b \in S :
       <<a, b>> \in Seq(S) /\ \A i \in 1..Len(<<a, b>>) : <<a, b>>[i] \in {a, b}
  /\ \A S : \A a, b, c \in S :
       /\ <<a, b, c>> \in Seq(S)
       /\ \A i \in 1..Len(<<a, b, c>>) : <<a, b, c>>[i] \in {a, b, c}
  /\ \A S : \A a, b, c, d \in S :
       /\ <<a, b, c, d>> \in Seq(S)
       /\ \A i \in 1..Len(<<a, b, c, d>>) : <<a, b, c, d>>[i] \in {a, b, c, d}
<1>1. ASSUME NEW S, NEW a \in S, NEW b \in S
      PROVE  <<a, b>> \in Seq(S) /\ \A i \in 1..Len(<<a, b>>) : <<a, b>>[i] \in {a, b}
  OBVIOUS
<1>2. ASSUME NEW S, NEW a \in S, NEW b \in S, NEW c \in S
      PROVE  /\ <<a, b, c>> \in Seq(S)
             /\ \A i \in 1..Len(<<a, b, c>>) : <<a, b, c>>[i] \in {a, b, c}
  OBVIOUS
<1>3. ASSUME NEW S, NEW a \in S, NEW b \in S, NEW c \in S, NEW d \in S
      PROVE  /\ <<a, b, c, d>> \in Seq(S)
             /\ \A i \in 1..Len(<<a, b, c, d>>) : <<a, b, c, d>>[i] \in {a, b, c, d}
  OBVIOUS
<1> QED BY <1>1, <1>2, <1>3

\* The plans run() returns with.
LEMMA EndPlans ==
  /\ \A s \in TaskState \ {"READY"} :
       /\ EndsAs(s) \in Seq(PlannedCall)
       /\ \A i \in 1..Len(EndsAs(s)) : /\ EndsAs(s)[i].do \notin {"set_head", "open"}
                                      /\ EndsAs(s)[i] # Move("READY")
  /\ \A s \in TaskState \ {"READY"}, refs \in SUBSET (1..MaxAttempts),
        c \in {"provider_unavailable", "gates_blocked"} :
       /\ EndsAtCheckpoint(s, c, refs) \in Seq(PlannedCall)
       /\ \A i \in 1..Len(EndsAtCheckpoint(s, c, refs)) :
            LET call == EndsAtCheckpoint(s, c, refs)[i] IN
            /\ call.do # "set_head" /\ call # Move("READY")
            /\ call.do = "open" => call = Open(c, refs)
  /\ \A refs \in SUBSET (1..MaxAttempts) :
       /\ GatesPassed(refs) \in Seq(PlannedCall)
       /\ \A i \in 1..Len(GatesPassed(refs)) :
            /\ GatesPassed(refs)[i].do # "set_head"
            /\ GatesPassed(refs)[i].do = "open" =>
                 GatesPassed(refs)[i] = Open("candidate_ready", refs)
<1>0. {"READY", "VERIFYING"} \subseteq TaskState
  BY DEF TaskState
<1>1. ASSUME NEW s \in TaskState \ {"READY"}
      PROVE  /\ EndsAs(s) \in Seq(PlannedCall)
             /\ \A i \in 1..Len(EndsAs(s)) :
                  /\ EndsAs(s)[i].do \notin {"set_head", "open"}
                  /\ EndsAs(s)[i] # Move("READY")
  <2>1. /\ Move(s).do = "move" /\ Move(s) # Move("READY") /\ Move(s) \in PlannedCall
        /\ FinishRun(s).do = "finish_run" /\ FinishRun(s) \in PlannedCall
        /\ Move("READY").do = "move"
    BY <1>0, CallFacts
  <2>2. EndsAs(s) \in Seq(PlannedCall)
        /\ \A i \in 1..Len(EndsAs(s)) : EndsAs(s)[i] \in {Move(s), FinishRun(s)}
    BY <2>1, PlanShapes, ShortSequences
  <2> QED BY <2>1, <2>2
<1>2. ASSUME NEW s \in TaskState \ {"READY"}, NEW refs \in SUBSET (1..MaxAttempts),
             NEW c \in {"provider_unavailable", "gates_blocked"}
      PROVE  /\ EndsAtCheckpoint(s, c, refs) \in Seq(PlannedCall)
             /\ \A i \in 1..Len(EndsAtCheckpoint(s, c, refs)) :
                  LET call == EndsAtCheckpoint(s, c, refs)[i] IN
                  /\ call.do # "set_head" /\ call # Move("READY")
                  /\ call.do = "open" => call = Open(c, refs)
  <2>1. /\ Move(s).do = "move" /\ Move(s) # Move("READY") /\ Move(s) \in PlannedCall
        /\ Open(c, refs).do = "open" /\ Open(c, refs) \in PlannedCall
        /\ FinishRun(s).do = "finish_run" /\ FinishRun(s) \in PlannedCall
        /\ Move("READY").do = "move"
    BY <1>0, CallFacts
  <2>2. /\ EndsAtCheckpoint(s, c, refs) \in Seq(PlannedCall)
        /\ \A i \in 1..Len(EndsAtCheckpoint(s, c, refs)) :
             EndsAtCheckpoint(s, c, refs)[i] \in {Move(s), Open(c, refs), FinishRun(s)}
    BY <2>1, PlanShapes, ShortSequences
  <2> QED BY <2>1, <2>2
<1>3. ASSUME NEW refs \in SUBSET (1..MaxAttempts)
      PROVE  /\ GatesPassed(refs) \in Seq(PlannedCall)
             /\ \A i \in 1..Len(GatesPassed(refs)) :
                  /\ GatesPassed(refs)[i].do # "set_head"
                  /\ GatesPassed(refs)[i].do = "open" =>
                       GatesPassed(refs)[i] = Open("candidate_ready", refs)
  <2>1. /\ Open("candidate_ready", refs) \in PlannedCall
        /\ Open("candidate_ready", refs).do = "open"
        /\ Require("VERIFYING") \in PlannedCall /\ Require("VERIFYING").do = "require"
        /\ Move("READY") \in PlannedCall /\ Move("READY").do = "move"
        /\ FinishRun("READY") \in PlannedCall /\ FinishRun("READY").do = "finish_run"
    BY <1>0, CallFacts
  <2>2. /\ GatesPassed(refs) \in Seq(PlannedCall)
        /\ \A i \in 1..Len(GatesPassed(refs)) :
             GatesPassed(refs)[i] \in {Require("VERIFYING"), Move("READY"),
                                      Open("candidate_ready", refs), FinishRun("READY")}
    BY <2>1, PlanShapes, ShortSequences
  <2> QED BY <2>1, <2>2
<1> QED BY <1>1, <1>2, <1>3

\* Returning, with a plan that cites what it should and makes ready only what
\* was verified.
LEMMA ReturningKeepsIInv ==
  ASSUME IInv, pc \in {"decide", "gates"}, pc' = "returned",
         UNCHANGED <<database, git, locals>>,
         result' \in [state : RowState, ready : BOOLEAN, evidence : 0..MaxAttempts],
         plan' \in Seq(PlannedCall),
         \A i \in 1..Len(plan') :
           /\ plan'[i].do # "set_head"
           /\ plan'[i] = Move("READY") => HeadIsVerified
           /\ plan'[i].do = "open" =>
                Cites(plan'[i].checkpoint, plan'[i].refs, head, Len(attempts))
  PROVE  IInv'
<1>0. /\ TypeOK /\ PlanOK /\ CountsOK /\ CandidateOK /\ TaskOK /\ EvidenceOK
      /\ PreviousOK /\ RetryOK /\ ReadyOK /\ CheckpointOK
  BY DEF IInv
<1>1. TypeOK'
  BY <1>0 DEF TypeOK, database, git, locals, attempt, Labels
<1>2. PlanOK' /\ CountsOK' /\ CandidateOK' /\ TaskOK'
  BY <1>0 DEF PlanOK, CountsOK, CandidateOK, TaskOK, Deciding, database
<1>3. EvidenceOK' /\ PreviousOK' /\ RetryOK'
  BY <1>0 DEF EvidenceOK, EvidenceIsOfItsAttempt, PreviousOK, RetryOK,
              JudgedAndRetriable, database
<1>4. ReadyOK'
  BY <1>0 DEF ReadyOK, Ready, PlansReady, HeadIsVerified, Deciding, database
<1>5. CheckpointOK'
  BY <1>0 DEF CheckpointOK, Cites, database
<1> QED BY <1>1, <1>2, <1>3, <1>4, <1>5 DEF IInv

LEMMA DecideKeepsIInv ==
  ASSUME IInv, Decide
  PROVE  IInv'
<1>0. /\ TypeOK /\ PlanOK /\ CountsOK /\ CandidateOK /\ TaskOK /\ EvidenceOK
      /\ PreviousOK /\ RetryOK /\ ReadyOK /\ CheckpointOK
  BY DEF IInv
<1>1. /\ pc = "decide" /\ plan = <<>> /\ UNCHANGED <<database, git, locals>>
      /\ cited \in 0..MaxAttempts /\ 0 \in 0..MaxAttempts
      /\ {} \in SUBSET (1..MaxAttempts)
      /\ {"INTERRUPTED", "FAILED", "BLOCKED"} \subseteq TaskState \ {"READY"}
  BY <1>0, MaxAttemptsAssumption DEF Decide, At, TypeOK, TaskState
<1>2. ASSUME NEW s \in {"INTERRUPTED", "FAILED", "BLOCKED"}, plan' = EndsAs(s),
             NEW e \in {0, cited}, ReturnWith(s, e)
      PROVE  IInv'
  <2>1. /\ pc' = "returned"
        /\ result' \in [state : RowState, ready : BOOLEAN, evidence : 0..MaxAttempts]
    BY <1>1, <1>2 DEF ReturnWith, GoTo, RowState
  <2>2. /\ plan' \in Seq(PlannedCall)
        /\ \A i \in 1..Len(plan') : /\ plan'[i].do \notin {"set_head", "open"}
                                   /\ plan'[i] # Move("READY")
    BY <1>1, <1>2, EndPlans
  <2> QED BY <1>1, <2>1, <2>2, ReturningKeepsIInv
<1>3. ASSUME plan' = EndsAtCheckpoint("BLOCKED", "provider_unavailable", {}),
             ReturnWith("BLOCKED", cited)
      PROVE  IInv'
  <2>1. /\ pc' = "returned"
        /\ result' \in [state : RowState, ready : BOOLEAN, evidence : 0..MaxAttempts]
    BY <1>1, <1>3 DEF ReturnWith, GoTo, RowState
  <2>2. /\ plan' \in Seq(PlannedCall)
        /\ \A i \in 1..Len(plan') :
             /\ plan'[i].do # "set_head" /\ plan'[i] # Move("READY")
             /\ plan'[i].do = "open" => plan'[i] = Open("provider_unavailable", {})
    BY <1>1, <1>3, EndPlans
  <2>3. Cites("provider_unavailable", {}, head, Len(attempts))
    BY DEF Cites
  <2>4. /\ Open("provider_unavailable", {}).checkpoint = "provider_unavailable"
        /\ Open("provider_unavailable", {}).refs = {}
    BY <1>1, CallFacts
  <2>5. \A i \in 1..Len(plan') : plan'[i].do = "open" =>
          Cites(plan'[i].checkpoint, plan'[i].refs, head, Len(attempts))
    BY <2>2, <2>3, <2>4
  <2> QED BY <1>1, <2>1, <2>2, <2>5, ReturningKeepsIInv
<1>4. ASSUME ~provider.timed_out, ~Unavailable(provider), ~Failed, ~NoProgress,
             plan' = CandidateProduced, pc' = "checkout", UNCHANGED result
      PROVE  IInv'
  <2>1. /\ provider.ok /\ candidate \in Heads /\ candidate # previous
    BY <1>0, <1>1, <1>4 DEF CandidateOK, Failed, NoProgress, Commits, TypeOK
  <2>2. /\ plan' = <<Require("RUNNING"), SetHead, Move("VERIFYING")>>
        /\ plan' \in Seq(PlannedCall) /\ Len(plan') = 3
        /\ plan' # <<>> /\ plan' # <<Move("VERIFYING")>>
        /\ \A i \in 1..3 : plan'[i].do # "open" /\ plan'[i] # Move("READY")
    BY <1>4, CallFacts DEF CandidateProduced, TaskState
  <2>3. TypeOK'
    BY <1>0, <1>1, <1>4 DEF TypeOK, database, git, locals, attempt, Labels
  <2>4. PlanOK' /\ CountsOK' /\ CandidateOK' /\ TaskOK'
    BY <1>0, <1>1, <1>4, <2>1, <2>2
       DEF PlanOK, CountsOK, CandidateOK, TaskOK, Deciding, database, locals
  <2>5. EvidenceOK' /\ PreviousOK' /\ RetryOK'
    BY <1>0, <1>1, <1>4, <2>1
       DEF EvidenceOK, EvidenceIsOfItsAttempt, PreviousOK, RetryOK,
           JudgedAndRetriable, database, locals
  <2>6. ReadyOK' /\ CheckpointOK'
    BY <1>0, <1>1, <1>4, <2>2
       DEF ReadyOK, Ready, PlansReady, Deciding, CheckpointOK, TaskOK, database
  <2> QED BY <2>3, <2>4, <2>5, <2>6 DEF IInv
<1> QED BY <1>1, <1>2, <1>3, <1>4 DEF Decide, GoTo

LEMMA CreateCheckoutKeepsIInv ==
  ASSUME IInv, CreateCheckout
  PROVE  IInv'
<1>0. /\ TypeOK /\ PlanOK /\ CountsOK /\ CandidateOK /\ TaskOK /\ EvidenceOK
      /\ PreviousOK /\ RetryOK /\ ReadyOK /\ CheckpointOK
  BY DEF IInv
<1>1. /\ pc = "checkout" /\ plan = <<>> /\ checkout' = candidate /\ pc' = "verify"
      /\ UNCHANGED <<database, writer, plan, locals, result>>
  BY DEF CreateCheckout, At, GoTo
<1>2. TypeOK'
  BY <1>0, <1>1 DEF TypeOK, CandidateOK, database, locals, attempt, Labels
<1>3. PlanOK' /\ CountsOK' /\ CandidateOK' /\ TaskOK'
  BY <1>0, <1>1 DEF PlanOK, CountsOK, CandidateOK, TaskOK, Deciding, database, locals
<1>4. EvidenceOK' /\ PreviousOK' /\ RetryOK'
  BY <1>0, <1>1 DEF EvidenceOK, EvidenceIsOfItsAttempt, PreviousOK, RetryOK,
                    JudgedAndRetriable, database, locals
<1>5. ReadyOK' /\ CheckpointOK'
  BY <1>0, <1>1 DEF ReadyOK, Ready, PlansReady, Deciding, CheckpointOK, TaskOK, database
<1> QED BY <1>2, <1>3, <1>4, <1>5 DEF IInv

LEMMA VerifyKeepsIInv ==
  ASSUME IInv, Verify
  PROVE  IInv'
<1>0. /\ TypeOK /\ PlanOK /\ CountsOK /\ CandidateOK /\ TaskOK /\ EvidenceOK
      /\ PreviousOK /\ RetryOK /\ ReadyOK /\ CheckpointOK
  BY DEF IInv
<1>1. PICK verified \in RevParseReturns(checkout), exit \in PytestReturns(checkout) :
        evidence' = Append(evidence, [run |-> attempt, head |-> candidate,
                                      verified |-> verified, exit |-> exit])
  BY DEF Verify
<1> DEFINE row == [run |-> attempt, head |-> candidate,
                   verified |-> verified, exit |-> exit]
<1>2. /\ pc = "verify" /\ plan = <<>> /\ pc' = "gates"
      /\ UNCHANGED <<state, head, trail, runs, attempts, checkpoints, git, plan,
                     locals, result>>
  BY DEF Verify, At, GoTo
<1>3. /\ checkout = candidate /\ candidate \in Heads /\ candidate # Base
      /\ state = "VERIFYING" /\ head = candidate
      /\ attempt = Len(attempts) /\ attempt \in 1..MaxAttempts
      /\ Len(evidence) \in Nat /\ Len(attempts) \in Nat /\ Len(runs) \in Nat
      /\ Len(evidence) < Len(attempts)
  BY <1>0, <1>2, CommitAssumption, MaxAttemptsAssumption
     DEF CandidateOK, TaskOK, CountsOK, TypeOK, attempt
<1>4. /\ verified \in Heads \cup {NoHead} /\ exit \in {"0", "1", "timeout"}
      /\ exit = "0" => candidate \in Passing
  BY <1>3 DEF RevParseReturns, PytestReturns
<1>5. /\ row \in EvidenceRow /\ row.run = Len(attempts) /\ row.head = candidate
      /\ row.exit = "0" => row.head \in Passing
  BY <1>3, <1>4 DEF EvidenceRow
<1>6. evidence' = Append(evidence, row)
  BY <1>1
<1> HIDE DEF row
<1>7. /\ evidence' \in Seq(EvidenceRow) /\ Len(evidence') = Len(evidence) + 1
      /\ evidence'[Len(evidence) + 1] = row
      /\ \A i \in 1..Len(evidence) : evidence'[i] = evidence[i]
      /\ \A i \in 1..Len(evidence') : i \in 1..Len(evidence) \/ i = Len(evidence) + 1
      /\ \A i \in 1..Len(evidence) : i \in 1..Len(evidence')
  BY <1>0, <1>3, <1>5, <1>6, AppendFacts DEF TypeOK
<1>8. TypeOK'
  BY <1>0, <1>2, <1>7 DEF TypeOK, git, locals, attempt, Labels
<1>9. PlanOK' /\ CountsOK' /\ CandidateOK' /\ TaskOK'
  BY <1>0, <1>2, <1>3, <1>7 DEF PlanOK, CountsOK, CandidateOK, TaskOK, Deciding, locals
<1>10. EvidenceOK'
  <2>1. attempts[Len(attempts)] = [result |-> provider, candidate |-> candidate]
        /\ provider.ok /\ ~provider.timed_out /\ ~Unavailable(provider)
    BY <1>0, <1>2, <1>3 DEF CandidateOK
  <2>2. Len(evidence) > 0 => evidence[Len(evidence)].head # candidate
    BY <1>0, <1>2, <1>3 DEF PreviousOK
  <2>3. EvidenceIsOfItsAttempt'
    <3> SUFFICES ASSUME NEW i \in 1..Len(evidence')
                 PROVE  /\ attempts[evidence'[i].run].candidate = evidence'[i].head
                        /\ attempts[evidence'[i].run].result.ok
                        /\ ~attempts[evidence'[i].run].result.timed_out
                        /\ ~Unavailable(attempts[evidence'[i].run].result)
                        /\ i > 1 => evidence'[i - 1].head # evidence'[i].head
      BY <1>2 DEF EvidenceIsOfItsAttempt, Unavailable
    <3>1. CASE i \in 1..Len(evidence)
      <4>1. evidence'[i] = evidence[i] /\ (i > 1 => evidence'[i - 1] = evidence[i - 1])
        BY <1>3, <1>7, <3>1
      <4> QED BY <1>0, <3>1, <4>1 DEF EvidenceOK, EvidenceIsOfItsAttempt
    <3>2. CASE i = Len(evidence) + 1
      <4>1. evidence'[i] = row /\ (i > 1 => evidence'[i - 1] = evidence[Len(evidence)])
        BY <1>3, <1>7, <3>2
      <4> QED BY <1>3, <1>5, <2>1, <2>2, <3>2, <4>1
    <3> QED BY <1>7, <3>1, <3>2
  <2>4. /\ \A i \in 1..Len(evidence') :
             /\ evidence'[i].run \in 1..Len(attempts)
             /\ evidence'[i].exit = "0" => evidence'[i].head \in Passing
        /\ evidence'[Len(evidence')].run = Len(attempts)
        /\ evidence'[Len(evidence')].head = candidate
    BY <1>0, <1>3, <1>5, <1>7 DEF EvidenceOK
  <2> QED BY <1>2, <2>3, <2>4 DEF EvidenceOK, locals
<1>11. PreviousOK'
  BY <1>2 DEF PreviousOK
<1>12. RetryOK'
  BY <1>0, <1>2, <1>7 DEF RetryOK, JudgedAndRetriable, Holds
<1>13. ReadyOK' /\ CheckpointOK'
  BY <1>0, <1>2 DEF ReadyOK, Ready, PlansReady, Deciding, CheckpointOK, TaskOK
<1> QED BY <1>8, <1>9, <1>10, <1>11, <1>12, <1>13 DEF IInv

\* Where run() hands evidence to the gates, no failure means it holds.
LEMMA GatesAreExact ==
  ASSUME NEW e, state = "VERIFYING", head # NoHead, e.head = head
  PROVE  Failures(e) = {} <=> Holds(e)
<1> DEFINE kinds == {"task_not_verifying", "out_of_bounds", "head_sha_mismatch",
                     "verification_head_mismatch", "trusted_runner_failed"}
<1>1. /\ "task_not_verifying" \notin Failures(e)
      /\ "out_of_bounds" \in Failures(e) <=> e.head \notin InBounds
      /\ "head_sha_mismatch" \notin Failures(e)
      /\ "verification_head_mismatch" \in Failures(e) <=> e.verified # e.head
      /\ "trusted_runner_failed" \in Failures(e) <=> e.exit # "0"
  BY DEF Failures
<1>2. Failures(e) \subseteq kinds
  BY DEF Failures
<1> QED BY <1>1, <1>2 DEF Holds

LEMMA EvaluateGatesKeepsIInv ==
  ASSUME IInv, EvaluateGates
  PROVE  IInv'
<1> DEFINE n == Len(evidence)
           e == evidence[n]
<1>0. /\ TypeOK /\ PlanOK /\ CountsOK /\ CandidateOK /\ TaskOK /\ EvidenceOK
      /\ PreviousOK /\ RetryOK /\ ReadyOK /\ CheckpointOK
  BY DEF IInv
<1>1. pc = "gates" /\ plan = <<>> /\ UNCHANGED <<database, git>>
  BY DEF EvaluateGates, At
<1>2. /\ n \in Nat /\ n \in 1..MaxAttempts /\ n \in 1..Len(evidence) /\ n \in 0..MaxAttempts
      /\ Len(runs) \in Nat /\ Len(attempts) \in Nat /\ Len(attempts) = Len(runs)
      /\ Len(runs) > 0 /\ Len(runs) <= MaxAttempts /\ MaxAttempts \in Nat
  BY <1>0, <1>1, MaxAttemptsAssumption DEF CountsOK, TypeOK
<1>3. /\ state = "VERIFYING" /\ head = candidate /\ candidate \in Heads
      /\ e.head = head /\ e.run = Len(attempts) /\ head # NoHead
  BY <1>0, <1>1, CommitAssumption DEF CandidateOK, TaskOK, EvidenceOK
<1>4. Failures(e) = {} <=> Holds(e)
  BY <1>3, GatesAreExact
<1>5. {n} \in SUBSET (1..MaxAttempts) /\ {"READY", "BLOCKED"} \subseteq TaskState
      /\ "BLOCKED" \in TaskState \ {"READY"}
  BY <1>2 DEF TaskState
<1>6. e.exit = "0" => e.head \in Passing
  BY <1>0, <1>2 DEF EvidenceOK
<1> HIDE DEF n, e
<1>7. n = Len(evidence) /\ e = evidence[n]
  BY DEF n, e
<1>8. ASSUME Failures(e) = {}, plan' = GatesPassed({n}), ReturnWith("READY", n),
             UNCHANGED locals
      PROVE  IInv'
  <2>1. /\ pc' = "returned"
        /\ result' \in [state : RowState, ready : BOOLEAN, evidence : 0..MaxAttempts]
    BY <1>2, <1>5, <1>8 DEF ReturnWith, GoTo, RowState
  <2>2. HeadIsVerified
    BY <1>2, <1>3, <1>4, <1>6, <1>7, <1>8 DEF HeadIsVerified, Holds
  <2>3. Cites("candidate_ready", {n}, head, Len(attempts))
    BY <1>2, <1>3, <1>4, <1>7, <1>8 DEF Cites
  <2>4. /\ Open("candidate_ready", {n}).checkpoint = "candidate_ready"
        /\ Open("candidate_ready", {n}).refs = {n}
    BY <1>5, CallFacts
  <2>5. /\ plan' \in Seq(PlannedCall)
        /\ \A i \in 1..Len(plan') :
             /\ plan'[i].do # "set_head"
             /\ plan'[i].do = "open" => plan'[i] = Open("candidate_ready", {n})
    BY <1>5, <1>8, EndPlans
  <2> QED BY <1>1, <1>8, <2>1, <2>2, <2>3, <2>4, <2>5, ReturningKeepsIInv
<1>9. ASSUME Failures(e) # {}, plan' = EndsAtCheckpoint("BLOCKED", "gates_blocked", {n}),
             ReturnWith("BLOCKED", n), UNCHANGED locals
      PROVE  IInv'
  <2>1. /\ pc' = "returned"
        /\ result' \in [state : RowState, ready : BOOLEAN, evidence : 0..MaxAttempts]
    BY <1>2, <1>5, <1>9 DEF ReturnWith, GoTo, RowState
  <2>2. Cites("gates_blocked", {n}, head, Len(attempts))
    BY <1>2, <1>3, <1>4, <1>7, <1>9 DEF Cites
  <2>3. /\ Open("gates_blocked", {n}).checkpoint = "gates_blocked"
        /\ Open("gates_blocked", {n}).refs = {n}
    BY <1>5, CallFacts
  <2>4. /\ plan' \in Seq(PlannedCall)
        /\ \A i \in 1..Len(plan') :
             /\ plan'[i].do # "set_head" /\ plan'[i] # Move("READY")
             /\ plan'[i].do = "open" => plan'[i] = Open("gates_blocked", {n})
    BY <1>5, <1>9, EndPlans
  <2> QED BY <1>1, <1>9, <2>1, <2>2, <2>3, <2>4, ReturningKeepsIInv
<1>10. ASSUME plan' = EndsAs("BLOCKED"), ReturnWith("BLOCKED", n), UNCHANGED locals
       PROVE  IInv'
  <2>1. /\ pc' = "returned"
        /\ result' \in [state : RowState, ready : BOOLEAN, evidence : 0..MaxAttempts]
    BY <1>2, <1>5, <1>10 DEF ReturnWith, GoTo, RowState
  <2>2. /\ plan' \in Seq(PlannedCall)
        /\ \A i \in 1..Len(plan') : /\ plan'[i].do \notin {"set_head", "open"}
                                   /\ plan'[i] # Move("READY")
    BY <1>5, <1>10, EndPlans
  <2> QED BY <1>1, <1>10, <2>1, <2>2, ReturningKeepsIInv
<1>11. ASSUME Failures(e) # {}, ~Exhausted, MayAutoRetry(provider), plan' = Retry,
              pc' = "loop", previous' = candidate, cited' = n,
              UNCHANGED <<result, provider, candidate>>
       PROVE  IInv'
  <2>1. /\ plan' = <<FinishRun("RUNNING"), Move("RUNNING")>> /\ plan' \in Seq(PlannedCall)
        /\ \A i \in 1..Len(plan') : plan'[i].do # "open" /\ plan'[i] # Move("READY")
    <3>1. /\ FinishRun("RUNNING") \in PlannedCall /\ Move("RUNNING") \in PlannedCall
          /\ FinishRun("RUNNING").do = "finish_run" /\ Move("RUNNING").do = "move"
          /\ Move("READY").do = "move" /\ Move("RUNNING") # Move("READY")
      BY CallFacts DEF TaskState
    <3> QED BY <1>11, <3>1, ShortSequences DEF Retry
  <2>2. TypeOK'
    BY <1>0, <1>1, <1>2, <1>3, <1>11 DEF TypeOK, database, git, attempt, Labels
  <2>3. PlanOK' /\ CountsOK' /\ CandidateOK' /\ TaskOK'
    BY <1>0, <1>1, <1>2, <1>11, <2>1
       DEF PlanOK, CountsOK, CandidateOK, TaskOK, Deciding, database, Exhausted, attempt
  <2>4. EvidenceOK' /\ PreviousOK'
    BY <1>0, <1>1, <1>2, <1>3, <1>7, <1>11
       DEF EvidenceOK, EvidenceIsOfItsAttempt, PreviousOK, database
  <2>5. JudgedAndRetriable(Len(runs))
    <3>1. attempts[Len(attempts)].result = provider
      BY <1>0, <1>1 DEF CandidateOK
    <3> QED BY <1>2, <1>3, <1>4, <1>7, <1>11, <3>1 DEF JudgedAndRetriable, MayAutoRetry
  <2>6. RetryOK'
    BY <1>0, <1>1, <1>11, <2>5 DEF RetryOK, JudgedAndRetriable, database
  <2>7. ReadyOK' /\ CheckpointOK'
    BY <1>0, <1>1, <1>11, <2>1
       DEF ReadyOK, Ready, PlansReady, Deciding, CheckpointOK, TaskOK, database
  <2> QED BY <2>2, <2>3, <2>4, <2>6, <2>7 DEF IInv
<1> QED BY <1>7, <1>8, <1>9, <1>10, <1>11 DEF EvaluateGates, GoTo

-----------------------------------------------------------------------------
\* The call at the head of a plan.
LEMMA HeadCallFacts ==
  ASSUME PlanOK, NEW do, Doing(do)
  PROVE  /\ plan # <<>> /\ Arg \in PlannedCall /\ Arg = plan[1] /\ Arg.do = do
         /\ 1 \in 1..Len(plan)
         /\ do = "move" => Arg.to \in TaskState /\ Arg = Move(Arg.to)
         /\ do = "open" => /\ Arg.checkpoint \in {"provider_unavailable", "gates_blocked",
                                                  "candidate_ready"}
                           /\ Arg.refs \in SUBSET (1..MaxAttempts)
         /\ do = "finish_run" => Arg.state \in TaskState
<1>1. plan # <<>> /\ Arg \in PlannedCall /\ Arg = plan[1] /\ Arg.do = do
      /\ 1 \in 1..Len(plan)
  BY TailFacts DEF PlanOK, Doing, Arg
<1> QED BY <1>1 DEF PlannedCall, Move, SetHead

\* What a call leaves to do was planned before.
LEMMA RestWasPlanned ==
  ASSUME PlanOK, plan # <<>>, CallReturns
  PROVE  /\ plan' = Tail(plan) /\ UNCHANGED <<pc, git, locals, result>>
         /\ \A i \in 1..Len(plan') : i + 1 \in 1..Len(plan) /\ plan'[i] = plan[i + 1]
         /\ PlansReady' => PlansReady
<1>1. plan' = Tail(plan) /\ UNCHANGED <<pc, git, locals, result>>
  BY DEF CallReturns
<1>2. \A i \in 1..Len(plan') : i + 1 \in 1..Len(plan) /\ plan'[i] = plan[i + 1]
  BY <1>1, TailFacts DEF PlanOK
<1> QED BY <1>1, <1>2 DEF PlansReady

\* On the way to a checkout the calls come in one order.
LEMMA CheckoutCalls ==
  ASSUME PlanOK, pc = "checkout", plan # <<>>
  PROVE  /\ Arg.do = "require" => Tail(plan) = <<SetHead, Move("VERIFYING")>>
         /\ Arg.do = "set_head" => Tail(plan) = <<Move("VERIFYING")>>
         /\ Arg.do = "move" => Tail(plan) = <<>> /\ Arg = Move("VERIFYING")
         /\ Arg.do \in {"require", "set_head", "move"}
<1>1. /\ Require("RUNNING").do = "require" /\ SetHead.do = "set_head"
      /\ Move("VERIFYING").do = "move"
  BY CallFacts DEF TaskState
<1>2. CASE plan = <<Move("VERIFYING")>>
  BY <1>1, <1>2, ShortTails DEF Arg
<1>3. CASE plan = <<SetHead, Move("VERIFYING")>>
  BY <1>1, <1>3, ShortTails DEF Arg
<1>4. CASE plan = CandidateProduced
  <2>1. plan = <<Require("RUNNING"), SetHead, Move("VERIFYING")>>
    BY <1>4 DEF CandidateProduced
  <2> QED BY <1>1, <2>1, ShortTails DEF Arg
<1> QED BY <1>2, <1>3, <1>4 DEF PlanOK

\* Before run() returns it opens nothing, and it stores a head only on the way
\* to a checkout.
LEMMA CallPlaces ==
  ASSUME PlanOK, plan # <<>>
  PROVE  /\ pc \in {"loop", "checkout", "returned"}
         /\ Arg.do = "open" => pc = "returned"
         /\ Arg.do = "finish_run" => pc \in {"loop", "returned"}
         /\ Arg.do = "set_head" => pc = "checkout"
         /\ pc = "checkout" => Arg.do \in {"require", "set_head", "move"}
         /\ \A i \in 1..Len(plan) : plan[i].do = "open" => pc = "returned"
<1>1. /\ Require("RUNNING").do = "require" /\ SetHead.do = "set_head"
      /\ Move("VERIFYING").do = "move" /\ Move("RUNNING").do = "move"
      /\ FinishRun("RUNNING").do = "finish_run"
  BY CallFacts DEF TaskState
<1>2. pc \in {"loop", "checkout", "returned"} /\ Arg = plan[1] /\ 1 \in 1..Len(plan)
  BY TailFacts DEF PlanOK, Arg
<1>3. CASE pc = "loop"
  <2>1. CASE plan = <<Move("RUNNING")>>
    BY <1>1, <1>2, <1>3, <2>1
  <2>2. CASE plan = Retry
    BY <1>1, <1>2, <1>3, <2>2 DEF Retry
  <2> QED BY <1>3, <2>1, <2>2 DEF PlanOK
<1>4. CASE pc = "checkout"
  <2>1. CASE plan = <<Move("VERIFYING")>>
    BY <1>1, <1>2, <1>4, <2>1
  <2>2. CASE plan = <<SetHead, Move("VERIFYING")>>
    BY <1>1, <1>2, <1>4, <2>2
  <2>3. CASE plan = CandidateProduced
    BY <1>1, <1>2, <1>4, <2>3 DEF CandidateProduced
  <2> QED BY <1>4, <2>1, <2>2, <2>3 DEF PlanOK
<1>5. CASE pc = "returned"
  BY <1>2, <1>5 DEF PlanOK
<1> QED BY <1>2, <1>3, <1>4, <1>5

LEMMA RequireCallKeepsIInv ==
  ASSUME IInv, RequireCall
  PROVE  IInv'
<1>0. /\ TypeOK /\ PlanOK /\ CountsOK /\ CandidateOK /\ TaskOK /\ EvidenceOK
      /\ PreviousOK /\ RetryOK /\ ReadyOK /\ CheckpointOK
  BY DEF IInv
<1>1. UNCHANGED database /\ CallReturns /\ Doing("require")
  BY DEF RequireCall
<1>2. plan # <<>> /\ Arg.do = "require"
  BY <1>1 DEF Doing, Arg
<1>3. /\ PlanOK' /\ pc \in {"loop", "checkout", "returned"} /\ plan' = Tail(plan)
      /\ UNCHANGED <<pc, git, locals, result>>
      /\ \A i \in 1..Len(plan') : i + 1 \in 1..Len(plan) /\ plan'[i] = plan[i + 1]
      /\ PlansReady' => PlansReady
  BY <1>0, <1>1, <1>2, CallKeepsPlan, RestWasPlanned
<1>4. TypeOK' /\ CountsOK' /\ CandidateOK'
  BY <1>0, <1>1, <1>3
     DEF TypeOK, CountsOK, CandidateOK, database, git, locals, attempt
<1>5. TaskOK'
  <2>1. pc = "checkout" => plan' = <<SetHead, Move("VERIFYING")>>
    BY <1>0, <1>2, <1>3, CheckoutCalls
  <2>2. /\ <<SetHead, Move("VERIFYING")>> # <<Move("VERIFYING")>>
        /\ <<SetHead, Move("VERIFYING")>> # <<>>
    OBVIOUS
  <2> QED BY <1>0, <1>1, <1>3, <2>1, <2>2 DEF TaskOK, Deciding, database, locals
<1>6. EvidenceOK' /\ PreviousOK' /\ RetryOK'
  BY <1>0, <1>1, <1>3
     DEF EvidenceOK, EvidenceIsOfItsAttempt, PreviousOK, RetryOK, JudgedAndRetriable,
         database, locals
<1>7. ReadyOK' /\ CheckpointOK'
  BY <1>0, <1>1, <1>3
     DEF ReadyOK, Ready, HeadIsVerified, Deciding, CheckpointOK, Cites, database
<1> QED BY <1>3, <1>4, <1>5, <1>6, <1>7 DEF IInv

LEMMA MoveCallKeepsIInv ==
  ASSUME IInv, MoveCall
  PROVE  IInv'
<1>0. /\ TypeOK /\ PlanOK /\ CountsOK /\ CandidateOK /\ TaskOK /\ EvidenceOK
      /\ PreviousOK /\ RetryOK /\ ReadyOK /\ CheckpointOK
  BY DEF IInv
<1>1. /\ state' = Arg.to /\ trail' = Append(trail, Arg.to) /\ CallReturns /\ Doing("move")
      /\ UNCHANGED <<head, runs, attempts, evidence, checkpoints>>
  BY DEF MoveCall
<1>2. /\ plan # <<>> /\ Arg.do = "move" /\ Arg.to \in TaskState /\ Arg = Move(Arg.to)
      /\ Arg = plan[1] /\ 1 \in 1..Len(plan)
  BY <1>0, <1>1, HeadCallFacts
<1>3. /\ PlanOK' /\ pc \in {"loop", "checkout", "returned"} /\ plan' = Tail(plan)
      /\ UNCHANGED <<pc, git, locals, result>>
      /\ \A i \in 1..Len(plan') : i + 1 \in 1..Len(plan) /\ plan'[i] = plan[i + 1]
      /\ PlansReady' => PlansReady
  BY <1>0, <1>1, <1>2, CallKeepsPlan, RestWasPlanned
<1>4. /\ trail' \in Seq(TaskState) /\ Len(trail) \in Nat
      /\ trail'[Len(trail) + 1] = Arg.to
      /\ \A i \in 1..Len(trail) : trail'[i] = trail[i]
      /\ \A i \in 1..Len(trail') : i \in 1..Len(trail) \/ i = Len(trail) + 1
  BY <1>0, <1>1, <1>2, AppendFacts DEF TypeOK
<1>5. TypeOK' /\ CountsOK' /\ CandidateOK'
  BY <1>0, <1>1, <1>2, <1>3, <1>4
     DEF TypeOK, CountsOK, CandidateOK, RowState, git, locals, attempt
<1>6. TaskOK'
  <2>1. pc = "checkout" => plan' = <<>> /\ Arg = Move("VERIFYING") /\ plan = <<Move("VERIFYING")>>
    <3>1. pc = "checkout" => Tail(plan) = <<>> /\ Arg = Move("VERIFYING")
      BY <1>0, <1>2, CheckoutCalls
    <3>2. /\ Tail(CandidateProduced) # <<>>
          /\ Tail(<<SetHead, Move("VERIFYING")>>) # <<>>
      BY ShortTails DEF CandidateProduced
    <3> QED BY <1>0, <1>2, <1>3, <3>1, <3>2 DEF PlanOK
  <2>2. Move("VERIFYING").to = "VERIFYING"
    BY CallFacts DEF TaskState
  <2>3. <<>> # <<Move("VERIFYING")>>
    OBVIOUS
  <2> QED BY <1>0, <1>1, <1>3, <2>1, <2>2, <2>3 DEF TaskOK, Deciding, locals
<1>7. EvidenceOK' /\ PreviousOK' /\ RetryOK'
  BY <1>0, <1>1, <1>3
     DEF EvidenceOK, EvidenceIsOfItsAttempt, PreviousOK, RetryOK, JudgedAndRetriable, locals
<1>8. ReadyOK'
  <2>1. Ready' => Ready \/ PlansReady
    BY <1>2, <1>4 DEF Ready, PlansReady
  <2> QED BY <1>0, <1>1, <1>3, <2>1 DEF ReadyOK, HeadIsVerified, Deciding
<1>9. CheckpointOK'
  BY <1>0, <1>1, <1>3 DEF CheckpointOK, Cites
<1> QED BY <1>3, <1>5, <1>6, <1>7, <1>8, <1>9 DEF IInv

LEMMA SetHeadCallKeepsIInv ==
  ASSUME IInv, SetHeadCall
  PROVE  IInv'
<1>0. /\ TypeOK /\ PlanOK /\ CountsOK /\ CandidateOK /\ TaskOK /\ EvidenceOK
      /\ PreviousOK /\ RetryOK /\ ReadyOK /\ CheckpointOK
  BY DEF IInv
<1>1. /\ head' = candidate /\ CallReturns /\ Doing("set_head")
      /\ UNCHANGED <<state, trail, runs, attempts, evidence, checkpoints>>
  BY DEF SetHeadCall
<1>2. plan # <<>> /\ Arg.do = "set_head"
  BY <1>1 DEF Doing, Arg
<1>3. pc = "checkout" /\ plan' = <<Move("VERIFYING")>>
  BY <1>0, <1>1, <1>2, CallPlaces, CheckoutCalls DEF CallReturns
<1>4. /\ PlanOK' /\ UNCHANGED <<pc, git, locals, result>> /\ (PlansReady' => PlansReady)
  BY <1>0, <1>1, <1>2, CallKeepsPlan, RestWasPlanned
<1>5. TypeOK' /\ CountsOK' /\ CandidateOK'
  BY <1>0, <1>1, <1>3, <1>4
     DEF TypeOK, CountsOK, CandidateOK, git, locals, attempt
<1>6. TaskOK'
  <2>1. <<Move("VERIFYING")>> # <<>>
    OBVIOUS
  <2> QED BY <1>0, <1>1, <1>3, <1>4, <2>1 DEF TaskOK, Deciding, locals
<1>7. EvidenceOK' /\ PreviousOK' /\ RetryOK'
  BY <1>0, <1>1, <1>4
     DEF EvidenceOK, EvidenceIsOfItsAttempt, PreviousOK, RetryOK, JudgedAndRetriable, locals
<1>8. ReadyOK'
  BY <1>0, <1>1, <1>3, <1>4 DEF ReadyOK, Ready, Deciding
<1>9. CheckpointOK'
  <2>1. \A i \in 1..Len(plan') : plan'[i].do # "open"
    BY <1>3, CallFacts DEF TaskState
  <2> QED BY <1>0, <1>1, <1>3, <2>1 DEF CheckpointOK, TaskOK, Deciding
<1> QED BY <1>4, <1>5, <1>6, <1>7, <1>8, <1>9 DEF IInv

LEMMA OpenCallKeepsIInv ==
  ASSUME IInv, OpenCall
  PROVE  IInv'
<1> DEFINE row == [checkpoint |-> Arg.checkpoint, head |-> head,
                   attempt |-> Len(attempts), refs |-> Arg.refs]
<1>0. /\ TypeOK /\ PlanOK /\ CountsOK /\ CandidateOK /\ TaskOK /\ EvidenceOK
      /\ PreviousOK /\ RetryOK /\ ReadyOK /\ CheckpointOK
  BY DEF IInv
<1>1. /\ checkpoints' \in {Append(checkpoints, row), checkpoints}
      /\ CallReturns /\ Doing("open")
      /\ UNCHANGED <<state, head, trail, runs, attempts, evidence>>
  BY DEF OpenCall
<1>2. /\ plan # <<>> /\ Arg.do = "open" /\ Arg = plan[1] /\ 1 \in 1..Len(plan)
      /\ Arg.checkpoint \in {"provider_unavailable", "gates_blocked", "candidate_ready"}
      /\ Arg.refs \in SUBSET (1..MaxAttempts)
  BY <1>0, <1>1, HeadCallFacts
<1>3. pc = "returned"
  BY <1>0, <1>2, CallPlaces
<1>4. /\ PlanOK' /\ UNCHANGED <<pc, git, locals, result>> /\ (PlansReady' => PlansReady)
      /\ \A i \in 1..Len(plan') : i + 1 \in 1..Len(plan) /\ plan'[i] = plan[i + 1]
  BY <1>0, <1>1, <1>2, CallKeepsPlan, RestWasPlanned
<1>5. row \in CheckpointRow /\ Cites(row.checkpoint, row.refs, row.head, row.attempt)
  <2>1. Len(attempts) \in 1..MaxAttempts
    BY <1>0, <1>3, MaxAttemptsAssumption DEF CountsOK, TypeOK
  <2>2. Cites(Arg.checkpoint, Arg.refs, head, Len(attempts))
    BY <1>0, <1>2 DEF CheckpointOK
  <2> QED BY <1>0, <1>2, <2>1, <2>2 DEF CheckpointRow, TypeOK
<1> HIDE DEF row
<1>6. /\ checkpoints' \in Seq(CheckpointRow)
      /\ \A k \in 1..Len(checkpoints') :
           Cites(checkpoints'[k].checkpoint, checkpoints'[k].refs,
                 checkpoints'[k].head, checkpoints'[k].attempt)
  <2>1. CASE checkpoints' = checkpoints
    BY <1>0, <2>1 DEF TypeOK, CheckpointOK
  <2>2. CASE checkpoints' = Append(checkpoints, row)
    <3>1. /\ checkpoints' \in Seq(CheckpointRow)
          /\ checkpoints'[Len(checkpoints) + 1] = row
          /\ \A k \in 1..Len(checkpoints) : checkpoints'[k] = checkpoints[k]
          /\ \A k \in 1..Len(checkpoints') :
               k \in 1..Len(checkpoints) \/ k = Len(checkpoints) + 1
      BY <1>0, <1>5, <2>2, AppendFacts DEF TypeOK
    <3> QED BY <1>0, <1>5, <3>1 DEF CheckpointOK
  <2> QED BY <1>1, <2>1, <2>2
<1>7. TypeOK' /\ CountsOK' /\ CandidateOK' /\ TaskOK'
  BY <1>0, <1>1, <1>3, <1>4, <1>6
     DEF TypeOK, CountsOK, CandidateOK, TaskOK, Deciding, git, locals, attempt
<1>8. EvidenceOK' /\ PreviousOK' /\ RetryOK'
  BY <1>0, <1>1, <1>4
     DEF EvidenceOK, EvidenceIsOfItsAttempt, PreviousOK, RetryOK, JudgedAndRetriable, locals
<1>9. ReadyOK'
  BY <1>0, <1>1, <1>4 DEF ReadyOK, Ready, HeadIsVerified, Deciding
<1>10. CheckpointOK'
  BY <1>0, <1>1, <1>4, <1>6 DEF CheckpointOK, Cites
<1> QED BY <1>4, <1>7, <1>8, <1>9, <1>10 DEF IInv

LEMMA FinishRunCallKeepsIInv ==
  ASSUME IInv, FinishRunCall
  PROVE  IInv'
<1> DEFINE row == [runs[attempt] EXCEPT !.state = Arg.state, !.ended = TRUE]
<1>0. /\ TypeOK /\ PlanOK /\ CountsOK /\ CandidateOK /\ TaskOK /\ EvidenceOK
      /\ PreviousOK /\ RetryOK /\ ReadyOK /\ CheckpointOK
  BY DEF IInv
<1>1. /\ runs' = [runs EXCEPT ![attempt].state = Arg.state, ![attempt].ended = TRUE]
      /\ CallReturns /\ Doing("finish_run")
      /\ UNCHANGED <<state, head, trail, attempts, evidence, checkpoints>>
  BY DEF FinishRunCall
<1>2. plan # <<>> /\ Arg.do = "finish_run" /\ Arg.state \in TaskState
  BY <1>0, <1>1, HeadCallFacts
<1>3. pc \in {"loop", "returned"}
  BY <1>0, <1>2, CallPlaces
<1>4. /\ PlanOK' /\ UNCHANGED <<pc, git, locals, result>> /\ (PlansReady' => PlansReady)
      /\ \A i \in 1..Len(plan') : i + 1 \in 1..Len(plan) /\ plan'[i] = plan[i + 1]
  BY <1>0, <1>1, <1>2, CallKeepsPlan, RestWasPlanned
<1>5. /\ runs' \in Seq([state : TaskState, ended : BOOLEAN, since : Nat])
      /\ Len(runs') = Len(runs)
  <2>1. runs \in Seq([state : TaskState, ended : BOOLEAN, since : Nat]) /\ Len(runs) \in Nat
    BY <1>0 DEF TypeOK
  <2>2. CASE Len(runs) = 0
    <3>1. runs' = runs
      BY <1>1, <2>1, <2>2 DEF attempt
    <3> QED BY <2>1, <3>1
  <2>3. CASE Len(runs) > 0
    <3>0. attempt \in 1..Len(runs)
      BY <2>1, <2>3 DEF attempt
    <3>1. runs[attempt] \in [state : TaskState, ended : BOOLEAN, since : Nat]
      BY <2>1, <3>0, ElementOfSeq
    <3>2. row \in [state : TaskState, ended : BOOLEAN, since : Nat]
      BY <1>2, <3>1
    <3>3. runs' = [runs EXCEPT ![attempt] = row]
      BY <1>1
    <3> HIDE DEF row
    <3> QED BY <2>1, <3>0, <3>2, <3>3, ExceptSeq
  <2> QED BY <2>1, <2>2, <2>3
<1>6. TypeOK' /\ CountsOK' /\ CandidateOK' /\ TaskOK'
  BY <1>0, <1>1, <1>3, <1>4, <1>5
     DEF TypeOK, CountsOK, CandidateOK, TaskOK, Deciding, git, locals, attempt
<1>7. EvidenceOK' /\ PreviousOK' /\ RetryOK'
  BY <1>0, <1>1, <1>4, <1>5
     DEF EvidenceOK, EvidenceIsOfItsAttempt, PreviousOK, RetryOK, JudgedAndRetriable, locals
<1>8. ReadyOK' /\ CheckpointOK'
  BY <1>0, <1>1, <1>4
     DEF ReadyOK, Ready, HeadIsVerified, Deciding, CheckpointOK, Cites
<1> QED BY <1>4, <1>6, <1>7, <1>8 DEF IInv

-----------------------------------------------------------------------------
LEMMA StopKeepsIInv ==
  ASSUME IInv, Stop
  PROVE  IInv'
<1>0. /\ TypeOK /\ PlanOK /\ CountsOK /\ CandidateOK /\ TaskOK /\ EvidenceOK
      /\ PreviousOK /\ RetryOK /\ ReadyOK /\ CheckpointOK
  BY DEF IInv
<1>1. /\ pc' = "stopped" /\ plan' = <<>> /\ UNCHANGED <<database, git, locals, result>>
      /\ Len(plan') = 0 /\ 1..0 = {}
  BY DEF Stop
<1>2. TypeOK' /\ PlanOK' /\ CountsOK' /\ CandidateOK' /\ TaskOK'
  BY <1>0, <1>1
     DEF TypeOK, PlanOK, CountsOK, CandidateOK, TaskOK, Deciding, database, git, locals,
         attempt, Labels
<1>3. EvidenceOK' /\ PreviousOK' /\ RetryOK'
  BY <1>0, <1>1
     DEF EvidenceOK, EvidenceIsOfItsAttempt, PreviousOK, RetryOK, JudgedAndRetriable, database
<1>4. ReadyOK' /\ CheckpointOK'
  BY <1>0, <1>1 DEF ReadyOK, Ready, PlansReady, HeadIsVerified, Deciding, CheckpointOK,
                    Cites, database
<1> QED BY <1>2, <1>3, <1>4 DEF IInv

LEMMA CommitKeepsIInv ==
  ASSUME IInv, NEW h \in Heads \cup {Base}, Commit(h)
  PROVE  IInv'
<1>0. /\ TypeOK /\ PlanOK /\ CountsOK /\ CandidateOK /\ TaskOK /\ EvidenceOK
      /\ PreviousOK /\ RetryOK /\ ReadyOK /\ CheckpointOK
  BY DEF IInv
<1>1. writer' = h /\ UNCHANGED <<database, checkout, pc, plan, locals, result>>
  BY DEF Commit
<1>2. TypeOK' /\ PlanOK' /\ CountsOK' /\ CandidateOK' /\ TaskOK'
  BY <1>0, <1>1
     DEF TypeOK, PlanOK, CountsOK, CandidateOK, TaskOK, Deciding, database, locals,
         attempt, Commits
<1>3. EvidenceOK' /\ PreviousOK' /\ RetryOK'
  BY <1>0, <1>1
     DEF EvidenceOK, EvidenceIsOfItsAttempt, PreviousOK, RetryOK, JudgedAndRetriable,
         database, locals
<1>4. ReadyOK' /\ CheckpointOK'
  BY <1>0, <1>1 DEF ReadyOK, Ready, PlansReady, HeadIsVerified, Deciding, CheckpointOK,
                    Cites, database
<1> QED BY <1>2, <1>3, <1>4 DEF IInv

\* Supervision acts when run() has opened its checkpoint, and makes nothing READY.
LEMMA SuperviseKeepsIInv ==
  ASSUME IInv, NEW to \in TaskState, Supervise(to)
  PROVE  IInv'
<1>0. /\ TypeOK /\ PlanOK /\ CountsOK /\ CandidateOK /\ TaskOK /\ EvidenceOK
      /\ PreviousOK /\ RetryOK /\ ReadyOK /\ CheckpointOK
  BY DEF IInv
<1>1. /\ state' = to /\ trail' = Append(trail, to) /\ checkpoints # <<>>
      /\ state \in {"READY", "BLOCKED", "WAITING_HUMAN"} /\ TransitionAllowed(state, to)
      /\ UNCHANGED <<head, runs, attempts, evidence, checkpoints, git, pc, plan, locals, result>>
  BY DEF Supervise
<1>2. ~Deciding /\ pc \in {"returned", "stopped"}
  BY <1>0, <1>1 DEF TaskOK, Deciding
<1>3. to # "READY"
  BY <1>1 DEF TransitionAllowed, LegalTransitions
<1>4. /\ trail' \in Seq(TaskState) /\ Len(trail) \in Nat /\ trail'[Len(trail) + 1] = to
      /\ \A i \in 1..Len(trail) : trail'[i] = trail[i]
      /\ \A i \in 1..Len(trail') : i \in 1..Len(trail) \/ i = Len(trail) + 1
  BY <1>0, <1>1, AppendFacts DEF TypeOK
<1>5. TypeOK' /\ PlanOK' /\ CountsOK' /\ CandidateOK' /\ TaskOK'
  BY <1>0, <1>1, <1>2, <1>4
     DEF TypeOK, PlanOK, CountsOK, CandidateOK, TaskOK, Deciding, git, locals, attempt,
         RowState
<1>6. EvidenceOK' /\ PreviousOK' /\ RetryOK'
  BY <1>0, <1>1
     DEF EvidenceOK, EvidenceIsOfItsAttempt, PreviousOK, RetryOK, JudgedAndRetriable, locals
<1>7. ReadyOK'
  <2>1. Ready' => Ready
    BY <1>3, <1>4 DEF Ready
  <2>2. PlansReady' => PlansReady
    BY <1>1 DEF PlansReady
  <2> QED BY <1>0, <1>1, <2>1, <2>2 DEF ReadyOK, HeadIsVerified, Deciding
<1>8. CheckpointOK'
  BY <1>0, <1>1 DEF CheckpointOK, Cites
<1> QED BY <1>5, <1>6, <1>7, <1>8 DEF IInv

LEMMA NextIInv == IInv /\ [Next]_vars => IInv'
<1> SUFFICES ASSUME IInv, [Next]_vars PROVE IInv'
  OBVIOUS
<1>1. CASE Step
  BY <1>1, BeginKeepsIInv, CreateRunKeepsIInv, ExecuteKeepsIInv, InspectKeepsIInv,
     DecideKeepsIInv, CreateCheckoutKeepsIInv, VerifyKeepsIInv, EvaluateGatesKeepsIInv,
     RequireCallKeepsIInv, MoveCallKeepsIInv, SetHeadCallKeepsIInv, OpenCallKeepsIInv,
     FinishRunCallKeepsIInv
     DEF Step
<1>2. CASE UNCHANGED vars
  <2>1. UNCHANGED <<state, head, trail, runs, attempts, evidence, checkpoints, writer,
                    checkout, pc, plan, provider, candidate, previous, cited, result>>
    BY <1>2 DEF vars, database, git, locals
  <2>2. TypeOK' /\ PlanOK' /\ CountsOK' /\ CandidateOK' /\ TaskOK'
    BY <2>1 DEF IInv, TypeOK, PlanOK, CountsOK, CandidateOK, TaskOK, Deciding, attempt
  <2>3. EvidenceOK' /\ PreviousOK' /\ RetryOK'
    BY <2>1 DEF IInv, EvidenceOK, EvidenceIsOfItsAttempt, PreviousOK, RetryOK,
                JudgedAndRetriable
  <2>4. ReadyOK' /\ CheckpointOK'
    BY <2>1 DEF IInv, ReadyOK, Ready, PlansReady, HeadIsVerified, Deciding, CheckpointOK,
                Cites
  <2> QED BY <2>2, <2>3, <2>4 DEF IInv
<1> QED BY <1>1, <1>2, StopKeepsIInv, CommitKeepsIInv, SuperviseKeepsIInv DEF Next

LEMMA AlwaysIInv == Spec => []IInv
<1> QED BY InitIInv, NextIInv, PTL DEF Spec

-----------------------------------------------------------------------------
\* Every reachable state of run(), its rows and its branch is well typed, and
\* no more attempts are made than the constructor allows (Slice0Orchestrator).
THEOREM RunTypeCorrect == Spec => []TypeOK
<1>1. IInv => TypeOK
  BY DEF IInv
<1> QED BY <1>1, AlwaysIInv, PTL

\* A task that ever became READY has a stored head that passes, in bounds, with
\* evidence of that very commit (gates.py evaluate, orchestrator.py run),
\* however often the provider commits behind run()'s back.
THEOREM ReadyOnlyVerified == Spec => []ReadyIsVerified
<1>1. IInv => ReadyIsVerified
  BY DEF IInv, ReadyOK, Ready, HeadIsVerified, ReadyIsVerified
<1> QED BY <1>1, AlwaysIInv, PTL

\* Every evidence row is about the candidate its own attempt recorded, and no
\* commit is judged twice in a row (orchestrator.py run).
THEOREM EvidenceBelongs == Spec => []EvidenceIsOfItsAttempt
<1>1. IInv => EvidenceIsOfItsAttempt
  BY DEF IInv, EvidenceOK
<1> QED BY <1>1, AlwaysIInv, PTL

\* The provider is asked again only after an unambiguous attempt whose candidate
\* was verified and did not hold (retry_policy.py retry_denial_reason).
THEOREM RetriesAuthorised == Spec => []RetryIsAuthorised
<1>1. IInv => RetryIsAuthorised
  <2> SUFFICES ASSUME IInv PROVE RetryIsAuthorised
    OBVIOUS
  <2>1. RetryOK /\ Len(runs) \in Nat
    BY DEF IInv, TypeOK
  <2>2. \A k \in 2..Len(runs) : k - 1 \in 1..(Len(runs) - 1)
    BY <2>1
  <2> QED BY <2>1, <2>2 DEF RetryOK, JudgedAndRetriable, RetryIsAuthorised
<1> QED BY <1>1, AlwaysIInv, PTL

\* A checkpoint cites evidence of the head it names, evidence that holds for
\* candidate_ready and that does not for gates_blocked (execution_manager.py
\* _open_checkpoint).
THEOREM CheckpointsCite == Spec => []CheckpointCitesItsEvidence
<1>1. IInv => CheckpointCitesItsEvidence
  BY DEF IInv, CheckpointOK, Cites, CheckpointCitesItsEvidence
<1> QED BY <1>1, AlwaysIInv, PTL

-----------------------------------------------------------------------------
(***************************************************************************)
(* The rows and the result of run(): the runs table never runs ahead of    *)
(* the task, and what run() returns is what its last run row and the       *)
(* evidence it cites say, whatever supervision does once it may.           *)
(***************************************************************************)
RunRow == [state : TaskState, ended : BOOLEAN, since : Nat]

\* The task went to s during the k-th run.
ReachedIn(k, s) == \E i \in (runs[k].since + 1)..Len(trail) : trail[i] = s

\* Earlier runs are ended, the latest one before the next is created.
RunsOK ==
  /\ \A k \in 1..Len(runs) :
       /\ runs[k].since <= Len(trail)
       /\ runs[k].ended /\ runs[k].state # "RUNNING" => ReachedIn(k, runs[k].state)
       /\ ~runs[k].ended => k = Len(runs)
  /\ pc = "loop" /\ Len(runs) > 0 /\ ~runs[Len(runs)].ended => plan = Retry

\* A plan to return with moves to the state that is returned before its last
\* call, and only that one, says so in the run row.
EndsWith(p, s) ==
  /\ \A i \in 1..Len(p) : p[i].do = "finish_run" => i = Len(p)
  /\ p[Len(p)] = FinishRun(s)
ReturnOK ==
  pc = "returned" =>
    /\ IF plan = <<>>
       THEN runs[Len(runs)].ended /\ runs[Len(runs)].state = result.state
       ELSE EndsWith(plan, result.state)
    /\ \/ ReachedIn(Len(runs), result.state)
       \/ \E i \in 1..Len(plan) : plan[i] = Move(result.state)
    /\ result.ready <=> result.evidence # 0 /\ Holds(evidence[result.evidence])

\* previous_evidence_id is evidence that did not hold.
CitedOK == cited # 0 => cited \in 1..Len(evidence) /\ ~Holds(evidence[cited])

RInv == RunsOK /\ ReturnOK /\ CitedOK

-----------------------------------------------------------------------------
LEMMA RunRowFacts ==
  ASSUME TypeOK, NEW k \in 1..Len(runs)
  PROVE  runs[k] \in RunRow /\ runs[k].since \in Nat /\ Len(trail) \in Nat
<1>1. runs \in Seq(RunRow) /\ Len(trail) \in Nat
  BY DEF TypeOK, RunRow
<1>2. runs[k] \in RunRow
  BY <1>1, ElementOfSeq
<1> QED BY <1>1, <1>2 DEF RunRow

\* A longer trail still shows what it showed.
LEMMA ReachedStays ==
  ASSUME TypeOK, NEW k \in 1..Len(runs), NEW s, ReachedIn(k, s),
         runs'[k].since = runs[k].since,
         trail' = trail \/ \E to \in TaskState : trail' = Append(trail, to)
  PROVE  ReachedIn(k, s)'
<1>1. /\ trail \in Seq(TaskState) /\ Len(trail) \in Nat /\ runs[k].since \in Nat
  BY RunRowFacts DEF TypeOK
<1>2. Len(trail') >= Len(trail) /\ \A i \in 1..Len(trail) : trail'[i] = trail[i]
      /\ Len(trail') \in Nat
  BY <1>1, AppendFacts
<1>3. PICK i \in (runs[k].since + 1)..Len(trail) : trail[i] = s
  BY DEF ReachedIn
<1>4. i \in 1..Len(trail) /\ i \in (runs[k].since + 1)..Len(trail')
  BY <1>1, <1>2
<1>5. trail'[i] = s
  BY <1>2, <1>3, <1>4
<1> QED BY <1>4, <1>5 DEF ReachedIn

\* Steps that leave the runs table alone keep what it says, wherever they lead
\* but back to the loop.
LEMMA RunsStay ==
  ASSUME TypeOK, RunsOK, runs' = runs, pc' = "loop" => pc = "loop" /\ plan' = plan,
         trail' = trail \/ \E to \in TaskState : trail' = Append(trail, to)
  PROVE  RunsOK'
<1>1. trail \in Seq(TaskState) /\ Len(trail) \in Nat /\ runs \in Seq(RunRow)
  BY DEF TypeOK, RunRow
<1>2. Len(trail') \in Nat /\ Len(trail') >= Len(trail)
  BY <1>1, AppendFacts
<1>3. ASSUME NEW k \in 1..Len(runs')
      PROVE  /\ runs'[k].since <= Len(trail')
             /\ runs'[k].ended /\ runs'[k].state # "RUNNING" => ReachedIn(k, runs[k].state)'
             /\ ~runs'[k].ended => k = Len(runs')
  <2>1. k \in 1..Len(runs) /\ runs'[k] = runs[k] /\ runs[k].since \in Nat
    BY <1>1, <1>3, RunRowFacts
  <2>2. /\ runs[k].since <= Len(trail)
        /\ runs[k].ended /\ runs[k].state # "RUNNING" => ReachedIn(k, runs[k].state)
        /\ ~runs[k].ended => k = Len(runs)
    BY <2>1 DEF RunsOK
  <2>3. runs[k].ended /\ runs[k].state # "RUNNING" => ReachedIn(k, runs[k].state)'
    BY <2>1, <2>2, ReachedStays
  <2> QED BY <1>1, <1>2, <2>1, <2>2, <2>3
<1>4. pc' = "loop" /\ Len(runs') > 0 /\ ~runs'[Len(runs')].ended => plan' = Retry
  BY DEF RunsOK
<1> QED BY <1>3, <1>4 DEF RunsOK, ReachedIn

-----------------------------------------------------------------------------
LEMMA InitRInv == Init => RInv
BY DEF Init, RInv, RunsOK, ReturnOK, CitedOK

\* Steps of run() that only bring it on: no rows but attempts and evidence.
LEMMA WorkKeepsRInv ==
  ASSUME IInv, RInv, UNCHANGED <<runs, trail, cited>>,
         pc' \notin {"loop", "returned"},
         evidence' = evidence \/ \E e \in EvidenceRow : evidence' = Append(evidence, e)
  PROVE  RInv'
<1>1. RunsOK'
  BY RunsStay DEF IInv, RInv
<1>2. CitedOK'
  <2>1. /\ Len(evidence') \in Nat /\ Len(evidence) \in Nat /\ Len(evidence) <= Len(evidence')
        /\ \A i \in 1..Len(evidence) : evidence'[i] = evidence[i]
    BY AppendFacts DEF IInv, TypeOK
  <2> QED BY <2>1 DEF RInv, CitedOK, Holds
<1> QED BY <1>1, <1>2 DEF RInv, ReturnOK

LEMMA BeginKeepsRInv ==
  ASSUME IInv, RInv, Begin
  PROVE  RInv'
<1>1. Len(runs) = 0 /\ runs' = runs /\ pc' = "loop" /\ UNCHANGED <<evidence, cited, trail>>
  BY DEF IInv, CountsOK, Begin, At, GoTo, locals
<1>2. RunsOK' /\ ReturnOK' /\ CitedOK'
  BY <1>1 DEF RInv, RunsOK, ReturnOK, CitedOK, Holds
<1> QED BY <1>2 DEF RInv

LEMMA CreateRunKeepsRInv ==
  ASSUME IInv, RInv, CreateRun
  PROVE  RInv'
<1> DEFINE row == [state |-> "RUNNING", ended |-> FALSE, since |-> Len(trail)]
<1>1. /\ pc = "loop" /\ plan = <<>> /\ runs' = Append(runs, row)
      /\ pc' \in {"hanging", "executing"} /\ UNCHANGED <<trail, evidence, cited>>
  BY DEF CreateRun, At, GoTo, locals
<1>2. runs \in Seq(RunRow) /\ Len(runs) \in Nat /\ trail \in Seq(TaskState) /\ Len(trail) \in Nat
  BY DEF IInv, TypeOK, RunRow
<1>3. row \in RunRow /\ ~row.ended /\ row.since = Len(trail)
  BY <1>2 DEF RunRow, TaskState
<1> HIDE DEF row
<1>4. /\ Len(runs') = Len(runs) + 1 /\ runs'[Len(runs) + 1] = row
      /\ \A k \in 1..Len(runs) : runs'[k] = runs[k]
      /\ \A k \in 1..Len(runs') : k \in 1..Len(runs) \/ k = Len(runs) + 1
  BY <1>1, <1>2, <1>3, AppendFacts
<1>5. \A k \in 1..Len(runs) : runs[k].ended
  <2>1. plan # Retry
    BY <1>1 DEF Retry
  <2> QED BY <1>1, <1>2, <2>1 DEF RInv, RunsOK
<1>6. RunsOK'
  BY <1>1, <1>2, <1>3, <1>4, <1>5 DEF RInv, RunsOK, ReachedIn
<1>7. ReturnOK' /\ CitedOK'
  BY <1>1 DEF RInv, ReturnOK, CitedOK, Holds
<1> QED BY <1>6, <1>7 DEF RInv

\* Returning with a plan that ends as it should.
LEMMA ReturningKeepsRInv ==
  ASSUME IInv, RInv, UNCHANGED <<database, git, locals>>, NEW s, NEW e, ReturnWith(s, e),
         plan' # <<>>, EndsWith(plan', s), \E i \in 1..Len(plan') : plan'[i] = Move(s),
         s = "READY" <=> e # 0 /\ Holds(evidence[e])
  PROVE  RInv'
<1>1. /\ pc' = "returned" /\ result'.state = s /\ result'.evidence = e
      /\ result'.ready <=> s = "READY"
      /\ UNCHANGED <<runs, trail, evidence, cited>>
  BY DEF ReturnWith, GoTo, database, locals
<1>2. RunsOK'
  BY <1>1, RunsStay DEF IInv, RInv
<1>3. ReturnOK'
  BY <1>1 DEF ReturnOK, EndsWith, Holds
<1>4. CitedOK'
  BY <1>1 DEF RInv, CitedOK, Holds
<1> QED BY <1>2, <1>3, <1>4 DEF RInv

\* The plans run() returns with end as they should.
LEMMA PlansEndWell ==
  /\ \A s \in TaskState :
       /\ EndsAs(s) # <<>> /\ EndsWith(EndsAs(s), s)
       /\ \E i \in 1..Len(EndsAs(s)) : EndsAs(s)[i] = Move(s)
  /\ \A s \in TaskState, refs \in SUBSET (1..MaxAttempts),
        c \in {"provider_unavailable", "gates_blocked", "candidate_ready"} :
       /\ EndsAtCheckpoint(s, c, refs) # <<>> /\ EndsWith(EndsAtCheckpoint(s, c, refs), s)
       /\ \E i \in 1..Len(EndsAtCheckpoint(s, c, refs)) :
            EndsAtCheckpoint(s, c, refs)[i] = Move(s)
  /\ \A refs \in SUBSET (1..MaxAttempts) :
       /\ GatesPassed(refs) # <<>> /\ EndsWith(GatesPassed(refs), "READY")
       /\ \E i \in 1..Len(GatesPassed(refs)) : GatesPassed(refs)[i] = Move("READY")
<1>1. ASSUME NEW a, NEW b
      PROVE  <<a, b>> # <<>> /\ Len(<<a, b>>) = 2 /\ <<a, b>>[1] = a /\ <<a, b>>[2] = b
  OBVIOUS
<1>2. ASSUME NEW a, NEW b, NEW c
      PROVE  /\ <<a, b, c>> # <<>> /\ Len(<<a, b, c>>) = 3
             /\ <<a, b, c>>[1] = a /\ <<a, b, c>>[2] = b /\ <<a, b, c>>[3] = c
  OBVIOUS
<1>3. ASSUME NEW a, NEW b, NEW c, NEW d
      PROVE  /\ <<a, b, c, d>> # <<>> /\ Len(<<a, b, c, d>>) = 4
             /\ <<a, b, c, d>>[1] = a /\ <<a, b, c, d>>[2] = b
             /\ <<a, b, c, d>>[3] = c /\ <<a, b, c, d>>[4] = d
  OBVIOUS
<1>4. "READY" \in TaskState /\ "VERIFYING" \in TaskState
  BY DEF TaskState
<1>5. ASSUME NEW s \in TaskState
      PROVE  /\ EndsAs(s) # <<>> /\ EndsWith(EndsAs(s), s)
             /\ \E i \in 1..Len(EndsAs(s)) : EndsAs(s)[i] = Move(s)
  <2> DEFINE p == EndsAs(s)
  <2>1. p # <<>> /\ Len(p) = 2 /\ p[1] = Move(s) /\ p[2] = FinishRun(s)
    BY <1>1, PlanShapes
  <2>2. Move(s).do = "move"
    BY CallFacts
  <2> HIDE DEF p
  <2>3. 1 \in 1..Len(p) /\ \A i \in 1..Len(p) : i = 1 \/ i = 2
    BY <2>1
  <2>4. EndsWith(p, s)
    BY <2>1, <2>2, <2>3 DEF EndsWith
  <2>5. p = EndsAs(s)
    BY DEF p
  <2> QED BY <2>1, <2>3, <2>4, <2>5
<1>6. ASSUME NEW s \in TaskState, NEW refs \in SUBSET (1..MaxAttempts),
             NEW c \in {"provider_unavailable", "gates_blocked", "candidate_ready"}
      PROVE  /\ EndsAtCheckpoint(s, c, refs) # <<>>
             /\ EndsWith(EndsAtCheckpoint(s, c, refs), s)
             /\ \E i \in 1..Len(EndsAtCheckpoint(s, c, refs)) :
                  EndsAtCheckpoint(s, c, refs)[i] = Move(s)
  <2> DEFINE p == EndsAtCheckpoint(s, c, refs)
  <2>1. /\ p # <<>> /\ Len(p) = 3 /\ p[1] = Move(s) /\ p[2] = Open(c, refs)
        /\ p[3] = FinishRun(s)
    BY <1>2, PlanShapes
  <2>2. Move(s).do = "move" /\ Open(c, refs).do = "open"
    BY CallFacts
  <2> HIDE DEF p
  <2>3. 1 \in 1..Len(p) /\ \A i \in 1..Len(p) : i = 1 \/ i = 2 \/ i = 3
    BY <2>1
  <2>4. EndsWith(p, s)
    BY <2>1, <2>2, <2>3 DEF EndsWith
  <2>5. p = EndsAtCheckpoint(s, c, refs)
    BY DEF p
  <2> QED BY <2>1, <2>3, <2>4, <2>5
<1>7. ASSUME NEW refs \in SUBSET (1..MaxAttempts)
      PROVE  /\ GatesPassed(refs) # <<>> /\ EndsWith(GatesPassed(refs), "READY")
             /\ \E i \in 1..Len(GatesPassed(refs)) : GatesPassed(refs)[i] = Move("READY")
  <2> DEFINE p == GatesPassed(refs)
  <2>1. /\ p # <<>> /\ Len(p) = 4 /\ p[1] = Require("VERIFYING") /\ p[2] = Move("READY")
        /\ p[3] = Open("candidate_ready", refs) /\ p[4] = FinishRun("READY")
    BY <1>3, PlanShapes
  <2>2. /\ Require("VERIFYING").do = "require" /\ Move("READY").do = "move"
        /\ Open("candidate_ready", refs).do = "open"
    BY <1>4, CallFacts
  <2> HIDE DEF p
  <2>3. 2 \in 1..Len(p) /\ \A i \in 1..Len(p) : i = 1 \/ i = 2 \/ i = 3 \/ i = 4
    BY <2>1
  <2>4. EndsWith(p, "READY")
    BY <2>1, <2>2, <2>3 DEF EndsWith
  <2>5. p = GatesPassed(refs)
    BY DEF p
  <2> QED BY <2>1, <2>3, <2>4, <2>5
<1> QED BY <1>5, <1>6, <1>7

LEMMA DecideKeepsRInv ==
  ASSUME IInv, RInv, Decide
  PROVE  RInv'
<1>1. /\ UNCHANGED <<database, git, locals>>
      /\ {"INTERRUPTED", "FAILED", "BLOCKED"} \subseteq TaskState \ {"READY"}
      /\ {} \in SUBSET (1..MaxAttempts)
      /\ \A e \in {0, cited} : ~(e # 0 /\ Holds(evidence[e]))
  BY DEF Decide, TaskState, RInv, CitedOK
<1>2. ASSUME NEW s \in {"INTERRUPTED", "FAILED", "BLOCKED"}, NEW e \in {0, cited},
             plan' = EndsAs(s), ReturnWith(s, e)
      PROVE  RInv'
  BY <1>1, <1>2, PlansEndWell, ReturningKeepsRInv
<1>3. ASSUME plan' = EndsAtCheckpoint("BLOCKED", "provider_unavailable", {}),
             ReturnWith("BLOCKED", cited)
      PROVE  RInv'
  BY <1>1, <1>3, PlansEndWell, ReturningKeepsRInv
<1>4. ASSUME pc' = "checkout"
      PROVE  RInv'
  <2>1. UNCHANGED <<runs, trail, cited, evidence>>
    BY <1>1 DEF database, locals
  <2> QED BY <1>4, <2>1, WorkKeepsRInv
<1> QED BY <1>2, <1>3, <1>4 DEF Decide, GoTo

LEMMA EvaluateGatesKeepsRInv ==
  ASSUME IInv, RInv, EvaluateGates
  PROVE  RInv'
<1> DEFINE n == Len(evidence)
<1>1. /\ pc = "gates" /\ UNCHANGED <<database, git>>
      /\ UNCHANGED <<runs, trail, evidence>>
  BY DEF EvaluateGates, At, database
<1>2. /\ n \in Nat \ {0} /\ n \in 1..Len(evidence) /\ {n} \in SUBSET (1..MaxAttempts)
      /\ "BLOCKED" \in TaskState
  BY <1>1, MaxAttemptsAssumption DEF IInv, CountsOK, TypeOK, TaskState
<1>3. Failures(evidence[n]) = {} <=> Holds(evidence[n])
  <2>1. /\ state = "VERIFYING" /\ head = candidate /\ candidate \in Heads
        /\ evidence[n].head = head /\ head # NoHead
    BY <1>1, CommitAssumption DEF IInv, CandidateOK, TaskOK, EvidenceOK
  <2> QED BY <2>1, GatesAreExact
<1> HIDE DEF n
<1>4. ASSUME Holds(evidence[n]), plan' = GatesPassed({n}), ReturnWith("READY", n),
             UNCHANGED locals
      PROVE  RInv'
  BY <1>1, <1>2, <1>4, PlansEndWell, ReturningKeepsRInv
<1>5. ASSUME ~Holds(evidence[n]), ReturnWith("BLOCKED", n), UNCHANGED locals,
             plan' \in {EndsAtCheckpoint("BLOCKED", "gates_blocked", {n}), EndsAs("BLOCKED")}
      PROVE  RInv'
  BY <1>1, <1>2, <1>5, PlansEndWell, ReturningKeepsRInv
<1>6. ASSUME ~Holds(evidence[n]), plan' = Retry, pc' = "loop", cited' = n
      PROVE  RInv'
  <2>1. CitedOK' /\ ReturnOK'
    BY <1>1, <1>2, <1>6 DEF CitedOK, ReturnOK, Holds
  <2>2. RunsOK'
    BY <1>1, <1>6 DEF RInv, RunsOK, ReachedIn
  <2> QED BY <2>1, <2>2 DEF RInv
<1> QED BY <1>3, <1>4, <1>5, <1>6 DEF EvaluateGates, GoTo, n

-----------------------------------------------------------------------------
\* A call that is not the last leaves a plan that ends in the same way.
LEMMA RestEndsWell ==
  ASSUME IInv, plan # <<>>, CallReturns, plan[1].do # "finish_run",
         NEW s, EndsWith(plan, s)
  PROVE  /\ plan' # <<>> /\ EndsWith(plan', s)
         /\ \A c : (\E i \in 1..Len(plan) : plan[i] = c) /\ plan[1] # c =>
                     \E i \in 1..Len(plan') : plan'[i] = c
<1>1. plan \in Seq(PlannedCall) /\ plan' = Tail(plan)
  BY DEF IInv, PlanOK, CallReturns
<1>2. /\ Len(plan) \in Nat \ {0} /\ plan' \in Seq(PlannedCall) /\ Len(plan') = Len(plan) - 1
      /\ \A i \in 1..Len(plan') : i + 1 \in 1..Len(plan) /\ plan'[i] = plan[i + 1]
  BY <1>1, TailFacts
<1>3. Len(plan) > 1
  <2>1. FinishRun(s).do = "finish_run"
    BY DEF FinishRun
  <2> QED BY <1>2, <2>1 DEF EndsWith
<1>4. plan' # <<>> /\ Len(plan') \in 1..Len(plan') /\ plan'[Len(plan')] = plan[Len(plan)]
  BY <1>2, <1>3
<1>5. EndsWith(plan', s)
  BY <1>2, <1>3, <1>4 DEF EndsWith
<1>6. ASSUME NEW c, NEW i \in 1..Len(plan), plan[i] = c, plan[1] # c
      PROVE  \E j \in 1..Len(plan') : plan'[j] = c
  <2>1. i - 1 \in 1..Len(plan') /\ (i - 1) + 1 = i
    BY <1>2, <1>6
  <2> QED BY <1>2, <1>6, <2>1
<1> QED BY <1>4, <1>5, <1>6

\* The other calls than finish_run: a move may be the one that was planned.
LEMMA CallKeepsRInv ==
  ASSUME IInv, RInv, RequireCall \/ MoveCall \/ SetHeadCall \/ OpenCall
  PROVE  RInv'
<1>0. /\ TypeOK /\ PlanOK /\ RunsOK /\ ReturnOK /\ CitedOK
  BY DEF IInv, RInv
<1>1. /\ plan # <<>> /\ CallReturns /\ UNCHANGED <<runs, evidence>>
      /\ Doing("require") \/ Doing("move") \/ Doing("set_head") \/ Doing("open")
      /\ IF MoveCall THEN Doing("move") /\ trail' = Append(trail, Arg.to)
         ELSE ~Doing("move") /\ trail' = trail
  BY DEF RequireCall, MoveCall, SetHeadCall, OpenCall, Doing, database
<1>2. /\ Arg = plan[1] /\ plan[1].do # "finish_run"
      /\ MoveCall => plan[1] = Move(Arg.to) /\ Arg.to \in TaskState
  <2>1. Arg = plan[1] /\ plan[1].do # "finish_run"
    BY <1>0, <1>1, HeadCallFacts DEF Doing
  <2> QED BY <1>0, <1>1, <2>1, HeadCallFacts
<1>3. UNCHANGED <<pc, cited, result>> /\ plan' = Tail(plan)
  BY <1>1 DEF CallReturns, locals
<1>4. trail' = trail \/ \E to \in TaskState : trail' = Append(trail, to)
  BY <1>1, <1>2
<1>5. RunsOK'
  <2>1. CASE pc = "loop"
    <3>1. plan # Retry
      <4>1. Retry[1].do = "finish_run"
        BY DEF Retry, FinishRun
      <4> QED BY <1>2, <4>1
    <3>2. \A k \in 1..Len(runs) : runs[k].ended
      BY <1>0, <2>1, <3>1 DEF RunsOK, TypeOK
    <3>3. Len(runs) > 0 => Len(runs) \in 1..Len(runs)
      BY <1>0 DEF TypeOK
    <3>4. ASSUME NEW k \in 1..Len(runs)
          PROVE  /\ runs[k].since <= Len(trail')
                 /\ runs[k].state # "RUNNING" => ReachedIn(k, runs[k].state)'
      <4>1. /\ runs[k].since <= Len(trail) /\ runs[k].since \in Nat
            /\ runs[k].state # "RUNNING" => ReachedIn(k, runs[k].state)
        BY <1>0, <3>2, <3>4, RunRowFacts DEF RunsOK
      <4>2. Len(trail') >= Len(trail) /\ Len(trail) \in Nat /\ Len(trail') \in Nat
        BY <1>0, <1>4, AppendFacts DEF TypeOK
      <4>3. runs[k].state # "RUNNING" => ReachedIn(k, runs[k].state)'
        BY <1>0, <1>1, <1>4, <4>1, ReachedStays
      <4> QED BY <4>1, <4>2, <4>3
    <3> QED BY <1>1, <3>2, <3>3, <3>4 DEF RunsOK, ReachedIn
  <2>2. CASE pc # "loop"
    BY <1>0, <1>1, <1>3, <1>4, <2>2, RunsStay
  <2> QED BY <2>1, <2>2
<1>6. ReturnOK'
  <2> SUFFICES ASSUME pc' = "returned" PROVE ReturnOK'
    BY DEF ReturnOK
  <2>1. /\ pc = "returned" /\ EndsWith(plan, result.state)
        /\ \/ ReachedIn(Len(runs), result.state)
           \/ \E i \in 1..Len(plan) : plan[i] = Move(result.state)
        /\ result.ready <=> result.evidence # 0 /\ Holds(evidence[result.evidence])
    BY <1>0, <1>1, <1>3 DEF ReturnOK
  <2>2. /\ plan' # <<>> /\ EndsWith(plan', result.state)
        /\ \A c : (\E i \in 1..Len(plan) : plan[i] = c) /\ plan[1] # c =>
                     \E i \in 1..Len(plan') : plan'[i] = c
    BY <1>1, <1>2, <2>1, RestEndsWell
  <2>3. Len(runs) \in 1..Len(runs) /\ runs[Len(runs)].since \in Nat
        /\ runs[Len(runs)].since <= Len(trail) /\ Len(trail) \in Nat
    <3>1. Len(runs) \in 1..Len(runs)
      BY <2>1 DEF IInv, CountsOK, TypeOK
    <3> QED BY <1>0, <3>1, RunRowFacts DEF RunsOK
  <2>4. \/ ReachedIn(Len(runs), result.state)'
        \/ \E i \in 1..Len(plan') : plan'[i] = Move(result.state)
    <3>1. CASE ReachedIn(Len(runs), result.state)
      BY <1>0, <1>1, <1>3, <1>4, <2>3, <3>1, ReachedStays
    <3>2. CASE plan[1] = Move(result.state)
      <4>1. MoveCall /\ Arg.to = result.state
        <5>1. Move(result.state).do = "move" /\ Move(result.state).to = result.state
          BY DEF Move
        <5> QED BY <1>1, <1>2, <3>2, <5>1 DEF Doing, Arg
      <4>2. Len(trail') = Len(trail) + 1 /\ trail'[Len(trail) + 1] = result.state
        BY <1>0, <1>1, <1>2, <4>1, AppendFacts DEF TypeOK
      <4>3. Len(trail) + 1 \in (runs[Len(runs)].since + 1)..Len(trail')
        BY <2>3, <4>2
      <4> QED BY <1>1, <1>3, <4>2, <4>3 DEF ReachedIn
    <3>3. CASE (\E i \in 1..Len(plan) : plan[i] = Move(result.state)) /\ plan[1] # Move(result.state)
      BY <2>2, <3>3
    <3> QED BY <2>1, <3>1, <3>2, <3>3
  <2> QED BY <1>1, <1>3, <2>1, <2>2, <2>4 DEF ReturnOK, ReachedIn, EndsWith, Holds
<1>7. CitedOK'
  BY <1>0, <1>1, <1>3 DEF CitedOK, Holds
<1> QED BY <1>5, <1>6, <1>7 DEF RInv

LEMMA FinishRunCallKeepsRInv ==
  ASSUME IInv, RInv, FinishRunCall
  PROVE  RInv'
<1> DEFINE n == Len(runs)
           row == [runs[n] EXCEPT !.state = Arg.state, !.ended = TRUE]
<1>0. /\ TypeOK /\ PlanOK /\ CountsOK /\ RunsOK /\ ReturnOK /\ CitedOK
  BY DEF IInv, RInv
<1>1. /\ runs' = [runs EXCEPT ![attempt].state = Arg.state, ![attempt].ended = TRUE]
      /\ CallReturns /\ Doing("finish_run") /\ UNCHANGED <<trail, evidence>>
  BY DEF FinishRunCall
<1>2. /\ plan # <<>> /\ Arg.do = "finish_run" /\ Arg = plan[1] /\ Arg.state \in TaskState
      /\ pc \in {"loop", "returned"} /\ 1 \in 1..Len(plan)
  <2>1. /\ plan # <<>> /\ Arg.do = "finish_run" /\ Arg = plan[1] /\ Arg.state \in TaskState
        /\ 1 \in 1..Len(plan)
    BY <1>0, <1>1, HeadCallFacts
  <2> QED BY <1>0, <2>1, CallPlaces
<1>3. UNCHANGED <<pc, cited, result>> /\ plan' = Tail(plan)
  BY <1>1 DEF CallReturns, locals
<1>4. runs \in Seq(RunRow) /\ n \in Nat
  BY <1>0 DEF TypeOK, RunRow
<1>5. CASE n = 0
  <2>1. runs' = runs
    BY <1>1, <1>4, <1>5 DEF attempt
  <2>2. pc = "loop"
    BY <1>0, <1>2, <1>5 DEF CountsOK
  <2>3. RunsOK' /\ ReturnOK' /\ CitedOK'
    BY <1>0, <1>1, <1>3, <1>5, <2>1, <2>2 DEF RunsOK, ReturnOK, CitedOK, Holds
  <2> QED BY <2>3 DEF RInv
<1>6. CASE n > 0
  <2>1. n \in 1..n /\ runs[n] \in RunRow
    BY <1>4, <1>6, ElementOfSeq
  <2>2. /\ row \in RunRow /\ row.ended /\ row.state = Arg.state
        /\ row.since = runs[n].since
    BY <1>2, <2>1 DEF RunRow
  <2>3. runs' = [runs EXCEPT ![n] = row]
    BY <1>1 DEF attempt
  <2> HIDE DEF row
  <2>4. /\ Len(runs') = n /\ \A k \in 1..n : runs'[k] = IF k = n THEN row ELSE runs[k]
    BY <1>4, <2>1, <2>2, <2>3, ExceptSeq
  <2> HIDE DEF n
  <2>5. n = Len(runs)
    BY DEF n
  \* in the loop the row says RUNNING, after it what the task has reached
  <2>6. Arg.state = "RUNNING" \/ ReachedIn(n, Arg.state)
    <3>1. CASE pc = "loop"
      <4>1. plan \in {<<Move("RUNNING")>>, Retry}
        BY <1>0, <1>2, <3>1 DEF PlanOK
      <4>2. plan = Retry
        BY <1>2, <4>1 DEF Move
      <4> QED BY <1>2, <4>2 DEF Retry, FinishRun
    <3>2. CASE pc = "returned"
      <4>1. /\ EndsWith(plan, result.state)
            /\ \/ ReachedIn(n, result.state)
               \/ \E i \in 1..Len(plan) : plan[i] = Move(result.state)
        BY <1>0, <1>2, <2>5, <3>2 DEF ReturnOK
      <4>2. Len(plan) = 1 /\ plan[1] = FinishRun(result.state)
        BY <1>2, <4>1 DEF EndsWith
      <4>3. \A i \in 1..Len(plan) : plan[i] # Move(result.state)
        BY <4>2 DEF FinishRun, Move
      <4>4. Arg.state = result.state
        BY <1>2, <4>2 DEF FinishRun
      <4> QED BY <4>1, <4>3, <4>4
    <3> QED BY <1>2, <3>1, <3>2
  <2>7. RunsOK'
    <3>1. ASSUME NEW k \in 1..Len(runs')
          PROVE  /\ runs'[k].since <= Len(trail')
                 /\ runs'[k].ended /\ runs'[k].state # "RUNNING" =>
                      \E i \in (runs'[k].since + 1)..Len(trail') : trail'[i] = runs'[k].state
                 /\ runs'[k].ended
      <4>1. CASE k = n
        <5>1. runs'[k] = row /\ trail' = trail
          BY <1>1, <2>1, <2>4, <4>1
        <5>2. row.since <= Len(trail)
          BY <1>0, <2>1, <2>2, <2>5 DEF RunsOK
        <5> QED BY <2>2, <2>6, <5>1, <5>2 DEF ReachedIn
      <4>2. CASE k # n
        <5>1. k \in 1..n /\ runs'[k] = runs[k] /\ trail' = trail
          BY <1>1, <2>4, <3>1, <4>2
        <5> QED BY <1>0, <2>5, <4>2, <5>1 DEF RunsOK, ReachedIn
      <4> QED BY <4>1, <4>2
    <3>2. Len(runs') \in 1..Len(runs')
      BY <2>1, <2>4
    <3> QED BY <3>1, <3>2 DEF RunsOK, ReachedIn
  <2>8. ReturnOK'
    <3> SUFFICES ASSUME pc' = "returned" PROVE ReturnOK'
      BY DEF ReturnOK
    <3>1. /\ pc = "returned" /\ EndsWith(plan, result.state)
          /\ \/ ReachedIn(n, result.state)
             \/ \E i \in 1..Len(plan) : plan[i] = Move(result.state)
          /\ result.ready <=> result.evidence # 0 /\ Holds(evidence[result.evidence])
      BY <1>0, <1>2, <1>3, <2>5 DEF ReturnOK
    <3>2. plan \in Seq(PlannedCall) /\ Len(plan) = 1 /\ plan[1] = FinishRun(result.state)
      BY <1>0, <1>2, <3>1 DEF EndsWith, PlanOK
    <3>3. plan' = <<>> /\ ReachedIn(n, result.state) /\ Arg.state = result.state
      BY <1>2, <1>3, <3>1, <3>2, TailFacts DEF FinishRun, Move
    <3>4. \E i \in (runs'[n].since + 1)..Len(trail') : trail'[i] = result.state
      BY <1>1, <2>1, <2>2, <2>4, <3>3 DEF ReachedIn
    <3>5. runs'[n].ended /\ runs'[n].state = result.state /\ Len(runs') = n
      BY <2>1, <2>2, <2>4, <3>3
    <3> QED BY <1>1, <1>3, <3>1, <3>3, <3>4, <3>5 DEF ReturnOK, ReachedIn, Holds
  <2>9. CitedOK'
    BY <1>0, <1>1, <1>3 DEF CitedOK, Holds
  <2> QED BY <2>7, <2>8, <2>9 DEF RInv
<1> QED BY <1>4, <1>5, <1>6

-----------------------------------------------------------------------------
\* What others do, and stopping, leaves the rows run() wrote.
LEMMA OthersKeepRInv ==
  ASSUME IInv, RInv, UNCHANGED <<runs, evidence, cited, result, pc, plan>>,
         trail' = trail \/ \E to \in TaskState : trail' = Append(trail, to)
  PROVE  RInv'
<1>1. RunsOK'
  BY RunsStay DEF IInv, RInv
<1>2. ReturnOK'
  <2>1. pc = "returned" => Len(runs) \in 1..Len(runs)
    BY DEF IInv, CountsOK, TypeOK
  <2>2. pc = "returned" /\ ReachedIn(Len(runs), result.state) =>
          ReachedIn(Len(runs), result.state)'
    BY <2>1, ReachedStays DEF IInv
  <2> QED BY <2>2 DEF RInv, ReturnOK, EndsWith, Holds, ReachedIn
<1>3. CitedOK'
  BY DEF RInv, CitedOK, Holds
<1> QED BY <1>1, <1>2, <1>3 DEF RInv

LEMMA NextRInv == IInv /\ RInv /\ [Next]_vars => RInv'
<1> SUFFICES ASSUME IInv, RInv, [Next]_vars PROVE RInv'
  OBVIOUS
<1>1. CASE Execute \/ Inspect \/ CreateCheckout \/ Stop
  <2>1. UNCHANGED <<runs, trail, cited, evidence>> /\ pc' \notin {"loop", "returned"}
    BY <1>1 DEF Execute, Inspect, CreateCheckout, Stop, GoTo, database, locals
  <2> QED BY <2>1, WorkKeepsRInv
<1>2. CASE Verify
  <2>1. UNCHANGED <<runs, trail, cited>> /\ pc' \notin {"loop", "returned"}
    BY <1>2 DEF Verify, GoTo, locals
  <2>2. PICK e : evidence' = Append(evidence, e)
    BY <1>2 DEF Verify
  <2>3. e \in EvidenceRow
    <3>1. IInv'
      BY <1>2, VerifyKeepsIInv
    <3>2. evidence' \in Seq(EvidenceRow) /\ evidence \in Seq(EvidenceRow)
      BY <3>1 DEF IInv, TypeOK, EvidenceRow
    <3> QED BY <2>2, <3>2
  <2> QED BY <2>1, <2>2, <2>3, WorkKeepsRInv
<1>3. CASE (\E h \in Heads \cup {Base} : Commit(h)) \/ UNCHANGED vars
  <2>1. UNCHANGED <<runs, trail, cited, evidence, result, pc, plan>>
    BY <1>3 DEF Commit, vars, database, locals
  <2> QED BY <2>1, OthersKeepRInv
<1>4. CASE \E to \in TaskState : Supervise(to)
  <2>1. /\ UNCHANGED <<runs, cited, evidence, result, pc, plan>>
        /\ \E to \in TaskState : trail' = Append(trail, to)
    BY <1>4 DEF Supervise, locals
  <2> QED BY <2>1, OthersKeepRInv
<1> QED BY <1>1, <1>2, <1>3, <1>4, BeginKeepsRInv, CreateRunKeepsRInv, DecideKeepsRInv,
           EvaluateGatesKeepsRInv, CallKeepsRInv, FinishRunCallKeepsRInv DEF Next, Step

LEMMA AlwaysRInv == Spec => [](IInv /\ RInv)
<1> QED BY InitRInv, NextRInv, AlwaysIInv, PTL DEF Spec

-----------------------------------------------------------------------------
\* A run row says READY, BLOCKED, FAILED or INTERRUPTED only after the task went
\* there, and no run is left open (store.py finish_run, as orchestrator.py calls it).
THEOREM RunRowsTruthful == Spec => []RunRowsAreTruthful
<1>1. IInv /\ RInv => RunRowsAreTruthful
  <2> SUFFICES ASSUME IInv, RInv, NEW k \in 1..Len(runs)
               PROVE  /\ runs[k].ended /\ runs[k].state # "RUNNING" =>
                           \E i \in (runs[k].since + 1)..Len(trail) : trail[i] = runs[k].state
                      /\ ~runs[k].ended => k = Len(runs) /\ ~At("returned")
    BY DEF RunRowsAreTruthful
  <2> QED BY DEF RInv, RunsOK, ReturnOK, ReachedIn, At
<1> QED BY <1>1, AlwaysRInv, PTL

\* What run() returns is what its run row says, and it is ready exactly on
\* evidence that holds (orchestrator.py _finish).
THEOREM ReturnsBacked == Spec => []ResultIsBacked
<1>1. IInv /\ RInv => ResultIsBacked
  BY DEF RInv, ReturnOK, ResultIsBacked, At, attempt
<1> QED BY <1>1, AlwaysRInv, PTL
=============================================================================
