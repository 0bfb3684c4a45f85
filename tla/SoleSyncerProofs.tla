-------------------------- MODULE SoleSyncerProofs --------------------------
(***************************************************************************)
(* What ExecutionManager promises when one process at most syncs and       *)
(* callers open no checkpoints of their own, for any number of tasks and   *)
(* of processes that drive them, which may die, meet a busy database and   *)
(* take up RUNNING tasks again: a terminal verdict is final, a task has    *)
(* one open gate, its driver has it alone, the merge gate opens on a       *)
(* human's approval only, a refusal is never undone; and, if no process    *)
(* dies and no store call fails, a verdict on record is the state of its   *)
(* task, READY comes with its checkpoint, and the manager implements       *)
(* SupervisedTask.  With a second syncer the code breaks these: see the    *)
(* runs that fail.                                                         *)
(***************************************************************************)
EXTENDS ExecutionManagerProofs

SoleSyncer == \A p, q \in Syncers : p = q

Parked == {"READY", "BLOCKED", "WAITING_HUMAN"}

\* Process p drives t or is in a lifecycle method of it; it applies supervision
\* to t.
Holds(p, t) == drive[p].task = t \/ (frame[p].task = t /\ frame[p].request = 0)
Syncs(p, t) == frame[p].task = t /\ frame[p].request # 0
AtWork(p, t) == Holds(p, t) \/ Syncs(p, t)

-----------------------------------------------------------------------------
\* The checkpoints the manager opens, and the state it moves the task to first.
Managed == {"provider_unavailable", "gates_blocked", "candidate_ready"}
Stage(cp) == IF cp = "candidate_ready" THEN "READY" ELSE "BLOCKED"
Insert(row) == [do |-> "insert", row |-> row]

\* What the last method of a drive of t has left to do when t is in state s,
\* with head h, after n attempts.
Ending(t, s, h, n, todo) ==
  \/ /\ s \in {"RUNNING", "VERIFYING"}
     /\ \/ \E to \in {"INTERRUPTED", "FAILED", "BLOCKED"} : todo = <<Move(to)>>
        \/ \E cp \in Managed \ {"candidate_ready"} : todo = <<Move("BLOCKED"), Open(cp)>>
  \/ /\ s = "VERIFYING"
     /\ \/ todo = <<Require("VERIFYING"), Move("READY"), Open("candidate_ready")>>
        \/ todo = <<Move("READY"), Open("candidate_ready")>>
  \/ \E cp \in Managed :
       /\ s = Stage(cp)
       /\ todo = <<Open(cp)>> \/ todo = <<Insert(Row(t, cp, h, n))>>

\* What a method of a task that stays driven has left.
Driving(phase, s, todo) ==
  \/ phase = "provider" /\ todo = <<>> /\ s = "RUNNING"
  \/ phase = "provider" /\ todo = <<Move("RUNNING")>> /\ s \in {"PENDING", "VERIFYING"}
  \/ phase = "outcome" /\ todo = <<>> /\ s = "RUNNING"
  \/ phase = "gates" /\ todo = <<>> /\ s = "VERIFYING"
  \/ /\ phase = "gates" /\ s = "RUNNING"
     /\ \/ \E c \in Heads : todo = <<Require("RUNNING"), SetHead(c), Move("VERIFYING")>>
        \/ \E c \in Heads : todo = <<SetHead(c), Move("VERIFYING")>>
        \/ todo = <<Move("VERIFYING")>>

HeldPlan(d, t, s, h, n, todo) ==
  IF d = NoDrive THEN Ending(t, s, h, n, todo)
                 ELSE d.task = t /\ Driving(d.phase, s, todo)

\* What is left to do of a claimed verdict.
Applying(verdict, s, todo) ==
  \/ verdict = "CONTINUE" /\ todo = <<Move("RUNNING")>>
  \/ verdict = "HUMAN_REQUIRED" /\ todo = <<HumanRequired>>
  \/ verdict = "HUMAN_REQUIRED" /\ todo = <<Move("WAITING_HUMAN")>> /\ s # "WAITING_HUMAN"
  \/ \E to \in {"RUNNING", "BLOCKED"} :
       /\ verdict = IF to = "RUNNING" THEN "HUMAN_RESUME" ELSE "HUMAN_BLOCK"
       /\ \/ todo = <<HumanRequired, Require("WAITING_HUMAN"), Move(to)>>
          \/ /\ todo = <<Move("WAITING_HUMAN"), Require("WAITING_HUMAN"), Move(to)>>
             /\ s # "WAITING_HUMAN"
          \/ todo = <<Require("WAITING_HUMAN"), Move(to)>> /\ s = "WAITING_HUMAN"
          \/ todo = <<Move(to)>> /\ s = "WAITING_HUMAN"

-----------------------------------------------------------------------------
\* A process that holds a task is a driver in the middle of a plan, and every
\* request of the task is settled; those of this attempt are the reason why it
\* is tried again.
HoldOK(p, t) ==
  /\ p \in Drivers /\ frame[p].request = 0
  /\ frame[p].todo # <<>> => frame[p].task = t
  /\ HeldPlan(drive[p], t, state[t], head[t], attempts[t], frame[p].todo)
  /\ \A r \in Rows : requests[r].task = t =>
       /\ ~Unresolved(r)
       /\ requests[r].attempt = attempts[t] => drive[p].phase = "provider"

\* A task that supervision acts on is parked after the attempt of the request.
SyncOK(p, t) ==
  LET f == frame[p]
      r == f.request
  IN  /\ drive[p] = NoDrive
      /\ state[t] \in Parked /\ f.read \in {"none", state[t]}
      /\ f.verdict = "CONTINUE" => state[t] # "READY"
      /\ requests[r].attempt = attempts[t]
      /\ \/ Unresolved(r) /\ f.todo \in {<<Consult>>, <<CanApply>>, <<Claim>>}
         \/ requests[r].applied = f.verdict /\ Applying(f.verdict, state[t], f.todo)

\* A task has one request per attempt at most, and an open one only while it is
\* parked after that attempt.
GatesOK(t) ==
  \A r \in Rows : requests[r].task = t =>
    /\ requests[r].attempt <= attempts[t] /\ requests[r].checkpoint \in Managed
    /\ Unresolved(r) => requests[r].attempt = attempts[t] /\ state[t] \in Parked
    /\ \A q \in Rows : requests[q].task = t /\ requests[q].attempt = requests[r].attempt
                         => q = r

\* If nothing fails, a verdict of this attempt that nobody is applying has been
\* applied, and a READY task that nobody holds has its gate.
EffectOK(t) ==
  /\ \A r \in Rows : requests[r].task = t /\ requests[r].attempt = attempts[t]
                       /\ ~BeingApplied(r) =>
       /\ requests[r].applied \in {"CONTINUE", "HUMAN_RESUME"} => state[t] = "RUNNING"
       /\ requests[r].applied = "HUMAN_BLOCK" => state[t] = "BLOCKED"
  /\ state[t] = "READY" => MergeGate(t) # {} \/ \E p \in Procs : Holds(p, t)

TaskOK(t) ==
  /\ \A p, q \in Procs : AtWork(p, t) /\ AtWork(q, t) => p = q
  /\ \A p \in Procs : /\ Holds(p, t) => HoldOK(p, t)
                      /\ Syncs(p, t) => SyncOK(p, t)
  /\ GatesOK(t)
  /\ ~Crashes /\ ~Faults => EffectOK(t)

\* The requests the frame f of a sync has still to visit are open and different.
QueueOK(f) ==
  /\ \A i \in 1..Len(f.queue) : Unresolved(f.queue[i]) /\ f.queue[i] # f.request
  /\ \A i, j \in 1..Len(f.queue) : f.queue[i] = f.queue[j] => i = j
  /\ f.todo = <<>> => f = NoFrame

SInv == /\ IInv
        /\ \A t \in Tasks : TaskOK(t)
        /\ \A p \in Procs : QueueOK(frame[p])

-----------------------------------------------------------------------------
(***************************************************************************)
(* Plans.                                                                  *)
(***************************************************************************)
LEMMA ShortPlans ==
  /\ \A a : Head(<<a>>) = a /\ Tail(<<a>>) = <<>> /\ Len(<<a>>) = 1 /\ <<a>> # <<>>
  /\ \A a, b : /\ Head(<<a, b>>) = a /\ Tail(<<a, b>>) = <<b>> /\ Len(<<a, b>>) = 2
               /\ <<a, b>> # <<>>
  /\ \A a, b, c : /\ Head(<<a, b, c>>) = a /\ Tail(<<a, b, c>>) = <<b, c>>
                  /\ Len(<<a, b, c>>) = 3 /\ <<a, b, c>> # <<>>
OBVIOUS

LEMMA ShortConcats ==
  /\ \A a : <<a>> \o <<>> = <<a>>
  /\ \A a, b, c : <<a>> \o <<b, c>> = <<a, b, c>>
<1>1. ASSUME NEW a PROVE <<a>> \o <<>> = <<a>>
  <2>1. <<a>> \in Seq({a})
    OBVIOUS
  <2> QED BY <2>1, ConcatEmptySeq
<1>2. ASSUME NEW a, NEW b, NEW c PROVE <<a>> \o <<b, c>> = <<a, b, c>>
  <2> DEFINE S == {a, b, c}
             u == <<a>>
             v == <<b, c>>
             w == <<a, b, c>>
  <2>1. /\ u \in Seq(S) /\ Len(u) = 1 /\ u[1] = a
        /\ v \in Seq(S) /\ Len(v) = 2 /\ v[1] = b /\ v[2] = c
        /\ w \in Seq(S) /\ Len(w) = 3 /\ w[1] = a /\ w[2] = b /\ w[3] = c
    OBVIOUS
  <2> HIDE DEF S, u, v, w
  <2> DEFINE x == u \o v
  <2>2. /\ x \in Seq(S) /\ Len(x) = Len(u) + Len(v)
        /\ \A i \in 1..(Len(u) + Len(v)) : x[i] = IF i <= Len(u) THEN u[i] ELSE v[i - Len(u)]
    BY <2>1, ConcatProperties
  <2> HIDE DEF x
  <2>3. Len(x) = 3 /\ \A i \in 1..3 : x[i] = IF i <= 1 THEN u[i] ELSE v[i - 1]
    BY <2>1, <2>2
  <2>4. \A i \in 1..3 : x[i] = w[i]
    <3>1. x[1] = w[1] /\ x[2] = w[2] /\ x[3] = w[3]
      BY <2>1, <2>3
    <3> QED BY <3>1
  <2>5. x = w
    BY <2>1, <2>2, <2>3, <2>4, SeqEqual
  <2> QED BY <2>5 DEF u, v, w, x
<1> QED BY <1>1, <1>2

LEMMA CallKinds ==
  /\ \A s : Move(s).do = "move" /\ Move(s).to = s
  /\ \A s : Require(s).do = "require" /\ Require(s).in = s
  /\ \A h : SetHead(h).do = "set_head" /\ SetHead(h).head = h
  /\ \A cp : Open(cp).do = "open" /\ Open(cp).checkpoint = cp
  /\ \A row : Insert(row).do = "insert" /\ Insert(row).row = row
  /\ HumanRequired.do = "human_required" /\ Consult.do = "consult"
  /\ CanApply.do = "can_apply" /\ Claim.do = "claim"
BY DEF Move, Require, SetHead, Open, Insert, HumanRequired, Consult, CanApply, Claim

\* What the first call c of a driver's plan is, and what it leaves of the plan.
EndingCall(t, s, h, n, c, rest) ==
  /\ c.do \in {"move", "require", "open", "insert"}
  /\ c.do = "move" =>
       /\ c.to \notin {"RUNNING", "VERIFYING"} /\ s \in {"RUNNING", "VERIFYING"}
       /\ IF rest = <<>> THEN c.to # "READY" ELSE Ending(t, c.to, h, n, rest)
  /\ c.do = "require" => rest # <<>> /\ Ending(t, s, h, n, rest)
  /\ c.do = "open" =>
       /\ rest = <<>> /\ c.checkpoint \in Managed /\ s = Stage(c.checkpoint)
       /\ Ending(t, s, h, n, <<Insert(Row(t, c.checkpoint, h, n))>>)
  /\ c.do = "insert" =>
       /\ rest = <<>>
       /\ \E cp \in Managed : s = Stage(cp) /\ c.row = Row(t, cp, h, n)

DrivingCall(phase, s, c, rest) ==
  /\ c.do \in {"move", "require", "set_head"}
  /\ c.do = "move" =>
       /\ rest = <<>> /\ s \in {"PENDING", "RUNNING", "VERIFYING"} /\ c.to # s
       /\ c.to \in {"RUNNING", "VERIFYING"} /\ Driving(phase, c.to, rest)
       /\ phase = "provider" => s \in {"PENDING", "VERIFYING"}
  /\ c.do = "require" => rest # <<>> /\ Driving(phase, s, rest)
  /\ c.do = "set_head" => rest # <<>> /\ Driving(phase, s, rest)

LEMMA EndingFacts ==
  ASSUME NEW t, NEW s, NEW h, NEW n, NEW todo, Ending(t, s, h, n, todo),
         NEW c, c = Head(todo), NEW rest, rest = Tail(todo)
  PROVE  todo # <<>> /\ EndingCall(t, s, h, n, c, rest)
<1>1. CASE \E to \in {"INTERRUPTED", "FAILED", "BLOCKED"} :
             s \in {"RUNNING", "VERIFYING"} /\ todo = <<Move(to)>>
  BY <1>1, ShortPlans, CallKinds DEF EndingCall
<1>2. CASE \E cp \in Managed \ {"candidate_ready"} :
             s \in {"RUNNING", "VERIFYING"} /\ todo = <<Move("BLOCKED"), Open(cp)>>
  <2>1. PICK cp \in Managed \ {"candidate_ready"} : todo = <<Move("BLOCKED"), Open(cp)>>
    BY <1>2
  <2>2. c = Move("BLOCKED") /\ rest = <<Open(cp)>> /\ todo # <<>> /\ rest # <<>>
    BY <2>1, ShortPlans
  <2>3. Ending(t, "BLOCKED", h, n, <<Open(cp)>>)
    BY DEF Ending, Stage, Managed
  <2> QED BY <1>2, <2>2, <2>3, CallKinds DEF EndingCall
<1>3. CASE /\ s = "VERIFYING"
           /\ todo = <<Require("VERIFYING"), Move("READY"), Open("candidate_ready")>>
  <2>1. /\ c = Require("VERIFYING") /\ rest = <<Move("READY"), Open("candidate_ready")>>
        /\ todo # <<>> /\ rest # <<>>
    BY <1>3, ShortPlans
  <2>2. Ending(t, s, h, n, rest)
    BY <1>3, <2>1 DEF Ending
  <2> QED BY <2>1, <2>2, CallKinds DEF EndingCall
<1>4. CASE s = "VERIFYING" /\ todo = <<Move("READY"), Open("candidate_ready")>>
  <2>1. c = Move("READY") /\ rest = <<Open("candidate_ready")>> /\ todo # <<>> /\ rest # <<>>
    BY <1>4, ShortPlans
  <2>2. Ending(t, "READY", h, n, rest)
    BY <2>1 DEF Ending, Stage, Managed
  <2> QED BY <1>4, <2>1, <2>2, CallKinds DEF EndingCall
<1>5. CASE \E cp \in Managed : s = Stage(cp) /\ todo = <<Open(cp)>>
  <2>1. PICK cp \in Managed : s = Stage(cp) /\ todo = <<Open(cp)>>
    BY <1>5
  <2>2. c = Open(cp) /\ rest = <<>> /\ todo # <<>>
    BY <2>1, ShortPlans
  <2>3. Ending(t, s, h, n, <<Insert(Row(t, cp, h, n))>>)
    BY <2>1 DEF Ending
  <2> QED BY <2>1, <2>2, <2>3, CallKinds DEF EndingCall
<1>6. CASE \E cp \in Managed : s = Stage(cp) /\ todo = <<Insert(Row(t, cp, h, n))>>
  BY <1>6, ShortPlans, CallKinds DEF EndingCall
<1> QED BY <1>1, <1>2, <1>3, <1>4, <1>5, <1>6 DEF Ending

LEMMA DrivingFacts ==
  ASSUME NEW phase, NEW s, NEW todo, Driving(phase, s, todo), todo # <<>>,
         NEW c, c = Head(todo), NEW rest, rest = Tail(todo)
  PROVE  DrivingCall(phase, s, c, rest)
<1>1. CASE /\ phase = "provider" /\ s \in {"PENDING", "VERIFYING"}
           /\ todo = <<Move("RUNNING")>>
  <2>1. c = Move("RUNNING") /\ rest = <<>>
    BY <1>1, ShortPlans
  <2> QED BY <1>1, <2>1, CallKinds DEF Driving, DrivingCall
<1>2. CASE /\ phase = "gates" /\ s = "RUNNING"
           /\ \E h \in Heads : todo = <<Require("RUNNING"), SetHead(h), Move("VERIFYING")>>
  <2>1. PICK h \in Heads : todo = <<Require("RUNNING"), SetHead(h), Move("VERIFYING")>>
    BY <1>2
  <2>2. c = Require("RUNNING") /\ rest = <<SetHead(h), Move("VERIFYING")>> /\ rest # <<>>
    BY <2>1, ShortPlans
  <2> QED BY <1>2, <2>2, CallKinds DEF Driving, DrivingCall
<1>3. CASE /\ phase = "gates" /\ s = "RUNNING"
           /\ \E h \in Heads : todo = <<SetHead(h), Move("VERIFYING")>>
  <2>1. PICK h \in Heads : todo = <<SetHead(h), Move("VERIFYING")>>
    BY <1>3
  <2>2. c = SetHead(h) /\ rest = <<Move("VERIFYING")>> /\ rest # <<>>
    BY <2>1, ShortPlans
  <2> QED BY <1>3, <2>2, CallKinds DEF Driving, DrivingCall
<1>4. CASE phase = "gates" /\ s = "RUNNING" /\ todo = <<Move("VERIFYING")>>
  <2>1. c = Move("VERIFYING") /\ rest = <<>>
    BY <1>4, ShortPlans
  <2> QED BY <1>4, <2>1, CallKinds DEF Driving, DrivingCall
<1> QED BY <1>1, <1>2, <1>3, <1>4 DEF Driving

\* The effect of a verdict is to apply it.
LEMMA EffectApplies ==
  ASSUME NEW verdict \in Verdict, NEW s
  PROVE  Applying(verdict, s, Effect(verdict))
<1>1. CASE verdict = "CONTINUE"
  BY <1>1 DEF Effect, Applying
<1>2. CASE verdict = "HUMAN_REQUIRED"
  BY <1>2 DEF Effect, Applying
<1>3. ASSUME NEW to \in {"RUNNING", "BLOCKED"},
             verdict = IF to = "RUNNING" THEN "HUMAN_RESUME" ELSE "HUMAN_BLOCK"
      PROVE  Applying(verdict, s, Effect(verdict))
  <2>1. Effect(verdict) = <<HumanRequired>> \o <<Require("WAITING_HUMAN"), Move(to)>>
    BY <1>3 DEF Effect, HumanDecided
  <2>2. Effect(verdict) = <<HumanRequired, Require("WAITING_HUMAN"), Move(to)>>
    BY <2>1, ShortConcats
  <2> QED BY <1>3, <2>2 DEF Applying
<1> QED BY <1>1, <1>2, <1>3 DEF Verdict, TerminalVerdicts

\* What each call leaves of a claimed verdict: none of them fails, and the last
\* one moves the task where the verdict sends it.
ApplyingCall(verdict, s, c, rest) ==
  /\ c.do \in {"move", "require", "human_required"}
  /\ c.do = "move" =>
       /\ TransitionAllowed(s, c.to)
       /\ IF rest = <<>>
          THEN c.to = CASE verdict \in {"CONTINUE", "HUMAN_RESUME"} -> "RUNNING"
                        [] verdict = "HUMAN_BLOCK"                 -> "BLOCKED"
                        [] OTHER                                   -> "WAITING_HUMAN"
          ELSE c.to = "WAITING_HUMAN" /\ Applying(verdict, c.to, rest)
               /\ verdict \in {"HUMAN_RESUME", "HUMAN_BLOCK"}
       /\ c.to = "RUNNING" => verdict \in {"CONTINUE", "HUMAN_RESUME"} /\ rest = <<>>
  /\ c.do = "require" => c.in = s /\ rest # <<>> /\ Applying(verdict, s, rest)
  /\ c.do = "human_required" =>
       /\ rest = <<>> => verdict = "HUMAN_REQUIRED"
       /\ s = "WAITING_HUMAN" => rest = <<>> \/ Applying(verdict, s, rest)
       /\ s # "WAITING_HUMAN" => Applying(verdict, s, <<Move("WAITING_HUMAN")>> \o rest)

LEMMA ApplyingFacts ==
  ASSUME NEW verdict, NEW s \in Parked, NEW todo, Applying(verdict, s, todo),
         verdict = "CONTINUE" => s # "READY",
         NEW c, c = Head(todo), NEW rest, rest = Tail(todo)
  PROVE  todo # <<>> /\ ApplyingCall(verdict, s, c, rest)
<1>0. /\ s \in {"BLOCKED", "WAITING_HUMAN"} => TransitionAllowed(s, "RUNNING")
      /\ s \in {"BLOCKED", "READY"} => TransitionAllowed(s, "WAITING_HUMAN")
      /\ TransitionAllowed("WAITING_HUMAN", "BLOCKED")
  BY DEF TransitionAllowed, LegalTransitions
<1>1. CASE verdict = "CONTINUE" /\ todo = <<Move("RUNNING")>>
  <2>1. c = Move("RUNNING") /\ rest = <<>> /\ todo # <<>>
    BY <1>1, ShortPlans
  <2> QED BY <1>0, <1>1, <2>1, CallKinds DEF Parked, ApplyingCall
<1>2. CASE verdict = "HUMAN_REQUIRED" /\ todo = <<HumanRequired>>
  <2>1. c = HumanRequired /\ rest = <<>> /\ todo # <<>>
    BY <1>2, ShortPlans
  <2>2. s # "WAITING_HUMAN" => Applying(verdict, s, <<Move("WAITING_HUMAN")>> \o rest)
    BY <1>2, <2>1, ShortConcats DEF Applying
  <2> QED BY <1>2, <2>1, <2>2, CallKinds DEF ApplyingCall
<1>3. CASE verdict = "HUMAN_REQUIRED" /\ todo = <<Move("WAITING_HUMAN")>> /\ s # "WAITING_HUMAN"
  <2>1. c = Move("WAITING_HUMAN") /\ rest = <<>> /\ todo # <<>>
    BY <1>3, ShortPlans
  <2> QED BY <1>0, <1>3, <2>1, CallKinds DEF Parked, ApplyingCall
<1>4. ASSUME NEW to \in {"RUNNING", "BLOCKED"},
             verdict = IF to = "RUNNING" THEN "HUMAN_RESUME" ELSE "HUMAN_BLOCK"
      PROVE  /\ \A x : Applying(verdict, x, <<HumanRequired, Require("WAITING_HUMAN"), Move(to)>>)
             /\ s # "WAITING_HUMAN" =>
                  Applying(verdict, s, <<Move("WAITING_HUMAN"), Require("WAITING_HUMAN"), Move(to)>>)
             /\ Applying(verdict, "WAITING_HUMAN", <<Require("WAITING_HUMAN"), Move(to)>>)
             /\ Applying(verdict, "WAITING_HUMAN", <<Move(to)>>)
  BY <1>4 DEF Applying
<1>5. ASSUME NEW to \in {"RUNNING", "BLOCKED"},
             verdict = IF to = "RUNNING" THEN "HUMAN_RESUME" ELSE "HUMAN_BLOCK",
             todo = <<HumanRequired, Require("WAITING_HUMAN"), Move(to)>>
      PROVE  /\ todo # <<>> /\ c.do = "human_required" /\ rest # <<>>
             /\ s = "WAITING_HUMAN" => Applying(verdict, s, rest)
             /\ s # "WAITING_HUMAN" => Applying(verdict, s, <<Move("WAITING_HUMAN")>> \o rest)
  <2>1. /\ c = HumanRequired /\ rest = <<Require("WAITING_HUMAN"), Move(to)>> /\ todo # <<>>
        /\ rest # <<>>
    BY <1>5, ShortPlans
  <2>2. <<Move("WAITING_HUMAN")>> \o rest
          = <<Move("WAITING_HUMAN"), Require("WAITING_HUMAN"), Move(to)>>
    BY <2>1, ShortConcats
  <2> QED BY <1>4, <1>5, <2>1, <2>2, CallKinds
<1>6. ASSUME NEW to \in {"RUNNING", "BLOCKED"}, s # "WAITING_HUMAN",
             verdict = IF to = "RUNNING" THEN "HUMAN_RESUME" ELSE "HUMAN_BLOCK",
             todo = <<Move("WAITING_HUMAN"), Require("WAITING_HUMAN"), Move(to)>>
      PROVE  /\ todo # <<>> /\ c.do = "move" /\ c.to = "WAITING_HUMAN" /\ rest # <<>>
             /\ TransitionAllowed(s, c.to) /\ Applying(verdict, c.to, rest)
  <2>1. /\ c = Move("WAITING_HUMAN") /\ rest = <<Require("WAITING_HUMAN"), Move(to)>>
        /\ todo # <<>> /\ rest # <<>>
    BY <1>6, ShortPlans
  <2> QED BY <1>0, <1>4, <1>6, <2>1, CallKinds DEF Parked
<1>7. ASSUME NEW to \in {"RUNNING", "BLOCKED"}, s = "WAITING_HUMAN",
             verdict = IF to = "RUNNING" THEN "HUMAN_RESUME" ELSE "HUMAN_BLOCK",
             todo = <<Require("WAITING_HUMAN"), Move(to)>>
      PROVE  /\ todo # <<>> /\ c.do = "require" /\ c.in = s /\ rest # <<>>
             /\ Applying(verdict, s, rest)
  <2>1. c = Require("WAITING_HUMAN") /\ rest = <<Move(to)>> /\ todo # <<>> /\ rest # <<>>
    BY <1>7, ShortPlans
  <2> QED BY <1>4, <1>7, <2>1, CallKinds
<1>8. ASSUME NEW to \in {"RUNNING", "BLOCKED"}, s = "WAITING_HUMAN", todo = <<Move(to)>>
      PROVE  /\ todo # <<>> /\ c.do = "move" /\ c.to = to /\ rest = <<>>
             /\ TransitionAllowed(s, c.to)
  <2>1. c = Move(to) /\ rest = <<>> /\ todo # <<>>
    BY <1>8, ShortPlans
  <2> QED BY <1>0, <1>8, <2>1, CallKinds
<1>9. \/ verdict = "CONTINUE" /\ todo = <<Move("RUNNING")>>
      \/ verdict = "HUMAN_REQUIRED" /\ todo = <<HumanRequired>>
      \/ verdict = "HUMAN_REQUIRED" /\ todo = <<Move("WAITING_HUMAN")>> /\ s # "WAITING_HUMAN"
      \/ \E to \in {"RUNNING", "BLOCKED"} :
           verdict = IF to = "RUNNING" THEN "HUMAN_RESUME" ELSE "HUMAN_BLOCK"
  BY DEF Applying
<1>10. ASSUME NEW to \in {"RUNNING", "BLOCKED"},
              verdict = IF to = "RUNNING" THEN "HUMAN_RESUME" ELSE "HUMAN_BLOCK"
       PROVE  \/ todo = <<HumanRequired, Require("WAITING_HUMAN"), Move(to)>>
              \/ /\ todo = <<Move("WAITING_HUMAN"), Require("WAITING_HUMAN"), Move(to)>>
                 /\ s # "WAITING_HUMAN"
              \/ todo = <<Require("WAITING_HUMAN"), Move(to)>> /\ s = "WAITING_HUMAN"
              \/ todo = <<Move(to)>> /\ s = "WAITING_HUMAN"
  BY <1>10 DEF Applying
<1>11. CASE \E to \in {"RUNNING", "BLOCKED"} :
              verdict = IF to = "RUNNING" THEN "HUMAN_RESUME" ELSE "HUMAN_BLOCK"
  <2>1. PICK to \in {"RUNNING", "BLOCKED"} :
               verdict = IF to = "RUNNING" THEN "HUMAN_RESUME" ELSE "HUMAN_BLOCK"
    BY <1>11
  <2>2. verdict \in {"HUMAN_RESUME", "HUMAN_BLOCK"}
    BY <2>1
  <2> HIDE DEF Applying
  <2>3. CASE todo = <<HumanRequired, Require("WAITING_HUMAN"), Move(to)>>
    BY <1>5, <2>1, <2>2, <2>3 DEF ApplyingCall
  <2>4. CASE /\ todo = <<Move("WAITING_HUMAN"), Require("WAITING_HUMAN"), Move(to)>>
             /\ s # "WAITING_HUMAN"
    BY <1>6, <2>1, <2>2, <2>4 DEF ApplyingCall
  <2>5. CASE todo = <<Require("WAITING_HUMAN"), Move(to)>> /\ s = "WAITING_HUMAN"
    BY <1>7, <2>1, <2>2, <2>5 DEF ApplyingCall
  <2>6. CASE todo = <<Move(to)>> /\ s = "WAITING_HUMAN"
    BY <1>8, <2>1, <2>2, <2>6 DEF ApplyingCall
  <2> QED BY <1>10, <2>1, <2>3, <2>4, <2>5, <2>6
<1> QED BY <1>1, <1>2, <1>3, <1>9, <1>11

-----------------------------------------------------------------------------
(***************************************************************************)
(* Who is at work on what.                                                 *)
(***************************************************************************)
LEMMA NoFrameFacts ==
  /\ NoFrame.task = NoTask /\ NoFrame.todo = <<>> /\ NoFrame.request = 0
  /\ NoFrame.queue = <<>> /\ NoFrame.verdict = NoVerdict /\ NoDrive.task = NoTask
  /\ NoDrive.phase = "none" /\ Len(<<>>) = 0 /\ 1..0 = {}
<1>1. Len(<<>>) = 0 /\ 1..0 = {}
  OBVIOUS
<1> QED BY <1>1 DEF NoFrame, NoDrive

\* A process that syncs has a syncer's frame.
LEMMA FrameFacts ==
  ASSUME SInv, NEW p \in Procs
  PROVE  /\ FrameOK(p, frame[p]) /\ QueueOK(frame[p]) /\ TablesOK /\ RowsOK
         /\ frame \in [Procs -> Frame]
         /\ drive \in [Procs -> {NoDrive} \cup
                        [task : Tasks, phase : {"provider", "outcome", "gates"}]]
         /\ frame[p].request # 0 =>
              /\ p \in Syncers /\ frame[p].request \in Rows
              /\ requests[frame[p].request].task = frame[p].task
         /\ frame[p].request = 0 => frame[p].queue = <<>>
         /\ frame[p].todo = <<>> => frame[p] = NoFrame
         /\ frame[p].todo # <<>> => frame[p].task \in Tasks
<1>1. FrameOK(p, frame[p]) /\ QueueOK(frame[p]) /\ TablesOK /\ RowsOK /\ frame \in [Procs -> Frame]
  BY TypeParts DEF SInv, IInv, FramesOK
<1> QED BY <1>1 DEF FrameOK, QueueOK, TablesOK

\* A process works on one task at a time.
LEMMA OneTask ==
  ASSUME SInv, NEW p \in Procs, NEW t \in Tasks, AtWork(p, t)
  PROVE  /\ \A u \in Tasks : u # t => ~AtWork(p, u)
         /\ \A q \in Procs : q # p => ~AtWork(q, t)
         /\ TaskOK(t) /\ (Holds(p, t) => HoldOK(p, t)) /\ (Syncs(p, t) => SyncOK(p, t))
         /\ drive[p] # NoDrive => drive[p].task = t
         /\ frame[p].todo # <<>> => frame[p].task = t
<1>1. TaskOK(t) /\ (Holds(p, t) => HoldOK(p, t)) /\ (Syncs(p, t) => SyncOK(p, t))
  BY DEF SInv, TaskOK
<1>2. \A q \in Procs : q # p => ~AtWork(q, t)
  BY <1>1 DEF TaskOK
<1>3. frame[p].todo = <<>> => frame[p] = NoFrame
  BY FrameFacts
<1>4. CASE Holds(p, t)
  <2>1. /\ frame[p].request = 0 /\ (frame[p].todo # <<>> => frame[p].task = t)
        /\ drive[p] # NoDrive => drive[p].task = t
    BY <1>1, <1>4 DEF HoldOK, HeldPlan
  <2>2. drive[p].task \in {t, NoTask} /\ frame[p].task \in {t, NoTask}
    BY <1>3, <2>1, NoFrameFacts
  <2> QED BY <1>1, <1>2, <2>1, <2>2, NoTaskAssumption DEF AtWork, Holds, Syncs
<1>5. CASE Syncs(p, t)
  <2>1. drive[p] = NoDrive /\ frame[p].task = t
    BY <1>1, <1>5 DEF SyncOK, Syncs
  <2> QED BY <1>1, <1>2, <2>1, NoFrameFacts, NoTaskAssumption DEF AtWork, Holds, Syncs
<1> QED BY <1>4, <1>5 DEF AtWork

LEMMA AtWorkOnFrame ==
  ASSUME SInv, NEW p \in Procs
  PROVE  /\ frame[p].todo # <<>> =>
              /\ frame[p].task \in Tasks /\ AtWork(p, frame[p].task)
              /\ frame[p].request = 0 => Holds(p, frame[p].task)
              /\ frame[p].request # 0 => Syncs(p, frame[p].task) /\ drive[p] = NoDrive
         /\ drive[p] # NoDrive => drive[p].task \in Tasks /\ Holds(p, drive[p].task)
         /\ drive[p] = NoDrive /\ frame[p] = NoFrame => \A u \in Tasks : ~AtWork(p, u)
<1>1. frame[p].todo # <<>> => frame[p].task \in Tasks
  BY FrameFacts
<1>2. drive[p] # NoDrive => drive[p].task \in Tasks
  BY FrameFacts
<1>3. frame[p].todo # <<>> /\ frame[p].request # 0 => Syncs(p, frame[p].task) /\ drive[p] = NoDrive
  BY <1>1 DEF SInv, TaskOK, Syncs, SyncOK
<1> QED BY <1>1, <1>2, <1>3, NoFrameFacts, NoTaskAssumption DEF AtWork, Holds, Syncs

-----------------------------------------------------------------------------
(***************************************************************************)
(* The frames a step can leave.                                            *)
(***************************************************************************)
\* A sync that starts on a request.
Fresh(g) ==
  /\ g.todo = <<Consult>> /\ g.read = "none" /\ g.verdict = NoVerdict
  /\ g.request \in Rows /\ Unresolved(g.request) /\ requests[g.request].task = g.task

LEMMA VisitIsFresh ==
  ASSUME TablesOK, NEW queue \in Seq(Nat),
         \A i \in 1..Len(queue) : queue[i] \in Rows /\ Unresolved(queue[i]),
         \A i, j \in 1..Len(queue) : queue[i] = queue[j] => i = j,
         NEW g, g = Visit(queue)
  PROVE  /\ g = NoFrame \/ (Fresh(g) /\ \E i \in 1..Len(queue) : g.request = queue[i])
         /\ QueueOK(g)
         /\ \A i \in 1..Len(g.queue) : \E j \in 1..Len(queue) : g.queue[i] = queue[j]
<1>1. CASE queue = <<>>
  <2>1. g = NoFrame
    BY <1>1 DEF Visit
  <2> QED BY <2>1, NoFrameFacts DEF QueueOK
<1>2. CASE queue # <<>>
  <2> DEFINE r == Head(queue)
             rest == Tail(queue)
  <2>1. /\ r = queue[1] /\ 1 \in 1..Len(queue) /\ rest \in Seq(Nat) /\ Len(queue) \in Nat
        /\ Len(rest) = Len(queue) - 1
        /\ \A i \in 1..Len(rest) : i + 1 \in 1..Len(queue) /\ rest[i] = queue[i + 1]
    BY <1>2, TailFacts
  <2> HIDE DEF r, rest
  <2>2. g = [task |-> requests[r].task, todo |-> <<Consult>>, read |-> "none",
             request |-> r, verdict |-> NoVerdict, queue |-> rest]
    BY <1>2 DEF Visit, NoFrame, r, rest
  <2>3. /\ g.task = requests[r].task /\ g.todo = <<Consult>> /\ g.read = "none"
        /\ g.request = r /\ g.verdict = NoVerdict /\ g.queue = rest
    BY <2>2
  <2>4. Fresh(g)
    BY <2>1, <2>3 DEF Fresh
  <2>5. \A i \in 1..Len(rest) : Unresolved(rest[i]) /\ rest[i] # r
    <3> SUFFICES ASSUME NEW i \in 1..Len(rest) PROVE Unresolved(rest[i]) /\ rest[i] # r
      OBVIOUS
    <3>1. i + 1 # 1 /\ i + 1 \in 1..Len(queue) /\ rest[i] = queue[i + 1]
      BY <2>1
    <3> QED BY <2>1, <3>1
  <2>6. \A i, j \in 1..Len(rest) : rest[i] = rest[j] => i = j
    <3> SUFFICES ASSUME NEW i \in 1..Len(rest), NEW j \in 1..Len(rest), rest[i] = rest[j]
                 PROVE  i = j
      OBVIOUS
    <3>1. i + 1 = j + 1
      BY <2>1
    <3> QED BY <3>1
  <2>7. g.todo # <<>>
    BY <2>3, ShortPlans
  <2>8. QueueOK(g)
    <3> HIDE DEF Unresolved
    <3> QED BY <2>3, <2>5, <2>6, <2>7 DEF QueueOK
  <2>9. \A i \in 1..Len(g.queue) : \E j \in 1..Len(queue) : g.queue[i] = queue[j]
    BY <2>1, <2>3
  <2>10. g.request = queue[1]
    BY <2>1, <2>3
  <2> QED BY <2>1, <2>4, <2>8, <2>9, <2>10
<1> QED BY <1>1, <1>2

\* What a call in frame f leaves when it returns: of a driver's method, the rest of
\* the plan or nothing; of a sync, the rest or the next request.
Returned(g, f, rest) ==
  /\ rest # <<>> =>
       /\ g.task = f.task /\ g.request = f.request /\ g.todo = rest
       /\ g.queue = f.queue /\ g.verdict = f.verdict /\ g.read = "none"
  /\ rest = <<>> => g = Visit(f.queue)
  /\ rest = <<>> /\ f.request = 0 => g = NoFrame

LEMMA AfterCallFacts ==
  ASSUME SInv, NEW p \in Procs, frame[p].todo # <<>>,
         NEW g, g = AfterCall(frame[p]), NEW rest, rest = Tail(frame[p].todo)
  PROVE  Returned(g, frame[p], rest)
<1>1. frame[p] \in Frame /\ frame[p].todo \in Seq(Instruction)
  BY FrameFacts DEF Frame
<1>2. /\ rest \in Seq(Instruction) /\ Len(rest) = Len(frame[p].todo) - 1
      /\ Len(frame[p].todo) \in Nat \ {0}
  BY <1>1, TailFacts
<1>3. rest = <<>> <=> Len(rest) = 0
  BY <1>2, EmptySeq
<1>4. rest = <<>> <=> ~(Len(frame[p].todo) > 1)
  BY <1>2, <1>3
<1>5. rest # <<>> => g = [frame[p] EXCEPT !.todo = rest, !.read = "none"]
  BY <1>4 DEF AfterCall
<1>6. rest = <<>> => g = Visit(frame[p].queue)
  BY <1>4 DEF AfterCall
<1>7. frame[p].request = 0 => frame[p].queue = <<>>
  BY FrameFacts
<1> QED BY <1>1, <1>5, <1>6, <1>7 DEF Frame, Visit, Returned

\* The next request of a sync is about another task.
LEMMA NextVisit ==
  ASSUME SInv, NEW p \in Procs, NEW t \in Tasks, Syncs(p, t),
         NEW g, g = Visit(frame[p].queue)
  PROVE  /\ g = NoFrame \/ (Fresh(g) /\ g.task # t)
         /\ QueueOK(g) /\ frame[p].queue \in Seq(Nat)
         /\ \A i \in 1..Len(g.queue) : g.queue[i] # frame[p].request
         /\ g.request # frame[p].request
<1>1. /\ FrameOK(p, frame[p]) /\ TablesOK /\ QueueOK(frame[p])
      /\ frame[p].request \in Rows /\ requests[frame[p].request].task = t
  BY FrameFacts DEF Syncs
<1>2. /\ frame[p].queue \in Seq(Nat)
      /\ \A i \in 1..Len(frame[p].queue) :
           /\ frame[p].queue[i] \in Rows /\ Unresolved(frame[p].queue[i])
           /\ frame[p].queue[i] # frame[p].request
      /\ \A i, j \in 1..Len(frame[p].queue) : frame[p].queue[i] = frame[p].queue[j] => i = j
  BY <1>1, QueueFacts DEF QueueOK
<1>3. /\ g = NoFrame \/ (Fresh(g) /\ \E i \in 1..Len(frame[p].queue) : g.request = frame[p].queue[i])
      /\ QueueOK(g)
      /\ \A i \in 1..Len(g.queue) : \E j \in 1..Len(frame[p].queue) :
                                      g.queue[i] = frame[p].queue[j]
  <2> DEFINE queue == frame[p].queue
  <2>1. /\ queue \in Seq(Nat) /\ g = Visit(queue)
        /\ \A i \in 1..Len(queue) : queue[i] \in Rows /\ Unresolved(queue[i])
        /\ \A i, j \in 1..Len(queue) : queue[i] = queue[j] => i = j
    BY <1>2
  <2> HIDE DEF queue
  <2>2. /\ g = NoFrame \/ (Fresh(g) /\ \E i \in 1..Len(queue) : g.request = queue[i])
        /\ QueueOK(g)
        /\ \A i \in 1..Len(g.queue) : \E j \in 1..Len(queue) : g.queue[i] = queue[j]
    BY <1>1, <2>1, VisitIsFresh
  <2> QED BY <2>2 DEF queue
<1>4. ASSUME Fresh(g), g.task = t PROVE FALSE
  <2>1. /\ g.request \in Rows /\ Unresolved(g.request) /\ requests[g.request].task = t
        /\ g.request # frame[p].request
    BY <1>2, <1>3, <1>4, NoFrameFacts, NoTaskAssumption DEF Fresh
  <2>2. GatesOK(t) /\ SyncOK(p, t)
    BY DEF SInv, TaskOK
  <2>3. requests[g.request].attempt = attempts[t] /\ requests[frame[p].request].attempt = attempts[t]
    BY <2>1, <2>2 DEF GatesOK, SyncOK
  <2> QED BY <1>1, <2>1, <2>2, <2>3 DEF GatesOK
<1>5. g.request # frame[p].request
  BY <1>2, <1>3, NoFrameFacts DEF Syncs
<1> QED BY <1>2, <1>3, <1>4, <1>5

-----------------------------------------------------------------------------
(***************************************************************************)
(* What is common to all steps.                                            *)
(***************************************************************************)
\* A step of process p that changes the tables for task t only.
Touches(p, t) ==
  /\ \A q \in Procs : q # p => frame'[q] = frame[q] /\ drive'[q] = drive[q]
  /\ \A u \in Tasks : u # t => /\ state'[u] = state[u] /\ head'[u] = head[u]
                               /\ attempts'[u] = attempts[u]
  /\ Rows \subseteq Rows'
  /\ \A r \in Rows :
       /\ requests'[r].task = requests[r].task /\ requests'[r].attempt = requests[r].attempt
       /\ requests'[r].checkpoint = requests[r].checkpoint /\ requests'[r].head = requests[r].head
       /\ requests'[r].applied # requests[r].applied =>
            requests[r].task = t /\ r = frame[p].request
  /\ \A r \in Rows' : r \in Rows \/ requests'[r].task = t

\* The process is at work on t alone, before the step and after it, but for a
\* sync that turns to another request.
Elsewhere(p, t) ==
  \A u \in Tasks : u # t =>
    /\ ~AtWork(p, u) /\ ~Holds(p, u)'
    /\ Syncs(p, u)' => Fresh(frame'[p]) /\ drive'[p] = NoDrive

LEMMA ElsewhereStays ==
  ASSUME SInv, IInv', SoleSyncer, NEW p \in Procs, NEW t, Touches(p, t), Elsewhere(p, t),
         NEW u \in Tasks, u # t
  PROVE  TaskOK(u)'
<1>0. PICK g : g = frame'[p]
  OBVIOUS
<1>1. /\ ~AtWork(p, u) /\ ~Holds(p, u)' /\ (Syncs(p, u)' => Fresh(g) /\ drive'[p] = NoDrive)
      /\ state'[u] = state[u] /\ head'[u] = head[u] /\ attempts'[u] = attempts[u]
      /\ \A q \in Procs : q # p => frame'[q] = frame[q] /\ drive'[q] = drive[q]
  BY <1>0 DEF Elsewhere, Touches
<1>2. /\ \A r \in Rows' : requests'[r].task = u => r \in Rows /\ requests[r].task = u
      /\ Rows \subseteq Rows' /\ \A r \in Rows : requests'[r].task = requests[r].task
      /\ \A r \in Rows : requests[r].task = u =>
           /\ requests'[r].task = u /\ requests'[r].attempt = requests[r].attempt
           /\ requests'[r].checkpoint = requests[r].checkpoint
           /\ requests'[r].head = requests[r].head /\ requests'[r].applied = requests[r].applied
           /\ Unresolved(r)' = Unresolved(r)
  BY DEF Touches, Unresolved
<1>3. TaskOK(u) /\ GatesOK(u)
  BY DEF SInv, TaskOK
<1>4. \A q \in Procs : /\ Holds(q, u)' => q # p /\ Holds(q, u)
                       /\ q # p => (Syncs(q, u)' <=> Syncs(q, u)) /\ (Holds(q, u) <=> Holds(q, u)')
  BY <1>1 DEF Holds, Syncs
<1>5. Syncs(p, u)' => /\ g.task = u /\ g.request \in Rows /\ requests[g.request].task = u
                      /\ Unresolved(g.request) /\ p \in Syncers
  <2> SUFFICES ASSUME Syncs(p, u)' PROVE /\ g.task = u /\ g.request \in Rows
                                         /\ requests[g.request].task = u
                                         /\ Unresolved(g.request) /\ p \in Syncers
    OBVIOUS
  <2>1. Fresh(g) /\ g.task = u /\ g.request # 0
    BY <1>0, <1>1 DEF Syncs
  <2>2. p \in Syncers
    BY <1>0, <2>1 DEF IInv, FramesOK, FrameOK
  <2> QED BY <2>1, <2>2 DEF Fresh
<1>6. ASSUME NEW q \in Procs, q # p, AtWork(q, u), Syncs(p, u)' PROVE FALSE
  <2>1. CASE Holds(q, u)
    BY <1>3, <1>5, <1>6, <2>1 DEF TaskOK, HoldOK
  <2>2. CASE Syncs(q, u)
    <3>1. q \in Syncers
      BY <2>2, FrameFacts DEF Syncs
    <3> QED BY <1>5, <1>6, <3>1 DEF SoleSyncer
  <2> QED BY <1>6, <2>1, <2>2 DEF AtWork
<1>7. ASSUME NEW q1 \in Procs, NEW q2 \in Procs, AtWork(q1, u)', AtWork(q2, u)'
      PROVE  q1 = q2
  <2>1. \A q \in Procs : AtWork(q, u)' => (q # p /\ AtWork(q, u)) \/ (q = p /\ Syncs(p, u)')
    BY <1>4 DEF AtWork
  <2> QED BY <1>3, <1>6, <1>7, <2>1 DEF TaskOK
<1>8. ASSUME NEW q \in Procs, Holds(q, u)' PROVE HoldOK(q, u)'
  <2>1. q # p /\ HoldOK(q, u)
    BY <1>3, <1>4, <1>8 DEF TaskOK
  <2> QED BY <1>1, <1>2, <2>1 DEF HoldOK
<1>9. GatesOK(u)'
  <2>1. ASSUME NEW r \in Rows', requests'[r].task = u
        PROVE  /\ requests'[r].attempt <= attempts'[u] /\ requests'[r].checkpoint \in Managed
               /\ Unresolved(r)' => requests'[r].attempt = attempts'[u] /\ state'[u] \in Parked
    BY <1>1, <1>2, <1>3, <2>1 DEF GatesOK
  <2>2. ASSUME NEW r \in Rows', requests'[r].task = u, NEW q \in Rows', requests'[q].task = u,
               requests'[q].attempt = requests'[r].attempt
        PROVE  q = r
    BY <1>2, <1>3, <2>2 DEF GatesOK
  <2> QED BY <2>1, <2>2 DEF GatesOK
<1>10. ASSUME NEW q \in Procs, Syncs(q, u)' PROVE SyncOK(q, u)'
  <2>1. CASE q = p
    <3>1. Fresh(g) /\ drive'[p] = NoDrive
      BY <1>1, <1>10, <2>1
    <3>2. /\ requests'[g.request].attempt = attempts'[u] /\ state'[u] \in Parked
          /\ Unresolved(g.request)'
      <4>1. g.request \in Rows' /\ requests'[g.request].task = u /\ Unresolved(g.request)'
        BY <1>2, <1>5, <1>10, <2>1
      <4> QED BY <1>9, <4>1 DEF GatesOK
    <3>3. NoVerdict # "CONTINUE"
      BY NoVerdictAssumption DEF Verdict, TerminalVerdicts
    <3> QED BY <1>0, <2>1, <3>1, <3>2, <3>3 DEF SyncOK, Fresh
  <2>2. CASE q # p
    <3>1. SyncOK(q, u) /\ Syncs(q, u)
      BY <1>3, <1>4, <1>10, <2>2 DEF TaskOK
    <3>2. frame'[q] = frame[q] /\ drive'[q] = drive[q]
      BY <1>1, <2>2
    <3>3. frame[q].request \in Rows /\ requests[frame[q].request].task = u
      BY <3>1, FrameFacts DEF Syncs
    <3> QED BY <1>1, <1>2, <3>1, <3>2, <3>3 DEF SyncOK
  <2> QED BY <2>1, <2>2
<1>11. ASSUME EffectOK(u) PROVE EffectOK(u)'
  <2>1. ASSUME NEW r \in Rows', requests'[r].task = u, requests'[r].attempt = attempts'[u],
               ~BeingApplied(r)'
        PROVE  /\ requests'[r].applied \in {"CONTINUE", "HUMAN_RESUME"} => state'[u] = "RUNNING"
               /\ requests'[r].applied = "HUMAN_BLOCK" => state'[u] = "BLOCKED"
    <3>1. r \in Rows /\ requests[r].task = u /\ requests[r].attempt = attempts[u]
          /\ requests'[r].applied = requests[r].applied
      BY <1>1, <1>2, <2>1
    <3>2. ~BeingApplied(r)
      <4> SUFFICES ASSUME NEW q \in Syncers, frame[q].request = r PROVE FALSE
        BY DEF BeingApplied
      <4>1. q # p
        <5>1. r # 0
          BY <3>1, FrameFacts, RowFacts
        <5> QED BY <1>1, <3>1, <5>1, FrameFacts DEF AtWork, Syncs
      <4>2. frame'[q].request = r
        BY <1>1, <4>1 DEF Procs
      <4> QED BY <2>1, <4>2 DEF BeingApplied
    <3> QED BY <1>1, <1>11, <3>1, <3>2 DEF EffectOK
  <2>2. ASSUME state'[u] = "READY"
        PROVE  MergeGate(u)' # {} \/ \E q \in Procs : Holds(q, u)'
    <3>1. CASE MergeGate(u) # {}
      <4>1. PICK r \in Rows : /\ requests[r].task = u /\ requests[r].checkpoint = "candidate_ready"
                              /\ requests[r].attempt = attempts[u] /\ requests[r].head = head[u]
        BY <3>1 DEF MergeGate, RequestsOf, Rows
      <4>2. /\ requests'[r].task = u /\ requests'[r].checkpoint = "candidate_ready"
            /\ requests'[r].attempt = attempts'[u] /\ requests'[r].head = head'[u] /\ r \in Rows'
        BY <1>1, <1>2, <4>1
      <4> QED BY <4>2 DEF MergeGate, RequestsOf, Rows
    <3>2. CASE \E q \in Procs : Holds(q, u)
      BY <1>1, <1>4, <3>2 DEF AtWork
    <3> QED BY <1>1, <1>11, <2>2, <3>1, <3>2 DEF EffectOK
  <2> QED BY <2>1, <2>2 DEF EffectOK
<1> QED BY <1>3, <1>7, <1>8, <1>9, <1>10, <1>11 DEF TaskOK

\* Nobody else settles a request that a sync has still to visit.
LEMMA StepKeepsSInv ==
  ASSUME SInv, IInv', SoleSyncer, NEW p \in Procs, NEW t, Touches(p, t), Elsewhere(p, t),
         t \in Tasks => TaskOK(t)', QueueOK(frame[p])'
  PROVE  SInv'
<1>1. \A u \in Tasks : TaskOK(u)'
  BY ElsewhereStays
<1>2. ASSUME NEW q \in Procs, q # p PROVE QueueOK(frame[q])'
  <2>1. /\ frame'[q] = frame[q] /\ QueueOK(frame[q]) /\ FrameOK(q, frame[q])
        /\ frame[q].queue # <<>> => q \in Syncers
        /\ \A i \in 1..Len(frame[q].queue) : frame[q].queue[i] \in Rows
    BY <1>2, FrameFacts, QueueFacts DEF Touches
  <2>2. ASSUME NEW i \in 1..Len(frame[q].queue)
        PROVE  Unresolved(frame[q].queue[i])'
    <3>1. frame[q].queue # <<>>
      BY <2>2, NoFrameFacts
    <3>2. frame[p].request = 0
      BY <1>2, <2>1, <3>1, FrameFacts DEF SoleSyncer
    <3>3. frame[q].queue[i] \in Rows /\ frame[q].queue[i] # 0
      BY <2>1, FrameFacts, RowFacts
    <3>4. requests'[frame[q].queue[i]].applied = requests[frame[q].queue[i]].applied
      BY <3>2, <3>3 DEF Touches
    <3>5. Unresolved(frame[q].queue[i])
      BY <2>1 DEF QueueOK
    <3> QED BY <2>1, <3>4, <3>5 DEF Unresolved
  <2> QED BY <2>1, <2>2 DEF QueueOK
<1> QED BY <1>1, <1>2 DEF SInv

\* A step by which a process holds t on, or lets go of it.
LEMMA HolderStep ==
  ASSUME SInv, IInv', SoleSyncer, NEW p \in Procs, NEW t \in Tasks,
         \A q \in Procs : q # p => ~AtWork(q, t),
         \A u \in Tasks : u # t => ~AtWork(p, u),
         NEW g, frame' = [frame EXCEPT ![p] = g], NEW d, drive' = [drive EXCEPT ![p] = d],
         g.request = 0, g.queue = <<>>, g.todo # <<>> => g.task = t,
         g.todo = <<>> => g = NoFrame, d = NoDrive \/ d.task = t,
         Touches(p, t), GatesOK(t)', ~Crashes /\ ~Faults => EffectOK(t)',
         \/ d = NoDrive /\ g = NoFrame
         \/ /\ p \in Drivers /\ HeldPlan(d, t, state'[t], head'[t], attempts'[t], g.todo)
            /\ \A r \in Rows' : requests'[r].task = t =>
                 /\ ~Unresolved(r)'
                 /\ requests'[r].attempt = attempts'[t] => d.phase = "provider"
  PROVE  SInv'
<1>1. frame'[p] = g /\ drive'[p] = d
  BY FrameFacts
<1>2. g.task \in {t, NoTask} /\ d.task \in {t, NoTask}
  BY NoFrameFacts
<1>3. Elsewhere(p, t)
  BY <1>1, <1>2, NoTaskAssumption DEF Elsewhere, Holds, Syncs
<1>4. QueueOK(frame[p])'
  BY <1>1, NoFrameFacts DEF QueueOK
<1>5. TaskOK(t)'
  <2>1. \A q \in Procs : q # p => ~AtWork(q, t)'
    BY DEF Touches, AtWork, Holds, Syncs
  <2>2. ~Syncs(p, t)'
    BY <1>1 DEF Syncs
  <2>3. ASSUME Holds(p, t)' PROVE HoldOK(p, t)'
    <3>1. ~(d = NoDrive /\ g = NoFrame)
      BY <1>1, <2>3, NoFrameFacts, NoTaskAssumption DEF Holds
    <3> QED BY <1>1, <3>1 DEF HoldOK
  <2>4. \A q1, q2 \in Procs : AtWork(q1, t)' /\ AtWork(q2, t)' => q1 = q2
    BY <2>1
  <2>5. \A q \in Procs : (Holds(q, t)' => HoldOK(q, t)') /\ (Syncs(q, t)' => SyncOK(q, t)')
    BY <2>1, <2>2, <2>3 DEF AtWork
  <2> QED BY <2>4, <2>5 DEF TaskOK
<1> QED BY <1>3, <1>4, <1>5, StepKeepsSInv

\* A step by which a sync goes on with its request, or turns to another one.
LEMMA SyncerStep ==
  ASSUME SInv, IInv', SoleSyncer, NEW p \in Procs, NEW t \in Tasks, Syncs(p, t),
         NEW g, frame' = [frame EXCEPT ![p] = g], drive' = drive,
         Touches(p, t), GatesOK(t)', ~Crashes /\ ~Faults => EffectOK(t)',
         \/ g = NoFrame \/ g = Visit(frame[p].queue)
         \/ /\ g.task = t /\ g.request = frame[p].request /\ g.queue = frame[p].queue
            /\ g.todo # <<>> /\ SyncOK(p, t)'
  PROVE  SInv'
<1>1. frame'[p] = g /\ drive'[p] = NoDrive /\ drive[p] = NoDrive
  BY FrameFacts, OneTask DEF AtWork, SyncOK
<1>2. /\ \A q \in Procs : q # p => ~AtWork(q, t)
      /\ \A u \in Tasks : u # t => ~AtWork(p, u)
  BY OneTask DEF AtWork
<1>3. g = NoFrame \/ (Fresh(g) /\ g.task # t) \/ (g.task = t /\ g.request # 0 /\ SyncOK(p, t)')
  BY NextVisit DEF Syncs
<1>4. Fresh(g) => g.request # 0 /\ g.todo # <<>>
  BY FrameFacts, RowFacts, ShortPlans DEF Fresh
<1>5. \A u \in Tasks : ~Holds(p, u)' /\ (Syncs(p, u)' /\ u # t => Fresh(g))
  BY <1>1, <1>3, <1>4, NoFrameFacts, NoTaskAssumption DEF Holds, Syncs
<1>6. Elsewhere(p, t)
  BY <1>1, <1>2, <1>5 DEF Elsewhere
<1>7. QueueOK(frame[p])'
  <2>1. \A r \in Rows : r # frame[p].request => (Unresolved(r)' <=> Unresolved(r))
    BY DEF Touches, Unresolved
  <2>2. QueueOK(g) /\ \A i \in 1..Len(g.queue) : g.queue[i] # frame[p].request /\ g.queue[i] \in Rows
    <3>1. CASE g = NoFrame
      BY <3>1, NoFrameFacts DEF QueueOK
    <3>2. CASE g = Visit(frame[p].queue) /\ g # NoFrame
      <4>1. /\ frame[p].queue \in Seq(Nat)
            /\ \A i \in 1..Len(frame[p].queue) : frame[p].queue[i] \in Rows
        BY FrameFacts, QueueFacts
      <4>2. QueueOK(g) /\ \A i \in 1..Len(g.queue) : g.queue[i] # frame[p].request
        BY <3>2, NextVisit
      <4>3. \A i \in 1..Len(g.queue) : g.queue[i] \in Rows
        <5>1. FrameOK(p, Visit(frame[p].queue))
          BY <4>1, FrameFacts, VisitOK DEF Syncs
        <5> QED BY <3>2, <5>1, QueueFacts
      <4> QED BY <4>2, <4>3
    <3>3. CASE /\ g.request = frame[p].request /\ g.queue = frame[p].queue /\ g.todo # <<>>
      <4>1. QueueOK(frame[p])
        BY FrameFacts
      <4>2. QueueOK(g) /\ \A i \in 1..Len(g.queue) : g.queue[i] # frame[p].request
        BY <3>3, <4>1 DEF QueueOK
      <4>3. \A i \in 1..Len(frame[p].queue) : frame[p].queue[i] \in Rows
        BY FrameFacts, QueueFacts
      <4> QED BY <3>3, <4>2, <4>3
    <3> QED BY <3>1, <3>2, <3>3
  <2> QED BY <1>1, <2>1, <2>2 DEF QueueOK
<1>8. TaskOK(t)'
  <2>1. \A q \in Procs : q # p => ~AtWork(q, t)'
    BY <1>2 DEF Touches, AtWork, Holds, Syncs
  <2>2. ASSUME Syncs(p, t)' PROVE SyncOK(p, t)'
    BY <1>1, <1>3, <2>2, NoFrameFacts DEF Syncs
  <2>3. \A q1, q2 \in Procs : AtWork(q1, t)' /\ AtWork(q2, t)' => q1 = q2
    BY <2>1
  <2>4. \A q \in Procs : (Holds(q, t)' => HoldOK(q, t)') /\ (Syncs(q, t)' => SyncOK(q, t)')
    BY <1>5, <2>1, <2>2 DEF AtWork
  <2> QED BY <2>3, <2>4 DEF TaskOK
<1> QED BY <1>6, <1>7, <1>8, StepKeepsSInv

\* What a process that holds a task may rely on.
LEMMA HolderFacts ==
  ASSUME SInv, NEW p \in Procs, NEW t \in Tasks, Holds(p, t)
  PROVE  /\ HoldOK(p, t) /\ p \in Drivers /\ frame[p].request = 0 /\ frame[p].queue = <<>>
         /\ frame[p].todo # <<>> => frame[p].task = t
         /\ \A q \in Procs : q # p => ~AtWork(q, t)
         /\ \A u \in Tasks : u # t => ~AtWork(p, u)
         /\ drive[p] = NoDrive \/ drive[p].task = t
         /\ \A r \in Rows : requests[r].task = t =>
              /\ ~Unresolved(r) /\ ~BeingApplied(r) /\ requests[r].attempt <= attempts[t]
              /\ requests[r].attempt = attempts[t] => drive[p].phase = "provider"
<1>1. /\ TaskOK(t) /\ HoldOK(p, t)
      /\ \A q \in Procs : q # p => ~AtWork(q, t)
      /\ \A u \in Tasks : u # t => ~AtWork(p, u)
  BY OneTask DEF AtWork
<1>2. /\ p \in Drivers /\ frame[p].request = 0 /\ (frame[p].todo # <<>> => frame[p].task = t)
      /\ drive[p] = NoDrive \/ drive[p].task = t
  BY <1>1 DEF HoldOK, HeldPlan
<1>3. ASSUME NEW r \in Rows, requests[r].task = t, NEW q \in Syncers, frame[q].request = r
      PROVE  FALSE
  <2>1. r # 0
    BY FrameFacts, RowFacts
  <2>2. Syncs(q, t)
    BY <1>3, <2>1, FrameFacts DEF Syncs, Procs
  <2> QED BY <1>1, <1>2, <2>1, <2>2, <1>3 DEF AtWork, Procs
<1>4. \A r \in Rows : requests[r].task = t =>
        /\ ~Unresolved(r) /\ requests[r].attempt <= attempts[t]
        /\ requests[r].attempt = attempts[t] => drive[p].phase = "provider"
  BY <1>1 DEF HoldOK, TaskOK, GatesOK
<1> QED BY <1>1, <1>2, <1>3, <1>4, FrameFacts DEF BeingApplied

\* What the next call c of a method that a driver called is, and what it leaves.
HeldCall(d, t, s, h, n, c, rest) ==
  /\ c.do \in {"move", "require", "set_head", "open", "insert"}
  /\ c.do = "move" =>
       /\ s \notin Parked /\ c.to # s
       /\ IF d = NoDrive /\ rest = <<>> THEN c.to # "READY"
                                       ELSE HeldPlan(d, t, c.to, h, n, rest)
       /\ d # NoDrive /\ d.phase = "provider" => s \in {"PENDING", "VERIFYING"}
       /\ c.to = "RUNNING" => d # NoDrive
  /\ c.do = "require" => rest # <<>> /\ HeldPlan(d, t, s, h, n, rest)
  /\ c.do = "set_head" => rest # <<>> /\ \A x : HeldPlan(d, t, s, x, n, rest)
  /\ c.do = "open" =>
       /\ d = NoDrive /\ rest = <<>> /\ c.checkpoint \in Managed
       /\ s = Stage(c.checkpoint)
       /\ HeldPlan(d, t, s, h, n, <<Insert(Row(t, c.checkpoint, h, n))>>)
  /\ c.do = "insert" =>
       /\ d = NoDrive /\ rest = <<>>
       /\ \E cp \in Managed : s = Stage(cp) /\ c.row = Row(t, cp, h, n)

LEMMA HolderCall ==
  ASSUME SInv, NEW p \in Procs, frame[p].todo # <<>>, frame[p].request = 0,
         NEW t, t = frame[p].task, NEW d, d = drive[p], NEW c, c = Arg(p),
         NEW rest, rest = Tail(frame[p].todo),
         NEW s, s = state[t], NEW h, h = head[t], NEW n, n = attempts[t]
  PROVE  /\ t \in Tasks /\ Holds(p, t)
         /\ HeldPlan(d, t, s, h, n, frame[p].todo) /\ HeldCall(d, t, s, h, n, c, rest)
<1>0. PICK todo : todo = frame[p].todo
  OBVIOUS
<1>1. t \in Tasks /\ Holds(p, t) /\ HoldOK(p, t)
  BY AtWorkOnFrame, OneTask DEF AtWork
<1>2. HeldPlan(d, t, s, h, n, todo) /\ c = Head(todo) /\ rest = Tail(todo) /\ todo # <<>>
  BY <1>0, <1>1 DEF HoldOK, Arg
<1>3. CASE d = NoDrive
  <2>1. Ending(t, s, h, n, todo)
    BY <1>2, <1>3 DEF HeldPlan
  <2>2. EndingCall(t, s, h, n, c, rest)
    BY <1>2, <2>1, EndingFacts
  <2>3. \A x, y, plan : HeldPlan(d, t, x, y, n, plan) <=> Ending(t, x, y, n, plan)
    BY <1>3 DEF HeldPlan
  <2> HIDE DEF HeldPlan, Ending
  <2> QED BY <1>0, <1>1, <1>2, <1>3, <2>2, <2>3 DEF Parked, EndingCall, HeldCall
<1>4. CASE d # NoDrive
  <2>1. d.task = t /\ Driving(d.phase, s, todo)
    BY <1>2, <1>4 DEF HeldPlan
  <2>2. DrivingCall(d.phase, s, c, rest)
    BY <1>2, <2>1, DrivingFacts
  <2>3. \A x, y, plan : HeldPlan(d, t, x, y, n, plan) <=> Driving(d.phase, x, plan)
    BY <1>4, <2>1 DEF HeldPlan
  <2> HIDE DEF HeldPlan, Driving
  <2> QED BY <1>0, <1>1, <1>2, <1>4, <2>2, <2>3 DEF Parked, DrivingCall, HeldCall
<1> QED BY <1>3, <1>4

-----------------------------------------------------------------------------
(***************************************************************************)
(* The steps of a process that holds a task.                               *)
(***************************************************************************)
\* A step that changes no request keeps the gates of a task whose state changes
\* only when none is open.
LEMMA GatesStay ==
  ASSUME SInv, NEW t \in Tasks, requests' = requests,
         \/ \A r \in Rows : requests[r].task = t => ~Unresolved(r)
         \/ attempts'[t] = attempts[t] /\ (state'[t] = state[t] \/ state'[t] \in Parked),
         attempts[t] \in Nat, attempts'[t] \in Nat, attempts[t] <= attempts'[t]
  PROVE  GatesOK(t)'
<1>1. GatesOK(t) /\ TablesOK
  BY TypeParts DEF SInv, TaskOK, IInv
<1>2. Rows' = Rows /\ \A r \in Rows : Unresolved(r)' = Unresolved(r)
  BY DEF Rows, Unresolved
<1>3. \A r \in Rows : requests[r].attempt \in Nat
  BY <1>1, RowFacts, ConfigAssumption DEF Request
<1> QED BY <1>1, <1>2, <1>3 DEF GatesOK

\* A process that holds t leaves its verdicts as they took effect.
LEMMA HolderEffect ==
  ASSUME SInv, NEW p \in Procs, NEW t \in Tasks, Holds(p, t), requests' = requests,
         \A r \in Rows : requests[r].task = t /\ requests[r].attempt = attempts'[t] =>
           /\ requests[r].attempt = attempts[t]
           /\ state'[t] = state[t] \/ state[t] \notin {"RUNNING", "BLOCKED"},
         ~Faults /\ state'[t] = "READY" => MergeGate(t)' # {} \/ \E q \in Procs : Holds(q, t)'
  PROVE  ~Crashes /\ ~Faults => EffectOK(t)'
<1> SUFFICES ASSUME ~Crashes, ~Faults PROVE EffectOK(t)'
  OBVIOUS
<1>1. EffectOK(t) /\ Rows' = Rows
  BY DEF SInv, TaskOK, Rows
<1>2. ASSUME NEW r \in Rows, requests[r].task = t, requests[r].attempt = attempts'[t]
      PROVE  /\ requests[r].applied \in {"CONTINUE", "HUMAN_RESUME"} => state'[t] = "RUNNING"
             /\ requests[r].applied = "HUMAN_BLOCK" => state'[t] = "BLOCKED"
  <2>1. requests[r].attempt = attempts[t] /\ ~Unresolved(r) /\ ~BeingApplied(r)
    BY <1>2, HolderFacts
  <2>2. /\ requests[r].applied \in {"CONTINUE", "HUMAN_RESUME"} => state[t] = "RUNNING"
        /\ requests[r].applied = "HUMAN_BLOCK" => state[t] = "BLOCKED"
    BY <1>1, <1>2, <2>1 DEF EffectOK
  <2>3. requests[r].applied \in {"CONTINUE", "HUMAN_RESUME", "HUMAN_BLOCK"}
    BY <2>1 DEF Unresolved, TerminalVerdicts
  <2> QED BY <1>2, <2>2, <2>3
<1>3. state'[t] = "READY" => MergeGate(t)' # {} \/ \E q \in Procs : Holds(q, t)'
  OBVIOUS
<1> HIDE DEF MergeGate, Holds
<1> QED BY <1>1, <1>2, <1>3 DEF EffectOK

\* A step of a method that a driver called, which leaves requests and attempts,
\* and the frame g for the rest of the method.
CallTo(p, t, g) ==
  /\ drive' = drive /\ requests' = requests /\ attempts' = attempts
  /\ \A u \in Tasks : u # t => state'[u] = state[u] /\ head'[u] = head[u]
  /\ g.request = 0 /\ g.queue = <<>> /\ (g.todo # <<>> => g.task = t)
  /\ g.todo = <<>> => g = NoFrame
  /\ drive[p] = NoDrive /\ g = NoFrame /\ ~Faults /\ state'[t] = "READY" => MergeGate(t)' # {}
  /\ \/ state'[t] = state[t]
     \/ drive[p].phase = "provider" => state[t] \in {"PENDING", "VERIFYING"}
  /\ \/ drive[p] = NoDrive /\ g = NoFrame
     \/ HeldPlan(drive[p], t, state'[t], head'[t], attempts[t], g.todo)

LEMMA CallStep ==
  ASSUME SInv, IInv', SoleSyncer, NEW p \in Procs, NEW t \in Tasks, Holds(p, t),
         NEW g, frame' = [frame EXCEPT ![p] = g], CallTo(p, t, g)
  PROVE  SInv'
<1>0. /\ drive' = drive /\ requests' = requests /\ attempts' = attempts
      /\ \A u \in Tasks : u # t => state'[u] = state[u] /\ head'[u] = head[u]
      /\ g.request = 0 /\ g.queue = <<>> /\ (g.todo # <<>> => g.task = t)
      /\ g.todo = <<>> => g = NoFrame
      /\ drive[p] = NoDrive /\ g = NoFrame /\ ~Faults /\ state'[t] = "READY" =>
           MergeGate(t)' # {}
      /\ \/ state'[t] = state[t]
         \/ drive[p].phase = "provider" => state[t] \in {"PENDING", "VERIFYING"}
      /\ \/ drive[p] = NoDrive /\ g = NoFrame
         \/ HeldPlan(drive[p], t, state'[t], head'[t], attempts[t], g.todo)
  BY DEF CallTo
<1>1. /\ \A q \in Procs : q # p => ~AtWork(q, t)
      /\ \A u \in Tasks : u # t => ~AtWork(p, u)
      /\ drive[p] = NoDrive \/ drive[p].task = t
      /\ p \in Drivers
      /\ \A r \in Rows : requests[r].task = t =>
           /\ ~Unresolved(r) /\ (requests[r].attempt = attempts[t] => drive[p].phase = "provider")
  BY HolderFacts
<1>2. TablesOK /\ frame'[p] = g
  BY FrameFacts
<1>3. PICK d : d = drive[p]
  OBVIOUS
<1>4. drive' = [drive EXCEPT ![p] = d]
  BY <1>0, <1>2, <1>3 DEF TablesOK
<1>5. Touches(p, t)
  <2>1. Rows' = Rows
    BY <1>0 DEF Rows
  <2>2. \A q \in Procs : q # p => frame'[q] = frame[q] /\ drive'[q] = drive[q]
    BY <1>0, FrameFacts
  <2> QED BY <1>0, <2>1, <2>2 DEF Touches
<1>6. attempts[t] \in Nat
  BY <1>2, ConfigAssumption DEF TablesOK
<1>7. GatesOK(t)'
  BY <1>0, <1>1, <1>6, GatesStay
<1>8. ~(drive[p] = NoDrive /\ g = NoFrame) => Holds(p, t)'
  BY <1>0, <1>1, <1>2, NoFrameFacts DEF Holds
<1>9. ~Crashes /\ ~Faults => EffectOK(t)'
  <2>1. ~Faults /\ state'[t] = "READY" => MergeGate(t)' # {} \/ \E q \in Procs : Holds(q, t)'
    BY <1>0, <1>8
  <2>2. \A r \in Rows : requests[r].task = t /\ requests[r].attempt = attempts'[t] =>
           /\ requests[r].attempt = attempts[t]
           /\ state'[t] = state[t] \/ state[t] \notin {"RUNNING", "BLOCKED"}
    BY <1>0, <1>1
  <2> QED BY <1>0, <2>1, <2>2, HolderEffect
<1>10. \/ d = NoDrive /\ g = NoFrame
       \/ /\ p \in Drivers /\ HeldPlan(d, t, state'[t], head'[t], attempts'[t], g.todo)
          /\ \A r \in Rows' : requests'[r].task = t =>
               /\ ~Unresolved(r)'
               /\ requests'[r].attempt = attempts'[t] => d.phase = "provider"
  <2>1. \A r \in Rows' : requests'[r].task = t =>
               /\ ~Unresolved(r)'
               /\ requests'[r].attempt = attempts'[t] => d.phase = "provider"
    BY <1>0, <1>1, <1>3 DEF Rows, Unresolved
  <2> QED BY <1>0, <1>1, <1>3, <2>1
<1>11. d = NoDrive \/ d.task = t
  BY <1>1, <1>3
<1> QED BY <1>0, <1>1, <1>4, <1>5, <1>7, <1>9, <1>10, <1>11, HolderStep

\* What a call of such a method leaves when it returns.
ReturnedTo(g, t, rest) ==
  /\ g.request = 0 /\ g.queue = <<>> /\ (g.todo # <<>> => g.task = t)
  /\ (g.todo = <<>> => g = NoFrame) /\ g.todo = rest /\ (g = NoFrame => rest = <<>>)
LEMMA HeldReturn ==
  ASSUME SInv, NEW p \in Procs, frame[p].todo # <<>>, frame[p].request = 0
  PROVE  ReturnedTo(AfterCall(frame[p]), frame[p].task, Tail(frame[p].todo))
<1>1. PICK g, rest : g = AfterCall(frame[p]) /\ rest = Tail(frame[p].todo)
  OBVIOUS
<1>2. Returned(g, frame[p], rest)
  BY <1>1, AfterCallFacts
<1>3. ReturnedTo(g, frame[p].task, rest)
  BY <1>2, FrameFacts, NoFrameFacts DEF Returned, ReturnedTo
<1> QED BY <1>1, <1>3

\* The calls of a method that a driver called.
LEMMA MoveReadHeld ==
  ASSUME SInv, IInv', SoleSyncer, NEW p \in Procs, MoveRead(p), frame[p].request = 0
  PROVE  SInv'
<1>1. PICK g : g = [frame[p] EXCEPT !.read = state[frame[p].task]]
  OBVIOUS
<1>2. PICK t, d, c, rest, s, h, n :
        /\ t = frame[p].task /\ d = drive[p] /\ c = Arg(p) /\ rest = Tail(frame[p].todo)
        /\ s = state[t] /\ h = head[t] /\ n = attempts[t]
  OBVIOUS
<1>3. /\ frame' = [frame EXCEPT ![p] = g] /\ frame[p].todo # <<>>
      /\ state' = state /\ head' = head /\ attempts' = attempts /\ requests' = requests
      /\ drive' = drive
  BY <1>1, FrameFacts DEF MoveRead, Doing, database
<1>4. g.request = 0 /\ g.queue = <<>> /\ g.task = t /\ g.todo = frame[p].todo
  BY <1>1, <1>2, FrameFacts DEF Frame
<1>5. t \in Tasks /\ Holds(p, t) /\ HeldPlan(d, t, s, h, n, frame[p].todo)
  BY <1>2, <1>3, HolderCall
<1>6. g # NoFrame /\ g.todo # <<>>
  BY <1>3, <1>4, NoFrameFacts
<1>7. CallTo(p, t, g)
  BY <1>2, <1>3, <1>4, <1>5, <1>6 DEF CallTo
<1> QED BY <1>3, <1>5, <1>7, CallStep

LEMMA MoveCommitHeld ==
  ASSUME SInv, IInv', SoleSyncer, NEW p \in Procs, MoveCommit(p), frame[p].request = 0
  PROVE  SInv'
<1>1. PICK g : g = AfterCall(frame[p])
  OBVIOUS
<1>2. PICK t, d, c, rest, s, h, n :
        /\ t = frame[p].task /\ d = drive[p] /\ c = Arg(p) /\ rest = Tail(frame[p].todo)
        /\ s = state[t] /\ h = head[t] /\ n = attempts[t]
  OBVIOUS
<1>3. /\ frame' = [frame EXCEPT ![p] = g] /\ frame[p].todo # <<>> /\ c.do = "move"
      /\ state' = [state EXCEPT ![t] = c.to] /\ head' = head /\ attempts' = attempts
      /\ requests' = requests /\ drive' = drive
  BY <1>1, <1>2 DEF MoveCommit, Doing, Ledger!Move, Returns, Arg
<1>4. /\ t \in Tasks /\ Holds(p, t) /\ HeldCall(d, t, s, h, n, c, rest)
  BY <1>2, <1>3, HolderCall
<1>6. /\ state'[t] = c.to /\ (\A u \in Tasks : u # t => state'[u] = state[u])
  BY <1>3, <1>4, FrameFacts DEF TablesOK
<1>7. /\ g.request = 0 /\ g.queue = <<>> /\ (g.todo # <<>> => g.task = t)
      /\ (g.todo = <<>> => g = NoFrame) /\ g.todo = rest /\ (g = NoFrame => rest = <<>>)
  <2>1. ReturnedTo(AfterCall(frame[p]), frame[p].task, Tail(frame[p].todo))
    BY <1>3, HeldReturn
  <2>2. ReturnedTo(g, t, rest)
    BY <1>1, <1>2, <2>1
  <2> QED BY <2>2 DEF ReturnedTo
<1>8. /\ d = NoDrive /\ g = NoFrame => c.to # "READY"
      /\ d.phase = "provider" => s \in {"PENDING", "VERIFYING"}
      /\ (d = NoDrive /\ g = NoFrame) \/ HeldPlan(d, t, c.to, h, n, g.todo)
  BY <1>3, <1>4, <1>7, NoFrameFacts DEF HeldCall
<1>9. CallTo(p, t, g)
  BY <1>2, <1>3, <1>4, <1>6, <1>7, <1>8 DEF CallTo
<1> QED BY <1>3, <1>4, <1>9, CallStep

LEMMA RequireReadHeld ==
  ASSUME SInv, IInv', SoleSyncer, NEW p \in Procs, RequireRead(p), frame[p].request = 0
  PROVE  SInv'
<1>1. PICK g : g = AfterCall(frame[p])
  OBVIOUS
<1>2. PICK t, d, c, rest, s, h, n :
        /\ t = frame[p].task /\ d = drive[p] /\ c = Arg(p) /\ rest = Tail(frame[p].todo)
        /\ s = state[t] /\ h = head[t] /\ n = attempts[t]
  OBVIOUS
<1>3. /\ frame' = [frame EXCEPT ![p] = g] /\ frame[p].todo # <<>> /\ c.do = "require"
      /\ state' = state /\ head' = head /\ attempts' = attempts
      /\ requests' = requests /\ drive' = drive
  BY <1>1, <1>2 DEF RequireRead, Doing, Returns, Arg, database
<1>4. /\ t \in Tasks /\ Holds(p, t) /\ HeldCall(d, t, s, h, n, c, rest)
  BY <1>2, <1>3, HolderCall
<1>5. /\ rest # <<>> /\ HeldPlan(d, t, s, h, n, rest)
  BY <1>3, <1>4 DEF HeldCall
<1>6. /\ g.request = 0 /\ g.queue = <<>> /\ (g.todo # <<>> => g.task = t)
      /\ (g.todo = <<>> => g = NoFrame) /\ g.todo = rest /\ (g = NoFrame => rest = <<>>)
  <2>1. ReturnedTo(AfterCall(frame[p]), frame[p].task, Tail(frame[p].todo))
    BY <1>3, HeldReturn
  <2>2. ReturnedTo(g, t, rest)
    BY <1>1, <1>2, <2>1
  <2> QED BY <2>2 DEF ReturnedTo
<1>7. CallTo(p, t, g)
  BY <1>2, <1>3, <1>4, <1>5, <1>6 DEF CallTo
<1> QED BY <1>3, <1>4, <1>7, CallStep

LEMMA SetHeadCommitHeld ==
  ASSUME SInv, IInv', SoleSyncer, NEW p \in Procs, SetHeadCommit(p), frame[p].request = 0
  PROVE  SInv'
<1>1. PICK g : g = AfterCall(frame[p])
  OBVIOUS
<1>2. PICK t, d, c, rest, s, h, n :
        /\ t = frame[p].task /\ d = drive[p] /\ c = Arg(p) /\ rest = Tail(frame[p].todo)
        /\ s = state[t] /\ h = head[t] /\ n = attempts[t]
  OBVIOUS
<1>3. /\ frame' = [frame EXCEPT ![p] = g] /\ frame[p].todo # <<>> /\ c.do = "set_head"
      /\ state' = state /\ head' = [head EXCEPT ![t] = c.head] /\ attempts' = attempts
      /\ requests' = requests /\ drive' = drive
  BY <1>1, <1>2 DEF SetHeadCommit, Doing, Returns, Arg, Ledger!SetHead
<1>4. /\ t \in Tasks /\ Holds(p, t) /\ HeldCall(d, t, s, h, n, c, rest)
  BY <1>2, <1>3, HolderCall
<1>5. rest # <<>> /\ HeldPlan(d, t, s, head'[t], n, rest)
  BY <1>3, <1>4 DEF HeldCall
<1>6. /\ g.request = 0 /\ g.queue = <<>> /\ (g.todo # <<>> => g.task = t)
      /\ (g.todo = <<>> => g = NoFrame) /\ g.todo = rest /\ (g = NoFrame => rest = <<>>)
  <2>1. ReturnedTo(AfterCall(frame[p]), frame[p].task, Tail(frame[p].todo))
    BY <1>3, HeldReturn
  <2>2. ReturnedTo(g, t, rest)
    BY <1>1, <1>2, <2>1
  <2> QED BY <2>2 DEF ReturnedTo
<1>7. \A u \in Tasks : u # t => state'[u] = state[u] /\ head'[u] = head[u]
  BY <1>3, FrameFacts DEF TablesOK
<1>8. CallTo(p, t, g)
  BY <1>2, <1>3, <1>4, <1>5, <1>6, <1>7 DEF CallTo
<1> QED BY <1>3, <1>4, <1>8, CallStep

\* A checkpoint the manager opens has no row yet: it is the first of its attempt.
LEMMA NoSuchRow ==
  ASSUME SInv, NEW p \in Procs, NEW t \in Tasks, Holds(p, t), drive[p] = NoDrive,
         NEW cp, NEW row, row = Row(t, cp, head[t], attempts[t])
  PROVE  ~Exists(row)
<1> SUFFICES ASSUME NEW r \in Rows, SameId(requests[r], row) PROVE FALSE
  BY DEF Exists, Rows
<1>1. requests[r] \in Request
  BY FrameFacts, RowFacts
<1>2. requests[r].task = t /\ requests[r].attempt = attempts[t]
  <2>1. row.task = t /\ row.attempt = attempts[t]
    BY DEF Row
  <2> QED BY <1>1, <2>1 DEF SameId, Request
<1>3. drive[p].phase = "provider"
  BY <1>2, HolderFacts
<1> QED BY <1>3, NoFrameFacts

LEMMA OpenReadHeld ==
  ASSUME SInv, IInv', SoleSyncer, NEW p \in Procs, OpenRead(p), frame[p].request = 0
  PROVE  SInv'
<1>1. PICK t, d, c, rest, s, h, n :
        /\ t = frame[p].task /\ d = drive[p] /\ c = Arg(p) /\ rest = Tail(frame[p].todo)
        /\ s = state[t] /\ h = head[t] /\ n = attempts[t]
  OBVIOUS
<1>2. PICK row : row = Row(t, c.checkpoint, h, n)
  OBVIOUS
<1>3. /\ frame[p].todo # <<>> /\ c.do = "open"
      /\ state' = state /\ head' = head /\ attempts' = attempts
      /\ requests' = requests /\ drive' = drive
      /\ ~Exists(row) => frame' = [frame EXCEPT ![p].todo = <<Insert(row)>> \o rest]
  BY <1>1, <1>2 DEF OpenRead, Doing, Arg, database, Insert
<1>4. /\ t \in Tasks /\ Holds(p, t) /\ HeldCall(d, t, s, h, n, c, rest)
  <2>1. frame[p].todo # <<>>
    BY <1>3
  <2> QED BY <1>1, <2>1, HolderCall
<1>5. d = NoDrive /\ rest = <<>> /\ HeldPlan(d, t, s, h, n, <<Insert(row)>>)
  BY <1>2, <1>3, <1>4 DEF HeldCall
<1>6. <<Insert(row)>> \o rest = <<Insert(row)>>
  BY <1>5, ShortConcats
<1>7. PICK todo : todo = <<Insert(row)>> /\ todo # <<>>
  BY ShortPlans
<1>8. PICK g : g = [frame[p] EXCEPT !.todo = todo]
  OBVIOUS
<1>9. ~Exists(row)
  BY <1>1, <1>2, <1>4, <1>5, NoSuchRow
<1>10. frame' = [frame EXCEPT ![p] = g]
  BY <1>3, <1>6, <1>7, <1>8, <1>9, FrameFacts
<1>11. g.request = 0 /\ g.queue = <<>> /\ g.task = t /\ g.todo = todo /\ g # NoFrame
  <2>1. g.request = 0 /\ g.queue = <<>> /\ g.task = t /\ g.todo = todo
    BY <1>1, <1>8, FrameFacts DEF Frame
  <2> QED BY <1>7, <2>1, NoFrameFacts
<1>12. CallTo(p, t, g)
  BY <1>1, <1>3, <1>4, <1>5, <1>7, <1>10, <1>11 DEF CallTo
<1> QED BY <1>4, <1>10, <1>12, CallStep

LEMMA InsertedRow ==
  ASSUME SInv, NEW p \in Procs, Doing(p, "insert")
  PROVE  Arg(p).row \in Request
<1>1. FrameOK(p, frame[p]) /\ frame \in [Procs -> Frame]
  BY FrameFacts
<1>2. Arg(p) \in Instruction /\ Arg(p).do = "insert"
  BY <1>1, HeadFacts
<1> QED BY <1>2 DEF Instruction

\* The row of a checkpoint is the only one of its attempt, and it is open while
\* its task is where the method has moved it.
LEMMA OpenInsertHeld ==
  ASSUME SInv, IInv', SoleSyncer, NEW p \in Procs, OpenInsert(p), frame[p].request = 0
  PROVE  SInv'
<1>1. PICK g : g = AfterCall(frame[p])
  OBVIOUS
<1>2. PICK t, d, c, rest, s, h, n :
        /\ t = frame[p].task /\ d = drive[p] /\ c = Arg(p) /\ rest = Tail(frame[p].todo)
        /\ s = state[t] /\ h = head[t] /\ n = attempts[t]
  OBVIOUS
<1>3. PICK row : row = c.row
  OBVIOUS
<1>4. /\ frame' = [frame EXCEPT ![p] = g] /\ frame[p].todo # <<>> /\ c.do = "insert"
      /\ state' = state /\ head' = head /\ attempts' = attempts
      /\ requests' = Append(requests, row) /\ drive' = drive
  BY <1>1, <1>2, <1>3 DEF OpenInsert, Doing, Returns, Arg
<1>5. /\ t \in Tasks /\ Holds(p, t) /\ HeldCall(d, t, s, h, n, c, rest)
  BY <1>2, <1>4, HolderCall
<1>6. /\ d = NoDrive /\ rest = <<>> /\ \E cp \in Managed : s = Stage(cp) /\ row = Row(t, cp, h, n)
  BY <1>3, <1>4, <1>5 DEF HeldCall
<1>7. PICK cp \in Managed : s = Stage(cp) /\ row = Row(t, cp, h, n)
  BY <1>6
<1>8. /\ row.task = t /\ row.checkpoint = cp /\ row.head = h /\ row.attempt = n
      /\ row.applied = NoVerdict
  BY <1>7 DEF Row
<1>9. g = NoFrame
  <2>1. frame[p].todo # <<>>
    BY <1>4
  <2>2. Returned(g, frame[p], rest)
    BY <1>1, <1>2, <2>1, AfterCallFacts
  <2> QED BY <1>6, <2>2 DEF Returned
<1>10. TablesOK /\ frame'[p] = g /\ n \in Nat /\ \A q \in Procs : q # p => frame'[q] = frame[q]
  BY <1>2, <1>4, <1>5, FrameFacts, ConfigAssumption DEF TablesOK
<1>11. PICK new : new = Len(requests) + 1
  OBVIOUS
<1>12. /\ Rows' = Rows \cup {new} /\ new \notin Rows /\ requests'[new] = row
       /\ \A r \in Rows : requests'[r] = requests[r]
  <2>1. requests \in Seq(Request) /\ row \in Request
    <3>1. Doing(p, "insert")
      BY DEF OpenInsert
    <3>2. row \in Request
      BY <1>2, <1>3, <3>1, InsertedRow
    <3> QED BY <1>3, <1>10, <3>2 DEF TablesOK
  <2>2. /\ Len(requests) \in Nat /\ Len(requests') = Len(requests) + 1
        /\ requests'[Len(requests) + 1] = row
        /\ \A i \in 1..Len(requests) : requests'[i] = requests[i]
    BY <1>4, <2>1, AppendFacts
  <2> QED BY <1>11, <2>2 DEF Rows
<1>13. \A r \in Rows : requests[r].task = t =>
         ~Unresolved(r) /\ requests[r].attempt <= n /\ requests[r].attempt # n
  <2>1. drive[p].phase # "provider"
    BY <1>2, <1>6, NoFrameFacts
  <2> QED BY <1>2, <1>5, <2>1, HolderFacts
<1>14. Touches(p, t)
  BY <1>4, <1>8, <1>10, <1>12 DEF Touches
<1>15. s \in {"READY", "BLOCKED"} /\ (s = "READY" => cp = "candidate_ready")
  BY <1>7 DEF Stage, Managed
<1>16. GatesOK(t)'
  <2>1. GatesOK(t)
    BY <1>5 DEF SInv, TaskOK
  <2>2. ASSUME NEW r \in Rows', requests'[r].task = t
        PROVE  /\ requests'[r].attempt <= attempts'[t] /\ requests'[r].checkpoint \in Managed
               /\ Unresolved(r)' => requests'[r].attempt = attempts'[t] /\ state'[t] \in Parked
    <3>1. CASE r = new
      <4>1. requests'[r].attempt = n /\ requests'[r].checkpoint = cp
        BY <1>8, <1>12, <3>1
      <4>2. attempts'[t] = n /\ state'[t] = s
        BY <1>2, <1>4
      <4> QED BY <1>10, <1>15, <4>1, <4>2 DEF Parked
    <3>2. CASE r \in Rows
      <4>1. requests'[r] = requests[r] /\ requests[r].task = t
        BY <1>12, <2>2, <3>2
      <4>2. ~Unresolved(r)' /\ requests[r].attempt <= n /\ requests[r].checkpoint \in Managed
        BY <1>13, <2>1, <3>2, <4>1 DEF Unresolved, GatesOK
      <4> QED BY <1>2, <1>4, <4>1, <4>2
    <3> QED BY <1>12, <3>1, <3>2
  <2>3. ASSUME NEW r \in Rows', requests'[r].task = t, NEW q \in Rows', requests'[q].task = t,
               requests'[q].attempt = requests'[r].attempt
        PROVE  q = r
    <3>1. CASE q \in Rows /\ r \in Rows
      BY <1>12, <2>1, <2>3, <3>1 DEF GatesOK
    <3>2. CASE q = new \/ r = new
      BY <1>8, <1>12, <1>13, <2>3, <3>2
    <3> QED BY <1>12, <3>1, <3>2
  <2> QED BY <2>2, <2>3 DEF GatesOK
<1>17. EffectOK(t)'
  <2>1. ASSUME NEW r \in Rows', requests'[r].task = t, requests'[r].attempt = attempts'[t]
        PROVE  requests'[r].applied = NoVerdict
    BY <1>2, <1>4, <1>8, <1>12, <1>13, <2>1
  <2>2. NoVerdict \notin {"CONTINUE", "HUMAN_RESUME", "HUMAN_BLOCK"}
    BY NoVerdictAssumption DEF Verdict, TerminalVerdicts
  <2>3. ASSUME state'[t] = "READY" PROVE MergeGate(t)' # {}
    <3>1. cp = "candidate_ready"
      BY <1>2, <1>4, <1>15, <2>3
    <3>2. new \in Rows' /\ requests'[new] = row
      BY <1>12
    <3>3. new \in MergeGate(t)'
      BY <1>2, <1>4, <1>8, <3>1, <3>2 DEF MergeGate, RequestsOf, Rows
    <3> QED BY <3>3
  <2> QED BY <2>1, <2>2, <2>3 DEF EffectOK
<1>18. drive' = [drive EXCEPT ![p] = d]
  BY <1>2, <1>4, <1>10 DEF TablesOK
<1>19. /\ \A q \in Procs : q # p => ~AtWork(q, t)
       /\ \A u \in Tasks : u # t => ~AtWork(p, u)
  BY <1>5, HolderFacts
<1>20. g.request = 0 /\ g.queue = <<>> /\ g.todo = <<>>
  BY <1>9, NoFrameFacts
<1> QED BY <1>4, <1>5, <1>6, <1>9, <1>14, <1>16, <1>17, <1>18, <1>19, <1>20, HolderStep

\* The process lets go of its task: its method raises, or it dies.
LEMMA LetGoHeld ==
  ASSUME SInv, IInv', SoleSyncer, NEW p \in Procs, NEW t \in Tasks, Holds(p, t),
         frame' = [frame EXCEPT ![p] = NoFrame], LetGo(p), UNCHANGED database,
         ~Crashes /\ ~Faults /\ state[t] = "READY" => MergeGate(t) # {}
  PROVE  SInv'
<1>1. PICK g : g = NoFrame
  OBVIOUS
<1>2. PICK d : d = NoDrive
  OBVIOUS
<1>3. /\ state' = state /\ head' = head /\ attempts' = attempts /\ requests' = requests
      /\ drive' = [drive EXCEPT ![p] = d] /\ frame' = [frame EXCEPT ![p] = g] /\ Rows' = Rows
  BY <1>1, <1>2 DEF database, LetGo, Rows
<1>4. /\ \A q \in Procs : q # p => frame'[q] = frame[q] /\ drive'[q] = drive[q]
      /\ TablesOK
  BY <1>3, FrameFacts
<1>5. Touches(p, t)
  BY <1>3, <1>4 DEF Touches
<1>6. /\ \A q \in Procs : q # p => ~AtWork(q, t)
      /\ \A u \in Tasks : u # t => ~AtWork(p, u)
      /\ \A r \in Rows : requests[r].task = t => ~Unresolved(r)
  BY HolderFacts
<1>7. attempts[t] \in Nat
  BY <1>4, ConfigAssumption DEF TablesOK
<1>8. GatesOK(t)'
  BY <1>3, <1>6, <1>7, GatesStay
<1>9. ASSUME ~Crashes, ~Faults PROVE EffectOK(t)'
  <2>1. MergeGate(t)' = MergeGate(t)
    BY <1>3 DEF MergeGate, RequestsOf
  <2>2. state'[t] = "READY" => MergeGate(t)' # {}
    BY <1>3, <1>9, <2>1
  <2>3. ~Crashes /\ ~Faults => EffectOK(t)'
    BY <1>3, <2>2, HolderEffect
  <2> QED BY <1>9, <2>3
<1>10. g.request = 0 /\ g.queue = <<>> /\ g.todo = <<>>
  BY <1>1, NoFrameFacts
<1> QED BY <1>1, <1>2, <1>3, <1>5, <1>6, <1>8, <1>9, <1>10, HolderStep

LEMMA RaiseHeld ==
  ASSUME SInv, IInv', SoleSyncer, NEW p \in Procs, Raise(p), frame[p].request = 0
  PROVE  SInv'
<1>1. PICK t, d, c, rest, s, h, n :
        /\ t = frame[p].task /\ d = drive[p] /\ c = Arg(p) /\ rest = Tail(frame[p].todo)
        /\ s = state[t] /\ h = head[t] /\ n = attempts[t]
  OBVIOUS
<1>2. /\ frame[p].todo # <<>> /\ LetGo(p) /\ UNCHANGED database
      /\ frame' = [frame EXCEPT ![p] = NoFrame]
  <2>1. frame[p].queue = <<>> /\ frame[p].todo # <<>>
    BY FrameFacts DEF Raise, Idle
  <2> QED BY <2>1 DEF Raise, database
<1>3. t \in Tasks /\ Holds(p, t) /\ HeldPlan(d, t, s, h, n, frame[p].todo)
  BY <1>1, <1>2, HolderCall
<1>4. ASSUME ~Faults, s = "READY" PROVE FALSE
  <2>1. PICK todo : todo = frame[p].todo
    OBVIOUS
  <2>2. d = NoDrive
    BY <1>3, <1>4 DEF HeldPlan, Driving
  <2>3. PICK cp \in Managed : todo = <<Open(cp)>> \/ todo = <<Insert(Row(t, cp, h, n))>>
    BY <1>3, <1>4, <2>1, <2>2 DEF HeldPlan, Ending
  <2>4. c = Open(cp) \/ c = Insert(Row(t, cp, h, n))
    BY <1>1, <2>1, <2>3, ShortPlans DEF Arg
  <2>5. \/ c.do = "open"
        \/ c.do = "insert" /\ c.row = Row(t, cp, h, n)
    BY <2>4, CallKinds
  <2>6. Doing(p, "insert") /\ Exists(c.row)
    BY <1>1, <1>4, <2>5 DEF Raise, Fails, Doing, Arg
  <2>7. c.do = "insert"
    BY <1>1, <2>6 DEF Doing, Arg
  <2>8. ~Exists(c.row)
    BY <1>1, <1>3, <2>2, <2>5, <2>7, NoSuchRow
  <2> QED BY <2>6, <2>8
<1> QED BY <1>1, <1>2, <1>3, <1>4, LetGoHeld

-----------------------------------------------------------------------------
(***************************************************************************)
(* The steps of a process that applies supervision to a task.              *)
(***************************************************************************)
TookEffect(verdict, s) ==
  /\ verdict \in {"CONTINUE", "HUMAN_RESUME"} => s = "RUNNING"
  /\ verdict = "HUMAN_BLOCK" => s = "BLOCKED"

\* What a process that syncs t may rely on: the request at hand is the only one
\* of the last attempt, and the only one of t that may be open.
LEMMA SyncerFacts ==
  ASSUME SInv, NEW p \in Procs, NEW t \in Tasks, Syncs(p, t),
         NEW r, r = frame[p].request
  PROVE  /\ SyncOK(p, t) /\ GatesOK(t) /\ drive[p] = NoDrive /\ p \in Syncers
         /\ r \in Rows /\ r # 0 /\ requests[r].task = t /\ requests[r].attempt = attempts[t]
         /\ state[t] \in Parked /\ frame[p].todo # <<>> /\ TablesOK
         /\ \A q \in Procs : ~Holds(q, t)
         /\ \A x \in Rows : requests[x].task = t /\ (Unresolved(x) \/ requests[x].attempt = attempts[t])
                              => x = r
<1>1. SyncOK(p, t) /\ TaskOK(t) /\ GatesOK(t) /\ \A q \in Procs : q # p => ~AtWork(q, t)
  BY OneTask DEF AtWork, TaskOK
<1>2. p \in Syncers /\ r \in Rows /\ r # 0 /\ requests[r].task = t /\ TablesOK
  BY FrameFacts DEF Syncs
<1>3. /\ drive[p] = NoDrive /\ requests[r].attempt = attempts[t] /\ state[t] \in Parked
  BY <1>1 DEF SyncOK
<1>4. frame[p].todo # <<>>
  BY <1>2, FrameFacts, NoFrameFacts
<1>5. ~Holds(p, t)
  BY <1>2, <1>3, NoFrameFacts, NoTaskAssumption DEF Holds
<1>6. \A x \in Rows : requests[x].task = t /\ (Unresolved(x) \/ requests[x].attempt = attempts[t])
                        => x = r
  BY <1>1, <1>2, <1>3 DEF GatesOK
<1> QED BY <1>1, <1>2, <1>3, <1>4, <1>5, <1>6 DEF AtWork

\* A step of a sync that is about request r of t, and the frame g it leaves.
SyncTo(p, t, r, g) ==
  /\ drive' = drive /\ head' = head /\ attempts' = attempts /\ Rows' = Rows
  /\ \A u \in Tasks : u # t => state'[u] = state[u]
  /\ \A x \in Rows : x # r => requests'[x] = requests[x]
  /\ requests'[r].task = requests[r].task /\ requests'[r].attempt = requests[r].attempt
  /\ requests'[r].checkpoint = requests[r].checkpoint /\ requests'[r].head = requests[r].head
  /\ state'[t] = "READY" => state[t] = "READY"
  /\ state'[t] \in Parked \/ ~Unresolved(r)'
  /\ g.request = r \/ (~Crashes /\ ~Faults => TookEffect(requests'[r].applied, state'[t]))
  /\ \/ g = NoFrame \/ g = Visit(frame[p].queue)
     \/ /\ g.task = t /\ g.request = r /\ g.queue = frame[p].queue /\ g.todo # <<>>
        /\ state'[t] \in Parked /\ g.read \in {"none", state'[t]}
        /\ g.verdict = "CONTINUE" => state'[t] # "READY"
        /\ \/ Unresolved(r)' /\ g.todo \in {<<Consult>>, <<CanApply>>, <<Claim>>}
           \/ requests'[r].applied = g.verdict /\ Applying(g.verdict, state'[t], g.todo)

LEMMA SyncStep ==
  ASSUME SInv, IInv', SoleSyncer, NEW p \in Procs, NEW t \in Tasks, Syncs(p, t),
         NEW r, r = frame[p].request,
         NEW g, frame' = [frame EXCEPT ![p] = g], SyncTo(p, t, r, g)
  PROVE  SInv'
<1>1. /\ drive' = drive /\ head' = head /\ attempts' = attempts /\ Rows' = Rows
      /\ \A u \in Tasks : u # t => state'[u] = state[u]
      /\ \A x \in Rows : x # r => requests'[x] = requests[x]
      /\ requests'[r].task = requests[r].task /\ requests'[r].attempt = requests[r].attempt
      /\ requests'[r].checkpoint = requests[r].checkpoint /\ requests'[r].head = requests[r].head
      /\ state'[t] = "READY" => state[t] = "READY"
      /\ state'[t] \in Parked \/ ~Unresolved(r)'
      /\ g.request = r \/ (~Crashes /\ ~Faults => TookEffect(requests'[r].applied, state'[t]))
  BY DEF SyncTo
<1>2. /\ SyncOK(p, t) /\ GatesOK(t) /\ drive[p] = NoDrive /\ p \in Syncers
      /\ r \in Rows /\ r # 0 /\ requests[r].task = t /\ requests[r].attempt = attempts[t]
      /\ TablesOK /\ \A q \in Procs : ~Holds(q, t)
      /\ \A x \in Rows : requests[x].task = t /\ (Unresolved(x) \/ requests[x].attempt = attempts[t])
                           => x = r
  BY SyncerFacts
<1>3. frame'[p] = g /\ \A q \in Procs : q # p => frame'[q] = frame[q] /\ drive'[q] = drive[q]
  BY <1>1, FrameFacts
<1>4. /\ \A x \in Rows :
           /\ requests'[x].task = requests[x].task /\ requests'[x].attempt = requests[x].attempt
           /\ requests'[x].checkpoint = requests[x].checkpoint /\ requests'[x].head = requests[x].head
           /\ x # r => (Unresolved(x)' <=> Unresolved(x)) /\ requests'[x].applied = requests[x].applied
  BY <1>1 DEF Unresolved
<1>5. Touches(p, t)
  BY <1>1, <1>2, <1>3, <1>4 DEF Touches
<1>6. GatesOK(t)'
  <2>1. ASSUME NEW x \in Rows', requests'[x].task = t
        PROVE  /\ requests'[x].attempt <= attempts'[t] /\ requests'[x].checkpoint \in Managed
               /\ Unresolved(x)' => requests'[x].attempt = attempts'[t] /\ state'[t] \in Parked
    <3>1. x \in Rows /\ requests[x].task = t
      BY <1>1, <1>4, <2>1
    <3>2. requests[x].attempt <= attempts[t] /\ requests[x].checkpoint \in Managed
      BY <1>2, <3>1 DEF GatesOK
    <3>3. Unresolved(x)' => x = r
      BY <1>2, <1>4, <3>1
    <3> QED BY <1>1, <1>2, <1>4, <3>1, <3>2, <3>3
  <2>2. ASSUME NEW x \in Rows', requests'[x].task = t, NEW y \in Rows', requests'[y].task = t,
               requests'[y].attempt = requests'[x].attempt
        PROVE  y = x
    BY <1>1, <1>2, <1>4, <2>2 DEF GatesOK
  <2> QED BY <2>1, <2>2 DEF GatesOK
<1>7. ASSUME ~Crashes, ~Faults PROVE EffectOK(t)'
  <2>1. EffectOK(t)
    BY <1>7 DEF SInv, TaskOK
  <2>2. ASSUME NEW x \in Rows', requests'[x].task = t, requests'[x].attempt = attempts'[t],
               ~BeingApplied(x)'
        PROVE  TookEffect(requests'[x].applied, state'[t])
    <3>1. x = r
      BY <1>1, <1>2, <1>4, <2>2
    <3>2. g.request # r
      BY <1>2, <1>3, <2>2, <3>1 DEF BeingApplied
    <3> QED BY <1>1, <1>7, <3>1, <3>2
  <2>3. ASSUME state'[t] = "READY" PROVE MergeGate(t)' # {}
    <3>1. MergeGate(t) # {}
      BY <1>1, <1>2, <2>1, <2>3 DEF EffectOK
    <3>2. PICK x \in Rows : /\ requests[x].task = t /\ requests[x].checkpoint = "candidate_ready"
                            /\ requests[x].attempt = attempts[t] /\ requests[x].head = head[t]
      BY <3>1 DEF MergeGate, RequestsOf, Rows
    <3>3. /\ requests'[x].task = t /\ requests'[x].checkpoint = "candidate_ready"
          /\ requests'[x].attempt = attempts'[t] /\ requests'[x].head = head'[t] /\ x \in Rows'
      BY <1>1, <1>4, <3>2
    <3> QED BY <3>3 DEF MergeGate, RequestsOf, Rows
  <2> QED BY <2>2, <2>3 DEF EffectOK, TookEffect
<1>8. \/ g = NoFrame \/ g = Visit(frame[p].queue)
      \/ /\ g.task = t /\ g.request = frame[p].request /\ g.queue = frame[p].queue
         /\ g.todo # <<>> /\ SyncOK(p, t)'
  <2>1. ASSUME ~(g = NoFrame \/ g = Visit(frame[p].queue))
        PROVE  /\ g.task = t /\ g.request = r /\ g.queue = frame[p].queue
               /\ g.todo # <<>> /\ SyncOK(p, t)'
    <3>1. /\ g.task = t /\ g.request = r /\ g.queue = frame[p].queue /\ g.todo # <<>>
          /\ state'[t] \in Parked /\ g.read \in {"none", state'[t]}
          /\ g.verdict = "CONTINUE" => state'[t] # "READY"
          /\ \/ Unresolved(r)' /\ g.todo \in {<<Consult>>, <<CanApply>>, <<Claim>>}
             \/ requests'[r].applied = g.verdict /\ Applying(g.verdict, state'[t], g.todo)
      BY <2>1 DEF SyncTo
    <3> HIDE DEF Applying, Unresolved
    <3> QED BY <1>1, <1>2, <1>3, <3>1 DEF SyncOK
  <2> QED BY <2>1
<1> QED BY <1>1, <1>5, <1>6, <1>7, <1>8, SyncerStep

\* The next call c of a sync: it weighs the verdict v, or applies what it claimed.
SyncedCall(v, r, s, c, rest) ==
  \/ Unresolved(r) /\ c.do \in {"consult", "can_apply", "claim"}
  \/ requests[r].applied = v /\ ApplyingCall(v, s, c, rest)

LEMMA SyncerCall ==
  ASSUME SInv, NEW p \in Procs, frame[p].todo # <<>>, frame[p].request # 0,
         NEW t, t = frame[p].task, NEW v, v = frame[p].verdict, NEW r, r = frame[p].request,
         NEW c, c = Arg(p), NEW rest, rest = Tail(frame[p].todo), NEW s, s = state[t]
  PROVE  /\ t \in Tasks /\ Syncs(p, t) /\ s \in Parked /\ r \in Rows
         /\ v = "CONTINUE" => s # "READY"
         /\ SyncedCall(v, r, s, c, rest)
<1>1. t \in Tasks /\ Syncs(p, t)
  BY AtWorkOnFrame
<1>2. SyncOK(p, t) /\ r \in Rows
  BY <1>1, SyncerFacts
<1>3. PICK todo : todo = frame[p].todo
  OBVIOUS
<1>4. /\ s \in Parked /\ (v = "CONTINUE" => s # "READY")
      /\ \/ Unresolved(r) /\ todo \in {<<Consult>>, <<CanApply>>, <<Claim>>}
         \/ requests[r].applied = v /\ Applying(v, s, todo)
  BY <1>2, <1>3 DEF SyncOK
<1>5. c = Head(todo) /\ rest = Tail(todo)
  BY <1>3 DEF Arg
<1>6. CASE Unresolved(r) /\ todo \in {<<Consult>>, <<CanApply>>, <<Claim>>}
  <2>1. c \in {Consult, CanApply, Claim}
    BY <1>5, <1>6, ShortPlans
  <2> QED BY <1>1, <1>2, <1>4, <1>6, <2>1, CallKinds DEF SyncedCall
<1>7. CASE requests[r].applied = v /\ Applying(v, s, todo)
  <2>1. ApplyingCall(v, s, c, rest)
    BY <1>4, <1>5, <1>7, ApplyingFacts
  <2> QED BY <1>1, <1>2, <1>4, <1>7, <2>1 DEF SyncedCall
<1> QED BY <1>4, <1>6, <1>7

LEMMA MoveReadSync ==
  ASSUME SInv, IInv', SoleSyncer, NEW p \in Procs, MoveRead(p), frame[p].request # 0
  PROVE  SInv'
<1>1. PICK g : g = [frame[p] EXCEPT !.read = state[frame[p].task]]
  OBVIOUS
<1>2. PICK t, r : t = frame[p].task /\ r = frame[p].request
  OBVIOUS
<1>3. /\ frame' = [frame EXCEPT ![p] = g] /\ frame[p].todo # <<>>
      /\ state' = state /\ head' = head /\ attempts' = attempts /\ requests' = requests
      /\ drive' = drive /\ Rows' = Rows /\ Unresolved(r)' = Unresolved(r)
  BY <1>1, FrameFacts DEF MoveRead, Doing, database, Rows, Unresolved
<1>4. t \in Tasks /\ Syncs(p, t)
  BY <1>2, <1>3, AtWorkOnFrame
<1>5. SyncOK(p, t) /\ state[t] \in Parked
  BY <1>2, <1>4, SyncerFacts
<1>6. /\ g.task = t /\ g.request = r /\ g.queue = frame[p].queue /\ g.todo = frame[p].todo
      /\ g.read = state[t] /\ g.verdict = frame[p].verdict
  BY <1>1, <1>2, FrameFacts DEF Frame
<1>7. /\ g.verdict = "CONTINUE" => state[t] # "READY"
      /\ \/ Unresolved(r) /\ g.todo \in {<<Consult>>, <<CanApply>>, <<Claim>>}
         \/ requests[r].applied = g.verdict /\ Applying(g.verdict, state[t], g.todo)
  BY <1>2, <1>5, <1>6 DEF SyncOK
<1>8. SyncTo(p, t, r, g)
  <2> HIDE DEF Applying, Unresolved
  <2> QED BY <1>3, <1>5, <1>6, <1>7 DEF SyncTo
<1> QED BY <1>2, <1>3, <1>4, <1>8, SyncStep

\* The last move of a verdict takes the task where the verdict sends it.
LEMMA MoveCommitSync ==
  ASSUME SInv, IInv', SoleSyncer, NEW p \in Procs, MoveCommit(p), frame[p].request # 0
  PROVE  SInv'
<1>1. PICK g : g = AfterCall(frame[p])
  OBVIOUS
<1>2. PICK t, v, r, c, rest, s :
        /\ t = frame[p].task /\ v = frame[p].verdict /\ r = frame[p].request /\ c = Arg(p)
        /\ rest = Tail(frame[p].todo) /\ s = state[t]
  OBVIOUS
<1>3. /\ frame' = [frame EXCEPT ![p] = g] /\ frame[p].todo # <<>> /\ c.do = "move"
      /\ state' = [state EXCEPT ![t] = c.to] /\ head' = head /\ attempts' = attempts
      /\ requests' = requests /\ drive' = drive /\ Rows' = Rows /\ Unresolved(r)' = Unresolved(r)
  BY <1>1, <1>2 DEF MoveCommit, Doing, Ledger!Move, Returns, Arg, Rows, Unresolved
<1>4. t \in Tasks /\ Syncs(p, t) /\ s \in Parked /\ SyncedCall(v, r, s, c, rest)
  <2>1. frame[p].todo # <<>>
    BY <1>3
  <2> QED BY <1>2, <2>1, SyncerCall
<1>5. requests[r].applied = v /\ ApplyingCall(v, s, c, rest)
  BY <1>3, <1>4 DEF SyncedCall
<1>6. /\ state'[t] = c.to /\ (\A u \in Tasks : u # t => state'[u] = state[u])
  BY <1>3, <1>4, FrameFacts DEF TablesOK
<1>7. Returned(g, frame[p], rest)
  <2>1. frame[p].todo # <<>>
    BY <1>3
  <2> QED BY <1>1, <1>2, <2>1, AfterCallFacts
<1>8. c.to \in {"RUNNING", "BLOCKED", "WAITING_HUMAN"}
  BY <1>3, <1>5 DEF ApplyingCall
<1>9. c.to \in Parked \/ ~Unresolved(r)
  <2>1. c.to = "RUNNING" => v \in {"CONTINUE", "HUMAN_RESUME"}
    BY <1>3, <1>5 DEF ApplyingCall
  <2> QED BY <1>5, <1>8, <2>1 DEF Parked, Unresolved, TerminalVerdicts
<1>10. CASE rest = <<>>
  <2>1. TookEffect(v, c.to)
    BY <1>3, <1>5, <1>10 DEF ApplyingCall, TookEffect
  <2>2. g = Visit(frame[p].queue)
    BY <1>7, <1>10 DEF Returned
  <2>3. SyncTo(p, t, r, g)
    <3> HIDE DEF TookEffect, Unresolved
    <3> QED BY <1>3, <1>5, <1>6, <1>8, <1>9, <2>1, <2>2 DEF SyncTo
  <2> QED BY <1>2, <1>3, <1>4, <2>3, SyncStep
<1>11. CASE rest # <<>>
  <2>1. c.to = "WAITING_HUMAN" /\ Applying(v, c.to, rest)
    BY <1>3, <1>5, <1>11 DEF ApplyingCall
  <2>2. /\ g.task = t /\ g.request = r /\ g.todo = rest /\ g.queue = frame[p].queue
        /\ g.verdict = v /\ g.read = "none"
    BY <1>2, <1>7, <1>11 DEF Returned
  <2>3. SyncTo(p, t, r, g)
    <3> HIDE DEF Applying, Unresolved
    <3> QED BY <1>3, <1>5, <1>6, <1>11, <2>1, <2>2 DEF SyncTo, Parked
  <2> QED BY <1>2, <1>3, <1>4, <2>3, SyncStep
<1> QED BY <1>10, <1>11

\* A call of an applied verdict that changes no table.
LEMMA AppliedReads ==
  ASSUME SInv, IInv', SoleSyncer, NEW p \in Procs, frame[p].request # 0, frame[p].todo # <<>>,
         UNCHANGED <<database, drive>>,
         NEW g, frame' = [frame EXCEPT ![p] = g],
         NEW t, t = frame[p].task, NEW v, v = frame[p].verdict,
         requests[frame[p].request].applied = v,
         \/ g = Visit(frame[p].queue) /\ v = "HUMAN_REQUIRED"
         \/ /\ g.task = t /\ g.request = frame[p].request /\ g.queue = frame[p].queue
            /\ g.todo # <<>> /\ g.verdict = v /\ g.read \in {"none", frame[p].read}
            /\ Applying(v, state[t], g.todo)
  PROVE  SInv'
<1>1. PICK r : r = frame[p].request
  OBVIOUS
<1>2. /\ state' = state /\ head' = head /\ attempts' = attempts /\ requests' = requests
      /\ drive' = drive /\ Rows' = Rows /\ Unresolved(r)' = Unresolved(r)
  BY DEF database, Rows, Unresolved
<1>3. t \in Tasks /\ Syncs(p, t)
  BY AtWorkOnFrame
<1>4. SyncOK(p, t) /\ state[t] \in Parked
  BY <1>3, SyncerFacts
<1>5. frame[p].read \in {"none", state[t]} /\ (v = "CONTINUE" => state[t] # "READY")
  BY <1>4 DEF SyncOK
<1>6. TookEffect("HUMAN_REQUIRED", state[t])
  BY DEF TookEffect
<1>7. SyncTo(p, t, r, g)
  <2> HIDE DEF Applying, Unresolved, TookEffect
  <2> QED BY <1>1, <1>2, <1>4, <1>5, <1>6 DEF SyncTo
<1> QED BY <1>1, <1>3, <1>7, SyncStep

LEMMA RequireReadSync ==
  ASSUME SInv, IInv', SoleSyncer, NEW p \in Procs, RequireRead(p), frame[p].request # 0
  PROVE  SInv'
<1>1. PICK g : g = AfterCall(frame[p])
  OBVIOUS
<1>2. PICK t, v, r, c, rest, s :
        /\ t = frame[p].task /\ v = frame[p].verdict /\ r = frame[p].request /\ c = Arg(p)
        /\ rest = Tail(frame[p].todo) /\ s = state[t]
  OBVIOUS
<1>3. /\ frame' = [frame EXCEPT ![p] = g] /\ UNCHANGED <<database, drive>> /\ c.do = "require"
  BY <1>1, <1>2 DEF RequireRead, Doing, Returns, Arg
<1>4. frame[p].todo # <<>>
  BY DEF RequireRead, Doing
<1>5. SyncedCall(v, r, s, c, rest)
  BY <1>2, <1>4, SyncerCall
<1>6. requests[r].applied = v /\ rest # <<>> /\ Applying(v, s, rest)
  BY <1>3, <1>5 DEF ApplyingCall, SyncedCall
<1>7. Returned(g, frame[p], rest)
  BY <1>1, <1>2, <1>4, AfterCallFacts
<1>8. /\ g.task = t /\ g.request = r /\ g.todo = rest /\ g.queue = frame[p].queue
      /\ g.verdict = v /\ g.read = "none"
  BY <1>2, <1>6, <1>7 DEF Returned
<1> HIDE DEF Applying
<1> QED BY <1>2, <1>3, <1>4, <1>6, <1>8, AppliedReads

LEMMA HumanRequiredReadSync ==
  ASSUME SInv, IInv', SoleSyncer, NEW p \in Procs, HumanRequiredRead(p), frame[p].request # 0
  PROVE  SInv'
<1>1. PICK t, v, r, c, rest, s :
        /\ t = frame[p].task /\ v = frame[p].verdict /\ r = frame[p].request /\ c = Arg(p)
        /\ rest = Tail(frame[p].todo) /\ s = state[t]
  OBVIOUS
<1>2. UNCHANGED <<database, drive>> /\ c.do = "human_required"
  BY <1>1 DEF HumanRequiredRead, Doing, Arg
<1>3. frame[p].todo # <<>>
  BY DEF HumanRequiredRead, Doing
<1>4. SyncedCall(v, r, s, c, rest)
  BY <1>1, <1>3, SyncerCall
<1>5. /\ requests[r].applied = v /\ (rest = <<>> => v = "HUMAN_REQUIRED")
      /\ s = "WAITING_HUMAN" => rest = <<>> \/ Applying(v, s, rest)
      /\ s # "WAITING_HUMAN" => Applying(v, s, <<Move("WAITING_HUMAN")>> \o rest)
  BY <1>2, <1>4 DEF ApplyingCall, SyncedCall
<1>6. CASE s = "WAITING_HUMAN"
  <2>1. PICK g : g = AfterCall(frame[p])
    OBVIOUS
  <2>2. frame' = [frame EXCEPT ![p] = g]
    BY <1>1, <1>6, <2>1 DEF HumanRequiredRead, Returns
  <2>3. Returned(g, frame[p], rest)
    BY <1>1, <1>3, <2>1, AfterCallFacts
  <2>4. \/ g = Visit(frame[p].queue) /\ v = "HUMAN_REQUIRED"
        \/ /\ g.task = t /\ g.request = r /\ g.todo = rest /\ g.queue = frame[p].queue
           /\ g.verdict = v /\ g.read = "none" /\ g.todo # <<>> /\ Applying(v, s, g.todo)
    BY <1>1, <1>5, <1>6, <2>3 DEF Returned
  <2> HIDE DEF Applying
  <2> QED BY <1>1, <1>2, <1>3, <1>5, <2>2, <2>4, AppliedReads
<1>7. CASE s # "WAITING_HUMAN"
  <2>1. PICK todo : todo = <<Move("WAITING_HUMAN")>> \o rest
    OBVIOUS
  <2>2. PICK g : g = [frame[p] EXCEPT !.todo = todo]
    OBVIOUS
  <2>3. frame' = [frame EXCEPT ![p] = g]
    BY <1>1, <1>7, <2>1, <2>2, FrameFacts DEF HumanRequiredRead
  <2>4. todo # <<>>
    <3>1. frame[p].todo \in Seq(Instruction)
      BY FrameFacts DEF Frame
    <3>2. Move("WAITING_HUMAN") \in Instruction
      BY DEF Move, Instruction, TaskState
    <3> QED BY <1>1, <1>3, <2>1, <3>1, <3>2, ReplaceFacts
  <2>5. /\ g.task = t /\ g.request = r /\ g.todo = todo /\ g.queue = frame[p].queue
        /\ g.verdict = v /\ g.read = frame[p].read
    BY <1>1, <2>2, FrameFacts DEF Frame
  <2>6. Applying(v, s, todo)
    BY <1>5, <1>7, <2>1
  <2> HIDE DEF Applying
  <2> QED BY <1>1, <1>2, <1>3, <1>5, <2>3, <2>4, <2>5, <2>6, AppliedReads
<1> QED BY <1>6, <1>7

\* A call that weighs the verdict of an open request of t, and the frame g it leaves.
Weighs(p, t, g) ==
  \/ g = Visit(frame[p].queue)
  \/ /\ g.task = t /\ g.request = frame[p].request /\ g.queue = frame[p].queue
     /\ g.todo \in {<<CanApply>>, <<Claim>>} /\ g.read = frame[p].read
     /\ g.verdict = "CONTINUE" => state[t] # "READY"

LEMMA WeighingReads ==
  ASSUME SInv, IInv', SoleSyncer, NEW p \in Procs, frame[p].request # 0, frame[p].todo # <<>>,
         UNCHANGED <<database, drive>>, Unresolved(frame[p].request),
         NEW g, frame' = [frame EXCEPT ![p] = g],
         NEW t, t = frame[p].task, Weighs(p, t, g)
  PROVE  SInv'
<1>1. PICK r : r = frame[p].request
  OBVIOUS
<1>2. /\ state' = state /\ head' = head /\ attempts' = attempts /\ requests' = requests
      /\ drive' = drive /\ Rows' = Rows /\ Unresolved(r)' = Unresolved(r)
  BY DEF database, Rows, Unresolved
<1>3. t \in Tasks /\ Syncs(p, t)
  BY AtWorkOnFrame
<1>4. SyncOK(p, t) /\ state[t] \in Parked
  BY <1>3, SyncerFacts
<1>5. frame[p].read \in {"none", state[t]}
  BY <1>4 DEF SyncOK
<1>6. TookEffect(requests[r].applied, state[t])
  BY <1>1 DEF TookEffect, Unresolved, TerminalVerdicts
<1>7. <<CanApply>> # <<>> /\ <<Claim>> # <<>>
  BY ShortPlans
<1>8. SyncTo(p, t, r, g)
  <2> HIDE DEF Applying, Unresolved, TookEffect
  <2> QED BY <1>1, <1>2, <1>4, <1>5, <1>6, <1>7 DEF SyncTo, Weighs
<1> QED BY <1>1, <1>3, <1>8, SyncStep

\* Who consults, tests or claims is a sync with an open request.
LEMMA OpenAtHand ==
  ASSUME SInv, NEW p \in Procs, NEW do \in {"human_required", "consult", "can_apply", "claim"},
         Doing(p, do)
  PROVE  /\ frame[p].todo # <<>> /\ frame[p].request # 0 /\ frame[p].task \in Tasks
         /\ do # "human_required" => Unresolved(frame[p].request)
<1>1. frame[p].todo # <<>> /\ Arg(p).do = do
  BY DEF Doing, Arg
<1>2. PICK t, d, v, r, c, rest, s, h, n :
        /\ t = frame[p].task /\ d = drive[p] /\ v = frame[p].verdict /\ r = frame[p].request
        /\ c = Arg(p) /\ rest = Tail(frame[p].todo) /\ s = state[t] /\ h = head[t]
        /\ n = attempts[t]
  OBVIOUS
<1>3. CASE r = 0
  <2>1. HeldCall(d, t, s, h, n, c, rest)
    BY <1>1, <1>2, <1>3, HolderCall
  <2> QED BY <1>1, <1>2, <2>1 DEF HeldCall
<1>4. CASE r # 0
  <2>1. t \in Tasks /\ SyncedCall(v, r, s, c, rest)
    BY <1>1, <1>2, <1>4, SyncerCall
  <2> QED BY <1>1, <1>2, <1>4, <2>1 DEF SyncedCall, ApplyingCall
<1> QED BY <1>3, <1>4

LEMMA ConsultReadSync ==
  ASSUME SInv, IInv', SoleSyncer, NEW p \in Procs, ConsultRead(p)
  PROVE  SInv'
<1>1. PICK t, verdict :
        /\ t = frame[p].task
        /\ verdict = Governed(Poll(p, frame[p].request),
                              requests[frame[p].request].checkpoint, state[t])
  OBVIOUS
<1>2. Doing(p, "consult") /\ UNCHANGED <<database, drive>>
  BY DEF ConsultRead
<1>3. frame[p].todo # <<>> /\ frame[p].request # 0 /\ Unresolved(frame[p].request)
  BY <1>2, OpenAtHand
<1>4. CASE verdict = "PENDING"
  <2>1. PICK g : g = Visit(frame[p].queue)
    OBVIOUS
  <2>2. frame' = [frame EXCEPT ![p] = g]
    BY <1>1, <1>4, <2>1 DEF ConsultRead, MethodReturns
  <2>3. Weighs(p, t, g)
    BY <2>1 DEF Weighs
  <2> QED BY <1>1, <1>2, <1>3, <2>2, <2>3, WeighingReads
<1>5. CASE verdict # "PENDING"
  <2>1. PICK g : g = [frame[p] EXCEPT !.verdict = verdict, !.todo = <<CanApply>>]
    OBVIOUS
  <2>2. frame' = [frame EXCEPT ![p] = g]
    BY <1>1, <1>5, <2>1, FrameFacts DEF ConsultRead
  <2>3. /\ g.task = t /\ g.request = frame[p].request /\ g.queue = frame[p].queue
        /\ g.todo = <<CanApply>> /\ g.read = frame[p].read /\ g.verdict = verdict
    BY <1>1, <2>1, FrameFacts DEF Frame
  <2>4. verdict = "CONTINUE" => state[t] # "READY"
    <3>1. ~TransitionAllowed("READY", "RUNNING")
      BY DEF TransitionAllowed, LegalTransitions
    <3>2. PICK poll : poll = Poll(p, frame[p].request)
      OBVIOUS
    <3> QED BY <1>1, <3>1, <3>2 DEF Governed
  <2>5. Weighs(p, t, g)
    BY <2>3, <2>4 DEF Weighs
  <2> QED BY <1>1, <1>2, <1>3, <2>2, <2>5, WeighingReads
<1> QED BY <1>4, <1>5

LEMMA CanApplyReadSync ==
  ASSUME SInv, IInv', SoleSyncer, NEW p \in Procs, CanApplyRead(p)
  PROVE  SInv'
<1>1. PICK t : t = frame[p].task
  OBVIOUS
<1>2. Doing(p, "can_apply") /\ UNCHANGED <<database, drive>>
  BY DEF CanApplyRead
<1>3. /\ frame[p].todo # <<>> /\ frame[p].request # 0 /\ t \in Tasks
      /\ Unresolved(frame[p].request)
  BY <1>1, <1>2, OpenAtHand
<1>4. CASE ~Applicable(frame[p].verdict, state[t])
  <2>1. PICK g : g = Visit(frame[p].queue)
    OBVIOUS
  <2>2. frame' = [frame EXCEPT ![p] = g]
    BY <1>1, <1>4, <2>1 DEF CanApplyRead, MethodReturns
  <2>3. Weighs(p, t, g)
    BY <2>1 DEF Weighs
  <2> QED BY <1>1, <1>2, <1>3, <2>2, <2>3, WeighingReads
<1>5. CASE Applicable(frame[p].verdict, state[t])
  <2>1. PICK g : g = [frame[p] EXCEPT !.todo = <<Claim>>]
    OBVIOUS
  <2>2. frame' = [frame EXCEPT ![p] = g]
    BY <1>1, <1>5, <2>1, FrameFacts DEF CanApplyRead
  <2>3. /\ g.task = t /\ g.request = frame[p].request /\ g.queue = frame[p].queue
        /\ g.todo = <<Claim>> /\ g.read = frame[p].read /\ g.verdict = frame[p].verdict
    BY <1>1, <2>1, FrameFacts DEF Frame
  <2>4. frame[p].verdict = "CONTINUE" => state[t] # "READY"
    <3>1. Syncs(p, t)
      BY <1>1, <1>3, AtWorkOnFrame
    <3>2. SyncOK(p, t)
      BY <1>3, <3>1, SyncerFacts
    <3> QED BY <3>2 DEF SyncOK
  <2>5. Weighs(p, t, g)
    BY <2>3, <2>4 DEF Weighs
  <2> QED BY <1>1, <1>2, <1>3, <2>2, <2>5, WeighingReads
<1> QED BY <1>4, <1>5

LEMMA ClaimRefusedSync ==
  ASSUME SInv, IInv', SoleSyncer, NEW p \in Procs, ClaimRefused(p)
  PROVE  SInv'
<1>1. PICK t, g : t = frame[p].task /\ g = Visit(frame[p].queue)
  OBVIOUS
<1>2. Doing(p, "claim") /\ UNCHANGED <<database, drive>>
  BY DEF ClaimRefused
<1>3. frame[p].todo # <<>> /\ frame[p].request # 0 /\ Unresolved(frame[p].request)
  BY <1>2, OpenAtHand
<1>4. frame' = [frame EXCEPT ![p] = g]
  BY <1>1 DEF ClaimRefused, MethodReturns
<1>5. Weighs(p, t, g)
  BY <1>1 DEF Weighs
<1> QED BY <1>1, <1>2, <1>3, <1>4, <1>5, WeighingReads

\* The verdict that is claimed goes on record before its effect does.
LEMMA ClaimCommitSync ==
  ASSUME SInv, IInv', SoleSyncer, NEW p \in Procs, ClaimCommit(p)
  PROVE  SInv'
<1>1. PICK t, v, r : t = frame[p].task /\ v = frame[p].verdict /\ r = frame[p].request
  OBVIOUS
<1>2. Doing(p, "claim")
  BY DEF ClaimCommit
<1>3. frame[p].todo # <<>> /\ r # 0 /\ t \in Tasks
  BY <1>1, <1>2, OpenAtHand
<1>4. Syncs(p, t)
  BY <1>1, <1>3, AtWorkOnFrame
<1>5. SyncOK(p, t) /\ r \in Rows /\ TablesOK
  BY <1>1, <1>3, <1>4, SyncerFacts
<1>6. v \in Verdict
  <2>1. FrameOK(p, frame[p]) /\ frame \in [Procs -> Frame]
    BY FrameFacts
  <2>2. CallOK(p, frame[p], Arg(p)) /\ Arg(p).do = "claim"
    BY <1>2, <2>1, HeadFacts
  <2> QED BY <1>1, <2>2 DEF CallOK
<1>7. PICK todo : todo = Effect(v)
  OBVIOUS
<1>8. PICK g : g = [frame[p] EXCEPT !.todo = todo]
  OBVIOUS
<1>9. /\ frame' = [frame EXCEPT ![p] = g]
      /\ requests' = [requests EXCEPT ![r].applied = v]
      /\ state' = state /\ head' = head /\ attempts' = attempts /\ drive' = drive
  BY <1>1, <1>7, <1>8, FrameFacts DEF ClaimCommit, ClaimTxn
<1>10. /\ Rows' = Rows /\ requests'[r].applied = v /\ requests'[r].task = requests[r].task
       /\ requests'[r].attempt = requests[r].attempt /\ requests'[r].head = requests[r].head
       /\ requests'[r].checkpoint = requests[r].checkpoint
       /\ \A x \in Rows : x # r => requests'[x] = requests[x]
  <2>1. requests \in Seq(Request) /\ requests[r] \in Request
    BY <1>5, RowFacts DEF TablesOK
  <2>2. PICK row : row = [requests[r] EXCEPT !.applied = v]
    OBVIOUS
  <2>3. /\ row.applied = v /\ row.task = requests[r].task /\ row.attempt = requests[r].attempt
        /\ row.head = requests[r].head /\ row.checkpoint = requests[r].checkpoint
    BY <2>1, <2>2 DEF Request
  <2>4. requests' = [requests EXCEPT ![r] = row]
    BY <1>9, <2>2
  <2>5. DOMAIN requests = Rows /\ Len(requests) \in Nat /\ DOMAIN requests' = DOMAIN requests
    BY <2>1, <2>4 DEF Rows
  <2>6. \A x \in Rows : requests'[x] = IF x = r THEN row ELSE requests[x]
    BY <2>4, <2>5
  <2>7. Rows' = Rows
    <3>1. Len(requests') = Len(requests)
      BY <2>1, <2>4
    <3> QED BY <3>1 DEF Rows
  <2> QED BY <1>5, <2>3, <2>6, <2>7
<1>11. /\ g.task = t /\ g.request = r /\ g.queue = frame[p].queue /\ g.todo = todo
       /\ g.read = frame[p].read /\ g.verdict = v
  BY <1>1, <1>8, FrameFacts DEF Frame
<1>12. Applying(v, state[t], todo) /\ todo # <<>>
  BY <1>6, <1>7, EffectApplies, EffectFacts
<1>13. /\ frame[p].read \in {"none", state[t]} /\ (v = "CONTINUE" => state[t] # "READY")
       /\ state[t] \in Parked
  BY <1>1, <1>5 DEF SyncOK
<1>14. SyncTo(p, t, r, g)
  <2> HIDE DEF Applying, Unresolved, TookEffect
  <2> QED BY <1>9, <1>10, <1>11, <1>12, <1>13 DEF SyncTo
<1> QED BY <1>1, <1>3, <1>4, <1>9, <1>14, SyncStep

\* A verdict that is being applied does not fail by itself.
LEMMA RaiseSync ==
  ASSUME SInv, IInv', SoleSyncer, NEW p \in Procs, Raise(p), frame[p].request # 0
  PROVE  SInv'
<1>1. PICK t, v, r, c, rest, s :
        /\ t = frame[p].task /\ v = frame[p].verdict /\ r = frame[p].request /\ c = Arg(p)
        /\ rest = Tail(frame[p].todo) /\ s = state[t]
  OBVIOUS
<1>2. frame[p].todo # <<>>
  BY FrameFacts, NoFrameFacts
<1>3. PICK g : frame' = [frame EXCEPT ![p] = g] /\ (g = NoFrame \/ g = Visit(frame[p].queue))
  BY DEF Raise, MethodReturns
<1>4. t \in Tasks /\ Syncs(p, t) /\ s \in Parked /\ SyncedCall(v, r, s, c, rest)
  BY <1>1, <1>2, SyncerCall
<1>5. SyncOK(p, t) /\ drive[p] = NoDrive /\ TablesOK
  BY <1>4, SyncerFacts
<1>6. /\ state' = state /\ head' = head /\ attempts' = attempts /\ requests' = requests
      /\ drive' = drive /\ Rows' = Rows /\ Unresolved(r)' = Unresolved(r)
  BY <1>5 DEF Raise, LetGo, TablesOK, database, Rows, Unresolved
<1>7. ~Faults => TookEffect(requests[r].applied, s)
  <2>1. CASE Unresolved(r)
    BY <2>1 DEF TookEffect, Unresolved, TerminalVerdicts
  <2>2. CASE ~Unresolved(r) /\ ~Faults
    <3>1. ApplyingCall(v, s, c, rest)
      BY <1>4, <2>2 DEF SyncedCall
    <3>2. /\ c.do \in {"move", "require", "human_required"}
          /\ c.do = "move" => TransitionAllowed(s, c.to)
          /\ c.do = "require" => c.in = s
      BY <3>1 DEF ApplyingCall
    <3>3. frame[p].read \in {"none", s}
      BY <1>1, <1>5 DEF SyncOK
    <3>4. Fails(p)
      BY <2>2 DEF Raise
    <3> QED BY <1>1, <3>2, <3>3, <3>4 DEF Fails, Doing, Arg
  <2> QED BY <2>1, <2>2
<1>8. SyncTo(p, t, r, g)
  <2> HIDE DEF Applying, Unresolved, TookEffect
  <2> QED BY <1>1, <1>3, <1>4, <1>6, <1>7 DEF SyncTo
<1> QED BY <1>1, <1>3, <1>4, <1>8, SyncStep

-----------------------------------------------------------------------------
(***************************************************************************)
(* The steps of a process between two methods.                             *)
(***************************************************************************)
\* A process that is at work on no task leaves the tables of tasks and requests
\* alone, and may start a sync.
LEMMA IdleStep ==
  ASSUME SInv, IInv', SoleSyncer, NEW p \in Procs, \A u \in Tasks : ~AtWork(p, u),
         NEW g, frame' = [frame EXCEPT ![p] = g], drive' = [drive EXCEPT ![p] = NoDrive],
         UNCHANGED <<state, head, attempts, requests>>,
         g = NoFrame \/ Fresh(g), QueueOK(g)
  PROVE  SInv'
<1>1. /\ frame'[p] = g /\ drive'[p] = NoDrive /\ Rows' = Rows
      /\ \A q \in Procs : q # p => frame'[q] = frame[q] /\ drive'[q] = drive[q]
      /\ state' = state /\ head' = head /\ attempts' = attempts /\ requests' = requests
  BY FrameFacts DEF Rows
<1>2. Touches(p, NoTask)
  BY <1>1 DEF Touches
<1>3. Fresh(g) => g.request # 0
  BY FrameFacts, RowFacts DEF Fresh
<1>4. ASSUME NEW u \in Tasks PROVE ~Holds(p, u)' /\ (Syncs(p, u)' => Fresh(g))
  <2>1. u # NoTask
    BY NoTaskAssumption
  <2> QED BY <1>1, <1>3, <2>1, NoFrameFacts DEF Holds, Syncs
<1>5. Elsewhere(p, NoTask)
  BY <1>1, <1>4 DEF Elsewhere
<1>6. QueueOK(frame[p])'
  BY <1>1 DEF QueueOK, Unresolved
<1> QED BY <1>2, <1>5, <1>6, NoTaskAssumption, StepKeepsSInv

LEMMA SubmitSInv ==
  ASSUME SInv, IInv', SoleSyncer, NEW p \in Procs, NEW r, Submit(p, r)
  PROVE  SInv'
<1>1. /\ UNCHANGED <<state, head, attempts, requests, drive, frame>>
      /\ frame[p] = NoFrame /\ drive[p] = NoDrive
  BY DEF Submit, SubmitHuman, SubmitSupervisor, MaySubmit, Idle
<1>2. \A u \in Tasks : ~AtWork(p, u)
  BY <1>1, AtWorkOnFrame
<1>3. PICK g : g = NoFrame
  OBVIOUS
<1>4. frame' = [frame EXCEPT ![p] = g] /\ drive' = [drive EXCEPT ![p] = NoDrive]
  BY <1>1, <1>3, FrameFacts
<1>5. QueueOK(g)
  BY <1>3, NoFrameFacts DEF QueueOK
<1> QED BY <1>1, <1>2, <1>3, <1>4, <1>5, IdleStep

\* The list of a sync holds open requests, each of them once.
LEMMA ListsOpen ==
  ASSUME TablesOK, NEW T, NEW list \in Listings(UnresolvedOf(T))
  PROVE  /\ \A i \in 1..Len(list) : Unresolved(list[i])
         /\ \A i, j \in 1..Len(list) : list[i] = list[j] => i = j
<1>1. PICK S : S = UnresolvedOf(T)
  OBVIOUS
<1>2. PICK n : n = Cardinality(S)
  OBVIOUS
<1>3. list \in [1..n -> S] /\ \A i, j \in 1..n : i # j => list[i] # list[j]
  BY <1>1, <1>2 DEF Listings
<1>4. list \in Seq(Nat)
  BY ListingFacts
<1>5. DOMAIN list = 1..Len(list)
  BY <1>4
<1>6. 1..n = 1..Len(list)
  BY <1>3, <1>5
<1> QED BY <1>1, <1>3, <1>6 DEF UnresolvedOf

LEMMA StartSyncSInv ==
  ASSUME SInv, IInv', SoleSyncer, NEW p \in Procs, NEW T, StartSync(p, T)
  PROVE  SInv'
<1>1. /\ frame[p] = NoFrame /\ drive[p] = NoDrive /\ drive' = drive
      /\ UNCHANGED <<state, head, attempts, requests>>
  BY DEF StartSync, Idle, database
<1>2. PICK list \in Listings(UnresolvedOf(T)) : frame' = [frame EXCEPT ![p] = Visit(list)]
  BY DEF StartSync
<1>3. PICK g : g = Visit(list)
  OBVIOUS
<1>4. TablesOK
  BY FrameFacts
<1>5. (g = NoFrame \/ Fresh(g)) /\ QueueOK(g)
  BY <1>3, <1>4, ListingFacts, ListsOpen, VisitIsFresh
<1>6. \A u \in Tasks : ~AtWork(p, u)
  BY <1>1, AtWorkOnFrame
<1>7. frame' = [frame EXCEPT ![p] = g] /\ drive' = [drive EXCEPT ![p] = NoDrive]
  BY <1>1, <1>2, <1>3, FrameFacts
<1> QED BY <1>1, <1>5, <1>6, <1>7, IdleStep

\* A process dies: what it had in hand stays as the database shows it.
LEMMA CrashSInv ==
  ASSUME SInv, IInv', SoleSyncer, NEW p \in Procs, Crash(p)
  PROVE  SInv'
<1>1. /\ Crashes /\ frame' = [frame EXCEPT ![p] = NoFrame] /\ LetGo(p) /\ UNCHANGED database
      /\ drive' = [drive EXCEPT ![p] = NoDrive]
      /\ state' = state /\ head' = head /\ attempts' = attempts /\ requests' = requests
  BY DEF Crash, LetGo, database
<1>2. ASSUME NEW t \in Tasks, Holds(p, t) PROVE SInv'
  BY <1>1, <1>2, LetGoHeld
<1>3. ASSUME NEW t \in Tasks, Syncs(p, t) PROVE SInv'
  <2>1. PICK g, r : g = NoFrame /\ r = frame[p].request
    OBVIOUS
  <2>2. SyncOK(p, t) /\ drive[p] = NoDrive /\ TablesOK /\ state[t] \in Parked
    BY <1>3, SyncerFacts
  <2>3. drive' = drive /\ Rows' = Rows /\ Unresolved(r)' = Unresolved(r)
    BY <1>1, <2>2 DEF TablesOK, Rows, Unresolved
  <2>4. SyncTo(p, t, r, g)
    <3> HIDE DEF Applying, Unresolved, TookEffect
    <3> QED BY <1>1, <2>1, <2>2, <2>3 DEF SyncTo
  <2> QED BY <1>1, <1>3, <2>1, <2>4, SyncStep
<1>4. CASE \A u \in Tasks : ~AtWork(p, u)
  <2>1. PICK g : g = NoFrame
    OBVIOUS
  <2>2. QueueOK(g)
    BY <2>1, NoFrameFacts DEF QueueOK
  <2> QED BY <1>1, <1>4, <2>1, <2>2, IdleStep
<1> QED BY <1>2, <1>3, <1>4 DEF AtWork

-----------------------------------------------------------------------------
(***************************************************************************)
(* The steps of a driver.                                                  *)
(***************************************************************************)
\* A driver between two methods: its phase tells the state of its task.
LEMMA DriverAtRest ==
  ASSUME SInv, NEW p \in Procs, NEW t \in Tasks, NEW phase \in {"provider", "outcome", "gates"},
         Idle(p), Drives(p, t, phase)
  PROVE  /\ Holds(p, t) /\ drive[p] # NoDrive /\ drive[p].phase = phase
         /\ state[t] = IF phase = "gates" THEN "VERIFYING" ELSE "RUNNING"
<1>1. drive[p] # NoDrive /\ drive[p].task = t /\ drive[p].phase = phase
  <2>1. drive[p].phase = phase
    BY DEF Drives
  <2> QED BY <2>1, DriveFacts
<1>2. Holds(p, t)
  BY <1>1 DEF Holds
<1>3. frame[p].todo = <<>>
  BY NoFrameFacts DEF Idle
<1>4. HeldPlan(drive[p], t, state[t], head[t], attempts[t], <<>>)
  BY <1>2, <1>3, HolderFacts DEF HoldOK
<1>5. Driving(phase, state[t], <<>>)
  BY <1>1, <1>4 DEF HeldPlan
<1>6. /\ <<Move("RUNNING")>> # <<>> /\ <<Move("VERIFYING")>> # <<>>
      /\ \A h : <<SetHead(h), Move("VERIFYING")>> # <<>>
      /\ \A h : <<Require("RUNNING"), SetHead(h), Move("VERIFYING")>> # <<>>
  BY ShortPlans
<1>7. state[t] = IF phase = "gates" THEN "VERIFYING" ELSE "RUNNING"
  BY <1>5, <1>6 DEF Driving
<1> QED BY <1>1, <1>2, <1>7

\* The frame of a method that starts.
LEMMA StartedFacts ==
  ASSUME NEW t, NEW plan, NEW g, g = Started(t, plan)
  PROVE  g.task = t /\ g.todo = plan /\ g.request = 0 /\ g.queue = <<>>
BY DEF Started, NoFrame

\* A driver calls a lifecycle method after the attempt it made.
LEMMA PlanStep ==
  ASSUME SInv, IInv', SoleSyncer, NEW p \in Procs, NEW t \in Tasks,
         NEW phase \in {"outcome", "gates"}, Idle(p), Drives(p, t, phase),
         NEW plan, plan # <<>>, Call(p, t, plan), UNCHANGED database,
         NEW d, drive' = [drive EXCEPT ![p] = d], d = NoDrive \/ d.task = t,
         HeldPlan(d, t, state[t], head[t], attempts[t], plan)
  PROVE  SInv'
<1>1. PICK g : g = Started(t, plan)
  OBVIOUS
<1>2. /\ frame' = [frame EXCEPT ![p] = g] /\ state' = state /\ head' = head
      /\ attempts' = attempts /\ requests' = requests /\ Rows' = Rows
  BY <1>1 DEF Call, Started, database, Rows
<1>3. g.task = t /\ g.todo = plan /\ g.request = 0 /\ g.queue = <<>>
  BY <1>1, StartedFacts
<1>4. Holds(p, t) /\ drive[p].phase = phase
  BY DriverAtRest
<1>5. /\ p \in Drivers /\ \A q \in Procs : q # p => ~AtWork(q, t)
      /\ \A u \in Tasks : u # t => ~AtWork(p, u)
      /\ \A r \in Rows : requests[r].task = t => ~Unresolved(r) /\ requests[r].attempt # attempts[t]
  BY <1>4, HolderFacts
<1>6. frame'[p] = g /\ TablesOK /\ \A q \in Procs : q # p => frame'[q] = frame[q] /\ drive'[q] = drive[q]
  BY <1>2, FrameFacts
<1>7. Touches(p, t)
  BY <1>2, <1>6 DEF Touches
<1>8. attempts[t] \in Nat
  BY <1>6, ConfigAssumption DEF TablesOK
<1>9. GatesOK(t)'
  BY <1>2, <1>5, <1>8, GatesStay
<1>10. Holds(p, t)'
  BY <1>3, <1>6 DEF Holds
<1>11. ~Crashes /\ ~Faults => EffectOK(t)'
  <2>1. \A r \in Rows : requests[r].task = t /\ requests[r].attempt = attempts'[t] =>
          /\ requests[r].attempt = attempts[t]
          /\ state'[t] = state[t] \/ state[t] \notin {"RUNNING", "BLOCKED"}
    BY <1>2
  <2>2. ~Faults /\ state'[t] = "READY" => MergeGate(t)' # {} \/ \E q \in Procs : Holds(q, t)'
    BY <1>10
  <2> QED BY <1>2, <1>4, <2>1, <2>2, HolderEffect
<1>12. /\ p \in Drivers /\ HeldPlan(d, t, state'[t], head'[t], attempts'[t], g.todo)
       /\ \A r \in Rows' : requests'[r].task = t =>
            /\ ~Unresolved(r)'
            /\ requests'[r].attempt = attempts'[t] => d.phase = "provider"
  BY <1>2, <1>3, <1>5 DEF Unresolved
<1>13. g.todo = <<>> => g = NoFrame
  BY <1>3
<1> QED BY <1>2, <1>3, <1>5, <1>7, <1>9, <1>11, <1>12, <1>13, HolderStep

\* The methods that end a drive, as Ending lists them.
LEMMA EndsOfDrives ==
  ASSUME NEW t, NEW h, NEW n
  PROVE  /\ \A plan \in ProviderEnds : plan # <<>> /\ Ending(t, "RUNNING", h, n, plan)
         /\ \A plan \in GatesEnd : plan # <<>> /\ Ending(t, "VERIFYING", h, n, plan)
<1>1. ASSUME NEW s \in {"RUNNING", "VERIFYING"}
      PROVE  /\ \A to \in {"INTERRUPTED", "FAILED", "BLOCKED"} : Ending(t, s, h, n, <<Move(to)>>)
             /\ \A cp \in {"provider_unavailable", "gates_blocked"} :
                  Ending(t, s, h, n, Blocked(cp)) /\ Blocked(cp) # <<>>
  <2>1. \A to \in {"INTERRUPTED", "FAILED", "BLOCKED"} : Ending(t, s, h, n, <<Move(to)>>)
    BY DEF Ending
  <2>2. ASSUME NEW cp \in {"provider_unavailable", "gates_blocked"}
        PROVE  Ending(t, s, h, n, Blocked(cp)) /\ Blocked(cp) # <<>>
    <3>1. cp \in Managed \ {"candidate_ready"}
      BY DEF Managed
    <3>2. Blocked(cp) = <<Move("BLOCKED"), Open(cp)>>
      BY DEF Blocked
    <3> QED BY <3>1, <3>2, ShortPlans DEF Ending
  <2> QED BY <2>1, <2>2
<1>2. \A plan \in ProviderEnds : plan # <<>> /\ Ending(t, "RUNNING", h, n, plan)
  BY <1>1, ShortPlans DEF ProviderEnds
<1>3. LET plan == <<Require("VERIFYING"), Move("READY"), Open("candidate_ready")>>
      IN  plan # <<>> /\ Ending(t, "VERIFYING", h, n, plan)
  BY ShortPlans DEF Ending
<1>4. \A plan \in GatesEnd : plan # <<>> /\ Ending(t, "VERIFYING", h, n, plan)
  BY <1>1, <1>3, ShortPlans DEF GatesEnd
<1> QED BY <1>2, <1>4

LEMMA EndDriveSInv ==
  ASSUME SInv, IInv', SoleSyncer, NEW p \in Procs, NEW t \in Tasks, NEW phase, NEW plan,
         \/ phase = "outcome" /\ plan \in ProviderEnds
         \/ phase = "gates" /\ plan \in GatesEnd,
         EndDrive(p, t, phase, plan)
  PROVE  SInv'
<1>1. /\ Idle(p) /\ Drives(p, t, phase) /\ Call(p, t, plan) /\ UNCHANGED database
      /\ drive' = [drive EXCEPT ![p] = NoDrive]
  BY DEF EndDrive, LetGo
<1>2. state[t] = IF phase = "gates" THEN "VERIFYING" ELSE "RUNNING"
  BY <1>1, DriverAtRest
<1>3. plan # <<>> /\ Ending(t, state[t], head[t], attempts[t], plan)
  BY <1>2, EndsOfDrives
<1>4. HeldPlan(NoDrive, t, state[t], head[t], attempts[t], plan)
  BY <1>3 DEF HeldPlan
<1> QED BY <1>1, <1>3, <1>4, PlanStep

LEMMA KeepDrivingSInv ==
  ASSUME SInv, IInv', SoleSyncer, NEW p \in Procs, NEW t \in Tasks, NEW phase, NEW plan, NEW next,
         \/ /\ phase = "outcome" /\ next = "gates"
            /\ \E h \in Heads : plan = CandidateProduced(h)
         \/ phase = "gates" /\ next = "provider" /\ plan = GatesRetry,
         KeepDriving(p, t, phase, plan, next)
  PROVE  SInv'
<1>1. PICK d : d = [task |-> t, phase |-> next]
  OBVIOUS
<1>2. /\ Idle(p) /\ Drives(p, t, phase) /\ Call(p, t, plan) /\ UNCHANGED database
      /\ drive' = [drive EXCEPT ![p] = d]
  BY <1>1 DEF KeepDriving, EnterPhase
<1>3. state[t] = IF phase = "gates" THEN "VERIFYING" ELSE "RUNNING"
  BY <1>2, DriverAtRest
<1>4. d.task = t /\ d.phase = next /\ d # NoDrive
  <2>1. d.task = t /\ d.phase = next
    BY <1>1
  <2> QED BY <2>1, NoFrameFacts
<1>5. plan # <<>> /\ Driving(next, state[t], plan)
  <2>1. CASE phase = "gates"
    BY <1>3, <2>1, ShortPlans DEF GatesRetry, Driving
  <2>2. CASE phase = "outcome"
    BY <1>3, <2>2, ShortPlans DEF CandidateProduced, Driving
  <2> QED BY <2>1, <2>2
<1>6. HeldPlan(d, t, state[t], head[t], attempts[t], plan)
  BY <1>4, <1>5 DEF HeldPlan
<1> QED BY <1>2, <1>4, <1>5, <1>6, PlanStep

\* A process begins a task that nobody can know of yet.
LEMMA BeginSInv ==
  ASSUME SInv, IInv', SoleSyncer, NEW p \in Procs, NEW t \in Tasks, Begin(p, t)
  PROVE  SInv'
<1>1. PICK d : d = [task |-> t, phase |-> "provider"]
  OBVIOUS
<1>0. PICK plan : plan = <<Move("RUNNING")>>
  OBVIOUS
<1>2. PICK g : g = Started(t, plan)
  OBVIOUS
<1>3. /\ p \in Drivers /\ Idle(p) /\ drive[p] = NoDrive /\ state[t] = Absent
      /\ state' = [state EXCEPT ![t] = "PENDING"] /\ head' = head /\ attempts' = attempts
      /\ requests' = requests /\ Rows' = Rows
      /\ drive' = [drive EXCEPT ![p] = d] /\ frame' = [frame EXCEPT ![p] = g]
  BY <1>0, <1>1, <1>2
     DEF Begin, Ledger!Create, EnterPhase, Call, Started, Absent, Ledger!Absent, Rows
<1>4. TablesOK /\ RowsOK
  BY FrameFacts
<1>5. /\ g.task = t /\ g.todo = plan /\ plan # <<>> /\ g.request = 0 /\ g.queue = <<>>
      /\ g.todo # <<>> /\ d.task = t /\ d.phase = "provider" /\ d # NoDrive
  <2>1. d.task = t /\ d.phase = "provider"
    BY <1>1
  <2>2. plan # <<>>
    BY <1>0, ShortPlans
  <2> QED BY <1>2, <2>1, <2>2, StartedFacts, NoFrameFacts
<1>6. /\ state'[t] = "PENDING" /\ \A u \in Tasks : u # t => state'[u] = state[u]
      /\ frame'[p] = g /\ drive'[p] = d
      /\ \A q \in Procs : q # p => frame'[q] = frame[q] /\ drive'[q] = drive[q]
  BY <1>3, <1>4, FrameFacts DEF TablesOK
<1>7. \A r \in Rows : requests[r].task # t
  BY <1>3, <1>4 DEF RowsOK
<1>8. \A q \in Procs : ~AtWork(q, t)
  <2>1. state[t] \notin TaskState
    BY <1>3 DEF Absent, TaskState
  <2>2. ASSUME NEW q \in Procs, Holds(q, t) PROVE FALSE
    <3>1. HeldPlan(drive[q], t, state[t], head[t], attempts[t], frame[q].todo)
      BY <2>2, HolderFacts DEF HoldOK
    <3>2. state[t] \in {"PENDING", "RUNNING", "VERIFYING", "READY", "BLOCKED"}
      BY <3>1 DEF HeldPlan, Ending, Driving, Stage
    <3> QED BY <2>1, <3>2 DEF TaskState
  <2>3. ASSUME NEW q \in Procs, Syncs(q, t) PROVE FALSE
    <3>1. state[t] \in Parked
      BY <2>3, SyncerFacts
    <3> QED BY <2>1, <3>1 DEF Parked, TaskState
  <2> QED BY <2>2, <2>3 DEF AtWork
<1>9. \A u \in Tasks : u # t => ~AtWork(p, u)
  BY <1>3, AtWorkOnFrame DEF Idle
<1>10. Touches(p, t)
  BY <1>3, <1>6 DEF Touches
<1>11. GatesOK(t)' /\ EffectOK(t)'
  BY <1>3, <1>6, <1>7 DEF GatesOK, EffectOK
<1>12. HeldPlan(d, t, state'[t], head'[t], attempts'[t], g.todo)
  BY <1>0, <1>5, <1>6 DEF HeldPlan, Driving
<1>13. \A r \in Rows' : requests'[r].task = t =>
            ~Unresolved(r)' /\ (requests'[r].attempt = attempts'[t] => d.phase = "provider")
  BY <1>3, <1>7
<1> HIDE DEF HeldPlan, EffectOK, GatesOK
<1> QED BY <1>3, <1>5, <1>8, <1>9, <1>10, <1>11, <1>12, <1>13, HolderStep

\* A process takes up a task that was left RUNNING: its checkpoints are settled.
LEMMA AdoptSInv ==
  ASSUME SInv, IInv', SoleSyncer, NEW p \in Procs, NEW t \in Tasks, Adopt(p, t)
  PROVE  SInv'
<1>1. PICK d : d = [task |-> t, phase |-> "provider"]
  OBVIOUS
<1>2. PICK g : g = NoFrame
  OBVIOUS
<1>3. /\ p \in Drivers /\ Idle(p) /\ drive[p] = NoDrive /\ state[t] = "RUNNING" /\ ~Driven(t)
      /\ state' = state /\ head' = head /\ attempts' = attempts /\ requests' = requests
      /\ frame' = frame /\ Rows' = Rows /\ drive' = [drive EXCEPT ![p] = d]
  BY <1>1 DEF Adopt, EnterPhase, database, Rows
<1>4. TablesOK /\ frame' = [frame EXCEPT ![p] = g]
  BY <1>2, <1>3, FrameFacts DEF Idle
<1>5. /\ g.request = 0 /\ g.queue = <<>> /\ g.todo = <<>>
      /\ d.task = t /\ d.phase = "provider" /\ d # NoDrive
  <2>1. d.task = t /\ d.phase = "provider"
    BY <1>1
  <2> QED BY <1>2, <2>1, NoFrameFacts
<1>6. \A q \in Procs : q # p => frame'[q] = frame[q] /\ drive'[q] = drive[q]
  BY <1>3, <1>4
<1>7. \A q \in Procs : ~AtWork(q, t)
  <2>1. ASSUME NEW q \in Procs, Holds(q, t) PROVE FALSE
    BY <1>3, <2>1, HolderFacts DEF Holds, Driven
  <2>2. ASSUME NEW q \in Procs, Syncs(q, t) PROVE FALSE
    BY <1>3, <2>2, SyncerFacts DEF Parked
  <2> QED BY <2>1, <2>2 DEF AtWork
<1>8. \A u \in Tasks : u # t => ~AtWork(p, u)
  BY <1>3, AtWorkOnFrame DEF Idle
<1>9. Touches(p, t)
  BY <1>3, <1>6 DEF Touches
<1>10. TaskOK(t) /\ GatesOK(t)
  BY DEF SInv, TaskOK
<1>11. \A r \in Rows : requests[r].task = t => ~Unresolved(r)
  BY <1>3, <1>10 DEF GatesOK, Parked
<1>12. GatesOK(t)'
  BY <1>3, <1>10 DEF GatesOK, Unresolved
<1>13. ~Crashes /\ ~Faults => EffectOK(t)'
  BY <1>3, <1>10 DEF TaskOK, EffectOK, BeingApplied
<1>14. HeldPlan(d, t, state'[t], head'[t], attempts'[t], g.todo)
  BY <1>3, <1>5 DEF HeldPlan, Driving
<1>15. \A r \in Rows' : requests'[r].task = t =>
            ~Unresolved(r)' /\ (requests'[r].attempt = attempts'[t] => d.phase = "provider")
  BY <1>3, <1>5, <1>11 DEF Unresolved
<1> HIDE DEF HeldPlan, EffectOK, GatesOK
<1> QED BY <1>2, <1>3, <1>4, <1>5, <1>7, <1>8, <1>9, <1>12, <1>13, <1>14, <1>15, HolderStep

\* An attempt leaves every earlier request behind.
LEMMA AttemptSInv ==
  ASSUME SInv, IInv', SoleSyncer, NEW p \in Procs, NEW t \in Tasks, Attempt(p, t)
  PROVE  SInv'
<1>1. PICK d : d = [task |-> t, phase |-> "outcome"]
  OBVIOUS
<1>2. PICK g : g = NoFrame
  OBVIOUS
<1>3. /\ Idle(p) /\ Drives(p, t, "provider")
      /\ state' = state /\ head' = head /\ requests' = requests
      /\ attempts' = [attempts EXCEPT ![t] = @ + 1]
      /\ frame' = frame /\ Rows' = Rows /\ drive' = [drive EXCEPT ![p] = d]
  BY <1>1 DEF Attempt, EnterPhase, Rows
<1>4. TablesOK /\ frame' = [frame EXCEPT ![p] = g]
  BY <1>2, <1>3, FrameFacts DEF Idle
<1>5. /\ g.request = 0 /\ g.queue = <<>> /\ g.todo = <<>>
      /\ d.task = t /\ d.phase = "outcome" /\ d # NoDrive
  <2>1. d.task = t /\ d.phase = "outcome"
    BY <1>1
  <2> QED BY <1>2, <2>1, NoFrameFacts
<1>6. /\ attempts[t] \in Nat /\ attempts'[t] = attempts[t] + 1
      /\ \A u \in Tasks : u # t => attempts'[u] = attempts[u]
      /\ \A q \in Procs : q # p => frame'[q] = frame[q] /\ drive'[q] = drive[q]
  BY <1>3, <1>4, ConfigAssumption DEF TablesOK
<1>7. Holds(p, t) /\ state[t] = "RUNNING"
  BY <1>3, DriverAtRest
<1>8. /\ p \in Drivers /\ \A q \in Procs : q # p => ~AtWork(q, t)
      /\ \A u \in Tasks : u # t => ~AtWork(p, u)
      /\ \A r \in Rows : requests[r].task = t =>
           ~Unresolved(r) /\ requests[r].attempt <= attempts[t]
  BY <1>7, HolderFacts
<1>9. Touches(p, t)
  BY <1>3, <1>6 DEF Touches
<1>10. GatesOK(t)'
  BY <1>3, <1>6, <1>8, GatesStay
<1>11. \A r \in Rows : requests[r].task = t => requests[r].attempt # attempts'[t]
  <2>1. \A r \in Rows : requests[r].attempt \in Nat
    BY <1>4, RowFacts, ConfigAssumption DEF Request
  <2> QED BY <1>6, <1>8, <2>1
<1>12. ~Crashes /\ ~Faults => EffectOK(t)'
  <2>1. state'[t] # "READY"
    BY <1>3, <1>7
  <2> QED BY <1>3, <1>7, <1>11, <2>1, HolderEffect
<1>13. HeldPlan(d, t, state'[t], head'[t], attempts'[t], g.todo)
  BY <1>3, <1>5, <1>7 DEF HeldPlan, Driving
<1>14. \A r \in Rows' : requests'[r].task = t =>
            ~Unresolved(r)' /\ (requests'[r].attempt = attempts'[t] => d.phase = "provider")
  BY <1>3, <1>8, <1>11 DEF Unresolved
<1> HIDE DEF HeldPlan, EffectOK, GatesOK
<1> QED BY <1>2, <1>3, <1>4, <1>5, <1>8, <1>9, <1>10, <1>12, <1>13, <1>14, HolderStep

LEMMA DriveSInv ==
  ASSUME SInv, IInv', SoleSyncer, NEW p \in Procs, NEW t \in Tasks, Drive(p, t)
  PROVE  SInv'
<1>1. CASE Begin(p, t) \/ Adopt(p, t) \/ Attempt(p, t)
  BY <1>1, BeginSInv, AdoptSInv, AttemptSInv
<1>2. CASE ProviderDone(p, t)
  BY <1>2, EndDriveSInv, KeepDrivingSInv DEF ProviderDone
<1>3. CASE GatesDone(p, t)
  BY <1>3, EndDriveSInv, KeepDrivingSInv DEF GatesDone
<1> QED BY <1>1, <1>2, <1>3 DEF Drive

-----------------------------------------------------------------------------
(***************************************************************************)
(* The invariant.                                                          *)
(***************************************************************************)
\* A sync opens no checkpoint and sets no head.
LEMMA SyncCalls ==
  ASSUME SInv, NEW p \in Procs, NEW do, Doing(p, do), frame[p].request # 0
  PROVE  do \in {"consult", "can_apply", "claim", "move", "require", "human_required"}
<1>1. frame[p].todo # <<>> /\ Arg(p).do = do
  BY DEF Doing, Arg
<1>2. PICK t, v, r, c, rest, s :
        /\ t = frame[p].task /\ v = frame[p].verdict /\ r = frame[p].request /\ c = Arg(p)
        /\ rest = Tail(frame[p].todo) /\ s = state[t]
  OBVIOUS
<1>3. SyncedCall(v, r, s, c, rest)
  BY <1>1, <1>2, SyncerCall
<1> QED BY <1>1, <1>2, <1>3 DEF SyncedCall, ApplyingCall

LEMMA ContinueSInv ==
  ASSUME SInv, IInv', SoleSyncer, NEW p \in Procs, Continue(p)
  PROVE  SInv'
<1>1. CASE ConsultRead(p) \/ CanApplyRead(p) \/ ClaimCommit(p) \/ ClaimRefused(p)
  BY <1>1, ConsultReadSync, CanApplyReadSync, ClaimCommitSync, ClaimRefusedSync
<1>2. CASE HumanRequiredRead(p)
  <2>1. frame[p].request # 0
    BY <1>2, OpenAtHand DEF HumanRequiredRead
  <2> QED BY <1>2, <2>1, HumanRequiredReadSync
<1>3. CASE MoveRead(p) \/ MoveCommit(p) \/ RequireRead(p) \/ Raise(p)
  BY <1>3, MoveReadHeld, MoveReadSync, MoveCommitHeld, MoveCommitSync, RequireReadHeld,
     RequireReadSync, RaiseHeld, RaiseSync
<1>4. CASE SetHeadCommit(p) \/ OpenRead(p) \/ OpenInsert(p)
  <2>1. frame[p].request = 0
    <3>1. Doing(p, "set_head") \/ Doing(p, "open") \/ Doing(p, "insert")
      BY <1>4 DEF SetHeadCommit, OpenRead, OpenInsert
    <3> QED BY <3>1, SyncCalls
  <2> QED BY <1>4, <2>1, SetHeadCommitHeld, OpenReadHeld, OpenInsertHeld
<1> QED BY <1>1, <1>2, <1>3, <1>4 DEF Continue

LEMMA InitSInv == Init => SInv
<1> SUFFICES ASSUME Init PROVE SInv
  OBVIOUS
<1>1. /\ state = [t \in Tasks |-> Absent] /\ requests = <<>>
      /\ drive = [p \in Procs |-> NoDrive] /\ frame = [p \in Procs |-> NoFrame]
  BY DEF Init, Ledger!Init, Absent, Ledger!Absent
<1>2. Rows = {}
  <2>1. Len(<<>>) = 0 /\ 1..0 = {}
    OBVIOUS
  <2> QED BY <1>1, <2>1 DEF Rows
<1>3. \A t \in Tasks, p \in Procs : ~AtWork(p, t)
  BY <1>1, NoFrameFacts, NoTaskAssumption DEF AtWork, Holds, Syncs
<1>4. \A p \in Procs : QueueOK(frame[p])
  BY <1>1, NoFrameFacts DEF QueueOK
<1>5. \A t \in Tasks : GatesOK(t) /\ EffectOK(t)
  BY <1>1, <1>2 DEF GatesOK, EffectOK, Absent
<1>6. \A t \in Tasks : TaskOK(t)
  BY <1>3, <1>5 DEF TaskOK, AtWork
<1> QED BY <1>4, <1>6, InitIInv DEF SInv

LEMMA NextSInv ==
  ASSUME SoleSyncer, Foreign = FALSE
  PROVE  SInv /\ [Next]_vars => SInv'
<1> SUFFICES ASSUME SInv, [Next]_vars PROVE SInv'
  OBVIOUS
<1>0. IInv'
  BY NextIInv DEF SInv
<1>1. CASE UNCHANGED vars
  <2>1. /\ state' = state /\ head' = head /\ attempts' = attempts /\ requests' = requests
        /\ drive' = drive /\ frame' = frame /\ Rows' = Rows
    BY <1>1 DEF vars, database, Rows
  <2>2. ASSUME NEW t \in Tasks PROVE TaskOK(t)'
    <3>1. TaskOK(t)
      BY DEF SInv
    <3>2. /\ GatesOK(t)' <=> GatesOK(t)
          /\ EffectOK(t)' <=> EffectOK(t)
      BY <2>1 DEF GatesOK, EffectOK, Unresolved, BeingApplied, MergeGate, RequestsOf, Holds
    <3>3. \A p \in Procs : /\ Holds(p, t)' <=> Holds(p, t)
                           /\ Syncs(p, t)' <=> Syncs(p, t)
                           /\ HoldOK(p, t)' <=> HoldOK(p, t)
                           /\ SyncOK(p, t)' <=> SyncOK(p, t)
      BY <2>1 DEF Holds, Syncs, HoldOK, SyncOK, Unresolved
    <3> HIDE DEF GatesOK, EffectOK
    <3> QED BY <3>1, <3>2, <3>3 DEF TaskOK, AtWork
  <2>3. \A p \in Procs : QueueOK(frame[p])'
    BY <2>1 DEF SInv, QueueOK, Unresolved
  <2> QED BY <1>0, <2>2, <2>3 DEF SInv
<1>2. ASSUME NEW p \in Procs, NEW t \in Tasks, Drive(p, t) \/ OpenForeign(p, t)
      PROVE  SInv'
  BY <1>0, <1>2, DriveSInv DEF OpenForeign
<1>3. ASSUME NEW p \in Procs, NEW r, Submit(p, r)
      PROVE  SInv'
  BY <1>0, <1>3, SubmitSInv
<1>4. ASSUME NEW p \in Procs, Sync(p)
      PROVE  SInv'
  BY <1>0, <1>4, StartSyncSInv DEF Sync
<1>5. ASSUME NEW p \in Procs, Continue(p) \/ Crash(p)
      PROVE  SInv'
  BY <1>0, <1>5, ContinueSInv, CrashSInv
<1> QED BY <1>1, <1>2, <1>3, <1>4, <1>5 DEF Next

LEMMA AlwaysSInv ==
  ASSUME SoleSyncer, Foreign = FALSE
  PROVE  Spec => []SInv
BY InitSInv, NextSInv, PTL DEF Spec

\* A state changes when a process makes the transition its method is at.
LEMMA TaskMoves ==
  ASSUME SInv, Next, NEW t \in Tasks, state[t] # Absent, state'[t] # state[t]
  PROVE  \E p \in Procs : /\ MoveCommit(p) /\ frame[p].task = t /\ frame[p].todo # <<>>
                          /\ Arg(p).do = "move" /\ Arg(p).to = state'[t]
<1>1. TablesOK
  BY TypeParts DEF SInv, IInv
<1>2. ASSUME NEW p \in Procs, NEW u \in Tasks, Begin(p, u) PROVE FALSE
  <2>1. state[u] = Absent /\ state' = [state EXCEPT ![u] = "PENDING"]
    BY <1>2 DEF Begin, Ledger!Create, Absent, Ledger!Absent
  <2> QED BY <1>1, <2>1 DEF TablesOK
<1>3. PICK p \in Procs : MoveCommit(p)
  BY <1>2, StateSteps
<1>4. frame[p].todo # <<>> /\ Arg(p).do = "move"
  BY <1>3 DEF MoveCommit, Doing, Arg
<1>5. state' = [state EXCEPT ![frame[p].task] = Arg(p).to]
  BY <1>3 DEF MoveCommit, Ledger!Move
<1>6. frame[p].task = t /\ Arg(p).to = state'[t]
  BY <1>1, <1>5 DEF TablesOK
<1> QED BY <1>3, <1>4, <1>6

\* Supervision makes a task run again on the verdict of the request of its last
\* attempt, which an answer in the port of the process grants.
LEMMA Resumption ==
  ASSUME SInv, Next, NEW t \in Tasks, state[t] \in Parked, state'[t] = "RUNNING"
  PROVE  \E p \in Syncers, r \in Rows :
           /\ requests[r].task = t /\ Granted(p, r)
           /\ \A x \in Rows : requests[x].task = t /\ requests[x].attempt = attempts[t] => x = r
<1>1. state[t] # Absent /\ state'[t] # state[t]
  BY DEF Parked, Absent
<1>2. PICK p \in Procs : /\ frame[p].task = t /\ frame[p].todo # <<>>
                         /\ Arg(p).do = "move" /\ Arg(p).to = "RUNNING"
  BY <1>1, TaskMoves
<1>3. PICK d, v, r, c, rest, s, h, n :
        /\ d = drive[p] /\ v = frame[p].verdict /\ r = frame[p].request /\ c = Arg(p)
        /\ rest = Tail(frame[p].todo) /\ s = state[t] /\ h = head[t] /\ n = attempts[t]
  OBVIOUS
<1>4. r # 0
  <2> SUFFICES ASSUME r = 0 PROVE FALSE
    OBVIOUS
  <2>1. HeldCall(d, t, s, h, n, c, rest)
    BY <1>2, <1>3, HolderCall
  <2> QED BY <1>2, <1>3, <2>1 DEF HeldCall
<1>5. Syncs(p, t) /\ SyncedCall(v, r, s, c, rest)
  BY <1>2, <1>3, <1>4, SyncerCall
<1>6. v \in {"CONTINUE", "HUMAN_RESUME"}
  BY <1>2, <1>3, <1>5 DEF SyncedCall, ApplyingCall
<1>7. Granted(p, r)
  BY <1>3, <1>6, FrameFacts DEF FrameOK
<1>8. /\ p \in Syncers /\ r \in Rows /\ requests[r].task = t
      /\ \A x \in Rows : requests[x].task = t /\ requests[x].attempt = attempts[t] => x = r
  BY <1>3, <1>5, SyncerFacts
<1> QED BY <1>7, <1>8

-----------------------------------------------------------------------------
\* With one syncer, whoever else dies or meets a busy database, a request that
\* was settled by CONTINUE, HUMAN_RESUME or HUMAN_BLOCK is never claimed again:
\* claim_supervision_verdict refuses only the same verdict, so that this rests on
\* the list being of unresolved requests and on nobody else settling them.
THEOREM SettledForGood ==
  ASSUME SoleSyncer, Foreign = FALSE
  PROVE  Spec => TerminalVerdictIsFinal
<1> DEFINE Final == \A r \in 1..Len(requests) :
                      requests[r].applied \in TerminalVerdicts =>
                        requests'[r].applied = requests[r].applied
<1>1. SInv /\ Next => Final
  <2> SUFFICES ASSUME SInv, Next, NEW r \in Rows, requests[r].applied \in TerminalVerdicts
               PROVE  requests'[r].applied = requests[r].applied
    BY DEF Rows
  <2>0. requests \in Seq(Request) /\ TablesOK
    BY TypeParts DEF SInv, IInv, TablesOK
  <2>1. ASSUME NEW p \in Procs, ClaimCommit(p)
        PROVE  requests'[r].applied = requests[r].applied
    <3>1. Unresolved(frame[p].request)
      BY <2>1, OpenAtHand DEF ClaimCommit
    <3>2. r # frame[p].request
      BY <3>1 DEF Unresolved
    <3>3. requests' = [requests EXCEPT ![frame[p].request].applied = frame[p].verdict]
      BY <2>1 DEF ClaimCommit, ClaimTxn
    <3> QED BY <3>2, <3>3
  <2>2. ASSUME NEW p \in Procs, OpenInsert(p)
        PROVE  requests'[r].applied = requests[r].applied
    <3>1. PICK row : row = Arg(p).row
      OBVIOUS
    <3>2. row \in Request /\ requests' = Append(requests, row)
      BY <2>2, <3>1, InsertedRow DEF OpenInsert
    <3>3. \A i \in 1..Len(requests) : requests'[i] = requests[i]
      BY <2>0, <3>2, AppendFacts
    <3> QED BY <3>3 DEF Rows
  <2>3. \/ \E p \in Procs : ClaimCommit(p)
        \/ \E p \in Procs : OpenInsert(p)
        \/ requests' = requests
    <3>1. ASSUME NEW p \in Procs, NEW u \in Tasks, Drive(p, u)
          PROVE  requests' = requests
      BY <3>1 DEF Drive, Begin, Adopt, Attempt, ProviderDone, GatesDone, EndDrive, KeepDriving,
         database
    <3>2. ASSUME NEW p \in Procs, Continue(p)
          PROVE  ClaimCommit(p) \/ OpenInsert(p) \/ requests' = requests
      BY <3>2 DEF Continue, MoveRead, MoveCommit, RequireRead, SetHeadCommit, HumanRequiredRead,
         OpenRead, ConsultRead, CanApplyRead, ClaimRefused, Raise, database
    <3>3. ASSUME NEW p \in Procs, NEW u, NEW x, OpenForeign(p, u) \/ Submit(p, x)
          PROVE  requests' = requests
      BY <3>3 DEF OpenForeign, Submit, SubmitHuman, SubmitSupervisor, database
    <3>4. ASSUME NEW p \in Procs, Sync(p) \/ Crash(p)
          PROVE  requests' = requests
      BY <3>4 DEF Sync, StartSync, Crash, database
    <3> QED BY <3>1, <3>2, <3>3, <3>4 DEF Next
  <2> QED BY <2>1, <2>2, <2>3
<1>2. UNCHANGED vars => Final
  BY DEF vars, database
<1>3. SInv /\ [Next]_vars => [Final]_vars
  BY <1>1, <1>2
<1>4. Spec => [][Final]_vars
  BY <1>3, AlwaysSInv, PTL DEF Spec
<1> QED BY <1>4 DEF TerminalVerdictIsFinal

\* A task never has two checkpoints of the manager open: the one of an attempt is
\* settled before the task is tried again.
THEOREM OneGateAtATime ==
  ASSUME SoleSyncer, Foreign = FALSE
  PROVE  Spec => []OneOpenGate
<1>1. SInv => OneOpenGate
  <2> SUFFICES ASSUME SInv, NEW t \in Tasks
               PROVE  Cardinality({r \in RequestsOf(t) :
                        Unresolved(r) /\ requests[r].checkpoint # "synthetic_denied_action"}) <= 1
    BY DEF OneOpenGate
  <2>1. PICK S : S = {r \in RequestsOf(t) :
                        Unresolved(r) /\ requests[r].checkpoint # "synthetic_denied_action"}
    OBVIOUS
  <2>2. GatesOK(t)
    BY DEF SInv, TaskOK
  <2>3. ASSUME NEW x \in S, NEW y \in S PROVE x = y
    <3>1. /\ x \in Rows /\ requests[x].task = t /\ Unresolved(x)
          /\ y \in Rows /\ requests[y].task = t /\ Unresolved(y)
      BY <2>1, <2>3 DEF RequestsOf, Rows
    <3> HIDE DEF Unresolved
    <3> QED BY <2>2, <3>1 DEF GatesOK
  <2>4. S = {} \/ \E x : S = {x}
    BY <2>3
  <2>5. Cardinality({}) = 0 /\ \A x : Cardinality({x}) = 1
    BY FS_EmptySet, FS_Singleton
  <2>6. Cardinality(S) \in {0, 1}
    <3>1. CASE S = {}
      BY <2>5, <3>1
    <3>2. CASE \E x : S = {x}
      BY <2>5, <3>2
    <3> QED BY <2>4, <3>1, <3>2
  <2> QED BY <2>1, <2>6
<1> QED BY <1>1, AlwaysSInv, PTL

\* While a process drives a task, only a method that this driver called takes the
\* task out of RUNNING or VERIFYING, also when it was taken up after a crash.
THEOREM DriverAlone ==
  ASSUME SoleSyncer, Foreign = FALSE
  PROVE  Spec => DriverOwnsActiveTask
<1> DEFINE Owned == \A t \in Tasks :
       Driven(t) /\ state[t] \in {"RUNNING", "VERIFYING"} /\ state'[t] # state[t]
         => \E p \in Drivers : /\ frame[p].task = t /\ frame[p].request = 0
                               /\ frame'[p] # frame[p]
<1>1. SInv /\ Next => Owned
  <2> SUFFICES ASSUME SInv, Next, NEW t \in Tasks, state[t] \in {"RUNNING", "VERIFYING"},
                      state'[t] # state[t]
               PROVE  \E p \in Drivers : /\ frame[p].task = t /\ frame[p].request = 0
                                         /\ frame'[p] # frame[p]
    OBVIOUS
  <2>1. PICK p \in Procs : MoveCommit(p) /\ frame[p].task = t /\ frame[p].todo # <<>>
    BY TaskMoves DEF Absent
  <2>2. frame[p].request = 0
    <3> SUFFICES ASSUME frame[p].request # 0 PROVE FALSE
      OBVIOUS
    <3>1. state[t] \in Parked
      BY <2>1, AtWorkOnFrame, SyncerFacts
    <3> QED BY <3>1 DEF Parked
  <2>3. p \in Drivers
    BY <2>1, <2>2, AtWorkOnFrame, HolderFacts
  <2>4. PICK g, rest : g = AfterCall(frame[p]) /\ rest = Tail(frame[p].todo)
    OBVIOUS
  <2>5. g.todo = rest
    <3>1. frame[p].todo # <<>>
      BY <2>1
    <3>2. Returned(g, frame[p], rest)
      BY <2>4, <3>1, AfterCallFacts
    <3> QED BY <2>2, <3>2, NoFrameFacts DEF Returned
  <2>6. frame[p].todo \in Seq(Instruction)
    BY FrameFacts DEF Frame
  <2>7. rest # frame[p].todo
    <3>1. Len(rest) = Len(frame[p].todo) - 1 /\ Len(frame[p].todo) \in Nat
      BY <2>1, <2>4, <2>6, TailFacts
    <3> QED BY <3>1
  <2>8. frame'[p] = g
    BY <2>1, <2>4, FrameFacts DEF MoveCommit, Returns
  <2> QED BY <2>1, <2>2, <2>3, <2>5, <2>7, <2>8
<1>2. UNCHANGED vars => Owned
  BY DEF vars, database
<1>3. SInv /\ [Next]_vars => [Owned]_vars
  BY <1>1, <1>2
<1>4. Spec => [][Owned]_vars
  BY <1>3, AlwaysSInv, PTL DEF Spec
<1> QED BY <1>4 DEF DriverOwnsActiveTask

\* A task that supervision holds runs again only on an answer of somebody policy
\* empowers, also when processes take up RUNNING tasks again.
THEOREM SoleSyncerNeedsAuthority ==
  ASSUME SoleSyncer, Foreign = FALSE
  PROVE  Spec => ResumeIsAuthorised
<1> DEFINE Resumes == \A t \in Tasks :
       state[t] \in {"READY", "BLOCKED", "WAITING_HUMAN"} /\ state'[t] = "RUNNING"
         => \E p \in Syncers, r \in RequestsOf(t) : Granted(p, r)
<1>1. SInv /\ Next => Resumes
  <2> SUFFICES ASSUME SInv, Next, NEW t \in Tasks, state[t] \in Parked, state'[t] = "RUNNING"
               PROVE  \E p \in Syncers, r \in RequestsOf(t) : Granted(p, r)
    BY DEF Parked
  <2>1. PICK p \in Syncers, r \in Rows : requests[r].task = t /\ Granted(p, r)
    BY Resumption
  <2> QED BY <2>1 DEF RequestsOf, Rows
<1>2. UNCHANGED vars => Resumes
  BY DEF vars, database
<1>3. SInv /\ [Next]_vars => [Resumes]_vars
  BY <1>1, <1>2
<1>4. Spec => [][Resumes]_vars
  BY <1>3, AlwaysSInv, PTL DEF Spec
<1> QED BY <1>4 DEF ResumeIsAuthorised

\* The merge gate opens on a human's approval of the request of the very head and
\* attempt that were verified: policy leaves merge to a human, and an answer to an
\* older checkpoint cannot be what is applied.
THEOREM MergeNeedsHuman ==
  ASSUME SoleSyncer, Foreign = FALSE
  PROVE  Spec => HumanGateHolds
<1> DEFINE Gated == \A t \in Tasks :
       state[t] = "WAITING_HUMAN" /\ state'[t] = "RUNNING" /\ MergeGate(t) # {}
         => \E p \in Syncers, r \in MergeGate(t) : Answer(human[p], r) = "APPROVED"
<1>1. SInv /\ Next => Gated
  <2> SUFFICES ASSUME SInv, Next, NEW t \in Tasks, state[t] = "WAITING_HUMAN",
                      state'[t] = "RUNNING", NEW x \in MergeGate(t)
               PROVE  \E p \in Syncers, r \in MergeGate(t) : Answer(human[p], r) = "APPROVED"
    OBVIOUS
  <2>1. /\ x \in Rows /\ requests[x].task = t /\ requests[x].attempt = attempts[t]
        /\ requests[x].checkpoint = "candidate_ready"
    BY DEF MergeGate, RequestsOf, Rows
  <2>2. PICK p \in Syncers, r \in Rows :
          /\ Granted(p, r)
          /\ \A y \in Rows : requests[y].task = t /\ requests[y].attempt = attempts[t] => y = r
    BY Resumption DEF Parked
  <2>3. x = r
    BY <2>1, <2>2
  <2>4. ~SupervisorMayGrant("candidate_ready")
    BY DEF SupervisorMayGrant, Capability, Decide, AllowedCapabilities, HumanCapabilities
  <2>5. Answer(human[p], x) = "APPROVED"
    BY <2>1, <2>2, <2>3, <2>4 DEF Granted
  <2> QED BY <2>5
<1>2. UNCHANGED vars => Gated
  BY DEF vars, database
<1>3. SInv /\ [Next]_vars => [Gated]_vars
  BY <1>1, <1>2
<1>4. Spec => [][Gated]_vars
  BY <1>3, AlwaysSInv, PTL DEF Spec
<1> QED BY <1>4 DEF HumanGateHolds

\* If no process dies and no store call fails, a verdict on record is the state of
\* its task: the claim and the moves that follow it are separate transactions, and
\* no other step comes between them.
THEOREM RecordedIsApplied ==
  ASSUME SoleSyncer, Foreign = FALSE, Crashes = FALSE, Faults = FALSE
  PROVE  Spec => []VerdictTakesEffect
<1>1. SInv => VerdictTakesEffect
  <2> SUFFICES ASSUME SInv, NEW r \in Rows, attempts[requests[r].task] = requests[r].attempt,
                      ~BeingApplied(r)
               PROVE  /\ requests[r].applied \in {"CONTINUE", "HUMAN_RESUME"} =>
                           state[requests[r].task] = "RUNNING"
                      /\ requests[r].applied = "HUMAN_BLOCK" =>
                           state[requests[r].task] = "BLOCKED"
    BY DEF VerdictTakesEffect, Rows
  <2>1. requests[r].task \in Tasks
    BY RowFacts, TypeParts DEF SInv, IInv
  <2>2. EffectOK(requests[r].task)
    BY <2>1 DEF SInv, TaskOK
  <2> QED BY <2>2 DEF EffectOK
<1> QED BY <1>1, AlwaysSInv, PTL

\* If no process dies and no store call fails, READY comes with the checkpoint of
\* the verified head as soon as the driver has let the task go, though the two are
\* written in separate transactions.
THEOREM ReadyIsOpen ==
  ASSUME SoleSyncer, Foreign = FALSE, Crashes = FALSE, Faults = FALSE
  PROVE  Spec => []ReadyHasCheckpoint
<1>1. SInv => ReadyHasCheckpoint
  <2> SUFFICES ASSUME SInv, NEW t \in Tasks, state[t] = "READY", ~Driven(t), MergeGate(t) = {}
               PROVE  FALSE
    BY DEF ReadyHasCheckpoint
  <2>1. EffectOK(t)
    BY DEF SInv, TaskOK
  <2>2. PICK p \in Procs : Holds(p, t)
    BY <2>1 DEF EffectOK
  <2>3. p \in Drivers
    BY <2>2, HolderFacts
  <2> QED BY <2>2, <2>3 DEF Holds, Driven
<1> QED BY <1>1, AlwaysSInv, PTL

-----------------------------------------------------------------------------
(***************************************************************************)
(* SupervisedTask is implemented.  What a sync has weighed is what it      *)
(* would weigh now, for neither the answers nor the task can change under  *)
(* it, and a task that was refused was refused for its last attempt and is *)
(* put aside.                                                              *)
(***************************************************************************)
Weighed(p) ==
  Governed(Poll(p, frame[p].request), requests[frame[p].request].checkpoint,
           state[frame[p].task])
WeighedOK(p) == Doing(p, "can_apply") \/ Doing(p, "claim") => frame[p].verdict = Weighed(p)

RefusedOK ==
  \A r \in Rows : requests[r].applied = "HUMAN_BLOCK" =>
    /\ requests[r].attempt = attempts[requests[r].task]
    /\ state[requests[r].task] \in Parked

RInv == SInv /\ RefusedOK /\ \A p \in Procs : WeighedOK(p)

\* The step of one process.
Acts(p) ==
  \/ \E t \in Tasks : Drive(p, t) \/ OpenForeign(p, t)
  \/ \E r \in Rows : Submit(p, r)
  \/ Sync(p) \/ Continue(p) \/ Crash(p)

LEMMA SomeoneActs == Next => \E p \in Procs : Acts(p)
BY DEF Next, Acts, Rows

\* It leaves the frames and the answers of the others alone.
LEMMA OthersStay ==
  ASSUME SInv, NEW p \in Procs, Acts(p), NEW q \in Procs, q # p
  PROVE  /\ frame'[q] = frame[q] /\ human'[q] = human[q] /\ supervisor'[q] = supervisor[q]
<1>1. frame \in [Procs -> Frame] /\ MemoryOK
  BY FrameFacts DEF SInv, IInv
<1>2. /\ human = [x \in Procs |-> human[x]] /\ supervisor = [x \in Procs |-> supervisor[x]]
  BY <1>1 DEF MemoryOK
<1>3. ASSUME NEW t \in Tasks, Drive(p, t) \/ OpenForeign(p, t)
      PROVE  frame'[q] = frame[q] /\ human' = human /\ supervisor' = supervisor
  BY <1>1, <1>3 DEF Drive, Begin, Adopt, Attempt, ProviderDone, GatesDone, EndDrive, KeepDriving,
     OpenForeign, Call, database, memory
<1>4. ASSUME NEW r \in Rows, Submit(p, r)
      PROVE  frame'[q] = frame[q] /\ human'[q] = human[q] /\ supervisor'[q] = supervisor[q]
  BY <1>1, <1>2, <1>4 DEF Submit, SubmitHuman, SubmitSupervisor
<1>5. ASSUME Sync(p)
      PROVE  frame'[q] = frame[q] /\ human' = human /\ supervisor' = supervisor
  BY <1>1, <1>5 DEF Sync, StartSync, memory
<1>6. ASSUME Continue(p)
      PROVE  frame'[q] = frame[q] /\ human' = human /\ supervisor' = supervisor
  BY <1>1, <1>6 DEF Continue, MoveRead, MoveCommit, RequireRead, SetHeadCommit, HumanRequiredRead,
     OpenRead, OpenInsert, ConsultRead, CanApplyRead, ClaimCommit, ClaimRefused, Raise, Returns,
     MethodReturns, memory
<1>7. ASSUME Crash(p)
      PROVE  frame'[q] = frame[q] /\ human'[q] = human[q] /\ supervisor'[q] = supervisor[q]
  BY <1>1, <1>2, <1>7 DEF Crash
<1> QED BY <1>3, <1>4, <1>5, <1>6, <1>7 DEF Acts

\* Requests change when one is opened or one is claimed.
LEMMA RequestSteps ==
  ASSUME NEW p \in Procs, Acts(p)
  PROVE  ClaimCommit(p) \/ OpenInsert(p) \/ requests' = requests
<1>1. ASSUME NEW u \in Tasks, Drive(p, u) PROVE requests' = requests
  BY <1>1 DEF Drive, Begin, Adopt, Attempt, ProviderDone, GatesDone, EndDrive, KeepDriving,
     database
<1>2. CASE Continue(p)
  BY <1>2 DEF Continue, MoveRead, MoveCommit, RequireRead, SetHeadCommit, HumanRequiredRead,
     OpenRead, ConsultRead, CanApplyRead, ClaimRefused, Raise, database
<1>3. ASSUME NEW u, NEW x, OpenForeign(p, u) \/ Submit(p, x) PROVE requests' = requests
  BY <1>3 DEF OpenForeign, Submit, SubmitHuman, SubmitSupervisor, database
<1>4. CASE Sync(p) \/ Crash(p)
  BY <1>4 DEF Sync, StartSync, Crash, database
<1> QED BY <1>1, <1>2, <1>3, <1>4 DEF Acts

\* The claim changes the verdict of one row, and a checkpoint adds one.
LEMMA ClaimedRow ==
  ASSUME SInv, NEW p \in Procs, ClaimCommit(p), NEW r, r = frame[p].request,
         NEW v, v = frame[p].verdict
  PROVE  /\ Rows' = Rows /\ r \in Rows /\ v \in Verdict
         /\ \A x \in Rows : /\ requests'[x].task = requests[x].task
                            /\ requests'[x].attempt = requests[x].attempt
                            /\ requests'[x].checkpoint = requests[x].checkpoint
                            /\ x # r => requests'[x].applied = requests[x].applied
         /\ requests'[r].applied = v
<1>1. Doing(p, "claim") /\ requests' = [requests EXCEPT ![r].applied = v]
  BY DEF ClaimCommit, ClaimTxn
<1>2. frame[p].todo # <<>> /\ r # 0
  BY <1>1, OpenAtHand
<1>3. requests \in Seq(Request) /\ r \in Rows
  BY <1>2, FrameFacts DEF TablesOK
<1>4. v \in Verdict
  <2>1. FrameOK(p, frame[p]) /\ frame \in [Procs -> Frame]
    BY FrameFacts
  <2>2. CallOK(p, frame[p], Arg(p)) /\ Arg(p).do = "claim"
    BY <1>1, <2>1, HeadFacts
  <2> QED BY <2>2 DEF CallOK
<1>5. PICK row : row = [requests[r] EXCEPT !.applied = v]
  OBVIOUS
<1>6. /\ row.applied = v /\ row.task = requests[r].task /\ row.attempt = requests[r].attempt
      /\ row.checkpoint = requests[r].checkpoint
  BY <1>3, <1>5, RowFacts, FrameFacts DEF Request
<1>7. requests' = [requests EXCEPT ![r] = row]
  BY <1>1, <1>5
<1>8. DOMAIN requests = Rows /\ Len(requests) \in Nat
  BY <1>3 DEF Rows
<1>9. \A x \in Rows : requests'[x] = IF x = r THEN row ELSE requests[x]
  BY <1>7, <1>8
<1>10. Rows' = Rows
  <2>1. Len(requests') = Len(requests)
    BY <1>3, <1>7
  <2> QED BY <2>1 DEF Rows
<1> QED BY <1>3, <1>4, <1>6, <1>9, <1>10

LEMMA InsertedRows ==
  ASSUME SInv, NEW p \in Procs, OpenInsert(p), NEW row, row = Arg(p).row,
         NEW new, new = Len(requests) + 1
  PROVE  /\ Rows' = Rows \cup {new} /\ new \notin Rows /\ requests'[new] = row
         /\ \A x \in Rows : requests'[x] = requests[x]
<1>1. requests \in Seq(Request) /\ row \in Request /\ requests' = Append(requests, row)
  BY FrameFacts, InsertedRow DEF OpenInsert, TablesOK
<1>2. /\ Len(requests) \in Nat /\ Len(requests') = Len(requests) + 1
      /\ requests'[Len(requests) + 1] = row
      /\ \A i \in 1..Len(requests) : requests'[i] = requests[i]
  BY <1>1, AppendFacts
<1> QED BY <1>2 DEF Rows

\* The calls by which a claimed verdict is applied.
Moving == {"move", "require", "human_required"}

LEMMA AppliedTodo ==
  ASSUME NEW v, NEW s, NEW todo, Applying(v, s, todo), s \in Parked, v = "CONTINUE" => s # "READY"
  PROVE  todo # <<>> /\ Head(todo).do \in Moving
<1>1. PICK c, rest : c = Head(todo) /\ rest = Tail(todo)
  OBVIOUS
<1>2. todo # <<>> /\ ApplyingCall(v, s, c, rest)
  BY <1>1, ApplyingFacts
<1> QED BY <1>1, <1>2 DEF ApplyingCall, Moving

\* What a sync that applies a verdict does next: more of it, or another request.
LEMMA AppliedCall ==
  ASSUME SInv, NEW p \in Procs, frame[p].request # 0, frame[p].todo # <<>>,
         Head(frame[p].todo).do \in Moving, NEW t, t = frame[p].task
  PROVE  /\ t \in Tasks /\ Syncs(p, t) /\ Applies(p, t)
         /\ requests[frame[p].request].applied = frame[p].verdict
         /\ Applying(frame[p].verdict, state[t], frame[p].todo)
<1>1. t \in Tasks /\ Syncs(p, t)
  BY AtWorkOnFrame
<1>2. SyncOK(p, t)
  BY <1>1, SyncerFacts
<1>3. PICK todo : todo = frame[p].todo
  OBVIOUS
<1>4. todo \notin {<<Consult>>, <<CanApply>>, <<Claim>>}
  BY <1>3, ShortPlans, CallKinds DEF Moving
<1>5. Applies(p, t)
  BY <1>1 DEF Applies, Doing, Moving, Syncs
<1> HIDE DEF Applying
<1> QED BY <1>1, <1>2, <1>3, <1>4, <1>5 DEF SyncOK

-----------------------------------------------------------------------------
(***************************************************************************)
(* What is shown.                                                          *)
(***************************************************************************)
LEMMA AppliesFacts ==
  ASSUME SInv, NEW p \in Procs, NEW t \in Tasks, Applies(p, t)
  PROVE  /\ Syncs(p, t) /\ p \in Syncers /\ frame[p].todo # <<>> /\ Head(frame[p].todo).do \in Moving
         /\ ~Doing(p, "consult") /\ ~Doing(p, "can_apply") /\ ~Doing(p, "claim")
<1>1. Syncs(p, t) /\ frame[p].todo # <<>> /\ Head(frame[p].todo).do \in Moving
  BY DEF Applies, Syncs, Doing, Moving
<1> QED BY <1>1, FrameFacts DEF Syncs, Doing, Moving

\* A task shows where the verdict takes it that a sync applies, else its state.
ShownView ==
  \A t \in Tasks :
    /\ (\A q \in Procs : ~Applies(q, t)) => Shown(t) = state[t]
    /\ \A q \in Procs : Applies(q, t) => Shown(t) = Outcome(frame[q].verdict)

LEMMA ShownIs == SInv => ShownView
<1> SUFFICES ASSUME SInv, NEW t \in Tasks
             PROVE  /\ (\A q \in Procs : ~Applies(q, t)) => Shown(t) = state[t]
                    /\ \A q \in Procs : Applies(q, t) => Shown(t) = Outcome(frame[q].verdict)
  BY DEF ShownView
<1>1. (\A q \in Procs : ~Applies(q, t)) => Shown(t) = state[t]
  BY DEF Shown, Procs
<1>2. ASSUME NEW p \in Procs, Applies(p, t)
      PROVE  Shown(t) = Outcome(frame[p].verdict)
  <2>1. p \in Syncers /\ \A q \in Syncers : Applies(q, t) => q = p
    BY <1>2, AppliesFacts, OneTask DEF AtWork, Procs
  <2>2. (CHOOSE q \in Syncers : Applies(q, t)) = p
    BY <1>2, <2>1
  <2> QED BY <1>2, <2>1, <2>2 DEF Shown
<1> QED BY <1>1, <1>2

\* What a step of p leaves of what u shows: the state of a task it does not apply
\* a verdict to, and the outcome of the verdict it applies.
LEMMA ShownAfter ==
  ASSUME SInv, SInv', NEW p \in Procs, \A q \in Procs : q # p => frame'[q] = frame[q],
         NEW u \in Tasks,
         \/ ~Applies(p, u) /\ ~Applies(p, u)' /\ state'[u] = state[u]
         \/ Applies(p, u) /\ Applies(p, u)' /\ frame'[p].verdict = frame[p].verdict
         \/ Applies(p, u) /\ ~Applies(p, u)' /\ state'[u] = Outcome(frame[p].verdict)
  PROVE  Shown(u)' = Shown(u)
<1>1. ShownView /\ ShownView'
  BY ShownIs, PTL
<1>2. \A q \in Procs : q # p => (Applies(q, u)' <=> Applies(q, u))
  BY DEF Applies, Doing
<1>3. CASE ~Applies(p, u) /\ ~Applies(p, u)' /\ state'[u] = state[u]
  <2>1. CASE \E q \in Procs : Applies(q, u)
    <3>1. PICK q \in Procs : Applies(q, u)
      BY <2>1
    <3>2. Applies(q, u)' /\ frame'[q] = frame[q]
      BY <1>2, <1>3, <3>1
    <3>3. Shown(u) = Outcome(frame[q].verdict) /\ Shown(u)' = Outcome(frame'[q].verdict)
      BY <1>1, <3>1, <3>2 DEF ShownView, Outcome
    <3> QED BY <3>2, <3>3
  <2>2. CASE \A q \in Procs : ~Applies(q, u)
    <3>1. \A q \in Procs : ~Applies(q, u)'
      BY <1>2, <1>3, <2>2
    <3>2. Shown(u) = state[u] /\ Shown(u)' = state'[u]
      BY <1>1, <2>2, <3>1 DEF ShownView
    <3> QED BY <1>3, <3>2
  <2> QED BY <2>1, <2>2
<1>4. CASE Applies(p, u) /\ Applies(p, u)' /\ frame'[p].verdict = frame[p].verdict
  <2>1. Shown(u) = Outcome(frame[p].verdict) /\ Shown(u)' = Outcome(frame'[p].verdict)
    BY <1>1, <1>4 DEF ShownView, Outcome
  <2> QED BY <1>4, <2>1
<1>5. CASE Applies(p, u) /\ ~Applies(p, u)' /\ state'[u] = Outcome(frame[p].verdict)
  <2>1. \A q \in Procs : q # p => ~Applies(q, u)
    BY <1>5, AppliesFacts, OneTask DEF AtWork
  <2>2. \A q \in Procs : ~Applies(q, u)'
    BY <1>2, <1>5, <2>1
  <2>3. Shown(u) = Outcome(frame[p].verdict) /\ Shown(u)' = state'[u]
    BY <1>1, <1>5, <2>2 DEF ShownView
  <2> QED BY <1>5, <2>3
<1> QED BY <1>3, <1>4, <1>5

-----------------------------------------------------------------------------
(***************************************************************************)
(* What a step of a process is.                                            *)
(***************************************************************************)
LEMMA VisitHead ==
  \A list : Visit(list).todo = <<>> \/ Head(Visit(list).todo).do = "consult"
BY NoFrameFacts, ShortPlans, CallKinds DEF Visit, NoFrame

\* Outside a sync a process goes on with what its driver called, or starts on
\* the first request it lists.
LEMMA OutsideStep ==
  ASSUME SInv, NEW p \in Procs, Acts(p), frame[p].request = 0
  PROVE  frame'[p].request = 0 \/ frame'[p].todo = <<Consult>>
<1>0. frame \in [Procs -> Frame] /\ frame[p] \in Frame /\ frame[p].queue = <<>>
  BY FrameFacts
<1>1. /\ \A u, plan : Call(p, u, plan) => frame'[p].request = 0
      /\ \A list : frame' = [frame EXCEPT ![p] = Visit(list)] =>
           frame'[p].request = 0 \/ frame'[p].todo = <<Consult>>
      /\ frame' = frame => frame'[p].request = 0
      /\ frame' = [frame EXCEPT ![p] = NoFrame] => frame'[p].request = 0
      /\ MethodReturns(p) => frame'[p] = NoFrame
  <2>1. ASSUME NEW u, NEW plan, Call(p, u, plan) PROVE frame'[p].request = 0
    <3>1. PICK g : g = [NoFrame EXCEPT !.task = u, !.todo = plan]
      OBVIOUS
    <3> QED BY <1>0, <2>1, <3>1 DEF Call, NoFrame
  <2>2. ASSUME NEW list PROVE Visit(list).request = 0 \/ Visit(list).todo = <<Consult>>
    BY NoFrameFacts DEF Visit, NoFrame
  <2>3. Visit(<<>>) = NoFrame
    BY DEF Visit
  <2> QED BY <1>0, <2>1, <2>2, <2>3, NoFrameFacts DEF MethodReturns
<1>2. ASSUME NEW u \in Tasks, Drive(p, u) \/ OpenForeign(p, u)
      PROVE  frame'[p].request = 0
  BY <1>1, <1>2 DEF Drive, Begin, Adopt, Attempt, ProviderDone, GatesDone, EndDrive, KeepDriving,
     OpenForeign
<1>3. ASSUME NEW r, Submit(p, r)
      PROVE  frame'[p].request = 0
  BY <1>1, <1>3 DEF Submit, SubmitHuman, SubmitSupervisor
<1>4. CASE Sync(p)
  BY <1>1, <1>4 DEF Sync, StartSync
<1>5. CASE Crash(p)
  BY <1>1, <1>5 DEF Crash
<1>6. frame[p].todo # <<>> /\ Returns(p) => frame'[p].request = 0
  <2> SUFFICES ASSUME frame[p].todo # <<>>, Returns(p) PROVE frame'[p].request = 0
    OBVIOUS
  <2>1. PICK g, rest : g = AfterCall(frame[p]) /\ rest = Tail(frame[p].todo)
    OBVIOUS
  <2>2. Returned(g, frame[p], rest)
    BY <2>1, AfterCallFacts
  <2> QED BY <1>0, <2>1, <2>2, NoFrameFacts DEF Returned, Returns
<1>7. CASE MoveRead(p)
  BY <1>0, <1>7 DEF MoveRead, Frame
<1>8. CASE MoveCommit(p) \/ RequireRead(p) \/ SetHeadCommit(p) \/ OpenInsert(p)
  BY <1>6, <1>8 DEF MoveCommit, RequireRead, SetHeadCommit, OpenInsert, Doing
<1>9. CASE OpenRead(p)
  <2>1. PICK todo : \/ Returns(p)
                    \/ frame' = [frame EXCEPT ![p].todo = todo]
    BY <1>9 DEF OpenRead
  <2>2. frame[p].todo # <<>>
    BY <1>9 DEF OpenRead, Doing
  <2> QED BY <1>0, <1>6, <2>1, <2>2 DEF Frame
<1>10. CASE HumanRequiredRead(p) \/ ConsultRead(p) \/ CanApplyRead(p) \/ ClaimCommit(p)
            \/ ClaimRefused(p)
  <2>1. \E do \in {"human_required", "consult", "can_apply", "claim"} : Doing(p, do)
    BY <1>10 DEF HumanRequiredRead, ConsultRead, CanApplyRead, ClaimCommit, ClaimRefused
  <2> QED BY <2>1, OpenAtHand
<1>11. CASE Raise(p)
  BY <1>1, <1>11, NoFrameFacts DEF Raise
<1> QED BY <1>2, <1>3, <1>4, <1>5, <1>7, <1>8, <1>9, <1>10, <1>11 DEF Acts, Continue

\* A sync that applies a verdict goes on applying it, and turns to its next request
\* once the task is where the verdict takes it.
Applied(p, t, v) ==
  /\ Applies(p, t) /\ t \in Tasks /\ requests' = requests /\ attempts' = attempts
  /\ human' = human /\ supervisor' = supervisor
  /\ \A u \in Tasks : u # t => state'[u] = state[u]
  /\ \/ frame'[p] = Visit(frame[p].queue) /\ state'[t] = Outcome(v)
     \/ /\ frame'[p].task = t /\ frame'[p].request # 0 /\ frame'[p].verdict = v
        /\ frame'[p].todo # <<>> /\ Head(frame'[p].todo).do \in Moving

LEMMA AppliedStep ==
  ASSUME SInv, NEW p \in Procs, frame[p].request # 0,
         MoveRead(p) \/ MoveCommit(p) \/ RequireRead(p) \/ HumanRequiredRead(p)
  PROVE  Applied(p, frame[p].task, frame[p].verdict)
<1>0. frame \in [Procs -> Frame] /\ frame[p] \in Frame /\ state \in [Tasks -> RowState]
  BY FrameFacts DEF TablesOK
<1>1. PICK t, v, r, c, rest, s :
        /\ t = frame[p].task /\ v = frame[p].verdict /\ r = frame[p].request /\ c = Arg(p)
        /\ rest = Tail(frame[p].todo) /\ s = state[t]
  OBVIOUS
<1>2. frame[p].todo # <<>> /\ c.do \in Moving
  BY <1>1 DEF MoveRead, MoveCommit, RequireRead, HumanRequiredRead, Doing, Arg, Moving
<1>3. /\ t \in Tasks /\ s \in Parked /\ SyncedCall(v, r, s, c, rest)
      /\ v = "CONTINUE" => s # "READY"
  BY <1>1, <1>2, SyncerCall
<1>4. ApplyingCall(v, s, c, rest)
  BY <1>2, <1>3 DEF SyncedCall, Moving
<1>5. Applies(p, t)
  BY <1>1, <1>2, AppliedCall DEF Arg
<1>6. /\ requests' = requests /\ attempts' = attempts /\ human' = human
      /\ supervisor' = supervisor
  BY DEF MoveRead, MoveCommit, RequireRead, HumanRequiredRead, database, memory
<1>7. PICK g : g = AfterCall(frame[p])
  OBVIOUS
<1>8. /\ rest = <<>> => g = Visit(frame[p].queue)
      /\ rest # <<>> => /\ g.task = t /\ g.request = r /\ g.verdict = v /\ g.todo = rest
  <2>1. Returned(g, frame[p], rest)
    BY <1>1, <1>2, <1>7, AfterCallFacts
  <2> QED BY <1>1, <2>1 DEF Returned
<1>9. ASSUME NEW x \in {s, "WAITING_HUMAN"}, Applying(v, x, rest),
             v = "CONTINUE" => x # "READY"
      PROVE  rest # <<>> /\ Head(rest).do \in Moving
  BY <1>3, <1>9, AppliedTodo DEF Parked
<1>10. CASE MoveRead(p)
  <2>1. /\ frame'[p].task = t /\ frame'[p].request = r /\ frame'[p].verdict = v
        /\ frame'[p].todo = frame[p].todo /\ state' = state
    BY <1>0, <1>1, <1>10 DEF MoveRead, Frame, database
  <2> QED BY <1>1, <1>2, <1>3, <1>5, <1>6, <2>1 DEF Applied, Arg
<1>11. CASE MoveCommit(p)
  <2>1. frame'[p] = g /\ state' = [state EXCEPT ![t] = c.to] /\ c.do = "move"
    BY <1>0, <1>1, <1>7, <1>11 DEF MoveCommit, Ledger!Move, Returns, Doing, Arg
  <2>2. state'[t] = c.to /\ \A u \in Tasks : u # t => state'[u] = state[u]
    BY <1>0, <1>3, <2>1
  <2>3. CASE rest = <<>>
    <3>1. c.to = Outcome(v)
      BY <1>4, <2>1, <2>3 DEF ApplyingCall, Outcome
    <3> QED BY <1>1, <1>3, <1>5, <1>6, <1>8, <2>1, <2>2, <2>3, <3>1 DEF Applied
  <2>4. CASE rest # <<>>
    <3>1. c.to = "WAITING_HUMAN" /\ Applying(v, c.to, rest)
      BY <1>4, <2>1, <2>4 DEF ApplyingCall
    <3>2. Head(rest).do \in Moving
      <4> HIDE DEF Applying
      <4> QED BY <1>9, <3>1
    <3> QED BY <1>1, <1>3, <1>5, <1>6, <1>8, <2>1, <2>2, <2>4, <3>2 DEF Applied
  <2> QED BY <2>3, <2>4
<1>12. CASE RequireRead(p)
  <2>1. frame'[p] = g /\ state' = state /\ c.do = "require"
    BY <1>0, <1>1, <1>7, <1>12 DEF RequireRead, Returns, Doing, Arg, database
  <2>2. rest # <<>> /\ Applying(v, s, rest)
    BY <1>4, <2>1 DEF ApplyingCall
  <2>3. Head(rest).do \in Moving
    <3> HIDE DEF Applying
    <3> QED BY <1>3, <1>9, <2>2
  <2> QED BY <1>1, <1>3, <1>5, <1>6, <1>8, <2>1, <2>2, <2>3 DEF Applied
<1>13. CASE HumanRequiredRead(p)
  <2>1. state' = state /\ c.do = "human_required"
    BY <1>1, <1>13 DEF HumanRequiredRead, Doing, Arg, database
  <2>2. /\ rest = <<>> => v = "HUMAN_REQUIRED"
        /\ s = "WAITING_HUMAN" => rest = <<>> \/ Applying(v, s, rest)
        /\ s # "WAITING_HUMAN" => Applying(v, s, <<Move("WAITING_HUMAN")>> \o rest)
    BY <1>4, <2>1 DEF ApplyingCall
  <2>3. CASE s = "WAITING_HUMAN" /\ rest = <<>>
    <3>1. frame'[p] = g
      BY <1>0, <1>1, <1>7, <1>13, <2>3 DEF HumanRequiredRead, Returns
    <3>2. Outcome(v) = "WAITING_HUMAN"
      BY <2>2, <2>3 DEF Outcome
    <3> QED BY <1>1, <1>3, <1>5, <1>6, <1>8, <2>1, <2>3, <3>1, <3>2 DEF Applied
  <2>4. CASE s = "WAITING_HUMAN" /\ rest # <<>>
    <3>1. frame'[p] = g
      BY <1>0, <1>1, <1>7, <1>13, <2>4 DEF HumanRequiredRead, Returns
    <3>2. Head(rest).do \in Moving
      <4> HIDE DEF Applying
      <4> QED BY <1>3, <1>9, <2>2, <2>4
    <3> QED BY <1>1, <1>3, <1>5, <1>6, <1>8, <2>1, <2>4, <3>1, <3>2 DEF Applied
  <2>5. CASE s # "WAITING_HUMAN"
    <3>1. PICK todo : todo = <<Move("WAITING_HUMAN")>> \o rest
      OBVIOUS
    <3>2. frame' = [frame EXCEPT ![p].todo = todo]
      BY <1>1, <1>13, <2>5, <3>1 DEF HumanRequiredRead
    <3>3. /\ frame'[p].task = t /\ frame'[p].request = r /\ frame'[p].verdict = v
          /\ frame'[p].todo = todo
      BY <1>0, <1>1, <3>2 DEF Frame
    <3>4. todo # <<>> /\ Head(todo).do \in Moving
      <4>1. Applying(v, s, todo)
        BY <2>2, <2>5, <3>1
      <4> HIDE DEF Applying
      <4> QED BY <1>3, <4>1, AppliedTodo
    <3> QED BY <1>1, <1>3, <1>5, <1>6, <2>1, <3>3, <3>4 DEF Applied
  <2> QED BY <2>3, <2>4, <2>5
<1> QED BY <1>10, <1>11, <1>12, <1>13

\* A sync weighs a verdict, claims it or applies it; none of its calls fails.
LEMMA SyncSteps ==
  ASSUME SInv, ~Crashes, ~Faults, NEW p \in Procs, Acts(p), frame[p].request # 0
  PROVE  \/ ConsultRead(p) \/ CanApplyRead(p) \/ ClaimRefused(p) \/ ClaimCommit(p)
         \/ MoveRead(p) \/ MoveCommit(p) \/ RequireRead(p) \/ HumanRequiredRead(p)
<1>1. ~Idle(p) /\ frame[p].todo # <<>>
  BY FrameFacts, NoFrameFacts DEF Idle
<1>2. ASSUME NEW u \in Tasks, Drive(p, u) \/ OpenForeign(p, u) PROVE FALSE
  <2>1. drive[p] = NoDrive
    BY <1>1, AtWorkOnFrame
  <2> QED BY <1>1, <1>2, <2>1 DEF Drive, Begin, Adopt, Attempt, ProviderDone, GatesDone, EndDrive,
       KeepDriving, OpenForeign
<1>3. ASSUME NEW r, Submit(p, r) PROVE FALSE
  BY <1>1, <1>3 DEF Submit, SubmitHuman, SubmitSupervisor, MaySubmit
<1>4. ASSUME Sync(p) \/ Crash(p) PROVE FALSE
  BY <1>1, <1>4 DEF Sync, StartSync, Crash
<1>5. ASSUME SetHeadCommit(p) \/ OpenRead(p) \/ OpenInsert(p) PROVE FALSE
  <2>1. \E do \in {"set_head", "open", "insert"} : Doing(p, do)
    BY <1>5 DEF SetHeadCommit, OpenRead, OpenInsert
  <2> QED BY <2>1, SyncCalls
<1>6. ASSUME Raise(p) PROVE FALSE
  <2>1. Fails(p)
    BY <1>6 DEF Raise
  <2>2. PICK t, v, r, c, rest, s :
          /\ t = frame[p].task /\ v = frame[p].verdict /\ r = frame[p].request /\ c = Arg(p)
          /\ rest = Tail(frame[p].todo) /\ s = state[t]
    OBVIOUS
  <2>3. t \in Tasks /\ Syncs(p, t) /\ SyncedCall(v, r, s, c, rest)
    BY <1>1, <2>2, SyncerCall
  <2>4. frame[p].read \in {"none", s}
    BY <2>2, <2>3, SyncerFacts DEF SyncOK
  <2>5. c.do \in {"move", "require", "set_head", "insert"}
    BY <2>1, <2>2 DEF Fails, Doing, Arg
  <2>6. ApplyingCall(v, s, c, rest)
    BY <2>3, <2>5 DEF SyncedCall
  <2>7. /\ c.do \in {"move", "require", "human_required"}
        /\ c.do = "move" => TransitionAllowed(s, c.to)
        /\ c.do = "require" => c.in = s
    BY <2>6 DEF ApplyingCall
  <2> QED BY <2>1, <2>2, <2>4, <2>7 DEF Fails, Doing, Arg
<1> QED BY <1>2, <1>3, <1>4, <1>5, <1>6 DEF Acts, Continue

\* A call that weighs a verdict leaves the verdict of this moment, or turns to the
\* next request.
LEMMA WeighingStep ==
  ASSUME SInv, NEW p \in Procs, WeighedOK(p),
         ConsultRead(p) \/ CanApplyRead(p) \/ ClaimRefused(p)
  PROVE  /\ UNCHANGED <<database, memory>>
         /\ \/ frame'[p] = Visit(frame[p].queue)
            \/ /\ frame'[p].task = frame[p].task /\ frame'[p].request = frame[p].request
               /\ frame'[p].todo \in {<<CanApply>>, <<Claim>>} /\ frame'[p].verdict = Weighed(p)
         /\ \A u \in Tasks : ~Applies(p, u)
<1>0. frame \in [Procs -> Frame] /\ frame[p] \in Frame
  BY FrameFacts
<1>1. UNCHANGED <<database, memory>>
  BY DEF ConsultRead, CanApplyRead, ClaimRefused
<1>2. \E do \in {"consult", "can_apply", "claim"} : Doing(p, do)
  BY DEF ConsultRead, CanApplyRead, ClaimRefused
<1>3. \A u \in Tasks : ~Applies(p, u)
  BY <1>2 DEF Applies, Doing
<1>4. CASE frame' = [frame EXCEPT ![p] = Visit(frame[p].queue)]
  BY <1>0, <1>1, <1>3, <1>4
<1>5. CASE ConsultRead(p) /\ ~MethodReturns(p)
  <2>1. PICK v : v = Weighed(p)
    OBVIOUS
  <2>2. frame' = [frame EXCEPT ![p].verdict = v, ![p].todo = <<CanApply>>]
    BY <1>5, <2>1 DEF ConsultRead, Weighed
  <2>3. /\ frame'[p].task = frame[p].task /\ frame'[p].request = frame[p].request
        /\ frame'[p].todo = <<CanApply>> /\ frame'[p].verdict = v
    BY <1>0, <2>2 DEF Frame
  <2> QED BY <1>1, <1>3, <2>1, <2>3
<1>6. CASE CanApplyRead(p) /\ ~MethodReturns(p)
  <2>1. frame' = [frame EXCEPT ![p].todo = <<Claim>>] /\ Doing(p, "can_apply")
    BY <1>6 DEF CanApplyRead
  <2>2. /\ frame'[p].task = frame[p].task /\ frame'[p].request = frame[p].request
        /\ frame'[p].todo = <<Claim>> /\ frame'[p].verdict = frame[p].verdict
    BY <1>0, <2>1 DEF Frame
  <2> QED BY <1>1, <1>3, <2>1, <2>2 DEF WeighedOK
<1> QED BY <1>4, <1>5, <1>6 DEF ClaimRefused, MethodReturns

\* What a claim leaves to do.
LEMMA ClaimingStep ==
  ASSUME SInv, NEW p \in Procs, ClaimCommit(p), NEW t, t = frame[p].task
  PROVE  /\ frame'[p].task = t /\ frame'[p].request = frame[p].request
         /\ frame'[p].verdict = frame[p].verdict
         /\ frame'[p].todo # <<>> /\ Head(frame'[p].todo).do \in Moving
         /\ \A u \in Tasks : ~Applies(p, u)
         /\ t \in Tasks /\ Syncs(p, t) /\ Unresolved(frame[p].request)
<1>0. frame \in [Procs -> Frame] /\ frame[p] \in Frame
  BY FrameFacts
<1>1. Doing(p, "claim")
  BY DEF ClaimCommit
<1>2. /\ frame[p].todo # <<>> /\ frame[p].request # 0 /\ t \in Tasks
      /\ Unresolved(frame[p].request)
  BY <1>1, OpenAtHand
<1>3. Syncs(p, t)
  BY <1>2, AtWorkOnFrame
<1>4. PICK v, todo : v = frame[p].verdict /\ todo = Effect(v)
  OBVIOUS
<1>5. /\ frame'[p].task = t /\ frame'[p].request = frame[p].request
      /\ frame'[p].verdict = v /\ frame'[p].todo = todo
  BY <1>0, <1>4 DEF ClaimCommit, Frame
<1>6. v \in Verdict
  BY <1>4, ClaimedRow
<1>7. state[t] \in Parked /\ (v = "CONTINUE" => state[t] # "READY")
  BY <1>2, <1>3, <1>4, SyncerFacts DEF SyncOK
<1>8. todo # <<>> /\ Head(todo).do \in Moving
  <2>1. PICK s : s = state[t]
    OBVIOUS
  <2>2. Applying(v, s, todo)
    BY <1>4, <1>6, EffectApplies
  <2> HIDE DEF Applying
  <2> QED BY <1>7, <2>1, <2>2, AppliedTodo
<1>9. \A u \in Tasks : ~Applies(p, u)
  BY <1>1 DEF Applies, Doing
<1> QED BY <1>2, <1>3, <1>4, <1>5, <1>8, <1>9

-----------------------------------------------------------------------------
(***************************************************************************)
(* The invariant of the refinement.                                        *)
(***************************************************************************)
LEMMA AttemptSteps ==
  ASSUME NEW p \in Procs, Acts(p)
  PROVE  attempts' = attempts \/ (requests' = requests /\ \E t \in Tasks : Attempt(p, t))
<1>1. ASSUME NEW u \in Tasks, Drive(p, u), ~Attempt(p, u) PROVE attempts' = attempts
  BY <1>1 DEF Drive, Begin, Adopt, ProviderDone, GatesDone, EndDrive, KeepDriving, database
<1>2. CASE Continue(p)
  BY <1>2 DEF Continue, MoveRead, MoveCommit, RequireRead, SetHeadCommit, HumanRequiredRead,
     OpenRead, OpenInsert, ConsultRead, CanApplyRead, ClaimCommit, ClaimRefused, Raise, database
<1>3. ASSUME NEW u, NEW x, OpenForeign(p, u) \/ Submit(p, x) PROVE attempts' = attempts
  BY <1>3 DEF OpenForeign, Submit, SubmitHuman, SubmitSupervisor, database
<1>4. CASE Sync(p) \/ Crash(p)
  BY <1>4 DEF Sync, StartSync, Crash, database
<1>5. ASSUME NEW u \in Tasks, Attempt(p, u) PROVE requests' = requests
  BY <1>5 DEF Attempt
<1> QED BY <1>1, <1>2, <1>3, <1>4, <1>5 DEF Acts

\* No driver holds a refused task: that an attempt's request is answered while a
\* driver holds the task means that the answer has set it RUNNING.
LEMMA RefusedNotHeld ==
  ASSUME SInv, RefusedOK, NEW r \in Rows, requests[r].applied = "HUMAN_BLOCK",
         NEW p \in Procs, NEW t \in Tasks, requests[r].task = t
  PROVE  ~Holds(p, t)
<1> SUFFICES ASSUME Holds(p, t) PROVE FALSE
  OBVIOUS
<1>1. requests[r].attempt = attempts[t] /\ state[t] \in Parked
  BY DEF RefusedOK
<1>2. HoldOK(p, t) /\ drive[p].phase = "provider"
  BY <1>1, HolderFacts
<1>3. drive[p] # NoDrive
  BY <1>2, NoFrameFacts
<1> QED BY <1>1, <1>2, <1>3 DEF HoldOK, HeldPlan, Driving, Parked

\* A refused task is moved by the sync that applies the refusal only.
LEMMA RefusedMoves ==
  ASSUME SInv, RefusedOK, Next, NEW r \in Rows, requests[r].applied = "HUMAN_BLOCK"
  PROVE  state'[requests[r].task] \in Parked
<1>1. PICK t : t = requests[r].task
  OBVIOUS
<1>2. t \in Tasks /\ requests[r].attempt = attempts[t] /\ state[t] \in Parked
  BY <1>1, FrameFacts, RowFacts, SomeoneActs DEF RefusedOK
<1> SUFFICES ASSUME state'[t] # state[t] PROVE state'[t] \in Parked
  BY <1>1, <1>2
<1>3. PICK p \in Procs : /\ frame[p].task = t /\ frame[p].todo # <<>>
                         /\ Arg(p).do = "move" /\ Arg(p).to = state'[t]
  BY <1>2, TaskMoves DEF Parked, Absent
<1>4. frame[p].request # 0 /\ Syncs(p, t)
  BY <1>1, <1>2, <1>3, AtWorkOnFrame, RefusedNotHeld
<1>5. frame[p].request = r
  BY <1>1, <1>2, <1>4, SyncerFacts
<1>6. Applying("HUMAN_BLOCK", state[t], frame[p].todo)
  BY <1>3, <1>4, <1>5, AppliedCall DEF Arg, Moving
<1>7. Arg(p).to \in {"WAITING_HUMAN", "BLOCKED"}
  <2>1. PICK todo : todo = frame[p].todo
    OBVIOUS
  <2>2. Head(todo).do = "move"
    BY <1>3, <2>1 DEF Arg
  <2>3. Head(todo).to \in {"WAITING_HUMAN", "BLOCKED"}
    BY <1>6, <2>1, <2>2, ShortPlans, CallKinds DEF Applying
  <2> QED BY <2>1, <2>3 DEF Arg
<1> QED BY <1>3, <1>7 DEF Parked

LEMMA RefusedStays ==
  ASSUME SInv, RefusedOK, Next, NEW p \in Procs, Acts(p)
  PROVE  RefusedOK'
<1>0. \A r \in Rows : requests[r].applied = "HUMAN_BLOCK" =>
        requests[r].attempt = attempts[requests[r].task] /\ state'[requests[r].task] \in Parked
  BY RefusedMoves DEF RefusedOK
<1>1. CASE ClaimCommit(p)
  <2>1. PICK r, v, t : r = frame[p].request /\ v = frame[p].verdict /\ t = frame[p].task
    OBVIOUS
  <2>2. attempts' = attempts
    BY <1>1 DEF ClaimCommit
  <2>3. /\ Rows' = Rows /\ r \in Rows
        /\ \A x \in Rows : /\ requests'[x].task = requests[x].task
                           /\ requests'[x].attempt = requests[x].attempt
                           /\ x # r => requests'[x].applied = requests[x].applied
    BY <1>1, <2>1, ClaimedRow
  <2>4. t \in Tasks /\ Syncs(p, t)
    BY <1>1, <2>1, ClaimingStep
  <2>5. requests[r].task = t /\ requests[r].attempt = attempts[t] /\ state'[t] \in Parked
    BY <1>1, <2>1, <2>4, SyncerFacts DEF ClaimCommit
  <2>6. \A x \in Rows \ {r} : requests'[x].applied = "HUMAN_BLOCK" =>
          /\ requests'[x].attempt = attempts'[requests'[x].task]
          /\ state'[requests'[x].task] \in Parked
    BY <1>0, <2>2, <2>3
  <2> QED BY <2>2, <2>3, <2>5, <2>6 DEF RefusedOK
<1>2. CASE OpenInsert(p)
  <2>1. PICK row, new : row = Arg(p).row /\ new = Len(requests) + 1
    OBVIOUS
  <2>2. attempts' = attempts
    BY <1>2 DEF OpenInsert
  <2>3. /\ Rows' = Rows \cup {new} /\ new \notin Rows /\ requests'[new] = row
        /\ \A x \in Rows : requests'[x] = requests[x]
    BY <1>2, <2>1, InsertedRows
  <2>4. row.applied = NoVerdict
    <3>1. FrameOK(p, frame[p]) /\ frame \in [Procs -> Frame] /\ Doing(p, "insert")
      BY <1>2, FrameFacts DEF OpenInsert
    <3>2. CallOK(p, frame[p], Arg(p)) /\ Arg(p).do = "insert"
      BY <3>1, HeadFacts
    <3> QED BY <2>1, <3>2 DEF CallOK
  <2>5. NoVerdict # "HUMAN_BLOCK"
    BY NoVerdictAssumption DEF Verdict, TerminalVerdicts
  <2> QED BY <1>0, <2>2, <2>3, <2>4, <2>5 DEF RefusedOK
<1>3. CASE requests' = requests /\ attempts' = attempts
  BY <1>0, <1>3 DEF RefusedOK, Rows
<1>4. ASSUME NEW t \in Tasks, Attempt(p, t), requests' = requests
      PROVE  RefusedOK'
  <2>1. /\ Idle(p) /\ drive[p] = [task |-> t, phase |-> "provider"]
        /\ attempts' = [attempts EXCEPT ![t] = @ + 1]
    BY <1>4 DEF Attempt, Drives
  <2>2. Holds(p, t) /\ drive[p] # NoDrive /\ drive[p].phase = "provider" /\ frame[p].todo = <<>>
    BY <2>1, NoFrameFacts, NoTaskAssumption DEF Idle, Holds, NoDrive
  <2>3. HoldOK(p, t)
    BY <2>2, HolderFacts
  <2>4. state[t] = "RUNNING"
    <3>1. Driving("provider", state[t], <<>>)
      BY <2>2, <2>3 DEF HoldOK, HeldPlan
    <3> QED BY <3>1, ShortPlans DEF Driving
  <2>7. \A r \in Rows : requests[r].task = t => requests[r].applied # "HUMAN_BLOCK"
    BY <2>4 DEF RefusedOK, Parked
  <2>8. \A u \in Tasks : u # t => attempts'[u] = attempts[u]
    BY <2>1, FrameFacts DEF TablesOK
  <2>9. \A r \in Rows : requests[r].task \in Tasks
    BY FrameFacts, RowFacts
  <2> QED BY <1>0, <1>4, <2>7, <2>8, <2>9 DEF RefusedOK, Rows
<1> QED BY <1>1, <1>2, <1>3, <1>4, RequestSteps, AttemptSteps DEF ClaimCommit, OpenInsert

LEMMA OwnMoves ==
  ASSUME SInv, NEW p \in Procs, Acts(p)
  PROVE  \/ MoveCommit(p) /\ frame[p].todo # <<>> /\ Arg(p).do = "move"
            /\ frame[p].task \in Tasks
            /\ state'[frame[p].task] = Arg(p).to
            /\ \A u \in Tasks : u # frame[p].task => state'[u] = state[u]
         \/ \E t \in Tasks : /\ Begin(p, t) /\ state[t] = Absent /\ state'[t] = "PENDING"
                            /\ \A u \in Tasks : u # t => state'[u] = state[u]
         \/ state' = state
<1>0. state \in [Tasks -> RowState]
  BY FrameFacts DEF TablesOK
<1>1. ASSUME NEW u \in Tasks, Drive(p, u), ~Begin(p, u) PROVE state' = state
  BY <1>1 DEF Drive, Adopt, Attempt, ProviderDone, GatesDone, EndDrive, KeepDriving, database
<1>2. CASE Continue(p) /\ ~MoveCommit(p)
  BY <1>2 DEF Continue, MoveRead, RequireRead, SetHeadCommit, Ledger!SetHead, HumanRequiredRead,
     OpenRead, OpenInsert, ConsultRead, CanApplyRead, ClaimCommit, ClaimRefused, Raise, database
<1>3. ASSUME NEW u, NEW x, OpenForeign(p, u) \/ Submit(p, x) PROVE state' = state
  BY <1>3 DEF OpenForeign, Submit, SubmitHuman, SubmitSupervisor, database
<1>4. CASE Sync(p) \/ Crash(p)
  BY <1>4 DEF Sync, StartSync, Crash, database
<1>5. ASSUME NEW t \in Tasks, Begin(p, t)
      PROVE  /\ state[t] = Absent /\ state'[t] = "PENDING"
             /\ \A u \in Tasks : u # t => state'[u] = state[u]
  <2>1. state[t] = Absent /\ state' = [state EXCEPT ![t] = "PENDING"]
    BY <1>5 DEF Begin, Ledger!Create, Absent, Ledger!Absent
  <2> QED BY <1>0, <2>1
<1>6. ASSUME MoveCommit(p)
      PROVE  /\ frame[p].todo # <<>> /\ Arg(p).do = "move" /\ frame[p].task \in Tasks
             /\ state'[frame[p].task] = Arg(p).to
             /\ \A u \in Tasks : u # frame[p].task => state'[u] = state[u]
  <2>1. /\ frame[p].todo # <<>> /\ Arg(p).do = "move"
        /\ state' = [state EXCEPT ![frame[p].task] = Arg(p).to]
    BY <1>6 DEF MoveCommit, Ledger!Move, Doing, Arg
  <2>2. frame[p].task \in Tasks
    BY <2>1, AtWorkOnFrame
  <2> QED BY <1>0, <2>1, <2>2
<1> QED BY <1>1, <1>2, <1>3, <1>4, <1>5, <1>6 DEF Acts

\* Nobody changes the state of a task that another process syncs, nor what the
\* request asks for.
LEMMA SyncedTaskStays ==
  ASSUME SInv, NEW p \in Procs, Acts(p), NEW q \in Procs, q # p, NEW t \in Tasks, Syncs(q, t)
  PROVE  /\ state'[t] = state[t]
         /\ requests'[frame[q].request].checkpoint = requests[frame[q].request].checkpoint
<1>1. frame[q].request \in Rows /\ state[t] \in Parked
  BY SyncerFacts
<1>2. requests'[frame[q].request].checkpoint = requests[frame[q].request].checkpoint
  <2>1. CASE ClaimCommit(p)
    <3>1. PICK r, v : r = frame[p].request /\ v = frame[p].verdict
      OBVIOUS
    <3>2. \A x \in Rows : requests'[x].checkpoint = requests[x].checkpoint
      BY <2>1, <3>1, ClaimedRow
    <3> QED BY <1>1, <3>2
  <2>2. CASE OpenInsert(p)
    <3>1. PICK row, new : row = Arg(p).row /\ new = Len(requests) + 1
      OBVIOUS
    <3>2. \A x \in Rows : requests'[x] = requests[x]
      BY <2>2, <3>1, InsertedRows
    <3> QED BY <1>1, <3>2
  <2> QED BY <2>1, <2>2, RequestSteps
<1>3. state'[t] = state[t]
  <2> SUFFICES ASSUME state'[t] # state[t] PROVE FALSE
    OBVIOUS
  <2>1. frame[p].todo # <<>> /\ frame[p].task = t
    BY <1>1, OwnMoves DEF Parked, Absent
  <2> QED BY <2>1, AtWorkOnFrame, OneTask DEF AtWork
<1> QED BY <1>2, <1>3

\* Who weighs a verdict has a request at hand.
WeighsRequest == \A q \in Procs : Doing(q, "can_apply") \/ Doing(q, "claim") => frame[q].request # 0
LEMMA WeighersSync == SInv => WeighsRequest
BY OpenAtHand DEF WeighsRequest

LEMMA WeighedStays ==
  ASSUME SInv, SInv', \A q \in Procs : WeighedOK(q), ~Crashes, ~Faults, NEW p \in Procs, Acts(p),
         NEW q \in Procs
  PROVE  WeighedOK(q)'
<1> SUFFICES ASSUME Doing(q, "can_apply")' \/ Doing(q, "claim")'
             PROVE  frame'[q].verdict = Weighed(q)'
  BY DEF WeighedOK
<1>1. CASE q # p
  <2>1. frame'[q] = frame[q] /\ human'[q] = human[q] /\ supervisor'[q] = supervisor[q]
    BY <1>1, OthersStay
  <2>2. Doing(q, "can_apply") \/ Doing(q, "claim")
    BY <2>1 DEF Doing
  <2>3. frame[q].verdict = Weighed(q)
    BY <2>2 DEF WeighedOK
  <2>4. PICK t, r : t = frame[q].task /\ r = frame[q].request
    OBVIOUS
  <2>5. t \in Tasks /\ Syncs(q, t)
    BY <2>2, <2>4, OpenAtHand, AtWorkOnFrame
  <2>6. state'[t] = state[t] /\ requests'[r].checkpoint = requests[r].checkpoint
    BY <1>1, <2>4, <2>5, SyncedTaskStays
  <2>7. Poll(q, r)' = Poll(q, r)
    BY <2>1 DEF Poll, Answer
  <2> QED BY <2>1, <2>3, <2>4, <2>6, <2>7 DEF Weighed
<1>2. CASE q = p /\ frame[p].request = 0
  <2>1. frame'[p].request = 0 \/ frame'[p].todo = <<Consult>>
    BY <1>2, OutsideStep
  <2>2. frame'[p].todo # <<Consult>>
    BY <1>2, ShortPlans, CallKinds DEF Doing
  <2>3. WeighsRequest'
    BY WeighersSync, PTL
  <2> QED BY <1>2, <2>1, <2>2, <2>3 DEF WeighsRequest
<1>3. CASE q = p /\ frame[p].request # 0
  <2>1. ASSUME Head(frame'[p].todo).do \in Moving PROVE FALSE
    BY <1>3, <2>1 DEF Moving, Doing
  <2>2. ASSUME frame'[p] = Visit(frame[p].queue) PROVE FALSE
    BY <1>3, <2>2, VisitHead DEF Doing
  <2>3. ~ClaimCommit(p)
    <3>1. PICK t : t = frame[p].task
      OBVIOUS
    <3> QED BY <2>1, <3>1, ClaimingStep
  <2>4. ~(MoveRead(p) \/ MoveCommit(p) \/ RequireRead(p) \/ HumanRequiredRead(p))
    BY <1>3, <2>1, <2>2, AppliedStep DEF Applied
  <2>5. ConsultRead(p) \/ CanApplyRead(p) \/ ClaimRefused(p)
    BY <1>3, <2>3, <2>4, SyncSteps
  <2>6. /\ UNCHANGED <<database, memory>>
        /\ frame'[p].task = frame[p].task /\ frame'[p].request = frame[p].request
        /\ frame'[p].verdict = Weighed(p)
    BY <2>2, <2>5, WeighingStep
  <2> QED BY <1>3, <2>6 DEF Weighed, Poll, Answer, database, memory
<1> QED BY <1>1, <1>2, <1>3

LEMMA AlwaysRInv ==
  ASSUME SoleSyncer, Foreign = FALSE, Crashes = FALSE, Faults = FALSE
  PROVE  Spec => []RInv
<1>1. Init => RInv
  <2> SUFFICES ASSUME Init PROVE RInv
    OBVIOUS
  <2>1. SInv
    BY InitSInv
  <2>2. requests = <<>> /\ frame = [p \in Procs |-> NoFrame]
    BY DEF Init
  <2>3. Rows = {}
    BY <2>2, NoFrameFacts DEF Rows
  <2>4. \A p \in Procs : frame[p].todo = <<>>
    BY <2>2, NoFrameFacts
  <2> QED BY <2>1, <2>3, <2>4 DEF RInv, RefusedOK, WeighedOK, Doing
<1>2. RInv /\ [Next]_vars => RInv'
  <2> SUFFICES ASSUME RInv, [Next]_vars PROVE RInv'
    OBVIOUS
  <2>1. SInv'
    BY NextSInv DEF RInv
  <2>2. CASE Next
    <3>1. PICK p \in Procs : Acts(p)
      BY <2>2, SomeoneActs
    <3>2. RefusedOK'
      BY <2>2, <3>1, RefusedStays DEF RInv
    <3>3. \A q \in Procs : WeighedOK(q)'
      BY <2>1, <3>1, WeighedStays DEF RInv
    <3> QED BY <2>1, <3>2, <3>3 DEF RInv
  <2>3. CASE UNCHANGED vars
    <3>1. RefusedOK'
      BY <2>3 DEF RInv, RefusedOK, vars, database, Rows
    <3>2. \A q \in Procs : WeighedOK(q)'
      BY <2>3 DEF RInv, WeighedOK, Weighed, Doing, Poll, Answer, vars, database, memory
    <3> QED BY <2>1, <3>1, <3>2 DEF RInv
  <2> QED BY <2>2, <2>3
<1> QED BY <1>1, <1>2, PTL DEF Spec

\* A human's refusal finds its task put aside and leaves it so for good, although
\* the process may die between the claim and the moves, a store call may fail and
\* a resumed task may be driven again.
THEOREM RefusedForGood ==
  ASSUME SoleSyncer, Foreign = FALSE
  PROVE  Spec => []RefusalStands
<1> DEFINE Aside == SInv /\ RefusedOK
<1>1. Init => Aside
  <2> SUFFICES ASSUME Init PROVE Aside
    OBVIOUS
  <2>1. Rows = {}
    BY NoFrameFacts DEF Init, Rows
  <2> QED BY <2>1, InitSInv DEF RefusedOK
<1>2. Aside /\ [Next]_vars => Aside'
  <2> SUFFICES ASSUME Aside, [Next]_vars PROVE Aside'
    OBVIOUS
  <2>1. SInv'
    BY NextSInv
  <2>2. CASE Next
    BY <2>1, <2>2, SomeoneActs, RefusedStays
  <2>3. CASE UNCHANGED vars
    BY <2>1, <2>3 DEF RefusedOK, vars, database, Rows
  <2> QED BY <2>2, <2>3
<1>3. Aside => RefusalStands
  BY DEF RefusedOK, RefusalStands, Rows, Parked
<1> HIDE DEF Aside
<1> QED BY <1>1, <1>2, <1>3, PTL DEF Spec

-----------------------------------------------------------------------------
(***************************************************************************)
(* The steps of SupervisedTask, of one task at a time.                     *)
(***************************************************************************)
Heard(t) == Said(human, HumanKinds, t)
Advised(t) == Said(supervisor, SupervisorKinds, t)
Stays(t) ==
  /\ Shown(t)' = Shown(t) /\ OpenOn(t)' = OpenOn(t) /\ Heard(t)' = Heard(t)
  /\ Advised(t)' = Advised(t) /\ Refused(t)' = Refused(t)

AllShown == [t \in Tasks |-> Shown(t)]
AllOpen == [t \in Tasks |-> OpenOn(t)]
AllHeard == [t \in Tasks |-> Heard(t)]
AllAdvised == [t \in Tasks |-> Advised(t)]
AllRefused == [t \in Tasks |-> Refused(t)]

\* The variables of SupervisedTask after a step about t.
Entered(t) ==
  /\ AllShown' = [AllShown EXCEPT ![t] = Shown(t)']
  /\ Shown(t)' = Shown(t) => AllShown' = AllShown
Told(t) ==
  /\ AllOpen' = [AllOpen EXCEPT ![t] = OpenOn(t)']
  /\ OpenOn(t)' = OpenOn(t) => AllOpen' = AllOpen
  /\ AllHeard' = [AllHeard EXCEPT ![t] = Heard(t)']
  /\ Heard(t)' = Heard(t) => AllHeard' = AllHeard
  /\ AllAdvised' = [AllAdvised EXCEPT ![t] = Advised(t)']
  /\ Advised(t)' = Advised(t) => AllAdvised' = AllAdvised
  /\ AllRefused' = [AllRefused EXCEPT ![t] = Refused(t)']
  /\ Refused(t)' = Refused(t) => AllRefused' = AllRefused

LEMMA ChangedAt ==
  ASSUME NEW t \in Tasks, NEW f, f = [u \in Tasks |-> f[u]], NEW g, g = [u \in Tasks |-> g[u]],
         \A u \in Tasks : u # t => g[u] = f[u]
  PROVE  g = [f EXCEPT ![t] = g[t]] /\ (g[t] = f[t] => g = f)
OBVIOUS

LEMMA StepOnOne ==
  ASSUME NEW t \in Tasks, \A u \in Tasks : u # t => Stays(u)
  PROVE  Entered(t) /\ Told(t)
<1>1. Entered(t)
  <2>1. PICK f, g : f = AllShown /\ g = AllShown'
    OBVIOUS
  <2>2. g = [f EXCEPT ![t] = g[t]] /\ (g[t] = f[t] => g = f)
    BY <2>1, ChangedAt DEF Stays, AllShown
  <2> QED BY <2>1, <2>2 DEF Entered, AllShown
<1>2. /\ AllOpen' = [AllOpen EXCEPT ![t] = OpenOn(t)']
      /\ OpenOn(t)' = OpenOn(t) => AllOpen' = AllOpen
  <2>1. PICK f, g : f = AllOpen /\ g = AllOpen'
    OBVIOUS
  <2>2. g = [f EXCEPT ![t] = g[t]] /\ (g[t] = f[t] => g = f)
    BY <2>1, ChangedAt DEF Stays, AllOpen
  <2> QED BY <2>1, <2>2 DEF AllOpen
<1>3. /\ AllHeard' = [AllHeard EXCEPT ![t] = Heard(t)']
      /\ Heard(t)' = Heard(t) => AllHeard' = AllHeard
  <2>1. PICK f, g : f = AllHeard /\ g = AllHeard'
    OBVIOUS
  <2>2. g = [f EXCEPT ![t] = g[t]] /\ (g[t] = f[t] => g = f)
    BY <2>1, ChangedAt DEF Stays, AllHeard
  <2> QED BY <2>1, <2>2 DEF AllHeard
<1>4. /\ AllAdvised' = [AllAdvised EXCEPT ![t] = Advised(t)']
      /\ Advised(t)' = Advised(t) => AllAdvised' = AllAdvised
  <2>1. PICK f, g : f = AllAdvised /\ g = AllAdvised'
    OBVIOUS
  <2>2. g = [f EXCEPT ![t] = g[t]] /\ (g[t] = f[t] => g = f)
    BY <2>1, ChangedAt DEF Stays, AllAdvised
  <2> QED BY <2>1, <2>2 DEF AllAdvised
<1>5. /\ AllRefused' = [AllRefused EXCEPT ![t] = Refused(t)']
      /\ Refused(t)' = Refused(t) => AllRefused' = AllRefused
  <2>1. PICK f, g : f = AllRefused /\ g = AllRefused'
    OBVIOUS
  <2>2. g = [f EXCEPT ![t] = g[t]] /\ (g[t] = f[t] => g = f)
    BY <2>1, ChangedAt DEF Stays, AllRefused
  <2> QED BY <2>1, <2>2 DEF AllRefused
<1> QED BY <1>1, <1>2, <1>3, <1>4, <1>5 DEF Told

\* The tables SupervisedTask reads are those of ExecutionManager.
LEMMA SameTables ==
  /\ Supervised!Absent = Absent /\ Supervised!TaskState = TaskState
  /\ Supervised!Checkpoint = Checkpoint
  /\ Supervised!HumanKinds = HumanKinds /\ Supervised!SupervisorKinds = SupervisorKinds
  /\ \A a, b : Supervised!TransitionAllowed(a, b) <=> TransitionAllowed(a, b)
  /\ \A cp : Supervised!HumanMayGrant(cp) <=> HumanMayGrant(cp)
  /\ \A cp : Supervised!SupervisorMayGrant(cp) <=> SupervisorMayGrant(cp)
<1>1. Supervised!LegalTransitions = LegalTransitions /\ Supervised!Capability = Capability
  BY DEF Supervised!LegalTransitions, LegalTransitions, Supervised!Capability, Capability
<1>2. \A c : Supervised!Decide(c) = Decide(c)
  BY DEF Supervised!Decide, Decide, Supervised!AllowedCapabilities, AllowedCapabilities,
     Supervised!HumanCapabilities, HumanCapabilities
<1> QED BY <1>1, <1>2
   DEF Supervised!Absent, Absent, Supervised!TaskState, TaskState,
     Supervised!Checkpoint, Checkpoint, Supervised!HumanKinds, HumanKinds,
     Supervised!SupervisorKinds, SupervisorKinds, Supervised!TransitionAllowed, TransitionAllowed,
     Supervised!HumanMayGrant, HumanMayGrant, Supervised!SupervisorMayGrant, SupervisorMayGrant

\* A step of SupervisedTask, from what it does to the task it is about.
LEMMA CreateStep ==
  ASSUME NEW t \in Tasks, \A u \in Tasks : u # t => Stays(u),
         Shown(t) = Absent, Shown(t)' = "PENDING",
         OpenOn(t)' = OpenOn(t), Heard(t)' = Heard(t), Advised(t)' = Advised(t), Refused(t)' = Refused(t)
  PROVE  Supervised!Next
<1>1. Entered(t) /\ Told(t)
  BY StepOnOne
<1>2. Supervised!Create(t)
  BY <1>1, SameTables
     DEF Entered, Told, Supervised!Create, Supervised!Enter,
       AllShown, AllOpen, AllHeard, AllAdvised, AllRefused, Heard, Advised
<1> QED BY <1>2, SameTables DEF Supervised!Next, Supervised!Step

LEMMA WorkStep ==
  ASSUME NEW t \in Tasks, \A u \in Tasks : u # t => Stays(u),
         OpenOn(t) = {}, Shown(t) \in {"PENDING", "RUNNING", "VERIFYING"},
         Shown(t)' \in TaskState, TransitionAllowed(Shown(t), Shown(t)'),
         OpenOn(t)' = OpenOn(t), Heard(t)' = Heard(t), Advised(t)' = Advised(t), Refused(t)' = Refused(t)
  PROVE  Supervised!Next
<1>1. Entered(t) /\ Told(t)
  BY StepOnOne
<1>2. Supervised!Work(t, Shown(t)')
  BY <1>1, SameTables
     DEF Entered, Told, Supervised!Work, Supervised!Enter,
       AllShown, AllOpen, AllHeard, AllAdvised, AllRefused, Heard, Advised
<1> QED BY <1>2, SameTables DEF Supervised!Next, Supervised!Step

LEMMA ParkStep ==
  ASSUME NEW t \in Tasks, \A u \in Tasks : u # t => Stays(u),
         NEW cp \in Checkpoint, OpenOn(t) = {}, ~Refused(t),
         Shown(t) = IF cp = "candidate_ready" THEN "READY" ELSE "BLOCKED", Shown(t)' = Shown(t),
         OpenOn(t)' = {cp}, Heard(t)' = Heard(t), Advised(t)' = Advised(t), Refused(t)' = Refused(t)
  PROVE  Supervised!Next
<1>1. Entered(t) /\ Told(t)
  BY StepOnOne
<1>2. Supervised!Park(t, cp)
  BY <1>1, SameTables
     DEF Entered, Told, Supervised!Park,
       AllShown, AllOpen, AllHeard, AllAdvised, AllRefused, Heard, Advised
<1> QED BY <1>2, SameTables DEF Supervised!Next, Supervised!Step

LEMMA HumanSaysStep ==
  ASSUME NEW t \in Tasks, \A u \in Tasks : u # t => Stays(u),
         NEW d \in HumanKinds, OpenOn(t) # {}, Heard(t)' = {d}, Shown(t)' = Shown(t),
         OpenOn(t)' = OpenOn(t), Advised(t)' = Advised(t), Refused(t)' = Refused(t)
  PROVE  Supervised!Next
<1>1. Entered(t) /\ Told(t)
  BY StepOnOne
<1>2. Supervised!HumanSays(t, d)
  BY <1>1, SameTables
     DEF Entered, Told, Supervised!HumanSays,
       AllShown, AllOpen, AllHeard, AllAdvised, AllRefused, Heard, Advised
<1> QED BY <1>2, SameTables DEF Supervised!Next, Supervised!Step

LEMMA SupervisorSaysStep ==
  ASSUME NEW t \in Tasks, \A u \in Tasks : u # t => Stays(u),
         NEW d \in SupervisorKinds, OpenOn(t) # {}, Advised(t)' = {d}, Shown(t)' = Shown(t),
         OpenOn(t)' = OpenOn(t), Heard(t)' = Heard(t), Refused(t)' = Refused(t)
  PROVE  Supervised!Next
<1>1. Entered(t) /\ Told(t)
  BY StepOnOne
<1>2. Supervised!SupervisorSays(t, d)
  BY <1>1, SameTables
     DEF Entered, Told, Supervised!SupervisorSays,
       AllShown, AllOpen, AllHeard, AllAdvised, AllRefused, Heard, Advised
<1> QED BY <1>2, SameTables DEF Supervised!Next, Supervised!Step

LEMMA ResumeStep ==
  ASSUME NEW t \in Tasks, \A u \in Tasks : u # t => Stays(u),
         NEW cp, OpenOn(t) = {cp},
         \/ Heard(t) = {"APPROVED"} /\ HumanMayGrant(cp)
         \/ /\ Heard(t) = {} /\ Advised(t) = {"CONTINUE_AUTONOMOUSLY"}
            /\ TransitionAllowed(Shown(t), "RUNNING") /\ SupervisorMayGrant(cp),
         Shown(t)' = "RUNNING", OpenOn(t)' = {}, Heard(t)' = {}, Advised(t)' = {},
         Refused(t)' = Refused(t)
  PROVE  Supervised!Next
<1>1. Entered(t) /\ Told(t)
  BY StepOnOne
<1>2. Supervised!Resume(t)
  BY <1>1, SameTables
     DEF Entered, Told, Supervised!Resume, Supervised!Enter, Supervised!Close,
       Supervised!HumanGrants, Supervised!SupervisorGrants,
       AllShown, AllOpen, AllHeard, AllAdvised, AllRefused, Heard, Advised
<1> QED BY <1>2, SameTables DEF Supervised!Next, Supervised!Step

LEMMA RefuseStep ==
  ASSUME NEW t \in Tasks, \A u \in Tasks : u # t => Stays(u),
         NEW cp, OpenOn(t) = {cp}, Heard(t) # {},
         Heard(t) = {"APPROVED"} => ~HumanMayGrant(cp),
         Shown(t)' = "BLOCKED", OpenOn(t)' = {}, Heard(t)' = {}, Advised(t)' = {},
         Refused(t)' = TRUE
  PROVE  Supervised!Next
<1>1. Entered(t) /\ Told(t)
  BY StepOnOne
<1>2. Supervised!Refuse(t)
  BY <1>1, SameTables
     DEF Entered, Told, Supervised!Refuse, Supervised!Enter, Supervised!Close,
       Supervised!HumanGrants,
       AllShown, AllOpen, AllHeard, AllAdvised, AllRefused, Heard, Advised
<1> QED BY <1>2, SameTables DEF Supervised!Next, Supervised!Step

LEMMA EscalateStep ==
  ASSUME NEW t \in Tasks, \A u \in Tasks : u # t => Stays(u),
         NEW cp, OpenOn(t) = {cp}, Heard(t) = {}, Advised(t) # {},
         ~(/\ Advised(t) = {"CONTINUE_AUTONOMOUSLY"}
           /\ TransitionAllowed(Shown(t), "RUNNING") /\ SupervisorMayGrant(cp)),
         Shown(t)' = "WAITING_HUMAN",
         OpenOn(t)' = OpenOn(t), Heard(t)' = Heard(t), Advised(t)' = Advised(t), Refused(t)' = Refused(t)
  PROVE  Supervised!Next
<1>1. Entered(t) /\ Told(t)
  BY StepOnOne
<1>2. Supervised!Escalate(t)
  BY <1>1, SameTables
     DEF Entered, Told, Supervised!Escalate, Supervised!Enter, Supervised!SupervisorGrants,
       AllShown, AllOpen, AllHeard, AllAdvised, AllRefused, Heard, Advised
<1> QED BY <1>2, SameTables DEF Supervised!Next, Supervised!Step

LEMMA NoStep ==
  ASSUME \A u \in Tasks : Stays(u)
  PROVE  UNCHANGED Supervised!task
BY DEF Stays, Supervised!task, Heard, Advised

-----------------------------------------------------------------------------
(***************************************************************************)
(* The gate of a task and the answers to it.                               *)
(***************************************************************************)
\* The one open request of a task makes its gate, and the port of the one process
\* that syncs holds the answers.
GateView ==
  \A t \in Tasks :
    /\ UnresolvedOf({t}) = {} => OpenOn(t) = {} /\ Heard(t) = {} /\ Advised(t) = {}
    /\ \A r, q : UnresolvedOf({t}) = {r} /\ q \in Syncers =>
         /\ OpenOn(t) = {requests[r].checkpoint}
         /\ Heard(t) = {d \in HumanKinds : Answer(human[q], r) = d}
         /\ Advised(t) = {d \in SupervisorKinds : Answer(supervisor[q], r) = d}

LEMMA GateIs ==
  ASSUME SoleSyncer
  PROVE  GateView
<1> SUFFICES ASSUME NEW t \in Tasks
             PROVE  /\ UnresolvedOf({t}) = {} => OpenOn(t) = {} /\ Heard(t) = {} /\ Advised(t) = {}
                    /\ \A r, q : UnresolvedOf({t}) = {r} /\ q \in Syncers =>
                         /\ OpenOn(t) = {requests[r].checkpoint}
                         /\ Heard(t) = {d \in HumanKinds : Answer(human[q], r) = d}
                         /\ Advised(t) = {d \in SupervisorKinds : Answer(supervisor[q], r) = d}
  BY DEF GateView
<1>1. PICK S : S = UnresolvedOf({t})
  OBVIOUS
<1>2. /\ OpenOn(t) = {requests[r].checkpoint : r \in S}
      /\ Heard(t) = {d \in HumanKinds : \E p \in Syncers, r \in S : Answer(human[p], r) = d}
      /\ Advised(t) = {d \in SupervisorKinds :
                         \E p \in Syncers, r \in S : Answer(supervisor[p], r) = d}
  BY <1>1 DEF OpenOn, Heard, Advised, Said
<1>3. CASE S = {}
  BY <1>1, <1>2, <1>3
<1>4. ASSUME NEW r, NEW q, S = {r}, q \in Syncers
      PROVE  /\ OpenOn(t) = {requests[r].checkpoint}
             /\ Heard(t) = {d \in HumanKinds : Answer(human[q], r) = d}
             /\ Advised(t) = {d \in SupervisorKinds : Answer(supervisor[q], r) = d}
  <2>1. \A p \in Syncers : p = q
    BY <1>4 DEF SoleSyncer
  <2> QED BY <1>2, <1>4, <2>1
<1> QED BY <1>1, <1>3, <1>4

\* The gate of a task is one request, the latest.
LEMMA GateOfRow ==
  ASSUME SInv, NEW r \in Rows, Unresolved(r), NEW t, t = requests[r].task
  PROVE  t \in Tasks /\ UnresolvedOf({t}) = {r}
<1>1. t \in Tasks
  BY TypeParts, RowFacts DEF SInv, IInv
<1>2. GatesOK(t)
  BY <1>1 DEF SInv, TaskOK
<1>3. \A x \in Rows : Unresolved(x) /\ requests[x].task = t => x = r
  <2> SUFFICES ASSUME NEW x \in Rows, Unresolved(x), requests[x].task = t PROVE x = r
    OBVIOUS
  <2>1. requests[x].attempt = requests[r].attempt
    BY <1>2 DEF GatesOK
  <2> QED BY <1>2, <2>1 DEF GatesOK
<1>4. r \in UnresolvedOf({t}) /\ \A x \in UnresolvedOf({t}) : x = r
  <2> HIDE DEF Unresolved
  <2> QED BY <1>3 DEF UnresolvedOf, Rows
<1> QED BY <1>1, <1>4

\* What a step leaves of the gate of a task, and of the answers to it.
LEMMA GateStays ==
  ASSUME NEW u \in Tasks, UnresolvedOf({u})' = UnresolvedOf({u}),
         \A r \in UnresolvedOf({u}) :
           /\ requests'[r].checkpoint = requests[r].checkpoint
           /\ \A q \in Syncers : /\ Answer(human[q], r)' = Answer(human[q], r)
                               /\ Answer(supervisor[q], r)' = Answer(supervisor[q], r)
  PROVE  OpenOn(u)' = OpenOn(u) /\ Heard(u)' = Heard(u) /\ Advised(u)' = Advised(u)
<1>1. PICK S : S = UnresolvedOf({u}) /\ S = UnresolvedOf({u})'
  OBVIOUS
<1>2. OpenOn(u)' = OpenOn(u)
  BY <1>1 DEF OpenOn
<1>3. Heard(u)' = Heard(u)
  BY <1>1 DEF Heard, Said
<1>4. Advised(u)' = Advised(u)
  BY <1>1 DEF Advised, Said
<1> QED BY <1>2, <1>3, <1>4

LEMMA QuietGates ==
  ASSUME requests' = requests, human' = human, supervisor' = supervisor, NEW u \in Tasks
  PROVE  /\ OpenOn(u)' = OpenOn(u) /\ Heard(u)' = Heard(u) /\ Advised(u)' = Advised(u)
         /\ Refused(u)' = Refused(u)
<1>1. UnresolvedOf({u})' = UnresolvedOf({u}) /\ Refused(u)' = Refused(u)
  BY DEF UnresolvedOf, Unresolved, Refused, RequestsOf
<1>2. \A q, r : /\ Answer(human[q], r)' = Answer(human[q], r)
              /\ Answer(supervisor[q], r)' = Answer(supervisor[q], r)
  BY DEF Answer
<1> QED BY <1>1, <1>2, GateStays

LEMMA QuietStep ==
  ASSUME requests' = requests, human' = human, supervisor' = supervisor,
         \A u \in Tasks : Shown(u)' = Shown(u)
  PROVE  UNCHANGED Supervised!task
BY QuietGates, NoStep DEF Stays

-----------------------------------------------------------------------------
(***************************************************************************)
(* Outside a sync.                                                         *)
(***************************************************************************)
LEMMA OutsideShown ==
  ASSUME SInv, SInv', NEW p \in Procs, Acts(p), frame[p].request = 0
  PROVE  /\ \A u \in Tasks : state'[u] = state[u] => Shown(u)' = Shown(u)
         /\ \A u \in Tasks : (\A q \in Procs : ~Syncs(q, u)) =>
              Shown(u) = state[u] /\ Shown(u)' = state'[u]
<1>1. \A q \in Procs : q # p => frame'[q] = frame[q]
  BY OthersStay
<1>2. \A u : ~Applies(p, u)
  BY DEF Applies
<1>3. \A u : ~Applies(p, u)'
  <2>1. CASE frame'[p].request = 0
    BY <2>1 DEF Applies
  <2>2. CASE frame'[p].todo = <<Consult>>
    BY <2>2, ShortPlans, CallKinds DEF Applies, Doing
  <2> QED BY <2>1, <2>2, OutsideStep
<1>4. \A u \in Tasks : state'[u] = state[u] => Shown(u)' = Shown(u)
  BY <1>1, <1>2, <1>3, ShownAfter
<1>5. ASSUME NEW u \in Tasks, \A q \in Procs : ~Syncs(q, u)
      PROVE  Shown(u) = state[u] /\ Shown(u)' = state'[u]
  <2>1. ShownView /\ ShownView'
    BY ShownIs, PTL
  <2>2. \A q \in Procs : ~Applies(q, u)
    BY <1>5, AppliesFacts
  <2>3. \A q \in Procs : ~Applies(q, u)'
    BY <1>1, <1>3, <2>2 DEF Applies, Doing
  <2> QED BY <2>1, <2>2, <2>3 DEF ShownView
<1> QED BY <1>4, <1>5

\* A checkpoint parks its task: all that was asked about it before is settled, and
\* it was not refused after this attempt, hence never.
LEMMA InsertParks ==
  ASSUME SoleSyncer, SInv, SInv', RefusedOK, NEW p \in Procs, Acts(p), OpenInsert(p)
  PROVE  Supervised!Next
<1>1. PICK t, d, c, rest, s, h, n :
        /\ t = frame[p].task /\ d = drive[p] /\ c = Arg(p) /\ rest = Tail(frame[p].todo)
        /\ s = state[t] /\ h = head[t] /\ n = attempts[t]
  OBVIOUS
<1>2. PICK row, new : row = Arg(p).row /\ new = Len(requests) + 1
  OBVIOUS
<1>3. /\ frame[p].todo # <<>> /\ c.do = "insert" /\ frame[p].request = 0
      /\ state' = state /\ human' = human /\ supervisor' = supervisor
  <2>1. Doing(p, "insert")
    BY DEF OpenInsert
  <2>2. frame[p].request = 0
    BY <2>1, SyncCalls
  <2> QED BY <1>1, <2>1, <2>2 DEF OpenInsert, memory, Doing, Arg
<1>4. t \in Tasks /\ Holds(p, t) /\ HeldCall(d, t, s, h, n, c, rest)
  <2>1. frame[p].todo # <<>> /\ frame[p].request = 0
    BY <1>3
  <2> QED BY <1>1, <2>1, HolderCall
<1>5. PICK cp \in Managed : d = NoDrive /\ s = Stage(cp) /\ row = Row(t, cp, h, n)
  BY <1>1, <1>2, <1>3, <1>4 DEF HeldCall
<1>6. /\ row.task = t /\ row.checkpoint = cp /\ row.applied = NoVerdict
  BY <1>5 DEF Row
<1>7. /\ Rows' = Rows \cup {new} /\ new \notin Rows /\ requests'[new] = row
      /\ \A x \in Rows : requests'[x] = requests[x]
  BY <1>2, InsertedRows
<1>8. \A r \in Rows : requests[r].task = t => ~Unresolved(r) /\ requests[r].attempt # attempts[t]
  <2>1. d.phase # "provider"
    BY <1>5, NoFrameFacts
  <2> QED BY <1>1, <1>4, <2>1, HolderFacts
<1>9. NoVerdict \notin Verdict /\ NoVerdict \notin TerminalVerdicts /\ NoVerdict # "HUMAN_BLOCK"
  BY NoVerdictAssumption DEF Verdict, TerminalVerdicts
<1>10. UnresolvedOf({t}) = {} /\ UnresolvedOf({t})' = {new}
  <2>1. UnresolvedOf({t}) = {}
    BY <1>8 DEF UnresolvedOf, Rows
  <2>2. \A r \in Rows' : Unresolved(r)' /\ requests'[r].task = t <=> r = new
    BY <1>6, <1>7, <1>8, <1>9 DEF Unresolved
  <2> QED BY <1>7, <2>1, <2>2 DEF UnresolvedOf, Rows
<1>11. ~Refused(t) /\ ~Refused(t)'
  <2>1. \A r \in Rows : requests[r].task = t => requests[r].applied # "HUMAN_BLOCK"
    BY <1>8 DEF RefusedOK
  <2> QED BY <1>6, <1>7, <1>9, <2>1 DEF Refused, RequestsOf, Rows
<1>12. ASSUME NEW u \in Tasks, u # t PROVE Stays(u)
  <2>1. /\ UnresolvedOf({u})' = UnresolvedOf({u})
        /\ \A r \in UnresolvedOf({u}) : r \in Rows
    BY <1>6, <1>7, <1>12 DEF UnresolvedOf, Unresolved, Rows
  <2>2. \A r \in UnresolvedOf({u}) : requests'[r].checkpoint = requests[r].checkpoint
    BY <1>7, <2>1
  <2>3. OpenOn(u)' = OpenOn(u) /\ Heard(u)' = Heard(u) /\ Advised(u)' = Advised(u)
    BY <1>3, <2>1, <2>2, GateStays DEF Answer
  <2>4. Refused(u)' = Refused(u)
    BY <1>6, <1>7, <1>12 DEF Refused, RequestsOf, Rows
  <2>5. Shown(u)' = Shown(u)
    BY <1>3, OutsideShown
  <2> QED BY <2>3, <2>4, <2>5 DEF Stays
<1>13. Shown(t) = s /\ Shown(t)' = s
  <2>1. \A q \in Procs : ~Syncs(q, t)
    BY <1>3, <1>4, HolderFacts DEF AtWork, Syncs
  <2> QED BY <1>1, <1>3, <1>4, <2>1, OutsideShown
<1>14. OpenOn(t) = {} /\ OpenOn(t)' = {cp}
  BY <1>6, <1>7, <1>10 DEF OpenOn
<1>15. Heard(t) = {} /\ Heard(t)' = {} /\ Advised(t) = {} /\ Advised(t)' = {}
  <2>1. \A q \in Syncers : new \notin DOMAIN human[q] /\ new \notin DOMAIN supervisor[q]
    <3>1. TablesOK
      BY FrameFacts
    <3> QED BY <1>7, <3>1 DEF TablesOK, IsAnswers, Procs, Rows
  <2>2. \A q \in Syncers : Answer(human[q], new) = "none" /\ Answer(supervisor[q], new) = "none"
    BY <2>1 DEF Answer
  <2>3. "none" \notin HumanKinds /\ "none" \notin SupervisorKinds
    BY DEF HumanKinds, SupervisorKinds
  <2> QED BY <1>3, <1>10, <2>2, <2>3 DEF Heard, Advised, Said, Answer
<1>16. cp \in Checkpoint /\ s = IF cp = "candidate_ready" THEN "READY" ELSE "BLOCKED"
  BY <1>5 DEF Managed, Checkpoint, Capability, Stage
<1>17. Refused(t)' = Refused(t)
  BY <1>11 DEF Refused
<1>18. cp \in Checkpoint /\ Shown(t) = IF cp = "candidate_ready" THEN "READY" ELSE "BLOCKED"
  BY <1>13, <1>16
<1> HIDE DEF Refused
<1> QED BY <1>4, <1>11, <1>12, <1>13, <1>14, <1>15, <1>17, <1>18, ParkStep

LEMMA PutFacts ==
  ASSUME NEW f, NEW r, NEW d
  PROVE  /\ Answer(Put(f, r, d), r) = d
         /\ \A x : x # r => Answer(Put(f, r, d), x) = Answer(f, x)
BY DEF Answer, Put

\* An answer to an open request is an answer about its task; one to a settled
\* request is none.
LEMMA SubmitSays ==
  ASSUME SoleSyncer, SInv, SInv', NEW p \in Procs, Acts(p), NEW r \in Rows, Submit(p, r)
  PROVE  Supervised!Next \/ UNCHANGED Supervised!task
<1>1. /\ p \in Syncers /\ Idle(p) /\ requests' = requests /\ state' = state
      /\ \A q \in Syncers : q = p
  BY DEF Submit, SubmitHuman, SubmitSupervisor, MaySubmit, SoleSyncer
<1>2. human \in [Procs -> {human[q] : q \in Procs}] /\ supervisor \in [Procs -> {supervisor[q] : q \in Procs}]
  <2>1. MemoryOK
    BY DEF SInv, IInv
  <2> QED BY <2>1 DEF MemoryOK
<1>3. ASSUME NEW d, SubmitHuman(p, r, d)
      PROVE  human'[p] = Put(human[p], r, d) /\ supervisor' = supervisor
  BY <1>2, <1>3 DEF SubmitHuman
<1>4. ASSUME NEW d, SubmitSupervisor(p, r, d)
      PROVE  supervisor'[p] = Put(supervisor[p], r, d) /\ human' = human
  BY <1>2, <1>4 DEF SubmitSupervisor
<1>5. \A x : x # r => /\ Answer(human[p], x)' = Answer(human[p], x)
                      /\ Answer(supervisor[p], x)' = Answer(supervisor[p], x)
  <2>1. CASE \E d : SubmitHuman(p, r, d)
    <3>1. PICK d : SubmitHuman(p, r, d)
      BY <2>1
    <3>2. \A x : Answer(supervisor[p], x)' = Answer(supervisor[p], x)
      BY <1>3, <3>1 DEF Answer
    <3>3. \A x : Answer(human[p], x)' = Answer(human'[p], x)
      BY DEF Answer
    <3> QED BY <1>3, <3>1, <3>2, <3>3, PutFacts
  <2>2. CASE \E d : SubmitSupervisor(p, r, d)
    <3>1. PICK d : SubmitSupervisor(p, r, d)
      BY <2>2
    <3>2. \A x : Answer(human[p], x)' = Answer(human[p], x)
      BY <1>4, <3>1 DEF Answer
    <3>3. \A x : Answer(supervisor[p], x)' = Answer(supervisor'[p], x)
      BY DEF Answer
    <3> QED BY <1>4, <3>1, <3>2, <3>3, PutFacts
  <2> QED BY <2>1, <2>2 DEF Submit
<1>6. \A u \in Tasks : /\ UnresolvedOf({u})' = UnresolvedOf({u}) /\ Refused(u)' = Refused(u)
                       /\ Shown(u)' = Shown(u) /\ OpenOn(u)' = OpenOn(u)
  <2>1. frame[p].request = 0
    BY <1>1, NoFrameFacts DEF Idle
  <2> QED BY <1>1, <2>1, OutsideShown DEF UnresolvedOf, Unresolved, Refused, RequestsOf, OpenOn
<1>7. ASSUME NEW u \in Tasks, r \notin UnresolvedOf({u}) PROVE Stays(u)
  <2>1. \A x \in UnresolvedOf({u}) : x # r
    BY <1>7
  <2>2. OpenOn(u)' = OpenOn(u) /\ Heard(u)' = Heard(u) /\ Advised(u)' = Advised(u)
    BY <1>1, <1>5, <1>6, <2>1, GateStays
  <2> QED BY <1>6, <2>2 DEF Stays
<1>8. CASE ~Unresolved(r)
  <2>1. \A u \in Tasks : r \notin UnresolvedOf({u})
    BY <1>8 DEF UnresolvedOf
  <2> QED BY <1>7, <2>1, NoStep
<1>9. CASE Unresolved(r)
  <2>1. PICK t : t = requests[r].task
    OBVIOUS
  <2>2. t \in Tasks /\ UnresolvedOf({t}) = {r}
    BY <1>9, <2>1, GateOfRow
  <2>3. \A u \in Tasks : u # t => Stays(u)
    BY <1>7, <2>1 DEF UnresolvedOf
  <2>4. /\ Heard(t) = {d \in HumanKinds : Answer(human[p], r) = d}
        /\ Advised(t) = {d \in SupervisorKinds : Answer(supervisor[p], r) = d}
        /\ Heard(t)' = {d \in HumanKinds : Answer(human[p], r)' = d}
        /\ Advised(t)' = {d \in SupervisorKinds : Answer(supervisor[p], r)' = d}
        /\ OpenOn(t) # {}
    <3>1. GateView /\ GateView'
      BY GateIs, PTL
    <3>2. UnresolvedOf({t})' = {r}
      BY <1>6, <2>2
    <3>3. /\ OpenOn(t) = {requests[r].checkpoint}
          /\ Heard(t) = {d \in HumanKinds : Answer(human[p], r) = d}
          /\ Advised(t) = {d \in SupervisorKinds : Answer(supervisor[p], r) = d}
      BY <1>1, <2>2, <3>1 DEF GateView
    <3>4. /\ Heard(t)' = {d \in HumanKinds : Answer(human[p], r)' = d}
          /\ Advised(t)' = {d \in SupervisorKinds : Answer(supervisor[p], r)' = d}
      BY <1>1, <2>2, <3>1, <3>2, Zenon DEF GateView
    <3>5. OpenOn(t) # {}
      BY <3>3
    <3> QED BY <3>3, <3>4, <3>5
  <2>5. ASSUME NEW d \in HumanKinds, SubmitHuman(p, r, d)
        PROVE  Supervised!Next
    <3>1. Answer(human[p], r)' = d /\ Answer(supervisor[p], r)' = Answer(supervisor[p], r)
      BY <1>3, <2>5, PutFacts DEF Answer
    <3>2. Heard(t)' = {d} /\ Advised(t)' = Advised(t)
      BY <2>4, <3>1
    <3> QED BY <1>6, <2>2, <2>3, <2>4, <3>2, HumanSaysStep
  <2>6. ASSUME NEW d \in SupervisorKinds, SubmitSupervisor(p, r, d)
        PROVE  Supervised!Next
    <3>1. Answer(supervisor[p], r)' = d /\ Answer(human[p], r)' = Answer(human[p], r)
      BY <1>4, <2>6, PutFacts DEF Answer
    <3>2. Advised(t)' = {d} /\ Heard(t)' = Heard(t)
      BY <2>4, <3>1
    <3> QED BY <1>6, <2>2, <2>3, <2>4, <3>2, SupervisorSaysStep
  <2> QED BY <2>5, <2>6 DEF Submit
<1> QED BY <1>8, <1>9

\* Memory changes when an answer is submitted, and when its process dies.
LEMMA MemorySteps ==
  ASSUME ~Crashes, NEW p \in Procs, Acts(p)
  PROVE  (\E r \in Rows : Submit(p, r)) \/ (human' = human /\ supervisor' = supervisor)
<1>1. ASSUME NEW u \in Tasks, Drive(p, u) \/ OpenForeign(p, u)
      PROVE  human' = human /\ supervisor' = supervisor
  BY <1>1 DEF Drive, Begin, Adopt, Attempt, ProviderDone, GatesDone, EndDrive, KeepDriving,
     OpenForeign, memory
<1>2. CASE Continue(p)
  BY <1>2 DEF Continue, MoveRead, MoveCommit, RequireRead, SetHeadCommit, HumanRequiredRead,
     OpenRead, OpenInsert, ConsultRead, CanApplyRead, ClaimCommit, ClaimRefused, Raise, memory
<1>3. CASE Sync(p) \/ Crash(p)
  BY <1>3 DEF Sync, StartSync, Crash, memory
<1> QED BY <1>1, <1>2, <1>3 DEF Acts

\* A driver works on a task that has no gate.
LEMMA MoveWorks ==
  ASSUME SoleSyncer, SInv, SInv', NEW p \in Procs, Acts(p), frame[p].request = 0,
         requests' = requests, human' = human, supervisor' = supervisor,
         MoveCommit(p), frame[p].todo # <<>>, Arg(p).do = "move",
         NEW t \in Tasks, t = frame[p].task, state'[t] = Arg(p).to,
         \A u \in Tasks : u # t => state'[u] = state[u]
  PROVE  Supervised!Next
<1>1. PICK d, c, rest, s, h, n :
        /\ d = drive[p] /\ c = Arg(p) /\ rest = Tail(frame[p].todo)
        /\ s = state[t] /\ h = head[t] /\ n = attempts[t]
  OBVIOUS
<1>2. /\ Holds(p, t) /\ HeldPlan(d, t, s, h, n, frame[p].todo)
      /\ HeldCall(d, t, s, h, n, c, rest)
  BY <1>1, HolderCall
<1>3. s \in {"PENDING", "RUNNING", "VERIFYING"}
  <2>1. s \notin Parked
    BY <1>1, <1>2 DEF HeldCall
  <2>2. \A cp : Stage(cp) \in Parked
    BY DEF Stage, Parked
  <2>3. PICK todo : todo = frame[p].todo
    OBVIOUS
  <2>4. CASE d = NoDrive
    <3>1. Ending(t, s, h, n, todo)
      BY <1>2, <2>3, <2>4 DEF HeldPlan
    <3>2. s \in {"RUNNING", "VERIFYING"} \/ \E cp \in Managed : s = Stage(cp)
      BY <3>1, Zenon DEF Ending
    <3> QED BY <2>1, <2>2, <3>2
  <2>5. CASE d # NoDrive
    <3>1. Driving(d.phase, s, todo)
      BY <1>2, <2>3, <2>5 DEF HeldPlan
    <3> QED BY <3>1 DEF Driving
  <2> QED BY <2>4, <2>5
<1>4. TransitionAllowed(s, c.to) /\ c.to \in TaskState
  <2>1. TransitionAllowed(s, c.to)
    BY <1>1 DEF MoveCommit, Ledger!Move, Ledger!TransitionAllowed, Ledger!LegalTransitions,
       TransitionAllowed, LegalTransitions
  <2> QED BY <1>3, <2>1 DEF TransitionAllowed, LegalTransitions, TaskState
<1>5. /\ \A q \in Procs : ~Syncs(q, t)
      /\ UnresolvedOf({t}) = {}
  <2>1. \A q \in Procs : ~AtWork(q, t) \/ q = p
    BY <1>2, HolderFacts
  <2>2. \A r \in Rows : requests[r].task = t => ~Unresolved(r)
    BY <1>2, HolderFacts
  <2> QED BY <2>1, <2>2 DEF AtWork, Syncs, UnresolvedOf, Rows
<1>6. /\ Shown(t) = s /\ Shown(t)' = c.to
      /\ \A u \in Tasks : u # t => Shown(u)' = Shown(u)
  BY <1>1, <1>5, OutsideShown
<1>7. \A u \in Tasks : u # t => Stays(u)
  BY <1>6, QuietGates DEF Stays
<1>8. OpenOn(t) = {}
  BY <1>5, GateIs DEF GateView
<1>9. /\ OpenOn(t)' = OpenOn(t) /\ Heard(t)' = Heard(t) /\ Advised(t)' = Advised(t)
      /\ Refused(t)' = Refused(t)
  BY QuietGates
<1>10. /\ Shown(t) \in {"PENDING", "RUNNING", "VERIFYING"} /\ Shown(t)' \in TaskState
       /\ TransitionAllowed(Shown(t), Shown(t)')
  BY <1>3, <1>4, <1>6
<1> QED BY <1>7, <1>8, <1>9, <1>10, WorkStep

\* Everything a process does outside a sync.
LEMMA OutsideSimulates ==
  ASSUME SoleSyncer, ~Crashes, SInv, SInv', RefusedOK, NEW p \in Procs, Acts(p),
         frame[p].request = 0
  PROVE  Supervised!Next \/ UNCHANGED Supervised!task
<1>1. CASE OpenInsert(p)
  BY <1>1, InsertParks
<1>2. CASE \E r \in Rows : Submit(p, r)
  BY <1>2, SubmitSays
<1>3. ~ClaimCommit(p)
  BY OpenAtHand DEF ClaimCommit
<1>4. CASE requests' = requests /\ human' = human /\ supervisor' = supervisor
  <2>1. CASE state' = state
    <3>1. \A u \in Tasks : Shown(u)' = Shown(u)
      BY <2>1, OutsideShown
    <3> QED BY <1>4, <3>1, QuietStep
  <2>2. ASSUME NEW t \in Tasks, Begin(p, t), state[t] = Absent, state'[t] = "PENDING",
               \A u \in Tasks : u # t => state'[u] = state[u]
        PROVE  Supervised!Next
    <3>1. \A q \in Procs : ~Syncs(q, t)
      <4>1. Absent \notin Parked
        BY DEF Absent, Parked
      <4> QED BY <2>2, <4>1, SyncerFacts
    <3>2. /\ Shown(t) = Absent /\ Shown(t)' = "PENDING"
          /\ \A u \in Tasks : u # t => Shown(u)' = Shown(u)
      BY <2>2, <3>1, OutsideShown
    <3>3. \A u \in Tasks : u # t => Stays(u)
      BY <1>4, <3>2, QuietGates DEF Stays
    <3>4. /\ OpenOn(t)' = OpenOn(t) /\ Heard(t)' = Heard(t) /\ Advised(t)' = Advised(t)
          /\ Refused(t)' = Refused(t)
      BY <1>4, QuietGates
    <3> QED BY <3>2, <3>3, <3>4, CreateStep
  <2>3. ASSUME MoveCommit(p), frame[p].todo # <<>>, Arg(p).do = "move", frame[p].task \in Tasks,
               state'[frame[p].task] = Arg(p).to,
               \A u \in Tasks : u # frame[p].task => state'[u] = state[u]
        PROVE  Supervised!Next
    BY <1>4, <2>3, MoveWorks
  <2> QED BY <2>1, <2>2, <2>3, OwnMoves
<1> QED BY <1>1, <1>2, <1>3, <1>4, MemorySteps, RequestSteps

-----------------------------------------------------------------------------
(***************************************************************************)
(* In a sync.                                                              *)
(***************************************************************************)
\* Weighing a verdict, and taking the task where a claimed one says, show nothing.
LEMMA WeighingShown ==
  ASSUME SInv, SInv', NEW p \in Procs, Acts(p), WeighedOK(p),
         ConsultRead(p) \/ CanApplyRead(p) \/ ClaimRefused(p)
  PROVE  UNCHANGED Supervised!task
<1>1. /\ UNCHANGED <<database, memory>>
      /\ \/ frame'[p] = Visit(frame[p].queue)
         \/ frame'[p].todo \in {<<CanApply>>, <<Claim>>}
      /\ \A u \in Tasks : ~Applies(p, u)
  BY WeighingStep
<1>2. \A u \in Tasks : ~Applies(p, u)'
  <2>1. frame'[p].todo = <<>> \/ Head(frame'[p].todo).do \in {"consult", "can_apply", "claim"}
    <3>1. PICK list : list = frame[p].queue
      OBVIOUS
    <3>2. CASE frame'[p] = Visit(list)
      BY <3>2, VisitHead
    <3>3. CASE frame'[p].todo \in {<<CanApply>>, <<Claim>>}
      BY <3>3, ShortPlans, CallKinds
    <3> QED BY <1>1, <3>1, <3>2, <3>3
  <2> QED BY <2>1 DEF Applies, Doing
<1>3. \A u \in Tasks : Shown(u)' = Shown(u)
  BY <1>1, <1>2, OthersStay, ShownAfter DEF database
<1> QED BY <1>1, <1>3, QuietStep DEF database, memory

LEMMA AppliedShown ==
  ASSUME SInv, SInv', NEW p \in Procs, Acts(p), NEW t, t = frame[p].task,
         NEW v, v = frame[p].verdict, Applied(p, t, v)
  PROVE  UNCHANGED Supervised!task
<1>1. /\ Applies(p, t) /\ t \in Tasks /\ requests' = requests
      /\ human' = human /\ supervisor' = supervisor
      /\ \A u \in Tasks : u # t => state'[u] = state[u]
  BY DEF Applied
<1>2. \/ state'[t] = Outcome(v) /\ \A u \in Tasks : ~Applies(p, u)'
      \/ /\ frame'[p].task = t /\ frame'[p].verdict = v /\ Applies(p, t)'
  <2>1. PICK list : list = frame[p].queue
    OBVIOUS
  <2>2. CASE frame'[p] = Visit(list) /\ state'[t] = Outcome(v)
    <3>1. frame'[p].todo = <<>> \/ Head(frame'[p].todo).do = "consult"
      BY <2>2, VisitHead
    <3>2. \A u \in Tasks : ~Applies(p, u)'
      BY <3>1 DEF Applies, Doing
    <3> QED BY <2>2, <3>2
  <2>3. CASE /\ frame'[p].task = t /\ frame'[p].request # 0 /\ frame'[p].verdict = v
             /\ frame'[p].todo # <<>> /\ Head(frame'[p].todo).do \in Moving
    <3>1. Applies(p, t)'
      BY <2>3 DEF Applies, Doing, Moving
    <3> QED BY <2>3, <3>1
  <2> QED BY <2>1, <2>2, <2>3 DEF Applied
<1>3. ASSUME NEW u \in Tasks PROVE Shown(u)' = Shown(u)
  <2>1. CASE u = t
    BY <1>1, <1>2, <2>1, OthersStay, ShownAfter
  <2>2. CASE u # t
    <3>1. ~Applies(p, u) /\ ~Applies(p, u)'
      BY <1>1, <1>2, <2>2 DEF Applies
    <3> QED BY <1>1, <2>2, <3>1, OthersStay, ShownAfter
  <2> QED BY <2>1, <2>2
<1> QED BY <1>1, <1>3, QuietStep

\* What a claimed verdict says about the answers, policy and the state of the task.
LEMMA ClaimedFor ==
  ASSUME NEW a \in HumanKinds \cup {"none"}, NEW b \in SupervisorKinds \cup {"none"},
         NEW p, NEW r, Answer(human[p], r) = a, Answer(supervisor[p], r) = b,
         NEW cp, NEW s, NEW v, v = Governed(Poll(p, r), cp, s), v \in Verdict
  PROVE  /\ v = "CONTINUE" =>
              /\ a = "none" /\ b = "CONTINUE_AUTONOMOUSLY"
              /\ TransitionAllowed(s, "RUNNING") /\ SupervisorMayGrant(cp)
         /\ v = "HUMAN_RESUME" => a = "APPROVED" /\ HumanMayGrant(cp)
         /\ v = "HUMAN_BLOCK" => a # "none" /\ (a = "APPROVED" => ~HumanMayGrant(cp))
         /\ v = "HUMAN_REQUIRED" =>
              /\ a = "none" /\ b # "none"
              /\ ~(/\ b = "CONTINUE_AUTONOMOUSLY"
                   /\ TransitionAllowed(s, "RUNNING") /\ SupervisorMayGrant(cp))
<1>1. PICK polled : polled = Poll(p, r)
  OBVIOUS
<1>2. /\ a = "REJECTED" => polled = "HUMAN_BLOCK"
      /\ a = "APPROVED" => polled = "HUMAN_RESUME"
      /\ a = "none" /\ b = "none" => polled = "PENDING"
      /\ a = "none" /\ b = "CONTINUE_AUTONOMOUSLY" => polled = "CONTINUE"
      /\ a = "none" /\ b = "REQUEST_HUMAN_ACTION" => polled = "HUMAN_REQUIRED"
  BY <1>1 DEF Poll, VerdictForStatus
<1>3. a \in {"APPROVED", "REJECTED", "none"}
  BY DEF HumanKinds
<1>4. b \in {"CONTINUE_AUTONOMOUSLY", "REQUEST_HUMAN_ACTION", "none"}
  BY DEF SupervisorKinds
<1>5. v = Governed(polled, cp, s)
  BY <1>1
<1>6. CASE polled = "CONTINUE"
  BY <1>2, <1>3, <1>4, <1>5, <1>6 DEF Governed
<1>7. CASE polled = "HUMAN_RESUME"
  BY <1>2, <1>3, <1>4, <1>5, <1>7 DEF Governed
<1>8. CASE polled \in {"HUMAN_BLOCK", "HUMAN_REQUIRED"}
  BY <1>2, <1>3, <1>4, <1>5, <1>8 DEF Governed
<1>9. CASE polled = "PENDING"
  BY <1>5, <1>9 DEF Governed, Verdict, TerminalVerdicts
<1> QED BY <1>2, <1>3, <1>4, <1>6, <1>7, <1>8, <1>9

\* The claim is the step of SupervisedTask: it finds the answers, the checkpoint
\* and the state as they were weighed.
LEMMA ClaimSimulates ==
  ASSUME SoleSyncer, SInv, SInv', NEW p \in Procs, Acts(p), WeighedOK(p), ClaimCommit(p)
  PROVE  Supervised!Next
<1>1. PICK t, r, v, cp, s, a, b :
        /\ t = frame[p].task /\ r = frame[p].request /\ v = frame[p].verdict
        /\ cp = requests[r].checkpoint /\ s = state[t]
        /\ a = Answer(human[p], r) /\ b = Answer(supervisor[p], r)
  OBVIOUS
<1>2. /\ frame'[p].task = t /\ frame'[p].request = r /\ frame'[p].verdict = v
      /\ frame'[p].todo # <<>> /\ Head(frame'[p].todo).do \in Moving
      /\ \A u \in Tasks : ~Applies(p, u)
      /\ t \in Tasks /\ Syncs(p, t) /\ Unresolved(r)
  BY <1>1, ClaimingStep
<1>3. /\ Rows' = Rows /\ r \in Rows /\ v \in Verdict
      /\ \A x \in Rows : /\ requests'[x].task = requests[x].task
                         /\ requests'[x].checkpoint = requests[x].checkpoint
                         /\ x # r => requests'[x].applied = requests[x].applied
      /\ requests'[r].applied = v
  BY <1>1, ClaimedRow
<1>4. state' = state /\ human' = human /\ supervisor' = supervisor
  BY DEF ClaimCommit, memory
<1>5. v = Governed(Poll(p, r), cp, s)
  <2>1. v = Weighed(p)
    BY <1>1 DEF WeighedOK, ClaimCommit
  <2> QED BY <1>1, <2>1 DEF Weighed
<1>6. requests[r].task = t /\ p \in Syncers /\ TablesOK /\ UnresolvedOf({t}) = {r}
  <2>1. requests[r].task = t /\ p \in Syncers /\ TablesOK
    BY <1>1, <1>2, SyncerFacts
  <2> QED BY <1>2, <1>3, <2>1, GateOfRow
<1>7. /\ OpenOn(t) = {cp} /\ Heard(t) = {d \in HumanKinds : a = d}
      /\ Advised(t) = {d \in SupervisorKinds : b = d}
  <2>1. GateView /\ t \in Tasks /\ p \in Syncers /\ UnresolvedOf({t}) = {r}
    BY <1>2, <1>6, GateIs
  <2>2. \A x, q : UnresolvedOf({t}) = {x} /\ q \in Syncers =>
          /\ OpenOn(t) = {requests[x].checkpoint}
          /\ Heard(t) = {d \in HumanKinds : Answer(human[q], x) = d}
          /\ Advised(t) = {d \in SupervisorKinds : Answer(supervisor[q], x) = d}
    BY <2>1, Zenon DEF GateView
  <2>3. /\ OpenOn(t) = {requests[r].checkpoint}
        /\ Heard(t) = {d \in HumanKinds : Answer(human[p], r) = d}
        /\ Advised(t) = {d \in SupervisorKinds : Answer(supervisor[p], r) = d}
    BY <2>1, <2>2, Zenon
  <2> QED BY <1>1, <2>3
<1>8. a \in HumanKinds \cup {"none"} /\ b \in SupervisorKinds \cup {"none"}
  BY <1>1, <1>6 DEF TablesOK, IsAnswers, Answer
<1>9. /\ "none" \notin HumanKinds /\ "none" \notin SupervisorKinds
      /\ "APPROVED" \in HumanKinds /\ "CONTINUE_AUTONOMOUSLY" \in SupervisorKinds
  BY DEF HumanKinds, SupervisorKinds
<1>10. /\ a = "none" => Heard(t) = {}
       /\ a # "none" => Heard(t) = {a}
       /\ b = "none" => Advised(t) = {}
       /\ b # "none" => Advised(t) = {b}
  BY <1>7, <1>8, <1>9
<1>11. /\ v = "CONTINUE" =>
            /\ a = "none" /\ b = "CONTINUE_AUTONOMOUSLY"
            /\ TransitionAllowed(s, "RUNNING") /\ SupervisorMayGrant(cp)
       /\ v = "HUMAN_RESUME" => a = "APPROVED" /\ HumanMayGrant(cp)
       /\ v = "HUMAN_BLOCK" => a # "none" /\ (a = "APPROVED" => ~HumanMayGrant(cp))
       /\ v = "HUMAN_REQUIRED" =>
            /\ a = "none" /\ b # "none"
            /\ ~(/\ b = "CONTINUE_AUTONOMOUSLY"
                 /\ TransitionAllowed(s, "RUNNING") /\ SupervisorMayGrant(cp))
  BY <1>1, <1>3, <1>5, <1>8, ClaimedFor
<1>12. Shown(t) = s /\ Shown(t)' = Outcome(v)
  <2>1. ShownView /\ ShownView'
    BY ShownIs, PTL
  <2>2. \A q \in Procs : ~Applies(q, t)
    <3>1. \A q \in Procs : q # p => ~AtWork(q, t)
      BY <1>2, OneTask DEF AtWork
    <3> QED BY <1>2, <3>1, AppliesFacts DEF AtWork
  <2>3. Applies(p, t)'
    <3>1. r # 0
      BY <1>1, <1>2 DEF Syncs
    <3> QED BY <1>2, <3>1 DEF Applies, Doing, Moving
  <2>4. Shown(t) = state[t]
    BY <1>2, <2>1, <2>2 DEF ShownView
  <2>5. Shown(t)' = Outcome(frame[p].verdict)'
    BY <1>2, <2>1, <2>3, Zenon DEF ShownView
  <2> QED BY <1>1, <1>2, <2>4, <2>5 DEF Outcome
<1>13. ASSUME NEW u \in Tasks, u # t PROVE Stays(u)
  <2>1. Shown(u)' = Shown(u)
    <3>1. ~Applies(p, u) /\ ~Applies(p, u)'
      BY <1>2, <1>13 DEF Applies
    <3> QED BY <1>4, <3>1, OthersStay, ShownAfter
  <2>2. \A x \in Rows : requests[x].task = u => /\ x # r /\ requests'[x].applied = requests[x].applied
                                              /\ (Unresolved(x)' <=> Unresolved(x))
    BY <1>3, <1>6, <1>13 DEF Unresolved
  <2>3. UnresolvedOf({u})' = UnresolvedOf({u})
    BY <1>3, <2>2 DEF UnresolvedOf, Rows
  <2>4. OpenOn(u)' = OpenOn(u) /\ Heard(u)' = Heard(u) /\ Advised(u)' = Advised(u)
    <3>1. \A x \in UnresolvedOf({u}) : requests'[x].checkpoint = requests[x].checkpoint
      BY <1>3 DEF UnresolvedOf, Rows
    <3> QED BY <1>4, <2>3, <3>1, GateStays DEF Answer
  <2>5. Refused(u)' = Refused(u)
    BY <1>3, <2>2 DEF Refused, RequestsOf, Rows
  <2> QED BY <2>1, <2>4, <2>5 DEF Stays
<1>14. /\ v # "HUMAN_REQUIRED" => UnresolvedOf({t})' = {}
       /\ v = "HUMAN_REQUIRED" => UnresolvedOf({t})' = {r}
  <2>1. Unresolved(r)' <=> v = "HUMAN_REQUIRED"
    BY <1>3 DEF Unresolved, Verdict, TerminalVerdicts
  <2>2. \A x \in Rows : requests[x].task = t /\ Unresolved(x) => x = r
    BY <1>6 DEF UnresolvedOf, Rows
  <2>3. \A x \in Rows : requests'[x].task = t /\ Unresolved(x)' => x = r
    BY <1>3, <2>2 DEF Unresolved
  <2> QED BY <1>3, <1>6, <2>1, <2>3 DEF UnresolvedOf, Rows
<1>15. /\ v = "HUMAN_BLOCK" => Refused(t)' = TRUE
       /\ v # "HUMAN_BLOCK" => Refused(t)' = Refused(t)
  <2>1. requests[r].applied # "HUMAN_BLOCK"
    BY <1>2 DEF Unresolved, TerminalVerdicts
  <2>2. /\ Refused(t) <=> \E x \in Rows : requests[x].task = t /\ requests[x].applied = "HUMAN_BLOCK"
        /\ Refused(t)' <=> \E x \in Rows : requests[x].task = t /\ requests'[x].applied = "HUMAN_BLOCK"
    BY <1>3 DEF Refused, RequestsOf, Rows
  <2>3. CASE v = "HUMAN_BLOCK"
    <3>1. Refused(t)'
      BY <1>3, <1>6, <2>2, <2>3
    <3> QED BY <2>3, <3>1 DEF Refused
  <2>4. CASE v # "HUMAN_BLOCK"
    <3>1. Refused(t)' <=> Refused(t)
      BY <1>3, <2>1, <2>2, <2>4
    <3> QED BY <2>4, <3>1 DEF Refused
  <2> QED BY <2>3, <2>4
<1>16. /\ v # "HUMAN_REQUIRED" => OpenOn(t)' = {} /\ Heard(t)' = {} /\ Advised(t)' = {}
       /\ v = "HUMAN_REQUIRED" =>
            OpenOn(t)' = OpenOn(t) /\ Heard(t)' = Heard(t) /\ Advised(t)' = Advised(t)
  <2>1. GateView'
    BY GateIs, PTL
  <2>2. CASE v # "HUMAN_REQUIRED"
    <3>1. UnresolvedOf({t})' = {}
      BY <1>14, <2>2
    <3> QED BY <1>2, <2>1, <2>2, <3>1, Zenon DEF GateView
  <2>3. CASE v = "HUMAN_REQUIRED"
    BY <1>2, <1>3, <1>4, <1>6, <1>14, <2>3, GateStays DEF Answer
  <2> QED BY <2>2, <2>3
<1>17. CASE v \in {"CONTINUE", "HUMAN_RESUME"}
  <2>1. /\ Shown(t)' = "RUNNING" /\ OpenOn(t)' = {} /\ Heard(t)' = {} /\ Advised(t)' = {}
        /\ Refused(t)' = Refused(t)
    BY <1>12, <1>15, <1>16, <1>17 DEF Outcome
  <2>2. \/ Heard(t) = {"APPROVED"} /\ HumanMayGrant(cp)
        \/ /\ Heard(t) = {} /\ Advised(t) = {"CONTINUE_AUTONOMOUSLY"}
           /\ TransitionAllowed(Shown(t), "RUNNING") /\ SupervisorMayGrant(cp)
    BY <1>10, <1>11, <1>12, <1>17
  <2> QED BY <1>2, <1>7, <1>13, <2>1, <2>2, ResumeStep
<1>18. CASE v = "HUMAN_BLOCK"
  <2>1. /\ Shown(t)' = "BLOCKED" /\ OpenOn(t)' = {} /\ Heard(t)' = {} /\ Advised(t)' = {}
        /\ Refused(t)' = TRUE
    BY <1>12, <1>15, <1>16, <1>18 DEF Outcome
  <2>2. Heard(t) # {} /\ (Heard(t) = {"APPROVED"} => ~HumanMayGrant(cp))
    BY <1>10, <1>11, <1>18
  <2> QED BY <1>2, <1>7, <1>13, <2>1, <2>2, RefuseStep
<1>19. CASE v = "HUMAN_REQUIRED"
  <2>1. /\ Shown(t)' = "WAITING_HUMAN"
        /\ OpenOn(t)' = OpenOn(t) /\ Heard(t)' = Heard(t) /\ Advised(t)' = Advised(t)
        /\ Refused(t)' = Refused(t)
    BY <1>12, <1>15, <1>16, <1>19 DEF Outcome
  <2>2. /\ Heard(t) = {} /\ Advised(t) # {}
        /\ ~(/\ Advised(t) = {"CONTINUE_AUTONOMOUSLY"}
             /\ TransitionAllowed(Shown(t), "RUNNING") /\ SupervisorMayGrant(cp))
    BY <1>10, <1>11, <1>12, <1>19
  <2> QED BY <1>2, <1>7, <1>13, <2>1, <2>2, EscalateStep
<1> QED BY <1>3, <1>17, <1>18, <1>19 DEF Verdict, TerminalVerdicts

-----------------------------------------------------------------------------
LEMMA Simulates ==
  ASSUME SoleSyncer, ~Crashes, ~Faults, RInv, RInv', Next
  PROVE  Supervised!Next \/ UNCHANGED Supervised!task
<1>1. PICK p \in Procs : Acts(p)
  BY SomeoneActs
<1>2. SInv /\ SInv' /\ RefusedOK /\ WeighedOK(p)
  BY DEF RInv
<1>3. CASE frame[p].request = 0
  BY <1>1, <1>2, <1>3, OutsideSimulates
<1>4. CASE frame[p].request # 0
  <2>1. CASE ConsultRead(p) \/ CanApplyRead(p) \/ ClaimRefused(p)
    BY <1>1, <1>2, <2>1, WeighingShown
  <2>2. CASE ClaimCommit(p)
    BY <1>1, <1>2, <2>2, ClaimSimulates
  <2>3. CASE MoveRead(p) \/ MoveCommit(p) \/ RequireRead(p) \/ HumanRequiredRead(p)
    <3>1. PICK t, v : t = frame[p].task /\ v = frame[p].verdict
      OBVIOUS
    <3>2. Applied(p, t, v)
      BY <1>2, <1>4, <2>3, <3>1, AppliedStep
    <3> QED BY <1>1, <1>2, <3>1, <3>2, AppliedShown
  <2> QED BY <1>1, <1>2, <1>4, <2>1, <2>2, <2>3, SyncSteps
<1> QED BY <1>3, <1>4

LEMMA StartsSupervised == Init => Supervised!Init
<1> SUFFICES ASSUME Init PROVE Supervised!Init
  OBVIOUS
<1>1. /\ state = [t \in Tasks |-> Absent] /\ requests = <<>>
      /\ frame = [p \in Procs |-> NoFrame]
  BY DEF Init, Ledger!Init, Ledger!Absent, Absent
<1>2. 1..Len(requests) = {}
  BY <1>1, NoFrameFacts
<1>3. ASSUME NEW t \in Tasks
      PROVE  /\ Shown(t) = Absent /\ OpenOn(t) = {} /\ Refused(t) = FALSE
             /\ Said(human, HumanKinds, t) = {} /\ Said(supervisor, SupervisorKinds, t) = {}
  <2>1. UnresolvedOf({t}) = {} /\ RequestsOf(t) = {}
    BY <1>2 DEF UnresolvedOf, RequestsOf
  <2>2. \A p \in Syncers : ~Applies(p, t)
    BY <1>1, NoFrameFacts DEF Applies, Procs
  <2>3. Shown(t) = Absent
    BY <1>1, <2>2 DEF Shown
  <2>4. Refused(t) = FALSE
    BY <2>1 DEF Refused
  <2> QED BY <2>1, <2>3, <2>4 DEF OpenOn, Said
<1>4. /\ [t \in Tasks |-> Shown(t)] = [t \in Tasks |-> Absent]
      /\ [t \in Tasks |-> OpenOn(t)] = [t \in Tasks |-> {}]
      /\ [t \in Tasks |-> Said(human, HumanKinds, t)] = [t \in Tasks |-> {}]
      /\ [t \in Tasks |-> Said(supervisor, SupervisorKinds, t)] = [t \in Tasks |-> {}]
      /\ [t \in Tasks |-> Refused(t)] = [t \in Tasks |-> FALSE]
  BY <1>3
<1> QED BY <1>4 DEF Supervised!Init, Supervised!Absent, Absent

LEMMA StuttersSupervised == UNCHANGED vars => UNCHANGED Supervised!task
<1> SUFFICES ASSUME UNCHANGED vars PROVE UNCHANGED Supervised!task
  OBVIOUS
<1>1. /\ state' = state /\ requests' = requests /\ human' = human
      /\ supervisor' = supervisor /\ frame' = frame
  BY DEF vars, database, memory
<1>2. \A u \in Tasks : Shown(u)' = Shown(u)
  BY <1>1 DEF Shown, Applies, Doing, Outcome
<1> QED BY <1>1, <1>2, QuietStep

\* With one process that syncs, callers that open no checkpoints of their own, and
\* processes that neither die nor meet a busy database, a task goes through what
\* supervision promises: the many reads and transactions of sync_supervision, and
\* of the lifecycle methods beside it, amount to one step at the claim of a verdict,
\* and that step follows the latest answers, policy and the state of the task.
THEOREM ImplementsSupervisedTask ==
  ASSUME SoleSyncer, Foreign = FALSE, Crashes = FALSE, Faults = FALSE
  PROVE  Spec => SettlesAtOnce
<1>1. Spec => []RInv
  BY AlwaysRInv
<1>2. RInv /\ RInv' /\ [Next]_vars => [Supervised!Next]_Supervised!task
  BY Simulates, StuttersSupervised
<1> QED BY <1>1, <1>2, StartsSupervised, PTL DEF Spec, SettlesAtOnce, Supervised!Spec
=============================================================================
