------------------------ MODULE ExecutionManagerProofs ----------------------
(***************************************************************************)
(* For any number of tasks, of processes that drive them and of processes  *)
(* that apply supervision, which may open checkpoints of their own and     *)
(* die: everything is well typed; a verdict on record has its decision on  *)
(* record, when no store call fails; and, when nobody takes up a task that *)
(* was left RUNNING, a task comes back from supervision only on an answer  *)
(* of somebody policy empowers.                                            *)
(***************************************************************************)
EXTENDS ExecutionManager, SequenceTheorems, FiniteSetTheorems, TLAPS

Rows == 1..Len(requests)

\* The decision that explains a verdict on request r is on record.
Backed(r, verdict) ==
  /\ verdict = "CONTINUE" => <<r, "SUPERVISOR", "CONTINUE_AUTONOMOUSLY">> \in decided
  /\ verdict = "HUMAN_RESUME" => <<r, "HUMAN", "APPROVED">> \in decided
  /\ verdict = "HUMAN_BLOCK" =>
       \/ <<r, "HUMAN", "REJECTED">> \in decided
       \/ /\ <<r, "HUMAN", "APPROVED">> \in decided
          /\ ~HumanMayGrant(requests[r].checkpoint)

\* What a call in the frame f of process p rests on: a verdict that was
\* weighed, the task it is about, and, if it makes the task run, either such a
\* verdict or the driver's own place before its provider.
CallOK(p, f, c) ==
  /\ c.do \in {"consult", "can_apply", "claim"} => f.request # 0
  /\ c.do \in {"can_apply", "claim"} => f.verdict \in Verdict
  /\ c.do = "insert" => c.row.task = f.task /\ c.row.applied = NoVerdict
  /\ c.do = "move" /\ c.to = "RUNNING" =>
       IF f.request = 0 THEN drive[p] = [task |-> f.task, phase |-> "provider"]
                        ELSE f.verdict \in {"CONTINUE", "HUMAN_RESUME"}

\* A process that is in a method knows a task and, while it syncs, a request of
\* it, whose verdict is granted by an answer in its own port.
FrameOK(p, f) ==
  /\ f \in Frame
  /\ f.todo # <<>> => f.task \in Tasks /\ state[f.task] # Absent
  /\ f.request \in Rows \cup {0} /\ \A i \in 1..Len(f.queue) : f.queue[i] \in Rows
  /\ f.request # 0 => p \in Syncers /\ requests[f.request].task = f.task
  /\ f.request = 0 => f.queue = <<>> /\ f.verdict = NoVerdict
  /\ f.verdict \in {"CONTINUE", "HUMAN_RESUME"} => Granted(p, f.request)
  /\ ~Faults => Backed(f.request, f.verdict)
  /\ \A i \in 1..Len(f.todo) : CallOK(p, f, f.todo[i])

FramesOK == \A p \in Procs : FrameOK(p, frame[p])

\* Requests are about tasks that exist, and claimed with a decision.
RowsOK ==
  \A r \in Rows : /\ state[requests[r].task] # Absent
                  /\ ~Faults => Backed(r, requests[r].applied)

\* What a port remembers is on record.
MemoryOK ==
  /\ human = [p \in Procs |-> human[p]] /\ supervisor = [p \in Procs |-> supervisor[p]]
  /\ ~Faults => \A p \in Procs :
       /\ \A r \in DOMAIN human[p] : <<r, "HUMAN", human[p][r]>> \in decided
       /\ \A r \in DOMAIN supervisor[p] :
            <<r, "SUPERVISOR", supervisor[p][r]>> \in decided

\* A task that is driven exists; and, if none is taken up again, it has no
\* checkpoint, so nobody else acts on it, and its driver keeps it where no
\* verdict applies.
Alone(p, t) ==
  /\ state[t] \in {"PENDING", "RUNNING", "VERIFYING"}
  /\ \A r \in Rows : requests[r].task # t
  /\ \A q \in Procs \ {p} : /\ frame[q].todo # <<>> => frame[q].task # t
                            /\ drive[q] # NoDrive => drive[q].task # t
  /\ frame[p].todo # <<>> => frame[p].task = t /\ frame[p].request = 0
  /\ \A i \in 1..Len(frame[p].todo) :
       LET c == frame[p].todo[i] IN
       /\ c.do \in {"move", "require", "set_head"}
       /\ c.do = "move" => c.to \in {"RUNNING", "VERIFYING"}
DrivesOK ==
  \A p \in Procs : drive[p] # NoDrive =>
    state[drive[p].task] # Absent /\ (~Redrive => Alone(p, drive[p].task))

IInv == TypeOK /\ FramesOK /\ RowsOK /\ MemoryOK /\ DrivesOK

\* TypeOK, but for the frames.
TablesOK ==
  /\ state \in [Tasks -> RowState]
  /\ head \in [Tasks -> Heads \cup {NoHead}]
  /\ attempts \in [Tasks -> 0..MaxAttempts]
  /\ requests \in Seq(Request)
  /\ decided \subseteq Rows \X {"HUMAN", "SUPERVISOR"} \X (HumanKinds \cup SupervisorKinds)
  /\ \A p \in Procs : IsAnswers(human[p], HumanKinds)
                      /\ IsAnswers(supervisor[p], SupervisorKinds)
  /\ drive \in [Procs -> {NoDrive} \cup
                 [task : Tasks, phase : {"provider", "outcome", "gates"}]]

\* What no step undoes: tasks and requests stay, and decisions stay on record.
Grows ==
  /\ Rows \subseteq Rows'
  /\ \A r \in Rows : /\ requests'[r].task = requests[r].task
                     /\ requests'[r].checkpoint = requests[r].checkpoint
  /\ decided \subseteq decided'
  /\ \A t \in Tasks : state[t] # Absent => state'[t] # Absent

-----------------------------------------------------------------------------
LEMMA TypeParts == TypeOK <=> TablesOK /\ frame \in [Procs -> Frame]
BY DEF TypeOK, TablesOK, Rows

\* What is left of a plan, and a plan with its first call replaced.
LEMMA TailFacts ==
  ASSUME NEW S, NEW s \in Seq(S), s # <<>>
  PROVE  /\ Head(s) = s[1] /\ s[1] \in S /\ Len(s) \in Nat \ {0} /\ 1 \in 1..Len(s)
         /\ Tail(s) \in Seq(S) /\ Len(Tail(s)) = Len(s) - 1
         /\ \A i \in 1..Len(Tail(s)) : i + 1 \in 1..Len(s) /\ Tail(s)[i] = s[i + 1]
OBVIOUS

LEMMA ReplaceFacts ==
  ASSUME NEW S, NEW s \in Seq(S), s # <<>>, NEW c \in S
  PROVE  /\ <<c>> \o Tail(s) \in Seq(S) /\ <<c>> \o Tail(s) # <<>>
         /\ \A i \in 1..Len(<<c>> \o Tail(s)) :
              \/ (<<c>> \o Tail(s))[i] = c
              \/ \E j \in 1..Len(s) : (<<c>> \o Tail(s))[i] = s[j]
<1> DEFINE u == Tail(s)
           v == <<c>>
           w == v \o u
<1>1. /\ u \in Seq(S) /\ Len(u) \in Nat
      /\ \A i \in 1..Len(u) : i + 1 \in 1..Len(s) /\ u[i] = s[i + 1]
  BY TailFacts
<1>2. v \in Seq(S) /\ Len(v) = 1 /\ v[1] = c
  OBVIOUS
<1> HIDE DEF u, v
<1>3. /\ w \in Seq(S) /\ Len(w) = 1 + Len(u)
      /\ \A i \in 1..Len(w) : w[i] = IF i <= 1 THEN v[i] ELSE u[i - 1]
  <2>1. /\ w \in Seq(S) /\ Len(w) = Len(v) + Len(u)
        /\ \A i \in 1..(Len(v) + Len(u)) :
             w[i] = IF i <= Len(v) THEN v[i] ELSE u[i - Len(v)]
    BY <1>1, <1>2, ConcatProperties
  <2> HIDE DEF w
  <2> QED BY <1>2, <2>1
<1> HIDE DEF w
<1>4. ASSUME NEW i \in 1..Len(w)
      PROVE  w[i] = c \/ \E j \in 1..Len(s) : w[i] = s[j]
  <2>1. CASE i = 1
    BY <1>2, <1>3, <2>1
  <2>2. CASE i # 1
    <3>1. i - 1 \in 1..Len(u) /\ w[i] = u[i - 1]
      BY <1>1, <1>3, <2>2
    <3> QED BY <1>1, <3>1
  <2> QED BY <2>1, <2>2
<1>5. w # <<>>
  BY <1>1, <1>3
<1> QED BY <1>3, <1>4, <1>5 DEF w, u, v

LEMMA AppendFacts ==
  ASSUME NEW S, NEW s \in Seq(S), NEW e \in S
  PROVE  /\ Append(s, e) \in Seq(S) /\ Len(s) \in Nat /\ Len(Append(s, e)) = Len(s) + 1
         /\ Append(s, e)[Len(s) + 1] = e
         /\ \A i \in 1..Len(s) : Append(s, e)[i] = s[i]
         /\ \A i \in 1..Len(Append(s, e)) : i \in 1..Len(s) \/ i = Len(s) + 1
OBVIOUS

LEMMA RowFacts ==
  ASSUME TablesOK
  PROVE  /\ Rows \subseteq Nat \ {0} /\ Len(requests) \in Nat
         /\ \A r \in Rows : /\ requests[r] \in Request /\ requests[r].task \in Tasks
                            /\ requests[r].checkpoint \in Checkpoint
<1>1. requests \in Seq(Request)
  BY DEF TablesOK
<1>2. \A r \in Rows : requests[r] \in Request
  BY <1>1, ElementOfSeq DEF Rows
<1> QED BY <1>1, <1>2 DEF Request, Rows

\* A process between two methods.
LEMMA IdleOK == \A p : FrameOK(p, NoFrame)
<1>1. NoFrame \in Frame /\ NoFrame.todo = <<>> /\ NoFrame.queue = <<>>
      /\ NoFrame.request = 0 /\ NoFrame.verdict = NoVerdict
  BY DEF NoFrame, Frame, NoTask
<1>2. Len(<<>>) = 0 /\ 1..0 = {}
  OBVIOUS
<1>3. NoVerdict \notin {"CONTINUE", "HUMAN_RESUME", "HUMAN_BLOCK"}
  BY NoVerdictAssumption DEF Verdict, TerminalVerdicts
<1> QED BY <1>1, <1>2, <1>3 DEF FrameOK, Backed

\* A frame stays sound while others act, and while its own process changes
\* neither its port nor its drive.
LEMMA FrameStays ==
  ASSUME TablesOK, NEW p \in Procs, NEW f, FrameOK(p, f), Grows,
         f.verdict = NoVerdict \/ (human'[p] = human[p] /\ supervisor'[p] = supervisor[p]),
         drive'[p] = drive[p] \/ \A i \in 1..Len(f.todo) : f.todo[i].do # "move"
  PROVE  FrameOK(p, f)'
<1>1. /\ Rows \subseteq Rows' /\ decided \subseteq decided'
      /\ \A r \in Rows : /\ requests'[r].task = requests[r].task
                         /\ requests'[r].checkpoint = requests[r].checkpoint
      /\ \A t \in Tasks : state[t] # Absent => state'[t] # Absent
  BY DEF Grows
<1>2. f.request \in Rows \/ f.request = 0
  BY DEF FrameOK
<1>3. f.verdict = NoVerdict => f.verdict \notin {"CONTINUE", "HUMAN_RESUME", "HUMAN_BLOCK"}
  BY NoVerdictAssumption DEF Verdict, TerminalVerdicts
<1>4. f.verdict \in {"CONTINUE", "HUMAN_RESUME"} => Granted(p, f.request)'
  <2> SUFFICES ASSUME f.verdict \in {"CONTINUE", "HUMAN_RESUME"} PROVE Granted(p, f.request)'
    OBVIOUS
  <2>1. f.request \in Rows /\ Granted(p, f.request)
    BY <1>2, <1>3 DEF FrameOK
  <2>2. human'[p] = human[p] /\ supervisor'[p] = supervisor[p]
    BY <1>3
  <2> QED BY <1>1, <2>1, <2>2 DEF Granted, Answer
<1>5. ~Faults => Backed(f.request, f.verdict)'
  <2>1. f.request = 0 => f.verdict = NoVerdict
    BY DEF FrameOK
  <2> QED BY <1>1, <1>2, <1>3, <2>1 DEF FrameOK, Backed
<1>6. \A i \in 1..Len(f.todo) : CallOK(p, f, f.todo[i])'
  <2>1. CASE \A i \in 1..Len(f.todo) : f.todo[i].do # "move"
    BY <2>1 DEF FrameOK, CallOK
  <2>2. CASE drive'[p] = drive[p]
    BY <2>2 DEF FrameOK, CallOK
  <2> QED BY <2>1, <2>2
<1> QED BY <1>1, <1>2, <1>4, <1>5, <1>6 DEF FrameOK

-----------------------------------------------------------------------------
(***************************************************************************)
(* The frames a step can leave.                                            *)
(***************************************************************************)
LEMMA VisitOK ==
  ASSUME TablesOK, RowsOK, NEW p, NEW queue \in Seq(Nat),
         queue # <<>> => p \in Syncers,
         \A i \in 1..Len(queue) : queue[i] \in Rows
  PROVE  /\ FrameOK(p, Visit(queue))
         /\ Visit(queue).todo # <<>> => \E r \in Rows : Visit(queue).task = requests[r].task
         /\ \A i \in 1..Len(Visit(queue).todo) : Visit(queue).todo[i].do = "consult"
<1>1. CASE queue = <<>>
  <2>1. Visit(queue) = NoFrame /\ NoFrame.todo = <<>> /\ Len(<<>>) = 0
    BY <1>1 DEF Visit, NoFrame
  <2> QED BY <2>1, IdleOK
<1>2. CASE queue # <<>>
  <2> DEFINE r == Head(queue)
             g == Visit(queue)
  <2>1. /\ r \in Rows /\ r \in Nat \ {0} /\ Tail(queue) \in Seq(Nat)
        /\ \A i \in 1..Len(Tail(queue)) : Tail(queue)[i] \in Rows
    <3>1. /\ r = queue[1] /\ 1 \in 1..Len(queue) /\ Tail(queue) \in Seq(Nat)
          /\ \A i \in 1..Len(Tail(queue)) :
               i + 1 \in 1..Len(queue) /\ Tail(queue)[i] = queue[i + 1]
      BY <1>2, TailFacts
    <3> QED BY <3>1, RowFacts
  <2>2. /\ g.task = requests[r].task /\ g.todo = <<Consult>> /\ g.request = r
        /\ g.queue = Tail(queue) /\ g.verdict = NoVerdict /\ g.read = "none"
        /\ g = [task |-> requests[r].task, todo |-> <<Consult>>, read |-> "none",
                request |-> r, verdict |-> NoVerdict, queue |-> Tail(queue)]
    BY <1>2 DEF Visit, NoFrame
  <2>3. /\ Consult.do = "consult" /\ Consult \in Instruction
        /\ Len(<<Consult>>) = 1 /\ <<Consult>>[1] = Consult
        /\ <<Consult>> \in Seq(Instruction)
    <3>1. Consult.do = "consult" /\ Consult \in Instruction
      BY DEF Consult, Instruction
    <3> QED BY <3>1
  <2>4. requests[r].task \in Tasks /\ state[requests[r].task] # Absent
    BY <2>1, RowFacts DEF RowsOK
  <2>5. NoVerdict \notin {"CONTINUE", "HUMAN_RESUME", "HUMAN_BLOCK"}
    BY NoVerdictAssumption DEF Verdict, TerminalVerdicts
  <2> HIDE DEF g, r
  <2>6. g \in Frame
    BY <2>1, <2>2, <2>3, <2>4 DEF Frame
  <2>7. \A i \in 1..Len(g.todo) : CallOK(p, g, g.todo[i])
    BY <2>1, <2>2, <2>3 DEF CallOK
  <2>8. FrameOK(p, g)
    BY <1>2, <2>1, <2>2, <2>4, <2>5, <2>6, <2>7 DEF FrameOK, Backed
  <2>9. \A i \in 1..Len(g.todo) : g.todo[i].do = "consult"
    BY <2>2, <2>3
  <2> QED BY <2>1, <2>2, <2>8, <2>9 DEF g
<1> QED BY <1>1, <1>2

\* A method whose plan changes to calls that rest on no more than it knows.
LEMMA TodoOK ==
  ASSUME NEW p, NEW f, FrameOK(p, f), f.todo # <<>>, NEW todo \in Seq(Instruction),
         NEW read \in TaskState \cup {"none"},
         \A i \in 1..Len(todo) : CallOK(p, f, todo[i])
  PROVE  FrameOK(p, [f EXCEPT !.todo = todo, !.read = read])
<1> DEFINE g == [f EXCEPT !.todo = todo, !.read = read]
<1>1. /\ g \in Frame /\ g.todo = todo /\ g.task = f.task /\ g.request = f.request
      /\ g.queue = f.queue /\ g.verdict = f.verdict
  BY DEF FrameOK, Frame
<1> HIDE DEF g
<1>2. \A i \in 1..Len(todo) : CallOK(p, g, todo[i])
  BY <1>1 DEF CallOK
<1>3. FrameOK(p, g)
  BY <1>1, <1>2 DEF FrameOK
<1> QED BY <1>3 DEF g

LEMMA QueueFacts ==
  ASSUME NEW p, NEW f, FrameOK(p, f)
  PROVE  /\ f.queue \in Seq(Nat)
         /\ f.queue # <<>> => p \in Syncers
         /\ \A i \in 1..Len(f.queue) : f.queue[i] \in Rows
BY DEF FrameOK, Frame

\* The call at the head of a plan.
LEMMA HeadFacts ==
  ASSUME NEW p \in Procs, frame \in [Procs -> Frame], FrameOK(p, frame[p]),
         NEW do, Doing(p, do)
  PROVE  /\ frame[p] \in Frame /\ frame[p].todo # <<>> /\ frame[p].todo \in Seq(Instruction)
         /\ frame[p].task \in Tasks /\ state[frame[p].task] # Absent
         /\ Arg(p) = frame[p].todo[1] /\ 1 \in 1..Len(frame[p].todo)
         /\ Arg(p) \in Instruction /\ Arg(p).do = do /\ CallOK(p, frame[p], Arg(p))
<1>1. frame[p] \in Frame /\ frame[p].todo # <<>> /\ frame[p].todo \in Seq(Instruction)
  BY DEF Doing, Frame
<1>2. /\ Arg(p) = frame[p].todo[1] /\ 1 \in 1..Len(frame[p].todo) /\ Arg(p) \in Instruction
  BY <1>1, TailFacts DEF Arg
<1> QED BY <1>1, <1>2 DEF FrameOK, Doing, Arg

\* What a call leaves when it returns.
LEMMA AfterCallOK ==
  ASSUME TablesOK, RowsOK, NEW p, NEW f, FrameOK(p, f), f.todo # <<>>
  PROVE  /\ FrameOK(p, AfterCall(f))
         /\ \/ /\ AfterCall(f).task = f.task /\ AfterCall(f).request = f.request
               /\ \A i \in 1..Len(AfterCall(f).todo) :
                    \E j \in 1..Len(f.todo) : AfterCall(f).todo[i] = f.todo[j]
            \/ AfterCall(f) = Visit(f.queue)
<1>1. f.todo \in Seq(Instruction)
  BY DEF FrameOK, Frame
<1>2. CASE Len(f.todo) > 1
  <2> DEFINE rest == Tail(f.todo)
  <2>1. /\ rest \in Seq(Instruction)
        /\ \A i \in 1..Len(rest) : i + 1 \in 1..Len(f.todo) /\ rest[i] = f.todo[i + 1]
    BY <1>1, TailFacts
  <2> HIDE DEF rest
  <2>2. AfterCall(f) = [f EXCEPT !.todo = rest, !.read = "none"]
    BY <1>2 DEF AfterCall, rest
  <2>3. FrameOK(p, [f EXCEPT !.todo = rest, !.read = "none"])
    <3>1. \A i \in 1..Len(rest) : CallOK(p, f, rest[i])
      BY <2>1 DEF FrameOK
    <3> QED BY <2>1, <3>1, TodoOK
  <2>4. /\ AfterCall(f).task = f.task /\ AfterCall(f).request = f.request
        /\ AfterCall(f).todo = rest
    BY <2>2 DEF FrameOK, Frame
  <2>5. \A i \in 1..Len(rest) : \E j \in 1..Len(f.todo) : rest[i] = f.todo[j]
    BY <2>1
  <2> QED BY <2>2, <2>3, <2>4, <2>5
<1>3. CASE ~(Len(f.todo) > 1)
  <2>1. AfterCall(f) = Visit(f.queue)
    BY <1>3 DEF AfterCall
  <2>2. FrameOK(p, Visit(f.queue))
    BY QueueFacts, VisitOK
  <2> QED BY <2>1, <2>2
<1> QED BY <1>2, <1>3

-----------------------------------------------------------------------------
(***************************************************************************)
(* Verdicts.                                                               *)
(***************************************************************************)
\* A verdict leads to a move to RUNNING only if it grants one.
LEMMA EffectFacts ==
  ASSUME NEW verdict \in Verdict
  PROVE  /\ Effect(verdict) \in Seq(Instruction) /\ Effect(verdict) # <<>>
         /\ \A i \in 1..Len(Effect(verdict)) :
              /\ Effect(verdict)[i].do \in {"move", "require", "human_required"}
              /\ Effect(verdict)[i].do = "move" /\ Effect(verdict)[i].to = "RUNNING" =>
                   verdict \in {"CONTINUE", "HUMAN_RESUME"}
<1>1. /\ Move("RUNNING") \in Instruction /\ Move("BLOCKED") \in Instruction
      /\ Require("WAITING_HUMAN") \in Instruction /\ HumanRequired \in Instruction
      /\ Move("RUNNING").do = "move" /\ Move("BLOCKED").do = "move"
      /\ Move("BLOCKED").to = "BLOCKED"
      /\ Require("WAITING_HUMAN").do = "require" /\ HumanRequired.do = "human_required"
  BY DEF Move, Require, HumanRequired, Instruction, TaskState
<1>2. ASSUME NEW a \in Instruction
      PROVE  /\ <<a>> \in Seq(Instruction) /\ <<a>> # <<>>
             /\ \A i \in 1..Len(<<a>>) : <<a>>[i] = a
  OBVIOUS
<1>3. ASSUME NEW a \in Instruction, NEW b \in Instruction, NEW c \in Instruction
      PROVE  /\ <<a>> \o <<b, c>> \in Seq(Instruction) /\ <<a>> \o <<b, c>> # <<>>
             /\ \A i \in 1..Len(<<a>> \o <<b, c>>) : (<<a>> \o <<b, c>>)[i] \in {a, b, c}
  <2>1. /\ <<a>> \in Seq(Instruction) /\ Len(<<a>>) = 1 /\ <<a>>[1] = a
        /\ <<b, c>> \in Seq(Instruction) /\ Len(<<b, c>>) = 2
        /\ <<b, c>>[1] = b /\ <<b, c>>[2] = c
    OBVIOUS
  <2> DEFINE u == <<a>>
             v == <<b, c>>
             w == u \o v
  <2>2. /\ w \in Seq(Instruction) /\ Len(w) = Len(u) + Len(v)
        /\ \A i \in 1..(Len(u) + Len(v)) :
             w[i] = IF i <= Len(u) THEN u[i] ELSE v[i - Len(u)]
    BY <2>1, ConcatProperties
  <2>3. Len(u) = 1 /\ u[1] = a /\ Len(v) = 2 /\ v[1] = b /\ v[2] = c
    BY <2>1
  <2> HIDE DEF u, v, w
  <2>4. Len(w) = 3 /\ \A i \in 1..3 : w[i] = IF i <= 1 THEN u[i] ELSE v[i - 1]
    BY <2>2, <2>3
  <2>5. \A i \in 1..Len(w) : w[i] \in {a, b, c}
    BY <2>3, <2>4
  <2>6. w # <<>>
    BY <2>4
  <2> QED BY <2>2, <2>5, <2>6 DEF u, v, w
<1>4. CASE verdict = "CONTINUE"
  <2>1. Effect(verdict) = <<Move("RUNNING")>>
    BY <1>4 DEF Effect
  <2>2. /\ Effect(verdict) \in Seq(Instruction) /\ Effect(verdict) # <<>>
        /\ \A i \in 1..Len(Effect(verdict)) :
             Effect(verdict)[i] \in {Move("RUNNING")}
    <3> HIDE DEF Effect
    <3> QED BY <1>1, <1>2, <2>1
  <2> QED BY <1>1, <1>4, <2>2
<1>5. CASE verdict = "HUMAN_REQUIRED"
  <2>1. Effect(verdict) = <<HumanRequired>>
    BY <1>5 DEF Effect
  <2>2. /\ Effect(verdict) \in Seq(Instruction) /\ Effect(verdict) # <<>>
        /\ \A i \in 1..Len(Effect(verdict)) :
             Effect(verdict)[i] \in {HumanRequired}
    <3> HIDE DEF Effect
    <3> QED BY <1>1, <1>2, <2>1
  <2> QED BY <1>1, <1>5, <2>2
<1>6. CASE verdict = "HUMAN_RESUME"
  <2>1. Effect(verdict) = <<HumanRequired>> \o <<Require("WAITING_HUMAN"), Move("RUNNING")>>
    BY <1>6 DEF Effect, HumanDecided
  <2>2. /\ Effect(verdict) \in Seq(Instruction) /\ Effect(verdict) # <<>>
        /\ \A i \in 1..Len(Effect(verdict)) :
             Effect(verdict)[i] \in {HumanRequired, Require("WAITING_HUMAN"), Move("RUNNING")}
    <3> HIDE DEF Effect
    <3> QED BY <1>1, <1>3, <2>1
  <2> QED BY <1>1, <1>6, <2>2
<1>7. CASE verdict = "HUMAN_BLOCK"
  <2>1. Effect(verdict) = <<HumanRequired>> \o <<Require("WAITING_HUMAN"), Move("BLOCKED")>>
    BY <1>7 DEF Effect, HumanDecided
  <2>2. /\ Effect(verdict) \in Seq(Instruction) /\ Effect(verdict) # <<>>
        /\ \A i \in 1..Len(Effect(verdict)) :
             Effect(verdict)[i] \in {HumanRequired, Require("WAITING_HUMAN"), Move("BLOCKED")}
    <3> HIDE DEF Effect
    <3> QED BY <1>1, <1>3, <2>1
  <2> QED BY <1>1, <1>7, <2>2
<1> QED BY <1>4, <1>5, <1>6, <1>7 DEF Verdict, TerminalVerdicts

\* What a sync makes of an answer: it grants what policy lets the answerer
\* grant, and the answer is on record.
LEMMA ConsultFacts ==
  ASSUME TablesOK, MemoryOK, NEW p \in Procs, NEW r \in Rows, NEW s,
         NEW verdict, verdict = Governed(Poll(p, r), requests[r].checkpoint, s)
  PROVE  /\ verdict \in Verdict \cup {"PENDING"}
         /\ verdict \in {"CONTINUE", "HUMAN_RESUME"} => Granted(p, r)
         /\ ~Faults => Backed(r, verdict)
<1> DEFINE h == Answer(human[p], r)
           a == Answer(supervisor[p], r)
<1>1. h \in HumanKinds \cup {"none"} /\ a \in SupervisorKinds \cup {"none"}
  BY DEF TablesOK, IsAnswers, Answer
<1>2. ~Faults => /\ h # "none" => <<r, "HUMAN", h>> \in decided
                 /\ a # "none" => <<r, "SUPERVISOR", a>> \in decided
  BY DEF MemoryOK, Answer
<1>3. /\ h = "REJECTED" => Poll(p, r) = "HUMAN_BLOCK"
      /\ h = "APPROVED" => Poll(p, r) = "HUMAN_RESUME"
      /\ h = "none" /\ a = "none" => Poll(p, r) = "PENDING"
      /\ h = "none" /\ a = "CONTINUE_AUTONOMOUSLY" => Poll(p, r) = "CONTINUE"
      /\ h = "none" /\ a = "REQUEST_HUMAN_ACTION" => Poll(p, r) = "HUMAN_REQUIRED"
  BY DEF Poll, VerdictForStatus
<1> HIDE DEF h, a
<1>4. /\ h \in {"REJECTED", "APPROVED", "none"}
      /\ a \in {"CONTINUE_AUTONOMOUSLY", "REQUEST_HUMAN_ACTION", "none"}
  BY <1>1 DEF HumanKinds, SupervisorKinds
<1>5. CASE h = "REJECTED"
  BY <1>2, <1>3, <1>5 DEF Governed, Backed, Verdict, TerminalVerdicts
<1>6. CASE h = "APPROVED"
  <2>1. verdict = IF HumanMayGrant(requests[r].checkpoint)
                  THEN "HUMAN_RESUME" ELSE "HUMAN_BLOCK"
    BY <1>3, <1>6 DEF Governed
  <2> QED BY <1>2, <1>6, <2>1 DEF Granted, Backed, Verdict, TerminalVerdicts, h
<1>7. CASE h = "none" /\ a = "CONTINUE_AUTONOMOUSLY"
  <2>1. \/ verdict = "CONTINUE" /\ SupervisorMayGrant(requests[r].checkpoint)
        \/ verdict = "HUMAN_REQUIRED"
    BY <1>3, <1>7 DEF Governed
  <2> QED BY <1>2, <1>7, <2>1 DEF Granted, Backed, Verdict, TerminalVerdicts, h, a
<1>8. CASE h = "none" /\ a # "CONTINUE_AUTONOMOUSLY"
  BY <1>3, <1>4, <1>8 DEF Governed, Backed, Verdict, TerminalVerdicts
<1> QED BY <1>4, <1>5, <1>6, <1>7, <1>8

-----------------------------------------------------------------------------
(***************************************************************************)
(* What is common to all steps.                                            *)
(***************************************************************************)
LEMMA StepKeepsIInv ==
  ASSUME IInv, NEW p \in Procs, NEW g, frame' = [frame EXCEPT ![p] = g],
         FrameOK(p, g)', Grows, TablesOK', RowsOK', MemoryOK', DrivesOK',
         \A q \in Procs \ {p} : /\ human'[q] = human[q] /\ supervisor'[q] = supervisor[q]
                                /\ drive'[q] = drive[q]
  PROVE  IInv'
<1>1. TablesOK /\ frame \in [Procs -> Frame]
  BY TypeParts DEF IInv
<1>2. g \in Frame
  BY DEF FrameOK
<1>3. frame' \in [Procs -> Frame] /\ frame'[p] = g
      /\ \A q \in Procs \ {p} : frame'[q] = frame[q]
  BY <1>1, <1>2
<1>4. TypeOK'
  BY <1>3 DEF TypeOK, TablesOK, Rows
<1>5. \A q \in Procs : FrameOK(q, frame[q])'
  <2>1. ASSUME NEW q \in Procs \ {p}, NEW f, f = frame[q]
        PROVE  FrameOK(q, f)'
    <3>1. FrameOK(q, f)
      BY <2>1 DEF IInv, FramesOK
    <3> QED BY <1>1, <2>1, <3>1, FrameStays
  <2>2. \A q \in Procs \ {p} : FrameOK(q, frame[q])'
    BY <1>3, <2>1 DEF FrameOK, CallOK, Backed, Granted, Answer
  <2>3. FrameOK(p, frame[p])'
    BY <1>3 DEF FrameOK, CallOK, Backed, Granted, Answer
  <2> QED BY <2>2, <2>3
<1> QED BY <1>4, <1>5 DEF IInv, FramesOK

\* Tables that only grow keep the ports' memory on record.
LEMMA MemoryStays ==
  ASSUME MemoryOK, Grows, UNCHANGED memory
  PROVE  MemoryOK'
BY DEF MemoryOK, Grows, memory

\* A driver's own calls.
LEMMA DrivingCalls ==
  ASSUME IInv, NEW p \in Procs, ~Redrive, drive[p] # NoDrive
  PROVE  /\ Alone(p, drive[p].task) /\ drive[p].task \in Tasks
         /\ frame[p].todo # <<>> => /\ frame[p].task = drive[p].task
                                    /\ frame[p].request = 0 /\ frame[p].queue = <<>>
         /\ \A i \in 1..Len(frame[p].todo) :
              frame[p].todo[i].do \in {"move", "require", "set_head"}
<1>1. Alone(p, drive[p].task)
  BY DEF IInv, DrivesOK
<1>2. drive[p].task \in Tasks
  BY DEF IInv, TypeOK
<1>3. FrameOK(p, frame[p])
  BY DEF IInv, FramesOK
<1> QED BY <1>1, <1>2, <1>3 DEF Alone, FrameOK

\* A step of the method a process is in, which touches the task of that method
\* only and goes on with it or with another request.
LEMMA CallKeepsIInv ==
  ASSUME IInv, NEW p \in Procs, NEW g, frame' = [frame EXCEPT ![p] = g],
         frame[p].todo # <<>>, FrameOK(p, g), UNCHANGED <<memory, drive>>,
         Grows, TablesOK', RowsOK',
         \A t \in Tasks : state'[t] # state[t] => t = frame[p].task,
         \A r \in Rows' : r \in Rows \/ requests'[r].task = frame[p].task,
         g.todo # <<>> =>
           g.task = frame[p].task \/ \E r \in Rows : g.task = requests[r].task,
         ~Redrive /\ drive[p] # NoDrive =>
           /\ state'[frame[p].task] \in {"PENDING", "RUNNING", "VERIFYING"}
           /\ requests' = requests
           /\ g.todo # <<>> => g.task = frame[p].task /\ g.request = 0
           /\ \A i \in 1..Len(g.todo) :
                \E j \in 1..Len(frame[p].todo) : g.todo[i] = frame[p].todo[j]
  PROVE  IInv'
<1>1. TablesOK /\ frame \in [Procs -> Frame] /\ MemoryOK
  BY TypeParts DEF IInv
<1>2. /\ frame'[p] = g /\ \A q \in Procs \ {p} : frame'[q] = frame[q]
      /\ \A q \in Procs : /\ human'[q] = human[q] /\ supervisor'[q] = supervisor[q]
                          /\ drive'[q] = drive[q]
  BY <1>1 DEF memory
<1>3. FrameOK(p, g)'
  BY <1>1, <1>2, FrameStays
<1>4. DrivesOK'
  <2>0. ASSUME NEW q \in Procs, drive'[q] # NoDrive
        PROVE  state'[drive'[q].task] # Absent
    <3>1. drive[q] # NoDrive /\ state[drive[q].task] # Absent /\ drive[q].task \in Tasks
      BY <1>2, <2>0 DEF IInv, DrivesOK, TypeOK
    <3> QED BY <1>2, <3>1 DEF Grows
  <2> SUFFICES ASSUME ~Redrive, NEW q \in Procs, drive'[q] # NoDrive
               PROVE  Alone(q, drive[q].task)'
    BY <2>0 DEF DrivesOK
  <2> DEFINE t == drive[q].task
  <2>1. /\ Alone(q, t) /\ t \in Tasks /\ drive[q] # NoDrive
    BY <1>2, DrivingCalls
  <2>2. drive'[q].task = t
    BY <1>2
  <2> HIDE DEF t
  <2>3. CASE q # p
    <3>1. frame[p].task # t
      BY <2>1, <2>3 DEF Alone
    <3>2. state'[t] = state[t] /\ \A r \in Rows' : requests'[r].task # t
      <4>1. \A r \in Rows : requests[r].task # t /\ requests'[r].task = requests[r].task
        BY <2>1 DEF Alone, Grows
      <4> QED BY <2>1, <3>1, <4>1
    <3>3. g.todo # <<>> => g.task # t
      BY <2>1, <3>1 DEF Alone
    <3> QED BY <1>2, <2>1, <2>2, <2>3, <3>2, <3>3 DEF Alone
  <2>4. CASE q = p
    <3>1. frame[p].task = t
      BY <2>1, <2>4 DEF Alone
    <3>2. /\ state'[t] \in {"PENDING", "RUNNING", "VERIFYING"}
          /\ \A r \in Rows' : requests'[r].task # t
          /\ g.todo # <<>> => g.task = t /\ g.request = 0
      BY <2>1, <2>4, <3>1 DEF Alone, Rows
    <3>3. \A i \in 1..Len(g.todo) :
            /\ g.todo[i].do \in {"move", "require", "set_head"}
            /\ g.todo[i].do = "move" => g.todo[i].to \in {"RUNNING", "VERIFYING"}
      BY <2>1, <2>4 DEF Alone
    <3> QED BY <1>2, <2>1, <2>2, <2>4, <3>2, <3>3 DEF Alone
  <2> QED BY <2>3, <2>4
<1>5. MemoryOK'
  BY <1>1, MemoryStays
<1> QED BY <1>2, <1>3, <1>4, <1>5, StepKeepsIInv

-----------------------------------------------------------------------------
(***************************************************************************)
(* The steps of a method.                                                  *)
(***************************************************************************)
\* The frames in which a method goes on, with calls it had planned if its
\* process drives a task, or turns to the next request.
GoesOn(p, g) ==
  \/ /\ g.task = frame[p].task /\ g.request = frame[p].request
     /\ ~Redrive /\ drive[p] # NoDrive =>
          \A i \in 1..Len(g.todo) :
            \E j \in 1..Len(frame[p].todo) : g.todo[i] = frame[p].todo[j]
  \/ g = Visit(frame[p].queue)

LEMMA GoesOnFacts ==
  ASSUME IInv, NEW p \in Procs, NEW g, GoesOn(p, g), frame[p].todo # <<>>
  PROVE  /\ g.todo # <<>> =>
              g.task = frame[p].task \/ \E r \in Rows : g.task = requests[r].task
         /\ ~Redrive /\ drive[p] # NoDrive =>
              /\ state[frame[p].task] \in {"PENDING", "RUNNING", "VERIFYING"}
              /\ g.todo # <<>> => g.task = frame[p].task /\ g.request = 0
              /\ \A i \in 1..Len(g.todo) :
                   \E j \in 1..Len(frame[p].todo) : g.todo[i] = frame[p].todo[j]
<1>1. TablesOK /\ RowsOK /\ FrameOK(p, frame[p])
  BY TypeParts DEF IInv, FramesOK
<1>2. ASSUME ~Redrive, drive[p] # NoDrive
      PROVE  /\ state[frame[p].task] \in {"PENDING", "RUNNING", "VERIFYING"}
             /\ frame[p].request = 0 /\ frame[p].queue = <<>>
  BY <1>2, DrivingCalls DEF Alone
<1>3. CASE g = Visit(frame[p].queue)
  <2>1. g.todo # <<>> => \E r \in Rows : g.task = requests[r].task
    <3> DEFINE queue == frame[p].queue
    <3>1. queue \in Seq(Nat) /\ (queue # <<>> => p \in Syncers)
          /\ \A i \in 1..Len(queue) : queue[i] \in Rows
      BY <1>1, QueueFacts
    <3> HIDE DEF queue
    <3>2. Visit(queue).todo # <<>> => \E r \in Rows : Visit(queue).task = requests[r].task
      BY <1>1, <3>1, VisitOK
    <3> QED BY <1>3, <3>2 DEF queue
  <2>2. frame[p].queue = <<>> => g.todo = <<>> /\ Len(g.todo) = 0
    <3>1. Len(<<>>) = 0
      OBVIOUS
    <3> QED BY <1>3, <3>1 DEF Visit, NoFrame
  <2> QED BY <1>2, <2>1, <2>2
<1>4. CASE g # Visit(frame[p].queue)
  BY <1>2, <1>4 DEF GoesOn
<1> QED BY <1>3, <1>4

\* The frame after a call, or a method, has returned is one of them.
LEMMA ReturnGoesOn ==
  ASSUME IInv, NEW p \in Procs, frame[p].todo # <<>>
  PROVE  /\ FrameOK(p, AfterCall(frame[p])) /\ GoesOn(p, AfterCall(frame[p]))
         /\ FrameOK(p, Visit(frame[p].queue)) /\ GoesOn(p, Visit(frame[p].queue))
<1>1. TablesOK /\ RowsOK /\ FrameOK(p, frame[p])
  BY TypeParts DEF IInv, FramesOK
<1>2. FrameOK(p, Visit(frame[p].queue))
  BY <1>1, QueueFacts, VisitOK
<1> QED BY <1>1, <1>2, AfterCallOK DEF GoesOn

LEMMA Unchanged ==
  ASSUME TablesOK, RowsOK, UNCHANGED <<database, memory, drive>>
  PROVE  Grows /\ TablesOK' /\ RowsOK' /\ Rows' = Rows /\ state' = state /\ requests' = requests
<1>1. /\ state' = state /\ head' = head /\ attempts' = attempts /\ requests' = requests
      /\ decided' = decided /\ human' = human /\ supervisor' = supervisor /\ drive' = drive
  BY DEF database, memory
<1>2. Rows' = Rows
  BY <1>1 DEF Rows
<1>3. TablesOK'
  BY <1>1, <1>2 DEF TablesOK, IsAnswers
<1>4. RowsOK'
  BY <1>1, <1>2 DEF RowsOK, Backed
<1> QED BY <1>1, <1>2, <1>3, <1>4 DEF Grows

\* A step that only reads.
LEMMA ReadKeepsIInv ==
  ASSUME IInv, NEW p \in Procs, NEW g, frame' = [frame EXCEPT ![p] = g],
         frame[p].todo # <<>>, FrameOK(p, g), UNCHANGED <<database, memory, drive>>,
         GoesOn(p, g)
  PROVE  IInv'
<1>1. TablesOK /\ RowsOK
  BY TypeParts DEF IInv
<1>2. Grows /\ TablesOK' /\ RowsOK' /\ Rows' = Rows /\ state' = state /\ requests' = requests
  BY <1>1, Unchanged
<1>3. UNCHANGED <<memory, drive>>
  OBVIOUS
<1>4. \A t \in Tasks : state'[t] # state[t] => t = frame[p].task
  BY <1>2
<1>5. \A r \in Rows' : r \in Rows \/ requests'[r].task = frame[p].task
  BY <1>2
<1>6. g.todo # <<>> => g.task = frame[p].task \/ \E r \in Rows : g.task = requests[r].task
  BY GoesOnFacts
<1>7. ~Redrive /\ drive[p] # NoDrive =>
        /\ state'[frame[p].task] \in {"PENDING", "RUNNING", "VERIFYING"}
        /\ requests' = requests
        /\ g.todo # <<>> => g.task = frame[p].task /\ g.request = 0
        /\ \A i \in 1..Len(g.todo) :
             \E j \in 1..Len(frame[p].todo) : g.todo[i] = frame[p].todo[j]
  <2>1. state' = state /\ requests' = requests
    BY <1>2
  <2> QED BY <2>1, GoesOnFacts
<1> QED BY <1>2, <1>3, <1>4, <1>5, <1>6, <1>7, CallKeepsIInv

LEMMA MoveReadKeepsIInv ==
  ASSUME IInv, NEW p \in Procs, MoveRead(p)
  PROVE  IInv'
<1> DEFINE f == frame[p]
           s == state[f.task]
           g == [f EXCEPT !.read = s]
<1>1. TablesOK /\ frame \in [Procs -> Frame] /\ FrameOK(p, f)
  BY TypeParts DEF IInv, FramesOK
<1>2. /\ f \in Frame /\ f.todo # <<>> /\ f.todo \in Seq(Instruction) /\ f.task \in Tasks
      /\ state[f.task] # Absent
  BY <1>1, HeadFacts DEF MoveRead
<1>3. s \in TaskState
  BY <1>1, <1>2 DEF TablesOK, RowState
<1>4. frame' = [frame EXCEPT ![p] = g] /\ UNCHANGED <<database, memory, drive>>
  BY <1>1 DEF MoveRead
<1>5. g = [f EXCEPT !.todo = f.todo, !.read = s]
  BY <1>2 DEF Frame
<1>6. FrameOK(p, g)
  <2>1. \A i \in 1..Len(f.todo) : CallOK(p, f, f.todo[i])
    BY <1>1 DEF FrameOK
  <2> HIDE DEF f, s, g
  <2> QED BY <1>1, <1>2, <1>3, <1>5, <2>1, TodoOK
<1>7. GoesOn(p, g)
  <2>1. g.task = f.task /\ g.request = f.request /\ g.todo = f.todo
    BY <1>2 DEF Frame
  <2> HIDE DEF g
  <2> QED BY <2>1 DEF GoesOn
<1> HIDE DEF g
<1> QED BY <1>2, <1>4, <1>6, <1>7, ReadKeepsIInv

\* The edges of the task state machine lead to states, and those a driver takes
\* keep its task where no verdict applies.
LEMMA MoveCommitKeepsIInv ==
  ASSUME IInv, NEW p \in Procs, MoveCommit(p)
  PROVE  IInv'
<1> DEFINE f == frame[p]
           t == f.task
           to == Arg(p).to
           g == AfterCall(f)
<1>1. TablesOK /\ RowsOK /\ frame \in [Procs -> Frame] /\ FrameOK(p, f) /\ MemoryOK
  BY TypeParts DEF IInv, FramesOK
<1>2. /\ f.todo # <<>> /\ t \in Tasks /\ state[t] # Absent
      /\ Arg(p) = f.todo[1] /\ 1 \in 1..Len(f.todo) /\ Arg(p) \in Instruction
      /\ Arg(p).do = "move"
  BY <1>1, HeadFacts DEF MoveCommit
<1>3. to \in TaskState /\ to # Absent
  <2>1. to \in TaskState
    BY <1>2 DEF Instruction
  <2> QED BY <2>1 DEF TaskState, Absent
<1>4. /\ state' = [state EXCEPT ![t] = to] /\ head' = head /\ frame' = [frame EXCEPT ![p] = g]
      /\ attempts' = attempts /\ requests' = requests /\ decided' = decided
      /\ human' = human /\ supervisor' = supervisor /\ drive' = drive
  BY <1>1 DEF MoveCommit, Ledger!Move, Returns, memory
<1>5. FrameOK(p, g) /\ GoesOn(p, g)
  BY <1>2, ReturnGoesOn
<1>6. state \in [Tasks -> RowState]
  BY <1>1 DEF TablesOK
<1> HIDE DEF f, t, to, g
<1>7. /\ state' \in [Tasks -> RowState] /\ state'[t] = to
      /\ \A u \in Tasks : u # t => state'[u] = state[u]
  BY <1>2, <1>3, <1>4, <1>6 DEF RowState
<1>8. Rows' = Rows
  BY <1>4 DEF Rows
<1>9. Grows
  BY <1>3, <1>4, <1>7, <1>8 DEF Grows
<1>10. TablesOK'
  BY <1>1, <1>4, <1>7, <1>8 DEF TablesOK, IsAnswers
<1>11. RowsOK'
  BY <1>1, <1>3, <1>4, <1>7, <1>8, RowFacts DEF RowsOK, Backed
<1>12. ~Redrive /\ drive[p] # NoDrive => state'[t] \in {"PENDING", "RUNNING", "VERIFYING"}
  BY <1>2, <1>7, DrivingCalls DEF Alone, t, to, f
<1>13. UNCHANGED <<memory, drive>>
  BY <1>4 DEF memory
<1>20. \A u \in Tasks : state'[u] # state[u] => u = t
  BY <1>7
<1>21. \A r \in Rows' : r \in Rows \/ requests'[r].task = t
  BY <1>8
<1>22. /\ f.todo # <<>>
       /\ g.todo # <<>> => g.task = t \/ \E r \in Rows : g.task = requests[r].task
       /\ ~Redrive /\ drive[p] # NoDrive =>
            /\ state'[t] \in {"PENDING", "RUNNING", "VERIFYING"}
            /\ requests' = requests
            /\ g.todo # <<>> => g.task = t /\ g.request = 0
            /\ \A i \in 1..Len(g.todo) : \E j \in 1..Len(f.todo) : g.todo[i] = f.todo[j]
  BY <1>2, <1>4, <1>5, <1>12, GoesOnFacts DEF f, t
<1> QED BY <1>4, <1>5, <1>9, <1>10, <1>11, <1>13, <1>20, <1>21, <1>22, CallKeepsIInv DEF f, t

LEMMA RequireReadKeepsIInv ==
  ASSUME IInv, NEW p \in Procs, RequireRead(p)
  PROVE  IInv'
<1>1. frame[p].todo # <<>>
  BY DEF RequireRead, Doing
<1>2. /\ frame' = [frame EXCEPT ![p] = AfterCall(frame[p])]
      /\ UNCHANGED <<database, memory, drive>>
  BY DEF RequireRead, Returns
<1> QED BY <1>1, <1>2, ReturnGoesOn, ReadKeepsIInv

LEMMA SetHeadCommitKeepsIInv ==
  ASSUME IInv, NEW p \in Procs, SetHeadCommit(p)
  PROVE  IInv'
<1> DEFINE f == frame[p]
           t == f.task
           h == Arg(p).head
           g == AfterCall(f)
<1>1. TablesOK /\ RowsOK /\ frame \in [Procs -> Frame] /\ FrameOK(p, f) /\ MemoryOK
  BY TypeParts DEF IInv, FramesOK
<1>2. f.todo # <<>> /\ t \in Tasks /\ Arg(p) \in Instruction /\ Arg(p).do = "set_head"
  BY <1>1, HeadFacts DEF SetHeadCommit
<1>3. h \in Heads
  BY <1>2 DEF Instruction
<1>4. /\ state' = state /\ head' = [head EXCEPT ![t] = h] /\ frame' = [frame EXCEPT ![p] = g]
      /\ attempts' = attempts /\ requests' = requests /\ decided' = decided
      /\ human' = human /\ supervisor' = supervisor /\ drive' = drive
  BY <1>1 DEF SetHeadCommit, Ledger!SetHead, Returns, memory
<1>5. FrameOK(p, g) /\ GoesOn(p, g)
  BY <1>2, ReturnGoesOn
<1> HIDE DEF f, t, h, g
<1>6. head' \in [Tasks -> Heads \cup {NoHead}]
  BY <1>1, <1>2, <1>3, <1>4 DEF TablesOK
<1>7. Rows' = Rows
  BY <1>4 DEF Rows
<1>8. Grows
  BY <1>4, <1>7 DEF Grows
<1>9. TablesOK'
  BY <1>1, <1>4, <1>6, <1>7 DEF TablesOK, IsAnswers
<1>10. RowsOK'
  BY <1>1, <1>4, <1>7 DEF RowsOK, Backed
<1>11. UNCHANGED <<memory, drive>>
  BY <1>4 DEF memory
<1>20. \A u \in Tasks : state'[u] # state[u] => u = t
  BY <1>4
<1>21. \A r \in Rows' : r \in Rows \/ requests'[r].task = t
  BY <1>7
<1>22. /\ f.todo # <<>>
       /\ g.todo # <<>> => g.task = t \/ \E r \in Rows : g.task = requests[r].task
       /\ ~Redrive /\ drive[p] # NoDrive =>
            /\ state'[t] \in {"PENDING", "RUNNING", "VERIFYING"}
            /\ requests' = requests
            /\ g.todo # <<>> => g.task = t /\ g.request = 0
            /\ \A i \in 1..Len(g.todo) : \E j \in 1..Len(f.todo) : g.todo[i] = f.todo[j]
  BY <1>2, <1>4, <1>5, GoesOnFacts DEF f, t
<1> QED BY <1>4, <1>5, <1>8, <1>9, <1>10, <1>11, <1>20, <1>21, <1>22, CallKeepsIInv DEF f, t

\* Only a process that drives no task makes the other calls.
LEMMA NotDriving ==
  ASSUME IInv, NEW p \in Procs, NEW do, Doing(p, do), do \notin {"move", "require", "set_head"}
  PROVE  ~(~Redrive /\ drive[p] # NoDrive)
<1>1. frame \in [Procs -> Frame] /\ FrameOK(p, frame[p])
  BY TypeParts DEF IInv, FramesOK
<1>2. Arg(p) = frame[p].todo[1] /\ 1 \in 1..Len(frame[p].todo) /\ Arg(p).do = do
  BY <1>1, HeadFacts
<1> QED BY <1>2, DrivingCalls

\* A read after which the method goes on with other calls.
LEMMA ReplanKeepsIInv ==
  ASSUME IInv, NEW p \in Procs, NEW do, Doing(p, do), do \notin {"move", "require", "set_head"},
         NEW todo \in Seq(Instruction), \A i \in 1..Len(todo) : CallOK(p, frame[p], todo[i]),
         frame' = [frame EXCEPT ![p].todo = todo], UNCHANGED <<database, memory, drive>>
  PROVE  IInv'
<1> DEFINE f == frame[p]
           g == [f EXCEPT !.todo = todo]
<1>1. frame \in [Procs -> Frame] /\ FrameOK(p, f)
  BY TypeParts DEF IInv, FramesOK
<1>2. f.todo # <<>> /\ f \in Frame
  BY <1>1, HeadFacts
<1>3. frame' = [frame EXCEPT ![p] = g]
  BY <1>1
<1>4. g = [f EXCEPT !.todo = todo, !.read = f.read] /\ f.read \in TaskState \cup {"none"}
      /\ g.task = f.task /\ g.request = f.request
  BY <1>2 DEF Frame
<1>5. GoesOn(p, g)
  BY <1>4, NotDriving DEF GoesOn
<1> HIDE DEF f, g
<1>6. FrameOK(p, g)
  BY <1>1, <1>2, <1>4, TodoOK DEF f
<1> QED BY <1>2, <1>3, <1>5, <1>6, ReadKeepsIInv DEF f

LEMMA ReturnKeepsIInv ==
  ASSUME IInv, NEW p \in Procs, frame[p].todo # <<>>, Returns(p) \/ MethodReturns(p),
         UNCHANGED <<database, memory, drive>>
  PROVE  IInv'
<1>1. \/ frame' = [frame EXCEPT ![p] = AfterCall(frame[p])]
      \/ frame' = [frame EXCEPT ![p] = Visit(frame[p].queue)]
  BY DEF Returns, MethodReturns
<1> QED BY <1>1, ReturnGoesOn, ReadKeepsIInv

LEMMA HumanRequiredReadKeepsIInv ==
  ASSUME IInv, NEW p \in Procs, HumanRequiredRead(p)
  PROVE  IInv'
<1> DEFINE f == frame[p]
           m == Move("WAITING_HUMAN")
           todo == <<m>> \o Tail(f.todo)
<1>1. frame \in [Procs -> Frame] /\ FrameOK(p, f)
  BY TypeParts DEF IInv, FramesOK
<1>2. f.todo # <<>> /\ f.todo \in Seq(Instruction) /\ Doing(p, "human_required")
  BY <1>1, HeadFacts DEF HumanRequiredRead
<1>3. m \in Instruction /\ m.do = "move" /\ m.to = "WAITING_HUMAN"
  BY DEF Move, Instruction, TaskState
<1>4. CASE Returns(p)
  BY <1>2, <1>4, ReturnKeepsIInv DEF HumanRequiredRead
<1>5. CASE ~Returns(p)
  <2>1. frame' = [frame EXCEPT ![p].todo = todo] /\ UNCHANGED <<database, memory, drive>>
    BY <1>1, <1>5 DEF HumanRequiredRead
  <2> HIDE DEF f, m
  <2>2. /\ todo \in Seq(Instruction)
        /\ \A i \in 1..Len(todo) : todo[i] = m \/ \E j \in 1..Len(f.todo) : todo[i] = f.todo[j]
    BY <1>2, <1>3, ReplaceFacts
  <2> HIDE DEF todo
  <2>3. \A i \in 1..Len(todo) : CallOK(p, f, todo[i])
    BY <1>1, <1>3, <2>2 DEF FrameOK, CallOK
  <2> QED BY <1>2, <2>1, <2>2, <2>3, ReplanKeepsIInv DEF f
<1> QED BY <1>4, <1>5

LEMMA OpenReadKeepsIInv ==
  ASSUME IInv, NEW p \in Procs, OpenRead(p)
  PROVE  IInv'
<1> DEFINE f == frame[p]
           row == Row(f.task, Arg(p).checkpoint, head[f.task], attempts[f.task])
           c == [do |-> "insert", row |-> row]
           todo == <<c>> \o Tail(f.todo)
<1>1. TablesOK /\ frame \in [Procs -> Frame] /\ FrameOK(p, f)
  BY TypeParts DEF IInv, FramesOK
<1>2. /\ f.todo # <<>> /\ f.todo \in Seq(Instruction) /\ Doing(p, "open") /\ f.task \in Tasks
      /\ Arg(p) \in Instruction /\ Arg(p).do = "open"
  BY <1>1, HeadFacts DEF OpenRead
<1>3. row \in Request /\ row.task = f.task /\ row.applied = NoVerdict
  <2>1. Arg(p).checkpoint \in Checkpoint
    BY <1>2 DEF Instruction
  <2>2. head[f.task] \in Heads \cup {NoHead} /\ attempts[f.task] \in 0..MaxAttempts
    BY <1>1, <1>2 DEF TablesOK
  <2> QED BY <1>2, <2>1, <2>2 DEF Row, Request
<1>4. CASE Returns(p)
  BY <1>2, <1>4, ReturnKeepsIInv DEF OpenRead
<1>5. CASE ~Returns(p)
  <2>1. frame' = [frame EXCEPT ![p].todo = todo] /\ UNCHANGED <<database, memory, drive>>
    BY <1>1, <1>5 DEF OpenRead
  <2> HIDE DEF f, row
  <2>2. c \in Instruction /\ c.do = "insert" /\ c.row = row
    BY <1>3 DEF Instruction
  <2> HIDE DEF c
  <2>3. /\ todo \in Seq(Instruction)
        /\ \A i \in 1..Len(todo) : todo[i] = c \/ \E j \in 1..Len(f.todo) : todo[i] = f.todo[j]
    BY <1>2, <2>2, ReplaceFacts
  <2> HIDE DEF todo
  <2>4. \A i \in 1..Len(todo) : CallOK(p, f, todo[i])
    BY <1>1, <1>3, <2>2, <2>3 DEF FrameOK, CallOK
  <2> QED BY <1>2, <2>1, <2>3, <2>4, ReplanKeepsIInv DEF f
<1> QED BY <1>4, <1>5

\* The row of a new request is about the task of the method that opens it.
LEMMA OpenInsertKeepsIInv ==
  ASSUME IInv, NEW p \in Procs, OpenInsert(p)
  PROVE  IInv'
<1> DEFINE f == frame[p]
           t == f.task
           row == Arg(p).row
           g == AfterCall(f)
<1>1. TablesOK /\ RowsOK /\ frame \in [Procs -> Frame] /\ FrameOK(p, f) /\ MemoryOK
  BY TypeParts DEF IInv, FramesOK
<1>2. /\ f.todo # <<>> /\ t \in Tasks /\ state[t] # Absent /\ Doing(p, "insert")
      /\ Arg(p) \in Instruction /\ Arg(p).do = "insert" /\ CallOK(p, f, Arg(p))
  BY <1>1, HeadFacts DEF OpenInsert
<1>3. row \in Request /\ row.task = t /\ row.applied = NoVerdict
  BY <1>2 DEF Instruction, CallOK
<1>4. /\ requests' = Append(requests, row) /\ frame' = [frame EXCEPT ![p] = g]
      /\ state' = state /\ head' = head /\ attempts' = attempts /\ decided' = decided
      /\ human' = human /\ supervisor' = supervisor /\ drive' = drive
  BY DEF OpenInsert, Returns, memory
<1>5. FrameOK(p, g) /\ GoesOn(p, g)
  BY <1>2, ReturnGoesOn
<1>6. ~(~Redrive /\ drive[p] # NoDrive)
  BY <1>2, NotDriving
<1>7. requests \in Seq(Request)
  BY <1>1 DEF TablesOK
<1> HIDE DEF f, t, row, g
<1>8. /\ requests' \in Seq(Request) /\ Len(requests) \in Nat /\ Len(requests') = Len(requests) + 1
      /\ requests'[Len(requests) + 1] = row /\ \A r \in Rows : requests'[r] = requests[r]
      /\ \A r \in Rows' : r \in Rows \/ r = Len(requests) + 1
  BY <1>3, <1>4, <1>7, AppendFacts DEF Rows
<1>9. Rows \subseteq Rows'
  BY <1>8 DEF Rows
<1>10. Grows
  BY <1>4, <1>8, <1>9 DEF Grows
<1>11. TablesOK'
  BY <1>1, <1>4, <1>8, <1>9 DEF TablesOK, IsAnswers, Rows
<1>12. RowsOK'
  <2>1. ASSUME NEW r \in Rows
        PROVE  state'[requests'[r].task] # Absent /\ (~Faults => Backed(r, requests[r].applied)')
    BY <1>1, <1>4, <1>8, <2>1 DEF RowsOK, Backed
  <2>2. NoVerdict \notin {"CONTINUE", "HUMAN_RESUME", "HUMAN_BLOCK"}
    BY NoVerdictAssumption DEF Verdict, TerminalVerdicts
  <2>3. ASSUME NEW r, r = Len(requests) + 1
        PROVE  state'[requests'[r].task] # Absent /\ (~Faults => Backed(r, requests[r].applied)')
    BY <1>2, <1>3, <1>4, <1>8, <2>2, <2>3 DEF Backed
  <2> QED BY <1>8, <2>1, <2>3 DEF RowsOK
<1>13. UNCHANGED <<memory, drive>>
  BY <1>4 DEF memory
<1>20. \A u \in Tasks : state'[u] # state[u] => u = t
  BY <1>4
<1>21. \A r \in Rows' : r \in Rows \/ requests'[r].task = t
  BY <1>3, <1>8
<1>22. /\ f.todo # <<>>
       /\ g.todo # <<>> => g.task = t \/ \E r \in Rows : g.task = requests[r].task
  BY <1>2, <1>5, GoesOnFacts DEF f, t
<1> QED BY <1>4, <1>5, <1>6, <1>10, <1>11, <1>12, <1>13, <1>20, <1>21, <1>22,
           CallKeepsIInv DEF f, t

\* A call other than a move asks nothing of its process but a request.
LEMMA SyncCallOK ==
  ASSUME NEW p, NEW f, NEW c \in {CanApply, Claim}, f.request # 0, f.verdict \in Verdict
  PROVE  /\ <<c>> \in Seq(Instruction) /\ <<c>> # <<>>
         /\ \A i \in 1..Len(<<c>>) : CallOK(p, f, <<c>>[i])
<1>1. c \in Instruction /\ c.do \in {"can_apply", "claim"}
  BY DEF CanApply, Claim, Instruction
<1>2. /\ <<c>> \in Seq(Instruction) /\ <<c>> # <<>> /\ Len(<<c>>) = 1
      /\ \A i \in 1..Len(<<c>>) : <<c>>[i] = c
  BY <1>1
<1> QED BY <1>1, <1>2 DEF CallOK

\* A verdict is weighed against policy before the frame keeps it.
LEMMA ConsultReadKeepsIInv ==
  ASSUME IInv, NEW p \in Procs, ConsultRead(p)
  PROVE  IInv'
<1> DEFINE f == frame[p]
           r == f.request
           verdict == Governed(Poll(p, r), requests[r].checkpoint, state[f.task])
           todo == <<CanApply>>
           g == [f EXCEPT !.verdict = verdict, !.todo = todo]
<1>1. TablesOK /\ MemoryOK /\ frame \in [Procs -> Frame] /\ FrameOK(p, f)
  BY TypeParts DEF IInv, FramesOK
<1>2. /\ f.todo # <<>> /\ f \in Frame /\ Doing(p, "consult") /\ r # 0
      /\ f.task \in Tasks /\ state[f.task] # Absent
  BY <1>1, HeadFacts DEF ConsultRead, CallOK
<1>3. UNCHANGED <<database, memory, drive>>
  BY DEF ConsultRead
<1>4. CASE MethodReturns(p)
  BY <1>2, <1>3, <1>4, ReturnKeepsIInv
<1>5. CASE ~MethodReturns(p)
  <2>1. frame' = [frame EXCEPT ![p] = g] /\ verdict # "PENDING"
    BY <1>1, <1>5 DEF ConsultRead
  <2>2. r \in Rows /\ p \in Syncers /\ requests[r].task = f.task
    BY <1>1, <1>2 DEF FrameOK
  <2>3. /\ verdict \in Verdict
        /\ verdict \in {"CONTINUE", "HUMAN_RESUME"} => Granted(p, r)
        /\ ~Faults => Backed(r, verdict)
    BY <1>1, <2>1, <2>2, ConsultFacts
  <2> HIDE DEF verdict
  <2>4. todo \in Seq(Instruction)
    <3>1. CanApply \in Instruction
      BY DEF CanApply, Instruction
    <3> QED BY <3>1
  <2> HIDE DEF todo
  <2>5. /\ g.task = f.task /\ g.request = r /\ g.queue = f.queue /\ g.verdict = verdict
        /\ g.todo = todo /\ g \in Frame
    BY <1>2, <2>3, <2>4 DEF Frame
  <2> HIDE DEF g
  <2>6. \A i \in 1..Len(todo) : CallOK(p, g, todo[i])
    BY <1>2, <2>3, <2>5, SyncCallOK DEF todo
  <2>7. FrameOK(p, g)
    BY <1>1, <1>2, <2>2, <2>3, <2>5, <2>6 DEF FrameOK
  <2>8. GoesOn(p, g)
    BY <1>2, <2>5, NotDriving DEF GoesOn
  <2> HIDE DEF f, r
  <2> QED BY <1>2, <1>3, <2>1, <2>7, <2>8, ReadKeepsIInv DEF f
<1> QED BY <1>4, <1>5

LEMMA CanApplyReadKeepsIInv ==
  ASSUME IInv, NEW p \in Procs, CanApplyRead(p)
  PROVE  IInv'
<1> DEFINE f == frame[p]
           todo == <<Claim>>
<1>1. TablesOK /\ MemoryOK /\ frame \in [Procs -> Frame] /\ FrameOK(p, f)
  BY TypeParts DEF IInv, FramesOK
<1>2. /\ f.todo # <<>> /\ Doing(p, "can_apply") /\ f.request # 0 /\ f.verdict \in Verdict
  BY <1>1, HeadFacts DEF CanApplyRead, CallOK
<1>3. UNCHANGED <<database, memory, drive>>
  BY DEF CanApplyRead
<1>4. CASE MethodReturns(p)
  BY <1>2, <1>3, <1>4, ReturnKeepsIInv
<1>5. CASE ~MethodReturns(p)
  <2>1. frame' = [frame EXCEPT ![p].todo = todo]
    BY <1>5 DEF CanApplyRead
  <2>2. todo \in Seq(Instruction) /\ \A i \in 1..Len(todo) : CallOK(p, f, todo[i])
    BY <1>2, SyncCallOK
  <2> HIDE DEF todo
  <2> QED BY <1>2, <1>3, <2>1, <2>2, ReplanKeepsIInv
<1> QED BY <1>4, <1>5

LEMMA ClaimRefusedKeepsIInv ==
  ASSUME IInv, NEW p \in Procs, ClaimRefused(p)
  PROVE  IInv'
BY ReturnKeepsIInv DEF ClaimRefused, Doing

\* The verdict that is claimed is the one that was weighed: its decision is on
\* record, and its effect makes the task run only if it grants that.
LEMMA ClaimCommitKeepsIInv ==
  ASSUME IInv, NEW p \in Procs, ClaimCommit(p)
  PROVE  IInv'
<1> DEFINE f == frame[p]
           r == f.request
           v == f.verdict
           todo == Effect(v)
           g == [f EXCEPT !.todo = todo]
<1>1. TablesOK /\ RowsOK /\ frame \in [Procs -> Frame] /\ FrameOK(p, f) /\ MemoryOK
  BY TypeParts DEF IInv, FramesOK
<1>2. /\ f.todo # <<>> /\ f \in Frame /\ Doing(p, "claim") /\ r # 0 /\ v \in Verdict
  BY <1>1, HeadFacts DEF ClaimCommit, CallOK
<1>3. r \in Rows /\ (~Faults => Backed(r, v))
  BY <1>1, <1>2 DEF FrameOK
<1>4. /\ requests' = [requests EXCEPT ![r].applied = v]
      /\ frame' = [frame EXCEPT ![p] = g]
      /\ state' = state /\ head' = head /\ attempts' = attempts /\ decided' = decided
      /\ human' = human /\ supervisor' = supervisor /\ drive' = drive
  BY <1>1 DEF ClaimCommit, ClaimTxn, memory
<1>5. /\ todo \in Seq(Instruction)
      /\ \A i \in 1..Len(todo) :
           /\ todo[i].do \in {"move", "require", "human_required"}
           /\ todo[i].do = "move" /\ todo[i].to = "RUNNING" => v \in {"CONTINUE", "HUMAN_RESUME"}
  BY <1>2, EffectFacts
<1>6. ~(~Redrive /\ drive[p] # NoDrive)
  BY <1>2, NotDriving
<1>7. requests \in Seq(Request)
  BY <1>1 DEF TablesOK
<1> HIDE DEF todo
<1>8. g = [f EXCEPT !.todo = todo, !.read = f.read] /\ f.read \in TaskState \cup {"none"}
      /\ g.task = f.task /\ g.request = r
  BY <1>2 DEF Frame
<1>9. FrameOK(p, g)
  <2>1. \A i \in 1..Len(todo) : CallOK(p, f, todo[i])
    BY <1>2, <1>5 DEF CallOK
  <2> HIDE DEF f, g
  <2> QED BY <1>1, <1>2, <1>5, <1>8, <2>1, TodoOK
<1>10. GoesOn(p, g)
  BY <1>6, <1>8 DEF GoesOn
<1> HIDE DEF g
<1>11. requests[r] \in Request /\ [requests[r] EXCEPT !.applied = v] \in Request
  BY <1>1, <1>2, <1>3, RowFacts DEF Request
<1> HIDE DEF f, r, v
<1>12. /\ requests' \in Seq(Request) /\ Rows' = Rows
       /\ \A q \in Rows : /\ requests'[q].task = requests[q].task
                          /\ requests'[q].checkpoint = requests[q].checkpoint
                          /\ requests'[q].applied = IF q = r THEN v ELSE requests[q].applied
  <2> DEFINE row == [requests[r] EXCEPT !.applied = v]
  <2>1. requests' = [requests EXCEPT ![r] = row]
    BY <1>4
  <2>2. /\ row.task = requests[r].task /\ row.checkpoint = requests[r].checkpoint
        /\ row.applied = v /\ row \in Request
    BY <1>11 DEF Request
  <2> HIDE DEF row
  <2>3. /\ requests' \in Seq(Request) /\ Len(requests') = Len(requests)
        /\ \A q \in Rows : requests'[q] = IF q = r THEN row ELSE requests[q]
    BY <1>3, <1>7, <2>1, <2>2, ExceptSeq DEF Rows
  <2> QED BY <2>2, <2>3 DEF Rows
<1>13. Grows
  BY <1>4, <1>12 DEF Grows
<1>14. TablesOK'
  BY <1>1, <1>4, <1>12 DEF TablesOK, IsAnswers, Rows
<1>15. RowsOK'
  <2>1. ASSUME NEW q \in Rows
        PROVE  state'[requests'[q].task] # Absent /\ (~Faults => Backed(q, requests[q].applied)')
    <3>1. ~Faults => Backed(q, requests'[q].applied)
      BY <1>1, <1>3, <1>12 DEF RowsOK
    <3> QED BY <1>1, <1>4, <1>12, <3>1 DEF RowsOK, Backed
  <2> QED BY <1>12, <2>1 DEF RowsOK
<1>16. UNCHANGED <<memory, drive>>
  BY <1>4 DEF memory
<1>20. \A u \in Tasks : state'[u] # state[u] => u = f.task
  BY <1>4
<1>21. \A q \in Rows' : q \in Rows \/ requests'[q].task = f.task
  BY <1>12
<1>22. g.todo # <<>> => g.task = f.task
  BY <1>8
<1> QED BY <1>2, <1>4, <1>6, <1>9, <1>13, <1>14, <1>15, <1>16, <1>20, <1>21, <1>22,
           CallKeepsIInv DEF f

-----------------------------------------------------------------------------
(***************************************************************************)
(* The steps between methods.                                              *)
(***************************************************************************)
\* The frame of a method that starts, and the calls it can make.
Started(t, plan) == [NoFrame EXCEPT !.task = t, !.todo = plan]
Planned(p, t, plan) ==
  \A i \in 1..Len(plan) :
    /\ plan[i].do \in {"move", "require", "set_head", "open"}
    /\ plan[i].do = "move" /\ plan[i].to = "RUNNING" =>
         drive'[p] = [task |-> t, phase |-> "provider"]

LEMMA PlanOK ==
  ASSUME NEW p, NEW t \in Tasks, NEW plan \in Seq(Instruction), state'[t] # Absent,
         Planned(p, t, plan), NEW g, g = Started(t, plan)
  PROVE  FrameOK(p, g)' /\ g.task = t /\ g.todo = plan /\ g.request = 0
<1>1. /\ g \in Frame /\ g.task = t /\ g.todo = plan /\ g.request = 0 /\ g.queue = <<>>
      /\ g.verdict = NoVerdict
  <2>1. NoFrame \in Frame /\ NoFrame.request = 0 /\ NoFrame.queue = <<>>
        /\ NoFrame.verdict = NoVerdict
    BY DEF NoFrame, NoTask, Frame
  <2> QED BY <2>1 DEF Frame, Started
<1>2. NoVerdict \notin {"CONTINUE", "HUMAN_RESUME", "HUMAN_BLOCK"}
  BY NoVerdictAssumption DEF Verdict, TerminalVerdicts
<1>3. Len(<<>>) = 0 /\ 1..0 = {}
  OBVIOUS
<1>4. \A i \in 1..Len(plan) : CallOK(p, g, plan[i])'
  BY <1>1 DEF CallOK, Planned
<1>5. FrameOK(p, g)'
  BY <1>1, <1>2, <1>3, <1>4 DEF FrameOK, Backed
<1> QED BY <1>1, <1>5

\* Process p acts on task t, which no other drives, or only ends what it did.
ActsOn(p, t, g) ==
  /\ frame' = [frame EXCEPT ![p] = g] /\ Grows /\ requests' = requests
  /\ \A u \in Tasks : state'[u] # state[u] => u = t
  /\ \A q \in Procs \ {p} : drive'[q] = drive[q]
  /\ ~Redrive =>
       \/ \A q \in Procs \ {p} : drive[q] # NoDrive => drive[q].task # t
       \/ /\ state' = state /\ drive'[p] = NoDrive
          /\ g.todo # <<>> => \E r \in Rows : g.task = requests[r].task
  /\ g.todo # <<>> => g.task = t \/ \E r \in Rows : g.task = requests[r].task
  /\ drive'[p] # NoDrive =>
       /\ drive'[p].task = t /\ state'[t] # Absent
       /\ ~Redrive => Alone(p, t)'

LEMMA DrivesStay ==
  ASSUME IInv, NEW p \in Procs, NEW t, NEW g, ActsOn(p, t, g)
  PROVE  DrivesOK'
<1> USE DEF ActsOn
<1>1. frame \in [Procs -> Frame]
  BY TypeParts DEF IInv
<1>2. frame'[p] = g /\ \A q \in Procs \ {p} : frame'[q] = frame[q]
  BY <1>1
<1>3. ASSUME NEW q \in Procs \ {p}, drive'[q] # NoDrive
      PROVE  state'[drive'[q].task] # Absent /\ (~Redrive => Alone(q, drive[q].task)')
  <2> DEFINE u == drive[q].task
  <2>1. /\ drive[q] # NoDrive /\ drive'[q].task = u /\ u \in Tasks /\ state[u] # Absent
    BY <1>3 DEF IInv, DrivesOK, TypeOK
  <2>2. state'[u] # Absent
    BY <2>1 DEF Grows
  <2>3. ASSUME ~Redrive PROVE Alone(q, drive[q].task)'
    <3>1. /\ Alone(q, u)
          /\ u # t \/ (state' = state /\ drive'[p] = NoDrive
                        /\ (g.todo # <<>> => \E r \in Rows : g.task = requests[r].task))
      BY <1>3, <2>1, <2>3 DEF IInv, DrivesOK
    <3> HIDE DEF u
    <3>2. state'[u] = state[u] /\ Rows' = Rows
      BY <2>1, <3>1 DEF Rows
    <3>3. g.todo # <<>> => g.task # u
      BY <3>1 DEF Alone
    <3>4. drive'[p] # NoDrive => drive'[p].task # u
      BY <3>1
    <3> QED BY <1>2, <1>3, <2>1, <3>1, <3>2, <3>3, <3>4 DEF Alone
  <2> QED BY <2>1, <2>2, <2>3
<1>4. ASSUME drive'[p] # NoDrive
      PROVE  state'[drive'[p].task] # Absent /\ (~Redrive => Alone(p, drive[p].task)')
  BY <1>4
<1> QED BY <1>3, <1>4 DEF DrivesOK

LEMMA RaiseKeepsIInv ==
  ASSUME IInv, NEW p \in Procs, Raise(p)
  PROVE  IInv'
<1>1. TablesOK /\ RowsOK /\ MemoryOK /\ frame \in [Procs -> Frame] /\ FrameOK(p, frame[p])
  BY TypeParts DEF IInv, FramesOK
<1>2. /\ state' = state /\ head' = head /\ attempts' = attempts /\ requests' = requests
      /\ decided' = decided /\ human' = human /\ supervisor' = supervisor
      /\ drive' = [drive EXCEPT ![p] = NoDrive] /\ UNCHANGED memory
  BY DEF Raise, LetGo, database, memory
<1>3. PICK queue \in Seq(Nat) :
        /\ frame' = [frame EXCEPT ![p] = Visit(queue)]
        /\ queue # <<>> => p \in Syncers
        /\ \A i \in 1..Len(queue) : queue[i] \in Rows
  <2>1. CASE frame' = [frame EXCEPT ![p] = NoFrame]
    <3>1. Visit(<<>>) = NoFrame /\ <<>> \in Seq(Nat) /\ Len(<<>>) = 0 /\ 1..0 = {}
      BY DEF Visit
    <3> QED BY <2>1, <3>1
  <2>2. CASE MethodReturns(p)
    <3>1. frame' = [frame EXCEPT ![p] = Visit(frame[p].queue)]
      BY <2>2 DEF MethodReturns
    <3> QED BY <1>1, <3>1, QueueFacts
  <2> QED BY <2>1, <2>2 DEF Raise
<1>14. PICK g : g = Visit(queue)
  OBVIOUS
<1>4. /\ FrameOK(p, g) /\ (g.todo # <<>> => \E r \in Rows : g.task = requests[r].task)
      /\ \A i \in 1..Len(g.todo) : g.todo[i].do # "move"
  BY <1>1, <1>3, <1>14, VisitOK
<1>5. frame' = [frame EXCEPT ![p] = g]
  BY <1>3, <1>14
<1>6. Rows' = Rows /\ drive \in [Procs -> {NoDrive} \cup
                                 [task : Tasks, phase : {"provider", "outcome", "gates"}]]
  BY <1>1, <1>2 DEF Rows, TablesOK
<1>7. Grows
  BY <1>2, <1>6 DEF Grows
<1>8. FrameOK(p, g)'
  BY <1>1, <1>2, <1>4, <1>7, FrameStays
<1>9. drive' \in [Procs -> {NoDrive} \cup
                    [task : Tasks, phase : {"provider", "outcome", "gates"}]]
      /\ drive'[p] = NoDrive /\ \A q \in Procs \ {p} : drive'[q] = drive[q]
  BY <1>2, <1>6
<1>10. TablesOK'
  BY <1>1, <1>2, <1>6, <1>9 DEF TablesOK, IsAnswers
<1>11. RowsOK'
  BY <1>1, <1>2, <1>6 DEF RowsOK, Backed
<1>12. MemoryOK'
  BY <1>1, <1>2, <1>7, MemoryStays
<1>13. DrivesOK'
  <2>1. \A u \in Tasks : state'[u] # state[u] => u = NoTask
    BY <1>2
  <2>2. ActsOn(p, NoTask, g)
    BY <1>2, <1>4, <1>5, <1>7, <1>9, <2>1 DEF ActsOn
  <2> QED BY <2>2, DrivesStay
<1>15. \A q \in Procs \ {p} : human'[q] = human[q] /\ supervisor'[q] = supervisor[q]
  BY <1>2
<1> QED BY <1>5, <1>7, <1>8, <1>9, <1>10, <1>11, <1>12, <1>13, <1>15, StepKeepsIInv

\* A step that leaves the tables and the ports alone.
LEMMA QuietKeepsIInv ==
  ASSUME IInv, NEW p \in Procs, NEW g, frame' = [frame EXCEPT ![p] = g],
         UNCHANGED <<database, memory>>, FrameOK(p, g)', DrivesOK',
         NEW d \in {NoDrive} \cup [task : Tasks, phase : {"provider", "outcome", "gates"}],
         drive' = [drive EXCEPT ![p] = d]
  PROVE  IInv'
<1>1. TablesOK /\ RowsOK /\ MemoryOK
  BY TypeParts DEF IInv
<1>2. /\ state' = state /\ head' = head /\ attempts' = attempts /\ requests' = requests
      /\ decided' = decided /\ human' = human /\ supervisor' = supervisor /\ UNCHANGED memory
      /\ Rows' = Rows
  BY DEF database, memory, Rows
<1>3. drive' \in [Procs -> {NoDrive} \cup
                    [task : Tasks, phase : {"provider", "outcome", "gates"}]]
      /\ \A q \in Procs \ {p} : drive'[q] = drive[q]
  BY <1>1 DEF TablesOK
<1>4. Grows
  BY <1>2 DEF Grows
<1>5. TablesOK'
  BY <1>1, <1>2, <1>3 DEF TablesOK, IsAnswers
<1>6. RowsOK'
  BY <1>1, <1>2 DEF RowsOK, Backed
<1>7. MemoryOK'
  BY <1>1, <1>2, <1>4, MemoryStays
<1>8. \A q \in Procs \ {p} : human'[q] = human[q] /\ supervisor'[q] = supervisor[q]
  BY <1>2
<1> QED BY <1>3, <1>4, <1>5, <1>6, <1>7, <1>8, StepKeepsIInv

LEMMA CrashKeepsIInv ==
  ASSUME IInv, NEW p \in Procs, Crash(p)
  PROVE  IInv'
<1>1. TablesOK /\ RowsOK /\ MemoryOK /\ frame \in [Procs -> Frame]
  BY TypeParts DEF IInv
<1>2. /\ state' = state /\ head' = head /\ attempts' = attempts /\ requests' = requests
      /\ decided' = decided /\ Rows' = Rows
      /\ human' = [human EXCEPT ![p] = <<>>] /\ supervisor' = [supervisor EXCEPT ![p] = <<>>]
      /\ drive' = [drive EXCEPT ![p] = NoDrive]
  BY DEF Crash, LetGo, database, Rows
<1>3. PICK g : g = NoFrame
  OBVIOUS
<1>4. frame' = [frame EXCEPT ![p] = g]
  BY <1>3 DEF Crash
<1>5. /\ human' = [q \in Procs |-> human'[q]] /\ supervisor' = [q \in Procs |-> supervisor'[q]]
      /\ human'[p] = <<>> /\ supervisor'[p] = <<>>
      /\ \A q \in Procs \ {p} : human'[q] = human[q] /\ supervisor'[q] = supervisor[q]
  BY <1>1, <1>2 DEF MemoryOK
<1>6. drive' \in [Procs -> {NoDrive} \cup
                    [task : Tasks, phase : {"provider", "outcome", "gates"}]]
      /\ drive'[p] = NoDrive /\ \A q \in Procs \ {p} : drive'[q] = drive[q]
  BY <1>1, <1>2 DEF TablesOK
<1>7. Grows
  BY <1>2 DEF Grows
<1>8. DOMAIN <<>> = {}
  OBVIOUS
<1>9. TablesOK'
  <2>1. \A q \in Procs : /\ IsAnswers(human[q], HumanKinds)'
                          /\ IsAnswers(supervisor[q], SupervisorKinds)'
    BY <1>1, <1>2, <1>5, <1>8 DEF TablesOK, IsAnswers
  <2> QED BY <1>1, <1>2, <1>6, <2>1 DEF TablesOK
<1>10. RowsOK'
  BY <1>1, <1>2 DEF RowsOK, Backed
<1>11. MemoryOK'
  <2>1. ASSUME ~Faults, NEW q \in Procs
        PROVE  /\ \A r \in DOMAIN human'[q] : <<r, "HUMAN", human'[q][r]>> \in decided'
               /\ \A r \in DOMAIN supervisor'[q] :
                    <<r, "SUPERVISOR", supervisor'[q][r]>> \in decided'
    BY <1>1, <1>2, <1>5, <1>8, <2>1 DEF MemoryOK
  <2> QED BY <1>5, <2>1 DEF MemoryOK
<1>12. g.todo = <<>> /\ Len(<<>>) = 0 /\ g.verdict = NoVerdict
  BY <1>3 DEF NoFrame
<1>13. FrameOK(p, g)'
  <2>1. FrameOK(p, g)
    BY <1>3, IdleOK
  <2> QED BY <1>1, <1>7, <1>12, <2>1, FrameStays
<1>14. DrivesOK'
  <2>1. \A u \in Tasks : state'[u] # state[u] => u = NoTask
    BY <1>2
  <2>2. ActsOn(p, NoTask, g)
    BY <1>2, <1>4, <1>6, <1>7, <1>12, <2>1 DEF ActsOn
  <2> QED BY <2>2, DrivesStay
<1> QED BY <1>4, <1>5, <1>6, <1>7, <1>9, <1>10, <1>11, <1>13, <1>14, StepKeepsIInv

LEMMA ListingFacts ==
  ASSUME TablesOK, NEW T, NEW list \in Listings(UnresolvedOf(T))
  PROVE  list \in Seq(Nat) /\ \A i \in 1..Len(list) : list[i] \in Rows
<1> DEFINE S == UnresolvedOf(T)
<1>1. Len(requests) \in Nat
  BY RowFacts
<1>2. S \subseteq Rows /\ IsFiniteSet(Rows)
  BY <1>1, FS_Interval DEF UnresolvedOf, Rows
<1>3. Cardinality(S) \in Nat
  BY <1>2, FS_Subset, FS_CardinalityType
<1>4. list \in [1..Cardinality(S) -> S]
  BY DEF Listings
<1> HIDE DEF S
<1> DEFINE n == Cardinality(S)
<1>5. n \in Nat /\ list \in [1..n -> S]
  BY <1>3, <1>4
<1>6. Rows \subseteq Nat
  BY <1>1 DEF Rows
<1> HIDE DEF n
<1>7. list \in [1..n -> Nat] /\ \A i \in 1..n : list[i] \in Rows
  BY <1>2, <1>5, <1>6
<1>8. list \in Seq(Nat) /\ Len(list) = n
  BY <1>5, <1>7
<1> QED BY <1>7, <1>8

LEMMA StartSyncKeepsIInv ==
  ASSUME IInv, NEW p \in Procs, NEW T, StartSync(p, T)
  PROVE  IInv'
<1>1. TablesOK /\ RowsOK /\ MemoryOK /\ frame \in [Procs -> Frame]
  BY TypeParts DEF IInv
<1>2. /\ p \in Syncers /\ drive[p] = NoDrive /\ drive' = drive /\ UNCHANGED <<database, memory>>
  BY DEF StartSync
<1>3. PICK list \in Listings(UnresolvedOf(T)) : frame' = [frame EXCEPT ![p] = Visit(list)]
  BY DEF StartSync
<1>4. PICK g : g = Visit(list)
  OBVIOUS
<1>5. /\ FrameOK(p, g) /\ (g.todo # <<>> => \E r \in Rows : g.task = requests[r].task)
  BY <1>1, <1>2, <1>4, ListingFacts, VisitOK
<1>6. frame' = [frame EXCEPT ![p] = g]
  BY <1>3, <1>4
<1>7. Grows /\ state' = state /\ requests' = requests /\ human' = human /\ supervisor' = supervisor
  BY <1>1, <1>2, Unchanged DEF memory
<1>8. FrameOK(p, g)'
  BY <1>1, <1>2, <1>5, <1>7, FrameStays
<1>9. DrivesOK'
  <2>1. \A u \in Tasks : state'[u] # state[u] => u = NoTask
    BY <1>7
  <2>2. ActsOn(p, NoTask, g)
    BY <1>2, <1>5, <1>6, <1>7, <2>1 DEF ActsOn
  <2> QED BY <2>2, DrivesStay
<1>10. drive' = [drive EXCEPT ![p] = NoDrive]
  BY <1>1, <1>2 DEF TablesOK
<1> QED BY <1>2, <1>6, <1>8, <1>9, <1>10, QuietKeepsIInv

\* Nobody but a driver has a part in its task.
LEMMA DriverFacts ==
  ASSUME IInv, NEW p \in Procs, drive[p] # NoDrive
  PROVE  /\ drive[p].task \in Tasks /\ state[drive[p].task] # Absent
         /\ ~Redrive => /\ Alone(p, drive[p].task)
                        /\ \A q \in Procs \ {p} : drive[q] # NoDrive =>
                                                    drive[q].task # drive[p].task
BY DEF IInv, TypeOK, DrivesOK, Alone

LEMMA DriveFacts ==
  ASSUME NEW p, NEW t, NEW phase \in {"provider", "outcome", "gates"}, Drives(p, t, phase)
  PROVE  drive[p] # NoDrive /\ drive[p].task = t
<1>1. drive[p].task = t /\ drive[p].phase = phase
  BY DEF Drives
<1>2. NoDrive.phase = "none"
  BY DEF NoDrive
<1> QED BY <1>1, <1>2

LEMMA OpenForeignKeepsIInv ==
  ASSUME IInv, NEW p \in Procs, NEW t \in Tasks, OpenForeign(p, t)
  PROVE  IInv'
<1> DEFINE plan == <<Open("synthetic_denied_action")>>
<1>1. TablesOK /\ RowsOK
  BY TypeParts DEF IInv
<1>2. /\ drive[p] = NoDrive /\ drive' = drive /\ UNCHANGED <<database, memory>>
      /\ state[t] = "BLOCKED" /\ Call(p, t, plan)
  BY DEF OpenForeign
<1>3. Grows /\ state' = state /\ requests' = requests
  BY <1>1, <1>2, Unchanged
<1>4. PICK g : g = Started(t, plan)
  OBVIOUS
<1>5. frame' = [frame EXCEPT ![p] = g]
  BY <1>2, <1>4 DEF Call, Started
<1>6. plan \in Seq(Instruction) /\ \A i \in 1..Len(plan) : plan[i].do = "open"
  <2>1. /\ Open("synthetic_denied_action") \in Instruction
        /\ Open("synthetic_denied_action").do = "open"
    BY DEF Open, Instruction, Checkpoint, Capability
  <2> QED BY <2>1
<1> HIDE DEF plan
<1>7. FrameOK(p, g)' /\ g.task = t
  <2>1. state'[t] # Absent
    BY <1>2, <1>3 DEF Absent
  <2>2. Planned(p, t, plan)
    BY <1>6 DEF Planned
  <2> QED BY <1>4, <1>6, <2>1, <2>2, PlanOK
<1>8. DrivesOK'
  <2>1. ~Redrive => \A q \in Procs \ {p} : drive[q] # NoDrive => drive[q].task # t
    BY <1>2, DriverFacts DEF Alone
  <2>2. \A u \in Tasks : state'[u] # state[u] => u = t
    BY <1>3
  <2>3. ActsOn(p, t, g)
    BY <1>2, <1>3, <1>5, <1>7, <2>1, <2>2 DEF ActsOn
  <2> QED BY <2>3, DrivesStay
<1>9. drive' = [drive EXCEPT ![p] = NoDrive]
  BY <1>1, <1>2 DEF TablesOK
<1> QED BY <1>2, <1>5, <1>7, <1>8, <1>9, QuietKeepsIInv

LEMMA EndPlans ==
  ASSUME NEW plan \in ProviderEnds \cup GatesEnd
  PROVE  /\ plan \in Seq(Instruction)
         /\ \A i \in 1..Len(plan) : /\ plan[i].do \in {"move", "require", "set_head", "open"}
                                    /\ plan[i].do = "move" => plan[i].to # "RUNNING"
<1> DEFINE Fine(c) == /\ c \in Instruction
                      /\ c.do \in {"move", "require", "set_head", "open"}
                      /\ c.do = "move" => c.to # "RUNNING"
<1>1. /\ Fine(Move("INTERRUPTED")) /\ Fine(Move("FAILED")) /\ Fine(Move("BLOCKED"))
      /\ Fine(Move("READY")) /\ Fine(Require("VERIFYING"))
  BY DEF Move, Require, Instruction, TaskState
<1>2. /\ Fine(Open("provider_unavailable")) /\ Fine(Open("gates_blocked"))
      /\ Fine(Open("candidate_ready"))
  BY DEF Open, Instruction, Checkpoint, Capability
<1>3. \/ \E a : Fine(a) /\ plan = <<a>>
      \/ \E a, b : Fine(a) /\ Fine(b) /\ plan = <<a, b>>
      \/ \E a, b, c : Fine(a) /\ Fine(b) /\ Fine(c) /\ plan = <<a, b, c>>
  <2> HIDE DEF Fine
  <2> QED BY <1>1, <1>2 DEF ProviderEnds, GatesEnd, Blocked
<1>4. plan \in Seq(Instruction) /\ \A i \in 1..Len(plan) : Fine(plan[i])
  <2>1. ASSUME NEW a, Fine(a), plan = <<a>>
        PROVE  plan \in Seq(Instruction) /\ \A i \in 1..Len(plan) : Fine(plan[i])
    <3>1. a \in Instruction
      BY <2>1
    <3> HIDE DEF Fine
    <3>2. plan \in Seq(Instruction) /\ \A i \in 1..Len(plan) : plan[i] = a
      BY <2>1, <3>1
    <3> QED BY <2>1, <3>2
  <2>2. ASSUME NEW a, NEW b, Fine(a), Fine(b), plan = <<a, b>>
        PROVE  plan \in Seq(Instruction) /\ \A i \in 1..Len(plan) : Fine(plan[i])
    <3>1. a \in Instruction /\ b \in Instruction
      BY <2>2
    <3> HIDE DEF Fine
    <3>2. plan \in Seq(Instruction) /\ \A i \in 1..Len(plan) : plan[i] \in {a, b}
      BY <2>2, <3>1
    <3> QED BY <2>2, <3>2
  <2>3. ASSUME NEW a, NEW b, NEW c, Fine(a), Fine(b), Fine(c), plan = <<a, b, c>>
        PROVE  plan \in Seq(Instruction) /\ \A i \in 1..Len(plan) : Fine(plan[i])
    <3>1. a \in Instruction /\ b \in Instruction /\ c \in Instruction
      BY <2>3
    <3> HIDE DEF Fine
    <3>2. plan \in Seq(Instruction) /\ \A i \in 1..Len(plan) : plan[i] \in {a, b, c}
      BY <2>3, <3>1
    <3> QED BY <2>3, <3>2
  <2> HIDE DEF Fine
  <2> QED BY <1>3, <2>1, <2>2, <2>3
<1> QED BY <1>4

\* run() returns: its process goes on with the calls of the method.
LEMMA EndDriveKeepsIInv ==
  ASSUME IInv, NEW p \in Procs, NEW t \in Tasks, NEW phase \in {"provider", "outcome", "gates"},
         NEW plan \in ProviderEnds \cup GatesEnd, EndDrive(p, t, phase, plan)
  PROVE  IInv'
<1>1. /\ drive' = [drive EXCEPT ![p] = NoDrive] /\ UNCHANGED <<database, memory>>
      /\ Drives(p, t, phase) /\ Call(p, t, plan)
  BY DEF EndDrive, LetGo
<1>2. drive \in [Procs -> {NoDrive} \cup [task : Tasks, phase : {"provider", "outcome", "gates"}]]
  BY DEF IInv, TypeOK
<1>3. Grows /\ state' = state /\ requests' = requests
  BY <1>1 DEF Grows, database, Rows
<1>4. PICK g : g = Started(t, plan)
  OBVIOUS
<1>5. frame' = [frame EXCEPT ![p] = g]
  BY <1>1, <1>4 DEF Call, Started
<1>6. drive'[p] = NoDrive /\ \A q \in Procs \ {p} : drive'[q] = drive[q]
  BY <1>1, <1>2
<1>7. /\ state[t] # Absent
      /\ ~Redrive => \A q \in Procs \ {p} : drive[q] # NoDrive => drive[q].task # t
  BY <1>1, DriveFacts, DriverFacts
<1>8. FrameOK(p, g)' /\ g.task = t
  <2>1. plan \in Seq(Instruction) /\ Planned(p, t, plan)
    BY EndPlans DEF Planned
  <2> QED BY <1>3, <1>4, <1>7, <2>1, PlanOK
<1>9. DrivesOK'
  <2>1. \A u \in Tasks : state'[u] # state[u] => u = t
    BY <1>3
  <2>2. ActsOn(p, t, g)
    BY <1>3, <1>5, <1>6, <1>7, <1>8, <2>1 DEF ActsOn
  <2> QED BY <2>2, DrivesStay
<1> QED BY <1>1, <1>5, <1>8, <1>9, QuietKeepsIInv

\* A step of a driver that keeps driving: it begins, takes up, or goes on with
\* task t, in a method that keeps the task where no verdict applies.
LEMMA DriverKeepsIInv ==
  ASSUME IInv, NEW p \in Procs, NEW t \in Tasks, NEW phase \in {"provider", "outcome", "gates"},
         NEW g, frame' = [frame EXCEPT ![p] = g], FrameOK(p, g)',
         EnterPhase(p, t, phase), UNCHANGED <<requests, decided, memory>>,
         Grows, TablesOK', state'[t] # Absent,
         \A u \in Tasks : state'[u] # state[u] => u = t,
         ~Redrive =>
           /\ state'[t] \in {"PENDING", "RUNNING", "VERIFYING"}
           /\ \A r \in Rows : requests[r].task # t
           /\ \A q \in Procs \ {p} : /\ frame[q].todo # <<>> => frame[q].task # t
                                     /\ drive[q] # NoDrive => drive[q].task # t,
         g.todo # <<>> => g.task = t /\ g.request = 0,
         ~Redrive => \A i \in 1..Len(g.todo) :
           /\ g.todo[i].do \in {"move", "require", "set_head"}
           /\ g.todo[i].do = "move" => g.todo[i].to \in {"RUNNING", "VERIFYING"}
  PROVE  IInv'
<1>1. TablesOK /\ RowsOK /\ MemoryOK /\ frame \in [Procs -> Frame]
  BY TypeParts DEF IInv
<1>2. /\ requests' = requests /\ decided' = decided /\ human' = human /\ supervisor' = supervisor
      /\ Rows' = Rows /\ UNCHANGED memory
  BY DEF memory, Rows
<1>3. /\ drive'[p] = [task |-> t, phase |-> phase] /\ drive'[p].task = t /\ drive'[p] # NoDrive
      /\ \A q \in Procs \ {p} : drive'[q] = drive[q]
  <2>1. drive'[p] = [task |-> t, phase |-> phase] /\ \A q \in Procs \ {p} : drive'[q] = drive[q]
    BY <1>1 DEF EnterPhase, TablesOK
  <2>2. drive'[p].phase = phase /\ NoDrive.phase = "none"
    BY <2>1 DEF NoDrive
  <2> QED BY <2>1, <2>2
<1>4. frame'[p] = g /\ \A q \in Procs \ {p} : frame'[q] = frame[q]
  BY <1>1
<1>5. RowsOK'
  <2>1. ASSUME NEW r \in Rows
        PROVE  state'[requests'[r].task] # Absent /\ (~Faults => Backed(r, requests[r].applied)')
    <3>1. requests[r].task \in Tasks
      BY <1>1, RowFacts
    <3> QED BY <1>1, <1>2, <3>1 DEF RowsOK, Backed, Grows
  <2> QED BY <1>2, <2>1 DEF RowsOK
<1>6. MemoryOK'
  BY <1>1, <1>2, MemoryStays
<1>7. ~Redrive => Alone(p, t)'
  BY <1>2, <1>3, <1>4 DEF Alone
<1>8. DrivesOK'
  <2>1. ~Redrive => \A q \in Procs \ {p} : drive[q] # NoDrive => drive[q].task # t
    OBVIOUS
  <2>2. drive'[p] # NoDrive => /\ drive'[p].task = t /\ state'[t] # Absent
                               /\ ~Redrive => Alone(p, t)'
    BY <1>3, <1>7
  <2>3. g.todo # <<>> => g.task = t \/ \E r \in Rows : g.task = requests[r].task
    OBVIOUS
  <2>4. ActsOn(p, t, g)
    BY <1>2, <1>3, <2>1, <2>2, <2>3 DEF ActsOn
  <2> QED BY <2>4, DrivesStay
<1>9. \A q \in Procs \ {p} : human'[q] = human[q] /\ supervisor'[q] = supervisor[q]
  BY <1>2
<1> QED BY <1>3, <1>5, <1>6, <1>8, <1>9, StepKeepsIInv

\* The plans of a driver that goes on.
LEMMA KeepPlans ==
  ASSUME NEW plan, \/ plan = <<Move("RUNNING")>>
                   \/ \E h \in Heads : plan = CandidateProduced(h)
  PROVE  /\ plan \in Seq(Instruction)
         /\ \A i \in 1..Len(plan) : /\ plan[i].do \in {"move", "require", "set_head"}
                                    /\ plan[i].do = "move" =>
                                         plan[i].to \in {"RUNNING", "VERIFYING"}
         /\ (\E h \in Heads : plan = CandidateProduced(h)) =>
              \A i \in 1..Len(plan) : plan[i].do = "move" => plan[i].to # "RUNNING"
<1> DEFINE Fine == /\ plan \in Seq(Instruction)
                   /\ \A i \in 1..Len(plan) :
                        /\ plan[i].do \in {"move", "require", "set_head"}
                        /\ plan[i].do = "move" => plan[i].to \in {"RUNNING", "VERIFYING"}
<1>1. ASSUME plan = <<Move("RUNNING")>> PROVE Fine
  <2>1. /\ Move("RUNNING") \in Instruction /\ Move("RUNNING").do = "move"
        /\ Move("RUNNING").to = "RUNNING"
    BY DEF Move, Instruction, TaskState
  <2>2. plan \in Seq(Instruction) /\ \A i \in 1..Len(plan) : plan[i] = Move("RUNNING")
    BY <1>1, <2>1
  <2> QED BY <1>1, <2>1, <2>2
<1>2. ASSUME \E h \in Heads : plan = CandidateProduced(h)
      PROVE  Fine /\ \A i \in 1..Len(plan) : plan[i].do = "move" => plan[i].to # "RUNNING"
  <2>1. PICK h \in Heads : plan = <<Require("RUNNING"), SetHead(h), Move("VERIFYING")>>
    BY <1>2 DEF CandidateProduced
  <2> DEFINE a == Require("RUNNING")
             b == SetHead(h)
             c == Move("VERIFYING")
  <2>2. /\ a \in Instruction /\ b \in Instruction /\ c \in Instruction
        /\ a.do = "require" /\ b.do = "set_head" /\ c.do = "move" /\ c.to = "VERIFYING"
    BY DEF Require, SetHead, Move, Instruction, TaskState
  <2> HIDE DEF a, b, c
  <2>3. plan \in Seq(Instruction) /\ \A i \in 1..Len(plan) : plan[i] \in {a, b, c}
    BY <2>1, <2>2 DEF a, b, c
  <2> QED BY <1>2, <2>2, <2>3
<1> QED BY <1>1, <1>2

LEMMA KeepDrivingKeepsIInv ==
  ASSUME IInv, NEW p \in Procs, NEW t \in Tasks, NEW phase \in {"provider", "outcome", "gates"},
         NEW plan, NEW next \in {"provider", "outcome", "gates"},
         \/ plan = <<Move("RUNNING")>> /\ next = "provider"
         \/ \E h \in Heads : plan = CandidateProduced(h),
         KeepDriving(p, t, phase, plan, next)
  PROVE  IInv'
<1>1. TablesOK /\ RowsOK
  BY TypeParts DEF IInv
<1>2. /\ EnterPhase(p, t, next) /\ UNCHANGED <<database, memory>>
      /\ Drives(p, t, phase) /\ Call(p, t, plan)
  BY DEF KeepDriving
<1>3. /\ Grows /\ state' = state /\ requests' = requests /\ decided' = decided /\ Rows' = Rows
      /\ head' = head /\ attempts' = attempts /\ human' = human /\ supervisor' = supervisor
  BY <1>2 DEF Grows, database, memory, Rows
<1>4. PICK g : g = Started(t, plan)
  OBVIOUS
<1>5. frame' = [frame EXCEPT ![p] = g]
  BY <1>2, <1>4 DEF Call, Started
<1>6. /\ drive'[p] = [task |-> t, phase |-> next]
      /\ drive' \in [Procs -> {NoDrive} \cup
                      [task : Tasks, phase : {"provider", "outcome", "gates"}]]
  BY <1>1, <1>2 DEF EnterPhase, TablesOK
<1>7. TablesOK'
  BY <1>1, <1>3, <1>6 DEF TablesOK, IsAnswers
<1>8. state[t] # Absent /\ (~Redrive => Alone(p, t))
  BY <1>2, DriveFacts, DriverFacts
<1>9. FrameOK(p, g)' /\ g.task = t /\ g.todo = plan /\ g.request = 0
  <2>1. plan \in Seq(Instruction) /\ Planned(p, t, plan)
    <3>1. CASE plan = <<Move("RUNNING")>> /\ next = "provider"
      BY <1>6, <3>1, KeepPlans DEF Planned
    <3>2. CASE \E h \in Heads : plan = CandidateProduced(h)
      BY <3>2, KeepPlans DEF Planned
    <3> QED BY <3>1, <3>2
  <2>2. state'[t] # Absent
    BY <1>3, <1>8
  <2> QED BY <1>4, <2>1, <2>2, PlanOK
<1>10. \A i \in 1..Len(g.todo) :
         /\ g.todo[i].do \in {"move", "require", "set_head"}
         /\ g.todo[i].do = "move" => g.todo[i].to \in {"RUNNING", "VERIFYING"}
  BY <1>9, KeepPlans
<1>11. ~Redrive =>
         /\ state'[t] \in {"PENDING", "RUNNING", "VERIFYING"}
         /\ \A r \in Rows : requests[r].task # t
         /\ \A q \in Procs \ {p} : /\ frame[q].todo # <<>> => frame[q].task # t
                                   /\ drive[q] # NoDrive => drive[q].task # t
  BY <1>3, <1>8 DEF Alone
<1>12. UNCHANGED <<requests, decided, memory>> /\ state'[t] # Absent
       /\ \A u \in Tasks : state'[u] # state[u] => u = t
  BY <1>2, <1>3, <1>8
<1> QED BY <1>2, <1>3, <1>5, <1>7, <1>9, <1>10, <1>11, <1>12, DriverKeepsIInv

LEMMA BeginKeepsIInv ==
  ASSUME IInv, NEW p \in Procs, NEW t \in Tasks, Begin(p, t)
  PROVE  IInv'
<1>0. PICK plan : plan = <<Move("RUNNING")>>
  OBVIOUS
<1>1. TablesOK /\ RowsOK /\ \A q \in Procs : FrameOK(q, frame[q])
  BY TypeParts DEF IInv, FramesOK
<1>2. /\ EnterPhase(p, t, "provider") /\ Call(p, t, plan) /\ state[t] = Absent
      /\ state' = [state EXCEPT ![t] = "PENDING"] /\ head' = head
      /\ attempts' = attempts /\ requests' = requests /\ decided' = decided
      /\ human' = human /\ supervisor' = supervisor
      /\ UNCHANGED <<requests, decided, memory>>
  <2>1. Ledger!Create(t) /\ UNCHANGED <<attempts, requests, decided, memory>>
    BY DEF Begin
  <2>2. EnterPhase(p, t, "provider") /\ Call(p, t, plan)
    BY <1>0 DEF Begin
  <2> QED BY <2>1, <2>2 DEF Ledger!Create, memory, Absent, Ledger!Absent
<1>3. /\ state' \in [Tasks -> RowState] /\ state'[t] = "PENDING" /\ state'[t] # Absent
      /\ \A u \in Tasks : u # t => state'[u] = state[u]
      /\ Rows' = Rows
  <2>1. "PENDING" \in RowState /\ "PENDING" # Absent
    BY DEF RowState, TaskState, Absent
  <2> QED BY <1>1, <1>2, <2>1 DEF TablesOK, Rows
<1>4. PICK g : g = Started(t, plan)
  OBVIOUS
<1>5. frame' = [frame EXCEPT ![p] = g]
  BY <1>2, <1>4 DEF Call, Started
<1>6. /\ drive'[p] = [task |-> t, phase |-> "provider"]
      /\ drive' \in [Procs -> {NoDrive} \cup
                      [task : Tasks, phase : {"provider", "outcome", "gates"}]]
  BY <1>1, <1>2 DEF EnterPhase, TablesOK
<1>7. TablesOK' /\ Grows
  BY <1>1, <1>2, <1>3, <1>6 DEF TablesOK, IsAnswers, Grows
<1>8. /\ plan \in Seq(Instruction)
      /\ \A i \in 1..Len(plan) :
           /\ plan[i].do \in {"move", "require", "set_head"}
           /\ plan[i].do = "move" => plan[i].to \in {"RUNNING", "VERIFYING"}
  BY <1>0, KeepPlans
<1>9. FrameOK(p, g)' /\ g.task = t /\ g.todo = plan /\ g.request = 0
  <2>1. Planned(p, t, plan)
    BY <1>6, <1>8 DEF Planned
  <2> QED BY <1>3, <1>4, <1>8, <2>1, PlanOK
<1>10. ~Redrive =>
         /\ state'[t] \in {"PENDING", "RUNNING", "VERIFYING"}
         /\ \A r \in Rows : requests[r].task # t
         /\ \A q \in Procs \ {p} : /\ frame[q].todo # <<>> => frame[q].task # t
                                   /\ drive[q] # NoDrive => drive[q].task # t
  <2>1. \A r \in Rows : requests[r].task # t
    BY <1>1, <1>2 DEF RowsOK
  <2>2. \A q \in Procs \ {p} : /\ frame[q].todo # <<>> => frame[q].task # t
                               /\ drive[q] # NoDrive => drive[q].task # t
    BY <1>1, <1>2, DriverFacts DEF FrameOK
  <2> QED BY <1>3, <2>1, <2>2
<1>11. \A u \in Tasks : state'[u] # state[u] => u = t
  BY <1>3
<1>12. \A i \in 1..Len(g.todo) :
         /\ g.todo[i].do \in {"move", "require", "set_head"}
         /\ g.todo[i].do = "move" => g.todo[i].to \in {"RUNNING", "VERIFYING"}
  BY <1>8, <1>9
<1> QED BY <1>2, <1>3, <1>5, <1>7, <1>9, <1>10, <1>11, <1>12, DriverKeepsIInv

\* A process that is in no method has a frame to show for it.
LEMMA IdleStays ==
  ASSUME IInv, NEW p \in Procs, Idle(p), Grows, frame' = frame
  PROVE  \E g : /\ frame' = [frame EXCEPT ![p] = g] /\ FrameOK(p, g)'
                /\ g.todo = <<>> /\ Len(g.todo) = 0
<1>1. TablesOK /\ frame \in [Procs -> Frame]
  BY TypeParts DEF IInv
<1>2. PICK g : g = NoFrame
  OBVIOUS
<1>3. g.todo = <<>> /\ Len(g.todo) = 0 /\ g.verdict = NoVerdict
  <2>1. NoFrame.todo = <<>> /\ NoFrame.verdict = NoVerdict /\ Len(<<>>) = 0
    BY DEF NoFrame
  <2> QED BY <1>2, <2>1
<1>4. FrameOK(p, g)'
  <2>1. FrameOK(p, g)
    BY <1>2, IdleOK
  <2> QED BY <1>1, <1>3, <2>1, FrameStays
<1>5. frame' = [frame EXCEPT ![p] = g]
  BY <1>1, <1>2 DEF Idle
<1> QED BY <1>3, <1>4, <1>5

LEMMA AttemptKeepsIInv ==
  ASSUME IInv, NEW p \in Procs, NEW t \in Tasks, Attempt(p, t)
  PROVE  IInv'
<1>1. TablesOK
  BY TypeParts DEF IInv
<1>2. /\ EnterPhase(p, t, "outcome") /\ Drives(p, t, "provider") /\ Idle(p)
      /\ attempts[t] < MaxAttempts /\ attempts' = [attempts EXCEPT ![t] = @ + 1]
      /\ state' = state /\ head' = head /\ requests' = requests /\ decided' = decided
      /\ human' = human /\ supervisor' = supervisor /\ frame' = frame
      /\ UNCHANGED <<requests, decided, memory>> /\ Rows' = Rows
  BY DEF Attempt, memory, Rows
<1>3. attempts' \in [Tasks -> 0..MaxAttempts]
  BY <1>1, <1>2, ConfigAssumption DEF TablesOK
<1>4. drive' \in [Procs -> {NoDrive} \cup
                    [task : Tasks, phase : {"provider", "outcome", "gates"}]]
  BY <1>1, <1>2 DEF EnterPhase, TablesOK
<1>5. TablesOK' /\ Grows
  BY <1>1, <1>2, <1>3, <1>4 DEF TablesOK, IsAnswers, Grows
<1>6. PICK g : /\ frame' = [frame EXCEPT ![p] = g] /\ FrameOK(p, g)'
               /\ g.todo = <<>> /\ Len(g.todo) = 0
  BY <1>2, <1>5, IdleStays
<1>7. state'[t] # Absent /\ (~Redrive => Alone(p, t))
  BY <1>2, DriveFacts, DriverFacts
<1>8. ~Redrive =>
        /\ state'[t] \in {"PENDING", "RUNNING", "VERIFYING"}
        /\ \A r \in Rows : requests[r].task # t
        /\ \A q \in Procs \ {p} : /\ frame[q].todo # <<>> => frame[q].task # t
                                  /\ drive[q] # NoDrive => drive[q].task # t
  BY <1>2, <1>7 DEF Alone
<1>9. \A u \in Tasks : state'[u] # state[u] => u = t
  BY <1>2
<1>10. \A i \in 1..Len(g.todo) :
         /\ g.todo[i].do \in {"move", "require", "set_head"}
         /\ g.todo[i].do = "move" => g.todo[i].to \in {"RUNNING", "VERIFYING"}
  BY <1>6
<1> QED BY <1>2, <1>5, <1>6, <1>7, <1>8, <1>9, <1>10, DriverKeepsIInv

LEMMA AdoptKeepsIInv ==
  ASSUME IInv, NEW p \in Procs, NEW t \in Tasks, Adopt(p, t)
  PROVE  IInv'
<1>1. TablesOK
  BY TypeParts DEF IInv
<1>2. /\ EnterPhase(p, t, "provider") /\ Idle(p) /\ Redrive /\ state[t] = "RUNNING"
      /\ state' = state /\ head' = head /\ requests' = requests /\ decided' = decided
      /\ attempts' = attempts /\ human' = human /\ supervisor' = supervisor /\ frame' = frame
      /\ UNCHANGED <<requests, decided, memory>> /\ Rows' = Rows
  BY DEF Adopt, memory, database, Rows
<1>3. drive' \in [Procs -> {NoDrive} \cup
                    [task : Tasks, phase : {"provider", "outcome", "gates"}]]
  BY <1>1, <1>2 DEF EnterPhase, TablesOK
<1>4. TablesOK' /\ Grows
  BY <1>1, <1>2, <1>3 DEF TablesOK, IsAnswers, Grows
<1>5. PICK g : /\ frame' = [frame EXCEPT ![p] = g] /\ FrameOK(p, g)'
               /\ g.todo = <<>> /\ Len(g.todo) = 0
  BY <1>2, <1>4, IdleStays
<1>6. state'[t] # Absent /\ \A u \in Tasks : state'[u] # state[u] => u = t
  BY <1>2 DEF Absent
<1> QED BY <1>2, <1>4, <1>5, <1>6, DriverKeepsIInv

\* What a port is told is remembered there and, unless the store fails, recorded.
LEMMA SubmitHumanKeepsIInv ==
  ASSUME IInv, NEW p \in Procs, NEW r \in Rows, NEW d \in HumanKinds, SubmitHuman(p, r, d)
  PROVE  IInv'
<1>1. TablesOK /\ RowsOK /\ MemoryOK
  BY TypeParts DEF IInv
<1>2. /\ Idle(p) /\ drive[p] = NoDrive
      /\ state' = state /\ head' = head /\ attempts' = attempts /\ requests' = requests
      /\ supervisor' = supervisor /\ drive' = drive /\ frame' = frame /\ Rows' = Rows
      /\ human' = [human EXCEPT ![p] = Put(@, r, d)]
      /\ decided \subseteq decided' /\ decided' \subseteq decided \cup {<<r, "HUMAN", d>>}
      /\ ~Faults => <<r, "HUMAN", d>> \in decided'
  BY DEF SubmitHuman, MaySubmit, Records, Rows
<1>3. /\ human'[p] = Put(human[p], r, d) /\ \A q \in Procs \ {p} : human'[q] = human[q]
      /\ human' = [q \in Procs |-> human'[q]]
  BY <1>1, <1>2 DEF MemoryOK
<1>4. /\ DOMAIN human'[p] = DOMAIN human[p] \cup {r}
      /\ \A x \in DOMAIN human'[p] : human'[p][x] = IF x = r THEN d ELSE human[p][x]
  BY <1>3 DEF Put
<1>5. Grows
  BY <1>2 DEF Grows
<1>6. TablesOK'
  <2>1. ASSUME NEW q \in Procs PROVE IsAnswers(human[q], HumanKinds)'
    <3>1. IsAnswers(human[q], HumanKinds) /\ requests' = requests
      BY <1>1, <1>2 DEF TablesOK
    <3>2. CASE q = p
      BY <1>4, <3>1, <3>2 DEF IsAnswers, Rows
    <3>3. CASE q # p
      BY <1>3, <3>1, <3>3 DEF IsAnswers
    <3> QED BY <3>2, <3>3
  <2>2. \A q \in Procs : IsAnswers(supervisor[q], SupervisorKinds)'
    BY <1>1, <1>2 DEF TablesOK, IsAnswers
  <2>3. decided' \subseteq Rows \X {"HUMAN", "SUPERVISOR"} \X (HumanKinds \cup SupervisorKinds)
    BY <1>1, <1>2 DEF TablesOK
  <2> QED BY <1>1, <1>2, <2>1, <2>2, <2>3 DEF TablesOK
<1>7. RowsOK'
  BY <1>1, <1>2 DEF RowsOK, Backed
<1>8. MemoryOK'
  <2>1. ASSUME ~Faults, NEW q \in Procs
        PROVE  /\ \A x \in DOMAIN human'[q] : <<x, "HUMAN", human'[q][x]>> \in decided'
               /\ \A x \in DOMAIN supervisor'[q] :
                    <<x, "SUPERVISOR", supervisor'[q][x]>> \in decided'
    <3>1. CASE q = p
      BY <1>1, <1>2, <1>4, <2>1, <3>1 DEF MemoryOK
    <3>2. CASE q # p
      BY <1>1, <1>2, <1>3, <2>1, <3>2 DEF MemoryOK
    <3> QED BY <3>1, <3>2
  <2> QED BY <1>1, <1>2, <1>3, <2>1 DEF MemoryOK
<1>9. PICK g : /\ frame' = [frame EXCEPT ![p] = g] /\ FrameOK(p, g)'
               /\ g.todo = <<>> /\ Len(g.todo) = 0
  BY <1>2, <1>5, IdleStays
<1>10. DrivesOK'
  <2>1. ActsOn(p, NoTask, g)
    BY <1>2, <1>5, <1>9 DEF ActsOn
  <2> QED BY <2>1, DrivesStay
<1> QED BY <1>2, <1>3, <1>5, <1>6, <1>7, <1>8, <1>9, <1>10, StepKeepsIInv

LEMMA SubmitSupervisorKeepsIInv ==
  ASSUME IInv, NEW p \in Procs, NEW r \in Rows, NEW d \in SupervisorKinds, SubmitSupervisor(p, r, d)
  PROVE  IInv'
<1>1. TablesOK /\ RowsOK /\ MemoryOK
  BY TypeParts DEF IInv
<1>2. /\ Idle(p) /\ drive[p] = NoDrive
      /\ state' = state /\ head' = head /\ attempts' = attempts /\ requests' = requests
      /\ human' = human /\ drive' = drive /\ frame' = frame /\ Rows' = Rows
      /\ supervisor' = [supervisor EXCEPT ![p] = Put(@, r, d)]
      /\ decided \subseteq decided' /\ decided' \subseteq decided \cup {<<r, "SUPERVISOR", d>>}
      /\ ~Faults => <<r, "SUPERVISOR", d>> \in decided'
  BY DEF SubmitSupervisor, MaySubmit, Records, Rows
<1>3. /\ supervisor'[p] = Put(supervisor[p], r, d)
      /\ \A q \in Procs \ {p} : supervisor'[q] = supervisor[q]
      /\ supervisor' = [q \in Procs |-> supervisor'[q]]
  BY <1>1, <1>2 DEF MemoryOK
<1>4. /\ DOMAIN supervisor'[p] = DOMAIN supervisor[p] \cup {r}
      /\ \A x \in DOMAIN supervisor'[p] : supervisor'[p][x] = IF x = r THEN d ELSE supervisor[p][x]
  BY <1>3 DEF Put
<1>5. Grows
  BY <1>2 DEF Grows
<1>6. TablesOK'
  <2>1. \A q \in Procs : IsAnswers(supervisor[q], SupervisorKinds)'
    BY <1>1, <1>2, <1>3, <1>4 DEF TablesOK, IsAnswers, Rows
  <2>2. \A q \in Procs : IsAnswers(human[q], HumanKinds)'
    BY <1>1, <1>2 DEF TablesOK, IsAnswers
  <2>3. decided' \subseteq Rows \X {"HUMAN", "SUPERVISOR"} \X (HumanKinds \cup SupervisorKinds)
    BY <1>1, <1>2 DEF TablesOK
  <2> QED BY <1>1, <1>2, <2>1, <2>2, <2>3 DEF TablesOK
<1>7. RowsOK'
  BY <1>1, <1>2 DEF RowsOK, Backed
<1>8. MemoryOK'
  <2>1. ASSUME ~Faults, NEW q \in Procs
        PROVE  /\ \A x \in DOMAIN supervisor'[q] :
                    <<x, "SUPERVISOR", supervisor'[q][x]>> \in decided'
               /\ \A x \in DOMAIN human'[q] :
                    <<x, "HUMAN", human'[q][x]>> \in decided'
    <3>1. CASE q = p
      BY <1>1, <1>2, <1>4, <2>1, <3>1 DEF MemoryOK
    <3>2. CASE q # p
      BY <1>1, <1>2, <1>3, <2>1, <3>2 DEF MemoryOK
    <3> QED BY <3>1, <3>2
  <2> QED BY <1>1, <1>2, <1>3, <2>1 DEF MemoryOK
<1>9. PICK g : /\ frame' = [frame EXCEPT ![p] = g] /\ FrameOK(p, g)'
               /\ g.todo = <<>> /\ Len(g.todo) = 0
  BY <1>2, <1>5, IdleStays
<1>10. DrivesOK'
  <2>1. ActsOn(p, NoTask, g)
    BY <1>2, <1>5, <1>9 DEF ActsOn
  <2> QED BY <2>1, DrivesStay
<1> QED BY <1>2, <1>3, <1>5, <1>6, <1>7, <1>8, <1>9, <1>10, StepKeepsIInv

-----------------------------------------------------------------------------
LEMMA InitIInv == Init => IInv
<1> SUFFICES ASSUME Init PROVE IInv
  OBVIOUS
<1>1. /\ state = [t \in Tasks |-> Absent] /\ head = [t \in Tasks |-> NoHead]
      /\ attempts = [t \in Tasks |-> 0] /\ requests = <<>> /\ decided = {}
      /\ human = [p \in Procs |-> <<>>] /\ supervisor = [p \in Procs |-> <<>>]
      /\ drive = [p \in Procs |-> NoDrive] /\ frame = [p \in Procs |-> NoFrame]
  BY DEF Init, Ledger!Init, Absent, Ledger!Absent
<1>2. DOMAIN <<>> = {} /\ Len(<<>>) = 0 /\ 1..0 = {} /\ <<>> \in Seq(Request)
  OBVIOUS
<1>3. Rows = {}
  BY <1>1, <1>2 DEF Rows
<1>4. \A p \in Procs : FrameOK(p, frame[p])
  BY <1>1, IdleOK
<1>5. TablesOK
  <2>1. \A p \in Procs : /\ IsAnswers(human[p], HumanKinds)
                          /\ IsAnswers(supervisor[p], SupervisorKinds)
    BY <1>1, <1>2 DEF IsAnswers
  <2> QED BY <1>1, <1>2, <2>1, ConfigAssumption DEF TablesOK, RowState
<1>6. frame \in [Procs -> Frame]
  <2>1. \A p \in Procs : frame[p] \in Frame
    BY <1>4 DEF FrameOK
  <2> QED BY <1>1, <2>1
<1>7. MemoryOK
  BY <1>1, <1>2 DEF MemoryOK
<1> QED BY <1>1, <1>3, <1>4, <1>5, <1>6, <1>7, TypeParts DEF IInv, FramesOK, RowsOK, DrivesOK

LEMMA DriveKeepsIInv ==
  ASSUME IInv, NEW p \in Procs, NEW t \in Tasks, Drive(p, t)
  PROVE  IInv'
<1>1. CASE Begin(p, t) \/ Adopt(p, t) \/ Attempt(p, t)
  BY <1>1, BeginKeepsIInv, AdoptKeepsIInv, AttemptKeepsIInv
<1>2. CASE ProviderDone(p, t)
  <2>1. CASE \E plan \in ProviderEnds : EndDrive(p, t, "outcome", plan)
    BY <2>1, EndDriveKeepsIInv
  <2>2. CASE \E h \in Heads : KeepDriving(p, t, "outcome", CandidateProduced(h), "gates")
    <3>1. PICK h \in Heads : KeepDriving(p, t, "outcome", CandidateProduced(h), "gates")
      BY <2>2
    <3>2. PICK plan : plan = CandidateProduced(h)
      OBVIOUS
    <3> QED BY <3>1, <3>2, KeepDrivingKeepsIInv
  <2> QED BY <1>2, <2>1, <2>2 DEF ProviderDone
<1>3. CASE GatesDone(p, t)
  <2>1. CASE \E plan \in GatesEnd : EndDrive(p, t, "gates", plan)
    BY <2>1, EndDriveKeepsIInv
  <2>2. CASE KeepDriving(p, t, "gates", GatesRetry, "provider")
    <3>1. PICK plan : plan = GatesRetry /\ plan = <<Move("RUNNING")>>
      BY DEF GatesRetry
    <3> QED BY <2>2, <3>1, KeepDrivingKeepsIInv
  <2> QED BY <1>3, <2>1, <2>2 DEF GatesDone
<1> QED BY <1>1, <1>2, <1>3 DEF Drive

LEMMA ContinueKeepsIInv ==
  ASSUME IInv, NEW p \in Procs, Continue(p)
  PROVE  IInv'
BY MoveReadKeepsIInv, MoveCommitKeepsIInv, RequireReadKeepsIInv, SetHeadCommitKeepsIInv,
   HumanRequiredReadKeepsIInv, OpenReadKeepsIInv, OpenInsertKeepsIInv, ConsultReadKeepsIInv,
   CanApplyReadKeepsIInv, ClaimCommitKeepsIInv, ClaimRefusedKeepsIInv, RaiseKeepsIInv
   DEF Continue

LEMMA NextIInv == IInv /\ [Next]_vars => IInv'
<1> SUFFICES ASSUME IInv, [Next]_vars PROVE IInv'
  OBVIOUS
<1>1. CASE UNCHANGED vars
  <2>1. /\ state' = state /\ head' = head /\ attempts' = attempts /\ requests' = requests
        /\ decided' = decided /\ human' = human /\ supervisor' = supervisor
        /\ drive' = drive /\ frame' = frame /\ Rows' = Rows
    BY <1>1 DEF vars, database, memory, Rows
  <2>2. TypeOK'
    BY <2>1 DEF IInv, TypeOK, IsAnswers
  <2>3. FramesOK'
    BY <2>1 DEF IInv, FramesOK, FrameOK, CallOK, Backed, Granted, Answer
  <2>4. RowsOK' /\ MemoryOK' /\ DrivesOK'
    BY <2>1 DEF IInv, RowsOK, Backed, MemoryOK, DrivesOK, Alone
  <2> QED BY <2>2, <2>3, <2>4 DEF IInv
<1>2. ASSUME NEW p \in Procs, NEW t \in Tasks, Drive(p, t) \/ OpenForeign(p, t)
      PROVE  IInv'
  BY <1>2, DriveKeepsIInv, OpenForeignKeepsIInv
<1>3. ASSUME NEW p \in Procs, NEW r \in Rows, Submit(p, r)
      PROVE  IInv'
  BY <1>3, SubmitHumanKeepsIInv, SubmitSupervisorKeepsIInv DEF Submit
<1>4. ASSUME NEW p \in Procs, Sync(p)
      PROVE  IInv'
  BY <1>4, StartSyncKeepsIInv DEF Sync
<1>5. ASSUME NEW p \in Procs, Continue(p) \/ Crash(p)
      PROVE  IInv'
  BY <1>5, ContinueKeepsIInv, CrashKeepsIInv
<1> QED BY <1>1, <1>2, <1>3, <1>4, <1>5 DEF Next, Rows

LEMMA AlwaysIInv == Spec => []IInv
BY InitIInv, NextIInv, PTL DEF Spec

\* Only a task that begins and a transition that commits change a state.
LEMMA StateSteps ==
  ASSUME Next
  PROVE  \/ \E p \in Procs, u \in Tasks : Begin(p, u)
         \/ \E p \in Procs : MoveCommit(p)
         \/ state' = state
<1>1. ASSUME NEW p \in Procs, NEW u \in Tasks, Drive(p, u)
      PROVE  Begin(p, u) \/ state' = state
  BY <1>1 DEF Drive, Adopt, Attempt, ProviderDone, GatesDone, EndDrive, KeepDriving, database
<1>2. ASSUME NEW p \in Procs, Continue(p)
      PROVE  MoveCommit(p) \/ state' = state
  BY <1>2 DEF Continue, MoveRead, RequireRead, SetHeadCommit, Ledger!SetHead,
     HumanRequiredRead, OpenRead, OpenInsert, ConsultRead, CanApplyRead, ClaimCommit,
     ClaimRefused, Raise, database
<1>3. ASSUME NEW p \in Procs, NEW u, NEW r, OpenForeign(p, u) \/ Submit(p, r)
      PROVE  state' = state
  BY <1>3 DEF OpenForeign, Submit, SubmitHuman, SubmitSupervisor, database
<1>4. ASSUME NEW p \in Procs, Sync(p) \/ Crash(p)
      PROVE  state' = state
  BY <1>4 DEF Sync, StartSync, Crash, database
<1> QED BY <1>1, <1>2, <1>3, <1>4 DEF Next

-----------------------------------------------------------------------------
\* Every frame a process can be left in, by any interleaving, failure or crash,
\* is a plan of store calls on a task, a request and a verdict.
THEOREM ManagerTypeCorrect == Spec => []TypeOK
<1>1. IInv => TypeOK
  BY DEF IInv
<1> QED BY <1>1, AlwaysIInv, PTL

\* What supervision_requests says was applied, supervision_decisions explains,
\* however many processes sync, as long as no store call fails.
THEOREM VerdictOnRecord ==
  ASSUME Faults = FALSE
  PROVE  Spec => []VerdictIsBacked
<1>1. IInv => VerdictIsBacked
  BY DEF IInv, RowsOK, Backed, VerdictIsBacked, Rows
<1> QED BY <1>1, AlwaysIInv, PTL

\* A task that supervision holds runs again only on an answer of somebody
\* policy empowers, given to the very process that moves it, for any number
\* of processes and with crashes, when nobody takes up a RUNNING task.
THEOREM ResumeOnlyOnAuthority ==
  ASSUME Redrive = FALSE
  PROVE  Spec => ResumeIsAuthorised
<1> DEFINE Held(t) == state[t] \in {"READY", "BLOCKED", "WAITING_HUMAN"}
           Granting(t) == \E p \in Syncers, r \in RequestsOf(t) : Granted(p, r)
           Resumes == \A t \in Tasks : Held(t) /\ state'[t] = "RUNNING" => Granting(t)
<1>1. IInv /\ Next => Resumes
  <2> SUFFICES ASSUME IInv, Next, NEW t \in Tasks, Held(t), state'[t] = "RUNNING"
               PROVE  Granting(t)
    OBVIOUS
  <2>1. TablesOK
    BY TypeParts DEF IInv
  <2>2. state'[t] # state[t]
    OBVIOUS
  <2>3. ASSUME NEW p \in Procs, NEW u \in Tasks, Begin(p, u)
        PROVE  FALSE
    <3>1. state[u] = Absent /\ state' = [state EXCEPT ![u] = "PENDING"]
      BY <2>3 DEF Begin, Ledger!Create, Absent, Ledger!Absent
    <3> QED BY <2>1, <3>1 DEF TablesOK, Absent
  <2>4. ASSUME NEW p \in Procs, MoveCommit(p)
        PROVE  Granting(t)
    <3> DEFINE f == frame[p]
    <3>1. FrameOK(p, f) /\ frame \in [Procs -> Frame]
      BY TypeParts DEF IInv, FramesOK
    <3>2. f.task \in Tasks /\ Arg(p).do = "move" /\ CallOK(p, f, Arg(p))
      BY <2>4, <3>1, HeadFacts DEF MoveCommit
    <3>3. state' = [state EXCEPT ![f.task] = Arg(p).to]
      BY <2>4 DEF MoveCommit, Ledger!Move
    <3>4. t = f.task /\ Arg(p).to = "RUNNING"
      BY <2>1, <2>2, <3>2, <3>3 DEF TablesOK
    <3>5. CASE f.request = 0
      <4>1. drive[p] = [task |-> t, phase |-> "provider"]
        BY <3>2, <3>4, <3>5 DEF CallOK
      <4>2. drive[p] # NoDrive /\ drive[p].task = t
        BY <4>1, DriveFacts DEF Drives
      <4> QED BY <4>2, DriverFacts DEF Alone
    <3>6. CASE f.request # 0
      <4>1. f.verdict \in {"CONTINUE", "HUMAN_RESUME"}
        BY <3>2, <3>4, <3>6 DEF CallOK
      <4>2. /\ p \in Syncers /\ Granted(p, f.request) /\ f.request \in Rows
            /\ requests[f.request].task = t
        BY <3>1, <3>4, <3>6, <4>1 DEF FrameOK
      <4> QED BY <4>2 DEF RequestsOf, Rows
    <3> QED BY <3>5, <3>6
  <2>5. \/ \E p \in Procs, u \in Tasks : Begin(p, u)
        \/ \E p \in Procs : MoveCommit(p)
        \/ state' = state
    BY StateSteps
  <2> QED BY <2>2, <2>3, <2>4, <2>5
<1>2. UNCHANGED vars => Resumes
  BY DEF vars, database
<1>3. IInv /\ [Next]_vars => [Resumes]_vars
  BY <1>1, <1>2
<1>4. Spec => [][Resumes]_vars
  BY <1>3, AlwaysIInv, PTL DEF Spec
<1> QED BY <1>4 DEF ResumeIsAuthorised
=============================================================================
