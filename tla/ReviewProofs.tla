---------------------------- MODULE ReviewProofs ----------------------------
(***************************************************************************)
(* Review, for any tasks, intakes, files and commits: what the gates let   *)
(* through has been earned.                                                *)
(***************************************************************************)
EXTENDS Review, TLAPS

(***************************************************************************)
(* A row of evidence says of its commits what is so: how pytest ended, the *)
(* surface of their diff, and its report under the budget it names.        *)
(***************************************************************************)
EvidenceOK ==
  \A e \in evidence :
    /\ e.action = "pytest" /\ e.exit = "0" => e.head \in Passing
    /\ e.status = Surface(Changed(e.base, e.head), e.justified)
    /\ e.violations = Violations(e.scope, Changed(e.base, e.head),
                                 ChangedLoc(e.base, e.head), Unmeasurable(e.base, e.head))
    /\ LET r == row[e.task] IN
       /\ r # None /\ e.base = r.base
       /\ e.goal = r.intake.goal /\ e.acceptance = r.intake.acceptance
       /\ e.scope = r.intake.scope

IInv == TypeOK /\ EvidenceOK

(***************************************************************************)
(* A report without violations is a change within the budget, and only     *)
(* such a change has one.                                                  *)
(***************************************************************************)
LEMMA WithinHasNone ==
  ASSUME NEW scope, NEW base, NEW head,
         scope.allowed = None \/ Changed(base, head) \subseteq scope.allowed,
         ~Exceeds(Cardinality(Changed(base, head)), scope.files),
         scope.loc = None \/ Changed(base, head) \cap Binary = {},
         ~Exceeds(ChangedLoc(base, head), scope.loc)
  PROVE  Violations(scope, Changed(base, head), ChangedLoc(base, head),
                    Unmeasurable(base, head)) = {}
PROOF
<1>1. (IF scope.allowed = None THEN {} ELSE Changed(base, head) \ scope.allowed) = {}
  OBVIOUS
<1>2. (IF scope.loc = None THEN {} ELSE Unmeasurable(base, head)) = {}
  BY DEF Unmeasurable
<1>3. QED
  BY <1>1, <1>2 DEF Violations

LEMMA NoViolations ==
  ASSUME NEW scope, NEW base, NEW head,
         Violations(scope, Changed(base, head), ChangedLoc(base, head),
                    Unmeasurable(base, head)) = {}
  PROVE  /\ scope.allowed = None \/ Changed(base, head) \subseteq scope.allowed
         /\ ~Exceeds(Cardinality(Changed(base, head)), scope.files)
         /\ scope.loc = None \/ Changed(base, head) \cap Binary = {}
         /\ ~Exceeds(ChangedLoc(base, head), scope.loc)
PROOF
<1> DEFINE paths == Changed(base, head)
           loc == ChangedLoc(base, head)
           outside == IF scope.allowed = None THEN {} ELSE paths \ scope.allowed
           uncounted == IF scope.loc = None THEN {} ELSE Unmeasurable(base, head)
<1>1. /\ {<<"path_not_allowed", p>> : p \in outside} = {}
      /\ {<<"loc_unmeasurable", p>> : p \in uncounted} = {}
      /\ (IF Exceeds(Cardinality(paths), scope.files) THEN {<<"max_files_exceeded">>} ELSE {}) = {}
      /\ (IF Exceeds(loc, scope.loc) THEN {<<"max_loc_exceeded">>} ELSE {}) = {}
  BY DEF Violations
<1> HIDE DEF paths, loc, outside, uncounted
<1>2. outside = {}
  BY <1>1
<1>3. uncounted = {}
  BY <1>1
<1>4. ~Exceeds(Cardinality(paths), scope.files) /\ ~Exceeds(loc, scope.loc)
  BY <1>1
<1>5. QED
  BY <1>2, <1>3, <1>4 DEF outside, uncounted, paths, loc, Unmeasurable

LEMMA InitIInv == Init => IInv
PROOF
  BY DEF Init, IInv, TypeOK, EvidenceOK

LEMMA CreatePreserves ==
  ASSUME IInv, NEW t \in Tasks, NEW intake \in Intakes, NEW base \in Bases,
         Create(t, intake, base)
  PROVE  IInv'
PROOF
<1> DEFINE new == [state |-> "RUNNING", intake |-> intake, base |-> base, head |-> None]
<1>1. new \in TaskRow
  BY DEF TaskRow
<1>2. QED
  BY <1>1 DEF IInv, TypeOK, EvidenceOK, Create

LEMMA CandidatePreserves ==
  ASSUME IInv, NEW t \in Tasks, NEW head \in Trees, Candidate(t, head)
  PROVE  IInv'
PROOF
<1> DEFINE new == [row[t] EXCEPT !.state = "VERIFYING", !.head = head]
<1>1. row[t] \in TaskRow
  BY DEF IInv, TypeOK, Candidate
<1>2. new \in TaskRow /\ new.head # None
  BY <1>1, TreesAssumption DEF TaskRow
<1>3. row' = [row EXCEPT ![t] = new]
  BY DEF Candidate, IInv, TypeOK
<1>4. \A s \in Tasks : row[s] # None =>
        row'[s] # None /\ row'[s].base = row[s].base /\ row'[s].intake = row[s].intake
  <2>1. new # None /\ new.base = row[t].base /\ new.intake = row[t].intake
    BY <1>1, <1>2, NoneIsNoRow DEF TaskRow
  <2> HIDE DEF new
  <2>2. QED
    BY <2>1, <1>3 DEF IInv, TypeOK
<1> HIDE DEF new
<1>5. TypeOK'
  BY <1>2, <1>3 DEF IInv, TypeOK, Candidate
<1>6. EvidenceOK'
  <2> SUFFICES ASSUME NEW e \in evidence
               PROVE  row'[e.task] # None /\ row'[e.task].base = row[e.task].base
                      /\ row'[e.task].intake = row[e.task].intake
    BY DEF IInv, EvidenceOK, Candidate
  <2>1. QED
    BY <1>4 DEF IInv, TypeOK, EvidenceOK
<1>7. QED
  BY <1>5, <1>6 DEF IInv

LEMMA RetryPreserves ==
  ASSUME IInv, NEW t \in Tasks, Retry(t)
  PROVE  IInv'
PROOF
<1> DEFINE new == [row[t] EXCEPT !.state = "RUNNING"]
<1>1. row[t] \in TaskRow
  BY DEF IInv, TypeOK, Retry
<1>2. new \in TaskRow /\ new.state = "RUNNING"
  BY <1>1 DEF TaskRow
<1>3. row' = [row EXCEPT ![t] = new]
  BY DEF Retry, IInv, TypeOK
<1>4. \A s \in Tasks : row[s] # None =>
        row'[s] # None /\ row'[s].base = row[s].base /\ row'[s].intake = row[s].intake
  BY <1>1, <1>2, <1>3, NoneIsNoRow DEF IInv, TypeOK, Retry
<1> HIDE DEF new
<1>5. TypeOK'
  BY <1>2, <1>3 DEF IInv, TypeOK, Retry
<1>6. EvidenceOK'
  <2> SUFFICES ASSUME NEW e \in evidence
               PROVE  row'[e.task] # None /\ row'[e.task].base = row[e.task].base
                      /\ row'[e.task].intake = row[e.task].intake
    BY DEF IInv, EvidenceOK, Retry
  <2>1. QED
    BY <1>4 DEF IInv, TypeOK, EvidenceOK
<1>7. QED
  BY <1>5, <1>6 DEF IInv

LEMMA VerifyPreserves ==
  ASSUME IInv, NEW t \in Tasks, NEW action \in Actions, NEW justified \in BOOLEAN,
         Verify(t, action, justified)
  PROVE  IInv'
PROOF
<1>1. PICK verified \in {row[t].head, None}, exit \in ExitCodes(action, row[t].head) :
        evidence' = evidence \cup {FromRunner(t, verified, action, exit, justified)}
  BY DEF Verify
<1> DEFINE e == FromRunner(t, verified, action, exit, justified)
<1>2. row[t] \in TaskRow /\ row[t].head \in Trees /\ row[t].base \in Bases
  BY DEF IInv, TypeOK, Verify, TaskRow
<1>3. /\ e.task = t /\ e.base = row[t].base /\ e.head = row[t].head
      /\ e.verified = verified /\ e.action = action /\ e.exit = exit
      /\ e.justified = justified /\ e.scope = row[t].intake.scope
      /\ e.status = Surface(Changed(row[t].base, row[t].head), justified)
      /\ e.violations = Violations(row[t].intake.scope, Changed(row[t].base, row[t].head),
           ChangedLoc(row[t].base, row[t].head), Unmeasurable(row[t].base, row[t].head))
  BY DEF FromRunner
<1>4. exit \in {"0", "1", None} /\ (action = "pytest" /\ exit = "0" => row[t].head \in Passing)
  <2>1. CASE action = "pytest" /\ row[t].head \in Passing
    BY <2>1 DEF ExitCodes
  <2>2. CASE action = "pytest" /\ row[t].head \notin Passing
    <3>1. ExitCodes(action, row[t].head) = {None, "1"}
      BY <2>2 DEF ExitCodes
    <3>2. QED
      BY <3>1, TreesAssumption
  <2>3. CASE action # "pytest"
    BY <2>3 DEF ExitCodes
  <2>4. QED
    BY <2>1, <2>2, <2>3
<1>5. Surface(Changed(row[t].base, row[t].head), justified)
        \in {"CLEAN", "JUSTIFIED", "REQUIRES_JUSTIFICATION"}
  BY DEF Surface
<1> HIDE DEF e
<1>6. TypeOK'
  BY <1>1, <1>2, <1>3, <1>4, <1>5 DEF IInv, TypeOK, Verify, e
<1>7. EvidenceOK'
  <2>1. /\ row' = row /\ row[t] # None
        /\ e.goal = row[t].intake.goal /\ e.acceptance = row[t].intake.acceptance
    BY DEF Verify, FromRunner, e
  <2>2. evidence' = evidence \cup {e}
    BY <1>1 DEF e
  <2>3. QED
    BY <2>1, <2>2, <1>3, <1>4 DEF IInv, EvidenceOK
<1>8. QED
  BY <1>6, <1>7 DEF IInv

LEMMA NextPreserves == IInv /\ [Next]_vars => IInv'
PROOF
<1> SUFFICES ASSUME IInv, [Next]_vars PROVE IInv'
  OBVIOUS
<1>1. CASE Next
  BY <1>1, CreatePreserves, CandidatePreserves, RetryPreserves, VerifyPreserves DEF Next
<1>2. CASE UNCHANGED vars
  BY <1>2 DEF vars, IInv, TypeOK, EvidenceOK
<1>3. QED
  BY <1>1, <1>2

(***************************************************************************)
(* What readiness demands of the record, read off the list of failures.    *)
(***************************************************************************)
LEMMA ReadyRequires ==
  ASSUME NEW t \in Tasks, NEW i \in Intakes, NEW e, NEW c, Ready(t, i, e, c)
  PROVE  /\ row[t] # None /\ row[t].state = "VERIFYING"
         /\ row[t].intake.goal = i.goal /\ row[t].intake.acceptance = i.acceptance
         /\ row[t].intake.constraints = i.constraints /\ row[t].intake.scope = i.scope
         /\ e.scope = i.scope /\ e.violations = {}
         /\ e.task = t /\ e.base = row[t].base /\ e.head = row[t].head
         /\ e.action = "pytest" /\ e.exit = "0" /\ e.status # "REQUIRES_JUSTIFICATION"
         /\ c # None => Policy!Decide(c) \notin {"HUMAN", "DENY"}
PROOF
<1> DEFINE r == row[t]
           fails == Checks(r, t, i, e, c)
<1>1. r # None /\ \A f \in DOMAIN fails : ~fails[f]
  BY DEF Ready, Failures
<1>2. /\ ~fails.task_not_verifying /\ ~fails.goal_hash_mismatch
      /\ ~fails.acceptance_hash_mismatch /\ ~fails.constraints_hash_mismatch
      /\ ~fails.scope_budget_hash_mismatch /\ ~fails.scope
      /\ ~fails.evidence_task_mismatch /\ ~fails.base_sha_mismatch
      /\ ~fails.head_sha_mismatch /\ ~fails.runner_action_not_allowed
      /\ ~fails.trusted_runner_failed /\ ~fails.surface_unjustified
      /\ ~fails.human_gate /\ ~fails.policy_denied
  BY <1>1 DEF Checks
<1>3. QED
  BY <1>1, <1>2 DEF Checks

LEMMA Earned == IInv => ReadyIsEarned
PROOF
<1> SUFFICES ASSUME IInv, NEW t \in Tasks, NEW i \in Intakes, NEW e \in evidence,
                    NEW c \in Policy!Capabilities \cup {None}, Ready(t, i, e, c)
             PROVE  /\ i = row[t].intake /\ e.task = t
                    /\ row[t].head \in Passing /\ WithinBudget(row[t])
                    /\ Touched(row[t]) \cap Sensitive # {} => e.justified
                    /\ c # None => Policy!Decide(c) = "ALLOW"
  BY DEF ReadyIsEarned
<1> DEFINE r == row[t]
<1>1. /\ r # None /\ e.scope = i.scope /\ e.violations = {} /\ e.task = t
      /\ e.base = r.base /\ e.head = r.head /\ e.action = "pytest" /\ e.exit = "0"
      /\ e.status # "REQUIRES_JUSTIFICATION"
      /\ c # None => Policy!Decide(c) \notin {"HUMAN", "DENY"}
  BY ReadyRequires
<1>2. r \in TaskRow /\ r.base \in [Files -> Nat] /\ r.head \in [Files -> Nat]
  BY <1>1, TreesAssumption DEF IInv, TypeOK, TaskRow
<1>3. i = r.intake
  BY <1>2, ReadyRequires, IntakesAssumption DEF TaskRow
<1>4. r.head \in Passing
  BY <1>1 DEF IInv, EvidenceOK
<1>5. Touched(r) = Changed(r.base, r.head)
  BY DEF Touched, Changed
<1>6. WithinBudget(r)
  <2>1. Violations(i.scope, Changed(r.base, r.head), ChangedLoc(r.base, r.head),
                   Unmeasurable(r.base, r.head)) = {}
    BY <1>1 DEF IInv, EvidenceOK
  <2>2. /\ i.scope.allowed = None \/ Touched(r) \subseteq i.scope.allowed
        /\ ~Exceeds(Cardinality(Touched(r)), i.scope.files)
        /\ i.scope.loc = None \/ Touched(r) \cap Binary = {}
        /\ ~Exceeds(ChangedLoc(r.base, r.head), i.scope.loc)
    BY <2>1, <1>5, NoViolations
  <2>3. QED
    BY <2>2, <1>3 DEF WithinBudget, Exceeds
<1>7. Touched(r) \cap Sensitive # {} => e.justified
  BY <1>1, <1>5 DEF IInv, EvidenceOK, Surface
<1>8. c # None => Policy!Decide(c) = "ALLOW"
  BY <1>1 DEF Policy!Decide
<1>9. QED
  BY <1>1, <1>3, <1>4, <1>6, <1>7, <1>8

LEMMA Unblocked == IInv => NothingElseBlocks
PROOF
<1> SUFFICES ASSUME IInv, NEW t \in Tasks, NEW e \in evidence,
                    row[t] # None, row[t].state = "VERIFYING", WithinBudget(row[t]),
                    Touched(row[t]) \cap Sensitive = {} \/ e.justified,
                    e.task = t, e.head = row[t].head, e.verified = row[t].head,
                    e.action = "pytest", e.exit = "0"
             PROVE  Ready(t, row[t].intake, e, None)
  BY DEF NothingElseBlocks
<1> DEFINE r == row[t]
           fails == Checks(r, t, r.intake, e, None)
<1>1. r.head # None /\ Touched(r) = Changed(r.base, r.head)
  BY DEF IInv, TypeOK, Touched, Changed
<1>2. /\ e.base = r.base /\ e.goal = r.intake.goal /\ e.acceptance = r.intake.acceptance
      /\ e.scope = r.intake.scope
  BY DEF IInv, EvidenceOK
<1>3. e.violations = {}
  <2>1. /\ r.intake.scope.allowed = None \/ Changed(r.base, r.head) \subseteq r.intake.scope.allowed
        /\ ~Exceeds(Cardinality(Changed(r.base, r.head)), r.intake.scope.files)
        /\ r.intake.scope.loc = None \/ Changed(r.base, r.head) \cap Binary = {}
        /\ ~Exceeds(ChangedLoc(r.base, r.head), r.intake.scope.loc)
    BY <1>1 DEF WithinBudget, Exceeds
  <2>2. QED
    BY <2>1, <1>2, WithinHasNone DEF IInv, EvidenceOK
<1>4. e.status # "REQUIRES_JUSTIFICATION"
  BY <1>1, <1>2 DEF IInv, EvidenceOK, Surface
<1>5. \A f \in DOMAIN fails : ~fails[f]
  <2>1. /\ ~fails.task_not_verifying /\ ~fails.goal_hash_mismatch
        /\ ~fails.acceptance_hash_mismatch /\ ~fails.constraints_hash_mismatch
        /\ ~fails.scope_budget_hash_mismatch /\ ~fails.scope
        /\ ~fails.evidence_task_mismatch /\ ~fails.base_sha_mismatch
    BY <1>2, <1>3 DEF Checks
  <2>2. /\ ~fails.head_sha_mismatch /\ ~fails.verification_head_mismatch
        /\ ~fails.runner_action_not_allowed /\ ~fails.trusted_runner_timeout
        /\ ~fails.trusted_runner_failed /\ ~fails.surface_unjustified
        /\ ~fails.human_gate /\ ~fails.policy_denied
    BY <1>1, <1>4, TreesAssumption DEF Checks
  <2>3. DOMAIN fails =
          {"task_not_verifying", "goal_hash_mismatch", "acceptance_hash_mismatch",
           "constraints_hash_mismatch", "scope_budget_hash_mismatch", "scope",
           "evidence_task_mismatch", "base_sha_mismatch", "head_sha_mismatch",
           "verification_head_mismatch", "runner_action_not_allowed",
           "trusted_runner_timeout", "trusted_runner_failed", "surface_unjustified",
           "human_gate", "policy_denied"}
    BY DEF Checks
  <2> HIDE DEF fails
  <2>4. QED
    BY <2>1, <2>2, <2>3
<1>6. QED
  BY <1>5 DEF Ready, Failures

LEMMA Invariant == Spec => []IInv
PROOF
  BY InitIInv, NextPreserves, PTL DEF Spec

(***************************************************************************)
(* Rows and evidence are well typed.                                       *)
(***************************************************************************)
THEOREM ReviewTypeCorrect == Spec => []TypeOK
PROOF
<1>1. IInv => TypeOK
  BY DEF IInv
<1>2. QED
  BY <1>1, Invariant, PTL

(***************************************************************************)
(* Whatever evidence, intake and capability GateEngine.evaluate is given,  *)
(* a task it finds ready has earned it, for any commits and budgets.       *)
(***************************************************************************)
THEOREM ReadinessEarned == Spec => []ReadyIsEarned
PROOF
  BY Earned, Invariant, PTL

(***************************************************************************)
(* The gates block nothing but what they are there for, for any commits    *)
(* and budgets.                                                            *)
(***************************************************************************)
THEOREM NothingElseHeldBack == Spec => []NothingElseBlocks
PROOF
  BY Unblocked, Invariant, PTL
=============================================================================
