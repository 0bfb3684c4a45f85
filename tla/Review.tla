------------------------------- MODULE Review -------------------------------
(***************************************************************************)
(* What makes a candidate reviewable: the diff of a commit against its     *)
(* base, the scope report and the verification surface drawn from it, the  *)
(* evidence the trusted runner leaves, and GateEngine.evaluate, which any  *)
(* caller may hand any row of evidence.                                    *)
(*                                                                         *)
(* A commit is its tree: the version of every file.  Hashes are injective, *)
(* so the hash of a thing is the thing.                                    *)
(***************************************************************************)
EXTENDS Naturals, FiniteSets, FiniteSetsExt

CONSTANTS Tasks,
          Intakes,      \* records: goal, acceptance, constraints, scope
          Files,
          Binary,       \* files for which --numstat prints "-"
          Sensitive,    \* tests, CI workflows and build configuration that
                        \* _is_sensitive knows by the name git prints
          Trees,        \* commits: Trees \subseteq [Files -> Nat], a version
                        \* adds a line to the one before
          Bases,        \* those a task may start from
          Passing,      \* trees on which pytest exits 0
          None,         \* Python's None
          MaxEvidence   \* bound on the evidence table

ASSUME FilesAssumption ==
  Binary \subseteq Files /\ Sensitive \subseteq Files
ASSUME TreesAssumption ==
  /\ Trees \subseteq [Files -> Nat] /\ Bases \subseteq Trees /\ Passing \subseteq Trees
  /\ None \notin Trees /\ None \notin {"0", "1"}
\* an intake is its four parts
ASSUME IntakesAssumption ==
  \A i, j \in Intakes :
    /\ i.goal = j.goal /\ i.acceptance = j.acceptance
    /\ i.constraints = j.constraints /\ i.scope = j.scope
    => i = j
ASSUME BoundAssumption == MaxEvidence \in Nat

VARIABLES
  row,          \* row[t]: the tasks row, or None
  evidence      \* the evidence table
vars == <<row, evidence>>

Policy == INSTANCE Governance WITH NoVerdict <- None

-----------------------------------------------------------------------------
(***************************************************************************)
(* The diff of two commits, without renames: a rename removes one path and *)
(* adds another.                                                           *)
(***************************************************************************)
Changed(base, head) == {f \in Files : base[f] # head[f]}
LinesOf(base, head, f) ==
  IF base[f] < head[f] THEN head[f] - base[f] ELSE base[f] - head[f]

\* _diff_stats: lines added and deleted, and the paths that have no count
Unmeasurable(base, head) == Changed(base, head) \cap Binary
ChangedLoc(base, head) ==
  MapThenSumSet(LAMBDA f : LinesOf(base, head, f), Changed(base, head) \ Binary)

\* mutant: a limit of 0 reads as no limit
ExceedsTruthy(n, limit) == limit \notin {None, 0} /\ n > limit
Exceeds(n, limit) == limit # None /\ n > limit

\* evaluate_scope: scope.allowed holds the paths whose names, as git prints
\* them, its patterns match, and is None where there are no patterns;
\* scope.files and scope.loc may be None
Violations(scope, paths, loc, unmeasurable) ==
  {<<"path_not_allowed", p>> : p \in IF scope.allowed = None THEN {} ELSE paths \ scope.allowed}
  \cup {<<"loc_unmeasurable", p>> : p \in IF scope.loc = None THEN {} ELSE unmeasurable}
  \cup (IF Exceeds(Cardinality(paths), scope.files) THEN {<<"max_files_exceeded">>} ELSE {})
  \cup (IF Exceeds(loc, scope.loc) THEN {<<"max_loc_exceeded">>} ELSE {})

\* mutant: the justification is not looked at
SurfaceUnjustified(paths, justified) ==
  IF paths \cap Sensitive = {} THEN "CLEAN" ELSE "REQUIRES_JUSTIFICATION"
\* inspect_verification_surface
Surface(paths, justified) ==
  IF paths \cap Sensitive = {} THEN "CLEAN"
  ELSE IF justified THEN "JUSTIFIED" ELSE "REQUIRES_JUSTIFICATION"

(***************************************************************************)
(* TrustedRunner.run: the allowlist and what each action may end with; an  *)
(* action that ran into its deadline has no exit code.                     *)
(***************************************************************************)
Actions == {"git_status", "git_diff", "git_rev_parse", "pytest"}
ExitCodes(action, tree) ==
  {None} \cup CASE action = "pytest" /\ tree \in Passing -> {"0"}
                [] action = "pytest" /\ tree \notin Passing -> {"1"}
                [] OTHER -> {"0", "1"}

(***************************************************************************)
(* GateEngine.evaluate.  from_runner always fills in the output hashes and *)
(* a surface status of the enumeration, so two of its failures cannot be.  *)
(* The scope report is the one computed with the evidence.                 *)
(***************************************************************************)
Checks(r, t, expected, e, capability) ==
  [task_not_verifying         |-> r.state # "VERIFYING",
   goal_hash_mismatch         |-> r.intake.goal # expected.goal \/ e.goal # expected.goal,
   acceptance_hash_mismatch   |-> r.intake.acceptance # expected.acceptance
                                    \/ e.acceptance # expected.acceptance,
   constraints_hash_mismatch  |-> r.intake.constraints # expected.constraints,
   scope_budget_hash_mismatch |-> r.intake.scope # expected.scope \/ e.scope # expected.scope,
   scope                      |-> e.violations # {},
   evidence_task_mismatch     |-> e.task # t,
   base_sha_mismatch          |-> e.base # r.base,
   head_sha_mismatch          |-> r.head = None \/ e.head # r.head,
   verification_head_mismatch |-> e.verified # e.head,
   runner_action_not_allowed  |-> e.action # "pytest",
   trusted_runner_timeout     |-> e.exit = None,
   trusted_runner_failed      |-> e.exit # "0",
   surface_unjustified        |-> e.status = "REQUIRES_JUSTIFICATION",
   human_gate                 |-> capability # None /\ Policy!Decide(capability) = "HUMAN",
   policy_denied              |-> capability # None /\ Policy!Decide(capability) = "DENY"]
Failures(r, t, expected, e, capability) ==
  LET fails == Checks(r, t, expected, e, capability) IN {f \in DOMAIN fails : fails[f]}

Ready(t, expected, e, capability) ==
  row[t] # None /\ Failures(row[t], t, expected, e, capability) = {}

-----------------------------------------------------------------------------
Init == row = [t \in Tasks |-> None] /\ evidence = {}

\* create_task, and the move to RUNNING
Create(t, intake, base) ==
  /\ row[t] = None
  /\ row' = [row EXCEPT ![t] = [state |-> "RUNNING", intake |-> intake,
                                base |-> base, head |-> None]]
  /\ UNCHANGED evidence

\* mutant: the candidate is not stored
CandidateUnset(t, head) ==
  /\ row[t] # None /\ row[t].state = "RUNNING" /\ head # row[t].base
  /\ row' = [row EXCEPT ![t].state = "VERIFYING"]
  /\ UNCHANGED evidence
\* candidate_produced
Candidate(t, head) ==
  /\ row[t] # None /\ row[t].state = "RUNNING" /\ head # row[t].base
  /\ row' = [row EXCEPT ![t].state = "VERIFYING", ![t].head = head]
  /\ UNCHANGED evidence

\* gates_failed(retrying=True)
Retry(t) ==
  /\ row[t] # None /\ row[t].state = "VERIFYING"
  /\ row' = [row EXCEPT ![t].state = "RUNNING"]
  /\ UNCHANGED evidence

\* EvidenceEnvelope.from_runner: of the intake, the candidate and its base,
\* the commit git_rev_parse found in the checkout, the surface and the run
FromRunner(t, verified, action, exit, justified) ==
  LET r == row[t]
      paths == Changed(r.base, r.head)
  IN  [task |-> t, goal |-> r.intake.goal, acceptance |-> r.intake.acceptance,
       scope |-> r.intake.scope, base |-> r.base, head |-> r.head,
       verified |-> verified, action |-> action, exit |-> exit,
       status |-> Surface(paths, justified), justified |-> justified,
       violations |-> Violations(r.intake.scope, paths, ChangedLoc(r.base, r.head),
                                 Unmeasurable(r.base, r.head))]

\* a detached checkout of the candidate; git_rev_parse may fail
Verify(t, action, justified) ==
  /\ row[t] # None /\ row[t].state = "VERIFYING" /\ Cardinality(evidence) < MaxEvidence
  /\ \E verified \in {row[t].head, None}, exit \in ExitCodes(action, row[t].head) :
       evidence' = evidence \cup {FromRunner(t, verified, action, exit, justified)}
  /\ UNCHANGED row

Next ==
  \E t \in Tasks :
    \/ \E intake \in Intakes, base \in Bases : Create(t, intake, base)
    \/ \E head \in Trees : Candidate(t, head)
    \/ Retry(t)
    \/ \E action \in Actions, justified \in BOOLEAN : Verify(t, action, justified)

Spec == Init /\ [][Next]_vars

-----------------------------------------------------------------------------
TaskRow ==
  [state : {"RUNNING", "VERIFYING"}, intake : Intakes, base : Bases, head : Trees \cup {None}]
ASSUME NoneIsNoRow == None \notin TaskRow

TypeOK ==
  /\ row \in [Tasks -> TaskRow \cup {None}]
  /\ \A t \in Tasks : row[t] # None /\ row[t].state = "VERIFYING" => row[t].head # None
  /\ \A e \in evidence :
       /\ e.task \in Tasks /\ e.base \in Bases /\ e.head \in Trees
       /\ e.verified \in {e.head, None} /\ e.action \in Actions
       /\ e.exit \in {"0", "1", None} /\ e.justified \in BOOLEAN
       /\ e.status \in {"CLEAN", "JUSTIFIED", "REQUIRES_JUSTIFICATION"}

(***************************************************************************)
(* The budget, said of the change itself.                                  *)
(***************************************************************************)
Touched(r) == {f \in Files : r.base[f] # r.head[f]}
WithinBudget(r) ==
  LET scope == r.intake.scope IN
  /\ scope.allowed = None \/ Touched(r) \subseteq scope.allowed
  /\ scope.files = None \/ ~(Cardinality(Touched(r)) > scope.files)
  /\ scope.loc = None \/ (Touched(r) \cap Binary = {} /\ ~(ChangedLoc(r.base, r.head) > scope.loc))

(***************************************************************************)
(* Whatever evidence is presented for a task - an earlier attempt's,       *)
(* another task's, another action's - and under whatever intake, the gates *)
(* let the task through only if its present candidate passes pytest, lies  *)
(* within the budget the task was created with, leaves the guarded files   *)
(* alone that the surface recognises unless that was justified, and no     *)
(* capability was asked for that policy withholds (docs/trust-model.md:    *)
(* "Evidence is associated with the exact task and candidate being         *)
(* evaluated").                                                            *)
(***************************************************************************)
ReadyIsEarned ==
  \A t \in Tasks, i \in Intakes, e \in evidence, c \in Policy!Capabilities \cup {None} :
    Ready(t, i, e, c) =>
      /\ i = row[t].intake /\ e.task = t
      /\ row[t].head \in Passing /\ WithinBudget(row[t])
      /\ Touched(row[t]) \cap Sensitive # {} => e.justified
      /\ c # None => Policy!Decide(c) = "ALLOW"

(***************************************************************************)
(* The gates block nothing else: a candidate that passes within its budget *)
(* and surface is ready on the evidence of a pytest run that ended well,   *)
(* be it of an earlier attempt that had the same candidate.                *)
(***************************************************************************)
NothingElseBlocks ==
  \A t \in Tasks, e \in evidence :
    /\ row[t] # None
    /\ row[t].state = "VERIFYING"
    /\ WithinBudget(row[t])
    /\ Touched(row[t]) \cap Sensitive = {} \/ e.justified
    /\ e.task = t /\ e.head = row[t].head /\ e.verified = row[t].head
    /\ e.action = "pytest" /\ e.exit = "0"
    => Ready(t, row[t].intake, e, None)
=============================================================================
