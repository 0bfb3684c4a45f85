# A TLA+ model of fil-harness

fil-harness lets a coding agent (the *provider*) work on a *task* in a git
worktree, verifies the commit it leaves with trusted commands, and lets policy,
a supervisor and a human decide what may happen next. Everything it must
remember is in one SQLite file that several processes may open. This directory
models that system in TLA+, checks it with TLC and proves its safety with TLAPS:
every invariant, action property and refinement of a passing run is also a theorem.
Paths below are relative to `src/agent_harness/` of the repository.

## The system

| Component | State | Operations | Talks to |
|---|---|---|---|
| Task state machine (`domain.py`) | none | `transition_allowed` | everyone |
| Store (`store.py`) | tables tasks, events, runs, provider_attempts, evidence, supervision_requests, supervision_decisions | one method per row change: a read, then one guarded transaction; schema creation and migration when a file is opened | every component; other processes through the file |
| ExecutionManager (`execution_manager.py`) | none of its own | lifecycle methods, `sync_supervision` | store, port, policy |
| Checkpoints and policy (`supervision_checkpoints.py`, `policy.py`, `supervision_contracts.py`) | none | `decide`, `verdict_for_status`, `checkpoint_request_id` | manager, port |
| InMemorySupervisionPort (`supervision_in_memory.py`) | answers by request, in the memory of one process | `open_checkpoint`, `submit_*`, `poll` | store, manager |
| Orchestrator (`orchestrator.py`) | locals of `run` | `run`: the attempt loop | provider, git, runner, gates, manager, store |
| Provider (`provider.py`) | its processes, its branch | `execute` with a deadline | git |
| Git workspaces (`git_workspace.py`) | writer branch, detached checkouts | create, read HEAD | git |
| Trusted runner, evidence (`trusted_runner.py`, `evidence.py`) | log files | `run` with a deadline | git, pytest |
| Gates, scope, verification surface (`gates.py`, `scope.py`, `verification.py`) | none | pure decisions | orchestrator |
| Intake, context (`domain.py`, `context.py`, `canonical.py`) | none | normalise, validate, hash | store, provider, gates |
| Diagnostics (`diagnostics.py`) | none | redact, cut | provider, ports |
| CLI | none | one `run` | orchestrator |

What makes each one correct:

- **Store.** Methods decide on a row read *before* their transaction. No stale
  read may become an illegal or lost update, the audit events must reproduce
  the row, and a request is published once and answered once per comment. A file
  that has been opened has every column, whoever opened it at the same time.
- **Supervision.** A verdict is polled, weighed, tested against the state,
  claimed, and then applied by one or two moves: five or six separate reads
  and transactions. Whatever runs in between, a task may resume only on the
  word of somebody policy empowers, a verdict must be applied once and take
  effect, a verification must not be disturbed, and the merge gate must be
  opened by a human.
- **Orchestrator.** READY means that this very commit was verified. Rows about
  one attempt (attempt, run, evidence, checkpoint, result) must agree although
  they are written in separate transactions, while the provider may still be
  committing and supervision may already be acting. The loop must end.
- **Gates.** They may be handed any evidence, row and intake, and must open
  exactly for a candidate verified within its own task's budget and surface.
- **Intake.** What reaches the row, the provider and the gates must be the same
  task, also after a restart.
- **Diagnostics.** A cut may not leave a piece of what should be redacted.

Hard behaviours: several processes on one file; death between any two
transactions; store calls that fail; answers that live in the memory of one
process; provider processes that outlive their deadline; ambiguous outcomes.
`PROJECT.json` lists them one by one under `hazards`, with their lines.

## The modules

| Module | Models |
|---|---|
| `Domain` | task states and the table of legal edges |
| `TaskLedger` | abstract: what the store promises about a task, as indivisible steps |
| `TaskTable` | tasks and events tables and their transactions |
| `Trail` | reading an events table back |
| `HarnessStore` | the store's task methods as called by several connections |
| `SupervisionRecord` | abstract: a request is published under one reference, a decision recorded once per comment, and whoever is told that a comment has its decision can rely on it |
| `SupervisionStore` | the store's supervision methods as called by several connections |
| `SupervisedTask` | abstract: a task is worked on until it is parked with one question; the latest answers, policy and its state then decide, in one step |
| `Governance` | policy, verdict table, capability of each checkpoint (pure) |
| `ExecutionManager` | the manager, the supervision tables and the in-memory port, in several processes |
| `Orchestrator` | one `run()` with its provider, checkouts, gates and rows |
| `Review` | diff, scope report, verification surface, evidence and `GateEngine.evaluate` |
| `Intake` | from typed statements to a row and back; schema creation and migration |
| `Diagnostics` | redaction and truncation |
| `Selection` | the items of a list at some of its positions (pure) |
| `HarnessStoreProofs`, `SupervisionStoreProofs`, `ExecutionManagerProofs`, `OrchestratorProofs`, `ReviewProofs`, `IntakeProofs`, `DiagnosticsProofs` | theorems about the module of that name |
| `SoleSyncerProofs` | theorems about `ExecutionManager` where one process applies verdicts |
| `MC…` | model values and symmetry sets for TLC |

**HarnessStore.** A connection's `call` holds the locals of the method it is
in. `TransitionRead` is `get_task` plus the legality test, `TransitionCommit`
the guarded `UPDATE` with its event, `TransitionLost` the `rowcount != 1`
branch. `Abandon` is a process that dies, or a busy timeout, before the commit:
SQLite rolls back, so only the locals are lost. Methods that only insert rows
(`record_evidence`, …) are one step, because the row they look up first is
never deleted.

**SupervisionStore.** The same form for `open_supervision_request` (find, then
insert), `set_supervision_external_ref` (read, then compare-and-set on NULL),
`set_supervision_status` (read, then an unguarded `UPDATE`) and
`record_supervision_decision` (look the comment up, then insert under a unique
index). `told` remembers for which comments some caller was given a
`decision_id`; the process may die between the commit and the return.

**ExecutionManager.** A process has a `frame`: the store calls its current
method has left (`todo`), what the current call has read, and, inside
`sync_supervision`, the request at hand and those listed but not yet seen. A
lifecycle method is a plan, e.g. `gates_passed` is `Require("VERIFYING")`,
`Move("READY")`, `Open("candidate_ready")`. Each step executes one read or one
transaction of the first call, so methods of different processes interleave
everywhere they can. `sync_supervision` may list the unresolved requests in any
order: the query sorts by a stamp that `open` takes before its insert and then
by the hash that is the request's id, neither of which is the order of the rows.
`Drivers` run tasks, `Syncers` collect decisions and sync. A port's memory
(`human`, `supervisor`) is per process and lost by `Crash`. `ANSWERED` is not
told from `APPROVED`, because `poll` does not. `Foreign` lets a caller open a
checkpoint of its own (as `tests/test_supervision_public.py` does); `Redrive`
lets a driver continue a task that a verdict set RUNNING. The repository has no
code that does the latter, but leaves such tasks for its callers; the runs say
which they assume.

`SettlesAtOnce` says that this implements `SupervisedTask`, whose state is read off
the database and the memory of the syncer: `OpenOn(t)` is the checkpoint of the
unresolved request, `Said` the answers in the port to it, `Refused` whether a request
of the task has the verdict HUMAN_BLOCK. The state of the task is `Shown(t)`: the row,
except between a claim and the last move it calls for, where it is the state which
the claimed verdict leads to. The abstract step is therefore taken at the claim;
listing, polling, weighing and moving stutter. What has to be shown is that the
verdict, weighed several reads earlier, is at the claim still the one that answers,
policy and state call for, and that nothing is done to the task until it is moved.

**Orchestrator.** The same plans, for the loop of `run()`: `Decide` has one
disjunct per early return, in the code's order, `EvaluateGates` one per way out
of the gates. `Commit` is the provider moving its branch, at any time once
`execute` was called, also after its deadline. A commit is a model value;
`Passing` and `InBounds` say how pytest and the scope and surface reports judge
it. pytest and `git rev-parse` may also time out. The hash comparisons of the
gate engine are left out here: one frozen intake is passed everywhere in
`run()`, so they cannot differ (`Review` has them). `transition_task` is one
step here, since a change between its read and its write only makes it raise and
`Stop` lets any step raise. `Supervise` stands for another process's
`ExecutionManager`. `Supervised = FALSE` is the manager without a port, as the
CLI runs it: no checkpoint is opened and nobody else moves the task. The run has
`TRUE`; the theorems hold for both.

**Review.** A commit is its tree, a function from files to versions. `Changed`,
`ChangedLoc` and `Unmeasurable` are what `git diff --name-only` and `--numstat`
report, `Violations` is `evaluate_scope`, `Surface` is
`inspect_verification_surface`, `FromRunner` is `EvidenceEnvelope.from_runner`
and `Checks` has one field per failure `evaluate` can report. Nothing ties the
evidence, the intake and the capability that `Ready` is asked about to the task:
an embedder may pass any. Evidence is written only for a task that is being
verified, of its candidate at that time; retries move the candidate on.

**Intake.** A text is its core and whether blanks surround it. `Create` is the
normalisation of `TaskStatement` and `TaskIntake`, `Values` the `VALUES` list of
`create_task`, `Inserted` SQLite filling the columns by position, `Stored` and
`ReadBack` what `get_task_intake` makes of the row. `Kept` and `Redact` leave out
items of a list; they are written with `Selection`, which is `SelectSeq` without
recursion, so that they can be proved about. `CreateSchema`,
`ReadColumns` and `AddColumn` are the statements of the constructor one by one,
run by several processes that may die and reopen, on a new file or on one of the
version before. `Edit` is another program that changes a row.

**Diagnostics.** A text is a sequence of cells: the prefix of a credential, a
character a credential may go on with, or one that ends it. Two of the six patterns
stand for all: an open-ended one with a minimal length (`sk-`), and one of an exact
length (`AKIA`), which leaves a longer run alone. `Sanitize` cuts the end,
`Summarize` the beginning unless nothing was written, and both are tried under every limit on whatever the provider has written when it
exits or is killed.

## What the runs show

| Run | Question | Instance |
|---|---|---|
| `HarnessStore` | can interleaved methods corrupt a task or its audit trail; is the store the ledger? | 1 task, 2 connections, 2 heads, calls start while a task has < 6 events |
| `SupervisionStore` | do the rows of a request and its decisions agree with the trail; is it published and answered once? | 2 connections, 2 requests, 2 references, 1 comment id or none, calls start at < 4 events and < 2 decisions |
| `Supervision` | is supervision right when nothing fails, does a sync amount to one step of `SupervisedTask`, and does an answer eventually settle its request? | 1 driver, 1 syncer, 3 attempts, 4 decisions, redrive |
| `SupervisionCrash` | what survives death and failing calls? | 1 driver, 1 syncer, 2 attempts, 2 decisions, crashes, faults, redrive |
| `TwoSyncers` | what survives two processes applying supervision? | 1 driver, 2 syncers, 2 attempts, 2 decisions, foreign checkpoints |
| `Orchestrator` | do the rows of a run agree with what was verified, and does `run()` end? | 3 attempts; a commit that passes, one that fails, one that passes out of bounds |
| `Review` | do the gates open exactly for what was earned? | 2 tasks, 3 files (one binary, one guarded), 4 commits, 3 intakes with limits at their boundaries, 1 row of evidence |
| `Intake` | does a task read back as it was created, from any file? | 2 processes, 2 tasks, 8 statements, 2 lists, 3 scopes, 1 edit |
| `Diagnostics` | does a cut leave a piece of a credential or exceed its limit? | up to 6 cells on the two streams, limits 0..6 |
| `TwoSyncersFinal` | *violated:* is a terminal verdict final? | 2 syncers |
| `CrashLosesVerdict` | *violated:* does a recorded verdict take effect? | 1 syncer that may die |
| `MigratedFile` | *violated:* is a valid task stored? | that of `Intake` |

`Supervision` does not list `HumanGateHolds` and `TerminalVerdictIsFinal`, which
`SupervisionCrash` checks under harder conditions. `RefusalStands` belongs there too:
`gates_failed(retrying=True)` moves a task to RUNNING from any state
(`execution_manager.py:32`), so a refusal must never be applied to a task that is
driven, whatever died or failed before.

Bounds. Tasks never touch each other's rows, so one task shows all
interference; two connections or syncers suffice for a stale read and the write
that makes it stale. Six events reach every state of the task machine and go
around its cycles; four let a request be created, published, change its status
and be decided. Two requests let one comment be brought to both. Two attempts
give an older and a newer checkpoint of one task; three make a resumed task
resume again and let the orchestrator meet heads A, B, A. Decision bounds leave
room for a supervisor's answer and a human's on one request. `MaxTrail` limits
only how often supervision moves a task while `run()` is finishing. `Review`
keeps one row of evidence because `evaluate` looks at one, which may be of an
earlier attempt or of the other task. The lengths of `Diagnostics` (8 and 16 for
credentials, 4, 36 and 32 for the ellipsis, the note and the sentence) are scaled
down to 2, 2, 1, 2 and 3, so that every limit falls below, into and above each.

The runs with `CHECK_DEADLOCK FALSE` model systems that may stop: all tasks
created and settled, `run()` returned, the provider's output at its bound.

Fairness. `Supervision` assumes weak fairness of each process's current
method (a started call goes on) and of its sync (a caller with unresolved
requests keeps calling `sync_supervision`, which is how the API is meant to be
used; the repository contains no loop that does it). Drivers and decisions are
not fair. `Orchestrator` assumes only that the sequential program is scheduled;
`Execute` of a hanging command is enabled because `subprocess.run` has a
timeout for the provider and for the trusted runner's actions. The git commands have
none (`orchestrator.py:90`, `git_workspace.py:60`, `verification.py:42`): that these
end is an assumption of `Terminates`. Nothing else is assumed, and TLC finding the property true also shows
that no lifecycle call of `run()` is ever refused.

### What the failing runs found

1. `TwoSyncersFinal`: `claim_supervision_verdict` (`store.py:270`) tests only
   that the verdict *differs*. Syncer A polls a supervisor's CONTINUE and passes
   `_can_apply`; syncer B applies a human's REJECTED (HUMAN_BLOCK); A claims
   CONTINUE over it and moves the task BLOCKED → RUNNING.
   `TERMINAL_VERDICTS` and the `unresolved` query treat such a request as
   settled. `TwoSyncers` shows what still holds then: every resume has a grant
   behind it. Two further limits were seen while choosing that run's bounds:
   with two syncers *and* redriven tasks, `ResumeIsAuthorised` and
   `HumanGateHolds` fail as well, through `gates_failed(retrying=True)`, which
   requires no state (`execution_manager.py:32`), and through a half-applied
   approval of an older checkpoint.
   `VerdictIsBacked` is not part of `SupervisionCrash` for a similar reason: the
   port remembers an answer before it writes the decision row
   (`supervision_in_memory.py:18-19`, `22-23`), so if that write fails the verdict
   is still applied, with nothing in `supervision_decisions` to explain it. The
   theorem about it therefore assumes `Faults = FALSE`.
2. `CrashLosesVerdict`: the claim commits before the move
   (`execution_manager.py:63`, `64-67`). A process that dies in between leaves a
   terminal `applied_verdict` and an unmoved task, which no later sync repairs.
3. `MigratedFile`: `create_task` (`store.py:76`) inserts by position, and the
   migration (`store.py:60`) appends `statement_json` as the last column. On a
   migrated file the NULL meant for `head_sha` meets `created_at`, so every
   `create_task` raises `IntegrityError`. `Intake` shows that nothing worse
   happens: no row is ever written with its values in the wrong columns.

Observations that no document contradicts, and so no run is about:

- A comment id that is already used returns the decision it brought, although
  that was for another request (`DecisionKnown`); a racing duplicate raises
  `IntegrityError` (`DecisionRefused`) where a later one is answered.
- The `from` of a `SUPERVISION_STATUS_CHANGED` may be stale; its `to` never is.
- `sanitize_outbound` may exceed `max_chars` where that is below the length of
  the ellipsis, and `summarize_provider_failure` where that is below 32 and the
  provider wrote nothing: the sentence it then returns is never cut
  (`diagnostics.py:34-35`). `WithinLimit` says from where on neither does.
- `gates_passed` moves a task to READY before it opens its checkpoint, so a
  process that dies in between leaves READY without one: `ReadyHasCheckpoint` holds
  only where nothing fails.
- The second of two processes that open an old file may get a duplicate-column
  error from the constructor; opening it again succeeds.
- git quotes unusual file names, and `_is_sensitive` and the budget's patterns
  see the quoted name. `Review` takes names as git prints them.

## What is proved

All theorems hold for any values of the constants that satisfy the named
assumptions: that the markers of NULL are no values (`NoHeadAssumption`,
`NullAssumption`, `NoVerdictAssumption`, `NoTaskAssumption`, `StatusAssumption`,
`NoneIsNoRow`), that bounds, lengths and budgets are numbers
(`MaxEventsAssumption`, `BoundAssumption`, `MaxAttemptsAssumption`,
`ConfigAssumption`, `SupervisedAssumption`, `SizeAssumption`), and that the sets of
commits, files, intakes and texts are what they are called (`CommitAssumption`,
`FilesAssumption`, `TreesAssumption`, `IntakesAssumption`, `TypedAssumption`).
TLC evaluates each in some run.

**`HarnessStoreProofs`**: `TypeCorrect`, `TrailMatches`, `TrailUnbroken`, and
`Refinement`, `Spec => LedgerSpec`: every step of the store is a step of
`TaskLedger` or leaves the row alone.
The invariant is `IInv == TypeOK /\ CallsAreLegal /\ TrailsAreGood`.
`CallsAreLegal` says that a pending `transition_task` carries a legal edge: that
was tested when the row was read and depends only on locals, so nobody can
falsify it, and together with the guard of the `UPDATE` it makes the committed
edge legal although the row was read earlier. `TrailsAreGood` says that each
task's log reads back as its row and is unbroken; neither half is inductive
alone, because an appended transition follows from the log only if the log
agrees with the row. The first part of the module proves once what appending an
event does to a log and that each transaction of `TaskTable` keeps the trail.

**`SupervisionStoreProofs`**: `SupervisionTypeCorrect`, `RequestTrailMatches`,
`AnnouncedOnce` and `RecordRefinement` (`Spec => RecordSpec`). To the three
properties the invariant adds `CallsHaveRows`: a call that will write found its
row, and no row is deleted; without it a late `set_supervision_status` would
make a status out of nothing. That a request is announced once needs the trail
to agree with the row: the compare-and-set looks at the row only.

**`ReviewProofs`**: `ReviewTypeCorrect`, `ReadinessEarned`,
`NothingElseHeldBack`. The invariant adds `EvidenceOK`: a row of evidence
tells the truth about the commits it names, and names the base and the intake of
its task, which never change. The theorems are then about `Checks`: that no
failure holds means that what the evidence says is said of the present
candidate. `NoViolations` and `WithinHasNone` show that an empty report and a
change within its budget are the same thing.

**`OrchestratorProofs`**: `RunTypeCorrect`, `ReadyOnlyVerified`,
`EvidenceBelongs`, `RetriesAuthorised`, `CheckpointsCite`. The invariant has a
part for each thing `run()` relies on between two steps: `PlanOK` (which calls may
be left at each point), `CountsOK` (how many runs, attempts and rows of evidence
there are), `CandidateOK` (the local candidate is that of the latest attempt,
whose provider ended well), `TaskOK` (before a checkpoint is open nobody else
moves the task, so it is where `run()` left it), `EvidenceOK`, `PreviousOK` (the
local `previous_head_sha` is the head of the latest evidence), `RetryOK`,
`ReadyOK` and `CheckpointOK` (what is ready, or open, or planned to be, is backed
by evidence of the stored head). The last three must speak of plans: the
decision is taken when the gates are evaluated and the rows are written later,
while `Commit` moves the branch and `Supervise` the task.

Its second part proves `RunRowsTruthful` and `ReturnsBacked`, from `RunsOK`,
`ReturnOK` and `CitedOK` on top of that: earlier runs are ended before
the next is created, a plan to return moves the task before its last call says so
in the run row, and what is returned is what that row says.

**`ExecutionManagerProofs`**, for any number of tasks, drivers and syncers:
`ManagerTypeCorrect`; `VerdictOnRecord`, assuming that no store call fails;
`ResumeOnlyOnAuthority`, assuming `Redrive = FALSE`, with crashes, failing calls
and foreign checkpoints. Since a verdict is polled, weighed, claimed and applied
in separate steps, `FramesOK` says what the method a process is in rests on: the
request at hand is of its task, its verdict is granted by an answer in its own
port, and a planned move to RUNNING rests either on such a verdict or on a
driver's own place before its provider. That survives every step of another
process, because ports are private and answers are only added. `DrivesOK` is why
redrive is excluded: a task that is driven for the first time has no checkpoint,
so nobody else acts on it; with redrive and a second syncer the property is
false, as said above. `RowsOK` and `MemoryOK` carry decisions from the port to
the rows.

**`SoleSyncerProofs`**, for any number of tasks and drivers, where one process
syncs (`SoleSyncer`) and the checkpoints are the manager's own
(`Foreign = FALSE`), with `Redrive` or without: `SettledForGood`,
`OneGateAtATime`, `DriverAlone`, `SoleSyncerNeedsAuthority`, `MergeNeedsHuman` and
`RefusedForGood`, with crashes and failing calls; `RecordedIsApplied`, `ReadyIsOpen` and
`ImplementsSupervisedTask` where nothing dies or fails. The properties depend on each other, so there is one
invariant, `SInv`: `IInv` of `ExecutionManagerProofs`, `TaskOK` for each task and
`QueueOK` for each method under way. `TaskOK` says that a driver at work, a sync at
work and an open gate exclude each other in the ways the state allows (`AtWork`,
`GatesOK`); that a task on hold is held by its latest request (`HoldOK`); that a
verdict claimed and not yet applied is that of the request the syncer has at hand
(`SyncOK`); and, without crashes and faults, that a recorded verdict is the state of
the task (`EffectOK`). `QueueOK` says that what the syncer listed earlier and has not
yet come to was opened by the manager and is of a task nobody else moves. A second
syncer breaks `SyncOK` (between its claim and its move another verdict is claimed,
as in `TwoSyncersFinal`), and a foreign checkpoint breaks `GatesOK`.
`ResumeIsAuthorised` is thus proved twice: for any syncers without redrive, and for
one with it. Two syncers and redrive together falsify it.

The last part of the module proves `ImplementsSupervisedTask`,
`Spec => SettlesAtOnce`. The mapping needs two facts more, so its invariant is `RInv`:
`SInv`, `WeighedOK` (the verdict a sync carries is the one it would weigh now) and
`RefusedOK` (a task that was refused was refused for its last attempt and is put
aside, so no later question follows). `WeighedStays` and `RefusedStays` keep them.
The second needs neither hypothesis on failures, and also proves `RefusedForGood`: a
driver that held a refused task would break `HoldOK`, and the sync at work on it has
that very refusal to apply. Then there is a
lemma for each kind of step: `ClaimSimulates` for the claim, which is `Resume`,
`Refuse` or `Escalate`, `InsertParks` for a checkpoint, `MoveWorks` for a driver's moves,
`SubmitSays` for answers, and `AppliedShown` for the moves of a sync, which show nothing.
The hypotheses are those the code needs: after a crash between claim and move the
state shown would fall back to the row (`CrashLosesVerdict`), and a second syncer
claims over what the first has weighed (`TwoSyncersFinal`).

**`IntakeProofs`**: `IntakeTypeCorrect`, `OpenMeansMigrated`, `ReadBackFaithful`,
`ToldApart`. `SchemaOK` lists the layouts a table goes through, and how far a
connection has come tells which are left: a table only moves forward, so what one
connection has seen holds whoever else migrates. `RowsOK` says what a row
holds: one that `create_task` wrote has the hashes of its intake for good and,
unless it is edited, the intake; an older one has no hash, so the gates never agree
with it. It also says that `create_task` wrote only to a table it had created:
with the columns of a migrated one the NULL of `head_sha` comes to stand in
`created_at`, and the row is refused (`MigratedTableRefuses`). What is read back is
normalised again, so the properties need that to change nothing
(`CreateFacts`), which for lists rests on lemmas on selections: each rank is taken
by one position (`NthExists`), a selection holds only what is selected
(`ItemsFacts`), and to select everything changes nothing (`AllItems`).

**`DiagnosticsProofs`**: `ShownIsWithinLimit`, `NoPieceIsShown`, for texts of any
length, any limit and any lengths of the ellipsis, the note and the shortest
credential. There is nothing to be inductive about but the type of the output;
`RedactFacts` says what cells redacting leaves, and the cuts add only their marks. The
limit of a summary is split like the code: nothing written, short enough, no room
for the note, and cut.

Only model-checked: liveness (`AnswerSettles`, `Terminates`), which is out of the
prover's reach.

## Not modelled

Prompts and the wording rules of decisions; the CLI, which parses arguments
around one `run()`; canonical JSON and SHA-256 (taken as injective); path
sanitising and worktree directories; the runner's environment, log files and
extra actions; what git does to unusual names; the public safety scan and the
examples, which keep no state of the harness. Reasons are in `PROJECT.json`
under `components`.

## Plan

1. `Harness`: orchestrator and supervision composed on one database, in place of
   `Supervise` and `Drivers`.
2. The task ledger implemented by `ExecutionManager` as well.
