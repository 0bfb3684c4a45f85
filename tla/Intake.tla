------------------------------- MODULE Intake -------------------------------
(***************************************************************************)
(* From what a caller types to a row of the tasks table and back: the      *)
(* normalisation of TaskStatement and TaskIntake, the columns create_task  *)
(* fills by position, the migration every HarnessStore runs when it opens  *)
(* the file, and get_task_intake.  The file may be new or written by the   *)
(* version that had no typed statements.                                   *)
(*                                                                         *)
(* A text is its core and whether blanks surround it.  Canonical JSON and  *)
(* SHA-256 are injective here: the hash of a value is the value.           *)
(***************************************************************************)
EXTENDS Integers, Sequences, SequencesExt, Selection

CONSTANTS Connections,
          Null,             \* None, and SQL's NULL
          Statements,       \* raw: intent, desired, current
          Lists,            \* raw acceptance and constraints: sequences of texts
          Scopes,           \* raw: allowed, files, loc
          MaxTasks, MaxEdits   \* bounds

VARIABLES
  tables,    \* tables[n]: the columns of table n, in order; <<>> if there is none
  rows,      \* the rows of tasks, each a function of its columns
  step,      \* step[c]: how far c has come with the schema, 0 if closed
  missing,   \* missing[c]: the columns c has read lack the one it is to add
  asked,     \* history: the intake each row was created for, Null for old rows
  edits,     \* history: the rows another program has edited
  refused    \* history: a create_task has raised
vars == <<tables, rows, step, missing, asked, edits, refused>>

RawText == [core : STRING, padded : BOOLEAN]
RawStatement == [intent : {"BUGFIX", "FEATURE", "REFACTOR"},
                 desired : RawText, current : RawText \cup {Null}]
OldScope == [allowed |-> {}, files |-> Null, loc |-> Null]
IntakeRecord == [statement : RawStatement, acceptance : Seq(RawText),
                 constraints : Seq(RawText), scope : Scopes \cup {OldScope}]

ASSUME TypedAssumption == Statements \subseteq RawStatement /\ Lists \subseteq Seq(RawText)
ASSUME NullAssumption == Null \notin RawText \cup RawStatement \cup IntakeRecord

-----------------------------------------------------------------------------
(***************************************************************************)
(* TaskStatement.__post_init__, ScopeBudget.__post_init__, create.         *)
(***************************************************************************)
Blank == ""
Strip(text) == [text EXCEPT !.padded = FALSE]
IsBlank(text) == text.core = Blank

\* mutant: a blank current_behavior is kept
PresentBlank(text) == IF text = Null THEN Null ELSE Strip(text)
Present(text) == IF text = Null THEN Null ELSE IF IsBlank(text) THEN Null ELSE Strip(text)

ValidStatement(raw) ==
  /\ ~IsBlank(raw.desired)
  /\ raw.intent = "BUGFIX" => Present(raw.current) \notin {Null, Strip(raw.desired)}

Statement(raw) ==
  [intent |-> raw.intent, desired |-> Strip(raw.desired), current |-> Present(raw.current)]
ValidScope(scope) == \A limit \in {scope.files, scope.loc} : limit # Null => limit >= 0

Kept(list) ==
  LET some == Items(list, {k \in DOMAIN list : ~IsBlank(list[k])})
  IN  [k \in DOMAIN some |-> Strip(some[k])]

Valid(raw) == ValidStatement(raw.statement) /\ ValidScope(raw.scope)
Create(raw) ==
  [statement |-> Statement(raw.statement), acceptance |-> Kept(raw.acceptance),
   constraints |-> Kept(raw.constraints), scope |-> raw.scope]

\* provider_context
Context(intake) ==
  [intent |-> intake.statement.intent, current |-> intake.statement.current,
   desired |-> intake.statement.desired, acceptance |-> intake.acceptance,
   constraints |-> intake.constraints, scope |-> intake.scope]

-----------------------------------------------------------------------------
(***************************************************************************)
(* The schema.                                                             *)
(***************************************************************************)
TaskColumns ==
  <<"task_id", "state", "goal", "statement_json", "acceptance_json", "constraints_json",
    "scope_json", "goal_hash", "acceptance_hash", "constraints_hash",
    "scope_budget_hash", "base_sha", "head_sha", "created_at", "updated_at">>
OldTaskColumns ==   \* no statement_json
  <<"task_id", "state", "goal", "acceptance_json", "constraints_json", "scope_json",
    "goal_hash", "acceptance_hash", "constraints_hash", "scope_budget_hash",
    "base_sha", "head_sha", "created_at", "updated_at">>
NotNull == ToSet(TaskColumns) \ {"statement_json", "head_sha"}
RequestColumns == <<"request_id", "status", "payload_json", "external_ref">>

\* what _create_schema creates, and then adds to what it finds, in this order
Created == <<[table |-> "tasks", columns |-> TaskColumns],
             [table |-> "supervision_requests", columns |-> RequestColumns]>>
Migrations ==
  <<[table |-> "tasks", column |-> "statement_json"],
    [table |-> "supervision_requests", column |-> "applied_verdict"]>>
Opened == Len(Created) + Len(Migrations)

(***************************************************************************)
(* create_task: the values, in the order of the VALUES list.               *)
(***************************************************************************)
\* mutant: only a BUGFIX has its current behaviour written
PayloadOfFix(s) == IF s.intent = "BUGFIX" THEN s ELSE [s EXCEPT !.current = Null]
AsPayload(s) == s

\* mutant: the goal is hashed as it is displayed
ValuesOfLabel(intake) ==
  <<"id", "PENDING", <<intake.statement.intent, intake.statement.desired>>,
    AsPayload(intake.statement), intake.acceptance, intake.constraints, intake.scope,
    <<intake.statement.intent, intake.statement.desired>>,
    intake.acceptance, intake.constraints, intake.scope,
    "base", Null, "now", "now">>
Values(intake) ==
  <<"id", "PENDING", <<intake.statement.intent, intake.statement.desired>>,
    AsPayload(intake.statement), intake.acceptance, intake.constraints, intake.scope,
    intake.statement, intake.acceptance, intake.constraints, intake.scope,
    "base", Null, "now", "now">>

\* INSERT INTO tasks VALUES (...) fills the columns by position
Inserted(columns, values) ==
  [name \in ToSet(columns) |-> values[CHOOSE k \in DOMAIN columns : columns[k] = name]]
Accepted(row) == \A name \in NotNull : row[name] # Null

(***************************************************************************)
(* get_task_intake: it refuses a row without a statement, and builds the   *)
(* intake anew from the others, hashes included.                           *)
(***************************************************************************)
Stored(row) ==
  [statement |-> row["statement_json"], acceptance |-> row["acceptance_json"],
   constraints |-> row["constraints_json"], scope |-> row["scope_json"]]
Readable(row) == row["statement_json"] # Null /\ Valid(Stored(row))
ReadBack(row) == Create(Stored(row))

\* the hashes GateEngine compares
Agrees(row) ==
  LET intake == ReadBack(row) IN
  /\ row["goal_hash"] = intake.statement /\ row["acceptance_hash"] = intake.acceptance
  /\ row["constraints_hash"] = intake.constraints /\ row["scope_budget_hash"] = intake.scope

-----------------------------------------------------------------------------
\* a row of the version before: a goal text, which no typed statement is
OldRow ==
  [name \in ToSet(OldTaskColumns) |->
     CASE name \in {"acceptance_json", "constraints_json"} -> <<>>
       [] name = "scope_json" -> OldScope
       [] OTHER -> Null]

Init ==
  /\ \/ tables = [n \in {"tasks", "supervision_requests"} |-> <<>>] /\ rows = <<>>
     \/ /\ tables = [tasks |-> OldTaskColumns, supervision_requests |-> RequestColumns]
        /\ rows = <<OldRow>>
  /\ asked = [k \in DOMAIN rows |-> Null]
  /\ step = [c \in Connections |-> 0] /\ missing = [c \in Connections |-> FALSE]
  /\ edits = {} /\ refused = FALSE

history == <<asked, edits, refused>>

\* HarnessStore(path): CREATE TABLE IF NOT EXISTS
CreateSchema(c) ==
  /\ step[c] < Len(Created)
  /\ LET new == Created[step[c] + 1] IN
       tables' = [tables EXCEPT ![new.table] = IF @ # <<>> THEN @ ELSE new.columns]
  /\ step' = [step EXCEPT ![c] = @ + 1]
  /\ UNCHANGED <<rows, missing, history>>

Migrating(c) == step[c] >= Len(Created) /\ step[c] < Opened
Migration(c) == Migrations[step[c] - Len(Created) + 1]
Has(m) == m.column \in ToSet(tables[m.table])

\* mutant: a table that needs nothing ends the migration
ReadColumnsStops(c) ==
  /\ Migrating(c) /\ ~missing[c]
  /\ missing' = [missing EXCEPT ![c] = ~Has(Migration(c))]
  /\ step' = [step EXCEPT ![c] = IF missing'[c] THEN @ ELSE Opened]
  /\ UNCHANGED <<tables, rows, history>>
\* PRAGMA table_info
ReadColumns(c) ==
  /\ Migrating(c) /\ ~missing[c]
  /\ missing' = [missing EXCEPT ![c] = ~Has(Migration(c))]
  /\ step' = [step EXCEPT ![c] = IF missing'[c] THEN @ ELSE @ + 1]
  /\ UNCHANGED <<tables, rows, history>>

\* ALTER TABLE ... ADD COLUMN: last in the table, NULL in every row
AddColumn(c) ==
  /\ Migrating(c) /\ missing[c]
  /\ LET m == Migration(c) IN
       /\ ~Has(m)
       /\ tables' = [tables EXCEPT ![m.table] = Append(@, m.column)]
       /\ rows' = IF m.table # "tasks" THEN rows
                  ELSE [k \in DOMAIN rows |->
                          [name \in DOMAIN rows[k] \cup {m.column} |->
                             IF name = m.column THEN Null ELSE rows[k][name]]]
  /\ missing' = [missing EXCEPT ![c] = FALSE]
  /\ step' = [step EXCEPT ![c] = @ + 1]
  /\ UNCHANGED history

\* another connection has added it since: "duplicate column name", raised by
\* the constructor
AddColumnRefused(c) ==
  /\ Migrating(c) /\ missing[c] /\ Has(Migration(c))
  /\ missing' = [missing EXCEPT ![c] = FALSE]
  /\ step' = [step EXCEPT ![c] = 0]
  /\ UNCHANGED <<tables, rows, history>>

\* an intake that is not valid raises before there is a row to write
CreateTask(c, raw) ==
  /\ step[c] = Opened /\ Len(rows) < MaxTasks /\ Valid(raw)
  /\ LET row == Inserted(tables["tasks"], Values(Create(raw))) IN
       \/ /\ Accepted(row)
          /\ rows' = Append(rows, row) /\ asked' = Append(asked, Create(raw))
          /\ UNCHANGED refused
       \/ /\ ~Accepted(row)
          /\ refused' = TRUE
          /\ UNCHANGED <<rows, asked>>
  /\ UNCHANGED <<tables, step, missing, edits>>

\* the process ends; it may be started again
Close(c) ==
  /\ step[c] # 0
  /\ step' = [step EXCEPT ![c] = 0] /\ missing' = [missing EXCEPT ![c] = FALSE]
  /\ UNCHANGED <<tables, rows, history>>

\* another program changes what a row says of its task, hashes excepted
Edit(k, column, value) ==
  /\ k \in DOMAIN rows /\ Cardinality(edits) < MaxEdits
  /\ column \in DOMAIN rows[k]
  /\ rows' = [rows EXCEPT ![k][column] = value]
  /\ edits' = edits \cup {k}
  /\ UNCHANGED <<tables, step, missing, asked, refused>>

Raw == [statement : Statements, acceptance : Lists, constraints : Lists, scope : Scopes]

Next ==
  \/ \E c \in Connections :
       \/ CreateSchema(c) \/ ReadColumns(c) \/ AddColumn(c) \/ AddColumnRefused(c)
       \/ \E raw \in Raw : CreateTask(c, raw)
       \/ Close(c)
  \/ \E k \in 1..MaxTasks :
       \/ \E statement \in Statements : Edit(k, "statement_json", statement)
       \/ \E list \in Lists : Edit(k, "acceptance_json", list) \/ Edit(k, "constraints_json", list)
       \/ \E scope \in Scopes : Edit(k, "scope_json", scope)

Spec == Init /\ [][Next]_vars

-----------------------------------------------------------------------------
\* what is left of the texts of the statements: stripped, and not blank
Text ==
  LET typed == (UNION {{st.desired, st.current} : st \in Statements}) \ {Null}
  IN  {Strip(text) : text \in {text \in typed : text.core # Blank}}
IntakeOK(intake) ==
  /\ intake.statement.intent \in {"BUGFIX", "FEATURE", "REFACTOR"}
  /\ intake.statement.desired \in Text
  /\ intake.statement.current \in Text \cup {Null}
  /\ intake.scope \in Scopes

TypeOK ==
  /\ \A n \in DOMAIN tables : IsInjective(tables[n])
  /\ \A k \in DOMAIN rows : DOMAIN rows[k] = ToSet(tables["tasks"])
  /\ step \in [Connections -> 0..Opened] /\ missing \in [Connections -> BOOLEAN]
  /\ DOMAIN asked = DOMAIN rows /\ edits \subseteq DOMAIN rows /\ refused \in BOOLEAN
  /\ \A k \in DOMAIN asked : asked[k] = Null \/ IntakeOK(asked[k])

(***************************************************************************)
(* Whichever of several processes opens a new or an old file, and whenever *)
(* one of them dies on the way: a connection that has been opened finds    *)
(* every column its statements name.                                       *)
(***************************************************************************)
OpenIsMigrated ==
  \A c \in Connections, m \in ToSet(Migrations) :
    step[c] = Opened => Cardinality({k \in DOMAIN tables[m.table] :
                                       tables[m.table][k] = m.column}) = 1

(***************************************************************************)
(* After any restart a task has the intake it was created for, with the    *)
(* same hashes; a row that predates the typed statement is refused, and an *)
(* edit is either without effect on the intake or seen in the hashes       *)
(* (docs/architecture.md: "hashes the statement, acceptance criteria,      *)
(* constraints, and ScopeBudget so later verification can detect           *)
(* mismatches").                                                           *)
(***************************************************************************)
ReadBackIsFaithful ==
  \A k \in DOMAIN rows :
    LET readable == "statement_json" \in DOMAIN rows[k] /\ Readable(rows[k])
        same == readable /\ ReadBack(rows[k]) = asked[k]
    IN  /\ k \notin edits => (same <=> asked[k] # Null)
        /\ readable => (Agrees(rows[k]) <=> same)

(***************************************************************************)
(* The two identities of a task agree: two tasks are put to a provider in  *)
(* the same words (the context hash of an attempt) exactly if the gates    *)
(* cannot tell them apart (the four hashes of the row), whatever the       *)
(* blanks their texts were typed with.                                     *)
(***************************************************************************)
HashColumns == {"goal_hash", "acceptance_hash", "constraints_hash", "scope_budget_hash"}
TasksAreToldApart ==
  \A j, k \in DOMAIN asked :
    asked[j] # Null /\ asked[k] # Null =>
      (Context(asked[j]) = Context(asked[k])
         <=> \A column \in HashColumns : rows[j][column] = rows[k][column])

(***************************************************************************)
(* A valid task is stored, in a file of the version before too: that file  *)
(* is migrated, and only the tasks it already held cannot be typed         *)
(* (store.py:85, "it predates the intake contract and its intent cannot be *)
(* inferred").                                                             *)
(***************************************************************************)
ValidTaskIsStored == ~refused
=============================================================================
