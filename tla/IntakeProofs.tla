---------------------------- MODULE IntakeProofs ----------------------------
(***************************************************************************)
(* The types and the three safety properties of Intake.  The inductive     *)
(* invariant lists the few layouts a table goes through and what each row  *)
(* holds of the intake it was created for; the rest is that normalising an *)
(* intake a second time changes nothing.                                   *)
(***************************************************************************)
EXTENDS Intake, FiniteSetTheorems, WellFoundedInduction, SequenceTheorems, TLAPS

(***************************************************************************)
(* Selections.                                                             *)
(***************************************************************************)
LEMMA Counts ==
  ASSUME NEW m \in Nat, NEW P \in SUBSET (1..m), NEW k \in Nat
  PROVE  /\ IsFiniteSet(P) /\ Cardinality(P) \in Nat
         /\ IsFiniteSet(P \cap (1..k)) /\ Cardinality(P \cap (1..k)) \in Nat
<1>1. IsFiniteSet(1..m)
  BY FS_Interval
<1>2. IsFiniteSet(P)
  BY <1>1, FS_Subset
<1>3. IsFiniteSet(P \cap (1..k))
  BY <1>2, FS_Subset
<1> QED BY <1>2, <1>3, FS_CardinalityType

\* How many positions there are up to each.
UpTo(P) == [k \in Nat |-> Cardinality(P \cap (1..k))]

LEMMA Counting ==
  ASSUME NEW m \in Nat, NEW P \in SUBSET (1..m)
  PROVE  /\ UpTo(P) \in [Nat -> Nat]
         /\ UpTo(P)[0] = 0 /\ UpTo(P)[m] = Cardinality(P)
         /\ \A k \in Nat : UpTo(P)[k + 1] = IF k + 1 \in P THEN UpTo(P)[k] + 1 ELSE UpTo(P)[k]
<1>1. UpTo(P) \in [Nat -> Nat]
  BY Counts DEF UpTo
<1>2. UpTo(P)[0] = 0
  <2>1. P \cap (1..0) = {}
    OBVIOUS
  <2> QED BY <2>1, FS_EmptySet DEF UpTo
<1>3. UpTo(P)[m] = Cardinality(P)
  <2>1. P \cap (1..m) = P
    OBVIOUS
  <2> QED BY <2>1 DEF UpTo
<1>4. ASSUME NEW k \in Nat
      PROVE  UpTo(P)[k + 1] = IF k + 1 \in P THEN UpTo(P)[k] + 1 ELSE UpTo(P)[k]
  <2>1. PICK Q : Q = P \cap (1..k)
    OBVIOUS
  <2>2. IsFiniteSet(Q) /\ k + 1 \notin Q
    BY <2>1, Counts
  <2>3. CASE k + 1 \in P
    <3>1. P \cap (1..(k + 1)) = Q \cup {k + 1}
      BY <2>1, <2>3
    <3>2. Cardinality(Q \cup {k + 1}) = Cardinality(Q) + 1
      BY <2>2, FS_AddElement
    <3> QED BY <2>1, <2>3, <3>1, <3>2 DEF UpTo
  <2>4. CASE k + 1 \notin P
    <3>1. P \cap (1..(k + 1)) = Q
      BY <2>1, <2>4
    <3> QED BY <2>1, <2>4, <3>1 DEF UpTo
  <2> QED BY <2>3, <2>4
<1> QED BY <1>1, <1>2, <1>3, <1>4

\* Every rank is taken: by the first position that has so many up to it.
LEMMA NthExists ==
  ASSUME NEW m \in Nat, NEW P \in SUBSET (1..m), NEW n \in 1..Cardinality(P)
  PROVE  \E k \in P : Cardinality(P \cap (1..k)) = n
<1>1. PICK c : c = UpTo(P)
  OBVIOUS
<1>2. /\ c \in [Nat -> Nat] /\ c[0] = 0 /\ c[m] >= n /\ n \in Nat /\ n > 0
      /\ \A k \in Nat : c[k + 1] = IF k + 1 \in P THEN c[k] + 1 ELSE c[k]
  <2>1. c[m] = Cardinality(P) /\ c[m] \in Nat
    BY <1>1, Counting
  <2> QED BY <1>1, <2>1, Counting
<1> DEFINE Reach == {k \in Nat : c[k] >= n}
<1>3. PICK k \in Reach : \A j \in Reach : ~(j < k)
  <2>1. IsWellFoundedOn(OpToRel(<, Nat), Nat)
    BY NatLessThanWellFounded
  <2>2. Reach \subseteq Nat /\ Reach # {}
    BY <1>2
  <2> HIDE DEF Reach
  <2>3. \E k \in Reach : \A j \in Reach : <<j, k>> \notin OpToRel(<, Nat)
    BY <2>1, <2>2, WFMin
  <2> QED BY <2>2, <2>3 DEF OpToRel
<1>4. k \in Nat /\ k # 0 /\ c[k] >= n
  BY <1>2
<1>5. PICK j \in Nat : k = j + 1
  <2>1. k - 1 \in Nat /\ k = (k - 1) + 1
    BY <1>4
  <2> QED BY <2>1
<1>6. ~(c[j] >= n)
  <2>1. j < k
    BY <1>5
  <2> QED BY <1>3, <2>1
<1>7. k \in P /\ c[k] = n
  BY <1>2, <1>4, <1>5, <1>6
<1> QED BY <1>1, <1>4, <1>7 DEF UpTo

\* A selection has an item for each position, and no others.
LEMMA ItemsFacts ==
  ASSUME NEW S, NEW list \in Seq(S), NEW P \in SUBSET (1..Len(list))
  PROVE  /\ Items(list, P) \in Seq(S)
         /\ Len(Items(list, P)) = Cardinality(P)
         /\ \A n \in 1..Len(Items(list, P)) : \E k \in P : Items(list, P)[n] = list[k]
<1>1. PICK size : size = Cardinality(P)
  OBVIOUS
<1>2. size \in Nat
  <2>1. Len(list) \in Nat
    OBVIOUS
  <2> QED BY <1>1, <2>1, Counts
<1>3. \A n \in 1..size : Nth(P, n) \in P
  <2>1. Len(list) \in Nat
    OBVIOUS
  <2> SUFFICES ASSUME NEW n \in 1..size PROVE Nth(P, n) \in P
    OBVIOUS
  <2>2. \E k \in P : Cardinality(P \cap (1..k)) = n
    BY <1>1, <2>1, NthExists
  <2> QED BY <2>2 DEF Nth
<1>4. PICK items : items = Items(list, P)
  OBVIOUS
<1>5. items = [n \in 1..size |-> list[Nth(P, n)]]
  BY <1>1, <1>4 DEF Items
<1>6. \A n \in 1..size : list[Nth(P, n)] \in S
  <2>1. \A k \in P : list[k] \in S
    BY ElementOfSeq
  <2> QED BY <1>3, <2>1
<1>7. items \in Seq(S) /\ Len(items) = size
  BY <1>2, <1>5, <1>6
<1>8. \A n \in 1..size : items[n] = list[Nth(P, n)]
  BY <1>5
<1> QED BY <1>1, <1>3, <1>4, <1>7, <1>8

\* To select all items changes nothing.
LEMMA AllItems ==
  ASSUME NEW S, NEW list \in Seq(S)
  PROVE  Items(list, 1..Len(list)) = list
<1>1. PICK P, size : P = 1..Len(list) /\ size = Len(list)
  OBVIOUS
<1>2. Cardinality(P) = size /\ size \in Nat
  <2>1. size \in Nat /\ 1 \in Int /\ size \in Int
    BY <1>1
  <2>2. Cardinality(1..size) = IF 1 > size THEN 0 ELSE size - 1 + 1
    BY <2>1, FS_Interval
  <2>3. Cardinality(1..size) = size
    BY <2>1, <2>2
  <2> QED BY <1>1, <2>1, <2>3
<1>3. \A k \in 1..size : Cardinality(P \cap (1..k)) = k
  <2> SUFFICES ASSUME NEW k \in 1..size PROVE Cardinality(P \cap (1..k)) = k
    OBVIOUS
  <2>1. P \cap (1..k) = 1..k
    BY <1>1, <1>2
  <2>2. Cardinality(1..k) = k
    BY <1>2, FS_Interval
  <2> QED BY <2>1, <2>2
<1>4. \A n \in 1..size : Nth(P, n) = n
  <2> SUFFICES ASSUME NEW n \in 1..size PROVE Nth(P, n) = n
    OBVIOUS
  <2>1. \E k \in P : Cardinality(P \cap (1..k)) = n
    BY <1>1, <1>3
  <2>2. Nth(P, n) \in P /\ Cardinality(P \cap (1..Nth(P, n))) = n
    BY <2>1 DEF Nth
  <2> QED BY <1>1, <1>3, <2>2
<1>5. Items(list, P) = [n \in 1..size |-> list[n]]
  BY <1>2, <1>4 DEF Items
<1> QED BY <1>1, <1>2, <1>5

-----------------------------------------------------------------------------
(***************************************************************************)
(* The inductive invariant.                                                *)
(***************************************************************************)
MigratedTasks == Append(OldTaskColumns, "statement_json")
MigratedRequests == Append(RequestColumns, "applied_verdict")

\* A table goes through few layouts, and how far a connection has come tells
\* which of them are left.
SchemaOK ==
  /\ tables = [n \in {"tasks", "supervision_requests"} |-> tables[n]]
  /\ tables["tasks"] \in {<<>>, TaskColumns, OldTaskColumns, MigratedTasks}
  /\ tables["supervision_requests"] \in {<<>>, RequestColumns, MigratedRequests}
  /\ step \in [Connections -> 0..4] /\ missing \in [Connections -> BOOLEAN]
  /\ \A c \in Connections :
       /\ step[c] > 0 => tables["tasks"] # <<>>
       /\ step[c] > 1 => tables["supervision_requests"] # <<>>
       /\ step[c] > 2 => tables["tasks"] \in {TaskColumns, MigratedTasks}
       /\ step[c] > 3 => tables["supervision_requests"] = MigratedRequests
       /\ missing[c] => step[c] \in {2, 3}

\* A row written by create_task holds the hashes of its intake, whatever is
\* edited, and else its intake; a row that is older has no hash and, unless it
\* is edited, no statement, but texts all the same.  create_task writes to a table it has created itself
\* only: a migrated one has its columns in another order and refuses.
CreatedRow(row, intake, edited) ==
  /\ row["goal_hash"] = intake.statement /\ row["acceptance_hash"] = intake.acceptance
  /\ row["constraints_hash"] = intake.constraints /\ row["scope_budget_hash"] = intake.scope
  /\ ~edited => Stored(row) = intake
EditedColumns == {"statement_json", "acceptance_json", "constraints_json", "scope_json"}
Written ==
  [name \in EditedColumns |->
     IF name = "statement_json" THEN RawStatement \cup {Null}
     ELSE IF name = "scope_json" THEN Scopes \cup {OldScope} ELSE Seq(RawText)]
TypedRow(row) == \A name \in EditedColumns \cap DOMAIN row : row[name] \in Written[name]
OlderRow(row, edited) ==
  /\ row["goal_hash"] = Null /\ TypedRow(row)
  /\ ~edited /\ "statement_json" \in DOMAIN row => row["statement_json"] = Null
RowOK(row, intake, edited) ==
  /\ DOMAIN row = ToSet(tables["tasks"])
  /\ IF intake = Null THEN OlderRow(row, edited)
     ELSE /\ tables["tasks"] = TaskColumns
          /\ \E raw \in Raw : Valid(raw) /\ intake = Create(raw)
          /\ CreatedRow(row, intake, edited)

RowsOK ==
  /\ \E S : rows \in Seq(S)
  /\ asked \in Seq(IntakeRecord \cup {Null}) /\ Len(asked) = Len(rows)
  /\ tables["tasks"] = <<>> => rows = <<>>
  /\ edits \subseteq 1..Len(rows) /\ refused \in BOOLEAN
  /\ \A k \in 1..Len(rows) : RowOK(rows[k], asked[k], k \in edits)

IInv == SchemaOK /\ RowsOK

-----------------------------------------------------------------------------
(***************************************************************************)
(* Layouts.                                                                *)
(***************************************************************************)
\* A sequence with one more item.
LEMMA AppendFacts ==
  ASSUME NEW S, NEW s \in Seq(S), NEW e
  PROVE  /\ Append(s, e) \in Seq(S \cup {e})
         /\ Len(Append(s, e)) = Len(s) + 1 /\ Len(s) \in Nat
         /\ Append(s, e)[Len(s) + 1] = e
         /\ \A k \in 1..Len(s) : Append(s, e)[k] = s[k]
<1>1. s \in Seq(S \cup {e}) /\ e \in S \cup {e}
  OBVIOUS
<1> QED BY <1>1

LEMMA AppendFresh ==
  ASSUME NEW S, NEW s \in Seq(S), NEW e
  PROVE  /\ ToSet(Append(s, e)) = ToSet(s) \cup {e}
         /\ Append(s, e) # <<>>
         /\ IsInjective(s) /\ e \notin ToSet(s) => IsInjective(Append(s, e))
<1>1. PICK t, n : t = Append(s, e) /\ n = Len(s)
  OBVIOUS
<1>2. /\ n \in Nat /\ DOMAIN t = 1..(n + 1) /\ DOMAIN s = 1..n /\ t[n + 1] = e
      /\ \A k \in 1..n : t[k] = s[k]
  BY <1>1, AppendFacts
<1>3. \A k \in 1..(n + 1) : k \in 1..n \/ k = n + 1
  BY <1>2
<1>4. ToSet(t) = ToSet(s) \cup {e}
  BY <1>2, <1>3 DEF ToSet
<1>5. t # <<>>
  <2>1. n + 1 \in DOMAIN t
    BY <1>2
  <2> QED BY <2>1
<1>6. IsInjective(s) /\ e \notin ToSet(s) => IsInjective(t)
  BY <1>2, <1>3 DEF IsInjective, ToSet
<1> QED BY <1>1, <1>4, <1>5, <1>6

LEMMA ColumnFacts ==
  /\ TaskColumns \in Seq(ToSet(TaskColumns)) /\ DOMAIN TaskColumns = 1..15
  /\ \A j, k \in 1..15 : TaskColumns[j] = TaskColumns[k] => j = k
  /\ OldTaskColumns \in Seq(ToSet(OldTaskColumns)) /\ DOMAIN OldTaskColumns = 1..14
  /\ \A j, k \in 1..14 : OldTaskColumns[j] = OldTaskColumns[k] => j = k
  /\ \A k \in 1..14 : OldTaskColumns[k] # "statement_json"
  /\ RequestColumns \in Seq(ToSet(RequestColumns)) /\ DOMAIN RequestColumns = 1..4
  /\ \A j, k \in 1..4 : RequestColumns[j] = RequestColumns[k] => j = k
  /\ \A k \in 1..4 : RequestColumns[k] # "applied_verdict"
<1>1. ASSUME NEW c, NEW n \in Nat, DOMAIN c = 1..n, c = [k \in 1..n |-> c[k]]
      PROVE  c \in Seq(ToSet(c))
  <2>1. \A k \in 1..n : c[k] \in ToSet(c)
    BY <1>1 DEF ToSet
  <2> QED BY <1>1, <2>1
<1>2. DOMAIN TaskColumns = 1..15 /\ TaskColumns = [k \in 1..15 |-> TaskColumns[k]]
  BY DEF TaskColumns
<1>3. DOMAIN OldTaskColumns = 1..14 /\ OldTaskColumns = [k \in 1..14 |-> OldTaskColumns[k]]
  BY DEF OldTaskColumns
<1>4. DOMAIN RequestColumns = 1..4 /\ RequestColumns = [k \in 1..4 |-> RequestColumns[k]]
  BY DEF RequestColumns
<1>5. ASSUME NEW j \in 1..15, NEW k \in 1..15, TaskColumns[j] = TaskColumns[k] PROVE j = k
  BY <1>5, SMTT(60) DEF TaskColumns
<1>6. ASSUME NEW j \in 1..14, NEW k \in 1..14, OldTaskColumns[j] = OldTaskColumns[k] PROVE j = k
  BY <1>6, SMTT(60) DEF OldTaskColumns
<1>7. ASSUME NEW j \in 1..4, NEW k \in 1..4, RequestColumns[j] = RequestColumns[k] PROVE j = k
  BY <1>7 DEF RequestColumns
<1>8. \A k \in 1..14 : OldTaskColumns[k] # "statement_json"
  BY DEF OldTaskColumns
<1>9. \A k \in 1..4 : RequestColumns[k] # "applied_verdict"
  BY DEF RequestColumns
<1>10. /\ TaskColumns \in Seq(ToSet(TaskColumns)) /\ OldTaskColumns \in Seq(ToSet(OldTaskColumns))
       /\ RequestColumns \in Seq(ToSet(RequestColumns))
  <2>1. 15 \in Nat /\ 14 \in Nat /\ 4 \in Nat
    OBVIOUS
  <2>2. TaskColumns \in Seq(ToSet(TaskColumns))
    BY <1>1, <1>2, <2>1
  <2>3. OldTaskColumns \in Seq(ToSet(OldTaskColumns))
    BY <1>1, <1>3, <2>1
  <2>4. RequestColumns \in Seq(ToSet(RequestColumns))
    BY <1>1, <1>4, <2>1
  <2> QED BY <2>2, <2>3, <2>4
<1> QED BY <1>2, <1>3, <1>4, <1>5, <1>6, <1>7, <1>8, <1>9, <1>10

\* No layout names a column twice; only the old tasks table lacks its statement,
\* and only the migrated requests table has its verdict.
LEMMA Layouts ==
  /\ IsInjective(TaskColumns) /\ IsInjective(OldTaskColumns) /\ IsInjective(MigratedTasks)
  /\ IsInjective(RequestColumns) /\ IsInjective(MigratedRequests) /\ IsInjective(<<>>)
  /\ TaskColumns # <<>> /\ OldTaskColumns # <<>> /\ MigratedTasks # <<>>
  /\ RequestColumns # <<>> /\ MigratedRequests # <<>>
  /\ "statement_json" \in ToSet(TaskColumns) /\ "statement_json" \notin ToSet(OldTaskColumns)
  /\ ToSet(MigratedTasks) = ToSet(OldTaskColumns) \cup {"statement_json"}
  /\ "applied_verdict" \notin ToSet(RequestColumns)
  /\ "applied_verdict" \in ToSet(MigratedRequests)
<1>1. ASSUME NEW c, NEW n \in Nat, n # 0, DOMAIN c = 1..n,
             \A j, k \in 1..n : c[j] = c[k] => j = k
      PROVE  IsInjective(c) /\ c # <<>>
  <2>1. 1 \in DOMAIN c
    BY <1>1
  <2> QED BY <1>1, <2>1 DEF IsInjective
<1>2. IsInjective(TaskColumns) /\ TaskColumns # <<>>
  <2>1. 15 \in Nat /\ 15 # 0
    OBVIOUS
  <2> QED BY <1>1, <2>1, ColumnFacts
<1>3. IsInjective(OldTaskColumns) /\ OldTaskColumns # <<>>
  <2>1. 14 \in Nat /\ 14 # 0
    OBVIOUS
  <2> QED BY <1>1, <2>1, ColumnFacts
<1>4. IsInjective(RequestColumns) /\ RequestColumns # <<>>
  <2>1. 4 \in Nat /\ 4 # 0
    OBVIOUS
  <2> QED BY <1>1, <2>1, ColumnFacts
<1>5. "statement_json" \in ToSet(TaskColumns)
  <2>1. TaskColumns[4] = "statement_json"
    BY DEF TaskColumns
  <2> QED BY <2>1, ColumnFacts DEF ToSet
<1>6. "statement_json" \notin ToSet(OldTaskColumns)
  BY ColumnFacts, Zenon DEF ToSet
<1>7. "applied_verdict" \notin ToSet(RequestColumns)
  BY ColumnFacts, Zenon DEF ToSet
<1>8. /\ IsInjective(MigratedTasks) /\ MigratedTasks # <<>>
      /\ ToSet(MigratedTasks) = ToSet(OldTaskColumns) \cup {"statement_json"}
  BY <1>3, <1>6, ColumnFacts, AppendFresh DEF MigratedTasks
<1>9. /\ IsInjective(MigratedRequests) /\ MigratedRequests # <<>>
      /\ ToSet(MigratedRequests) = ToSet(RequestColumns) \cup {"applied_verdict"}
  BY <1>4, <1>7, ColumnFacts, AppendFresh DEF MigratedRequests
<1>10. IsInjective(<<>>)
  BY DEF IsInjective
<1> QED BY <1>2, <1>3, <1>4, <1>5, <1>6, <1>7, <1>8, <1>9, <1>10

\* The column at a position takes the value at that position.
LEMMA InsertedFacts ==
  ASSUME NEW columns, IsInjective(columns), NEW values, NEW row,
         row = Inserted(columns, values)
  PROVE  /\ DOMAIN row = ToSet(columns)
         /\ \A k \in DOMAIN columns : row[columns[k]] = values[k]
<1>1. DOMAIN row = ToSet(columns)
  BY DEF Inserted
<1>2. ASSUME NEW k \in DOMAIN columns PROVE row[columns[k]] = values[k]
  <2>1. columns[k] \in ToSet(columns)
    BY <1>2 DEF ToSet
  <2>2. k = CHOOSE j \in DOMAIN columns : columns[j] = columns[k]
    BY <1>2 DEF IsInjective
  <2> QED BY <2>1, <2>2 DEF Inserted
<1> QED BY <1>1, <1>2

\* What create_task writes to a table it created: an intake with its hashes.
LEMMA CreateTaskWrites ==
  ASSUME NEW intake \in IntakeRecord, NEW row, row = Inserted(TaskColumns, Values(intake))
  PROVE  DOMAIN row = ToSet(TaskColumns) /\ CreatedRow(row, intake, FALSE)
<1>1. PICK values : values = Values(intake)
  OBVIOUS
<1>2. /\ DOMAIN row = ToSet(TaskColumns)
      /\ \A k \in 1..15 : row[TaskColumns[k]] = values[k]
  <2>1. IsInjective(TaskColumns) /\ DOMAIN TaskColumns = 1..15
    BY Layouts, ColumnFacts
  <2>2. row = Inserted(TaskColumns, values)
    BY <1>1
  <2>3. /\ DOMAIN row = ToSet(TaskColumns)
        /\ \A k \in DOMAIN TaskColumns : row[TaskColumns[k]] = values[k]
    BY <2>1, <2>2, InsertedFacts
  <2> QED BY <2>1, <2>3, Zenon
<1>3. /\ TaskColumns[4] = "statement_json" /\ TaskColumns[5] = "acceptance_json"
      /\ TaskColumns[6] = "constraints_json" /\ TaskColumns[7] = "scope_json"
      /\ TaskColumns[8] = "goal_hash" /\ TaskColumns[9] = "acceptance_hash"
      /\ TaskColumns[10] = "constraints_hash" /\ TaskColumns[11] = "scope_budget_hash"
  BY DEF TaskColumns
<1>4. /\ values[4] = intake.statement /\ values[5] = intake.acceptance
      /\ values[6] = intake.constraints /\ values[7] = intake.scope
      /\ values[8] = intake.statement /\ values[9] = intake.acceptance
      /\ values[10] = intake.constraints /\ values[11] = intake.scope
  BY <1>1 DEF Values, AsPayload
<1>5. /\ row["statement_json"] = intake.statement /\ row["acceptance_json"] = intake.acceptance
      /\ row["constraints_json"] = intake.constraints /\ row["scope_json"] = intake.scope
      /\ row["goal_hash"] = intake.statement /\ row["acceptance_hash"] = intake.acceptance
      /\ row["constraints_hash"] = intake.constraints /\ row["scope_budget_hash"] = intake.scope
  <2>1. 4 \in 1..15 /\ 5 \in 1..15 /\ 6 \in 1..15 /\ 7 \in 1..15
    OBVIOUS
  <2>2. 8 \in 1..15 /\ 9 \in 1..15 /\ 10 \in 1..15 /\ 11 \in 1..15
    OBVIOUS
  <2>3. /\ row["statement_json"] = values[4] /\ row["acceptance_json"] = values[5]
        /\ row["constraints_json"] = values[6] /\ row["scope_json"] = values[7]
    BY <1>2, <1>3, <2>1
  <2>4. /\ row["goal_hash"] = values[8] /\ row["acceptance_hash"] = values[9]
        /\ row["constraints_hash"] = values[10] /\ row["scope_budget_hash"] = values[11]
    BY <1>2, <1>3, <2>2
  <2> QED BY <1>4, <2>3, <2>4
<1>6. Stored(row) = intake
  BY <1>5 DEF Stored, IntakeRecord
<1> QED BY <1>2, <1>5, <1>6 DEF CreatedRow

\* A migrated table takes the NULL of head_sha for created_at, and refuses it.
LEMMA MigratedTableRefuses ==
  ASSUME NEW intake, NEW row, row = Inserted(MigratedTasks, Values(intake))
  PROVE  ~Accepted(row)
<1>1. PICK columns, values : columns = MigratedTasks /\ values = Values(intake)
  OBVIOUS
<1>2. 13 \in DOMAIN columns /\ columns[13] = OldTaskColumns[13]
  <2>1. PICK old, S, e : old = OldTaskColumns /\ S = ToSet(OldTaskColumns) /\ e = "statement_json"
    OBVIOUS
  <2>2. old \in Seq(S)
    BY <2>1, ColumnFacts
  <2>3. /\ Append(old, e) \in Seq(S \cup {e}) /\ Len(Append(old, e)) = Len(old) + 1
        /\ \A k \in 1..Len(old) : Append(old, e)[k] = old[k]
    BY <2>2, AppendFacts
  <2>4. columns = Append(old, e)
    BY <1>1, <2>1 DEF MigratedTasks
  <2>5. Len(old) = 14
    <3>1. DOMAIN old = 1..14
      BY <2>1, ColumnFacts
    <3> QED BY <2>2, <3>1
  <2>6. DOMAIN columns = 1..Len(columns)
    BY <2>3, <2>4
  <2>7. 13 \in 1..14 /\ 13 \in 1..(14 + 1)
    OBVIOUS
  <2> QED BY <2>1, <2>3, <2>4, <2>5, <2>6, <2>7, Zenon
<1>3. OldTaskColumns[13] = "created_at" /\ TaskColumns[14] = "created_at"
  BY DEF OldTaskColumns, TaskColumns
<1>4. values[13] = Null
  BY <1>1 DEF Values
<1>5. row["created_at"] = Null
  BY <1>1, <1>2, <1>3, <1>4, InsertedFacts, Layouts
<1>6. "created_at" \in NotNull
  BY <1>3, ColumnFacts DEF NotNull, ToSet
<1> QED BY <1>5, <1>6 DEF Accepted

-----------------------------------------------------------------------------
(***************************************************************************)
(* Normalising is idempotent.                                              *)
(***************************************************************************)
LEMMA StripFacts ==
  ASSUME NEW text \in RawText
  PROVE  /\ Strip(text) \in RawText /\ Strip(Strip(text)) = Strip(text)
         /\ Strip(text).core = text.core
BY DEF Strip, RawText

LEMMA PresentFacts ==
  ASSUME NEW text \in RawText \cup {Null}
  PROVE  /\ Present(text) \in RawText \cup {Null}
         /\ Present(Present(text)) = Present(text)
         /\ Present(text) # Null => Present(text) = Strip(text) /\ text \in RawText
                                    /\ ~IsBlank(text)
<1>1. CASE text = Null
  BY <1>1 DEF Present
<1>2. CASE text # Null /\ IsBlank(text)
  BY <1>2 DEF Present
<1>3. CASE text # Null /\ ~IsBlank(text)
  <2>1. text \in RawText /\ Present(text) = Strip(text)
    BY <1>3 DEF Present
  <2>2. Strip(text) \in RawText /\ Strip(text) # Null /\ ~IsBlank(Strip(text))
    BY <1>3, <2>1, StripFacts, NullAssumption DEF IsBlank
  <2> QED BY <1>3, <2>1, <2>2, StripFacts DEF Present
<1> QED BY <1>1, <1>2, <1>3

LEMMA KeptFacts ==
  ASSUME NEW list \in Seq(RawText)
  PROVE  /\ Kept(list) \in Seq(RawText)
         /\ Kept(Kept(list)) = Kept(list)
<1>1. PICK P, some, kept : /\ P = {k \in DOMAIN list : ~IsBlank(list[k])}
                           /\ some = Items(list, P) /\ kept = Kept(list)
  OBVIOUS
<1>2. P \in SUBSET (1..Len(list)) /\ \A k \in P : list[k] \in RawText /\ ~IsBlank(list[k])
  BY <1>1, ElementOfSeq
<1>3. some \in Seq(RawText) /\ \A n \in 1..Len(some) : ~IsBlank(some[n])
  <2>1. /\ Items(list, P) \in Seq(RawText)
        /\ \A n \in 1..Len(Items(list, P)) : \E k \in P : Items(list, P)[n] = list[k]
    BY <1>2, ItemsFacts
  <2> QED BY <1>1, <1>2, <2>1
<1>4. kept = [k \in 1..Len(some) |-> Strip(some[k])]
  BY <1>1, <1>3 DEF Kept
<1>5. \A n \in 1..Len(some) : /\ Strip(some[n]) \in RawText /\ ~IsBlank(Strip(some[n]))
                              /\ Strip(Strip(some[n])) = Strip(some[n])
  BY <1>3, ElementOfSeq, StripFacts DEF IsBlank
<1>6. /\ kept \in Seq(RawText) /\ Len(kept) = Len(some) /\ DOMAIN kept = 1..Len(some)
      /\ \A n \in 1..Len(kept) : ~IsBlank(kept[n]) /\ Strip(kept[n]) = kept[n]
  <2>1. Len(some) \in Nat
    BY <1>3
  <2>2. kept \in Seq(RawText) /\ Len(kept) = Len(some) /\ DOMAIN kept = 1..Len(some)
    BY <1>4, <1>5, <2>1
  <2>3. \A n \in 1..Len(some) : kept[n] = Strip(some[n])
    BY <1>4
  <2> QED BY <1>5, <2>2, <2>3
<1>7. {k \in DOMAIN kept : ~IsBlank(kept[k])} = 1..Len(kept)
  BY <1>6
<1>8. Items(kept, 1..Len(kept)) = kept
  BY <1>6, AllItems
<1>9. Kept(kept) = [k \in DOMAIN kept |-> Strip(kept[k])]
  BY <1>7, <1>8 DEF Kept
<1>10. Kept(kept) = kept
  BY <1>6, <1>9
<1> QED BY <1>1, <1>6, <1>10

LEMMA CreateFacts ==
  ASSUME NEW raw \in IntakeRecord, Valid(raw)
  PROVE  /\ Create(raw) \in IntakeRecord /\ Create(Create(raw)) = Create(raw)
         /\ Valid(Create(raw))
<1>1. PICK s, d, c : s = raw.statement /\ d = Strip(s.desired) /\ c = Present(s.current)
  OBVIOUS
<1>2. /\ s.intent \in {"BUGFIX", "FEATURE", "REFACTOR"} /\ s.desired \in RawText
      /\ s.current \in RawText \cup {Null}
      /\ raw.acceptance \in Seq(RawText) /\ raw.constraints \in Seq(RawText)
      /\ raw.scope \in Scopes \cup {OldScope}
  BY <1>1 DEF IntakeRecord, RawStatement
<1>3. /\ ~IsBlank(s.desired) /\ (s.intent = "BUGFIX" => c \notin {Null, d})
      /\ ValidScope(raw.scope)
  BY <1>1 DEF Valid, ValidStatement
<1>4. d \in RawText /\ Strip(d) = d /\ ~IsBlank(d)
  BY <1>1, <1>2, <1>3, StripFacts DEF IsBlank
<1>5. c \in RawText \cup {Null} /\ Present(c) = c
  BY <1>1, <1>2, PresentFacts
<1>6. PICK t : t = [intent |-> s.intent, desired |-> d, current |-> c]
  OBVIOUS
<1>7. PICK a, b : a = Kept(raw.acceptance) /\ b = Kept(raw.constraints)
  OBVIOUS
<1>8. Create(raw) = [statement |-> t, acceptance |-> a, constraints |-> b, scope |-> raw.scope]
  BY <1>1, <1>6, <1>7 DEF Create, Statement
<1>9. a \in Seq(RawText) /\ b \in Seq(RawText) /\ Kept(a) = a /\ Kept(b) = b
  BY <1>2, <1>7, KeptFacts
<1>10. t \in RawStatement /\ Statement(t) = t
  BY <1>2, <1>4, <1>5, <1>6 DEF RawStatement, Statement
<1>11. ValidStatement(t)
  BY <1>3, <1>4, <1>5, <1>6 DEF ValidStatement
<1>12. Create(raw) \in IntakeRecord
  BY <1>2, <1>8, <1>9, <1>10 DEF IntakeRecord
<1>13. Create(Create(raw)) = Create(raw)
  BY <1>8, <1>9, <1>10 DEF Create
<1> QED BY <1>3, <1>8, <1>11, <1>12, <1>13 DEF Valid

-----------------------------------------------------------------------------
(***************************************************************************)
(* The invariant holds in every reachable state.                           *)
(***************************************************************************)
LEMMA Plan ==
  /\ Len(Created) = 2 /\ Opened = 4
  /\ Created[1] = [table |-> "tasks", columns |-> TaskColumns]
  /\ Created[2] = [table |-> "supervision_requests", columns |-> RequestColumns]
  /\ Migrations[1] = [table |-> "tasks", column |-> "statement_json"]
  /\ Migrations[2] = [table |-> "supervision_requests", column |-> "applied_verdict"]
BY DEF Opened, Created, Migrations

\* The layouts of a table that has a column, and of one that lacks it.
LEMMA WhichLayout ==
  ASSUME SchemaOK
  PROVE  /\ "statement_json" \in ToSet(tables["tasks"])
              <=> tables["tasks"] \in {TaskColumns, MigratedTasks}
         /\ "applied_verdict" \in ToSet(tables["supervision_requests"])
              <=> tables["supervision_requests"] = MigratedRequests
<1>1. ToSet(<<>>) = {}
  BY DEF ToSet
<1>2. "statement_json" \in ToSet(tables["tasks"])
        <=> tables["tasks"] \in {TaskColumns, MigratedTasks}
  BY <1>1, Layouts DEF SchemaOK
<1>3. "applied_verdict" \in ToSet(tables["supervision_requests"])
        <=> tables["supervision_requests"] = MigratedRequests
  BY <1>1, Layouts DEF SchemaOK
<1> QED BY <1>2, <1>3

LEMMA InitIInv == Init => IInv
<1> SUFFICES ASSUME Init PROVE IInv
  OBVIOUS
<1>1. /\ step = [c \in Connections |-> 0] /\ missing = [c \in Connections |-> FALSE]
      /\ edits = {} /\ refused = FALSE /\ asked = [k \in DOMAIN rows |-> Null]
  BY DEF Init
<1>2. CASE tables = [n \in {"tasks", "supervision_requests"} |-> <<>>] /\ rows = <<>>
  <2>1. SchemaOK
    BY <1>1, <1>2 DEF SchemaOK
  <2>2. rows \in Seq({}) /\ asked = <<>> /\ Len(rows) = 0 /\ Len(asked) = 0
    BY <1>1, <1>2
  <2>3. asked \in Seq(IntakeRecord \cup {Null}) /\ edits \subseteq 1..Len(rows)
    BY <1>1, <2>2
  <2>4. \A k \in 1..Len(rows) : RowOK(rows[k], asked[k], k \in edits)
    BY <2>2
  <2>5. \E S : rows \in Seq(S)
    BY <2>2
  <2>6. RowsOK
    BY <1>1, <1>2, <2>2, <2>3, <2>4, <2>5 DEF RowsOK
  <2> QED BY <2>1, <2>6 DEF IInv
<1>3. CASE /\ tables = [tasks |-> OldTaskColumns, supervision_requests |-> RequestColumns]
           /\ rows = <<OldRow>>
  <2>1. /\ tables["tasks"] = OldTaskColumns /\ tables["supervision_requests"] = RequestColumns
        /\ tables = [n \in {"tasks", "supervision_requests"} |-> tables[n]]
    BY <1>3
  <2>2. SchemaOK
    BY <1>1, <2>1 DEF SchemaOK
  <2>3. "goal_hash" \in ToSet(OldTaskColumns)
    <3>1. OldTaskColumns[7] = "goal_hash"
      BY DEF OldTaskColumns
    <3> QED BY <3>1, ColumnFacts DEF ToSet
  <2>4. /\ DOMAIN OldRow = ToSet(OldTaskColumns) /\ OldRow["goal_hash"] = Null
    BY <2>3 DEF OldRow
  <2>5. RowOK(OldRow, Null, 1 \in edits)
    <3>1. TypedRow(OldRow)
      <4>1. ASSUME NEW name \in EditedColumns, name \in ToSet(OldTaskColumns)
            PROVE  OldRow[name] \in Written[name]
        <5>1. name # "statement_json"
          BY <4>1, Layouts
        <5>2. CASE name = "scope_json"
          BY <4>1, <5>2 DEF OldRow, Written
        <5>3. CASE name \in {"acceptance_json", "constraints_json"}
          <6>1. OldRow[name] = <<>>
            BY <4>1, <5>3 DEF OldRow
          <6>2. Written[name] = Seq(RawText)
            BY <5>3, Zenon DEF Written, EditedColumns
          <6> QED BY <6>1, <6>2
        <5> QED BY <4>1, <5>1, <5>2, <5>3 DEF EditedColumns
      <4> QED BY <2>4, <4>1 DEF TypedRow
    <3> QED BY <2>1, <2>4, <3>1, Layouts DEF RowOK, OlderRow
  <2>6. /\ rows \in Seq({OldRow}) /\ Len(rows) = 1 /\ rows[1] = OldRow
        /\ asked \in Seq(IntakeRecord \cup {Null}) /\ Len(asked) = 1 /\ asked[1] = Null
    BY <1>1, <1>3
  <2>7. \A k \in 1..Len(rows) : RowOK(rows[k], asked[k], k \in edits)
    <3>1. RowOK(rows[1], asked[1], 1 \in edits)
      BY <2>5, <2>6
    <3>2. 1..Len(rows) = {1}
      BY <2>6
    <3> QED BY <3>1, <3>2, Zenon
  <2>8. tables["tasks"] # <<>>
    BY <2>1, Layouts
  <2>9. edits \subseteq 1..Len(rows) /\ refused \in BOOLEAN
    BY <1>1
  <2> QED BY <2>2, <2>6, <2>7, <2>8, <2>9 DEF IInv, RowsOK
<1> QED BY <1>2, <1>3 DEF Init

LEMMA RowsStay ==
  ASSUME RowsOK, UNCHANGED <<tables, rows, history>>
  PROVE  RowsOK'
<1>1. \A row, intake, edited : RowOK(row, intake, edited)' <=> RowOK(row, intake, edited)
  BY DEF RowOK
<1> QED BY <1>1 DEF RowsOK, history

LEMMA CreateSchemaKeeps ==
  ASSUME IInv, NEW c \in Connections, CreateSchema(c)
  PROVE  IInv'
<1>1. /\ SchemaOK /\ RowsOK /\ step[c] \in {0, 1}
      /\ step' = [step EXCEPT ![c] = @ + 1] /\ UNCHANGED <<rows, missing, history>>
  BY Plan DEF IInv, CreateSchema, SchemaOK
<1>2. /\ step'[c] = step[c] + 1 /\ \A d \in Connections : d # c => step'[d] = step[d]
      /\ step' \in [Connections -> 0..4]
  BY <1>1 DEF SchemaOK
<1>3. CASE step[c] = 0
  <2>1. tables' = [tables EXCEPT !["tasks"] = IF @ # <<>> THEN @ ELSE TaskColumns]
    <3>1. PICK new : new = Created[step[c] + 1]
      OBVIOUS
    <3>2. step[c] + 1 = 1
      BY <1>3
    <3>3. new.table = "tasks" /\ new.columns = TaskColumns
      BY <3>1, <3>2, Plan
    <3>4. tables' = [tables EXCEPT ![new.table] = IF @ # <<>> THEN @ ELSE new.columns]
      BY <3>1 DEF CreateSchema
    <3> QED BY <3>3, <3>4
  <2>2. /\ tables'["tasks"] = IF tables["tasks"] # <<>> THEN tables["tasks"] ELSE TaskColumns
        /\ tables'["supervision_requests"] = tables["supervision_requests"]
        /\ tables' = [n \in {"tasks", "supervision_requests"} |-> tables'[n]]
    BY <1>1, <2>1 DEF SchemaOK
  <2>3. SchemaOK'
    BY <1>1, <1>2, <1>3, <2>2, Layouts DEF SchemaOK
  <2>4. CASE tables["tasks"] = <<>>
    <3>1. rows = <<>> /\ Len(rows) = 0
      BY <1>1, <2>4 DEF RowsOK
    <3> QED BY <1>1, <2>3, <3>1 DEF IInv, RowsOK, history
  <2>5. CASE tables["tasks"] # <<>>
    <3>1. tables' = tables
      BY <1>1, <2>1, <2>5 DEF SchemaOK
    <3> QED BY <1>1, <2>3, <3>1, RowsStay DEF IInv
  <2> QED BY <2>4, <2>5
<1>4. CASE step[c] = 1
  <2>1. tables' = [tables EXCEPT !["supervision_requests"] =
                     IF @ # <<>> THEN @ ELSE RequestColumns]
    <3>1. PICK new : new = Created[step[c] + 1]
      OBVIOUS
    <3>2. step[c] + 1 = 2
      BY <1>4
    <3>3. new.table = "supervision_requests" /\ new.columns = RequestColumns
      BY <3>1, <3>2, Plan
    <3>4. tables' = [tables EXCEPT ![new.table] = IF @ # <<>> THEN @ ELSE new.columns]
      BY <3>1 DEF CreateSchema
    <3> QED BY <3>3, <3>4
  <2>2. /\ tables'["tasks"] = tables["tasks"]
        /\ tables'["supervision_requests"] =
             IF tables["supervision_requests"] # <<>> THEN tables["supervision_requests"]
                                                      ELSE RequestColumns
        /\ tables' = [n \in {"tasks", "supervision_requests"} |-> tables'[n]]
    BY <1>1, <2>1 DEF SchemaOK
  <2>3. SchemaOK'
    BY <1>1, <1>2, <1>4, <2>2, Layouts DEF SchemaOK
  <2>4. \A row, intake, edited : RowOK(row, intake, edited)' <=> RowOK(row, intake, edited)
    BY <2>2 DEF RowOK
  <2>5. RowsOK'
    BY <1>1, <2>2, <2>4 DEF RowsOK, history
  <2> QED BY <2>3, <2>5 DEF IInv
<1> QED BY <1>1, <1>3, <1>4

\* A connection that migrates is at one of the two migrations.
LEMMA MigratingFacts ==
  ASSUME SchemaOK, NEW c \in Connections, Migrating(c)
  PROVE  \/ /\ step[c] = 2 /\ Migration(c) = Migrations[1]
            /\ Has(Migration(c)) <=> tables["tasks"] \in {TaskColumns, MigratedTasks}
            /\ ~Has(Migration(c)) => tables["tasks"] = OldTaskColumns
         \/ /\ step[c] = 3 /\ Migration(c) = Migrations[2]
            /\ Has(Migration(c)) <=> tables["supervision_requests"] = MigratedRequests
            /\ ~Has(Migration(c)) => tables["supervision_requests"] = RequestColumns
<1>1. step[c] \in {2, 3}
  BY Plan DEF SchemaOK, Migrating
<1>2. tables["tasks"] # <<>> /\ tables["supervision_requests"] # <<>>
  BY <1>1 DEF SchemaOK
<1>3. CASE step[c] = 2
  <2>1. Migration(c) = Migrations[1]
    BY <1>3, Plan DEF Migration
  <2>2. Has(Migration(c)) <=> "statement_json" \in ToSet(tables["tasks"])
    BY <2>1, Plan DEF Has
  <2> QED BY <1>2, <1>3, <2>1, <2>2, WhichLayout DEF SchemaOK
<1>4. CASE step[c] = 3
  <2>1. Migration(c) = Migrations[2]
    BY <1>4, Plan DEF Migration
  <2>2. Has(Migration(c)) <=> "applied_verdict" \in ToSet(tables["supervision_requests"])
    BY <2>1, Plan DEF Has
  <2> QED BY <1>2, <1>4, <2>1, <2>2, WhichLayout DEF SchemaOK
<1> QED BY <1>1, <1>3, <1>4

LEMMA ReadColumnsKeeps ==
  ASSUME IInv, NEW c \in Connections, ReadColumns(c)
  PROVE  IInv'
<1>1. /\ SchemaOK /\ RowsOK /\ Migrating(c)
      /\ missing' = [missing EXCEPT ![c] = ~Has(Migration(c))]
      /\ step' = [step EXCEPT ![c] = IF missing'[c] THEN @ ELSE @ + 1]
      /\ UNCHANGED <<tables, rows, history>>
  BY DEF IInv, ReadColumns
<1>2. step[c] \in {2, 3}
  BY <1>1, MigratingFacts
<1>3. /\ missing' \in [Connections -> BOOLEAN]
      /\ missing'[c] <=> ~Has(Migration(c))
      /\ \A d \in Connections : d # c => missing'[d] = missing[d]
  <2>1. (~Has(Migration(c))) \in BOOLEAN
    BY DEF Has
  <2> QED BY <1>1, <2>1 DEF SchemaOK
<1>4. /\ step' \in [Connections -> 0..4]
      /\ step'[c] = IF Has(Migration(c)) THEN step[c] + 1 ELSE step[c]
      /\ \A d \in Connections : d # c => step'[d] = step[d]
  BY <1>1, <1>2, <1>3 DEF SchemaOK
<1>5. SchemaOK'
  <2>1. ASSUME NEW d \in Connections
        PROVE  /\ step'[d] > 2 => tables["tasks"] \in {TaskColumns, MigratedTasks}
               /\ step'[d] > 3 => tables["supervision_requests"] = MigratedRequests
               /\ missing'[d] => step'[d] \in {2, 3}
               /\ step'[d] > 0 => tables["tasks"] # <<>>
               /\ step'[d] > 1 => tables["supervision_requests"] # <<>>
    <3>1. CASE d = c
      BY <1>1, <1>2, <1>3, <1>4, <3>1, MigratingFacts DEF SchemaOK
    <3>2. CASE d # c
      BY <1>1, <1>3, <1>4, <3>2 DEF SchemaOK
    <3> QED BY <3>1, <3>2
  <2> QED BY <1>1, <1>3, <1>4, <2>1 DEF SchemaOK
<1> QED BY <1>1, <1>5, RowsStay DEF IInv

\* The process ends, or the constructor raises.
LEMMA RestartKeeps ==
  ASSUME IInv, NEW c \in Connections, UNCHANGED <<tables, rows, history>>,
         step' = [step EXCEPT ![c] = 0], missing' = [missing EXCEPT ![c] = FALSE]
  PROVE  IInv'
<1>1. SchemaOK /\ RowsOK
  BY DEF IInv
<1>2. /\ step' \in [Connections -> 0..4] /\ missing' \in [Connections -> BOOLEAN]
      /\ step'[c] = 0 /\ missing'[c] = FALSE
      /\ \A d \in Connections : d # c => step'[d] = step[d] /\ missing'[d] = missing[d]
  BY <1>1 DEF SchemaOK
<1>3. SchemaOK'
  BY <1>1, <1>2 DEF SchemaOK
<1> QED BY <1>1, <1>3, RowsStay DEF IInv

\* Whatever n rows there are make a sequence.
LEMMA RowSequence ==
  ASSUME NEW n \in Nat, NEW s, s = [k \in 1..n |-> s[k]]
  PROVE  (\E S : s \in Seq(S)) /\ Len(s) = n
<1>1. PICK S : S = {s[k] : k \in 1..n}
  OBVIOUS
<1>2. \A k \in 1..n : s[k] \in S
  BY <1>1
<1>3. s \in Seq(S) /\ Len(s) = n
  BY <1>2
<1> QED BY <1>3

\* To add the statement's column leaves an older row an older row.
LEMMA OlderRowGrows ==
  ASSUME NEW row, DOMAIN row = ToSet(OldTaskColumns), NEW edited \in BOOLEAN,
         OlderRow(row, edited), NEW grown,
         grown = [name \in DOMAIN row \cup {"statement_json"} |->
                    IF name = "statement_json" THEN Null ELSE row[name]]
  PROVE  DOMAIN grown = ToSet(MigratedTasks) /\ OlderRow(grown, edited)
<1>1. "goal_hash" \in ToSet(OldTaskColumns)
  <2>1. OldTaskColumns[7] = "goal_hash"
    BY DEF OldTaskColumns
  <2> QED BY <2>1, ColumnFacts DEF ToSet
<1>2. DOMAIN grown = ToSet(MigratedTasks)
  BY Layouts
<1>3. grown["goal_hash"] = row["goal_hash"] /\ grown["statement_json"] = Null
  BY <1>1
<1>4. TypedRow(grown)
  <2>1. Null \in Written["statement_json"]
    BY DEF Written, EditedColumns
  <2>2. \A name \in DOMAIN grown : name # "statement_json" =>
                                    name \in DOMAIN row /\ grown[name] = row[name]
    OBVIOUS
  <2>3. TypedRow(row)
    BY DEF OlderRow
  <2> QED BY <1>3, <2>1, <2>2, <2>3 DEF TypedRow
<1> QED BY <1>2, <1>3, <1>4 DEF OlderRow

LEMMA AddColumnKeeps ==
  ASSUME IInv, NEW c \in Connections, AddColumn(c)
  PROVE  IInv'
<1>1. /\ SchemaOK /\ RowsOK /\ Migrating(c) /\ ~Has(Migration(c))
      /\ step' = [step EXCEPT ![c] = @ + 1] /\ missing' = [missing EXCEPT ![c] = FALSE]
      /\ UNCHANGED history
  BY DEF IInv, AddColumn
<1>2. step[c] \in {2, 3}
  BY <1>1, MigratingFacts
<1>3. /\ step' \in [Connections -> 0..4] /\ missing' \in [Connections -> BOOLEAN]
      /\ step'[c] = step[c] + 1 /\ missing'[c] = FALSE
      /\ \A d \in Connections : d # c => step'[d] = step[d] /\ missing'[d] = missing[d]
  BY <1>1, <1>2 DEF SchemaOK
<1>4. PICK m : m = Migration(c)
  OBVIOUS
<1>5. /\ tables' = [tables EXCEPT ![m.table] = Append(@, m.column)]
      /\ rows' = IF m.table # "tasks" THEN rows
                 ELSE [k \in DOMAIN rows |->
                         [name \in DOMAIN rows[k] \cup {m.column} |->
                            IF name = m.column THEN Null ELSE rows[k][name]]]
  BY <1>4 DEF AddColumn
<1>6. CASE step[c] = 2
  <2>1. m.table = "tasks" /\ m.column = "statement_json" /\ tables["tasks"] = OldTaskColumns
    BY <1>1, <1>4, <1>6, MigratingFacts, Plan
  <2>2. tables' = [tables EXCEPT !["tasks"] = Append(@, "statement_json")]
    BY <1>5, <2>1
  <2>3. /\ tables'["tasks"] = MigratedTasks
        /\ tables'["supervision_requests"] = tables["supervision_requests"]
        /\ tables' = [n \in {"tasks", "supervision_requests"} |-> tables'[n]]
    BY <1>1, <2>1, <2>2 DEF SchemaOK, MigratedTasks
  <2>4. SchemaOK'
    BY <1>1, <1>2, <1>3, <1>6, <2>1, <2>3, Layouts DEF SchemaOK
  <2>5. PICK n : n = Len(rows)
    OBVIOUS
  <2>6. n \in Nat /\ DOMAIN rows = 1..n
    <3>1. PICK S : rows \in Seq(S)
      BY <1>1 DEF RowsOK
    <3> QED BY <2>5, <3>1
  <2>7. rows' = [k \in 1..n |-> [name \in DOMAIN rows[k] \cup {"statement_json"} |->
                                   IF name = "statement_json" THEN Null ELSE rows[k][name]]]
    BY <1>5, <2>1, <2>6
  <2>8. ASSUME NEW k \in 1..n
        PROVE  RowOK(rows[k], asked[k], k \in edits)' /\ asked[k] = Null
    <3>1. RowOK(rows[k], asked[k], k \in edits)
      BY <1>1, <2>5 DEF RowsOK
    <3>2. TaskColumns # OldTaskColumns
      BY Layouts
    <3>3. asked[k] = Null
      BY <2>1, <3>1, <3>2 DEF RowOK
    <3>4. DOMAIN rows[k] = ToSet(OldTaskColumns) /\ OlderRow(rows[k], k \in edits)
      BY <2>1, <3>1, <3>3 DEF RowOK
    <3>5. rows'[k] = [name \in DOMAIN rows[k] \cup {"statement_json"} |->
                        IF name = "statement_json" THEN Null ELSE rows[k][name]]
      BY <2>7
    <3>6. DOMAIN rows'[k] = ToSet(MigratedTasks) /\ OlderRow(rows'[k], k \in edits)
      <4>1. PICK old, grown, edited :
              old = rows[k] /\ grown = rows'[k] /\ edited = (k \in edits)
        OBVIOUS
      <4>2. /\ DOMAIN old = ToSet(OldTaskColumns) /\ edited \in BOOLEAN /\ OlderRow(old, edited)
            /\ grown = [name \in DOMAIN old \cup {"statement_json"} |->
                          IF name = "statement_json" THEN Null ELSE old[name]]
        BY <3>4, <3>5, <4>1
      <4>3. DOMAIN grown = ToSet(MigratedTasks) /\ OlderRow(grown, edited)
        BY <4>2, OlderRowGrows
      <4> QED BY <4>1, <4>3
    <3>7. asked'[k] = Null /\ edits' = edits
      BY <1>1, <3>3 DEF history
    <3> QED BY <2>3, <3>3, <3>6, <3>7 DEF RowOK
  <2>9. (\E S : rows' \in Seq(S)) /\ Len(rows') = n
    <3>1. PICK s : s = rows'
      OBVIOUS
    <3>2. s = [k \in 1..n |-> s[k]]
      BY <2>7, <3>1
    <3> QED BY <2>6, <3>1, <3>2, RowSequence
  <2>10. asked' = asked /\ edits' = edits /\ refused' = refused
    BY <1>1 DEF history
  <2>11. RowsOK'
    <3>1. \A k \in 1..Len(rows') : RowOK(rows[k], asked[k], k \in edits)'
      BY <2>8, <2>9
    <3>2. tables'["tasks"] # <<>>
      BY <2>3, Layouts
    <3> QED BY <1>1, <2>5, <2>9, <2>10, <3>1, <3>2 DEF RowsOK
  <2> QED BY <2>4, <2>11 DEF IInv
<1>7. CASE step[c] = 3
  <2>1. /\ m.table = "supervision_requests" /\ m.column = "applied_verdict"
        /\ tables["supervision_requests"] = RequestColumns
    BY <1>1, <1>4, <1>7, MigratingFacts, Plan
  <2>2. /\ tables' = [tables EXCEPT !["supervision_requests"] = Append(@, "applied_verdict")]
        /\ rows' = rows
    BY <1>5, <2>1
  <2>3. /\ tables'["supervision_requests"] = MigratedRequests
        /\ tables'["tasks"] = tables["tasks"]
        /\ tables' = [n \in {"tasks", "supervision_requests"} |-> tables'[n]]
    BY <1>1, <2>1, <2>2 DEF SchemaOK, MigratedRequests
  <2>4. SchemaOK'
    BY <1>1, <1>2, <1>3, <1>7, <2>1, <2>3, Layouts DEF SchemaOK
  <2>5. \A row, intake, edited : RowOK(row, intake, edited)' <=> RowOK(row, intake, edited)
    BY <2>3 DEF RowOK
  <2>6. RowsOK'
    BY <1>1, <2>2, <2>3, <2>5 DEF RowsOK, history
  <2> QED BY <2>4, <2>6 DEF IInv
<1> QED BY <1>2, <1>6, <1>7

LEMMA CreateTaskKeeps ==
  ASSUME IInv, NEW c \in Connections, NEW raw \in Raw, CreateTask(c, raw)
  PROVE  IInv'
<1>1. PICK row, intake : intake = Create(raw) /\ row = Inserted(tables["tasks"], Values(intake))
  OBVIOUS
<1>2. /\ SchemaOK /\ RowsOK /\ step[c] = 4 /\ Valid(raw)
      /\ UNCHANGED <<tables, step, missing, edits>>
      /\ \/ Accepted(row) /\ rows' = Append(rows, row) /\ asked' = Append(asked, intake)
            /\ refused' = refused
         \/ ~Accepted(row) /\ refused' = TRUE /\ rows' = rows /\ asked' = asked
  BY <1>1, Plan DEF IInv, CreateTask
<1>3. SchemaOK'
  BY <1>2 DEF SchemaOK
<1>4. \A r, i, edited : RowOK(r, i, edited)' <=> RowOK(r, i, edited)
  BY <1>2 DEF RowOK
<1>5. raw \in IntakeRecord
  BY TypedAssumption DEF Raw, IntakeRecord
<1>6. intake \in IntakeRecord /\ intake # Null
  BY <1>1, <1>2, <1>5, CreateFacts, NullAssumption
<1>7. CASE Accepted(row)
  <2>1. tables["tasks"] = TaskColumns
    <3>1. tables["tasks"] \in {TaskColumns, MigratedTasks}
      BY <1>2 DEF SchemaOK
    <3>2. tables["tasks"] # MigratedTasks
      BY <1>1, <1>7, MigratedTableRefuses
    <3> QED BY <3>1, <3>2
  <2>2. RowOK(row, intake, FALSE)
    <3>1. DOMAIN row = ToSet(TaskColumns) /\ CreatedRow(row, intake, FALSE)
      BY <1>1, <1>6, <2>1, CreateTaskWrites
    <3> QED BY <1>1, <1>2, <1>6, <2>1, <3>1 DEF RowOK
  <2>3. PICK S, n : rows \in Seq(S) /\ n = Len(rows)
    BY <1>2 DEF RowsOK
  <2>4. rows' = Append(rows, row) /\ asked' = Append(asked, intake) /\ refused' = refused
    BY <1>2, <1>7
  <2>5. /\ rows' \in Seq(S \cup {row}) /\ Len(rows') = n + 1 /\ n \in Nat
        /\ rows'[n + 1] = row /\ \A k \in 1..n : rows'[k] = rows[k]
    BY <2>3, <2>4, AppendFacts
  <2>6. /\ asked' \in Seq(IntakeRecord \cup {Null}) /\ Len(asked') = n + 1
        /\ asked'[n + 1] = intake /\ \A k \in 1..n : asked'[k] = asked[k]
    <3>1. asked \in Seq(IntakeRecord \cup {Null}) /\ Len(asked) = n
      BY <1>2, <2>3 DEF RowsOK
    <3>2. (IntakeRecord \cup {Null}) \cup {intake} = IntakeRecord \cup {Null}
      BY <1>6
    <3> QED BY <2>4, <3>1, <3>2, AppendFacts
  <2>7. edits \subseteq 1..n /\ edits' = edits
    BY <1>2, <2>3 DEF RowsOK
  <2>8. ASSUME NEW k \in 1..(n + 1) PROVE RowOK(rows[k], asked[k], k \in edits)'
    <3>1. CASE k = n + 1
      <4>1. (k \in edits') = FALSE
        BY <2>5, <2>7, <3>1
      <4>2. rows'[k] = row /\ asked'[k] = intake
        BY <2>5, <2>6, <3>1
      <4> QED BY <1>2, <2>2, <4>1, <4>2 DEF RowOK
    <3>2. CASE k \in 1..n
      <4>1. RowOK(rows[k], asked[k], k \in edits)
        BY <1>2, <2>3, <3>2 DEF RowsOK
      <4>2. rows'[k] = rows[k] /\ asked'[k] = asked[k]
        BY <2>5, <2>6, <3>2
      <4> QED BY <1>2, <2>7, <4>1, <4>2 DEF RowOK
    <3> QED BY <2>5, <3>1, <3>2
  <2>9. tables'["tasks"] # <<>>
    BY <1>2, <2>1, Layouts
  <2>10. edits' \subseteq 1..Len(rows') /\ refused' \in BOOLEAN
    BY <1>2, <2>4, <2>5, <2>7 DEF RowsOK
  <2>11. \A k \in 1..Len(rows') : RowOK(rows[k], asked[k], k \in edits)'
    BY <2>5, <2>8
  <2>12. RowsOK'
    BY <2>5, <2>6, <2>9, <2>10, <2>11 DEF RowsOK
  <2> QED BY <1>3, <2>12 DEF IInv
<1>8. CASE ~Accepted(row)
  <2>1. RowsOK'
    BY <1>2, <1>4, <1>8 DEF RowsOK
  <2> QED BY <1>3, <2>1 DEF IInv
<1> QED BY <1>7, <1>8

LEMMA EditKeeps ==
  ASSUME IInv, NEW i, NEW column \in EditedColumns, NEW value \in Written[column],
         Edit(i, column, value)
  PROVE  IInv'
<1>1. /\ SchemaOK /\ RowsOK /\ i \in DOMAIN rows /\ column \in DOMAIN rows[i]
      /\ rows' = [rows EXCEPT ![i][column] = value] /\ edits' = edits \cup {i}
      /\ UNCHANGED <<tables, step, missing, asked, refused>>
  BY DEF IInv, Edit
<1>2. SchemaOK'
  BY <1>1 DEF SchemaOK
<1>3. PICK S, n : rows \in Seq(S) /\ n = Len(rows)
  BY <1>1 DEF RowsOK
<1>4. n \in Nat /\ DOMAIN rows = 1..n /\ i \in 1..n
  BY <1>1, <1>3
<1>5. PICK row : row = [rows[i] EXCEPT ![column] = value]
  OBVIOUS
<1>6. /\ rows' = [k \in 1..n |-> IF k = i THEN row ELSE rows[k]]
      /\ rows'[i] = row /\ \A k \in 1..n : k # i => rows'[k] = rows[k]
  BY <1>1, <1>4, <1>5
<1>7. (\E T : rows' \in Seq(T)) /\ Len(rows') = n
  <2>1. PICK s : s = rows'
    OBVIOUS
  <2>2. s = [k \in 1..n |-> s[k]]
    BY <1>6, <2>1
  <2> QED BY <1>4, <2>1, <2>2, RowSequence
<1>8. ASSUME NEW k \in 1..n PROVE RowOK(rows[k], asked[k], k \in edits)'
  <2>1. RowOK(rows[k], asked[k], k \in edits)
    BY <1>1, <1>3 DEF RowsOK
  <2>2. CASE k = i
    <3>1. /\ DOMAIN row = DOMAIN rows[i]
          /\ \A name \in DOMAIN rows[i] : name # column => row[name] = rows[i][name]
      BY <1>5
    <3>2. column \notin HashColumns
      BY DEF HashColumns, EditedColumns
    <3>3. HashColumns \subseteq DOMAIN rows[i]
      <4>1. HashColumns \subseteq ToSet(TaskColumns) /\ HashColumns \subseteq ToSet(OldTaskColumns)
        <5>1. /\ TaskColumns[8] = "goal_hash" /\ TaskColumns[9] = "acceptance_hash"
              /\ TaskColumns[10] = "constraints_hash" /\ TaskColumns[11] = "scope_budget_hash"
          BY DEF TaskColumns
        <5>2. /\ OldTaskColumns[7] = "goal_hash" /\ OldTaskColumns[8] = "acceptance_hash"
              /\ OldTaskColumns[9] = "constraints_hash"
              /\ OldTaskColumns[10] = "scope_budget_hash"
          BY DEF OldTaskColumns
        <5>3. /\ \A j \in 1..15 : TaskColumns[j] \in ToSet(TaskColumns)
              /\ \A j \in 1..14 : OldTaskColumns[j] \in ToSet(OldTaskColumns)
          BY ColumnFacts DEF ToSet
        <5> QED BY <5>1, <5>2, <5>3 DEF HashColumns
      <4>2. tables["tasks"] \in {TaskColumns, OldTaskColumns, MigratedTasks}
        BY <1>1, <1>3, <1>4 DEF SchemaOK, RowsOK
      <4>3. DOMAIN rows[i] = ToSet(tables["tasks"])
        BY <2>1, <2>2 DEF RowOK
      <4> QED BY <4>1, <4>2, <4>3, Layouts
    <3>4. \A name \in HashColumns : row[name] = rows[i][name]
      BY <3>1, <3>2, <3>3
    <3>5. /\ row["goal_hash"] = rows[i]["goal_hash"]
          /\ row["acceptance_hash"] = rows[i]["acceptance_hash"]
          /\ row["constraints_hash"] = rows[i]["constraints_hash"]
          /\ row["scope_budget_hash"] = rows[i]["scope_budget_hash"]
      BY <3>4 DEF HashColumns
    <3>6. RowOK(row, asked[k], TRUE)
      <4>1. DOMAIN row = ToSet(tables["tasks"])
        BY <2>1, <2>2, <3>1 DEF RowOK
      <4>2. CASE asked[k] = Null
        <5>1. OlderRow(rows[i], k \in edits)
          BY <2>1, <2>2, <4>2 DEF RowOK
        <5>2. TypedRow(rows[i]) /\ row[column] = value
          BY <1>1, <1>5, <5>1 DEF OlderRow
        <5>3. TypedRow(row)
          BY <3>1, <5>2 DEF TypedRow
        <5>4. OlderRow(row, TRUE)
          BY <3>5, <5>1, <5>3 DEF OlderRow
        <5> QED BY <4>1, <4>2, <5>4 DEF RowOK
      <4>3. CASE asked[k] # Null
        <5>1. CreatedRow(row, asked[k], TRUE)
          BY <2>1, <2>2, <3>5, <4>3 DEF RowOK, CreatedRow
        <5> QED BY <2>1, <4>1, <4>3, <5>1 DEF RowOK
      <4> QED BY <4>2, <4>3
    <3>7. (k \in edits') = TRUE /\ rows'[k] = row /\ asked'[k] = asked[k]
      BY <1>1, <1>6, <2>2
    <3> QED BY <1>1, <3>6, <3>7 DEF RowOK
  <2>3. CASE k # i
    <3>1. (k \in edits') = (k \in edits) /\ rows'[k] = rows[k] /\ asked'[k] = asked[k]
      BY <1>1, <1>6, <2>3
    <3> QED BY <1>1, <2>1, <3>1 DEF RowOK
  <2> QED BY <2>2, <2>3
<1>9. edits' \subseteq 1..Len(rows')
  BY <1>1, <1>3, <1>4, <1>7 DEF RowsOK
<1>10. \A k \in 1..Len(rows') : RowOK(rows[k], asked[k], k \in edits)'
  BY <1>7, <1>8
<1>11. tables'["tasks"] = <<>> => rows' = <<>>
  BY <1>1, <1>3, <1>4 DEF RowsOK
<1>12. RowsOK'
  BY <1>1, <1>3, <1>7, <1>9, <1>10, <1>11 DEF RowsOK
<1> QED BY <1>2, <1>12 DEF IInv

LEMMA NextKeeps ==
  ASSUME IInv, [Next]_vars
  PROVE  IInv'
<1>1. ASSUME NEW c \in Connections, CreateSchema(c) PROVE IInv'
  BY <1>1, CreateSchemaKeeps
<1>2. ASSUME NEW c \in Connections, ReadColumns(c) PROVE IInv'
  BY <1>2, ReadColumnsKeeps
<1>3. ASSUME NEW c \in Connections, AddColumn(c) PROVE IInv'
  BY <1>3, AddColumnKeeps
<1>4. ASSUME NEW c \in Connections, AddColumnRefused(c) PROVE IInv'
  BY <1>4, RestartKeeps DEF AddColumnRefused
<1>5. ASSUME NEW c \in Connections, NEW raw \in Raw, CreateTask(c, raw) PROVE IInv'
  BY <1>5, CreateTaskKeeps
<1>6. ASSUME NEW c \in Connections, Close(c) PROVE IInv'
  BY <1>6, RestartKeeps DEF Close
<1>7. ASSUME NEW k, NEW column \in EditedColumns, NEW value \in Written[column],
             Edit(k, column, value)
      PROVE  IInv'
  BY <1>7, EditKeeps
<1>8. ASSUME UNCHANGED vars PROVE IInv'
  <2>1. SchemaOK'
    BY <1>8 DEF vars, IInv, SchemaOK
  <2>2. RowsOK'
    BY <1>8, RowsStay DEF vars, history, IInv
  <2> QED BY <2>1, <2>2 DEF IInv
<1>9. ASSUME NEW k,
             \/ \E statement \in Statements : Edit(k, "statement_json", statement)
             \/ \E list \in Lists : Edit(k, "acceptance_json", list)
                                    \/ Edit(k, "constraints_json", list)
             \/ \E scope \in Scopes : Edit(k, "scope_json", scope)
      PROVE  IInv'
  <2>1. /\ Statements \subseteq Written["statement_json"]
        /\ Lists \subseteq Written["acceptance_json"]
        /\ Lists \subseteq Written["constraints_json"]
        /\ Scopes \subseteq Written["scope_json"]
    BY TypedAssumption DEF EditedColumns, Written
  <2> QED BY <1>7, <1>9, <2>1 DEF EditedColumns
<1> QED BY <1>1, <1>2, <1>3, <1>4, <1>5, <1>6, <1>8, <1>9 DEF Next

LEMMA AlwaysIInv == Spec => []IInv
<1>1. Init => IInv
  BY InitIInv
<1>2. IInv /\ [Next]_vars => IInv'
  BY NextKeeps
<1> QED BY <1>1, <1>2, PTL DEF Spec

-----------------------------------------------------------------------------
(***************************************************************************)
(* The properties.                                                         *)
(***************************************************************************)
\* What create makes of a valid intake is made of the texts that were typed.
LEMMA CreatedTexts ==
  ASSUME NEW raw \in Raw, Valid(raw)
  PROVE  IntakeOK(Create(raw))
<1>1. PICK s : s = raw.statement
  OBVIOUS
<1>2. /\ s \in Statements /\ s.desired \in RawText /\ s.current \in RawText \cup {Null}
      /\ s.intent \in {"BUGFIX", "FEATURE", "REFACTOR"} /\ raw.scope \in Scopes
  BY <1>1, TypedAssumption DEF Raw, RawStatement
<1>3. PICK typed : typed = (UNION {{st.desired, st.current} : st \in Statements}) \ {Null}
  OBVIOUS
<1>4. /\ s.desired \in typed /\ (s.current # Null => s.current \in typed)
      /\ Text = {Strip(text) : text \in {text \in typed : text.core # Blank}}
  <2>1. s.desired # Null
    BY <1>2, NullAssumption
  <2>2. ASSUME NEW text \in {s.desired, s.current}, text # Null PROVE text \in typed
    <3>1. {s.desired, s.current} \in {{st.desired, st.current} : st \in Statements}
      BY <1>2
    <3>2. text \in UNION {{st.desired, st.current} : st \in Statements}
      BY <3>1, Zenon
    <3> QED BY <1>3, <2>2, <3>2
  <2> QED BY <1>3, <2>1, <2>2 DEF Text
<1>5. ~IsBlank(s.desired)
  BY <1>1 DEF Valid, ValidStatement
<1>6. Strip(s.desired) \in Text
  BY <1>4, <1>5 DEF IsBlank
<1>7. Present(s.current) \in Text \cup {Null}
  <2>1. PICK text : text = s.current
    OBVIOUS
  <2>2. CASE Present(text) # Null
    <3>1. Present(text) = Strip(text) /\ text \in RawText /\ ~IsBlank(text)
      BY <1>2, <2>1, <2>2, PresentFacts
    <3>2. text \in typed /\ text.core # Blank
      BY <1>4, <2>1, <3>1, NullAssumption DEF IsBlank
    <3> QED BY <1>4, <2>1, <3>1, <3>2
  <2> QED BY <2>1, <2>2
<1> QED BY <1>1, <1>2, <1>6, <1>7 DEF IntakeOK, Create, Statement

\* The types of Intake's variables: no migration names a column twice, every row
\* has the columns of its table, and every stored intake is made of the stripped
\* texts of its caller.
THEOREM IntakeTypeCorrect == Spec => []TypeOK
<1>1. ASSUME IInv PROVE TypeOK
  <2>1. SchemaOK /\ RowsOK
    BY <1>1 DEF IInv
  <2>2. \A n \in DOMAIN tables : IsInjective(tables[n])
    BY <2>1, Layouts DEF SchemaOK
  <2>3. PICK S : rows \in Seq(S)
    BY <2>1 DEF RowsOK
  <2>4. DOMAIN rows = 1..Len(rows) /\ DOMAIN asked = 1..Len(rows)
    BY <2>1, <2>3 DEF RowsOK
  <2>5. ASSUME NEW k \in 1..Len(rows)
        PROVE  /\ DOMAIN rows[k] = ToSet(tables["tasks"])
               /\ asked[k] = Null \/ IntakeOK(asked[k])
    <3>1. RowOK(rows[k], asked[k], k \in edits)
      BY <2>1 DEF RowsOK
    <3>2. asked[k] = Null \/ \E raw \in Raw : Valid(raw) /\ asked[k] = Create(raw)
      BY <3>1 DEF RowOK
    <3> QED BY <3>1, <3>2, CreatedTexts DEF RowOK
  <2>6. step \in [Connections -> 0..Opened] /\ missing \in [Connections -> BOOLEAN]
    BY <2>1, Plan DEF SchemaOK
  <2> QED BY <2>1, <2>2, <2>4, <2>5, <2>6 DEF TypeOK, RowsOK
<1> QED BY <1>1, AlwaysIInv, PTL

\* Whoever has opened the file finds each column a migration adds, once, however
\* many others open it too and whenever one of them dies (_create_schema).
THEOREM OpenMeansMigrated == Spec => []OpenIsMigrated
<1>1. ASSUME NEW columns, IsInjective(columns), NEW name \in ToSet(columns)
      PROVE  Cardinality({k \in DOMAIN columns : columns[k] = name}) = 1
  <2>1. PICK j \in DOMAIN columns : columns[j] = name
    BY <1>1, Zenon DEF ToSet
  <2>2. {k \in DOMAIN columns : columns[k] = name} = {j}
    BY <1>1, <2>1 DEF IsInjective
  <2> QED BY <2>2, FS_Singleton
<1>2. ASSUME IInv PROVE OpenIsMigrated
  <2>1. SchemaOK
    BY <1>2 DEF IInv
  <2> SUFFICES ASSUME NEW c \in Connections, NEW m \in ToSet(Migrations), step[c] = Opened
               PROVE  Cardinality({k \in DOMAIN tables[m.table] :
                                     tables[m.table][k] = m.column}) = 1
    BY DEF OpenIsMigrated
  <2>2. m \in {Migrations[1], Migrations[2]}
    BY DEF ToSet, Migrations
  <2>3. m.column \in ToSet(tables[m.table])
    BY <2>1, <2>2, Plan, WhichLayout DEF SchemaOK
  <2>4. IsInjective(tables[m.table])
    BY <2>1, <2>2, Plan, Layouts DEF SchemaOK
  <2>5. PICK columns, name : columns = tables[m.table] /\ name = m.column
    OBVIOUS
  <2> QED BY <1>1, <2>3, <2>4, <2>5
<1> QED BY <1>2, AlwaysIInv, PTL

\* A statement that is read back is a statement, never Null.
LEMMA ReadBackTyped ==
  ASSUME NEW row, TypedRow(row), EditedColumns \subseteq DOMAIN row, Readable(row)
  PROVE  ReadBack(row) \in IntakeRecord
<1>1. /\ row["statement_json"] \in RawStatement /\ row["scope_json"] \in Scopes \cup {OldScope}
      /\ row["acceptance_json"] \in Seq(RawText) /\ row["constraints_json"] \in Seq(RawText)
  <2>1. \A name \in EditedColumns : row[name] \in Written[name]
    BY DEF TypedRow
  <2>2. row["statement_json"] # Null
    BY DEF Readable
  <2> QED BY <2>1, <2>2 DEF EditedColumns, Written
<1>2. Stored(row) \in IntakeRecord
  BY <1>1 DEF Stored, IntakeRecord
<1> QED BY <1>2, CreateFacts DEF Readable, ReadBack

LEMMA ReadBackOf ==
  ASSUME NEW row, NEW intake, NEW edited \in BOOLEAN, RowOK(row, intake, edited),
         tables["tasks"] # <<>>, SchemaOK,
         NEW readable, readable = ("statement_json" \in DOMAIN row /\ Readable(row)),
         NEW same, same = (readable /\ ReadBack(row) = intake)
  PROVE  /\ ~edited => (same <=> intake # Null)
         /\ readable => (Agrees(row) <=> same)
<1>1. CASE intake = Null
  <2>1. OlderRow(row, edited) /\ DOMAIN row = ToSet(tables["tasks"])
    BY <1>1 DEF RowOK
  <2>2. ~edited => ~readable
    BY <2>1 DEF OlderRow, Readable
  <2>3. ASSUME readable PROVE ~Agrees(row) /\ ~same
    <3>1. EditedColumns \subseteq DOMAIN row
      <4>1. /\ OldTaskColumns[4] = "acceptance_json" /\ OldTaskColumns[5] = "constraints_json"
            /\ OldTaskColumns[6] = "scope_json"
        BY DEF OldTaskColumns
      <4>2. /\ TaskColumns[5] = "acceptance_json" /\ TaskColumns[6] = "constraints_json"
            /\ TaskColumns[7] = "scope_json"
        BY DEF TaskColumns
      <4>3. /\ \A j \in 1..15 : TaskColumns[j] \in ToSet(TaskColumns)
            /\ \A j \in 1..14 : OldTaskColumns[j] \in ToSet(OldTaskColumns)
        BY ColumnFacts DEF ToSet
      <4>4. /\ {"acceptance_json", "constraints_json", "scope_json"} \subseteq ToSet(TaskColumns)
            /\ {"acceptance_json", "constraints_json", "scope_json"}
                 \subseteq ToSet(OldTaskColumns)
        BY <4>1, <4>2, <4>3
      <4>5. tables["tasks"] \in {TaskColumns, OldTaskColumns, MigratedTasks}
        BY DEF SchemaOK
      <4>6. {"acceptance_json", "constraints_json", "scope_json"} \subseteq DOMAIN row
        BY <2>1, <4>4, <4>5, Layouts
      <4> QED BY <2>3, <4>6 DEF EditedColumns
    <3>2. ReadBack(row) \in IntakeRecord
      BY <2>1, <2>3, <3>1, ReadBackTyped DEF OlderRow
    <3>3. ReadBack(row).statement \in RawStatement
      BY <3>2 DEF IntakeRecord
    <3>4. ReadBack(row) # Null /\ ReadBack(row).statement # Null
      BY <3>2, <3>3, NullAssumption
    <3>5. row["goal_hash"] = Null
      BY <2>1 DEF OlderRow
    <3> QED BY <1>1, <3>4, <3>5 DEF Agrees
  <2> QED BY <1>1, <2>2, <2>3
<1>2. CASE intake # Null
  <2>1. PICK raw \in Raw : Valid(raw) /\ intake = Create(raw)
    BY <1>2 DEF RowOK
  <2>2. raw \in IntakeRecord
    BY TypedAssumption DEF Raw, IntakeRecord
  <2>3. intake \in IntakeRecord /\ Create(intake) = intake /\ Valid(intake)
    BY <2>1, <2>2, CreateFacts
  <2>4. CreatedRow(row, intake, edited) /\ DOMAIN row = ToSet(TaskColumns)
    BY <1>2 DEF RowOK
  <2>5. ASSUME ~edited PROVE same
    <3>1. Stored(row) = intake
      BY <2>4, <2>5 DEF CreatedRow
    <3>2. row["statement_json"] = intake.statement
      BY <3>1 DEF Stored
    <3>3. intake.statement \in RawStatement
      BY <2>3 DEF IntakeRecord
    <3>4. Readable(row)
      BY <2>3, <3>1, <3>2, <3>3, NullAssumption DEF Readable
    <3> QED BY <2>3, <2>4, <3>1, <3>4, Layouts DEF ReadBack
  <2>6. Agrees(row) <=> ReadBack(row) = intake
    <3>1. PICK back : back = ReadBack(row)
      OBVIOUS
    <3>2. back = [statement |-> back.statement, acceptance |-> back.acceptance,
                  constraints |-> back.constraints, scope |-> back.scope]
      BY <3>1 DEF ReadBack, Create
    <3>3. intake = [statement |-> intake.statement, acceptance |-> intake.acceptance,
                    constraints |-> intake.constraints, scope |-> intake.scope]
      BY <2>3 DEF IntakeRecord
    <3>4. Agrees(row) <=> /\ intake.statement = back.statement
                          /\ intake.acceptance = back.acceptance
                          /\ intake.constraints = back.constraints
                          /\ intake.scope = back.scope
      BY <2>4, <3>1 DEF Agrees, CreatedRow
    <3> QED BY <3>1, <3>2, <3>3, <3>4
  <2> QED BY <1>2, <2>5, <2>6
<1> QED BY <1>1, <1>2

\* What get_task_intake builds of a stored row is the intake the task was created
\* for, or the gates see a difference in the hashes; a row of the version before
\* is refused until it is edited, and no gate passes it after.
THEOREM ReadBackFaithful == Spec => []ReadBackIsFaithful
<1>1. ASSUME IInv PROVE ReadBackIsFaithful
  <2>1. SchemaOK /\ RowsOK
    BY <1>1 DEF IInv
  <2>2. PICK S : rows \in Seq(S)
    BY <2>1 DEF RowsOK
  <2> SUFFICES ASSUME NEW k \in DOMAIN rows, NEW readable, NEW same,
                      readable = ("statement_json" \in DOMAIN rows[k] /\ Readable(rows[k])),
                      same = (readable /\ ReadBack(rows[k]) = asked[k])
               PROVE  /\ k \notin edits => (same <=> asked[k] # Null)
                      /\ readable => (Agrees(rows[k]) <=> same)
    BY DEF ReadBackIsFaithful
  <2>3. k \in 1..Len(rows) /\ tables["tasks"] # <<>>
    BY <2>1, <2>2 DEF RowsOK
  <2>4. RowOK(rows[k], asked[k], k \in edits)
    BY <2>1, <2>3 DEF RowsOK
  <2>5. PICK row, intake, edited :
          row = rows[k] /\ intake = asked[k] /\ edited = (k \in edits)
    OBVIOUS
  <2>6. edited \in BOOLEAN /\ RowOK(row, intake, edited)
    BY <2>4, <2>5
  <2>7. /\ readable = ("statement_json" \in DOMAIN row /\ Readable(row))
        /\ same = (readable /\ ReadBack(row) = intake)
    BY <2>5
  <2>8. /\ ~edited => (same <=> intake # Null)
        /\ readable => (Agrees(row) <=> same)
    BY <2>1, <2>3, <2>6, <2>7, ReadBackOf
  <2> QED BY <2>5, <2>8
<1> QED BY <1>1, AlwaysIInv, PTL

\* Two stored tasks are put to a provider in the same words exactly if the four
\* hashes the gates compare are the same for both.
THEOREM ToldApart == Spec => []TasksAreToldApart
<1>1. ASSUME IInv PROVE TasksAreToldApart
  <2>1. RowsOK
    BY <1>1 DEF IInv
  <2>2. \A k \in DOMAIN asked : asked[k] \in IntakeRecord \cup {Null} /\ k \in 1..Len(rows)
    BY <2>1, ElementOfSeq DEF RowsOK
  <2>3. ASSUME NEW k \in DOMAIN asked, asked[k] # Null
        PROVE  /\ asked[k] \in IntakeRecord
               /\ rows[k]["goal_hash"] = asked[k].statement
               /\ rows[k]["acceptance_hash"] = asked[k].acceptance
               /\ rows[k]["constraints_hash"] = asked[k].constraints
               /\ rows[k]["scope_budget_hash"] = asked[k].scope
    <3>1. RowOK(rows[k], asked[k], k \in edits)
      BY <2>1, <2>2 DEF RowsOK
    <3>2. CreatedRow(rows[k], asked[k], k \in edits)
      BY <2>3, <3>1 DEF RowOK
    <3> QED BY <2>2, <2>3, <3>2 DEF CreatedRow
  <2>4. ASSUME NEW a \in IntakeRecord, NEW b \in IntakeRecord
        PROVE  Context(a) = Context(b)
                 <=> /\ a.statement = b.statement /\ a.acceptance = b.acceptance
                     /\ a.constraints = b.constraints /\ a.scope = b.scope
    <3>1. PICK s, t : s = a.statement /\ t = b.statement
      OBVIOUS
    <3>2. /\ s = [intent |-> s.intent, desired |-> s.desired, current |-> s.current]
          /\ t = [intent |-> t.intent, desired |-> t.desired, current |-> t.current]
      BY <3>1 DEF IntakeRecord, RawStatement
    <3>3. s = t <=> s.intent = t.intent /\ s.desired = t.desired /\ s.current = t.current
      BY <3>2
    <3>4. Context(a) = Context(b)
            <=> /\ s.intent = t.intent /\ s.current = t.current /\ s.desired = t.desired
                /\ a.acceptance = b.acceptance /\ a.constraints = b.constraints
                /\ a.scope = b.scope
      BY <3>1 DEF Context
    <3> QED BY <3>1, <3>3, <3>4
  <2> SUFFICES ASSUME NEW j \in DOMAIN asked, NEW k \in DOMAIN asked,
                      asked[j] # Null, asked[k] # Null
               PROVE  Context(asked[j]) = Context(asked[k])
                        <=> \A column \in HashColumns : rows[j][column] = rows[k][column]
    BY DEF TasksAreToldApart
  <2>5. (\A column \in HashColumns : rows[j][column] = rows[k][column])
          <=> /\ rows[j]["goal_hash"] = rows[k]["goal_hash"]
              /\ rows[j]["acceptance_hash"] = rows[k]["acceptance_hash"]
              /\ rows[j]["constraints_hash"] = rows[k]["constraints_hash"]
              /\ rows[j]["scope_budget_hash"] = rows[k]["scope_budget_hash"]
    BY DEF HashColumns
  <2>6. PICK a, b : a = asked[j] /\ b = asked[k]
    OBVIOUS
  <2> QED BY <2>3, <2>4, <2>5, <2>6
<1> QED BY <1>1, AlwaysIInv, PTL
=============================================================================
