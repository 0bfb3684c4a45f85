-------------------------- MODULE DiagnosticsProofs --------------------------
(***************************************************************************)
(* Diagnostics, for texts of any length and every limit: what is shown     *)
(* keeps to the limit and holds no piece of a credential.                  *)
(***************************************************************************)
EXTENDS Diagnostics, FiniteSetTheorems, WellFoundedInduction, SequenceTheorems, TLAPS

(***************************************************************************)
(* Selections, as in IntakeProofs.                                         *)
(***************************************************************************)
LEMMA Counts ==
  ASSUME NEW m \in Nat, NEW P \in SUBSET (1..m), NEW k \in Nat
  PROVE  /\ IsFiniteSet(P) /\ Cardinality(P) \in Nat
         /\ IsFiniteSet(P \cap (1..k)) /\ Cardinality(P \cap (1..k)) \in Nat
<1>1. IsFiniteSet(1..m)
  BY FS_Interval
<1>2. IsFiniteSet(P)
  BY <1>1, FS_Subset
<1>3. IsFiniteSet(P \cap (1..k))
  BY <1>2, FS_Subset
<1> QED BY <1>2, <1>3, FS_CardinalityType

\* How many positions there are up to each.
UpTo(P) == [k \in Nat |-> Cardinality(P \cap (1..k))]

LEMMA Counting ==
  ASSUME NEW m \in Nat, NEW P \in SUBSET (1..m)
  PROVE  /\ UpTo(P) \in [Nat -> Nat]
         /\ UpTo(P)[0] = 0 /\ UpTo(P)[m] = Cardinality(P)
         /\ \A k \in Nat : UpTo(P)[k + 1] = IF k + 1 \in P THEN UpTo(P)[k] + 1 ELSE UpTo(P)[k]
<1>1. UpTo(P) \in [Nat -> Nat]
  BY Counts DEF UpTo
<1>2. UpTo(P)[0] = 0
  <2>1. P \cap (1..0) = {}
    OBVIOUS
  <2> QED BY <2>1, FS_EmptySet DEF UpTo
<1>3. UpTo(P)[m] = Cardinality(P)
  <2>1. P \cap (1..m) = P
    OBVIOUS
  <2> QED BY <2>1 DEF UpTo
<1>4. ASSUME NEW k \in Nat
      PROVE  UpTo(P)[k + 1] = IF k + 1 \in P THEN UpTo(P)[k] + 1 ELSE UpTo(P)[k]
  <2>1. PICK Q : Q = P \cap (1..k)
    OBVIOUS
  <2>2. IsFiniteSet(Q) /\ k + 1 \notin Q
    BY <2>1, Counts
  <2>3. CASE k + 1 \in P
    <3>1. P \cap (1..(k + 1)) = Q \cup {k + 1}
      BY <2>1, <2>3
    <3>2. Cardinality(Q \cup {k + 1}) = Cardinality(Q) + 1
      BY <2>2, FS_AddElement
    <3> QED BY <2>1, <2>3, <3>1, <3>2 DEF UpTo
  <2>4. CASE k + 1 \notin P
    <3>1. P \cap (1..(k + 1)) = Q
      BY <2>1, <2>4
    <3> QED BY <2>1, <2>4, <3>1 DEF UpTo
  <2> QED BY <2>3, <2>4
<1> QED BY <1>1, <1>2, <1>3, <1>4

\* Every rank is taken: by the first position that has so many up to it.
LEMMA NthExists ==
  ASSUME NEW m \in Nat, NEW P \in SUBSET (1..m), NEW n \in 1..Cardinality(P)
  PROVE  \E k \in P : Cardinality(P \cap (1..k)) = n
<1>1. PICK c : c = UpTo(P)
  OBVIOUS
<1>2. /\ c \in [Nat -> Nat] /\ c[0] = 0 /\ c[m] >= n /\ n \in Nat /\ n > 0
      /\ \A k \in Nat : c[k + 1] = IF k + 1 \in P THEN c[k] + 1 ELSE c[k]
  <2>1. c[m] = Cardinality(P) /\ c[m] \in Nat
    BY <1>1, Counting
  <2> QED BY <1>1, <2>1, Counting
<1> DEFINE Reach == {k \in Nat : c[k] >= n}
<1>3. PICK k \in Reach : \A j \in Reach : ~(j < k)
  <2>1. IsWellFoundedOn(OpToRel(<, Nat), Nat)
    BY NatLessThanWellFounded
  <2>2. Reach \subseteq Nat /\ Reach # {}
    BY <1>2
  <2> HIDE DEF Reach
  <2>3. \E k \in Reach : \A j \in Reach : <<j, k>> \notin OpToRel(<, Nat)
    BY <2>1, <2>2, WFMin
  <2> QED BY <2>2, <2>3 DEF OpToRel
<1>4. k \in Nat /\ k # 0 /\ c[k] >= n
  BY <1>2
<1>5. PICK j \in Nat : k = j + 1
  <2>1. k - 1 \in Nat /\ k = (k - 1) + 1
    BY <1>4
  <2> QED BY <2>1
<1>6. ~(c[j] >= n)
  <2>1. j < k
    BY <1>5
  <2> QED BY <1>3, <2>1
<1>7. k \in P /\ c[k] = n
  BY <1>2, <1>4, <1>5, <1>6
<1> QED BY <1>1, <1>4, <1>7 DEF UpTo

-----------------------------------------------------------------------------
(***************************************************************************)
(* What the provider writes, and cuts of it.                               *)
(***************************************************************************)
Written == {"open", "fixed", "c", "x"}
IInv == stdout \in Seq(Written) /\ stderr \in Seq(Written)

LEMMA AlwaysIInv == Spec => []IInv
<1>1. Init => IInv
  BY DEF Init, IInv
<1>2. ASSUME IInv, [Next]_vars PROVE IInv'
  <2>1. ASSUME NEW cell \in Written, Write(cell) PROVE IInv'
    <3>1. /\ stderr \in Seq(Written) /\ Append(stderr, cell) \in Seq(Written)
          /\ stdout \in Seq(Written) /\ Append(stdout, cell) \in Seq(Written)
      BY <1>2, <2>1 DEF IInv
    <3>2. stderr' \in {stderr, Append(stderr, cell)} /\ stdout' \in {stdout, Append(stdout, cell)}
      BY <2>1 DEF Write
    <3> QED BY <3>1, <3>2 DEF IInv
  <2>2. CASE UNCHANGED vars
    BY <1>2, <2>2 DEF IInv, vars
  <2> QED BY <1>2, <2>1, <2>2 DEF Next, Written
<1> QED BY <1>1, <1>2, PTL DEF Spec

\* Both cuts leave a part of the text, no longer than they are asked for.
LEMMA UptoFacts ==
  ASSUME NEW S, NEW s \in Seq(S), NEW n \in Int
  PROVE  Upto(s, n) \in Seq(S) /\ (n >= 0 => Len(Upto(s, n)) <= n)
<1>1. PICK m, k : m = Len(s) /\ k = IF n < m THEN n ELSE m
  OBVIOUS
<1>2. m \in Nat /\ k \in Int /\ k <= m /\ k <= n
  BY <1>1
<1>3. Upto(s, n) = [i \in 1..k |-> s[i]]
  <2>1. SubSeq(s, 1, k) = [i \in 1..k |-> s[i]]
    BY <1>1, <1>2
  <2> QED BY <1>1, <2>1 DEF Upto
<1>4. \A i \in 1..k : s[i] \in S
  BY <1>1, <1>2, ElementOfSeq
<1>5. CASE k >= 0
  BY <1>2, <1>3, <1>4, <1>5
<1>6. CASE k < 0
  <2>1. 1..k = {}
    BY <1>2, <1>6
  <2>2. Upto(s, n) = <<>>
    BY <1>3, <2>1
  <2>3. ~(n >= 0)
    BY <1>1, <1>2, <1>6
  <2> QED BY <2>2, <2>3
<1> QED BY <1>2, <1>5, <1>6

LEMMA PrefixFacts ==
  ASSUME NEW S, NEW s \in Seq(S), NEW n \in Int
  PROVE  Prefix(s, n) \in Seq(S) /\ (n >= 0 => Len(Prefix(s, n)) <= n)
<1>1. Len(s) \in Nat /\ Len(s) + n \in Int
  OBVIOUS
<1> QED BY <1>1, UptoFacts DEF Prefix

LEMMA SuffixFacts ==
  ASSUME NEW S, NEW s \in Seq(S), NEW n \in Nat
  PROVE  Suffix(s, n) \in Seq(S) /\ Len(Suffix(s, n)) <= n
<1>1. PICK m : m = Len(s)
  OBVIOUS
<1>2. m \in Nat /\ Len(s) = m
  BY <1>1
<1>3. CASE n < m
  <2>1. Suffix(s, n) = SubSeq(s, m - n + 1, m)
    BY <1>2, <1>3 DEF Suffix
  <2>2. m - n + 1 \in 1..(m + 1) /\ m \in 0..m
    BY <1>2, <1>3
  <2>3. SubSeq(s, m - n + 1, m) \in Seq(S) /\ Len(SubSeq(s, m - n + 1, m)) = n
    BY <1>2, <1>3, <2>2
  <2> QED BY <2>1, <2>3
<1>4. CASE ~(n < m)
  BY <1>2, <1>4 DEF Suffix
<1> QED BY <1>3, <1>4

LEMMA NotesFacts ==
  /\ Note \in Seq({"note"}) /\ Len(Note) = NoteLen
  /\ Ellipsis \in Seq({"ellipsis"}) /\ Len(Ellipsis) = EllipsisLen
  /\ NoOutput \in Seq({"sentence"}) /\ Len(NoOutput) = SentenceLen
BY SizeAssumption DEF Note, Ellipsis, NoOutput

-----------------------------------------------------------------------------
(***************************************************************************)
(* What redact leaves.                                                     *)
(***************************************************************************)
Redacted(clean) == {"open", "fixed", "x", "redacted"} \cup IF clean THEN {} ELSE {"c"}

\* Where every c belongs to a credential, none is left.
Whole(text) == \A i \in DOMAIN text : text[i] = "c" => InSecret(text, i)

LEMMA RedactFacts ==
  ASSUME NEW text \in Seq(Written), NEW clean \in BOOLEAN, clean => Whole(text)
  PROVE  Redact(text) \in Seq(Redacted(clean))
<1>1. PICK seen : seen = [i \in DOMAIN text |->
                            IF InSecret(text, i) THEN "gone"
                            ELSE IF IsOpen(text, i) \/ IsFixed(text, i) THEN "redacted"
                            ELSE text[i]]
  OBVIOUS
<1>2. PICK P, n : P = {i \in DOMAIN text : seen[i] # "gone"} /\ n = Len(text)
  OBVIOUS
<1>3. n \in Nat /\ DOMAIN text = 1..n /\ DOMAIN seen = 1..n /\ P \subseteq 1..n
  BY <1>1, <1>2
<1>4. \A i \in 1..n : text[i] \in Written
  BY <1>2, ElementOfSeq
<1>5. \A i \in P : seen[i] \in Redacted(clean)
  <2> SUFFICES ASSUME NEW i \in P PROVE seen[i] \in Redacted(clean)
    OBVIOUS
  <2>1. i \in DOMAIN text /\ text[i] \in Written /\ seen[i] # "gone"
    BY <1>2, <1>3, <1>4
  <2>2. ~InSecret(text, i)
    BY <1>1, <2>1
  <2>3. CASE IsOpen(text, i) \/ IsFixed(text, i)
    BY <1>1, <2>1, <2>2, <2>3 DEF Redacted
  <2>4. CASE ~(IsOpen(text, i) \/ IsFixed(text, i))
    <3>1. seen[i] = text[i]
      BY <1>1, <2>1, <2>2, <2>4
    <3>2. clean => text[i] # "c"
      BY <2>1, <2>2 DEF Whole
    <3> QED BY <2>1, <3>1, <3>2 DEF Redacted, Written
  <2> QED BY <2>3, <2>4
<1>6. PICK m : m = Cardinality(P)
  OBVIOUS
<1>7. m \in Nat /\ \A k \in 1..m : Nth(P, k) \in P
  <2>1. P \in SUBSET (1..n)
    BY <1>3
  <2>2. ASSUME NEW k \in 1..m PROVE Nth(P, k) \in P
    <3>1. \E i \in P : Cardinality(P \cap (1..i)) = k
      BY <1>3, <1>6, <2>1, NthExists
    <3> QED BY <3>1 DEF Nth
  <2> QED BY <1>3, <1>6, <2>1, <2>2, Counts
<1>8. Redact(text) = [k \in 1..m |-> seen[Nth(P, k)]]
  BY <1>1, <1>2, <1>6 DEF Redact, Items
<1>9. \A k \in 1..m : seen[Nth(P, k)] \in Redacted(clean)
  BY <1>5, <1>7
<1> QED BY <1>7, <1>8, <1>9

\* What is made of a redacted text holds the text's own cells and the marks.
Marked(clean) == Redacted(clean) \cup {"note", "ellipsis", "sentence"}

LEMMA Wider ==
  ASSUME NEW S, NEW T, S \subseteq T, NEW s \in Seq(S)
  PROVE  s \in Seq(T)
OBVIOUS

LEMMA ConcatFacts ==
  ASSUME NEW S, NEW s \in Seq(S), NEW t \in Seq(S)
  PROVE  s \o t \in Seq(S) /\ Len(s) \in Nat /\ Len(t) \in Nat /\ Len(s \o t) = Len(s) + Len(t)
OBVIOUS

LEMMA SanitizeFacts ==
  ASSUME NEW text \in Seq(Written), NEW clean \in BOOLEAN, clean => Whole(text), NEW max \in Nat
  PROVE  /\ Sanitize(text, max) \in Seq(Marked(clean))
         /\ max >= EllipsisLen => Len(Sanitize(text, max)) <= max
<1>1. PICK cleaned, cut : cleaned = Redact(text) /\ cut = Prefix(cleaned, max - EllipsisLen)
  OBVIOUS
<1>2. cleaned \in Seq(Redacted(clean)) /\ max - EllipsisLen \in Int
  BY <1>1, RedactFacts, SizeAssumption
<1>3. cut \in Seq(Redacted(clean)) /\ (max >= EllipsisLen => Len(cut) <= max - EllipsisLen)
  BY <1>1, <1>2, PrefixFacts, SizeAssumption
<1>4. /\ cleaned \in Seq(Marked(clean)) /\ cut \in Seq(Marked(clean))
      /\ Ellipsis \in Seq(Marked(clean))
  BY <1>2, <1>3, Wider, NotesFacts DEF Marked
<1>5. CASE Len(cleaned) <= max
  <2>1. Sanitize(text, max) = cleaned
    BY <1>1, <1>5 DEF Sanitize
  <2> QED BY <1>4, <1>5, <2>1
<1>6. CASE ~(Len(cleaned) <= max)
  <2>1. Sanitize(text, max) = cut \o Ellipsis
    BY <1>1, <1>6 DEF Sanitize
  <2>2. /\ cut \o Ellipsis \in Seq(Marked(clean)) /\ Len(cut) \in Nat
        /\ Len(cut \o Ellipsis) = Len(cut) + EllipsisLen
    BY <1>4, ConcatFacts, NotesFacts
  <2> QED BY <1>3, <2>1, <2>2, SizeAssumption
<1> QED BY <1>5, <1>6

LEMMA SummarizeFacts ==
  ASSUME NEW err \in Seq(Written), NEW out \in Seq(Written), NEW clean \in BOOLEAN,
         clean => Whole(err) /\ Whole(out), NEW max \in Nat
  PROVE  /\ Summarize(err, out, max) \in Seq(Marked(clean))
         /\ err # <<>> \/ out # <<>> \/ max >= SentenceLen =>
             Len(Summarize(err, out, max)) <= max
<1>1. PICK raw, cleaned, budget : /\ raw = IF err # <<>> THEN err ELSE out
                                 /\ cleaned = Redact(raw) /\ budget = max - NoteLen
  OBVIOUS
<1>2. raw \in Seq(Written) /\ (clean => Whole(raw))
  BY <1>1
<1>3. cleaned \in Seq(Redacted(clean)) /\ budget \in Int /\ max = NoteLen + budget
  BY <1>1, <1>2, RedactFacts, SizeAssumption
<1>4. cleaned \in Seq(Marked(clean)) /\ Note \in Seq(Marked(clean)) /\ Len(Note) = NoteLen
  BY <1>3, Wider, NotesFacts DEF Marked
<1>0. CASE raw = <<>>
  <2>1. Summarize(err, out, max) = NoOutput
    BY <1>0, <1>1 DEF Summarize
  <2>2. NoOutput \in Seq(Marked(clean)) /\ Len(NoOutput) = SentenceLen
    BY Wider, NotesFacts DEF Marked
  <2>3. err = <<>> /\ out = <<>>
    BY <1>0, <1>1
  <2> QED BY <2>1, <2>2, <2>3
<1>5. CASE raw # <<>> /\ Len(cleaned) <= max
  <2>1. Summarize(err, out, max) = cleaned
    BY <1>1, <1>5 DEF Summarize
  <2> QED BY <1>4, <1>5, <2>1
<1>6. CASE raw # <<>> /\ ~(Len(cleaned) <= max) /\ budget <= 0
  <2>1. Summarize(err, out, max) = Upto(Note, max)
    BY <1>1, <1>6 DEF Summarize
  <2>2. Upto(Note, max) \in Seq(Marked(clean)) /\ Len(Upto(Note, max)) <= max
    BY <1>4, UptoFacts
  <2> QED BY <2>1, <2>2
<1>7. CASE raw # <<>> /\ ~(Len(cleaned) <= max) /\ ~(budget <= 0)
  <2>1. PICK end : end = Suffix(cleaned, budget)
    OBVIOUS
  <2>2. Summarize(err, out, max) = Note \o end
    BY <1>1, <1>7, <2>1 DEF Summarize
  <2>3. end \in Seq(Marked(clean)) /\ Len(end) <= budget
    <3>1. budget \in Nat
      BY <1>3, <1>7
    <3> QED BY <1>4, <2>1, <3>1, SuffixFacts
  <2>4. /\ Note \o end \in Seq(Marked(clean)) /\ Len(end) \in Nat
        /\ Len(Note \o end) = NoteLen + Len(end)
    BY <1>4, <2>3, ConcatFacts
  <2>5. NoteLen + Len(end) <= max
    BY <1>3, <2>3, <2>4, SizeAssumption
  <2> QED BY <2>2, <2>4, <2>5
<1> QED BY <1>0, <1>5, <1>6, <1>7

-----------------------------------------------------------------------------
(***************************************************************************)
(* The properties.                                                         *)
(***************************************************************************)
\* However much a provider has written, no summary of it exceeds its limit; no
\* outbound text exceeds a limit with room for the ellipsis, nor the sentence for a
\* provider that wrote nothing a limit of at least its own length.
THEOREM ShownIsWithinLimit == Spec => []WithinLimit
<1>1. ASSUME IInv PROVE WithinLimit
  <2>1. stderr \in Seq(Written) /\ stdout \in Seq(Written)
    BY <1>1 DEF IInv
  <2>2. \A max \in 0..MaxChars : max \in Nat
    OBVIOUS
  <2>3. ASSUME NEW max \in 0..MaxChars
        PROVE  /\ stderr # <<>> \/ stdout # <<>> \/ max >= SentenceLen =>
                    Len(Summarize(stderr, stdout, max)) <= max
               /\ max >= EllipsisLen => Len(Sanitize(stderr, max)) <= max
    BY <2>1, <2>2, SanitizeFacts, SummarizeFacts
  <2> QED BY <2>3 DEF WithinLimit
<1> QED BY <1>1, AlwaysIInv, PTL

\* Where redact knows every credential of a text whole, no cut of it shows a
\* character of one.
THEOREM NoPieceIsShown == Spec => []CutsLeaveNoPiece
<1>1. ASSUME IInv PROVE CutsLeaveNoPiece
  <2>1. stderr \in Seq(Written) /\ stdout \in Seq(Written)
    BY <1>1 DEF IInv
  <2> SUFFICES ASSUME Whole(stderr), Whole(stdout), NEW text \in Shown
               PROVE  "c" \notin Cells(text)
    BY DEF CutsLeaveNoPiece, Whole
  <2>2. text \in Seq(Marked(TRUE))
    <3>1. ASSUME NEW max \in 0..MaxChars
          PROVE  /\ Sanitize(stderr, max) \in Seq(Marked(TRUE))
                 /\ Summarize(stderr, stdout, max) \in Seq(Marked(TRUE))
      <4>1. max \in Nat
        OBVIOUS
      <4> QED BY <2>1, <4>1, SanitizeFacts, SummarizeFacts
    <3> QED BY <3>1 DEF Shown
  <2>3. "c" \notin Marked(TRUE)
    BY DEF Marked, Redacted
  <2>4. \A i \in DOMAIN text : text[i] \in Marked(TRUE)
    <3>1. PICK S : S = Marked(TRUE)
      OBVIOUS
    <3>2. text \in Seq(S)
      BY <2>2, <3>1
    <3>3. DOMAIN text = 1..Len(text) /\ \A i \in 1..Len(text) : text[i] \in S
      BY <3>2, ElementOfSeq
    <3> QED BY <3>1, <3>3
  <2> QED BY <2>3, <2>4 DEF Cells
<1> QED BY <1>1, AlwaysIInv, PTL
=============================================================================
