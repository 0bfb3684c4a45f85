----------------------------- MODULE Diagnostics -----------------------------
(***************************************************************************)
(* The text of a provider as it is shown to people: redact, and the two    *)
(* ways it is cut to a limit, at its end (sanitize_outbound) and at its    *)
(* beginning (summarize_provider_failure).                                 *)
(*                                                                         *)
(* A text is a sequence of cells: open is the prefix of a credential of    *)
(* any length, like sk-, fixed that of one of an exact length, AKIA, c a   *)
(* character a credential may go on with, x one that ends it.  Of the six  *)
(* patterns two stand for all: an open prefix with at least MinSecret      *)
(* characters and all that follow, and a fixed one with FixedLen and no    *)
(* more.  What either matches becomes the cell redacted.                   *)
(***************************************************************************)
EXTENDS Integers, Sequences, Selection

CONSTANTS MinSecret,      \* 8 in the source
          FixedLen,       \* 16
          EllipsisLen,    \* 4
          NoteLen,        \* 36
          SentenceLen,    \* 32
          MaxLen,         \* bound on what the provider writes
          MaxChars        \* the limits tried are 0..MaxChars

ASSUME SizeAssumption ==
  {MinSecret, FixedLen, EllipsisLen, NoteLen, SentenceLen} \subseteq Nat

VARIABLES stdout, stderr  \* what the provider has written by now, stripped
vars == <<stdout, stderr>>

Upto(s, n) == SubSeq(s, 1, IF n < Len(s) THEN n ELSE Len(s))
Ellipsis == [i \in 1..EllipsisLen |-> "ellipsis"]
Note == [i \in 1..NoteLen |-> "note"]
\* The provider produced no output.
NoOutput == [i \in 1..SentenceLen |-> "sentence"]

\* Python's s[:n] and, for 0 < n, s[-n:]
Prefix(s, n) == IF n >= 0 THEN Upto(s, n) ELSE Upto(s, Len(s) + n)
Suffix(s, n) == IF n < Len(s) THEN SubSeq(s, Len(s) - n + 1, Len(s)) ELSE s

(***************************************************************************)
(* redact.  A match starts at a word's beginning.  The open pattern is     *)
(* applied first and takes all that follows, so a match within another is  *)
(* part of it.                                                             *)
(***************************************************************************)
Follows(text, k, i) == \A j \in (k + 1)..i : text[j] # "x"
Starts(text, k) == k = 1 \/ text[k - 1] \in {"x", "open"}
IsOpen(text, k) ==
  /\ text[k] = "open" /\ Starts(text, k)
  /\ k + MinSecret <= Len(text) /\ Follows(text, k, k + MinSecret)
IsFixed(text, k) ==
  LET end == k + FixedLen
  IN  /\ text[k] = "fixed" /\ Starts(text, k) /\ end <= Len(text)
      /\ \A j \in (k + 1)..end : text[j] \in {"c", "fixed"}
      /\ end = Len(text) \/ text[end + 1] = "x"
InSecret(text, i) ==
  \E k \in 1..(i - 1) :
    /\ Follows(text, k, i)
    /\ IsOpen(text, k) \/ (IsFixed(text, k) /\ i <= k + FixedLen)

Redact(text) ==
  LET seen == [i \in DOMAIN text |->
                 IF InSecret(text, i) THEN "gone"
                 ELSE IF IsOpen(text, i) \/ IsFixed(text, i) THEN "redacted" ELSE text[i]]
  IN  Items(seen, {i \in DOMAIN text : seen[i] # "gone"})

\* mutant: cut first, then redacted
SanitizeCutFirst(text, max) ==
  IF Len(text) <= max THEN Redact(text)
  ELSE Redact(Prefix(text, max - EllipsisLen)) \o Ellipsis
\* sanitize_outbound
Sanitize(text, max) ==
  LET cleaned == Redact(text)
  IN  IF Len(cleaned) <= max THEN cleaned ELSE Prefix(cleaned, max - EllipsisLen) \o Ellipsis

\* mutant: a budget of nothing is s[-0:], everything
SummarizeZero(err, out, max) ==
  LET raw == IF err # <<>> THEN err ELSE out
      cleaned == Redact(raw)
      budget == max - NoteLen
  IN  IF raw = <<>> THEN NoOutput
      ELSE IF Len(cleaned) <= max THEN cleaned
      ELSE IF budget < 0 THEN Upto(Note, max)
      ELSE Note \o (IF budget = 0 THEN cleaned ELSE Suffix(cleaned, budget))
\* summarize_provider_failure
Summarize(err, out, max) ==
  LET raw == IF err # <<>> THEN err ELSE out
      cleaned == Redact(raw)
      budget == max - NoteLen
  IN  IF raw = <<>> THEN NoOutput
      ELSE IF Len(cleaned) <= max THEN cleaned
      ELSE IF budget <= 0 THEN Upto(Note, max)
      ELSE Note \o Suffix(cleaned, budget)

-----------------------------------------------------------------------------
Init == stdout = <<>> /\ stderr = <<>>

\* the provider writes, until it exits or is killed at any point of its output
Write(cell) ==
  /\ Len(stdout) + Len(stderr) < MaxLen
  /\ \/ stderr' = Append(stderr, cell) /\ UNCHANGED stdout
     \/ stdout' = Append(stdout, cell) /\ UNCHANGED stderr

Next == \E cell \in {"open", "fixed", "c", "x"} : Write(cell)
Spec == Init /\ [][Next]_vars

-----------------------------------------------------------------------------
Cells(text) == {text[i] : i \in DOMAIN text}
\* what is shown of a text, under every limit
Shown == {Sanitize(stderr, max) : max \in 0..MaxChars}
         \cup {Summarize(stderr, stdout, max) : max \in 0..MaxChars}

(***************************************************************************)
(* Where every character of the credential's alphabet belongs to a         *)
(* credential, none is shown, wherever the text is cut: a cut never leaves *)
(* a piece too short or too headless for the patterns to know it.          *)
(***************************************************************************)
CutsLeaveNoPiece ==
  LET whole(text) == \A i \in DOMAIN text : text[i] = "c" => InSecret(text, i)
  IN  whole(stderr) /\ whole(stdout) => \A text \in Shown : "c" \notin Cells(text)

(***************************************************************************)
(* A summary of what a provider wrote never exceeds its limit, however     *)
(* small.  What is said of a provider that wrote nothing has a fixed       *)
(* length, and an outbound text that is cut has room for its ellipsis: a   *)
(* limit below these is exceeded, one at or above them is not.             *)
(***************************************************************************)
WithinLimit ==
  \A max \in 0..MaxChars :
    /\ stderr # <<>> \/ stdout # <<>> \/ max >= SentenceLen =>
         Len(Summarize(stderr, stdout, max)) <= max
    /\ max >= EllipsisLen => Len(Sanitize(stderr, max)) <= max
=============================================================================
