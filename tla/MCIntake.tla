------------------------------ MODULE MCIntake ------------------------------
(* Every shape of text: two words, blank, with blanks around it, and none. *)
EXTENDS Intake, TLC

Plain(word) == [core |-> word, padded |-> FALSE]
Padded(word) == [core |-> word, padded |-> TRUE]
Raws(intent, desired, current) == [intent |-> intent, desired |-> desired, current |-> current]
MCStatements ==
  {Raws("FEATURE", Plain("a"), Null), Raws("FEATURE", Plain("a"), Padded("b")),
   Raws("FEATURE", Padded("a"), Padded("")), Raws("FEATURE", Padded(""), Null),
   Raws("BUGFIX", Plain("a"), Null), Raws("BUGFIX", Plain("a"), Padded("a")),
   Raws("BUGFIX", Plain("a"), Padded("b")), Raws("BUGFIX", Padded("b"), Plain("a"))}
MCLists == {<<>>, <<Padded("a"), Plain("")>>}
MCScopes ==
  {[allowed |-> {}, files |-> Null, loc |-> Null], [allowed |-> {"src"}, files |-> 0, loc |-> 1],
   [allowed |-> {}, files |-> -1, loc |-> Null]}
Symmetry == Permutations(Connections)
=============================================================================
