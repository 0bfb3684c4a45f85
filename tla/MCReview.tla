------------------------------ MODULE MCReview ------------------------------
(* Three files, four commits and three budgets at their limits.            *)
EXTENDS Review, TLC

CONSTANTS src, test, image

Tree(a, b, c) == (src :> a) @@ (test :> b) @@ (image :> c)
MCFiles == {src, test, image}
MCTrees == {Tree(0, 0, 0), Tree(2, 0, 0), Tree(1, 1, 0), Tree(0, 0, 1)}
MCBases == {Tree(0, 0, 0), Tree(1, 1, 0)}
MCPassing == {Tree(2, 0, 0), Tree(1, 1, 0), Tree(0, 0, 1)}
Scope(allowed, files, loc) == [allowed |-> allowed, files |-> files, loc |-> loc]
Intake(constraints, scope) ==
  [goal |-> "goal", acceptance |-> "tests", constraints |-> constraints, scope |-> scope]
MCIntakes ==
  {Intake("none", Scope(None, None, None)), Intake("some", Scope({src, test}, 1, 2)),
   Intake("none", Scope(None, 2, 0))}

Symmetry == Permutations(Tasks)
=============================================================================
