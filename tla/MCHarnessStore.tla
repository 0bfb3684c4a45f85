--------------------------- MODULE MCHarnessStore ---------------------------
(* Model values and symmetry for the runs of HarnessStore. *)
EXTENDS HarnessStore, TLC

ConnSymmetry == Permutations(Conns) \cup Permutations(Heads)
=============================================================================
