------------------------- MODULE MCSupervisionStore -------------------------
(* Symmetry for the runs of SupervisionStore. *)
EXTENDS SupervisionStore, TLC

ConnSymmetry ==
  Permutations(Conns) \cup Permutations(Requests) \cup Permutations(Refs)
=============================================================================
