-------------------------------- MODULE Trail --------------------------------
(***************************************************************************)
(* Reading the events table back: which of the first n events of a log is  *)
(* the latest of the given types.                                          *)
(***************************************************************************)
EXTENDS Naturals, Sequences

IsLatest(log, T, i, n) ==
  /\ i \in 1..n
  /\ log[i].type \in T
  /\ \A k \in (i + 1)..n : log[k].type \notin T
=============================================================================
