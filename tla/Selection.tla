------------------------------ MODULE Selection ------------------------------
(***************************************************************************)
(* The items of a list at some of its positions, in their order: what a    *)
(* comprehension or re.sub leaves of it.  This is SelectSeq written        *)
(* without recursion, about which the provers know nothing.                *)
(***************************************************************************)
EXTENDS Integers, Sequences, FiniteSets

\* the n-th smallest of a set of positions
Nth(P, n) == CHOOSE k \in P : Cardinality(P \cap (1..k)) = n
Items(list, P) == [n \in 1..Cardinality(P) |-> list[Nth(P, n)]]
=============================================================================
