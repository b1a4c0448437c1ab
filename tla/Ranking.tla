------------------------------ MODULE Ranking ------------------------------
(***************************************************************************)
(* Sorting, as far as a list is determined by its order: for a comparison  *)
(* that orders any two of the entries there is one sorted list.            *)
(***************************************************************************)
EXTENDS Naturals, FiniteSets

\* At place k is the entry that k - 1 others come before.
Ranked(entries, Before(_, _)) ==
  [k \in 1..Cardinality(entries) |->
     CHOOSE e \in entries : Cardinality({f \in entries : Before(f, e)}) = k - 1]
=============================================================================
