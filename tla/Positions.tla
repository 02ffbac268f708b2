----------------------------- MODULE Positions -----------------------------
(* What iter().filter() and retain() leave of a collection.                *)
EXTENDS Naturals, Sequences, FiniteSets

\* The entries of t at these positions, in their order.
Keep(t, kept) ==
  LET At(k) == CHOOSE i \in kept : Cardinality({j \in kept : j < i}) = k - 1
  IN  [k \in 1..Cardinality(kept) |-> t[At(k)]]
=============================================================================
