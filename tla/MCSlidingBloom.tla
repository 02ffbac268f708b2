--------------------------- MODULE MCSlidingBloom ---------------------------
(* A filter of Capacity 2 under five ids, long enough to rotate twice.     *)
EXTENDS SlidingBloom, TLC

IdSymmetry == Permutations(Ids)
=============================================================================
