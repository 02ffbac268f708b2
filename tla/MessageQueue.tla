---------------------------- MODULE MessageQueue ----------------------------
(***************************************************************************)
(* The tiers of src/gossip/queue.rs as operators on sequences: the front   *)
(* of a VecDeque is the head of the sequence.                              *)
(***************************************************************************)
EXTENDS Naturals, Sequences, FiniteSets, Functions

CONSTANT NORMAL_CAPACITY   \* of the Normal tier

ASSUME TierAssumption == NORMAL_CAPACITY \in Nat \ {0}

\* saturating_sub on unsigned integers
SaturatingSub(a, b) == IF a > b THEN a - b ELSE 0

AtMost(a, bound) == IF a > bound THEN bound ELSE a

\* push on a tier with room for cap messages: push_back, then pop_front when
\* the tier has grown past its capacity.
PushTier(tier, m, cap) ==
  LET grown == Append(tier, m)
  IN  IF Len(grown) > cap THEN Tail(grown) ELSE grown

\* What push returns: the message it dropped, if any.
PushDrops(tier, m, cap) ==
  IF Len(tier) + 1 > cap THEN {Head(Append(tier, m))} ELSE {}

\* Faulty variant of SortedBefore: equal keys swap places.
SortedBeforeUnstable(a, i, b, j) == a > b \/ (a = b /\ i > j)

\* sort_by_key is stable and its key is Reverse(score): the element at i with
\* score a goes before the element at j with score b.
SortedBefore(a, i, b, j) == a > b \/ (a = b /\ i < j)

\* The whole tier in urgency order, when score[i], the urgency of its i-th
\* message, is the same at every comparison.
ByUrgency(tier, score) ==
  LET rank(i) == 1 + Cardinality({j \in DOMAIN tier : SortedBefore(score[j], j, score[i], i)})
  IN  [k \in DOMAIN tier |-> tier[CHOOSE i \in DOMAIN tier : rank(i) = k]]

\* The orders a sort may leave the tier in when its keys change under it: the
\* standard library then promises no order, only that nothing is lost.
Orders(tier) == {[k \in DOMAIN tier |-> tier[p[k]]] : p \in Bijection(DOMAIN tier, DOMAIN tier)}

\* drain_batch: the batch, and what stays in the tier, after the tier was put
\* in this order.
Drained(order, n) == SubSeq(order, 1, AtMost(n, Len(order)))

Retained(order, n) == SubSeq(order, AtMost(n, Len(order)) + 1, Len(order))
=============================================================================
