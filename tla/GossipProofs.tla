---------------------------- MODULE GossipProofs ----------------------------
(***************************************************************************)
(* Gossip: the deduplication filter, the priority queue, and the mesh of   *)
(* nodes that use them, for every set of nodes and ids, every topology and *)
(* every capacity.                                                         *)
(*                                                                         *)
(* The filter.  WindowRemembered is not inductive: the strengthening says  *)
(* which window holds which part of the history, so that a rotation can be *)
(* followed (WindowsHoldRecent).                                           *)
(*                                                                         *)
(* The queue.  A drain reorders what it leaves in the Normal tier, so that *)
(* MostUrgentFirst of one batch says nothing of the next: the invariant is *)
(* that the tier keeps equals in order of arrival whatever its order       *)
(* (Fifo), and that every message is in one place (Ledger).                *)
(*                                                                         *)
(* The mesh.  Each action is taken apart once, into how it moves copies    *)
(* (Moves); the hop limit follows from where a copy can come from, with    *)
(* the hops it has left (Budget), and forwarding once from a filter that   *)
(* still knows what was forwarded (Counted).  That losses are known needs, *)
(* for every node and neighbour, an account of each id the node has seen   *)
(* that survives every step (Tracked): a duplicate may be dropped only     *)
(* because the node is done with what it forwarded (ForwardedDealt), and a *)
(* round that ended has left nothing in its batch (BatchInDispatch).       *)
(***************************************************************************)
EXTENDS GossipMesh, SlidingBloom, PriorityQueue, FiniteSetTheorems, SequenceTheorems, TLAPS

-----------------------------------------------------------------------------
(* The filter.                                                             *)

\* The last insert_count accepted ids are in the current window and the
\* Capacity ids before those are in the previous one.
WindowsHoldRecent ==
  \A i \in 1..Len(accepted) :
    /\ i + filter.insert_count > Len(accepted) => accepted[i] \in filter.current
    /\ i + filter.insert_count <= Len(accepted) /\ i + filter.insert_count + Capacity > Len(accepted)
         => accepted[i] \in filter.previous

FilterInv == FilterTypeOK /\ WindowsHoldRecent

\* The two windows of the strengthened invariant together recognise what
\* WindowRemembered asks of check.
LEMMA WindowsImplyRemembered == FilterTypeOK /\ WindowsHoldRecent => WindowRemembered
BY CapacityAssumption DEF FilterTypeOK, SlidingFilters, WindowsHoldRecent, WindowRemembered, Check

\* rotate_if_full leaves a filter that has room for one more id.
LEMMA RotationMakesRoom ==
  ASSUME NEW f \in SlidingFilters
  PROVE  /\ RotateIfFull(f) \in SlidingFilters
         /\ RotateIfFull(f).insert_count < Capacity
BY CapacityAssumption DEF SlidingFilters, RotateIfFull

\* What accepting a new id leaves of the two windows.
LEMMA AddNewWindows ==
  ASSUME NEW f \in SlidingFilters, NEW id \in Ids, NEW g \in AddNew(f, id)
  PROVE  /\ g \in SlidingFilters
         /\ id \in g.current
         /\ f.insert_count < Capacity =>
              /\ f.current \subseteq g.current
              /\ g.previous = f.previous
              /\ g.insert_count = f.insert_count + 1
         /\ f.insert_count = Capacity => g.previous = f.current /\ g.insert_count = 1
<1> DEFINE r == RotateIfFull(f)
<1>1. r \in SlidingFilters /\ r.insert_count < Capacity
  BY RotationMakesRoom
<1>2. PICK b \in BloomSet(r.current, id) : g = [r EXCEPT !.current = b, !.insert_count = @ + 1]
  BY DEF AddNew
<1>3. b \in SUBSET Ids /\ id \in b /\ r.current \subseteq b
  BY <1>1, <1>2, CollidingAssumption DEF BloomSet, SlidingFilters
<1>4. g.current = b /\ g.previous = r.previous /\ g.insert_count = r.insert_count + 1
  BY <1>1, <1>2 DEF SlidingFilters
<1>5. g \in SlidingFilters
  <2>1. g = [current |-> b, previous |-> r.previous, insert_count |-> r.insert_count + 1]
    BY <1>1, <1>2 DEF SlidingFilters
  <2>2. r.previous \in SUBSET Ids /\ r.insert_count + 1 \in 0..Capacity
    BY <1>1, CapacityAssumption DEF SlidingFilters
  <2> QED
    BY <2>1, <2>2, <1>3 DEF SlidingFilters
<1>6. f.insert_count < Capacity => r = f
  BY CapacityAssumption DEF RotateIfFull, SlidingFilters
<1>7. f.insert_count = Capacity => r.previous = f.current /\ r.insert_count = 0
  BY CapacityAssumption DEF RotateIfFull, SlidingFilters
<1> QED
  BY <1>3, <1>4, <1>5, <1>6, <1>7 DEF SlidingFilters

LEMMA InitFilterInv == FilterInit => FilterInv
BY CapacityAssumption DEF FilterInit, FilterInv, FilterTypeOK, SlidingFilters, NewFilter, WindowsHoldRecent

LEMMA NextFilterInv == FilterInv /\ [FilterNext]_filterVars => FilterInv'
<1> SUFFICES ASSUME FilterInv, [FilterNext]_filterVars PROVE FilterInv'
  OBVIOUS
<1> USE CapacityAssumption
<1>1. CASE UNCHANGED filterVars
  BY <1>1 DEF filterVars, FilterInv, FilterTypeOK, WindowsHoldRecent
<1>2. ASSUME NEW id \in Ids, CheckAndAddId(id), Check(filter, id) PROVE FilterInv'
  <2>1. filter' = filter /\ accepted' = accepted
    BY <1>2 DEF CheckAndAddId, CheckAndAdd
  <2> QED
    BY <2>1 DEF FilterInv, FilterTypeOK, WindowsHoldRecent
<1>3. ASSUME NEW id \in Ids, CheckAndAddId(id), ~Check(filter, id) PROVE FilterInv'
  <2> DEFINE n == Len(accepted)
  <2>1. filter' \in AddNew(filter, id) /\ accepted' = Append(accepted, id)
    BY <1>3 DEF CheckAndAddId, CheckAndAdd
  <2>2. filter \in SlidingFilters /\ accepted \in Seq(Ids)
    BY DEF FilterInv, FilterTypeOK
  <2>3. /\ filter' \in SlidingFilters
        /\ id \in filter'.current
        /\ filter.insert_count < Capacity =>
             /\ filter.current \subseteq filter'.current
             /\ filter'.previous = filter.previous
             /\ filter'.insert_count = filter.insert_count + 1
        /\ filter.insert_count = Capacity =>
             filter'.previous = filter.current /\ filter'.insert_count = 1
    BY <2>1, <2>2, AddNewWindows
  <2>4. /\ accepted' \in Seq(Ids)
        /\ Len(accepted') = n + 1
        /\ n \in Nat
        /\ accepted'[n + 1] = id
        /\ \A i \in 1..n : accepted'[i] = accepted[i]
    BY <2>1, <2>2
  <2>5. filter.insert_count \in 0..Capacity
    BY <2>2 DEF SlidingFilters
  <2>6. WindowsHoldRecent'
    <3>1. SUFFICES ASSUME NEW i \in 1..(n + 1)
          PROVE  /\ i + filter'.insert_count > n + 1 => accepted'[i] \in filter'.current
                 /\ i + filter'.insert_count <= n + 1 /\ i + filter'.insert_count + Capacity > n + 1
                      => accepted'[i] \in filter'.previous
      BY <2>4 DEF WindowsHoldRecent
    <3>2. CASE i = n + 1
      BY <3>2, <2>3, <2>4, <2>5
    <3>3. CASE i \in 1..n
      <4>1. accepted'[i] = accepted[i]
        BY <3>3, <2>4
      <4>2. /\ i + filter.insert_count > n => accepted[i] \in filter.current
            /\ i + filter.insert_count <= n /\ i + filter.insert_count + Capacity > n
                 => accepted[i] \in filter.previous
        BY <3>3 DEF FilterInv, WindowsHoldRecent
      <4>3. CASE filter.insert_count < Capacity
        BY <4>1, <4>2, <4>3, <3>3, <2>3, <2>4, <2>5
      <4>4. CASE filter.insert_count = Capacity
        BY <4>1, <4>2, <4>4, <3>3, <2>3, <2>4, <2>5
      <4> QED
        BY <4>3, <4>4, <2>5
    <3> QED
      BY <3>2, <3>3, <2>4
  <2> QED
    BY <2>3, <2>4, <2>6 DEF FilterInv, FilterTypeOK
<1> QED
  BY <1>1, <1>2, <1>3 DEF FilterNext

\* The type invariant of the filter: no window ever takes more ids than the
\* capacity it was sized for.
THEOREM FilterTypeCorrect == FilterSpec => []FilterTypeOK
BY InitFilterInv, NextFilterInv, PTL DEF FilterSpec, FilterInv

\* The last Capacity accepted ids are always recognised, across rotations.
THEOREM FilterRemembers == FilterSpec => []WindowRemembered
<1>1. FilterInv => WindowRemembered
  BY WindowsImplyRemembered DEF FilterInv
<1> QED
  BY <1>1, InitFilterInv, NextFilterInv, PTL DEF FilterSpec
-----------------------------------------------------------------------------
(* The operators on queues.  Each lemma holds of sequences over any set: of  *)
(* the envelopes it gives the type of a result, of Elements(q) that nothing  *)
(* in the result is new.                                                     *)

\* The elements of a sequence over S are in S.
LEMMA ElementsOfSeq ==
  ASSUME NEW S, NEW s \in Seq(S)
  PROVE  Elements(s) \subseteq S /\ s \in Seq(Elements(s))
<1>1. Len(s) \in Nat /\ DOMAIN s = 1..Len(s) /\ s \in [1..Len(s) -> S]
  BY LenProperties
<1>2. \A i \in 1..Len(s) : s[i] \in S
  BY ElementOfSeq
<1>3. s \in [1..Len(s) -> Elements(s)]
  BY <1>1 DEF Elements
<1> QED
  BY <1>1, <1>2, <1>3, SeqDef DEF Elements

LEMMA EmptyElements == Elements(<<>>) = {}
BY DEF Elements

\* A sequence over a smaller set is one over a larger set.
LEMMA WiderSeq ==
  ASSUME NEW S, NEW T, S \subseteq T, NEW s \in Seq(S)
  PROVE  s \in Seq(T)
<1>1. Len(s) \in Nat /\ s \in [1..Len(s) -> S]
  BY LenProperties
<1>2. s \in [1..Len(s) -> T]
  BY <1>1
<1> QED
  BY <1>1, <1>2, SeqDef

\* One more element at the end adds that one.
LEMMA ElementsOfAppend ==
  ASSUME NEW S, NEW s \in Seq(S), NEW e \in S
  PROVE  Elements(Append(s, e)) \subseteq Elements(s) \cup {e}
<1> DEFINE T == Elements(s) \cup {e}
<1>1. s \in Seq(T)
  BY ElementsOfSeq, WiderSeq
<1>2. Append(s, e) \in Seq(T)
  BY <1>1, AppendProperties
<1> QED
  BY <1>2, ElementsOfSeq

\* The head is an element, and so are the elements of the tail.
LEMMA ElementsOfHeadTail ==
  ASSUME NEW S, NEW s \in Seq(S), s # <<>>
  PROVE  Head(s) \in Elements(s) /\ Elements(Tail(s)) \subseteq Elements(s)
<1>1. s \in Seq(Elements(s))
  BY ElementsOfSeq
<1>2. Head(s) \in Elements(s) /\ Tail(s) \in Seq(Elements(s))
  BY <1>1, HeadTailProperties
<1> QED
  BY <1>2, ElementsOfSeq

\* Adding envelopes keeps the queue within its capacity, and invents none.
LEMMA AddEnvelopesType ==
  ASSUME NEW S, NEW q \in Seq(S), NEW envs \in Seq(S)
  PROVE  AddEnvelopes(q, envs) \in Seq(S) /\ Len(AddEnvelopes(q, envs)) <= NORMAL_CAPACITY
<1> DEFINE all == q \o envs
           m == 1 + SaturatingSub(Len(all), NORMAL_CAPACITY)
<1>1. all \in Seq(S) /\ Len(all) \in Nat
  BY ConcatProperties, LenProperties
<1>2. AddEnvelopes(q, envs) = SubSeq(all, m, Len(all))
  BY DEF AddEnvelopes
<1> HIDE DEF all
<1>3. m \in Int /\ m >= 1 /\ Len(all) - m + 1 <= NORMAL_CAPACITY
  BY <1>1, TierAssumption DEF SaturatingSub
<1>4. \A i \in m..Len(all) : all[i] \in S
  BY <1>1, <1>3, ElementOfSeq
<1> HIDE DEF m
<1>5. /\ SubSeq(all, m, Len(all)) \in Seq(S)
      /\ Len(SubSeq(all, m, Len(all))) = IF m <= Len(all) THEN Len(all) - m + 1 ELSE 0
  BY <1>1, <1>3, <1>4, SubSeqProperties
<1> QED
  BY <1>1, <1>2, <1>3, <1>5, TierAssumption

\* A part of a sequence is over the same set.
LEMMA PartType ==
  ASSUME NEW S, NEW s \in Seq(S), NEW i \in Nat, i >= 1, NEW j \in Nat, j <= Len(s)
  PROVE  SubSeq(s, i, j) \in Seq(S) /\ Len(SubSeq(s, i, j)) = IF i <= j THEN j - i + 1 ELSE 0
<1>1. Len(s) \in Nat
  BY LenProperties
<1>2. \A k \in i..j : s[k] \in S
  BY <1>1, ElementOfSeq
<1> QED
  BY <1>2, SubSeqProperties

\* In a finite set where B[i] are the elements before i, every rank below the
\* size of the set is that of exactly one element.
LEMMA Ranks ==
  ASSUME NEW S, IsFiniteSet(S), NEW B \in [S -> SUBSET S],
         \A i \in S : i \notin B[i],
         \A i, j \in S : i # j => \/ i \in B[j] /\ B[i] \subseteq B[j]
                                  \/ j \in B[i] /\ B[j] \subseteq B[i]
  PROVE  /\ Cardinality(S) \in Nat
         /\ \A i \in S : Cardinality(B[i]) \in 0..(Cardinality(S) - 1)
         /\ \A i, j \in S : i \in B[j] => Cardinality(B[i]) < Cardinality(B[j])
         /\ \A k \in 0..(Cardinality(S) - 1) : \E i \in S : Cardinality(B[i]) = k
<1> DEFINE n == Cardinality(S)
           T == 0..(n - 1)
           f == [i \in S |-> Cardinality(B[i])]
<1>1. n \in Nat /\ \A i \in S : IsFiniteSet(B[i]) /\ Cardinality(B[i]) \in Nat
  BY FS_CardinalityType, FS_Subset
<1>2. ASSUME NEW i \in S PROVE Cardinality(B[i]) < n
  <2>1. B[i] # S /\ B[i] \in SUBSET S
    OBVIOUS
  <2>2. Cardinality(B[i]) <= n /\ Cardinality(B[i]) # n
    BY <2>1, FS_Subset
  <2> QED
    BY <1>1, <2>2
<1>3. ASSUME NEW i \in S, NEW j \in S, i \in B[j]
      PROVE  Cardinality(B[i]) < Cardinality(B[j])
  <2>1. B[i] \subseteq B[j]
    BY <1>3
  <2>2. B[i] # B[j] /\ IsFiniteSet(B[j]) /\ B[i] \in SUBSET B[j]
    BY <1>1, <1>3, <2>1
  <2>3. Cardinality(B[i]) <= Cardinality(B[j]) /\ Cardinality(B[i]) # Cardinality(B[j])
    BY <2>2, FS_Subset
  <2> QED
    BY <1>1, <2>3
<1>4. \A i, j \in S : f[i] = f[j] => i = j
  <2> SUFFICES ASSUME NEW i \in S, NEW j \in S, f[i] = f[j], i # j PROVE FALSE
    OBVIOUS
  <2>1. i \in B[j] \/ j \in B[i]
    OBVIOUS
  <2> QED
    BY <1>1, <1>3, <2>1
<1>5. f \in [S -> T]
  BY <1>1, <1>2
<1>6. f \in Injection(S, T)
  BY <1>4, <1>5 DEF Injection, IsInjective
<1>7. IsFiniteSet(T) /\ Cardinality(T) = n
  <2>1. IsFiniteSet(T) /\ Cardinality(T) = IF 0 > n - 1 THEN 0 ELSE (n - 1) - 0 + 1
    BY <1>1, FS_Interval
  <2> QED
    BY <1>1, <2>1
<1>8. f \in Surjection(S, T)
  BY <1>6, <1>7, FS_Injection
<1> QED
  BY <1>1, <1>3, <1>5, <1>8 DEF Surjection

\* s is tier in another order: its k-th element is the at[k]-th of tier, and a
\* stable sort by score would put them in that order.
SortedAs(s, tier, score, at) ==
  /\ \A k \in 1..Len(tier) : s[k] = tier[at[k]]
  /\ \A k, l \in 1..Len(tier) : k < l => SortedBefore(score[at[k]], at[k], score[at[l]], at[l])
  /\ \A i \in 1..Len(tier) : \E k \in 1..Len(tier) : at[k] = i

\* Sorting by urgency is a permutation of the tier, most urgent first, and
\* stable.
LEMMA ByUrgencySorts ==
  ASSUME NEW S, NEW tier \in Seq(S), NEW score \in [1..Len(tier) -> Int]
  PROVE  /\ ByUrgency(tier, score) \in Seq(S) /\ Len(ByUrgency(tier, score)) = Len(tier)
         /\ \E at \in [1..Len(tier) -> 1..Len(tier)] : SortedAs(ByUrgency(tier, score), tier, score, at)
<1> DEFINE n == Len(tier)
           P == 1..n
           B == [i \in P |-> {j \in P : SortedBefore(score[j], j, score[i], i)}]
<1>1. n \in Nat /\ DOMAIN tier = P /\ \A i \in P : tier[i] \in S
  BY LenProperties, ElementOfSeq
<1>2. IsFiniteSet(P) /\ Cardinality(P) = n
  <2>1. IsFiniteSet(P) /\ Cardinality(P) = IF 1 > n THEN 0 ELSE n - 1 + 1
    BY <1>1, FS_Interval
  <2> QED
    BY <1>1, <2>1
<1>3. \A i, j \in P : i # j => i \in B[j] \/ j \in B[i]
  BY <1>1 DEF SortedBefore
<1>4. /\ \A k \in 0..(n - 1) : \E i \in P : Cardinality(B[i]) = k
      /\ \A i \in P : Cardinality(B[i]) \in 0..(n - 1)
      /\ \A i, j \in P : i \in B[j] => Cardinality(B[i]) < Cardinality(B[j])
  <2>0. \A i \in P : i \in Nat /\ score[i] \in Int
    BY <1>1
  <2>1. B \in [P -> SUBSET P]
    OBVIOUS
  <2>2. \A i \in P : i \notin B[i]
    BY <2>0 DEF SortedBefore
  <2>3. ASSUME NEW i \in P, NEW j \in P, SortedBefore(score[i], i, score[j], j)
        PROVE  i \in B[j] /\ B[i] \subseteq B[j]
    <3>1. ASSUME NEW x \in P, SortedBefore(score[x], x, score[i], i)
          PROVE  SortedBefore(score[x], x, score[j], j)
      BY <2>0, <2>3, <3>1 DEF SortedBefore
    <3> QED
      BY <2>3, <3>1
  <2>5. \A i, j \in P : i # j => \/ i \in B[j] /\ B[i] \subseteq B[j]
                                 \/ j \in B[i] /\ B[j] \subseteq B[i]
    BY <1>3, <2>3
  <2> HIDE DEF B, P
  <2> QED
    BY <1>2, <2>1, <2>2, <2>5, Ranks
<1> DEFINE at == [k \in P |-> CHOOSE i \in P :
                    1 + Cardinality({j \in P : SortedBefore(score[j], j, score[i], i)}) = k]
<1>5. ASSUME NEW k \in P PROVE at[k] \in P /\ Cardinality(B[at[k]]) = k - 1
  <2>1. k - 1 \in 0..(n - 1)
    BY <1>1
  <2>2. PICK i \in P : Cardinality(B[i]) = k - 1
    BY <1>4, <2>1
  <2>3. 1 + Cardinality({j \in P : SortedBefore(score[j], j, score[i], i)}) = k
    BY <1>1, <2>2
  <2>4. at[k] \in P /\ 1 + Cardinality({j \in P : SortedBefore(score[j], j, score[at[k]], at[k])}) = k
    BY <2>3
  <2> HIDE DEF at
  <2>5. B[at[k]] = {j \in P : SortedBefore(score[j], j, score[at[k]], at[k])}
    BY <2>4
  <2> HIDE DEF B
  <2>6. 1 + Cardinality(B[at[k]]) = k /\ Cardinality(B[at[k]]) \in 0..(n - 1)
    BY <1>4, <2>4, <2>5
  <2> QED
    BY <1>1, <2>4, <2>6
<1>6. ByUrgency(tier, score) = [k \in P |-> tier[at[k]]]
  BY <1>1 DEF ByUrgency
<1>7. at \in [P -> P]
  BY <1>5
<1> HIDE DEF at
<1>8. ByUrgency(tier, score) \in [P -> S]
  BY <1>1, <1>5, <1>6
<1>9. ByUrgency(tier, score) \in Seq(S)
  BY <1>1, <1>8, SeqDef
<1>10. Len(ByUrgency(tier, score)) = n
  BY <1>1, <1>8, <1>9, LenProperties
<1>11. ASSUME NEW k \in P, NEW l \in P, k < l
       PROVE  SortedBefore(score[at[k]], at[k], score[at[l]], at[l])
  <2> HIDE DEF B
  <2>1. /\ at[k] \in P /\ Cardinality(B[at[k]]) = k - 1
        /\ at[l] \in P /\ Cardinality(B[at[l]]) = l - 1
        /\ k \in Nat /\ l \in Nat
    BY <1>1, <1>5
  <2>2. ~(Cardinality(B[at[l]]) < Cardinality(B[at[k]])) /\ Cardinality(B[at[l]]) # Cardinality(B[at[k]])
    BY <1>11, <2>1
  <2>3. at[l] \notin B[at[k]] /\ at[k] # at[l]
    BY <1>4, <2>1, <2>2
  <2>4. at[k] \in B[at[l]]
    BY <1>3, <2>1, <2>3
  <2> USE DEF B
  <2> QED
    BY <1>5, <2>4
<1>12. ASSUME NEW i \in P PROVE \E k \in P : at[k] = i
  <2> HIDE DEF B
  <2> DEFINE k == 1 + Cardinality(B[i])
  <2>1. Cardinality(B[i]) \in 0..(n - 1)
    BY <1>4
  <2>2. k \in P /\ k - 1 = Cardinality(B[i])
    BY <1>1, <2>1
  <2> HIDE DEF k
  <2>3. at[k] \in P /\ Cardinality(B[at[k]]) = Cardinality(B[i])
    BY <1>5, <2>2
  <2>4. ~(at[k] \in B[i]) /\ ~(i \in B[at[k]])
    BY <1>4, <2>1, <2>3
  <2> QED
    BY <1>3, <2>2, <2>3, <2>4
<1> QED
  BY <1>6, <1>7, <1>9, <1>10, <1>11, <1>12 DEF SortedAs

\* A batch is no longer than asked for, and it and the rest of the tier are
\* made of what the tier held, in whatever order it was put.
LEMMA DrainType ==
  ASSUME NEW S, NEW s \in Seq(S), NEW n \in Nat
  PROVE  /\ Drained(s, n) \in Seq(S) /\ Len(Drained(s, n)) <= n
         /\ Retained(s, n) \in Seq(S) /\ Len(Retained(s, n)) <= Len(s)
<1> DEFINE m == AtMost(n, Len(s))
<1>1. Len(s) \in Nat
  BY LenProperties
<1>2. m \in Nat /\ m <= n /\ m <= Len(s)
  BY <1>1 DEF AtMost
<1>3. Drained(s, n) = SubSeq(s, 1, m) /\ Retained(s, n) = SubSeq(s, m + 1, Len(s))
  BY DEF Drained, Retained
<1> HIDE DEF m
<1>4. SubSeq(s, 1, m) \in Seq(S) /\ Len(SubSeq(s, 1, m)) = IF 1 <= m THEN m - 1 + 1 ELSE 0
  BY <1>1, <1>2, PartType
<1>5. /\ SubSeq(s, m + 1, Len(s)) \in Seq(S)
      /\ Len(SubSeq(s, m + 1, Len(s))) = IF m + 1 <= Len(s) THEN Len(s) - (m + 1) + 1 ELSE 0
  BY <1>1, <1>2, PartType
<1> QED
  BY <1>1, <1>2, <1>3, <1>4, <1>5

\* at rearranges the n elements of a sequence.
Rearranges(at, n) ==
  /\ at \in [1..n -> 1..n]
  /\ \A k, l \in 1..n : k < l => at[k] # at[l]
  /\ \A i \in 1..n : \E k \in 1..n : at[k] = i

\* An order of a tier is a sequence of its length, made of its elements.
LEMMA OrderType ==
  ASSUME NEW S, NEW tier \in Seq(S), NEW s \in Orders(tier)
  PROVE  /\ s \in Seq(S) /\ Len(s) = Len(tier)
         /\ \E at : Rearranges(at, Len(tier)) /\ \A k \in 1..Len(tier) : s[k] = tier[at[k]]
<1> DEFINE n == Len(tier)
           P == 1..n
<1>1. n \in Nat /\ DOMAIN tier = P /\ \A i \in P : tier[i] \in S
  BY LenProperties, ElementOfSeq
<1>2. PICK at \in Bijection(P, P) : s = [k \in P |-> tier[at[k]]]
  BY <1>1 DEF Orders
<1>3. /\ at \in [P -> P]
      /\ \A k, l \in P : at[k] = at[l] => k = l
      /\ \A i \in P : \E k \in P : at[k] = i
  BY <1>2 DEF Bijection, Injection, Surjection, IsInjective
<1>4. \A k, l \in P : k < l => k # l
  BY <1>1
<1>5. Rearranges(at, n)
  BY <1>3, <1>4 DEF Rearranges
<1>6. s \in [P -> S]
  BY <1>1, <1>2, <1>3
<1>7. s \in Seq(S)
  BY <1>1, <1>6, SeqDef
<1>8. Len(s) = n
  BY <1>1, <1>6, <1>7, LenProperties
<1> QED
  BY <1>2, <1>5, <1>7, <1>8

\* What iter().filter() keeps of a sequence.
LEMMA KeepType ==
  ASSUME NEW S, NEW t \in Seq(S), NEW kept \in SUBSET (1..Len(t))
  PROVE  Keep(t, kept) \in Seq(S)
<1> DEFINE n == Cardinality(kept)
           B == [i \in kept |-> {j \in kept : j < i}]
           at == [k \in 1..n |-> CHOOSE i \in kept : Cardinality({j \in kept : j < i}) = k - 1]
<1>1. Len(t) \in Nat /\ \A i \in kept : i \in Nat /\ t[i] \in S
  BY LenProperties, ElementOfSeq
<1>2. IsFiniteSet(kept)
  <2>1. IsFiniteSet(1..Len(t))
    BY <1>1, FS_Interval
  <2> QED
    BY <2>1, FS_Subset
<1>3. n \in Nat /\ \A k \in 0..(n - 1) : \E i \in kept : Cardinality(B[i]) = k
  <2>1. B \in [kept -> SUBSET kept] /\ \A i \in kept : i \notin B[i]
    BY <1>1
  <2>2. ASSUME NEW i \in kept, NEW j \in kept, i < j PROVE i \in B[j] /\ B[i] \subseteq B[j]
    <3>1. \A x \in kept : x < i => x < j
      BY <1>1, <2>2
    <3> QED
      BY <2>2, <3>1
  <2>3. \A i, j \in kept : i # j => i < j \/ j < i
    BY <1>1
  <2>4. \A i, j \in kept : i # j => \/ i \in B[j] /\ B[i] \subseteq B[j]
                                    \/ j \in B[i] /\ B[j] \subseteq B[i]
    BY <2>2, <2>3
  <2> HIDE DEF B
  <2> QED
    BY <1>2, <2>1, <2>4, Ranks
<1>4. ASSUME NEW k \in 1..n PROVE at[k] \in kept
  <2>1. k - 1 \in 0..(n - 1)
    BY <1>3
  <2>2. PICK i \in kept : Cardinality(B[i]) = k - 1
    BY <1>3, <2>1
  <2>3. Cardinality({j \in kept : j < i}) = k - 1
    BY <2>2
  <2> QED
    BY <2>3
<1>5. Keep(t, kept) = [k \in 1..n |-> t[at[k]]]
  BY DEF Keep
<1> HIDE DEF at
<1>6. Keep(t, kept) \in [1..n -> S]
  BY <1>1, <1>4, <1>5
<1> QED
  BY <1>3, <1>6, SeqDef
-----------------------------------------------------------------------------
(* The queue.                                                              *)

\* No message is twice in a tier.
OnceEach(s) == \A i, j \in DOMAIN s : s[i].stamp = s[j].stamp => i = j

\* Messages of the same age and TTL are in the order in which they came, except
\* among those of X.
Fifo(s, X) ==
  \A i, j \in DOMAIN s : i < j /\ s[i].ttl = s[j].ttl /\ s[i].timestamp = s[j].timestamp
    => s[i].stamp < s[j].stamp \/ {s[i].stamp, s[j].stamp} \subseteq X

Transactions(s) == \A i \in DOMAIN s : Priority(s[i]) = "Normal"

\* A message at the back of a tier.
LEMMA TierAppend ==
  ASSUME NEW s \in Seq(QueuedMessages), NEW m \in QueuedMessages, OnceEach(s), m.stamp \notin Stamps(s)
  PROVE  /\ Append(s, m) \in Seq(QueuedMessages) /\ Len(Append(s, m)) = Len(s) + 1
         /\ Stamps(Append(s, m)) = Stamps(s) \cup {m.stamp}
         /\ OnceEach(Append(s, m))
         /\ \A i \in DOMAIN Append(s, m) : \/ i \in DOMAIN s /\ Append(s, m)[i] = s[i]
                                           \/ Append(s, m)[i] = m
         /\ (\A x \in Stamps(s) : x < m.stamp) => \A X : Fifo(s, X) => Fifo(Append(s, m), X)
<1> DEFINE t == Append(s, m)
           n == Len(s)
<1>1. n \in Nat /\ DOMAIN s = 1..n
  BY LenProperties
<1>2. /\ t \in Seq(QueuedMessages) /\ Len(t) = n + 1 /\ DOMAIN t = 1..(n + 1)
      /\ \A i \in 1..n : t[i] = s[i]
      /\ t[n + 1] = m
  BY AppendProperties, LenProperties
<1> HIDE DEF t
<1>3. Stamps(t) = Stamps(s) \cup {m.stamp}
  <2>1. \A i \in 1..(n + 1) : i \in 1..n \/ i = n + 1
    BY <1>1
  <2>2. n + 1 \in 1..(n + 1) /\ \A i \in 1..n : i \in 1..(n + 1)
    BY <1>1
  <2>3. Stamps(t) \subseteq Stamps(s) \cup {m.stamp}
    BY <1>1, <1>2, <2>1 DEF Stamps
  <2>4. Stamps(s) \subseteq Stamps(t)
    BY <1>1, <1>2, <2>2 DEF Stamps
  <2>5. m.stamp \in Stamps(t)
    BY <1>2, <2>2 DEF Stamps
  <2> QED
    BY <2>3, <2>4, <2>5
<1>4. \A i \in 1..n : s[i].stamp \in Stamps(s)
  BY <1>1 DEF Stamps
<1>5. OnceEach(t)
  <2> SUFFICES ASSUME NEW i \in 1..(n + 1), NEW j \in 1..(n + 1), t[i].stamp = t[j].stamp PROVE i = j
    BY <1>2 DEF OnceEach
  <2>1. (i \in 1..n \/ i = n + 1) /\ (j \in 1..n \/ j = n + 1)
    BY <1>1
  <2> QED
    BY <1>1, <1>2, <1>4, <2>1 DEF OnceEach
<1>6. ASSUME \A x \in Stamps(s) : x < m.stamp, NEW X, Fifo(s, X) PROVE Fifo(t, X)
  <2> SUFFICES ASSUME NEW i \in 1..(n + 1), NEW j \in 1..(n + 1), i < j,
                      t[i].ttl = t[j].ttl, t[i].timestamp = t[j].timestamp
               PROVE  t[i].stamp < t[j].stamp \/ {t[i].stamp, t[j].stamp} \subseteq X
    BY <1>2 DEF Fifo
  <2>1. i \in 1..n /\ (j \in 1..n \/ j = n + 1)
    BY <1>1
  <2> QED
    BY <1>1, <1>2, <1>4, <1>6, <2>1 DEF Fifo
<1>7. \A i \in DOMAIN t : (i \in DOMAIN s /\ t[i] = s[i]) \/ t[i] = m
  BY <1>1, <1>2
<1> QED
  BY <1>2, <1>3, <1>5, <1>6, <1>7 DEF t

\* The front of a tier, and what is behind it.
LEMMA TierTail ==
  ASSUME NEW s \in Seq(QueuedMessages), s # <<>>, OnceEach(s)
  PROVE  /\ Head(s) = s[1] /\ 1 \in DOMAIN s /\ Head(s) \in QueuedMessages
         /\ Tail(s) \in Seq(QueuedMessages) /\ Len(Tail(s)) = Len(s) - 1 /\ Len(s) >= 1
         /\ Head(s).stamp \in Stamps(s)
         /\ Stamps(Tail(s)) = Stamps(s) \ {Head(s).stamp}
         /\ OnceEach(Tail(s))
         /\ \A i \in DOMAIN Tail(s) : i + 1 \in DOMAIN s /\ Tail(s)[i] = s[i + 1]
         /\ \A X : Fifo(s, X) => Fifo(Tail(s), X)
<1> DEFINE t == Tail(s)
           n == Len(s)
<1>1. n \in Nat /\ DOMAIN s = 1..n /\ n >= 1
  BY LenProperties, EmptySeq
<1>2. /\ Head(s) = s[1] /\ Head(s) \in QueuedMessages
      /\ t \in Seq(QueuedMessages) /\ Len(t) = n - 1 /\ DOMAIN t = 1..(n - 1)
      /\ \A i \in 1..(n - 1) : t[i] = s[i + 1]
  BY HeadTailProperties, LenProperties
<1> HIDE DEF t
<1>3. \A i \in 1..(n - 1) : i + 1 \in 1..n /\ i + 1 # 1
  BY <1>1
<1>4. Stamps(t) = Stamps(s) \ {Head(s).stamp}
  <2>1. Stamps(t) \subseteq Stamps(s)
    BY <1>1, <1>2, <1>3 DEF Stamps
  <2>2. Head(s).stamp \notin Stamps(t)
    <3> SUFFICES ASSUME NEW i \in 1..(n - 1), t[i].stamp = s[1].stamp PROVE FALSE
      BY <1>2 DEF Stamps
    <3>1. s[i + 1].stamp = s[1].stamp /\ i + 1 \in 1..n /\ 1 \in 1..n
      BY <1>1, <1>2, <1>3
    <3> QED
      BY <1>1, <1>3, <3>1 DEF OnceEach
  <2>3. ASSUME NEW i \in 1..n, i # 1 PROVE s[i].stamp \in Stamps(t)
    <3>1. i - 1 \in 1..(n - 1) /\ (i - 1) + 1 = i
      BY <1>1, <2>3
    <3> QED
      BY <1>2, <3>1 DEF Stamps
  <2>4. Stamps(s) \subseteq Stamps(t) \cup {Head(s).stamp}
    BY <1>1, <1>2, <2>3 DEF Stamps
  <2> QED
    BY <2>1, <2>2, <2>4
<1>5. OnceEach(t)
  <2> SUFFICES ASSUME NEW i \in 1..(n - 1), NEW j \in 1..(n - 1), t[i].stamp = t[j].stamp PROVE i = j
    BY <1>2 DEF OnceEach
  <2>1. i + 1 = j + 1
    BY <1>1, <1>2, <1>3 DEF OnceEach
  <2> QED
    BY <1>1, <2>1
<1>6. ASSUME NEW X, Fifo(s, X) PROVE Fifo(t, X)
  <2> SUFFICES ASSUME NEW i \in 1..(n - 1), NEW j \in 1..(n - 1), i < j,
                      t[i].ttl = t[j].ttl, t[i].timestamp = t[j].timestamp
               PROVE  t[i].stamp < t[j].stamp \/ {t[i].stamp, t[j].stamp} \subseteq X
    BY <1>2 DEF Fifo
  <2>1. i + 1 < j + 1 /\ i + 1 \in 1..n /\ j + 1 \in 1..n
    BY <1>1
  <2>2. t[i] = s[i + 1] /\ t[j] = s[j + 1]
    BY <1>2
  <2> QED
    BY <1>1, <1>6, <2>1, <2>2 DEF Fifo
<1>7. 1 \in DOMAIN s /\ Head(s).stamp \in Stamps(s)
  BY <1>1, <1>2 DEF Stamps
<1> QED
  BY <1>1, <1>2, <1>3, <1>4, <1>5, <1>6, <1>7 DEF t

\* push on a tier of bounded capacity: what it drops is out of the tier.
LEMMA TierPush ==
  ASSUME NEW s \in Seq(QueuedMessages), NEW m \in QueuedMessages, NEW cap \in Nat \ {0},
         OnceEach(s), m.stamp \notin Stamps(s), Len(s) <= cap, NEW p, Priority(m) = p,
         \A i \in DOMAIN s : Priority(s[i]) = p
  PROVE  LET t == PushTier(s, m, cap)
             d == {x.stamp : x \in PushDrops(s, m, cap)}
         IN  /\ t \in Seq(QueuedMessages) /\ Len(t) <= cap
             /\ d \subseteq Stamps(s) \cup {m.stamp}
             /\ Stamps(t) = (Stamps(s) \cup {m.stamp}) \ d
             /\ OnceEach(t)
             /\ \A i \in DOMAIN t : Priority(t[i]) = p
             /\ (\A x \in Stamps(s) : x < m.stamp) => \A X : Fifo(s, X) => Fifo(t, X)
<1> DEFINE g == Append(s, m)
           d == {x.stamp : x \in PushDrops(s, m, cap)}
<1>1. /\ g \in Seq(QueuedMessages) /\ Len(g) = Len(s) + 1 /\ Len(s) \in Nat
      /\ Stamps(g) = Stamps(s) \cup {m.stamp}
      /\ OnceEach(g)
      /\ \A i \in DOMAIN g : Priority(g[i]) = p
      /\ (\A x \in Stamps(s) : x < m.stamp) => \A X : Fifo(s, X) => Fifo(g, X)
  BY TierAppend, LenProperties
<1> HIDE DEF g
<1>2. CASE Len(g) > cap
  <2>1. PushTier(s, m, cap) = Tail(g) /\ PushDrops(s, m, cap) = {Head(g)}
    BY <1>1, <1>2 DEF PushTier, PushDrops, g
  <2>2. g # <<>>
    BY <1>1, EmptySeq
  <2>3. d = {Head(g).stamp}
    BY <2>1
  <2> QED
    BY <1>1, <2>1, <2>2, <2>3, TierTail
<1>3. CASE ~(Len(g) > cap)
  <2>1. PushTier(s, m, cap) = g /\ PushDrops(s, m, cap) = {}
    BY <1>1, <1>3 DEF PushTier, PushDrops, g
  <2>2. d = {}
    BY <2>1
  <2> QED
    BY <1>1, <1>3, <2>1, <2>2
<1> QED
  BY <1>2, <1>3

\* A permutation of a tier holds what the tier held.
LEMMA TierPermuted ==
  ASSUME NEW tier \in Seq(QueuedMessages), OnceEach(tier), NEW n \in Nat, Len(tier) = n,
         NEW s \in Seq(QueuedMessages), Len(s) = n,
         NEW at, Rearranges(at, n), \A k \in 1..n : s[k] = tier[at[k]]
  PROVE  /\ Stamps(s) = Stamps(tier) /\ OnceEach(s)
         /\ Transactions(tier) => Transactions(s)
<1> USE DEF Rearranges
<1>1. DOMAIN tier = 1..n /\ DOMAIN s = 1..n
  BY LenProperties
<1>2. Stamps(s) = Stamps(tier)
  <2>1. Stamps(s) = {s[k].stamp : k \in 1..n} /\ Stamps(tier) = {tier[i].stamp : i \in 1..n}
    BY <1>1 DEF Stamps
  <2>2. ASSUME NEW k \in 1..n PROVE s[k].stamp \in Stamps(tier)
    <3>1. at[k] \in 1..n /\ s[k] = tier[at[k]]
      OBVIOUS
    <3>2. tier[at[k]].stamp \in Stamps(tier)
      BY <2>1, <3>1
    <3> QED
      BY <3>1, <3>2
  <2>3. ASSUME NEW i \in 1..n PROVE tier[i].stamp \in Stamps(s)
    <3>1. PICK k \in 1..n : at[k] = i
      OBVIOUS
    <3>2. s[k] = tier[i] /\ s[k].stamp \in Stamps(s)
      BY <2>1, <3>1
    <3> QED
      BY <3>2
  <2>4. Stamps(s) \subseteq Stamps(tier)
    <3> SUFFICES ASSUME NEW x \in Stamps(s) PROVE x \in Stamps(tier)
      OBVIOUS
    <3>1. PICK k \in 1..n : x = s[k].stamp
      BY <2>1
    <3> QED
      BY <2>2, <3>1
  <2>5. Stamps(tier) \subseteq Stamps(s)
    BY <2>1, <2>3
  <2> QED
    BY <2>4, <2>5
<1>3. OnceEach(s)
  <2> SUFFICES ASSUME NEW k \in 1..n, NEW l \in 1..n, s[k].stamp = s[l].stamp PROVE k = l
    BY <1>1 DEF OnceEach
  <2>1. at[k] \in 1..n /\ at[l] \in 1..n /\ tier[at[k]].stamp = tier[at[l]].stamp
    OBVIOUS
  <2>2. at[k] = at[l]
    BY <1>1, <2>1 DEF OnceEach
  <2>3. ~(k < l) /\ ~(l < k)
    BY <2>2
  <2> QED
    BY <2>3
<1>4. Transactions(tier) => Transactions(s)
  BY <1>1 DEF Transactions
<1> QED
  BY <1>2, <1>3, <1>4

\* A sequence of messages cut in two.
LEMMA TierSplit ==
  ASSUME NEW s \in Seq(QueuedMessages), OnceEach(s), NEW m \in Nat, m <= Len(s)
  PROVE  LET b == SubSeq(s, 1, m)
             r == SubSeq(s, m + 1, Len(s))
         IN  /\ b \in Seq(QueuedMessages) /\ Len(b) = m
             /\ r \in Seq(QueuedMessages) /\ Len(r) = Len(s) - m
             /\ \A i \in 1..m : b[i] = s[i]
             /\ \A i \in 1..(Len(s) - m) : r[i] = s[m + i]
             /\ OnceEach(r)
             /\ Stamps(b) \cup Stamps(r) = Stamps(s) /\ Stamps(b) \cap Stamps(r) = {}
             /\ Transactions(s) => Transactions(r)
<1> DEFINE b == SubSeq(s, 1, m)
           r == SubSeq(s, m + 1, Len(s))
           n == Len(s)
<1>1. n \in Nat /\ DOMAIN s = 1..n /\ \A i \in 1..n : s[i] \in QueuedMessages
  BY LenProperties, ElementOfSeq
<1>2. /\ b \in Seq(QueuedMessages) /\ Len(b) = m /\ DOMAIN b = 1..m
      /\ \A i \in 1..m : b[i] = s[i]
  <2>1. /\ b \in Seq(QueuedMessages) /\ Len(b) = IF 1 <= m THEN m - 1 + 1 ELSE 0
        /\ \A i \in 1..(m - 1 + 1) : b[i] = s[1 + i - 1]
    BY <1>1, SubSeqProperties
  <2> QED
    BY <1>1, <2>1, LenProperties
<1>3. /\ r \in Seq(QueuedMessages) /\ Len(r) = n - m /\ DOMAIN r = 1..(n - m)
      /\ \A i \in 1..(n - m) : r[i] = s[m + i]
  <2>1. /\ r \in Seq(QueuedMessages) /\ Len(r) = IF m + 1 <= n THEN n - (m + 1) + 1 ELSE 0
        /\ \A i \in 1..(n - (m + 1) + 1) : r[i] = s[(m + 1) + i - 1]
    BY <1>1, SubSeqProperties
  <2> HIDE DEF r
  <2>2. n - (m + 1) + 1 = n - m /\ \A i \in 1..(n - m) : (m + 1) + i - 1 = m + i
    BY <1>1
  <2>3. Len(r) = n - m
    <3> HIDE DEF n
    <3>1. CASE m + 1 <= n
      BY <1>1, <2>1, <3>1
    <3>2. CASE m = n
      BY <1>1, <2>1, <3>2
    <3> QED
      BY <1>1, <3>1, <3>2
  <2> QED
    BY <1>1, <2>1, <2>2, <2>3, LenProperties
<1> HIDE DEF b, r
<1>4. \A i \in 1..(n - m) : m + i \in 1..n /\ m + i \notin 1..m
  BY <1>1
<1>5. \A i \in 1..m : i \in 1..n
  BY <1>1
<1>6. OnceEach(r)
  <2> SUFFICES ASSUME NEW i \in 1..(n - m), NEW j \in 1..(n - m), r[i].stamp = r[j].stamp PROVE i = j
    BY <1>3 DEF OnceEach
  <2>1. s[m + i].stamp = s[m + j].stamp
    BY <1>3
  <2>2. m + i = m + j
    BY <1>1, <1>4, <2>1 DEF OnceEach
  <2> QED
    BY <1>1, <2>2
<1>7. Stamps(b) \cap Stamps(r) = {}
  <2> SUFFICES ASSUME NEW i \in 1..m, NEW j \in 1..(n - m), b[i].stamp = r[j].stamp PROVE FALSE
    BY <1>2, <1>3 DEF Stamps
  <2>1. s[i].stamp = s[m + j].stamp
    BY <1>2, <1>3
  <2>2. i = m + j
    BY <1>1, <1>4, <1>5, <2>1 DEF OnceEach
  <2> QED
    BY <1>4, <2>2
<1>8. Stamps(b) \cup Stamps(r) = Stamps(s)
  <2>1. Stamps(b) \subseteq Stamps(s)
    BY <1>1, <1>2, <1>5 DEF Stamps
  <2>2. Stamps(r) \subseteq Stamps(s)
    BY <1>1, <1>3, <1>4 DEF Stamps
  <2>3. ASSUME NEW i \in 1..n PROVE s[i].stamp \in Stamps(b) \cup Stamps(r)
    <3>1. CASE i \in 1..m
      BY <1>2, <3>1 DEF Stamps
    <3>2. CASE i \notin 1..m
      <4>1. i - m \in 1..(n - m) /\ m + (i - m) = i
        BY <1>1, <3>2
      <4> QED
        BY <1>3, <4>1 DEF Stamps
    <3> QED
      BY <3>1, <3>2
  <2> QED
    BY <1>1, <2>1, <2>2, <2>3 DEF Stamps
<1>9. Transactions(s) => Transactions(r)
  BY <1>1, <1>3, <1>4 DEF Transactions
<1> QED
  BY <1>2, <1>3, <1>6, <1>7, <1>8, <1>9 DEF b, r

\* The urgency of a message is a number; of two transactions of the same age
\* and TTL it is the same.
LEMMA UrgencyOfMessages ==
  \A t \in Nat :
    /\ \A m \in QueuedMessages : UrgencyScore(m, t) \in Int
    /\ \A a, b \in QueuedMessages :
         Priority(a) = "Normal" /\ Priority(b) = "Normal" /\ a.ttl = b.ttl /\ a.timestamp = b.timestamp
           => UrgencyScore(a, t) = UrgencyScore(b, t)
<1> SUFFICES ASSUME NEW t \in Nat
             PROVE  /\ \A m \in QueuedMessages : UrgencyScore(m, t) \in Int
                    /\ \A a, b \in QueuedMessages :
                         Priority(a) = "Normal" /\ Priority(b) = "Normal" /\ a.ttl = b.ttl
                         /\ a.timestamp = b.timestamp
                           => UrgencyScore(a, t) = UrgencyScore(b, t)
  OBVIOUS
<1>1. ASSUME NEW m \in QueuedMessages PROVE UrgencyScore(m, t) \in Int
  <2> DEFINE age == SaturatingSub(t, m.timestamp)
  <2>1. m.ttl \in Nat /\ m.timestamp \in Nat
    BY DEF QueuedMessages
  <2>2. SaturatingSub(TtlCeiling, m.ttl) \in Int /\ age \in Nat
    BY <2>1, QueueAssumption DEF SaturatingSub
  <2> HIDE DEF age
  <2>3. age \div AgeUnit \in Int
    BY <2>2, QueueAssumption
  <2>4. AtMost(age \div AgeUnit, AgeCeiling) \in Int
    BY <2>3, QueueAssumption DEF AtMost
  <2> QED
    BY <2>2, <2>4 DEF UrgencyScore, age
<1>2. \A m \in QueuedMessages : Priority(m) = "Normal" => m.type = "Transaction"
  BY DEF QueuedMessages, Priority
<1>3. ASSUME NEW a \in QueuedMessages, NEW b \in QueuedMessages,
             Priority(a) = "Normal", Priority(b) = "Normal", a.ttl = b.ttl, a.timestamp = b.timestamp
      PROVE  UrgencyScore(a, t) = UrgencyScore(b, t)
  BY <1>2, <1>3 DEF UrgencyScore
<1> QED
  BY <1>1, <1>3

\* The sorted Normal tier: the most urgent first, equals in order of arrival.
LEMMA TierSorted ==
  ASSUME NEW tier \in Seq(QueuedMessages), OnceEach(tier), NEW X, Fifo(tier, X), Transactions(tier), NEW t \in Nat,
         NEW s, s = ByUrgency(tier, Scores(tier, t))
  PROVE  /\ s \in Seq(QueuedMessages) /\ Len(s) = Len(tier)
         /\ Stamps(s) = Stamps(tier) /\ OnceEach(s) /\ Transactions(s) /\ Fifo(s, X)
         /\ \A k, l \in 1..Len(s) : k < l => UrgencyScore(s[k], t) >= UrgencyScore(s[l], t)
<1> DEFINE n == Len(tier)
           score == Scores(tier, t)
<1>1. n \in Nat /\ DOMAIN tier = 1..n /\ \A i \in 1..n : tier[i] \in QueuedMessages
  BY LenProperties, ElementOfSeq
<1>2. score \in [1..n -> Int] /\ \A i \in 1..n : score[i] = UrgencyScore(tier[i], t)
  BY <1>1, UrgencyOfMessages DEF Scores
<1> HIDE DEF score
<1>3. s \in Seq(QueuedMessages) /\ Len(s) = n
  BY <1>2, ByUrgencySorts DEF score
<1>4. PICK at \in [1..Len(tier) -> 1..Len(tier)] : SortedAs(ByUrgency(tier, score), tier, score, at)
  BY <1>2, ByUrgencySorts
<1>5. /\ at \in [1..n -> 1..n]
      /\ \A k \in 1..n : s[k] = tier[at[k]]
      /\ \A k, l \in 1..n : k < l => SortedBefore(score[at[k]], at[k], score[at[l]], at[l])
      /\ \A i \in 1..n : \E k \in 1..n : at[k] = i
  BY <1>4 DEF score, SortedAs
<1> HIDE DEF n
<1>6. ASSUME NEW k \in 1..n, NEW l \in 1..n, k < l
      PROVE  /\ at[k] # at[l]
             /\ UrgencyScore(s[k], t) >= UrgencyScore(s[l], t)
             /\ UrgencyScore(s[k], t) = UrgencyScore(s[l], t) => at[k] < at[l]
  <2>1. at[k] \in 1..n /\ at[l] \in 1..n
    BY <1>5
  <2>2. /\ score[at[k]] = UrgencyScore(s[k], t) /\ score[at[k]] \in Int
        /\ score[at[l]] = UrgencyScore(s[l], t) /\ score[at[l]] \in Int
    BY <1>2, <1>5, <2>1
  <2>3. SortedBefore(score[at[k]], at[k], score[at[l]], at[l])
    BY <1>5, <1>6
  <2>4. \/ UrgencyScore(s[k], t) > UrgencyScore(s[l], t)
        \/ UrgencyScore(s[k], t) = UrgencyScore(s[l], t) /\ at[k] < at[l]
    BY <2>2, <2>3 DEF SortedBefore
  <2>5. UrgencyScore(s[k], t) \in Int /\ UrgencyScore(s[l], t) \in Int
    BY <2>2
  <2>6. UrgencyScore(s[k], t) > UrgencyScore(s[l], t) => at[k] # at[l]
    BY <2>2, <2>5
  <2> QED
    BY <1>1, <2>1, <2>4, <2>5, <2>6
<1>7. Stamps(s) = Stamps(tier) /\ OnceEach(s) /\ (Transactions(tier) => Transactions(s))
  <2>1. Rearranges(at, n)
    BY <1>5, <1>6 DEF Rearranges
  <2>2. Len(tier) = n
    BY DEF n
  <2> QED
    BY <1>1, <1>3, <1>5, <2>1, <2>2, TierPermuted
<1>8. Fifo(s, X)
  <2>1. DOMAIN s = 1..n
    BY <1>3, LenProperties
  <2> SUFFICES ASSUME NEW k \in 1..n, NEW l \in 1..n, k < l,
                      s[k].ttl = s[l].ttl, s[k].timestamp = s[l].timestamp
               PROVE  s[k].stamp < s[l].stamp \/ {s[k].stamp, s[l].stamp} \subseteq X
    BY <2>1 DEF Fifo
  <2>2. at[k] \in 1..n /\ at[l] \in 1..n /\ s[k] = tier[at[k]] /\ s[l] = tier[at[l]]
    BY <1>5
  <2>3. UrgencyScore(s[k], t) = UrgencyScore(s[l], t)
    <3>1. /\ tier[at[k]] \in QueuedMessages /\ Priority(tier[at[k]]) = "Normal"
          /\ tier[at[l]] \in QueuedMessages /\ Priority(tier[at[l]]) = "Normal"
      BY <1>1, <2>2 DEF Transactions
    <3>2. \A a, b \in QueuedMessages :
            Priority(a) = "Normal" /\ Priority(b) = "Normal" /\ a.ttl = b.ttl /\ a.timestamp = b.timestamp
              => UrgencyScore(a, t) = UrgencyScore(b, t)
      BY UrgencyOfMessages
    <3> QED
      BY <2>2, <3>1, <3>2
  <2>4. at[k] < at[l]
    BY <1>6, <2>3
  <2> QED
    BY <1>1, <2>2, <2>4 DEF Fifo
<1> QED
  BY <1>3, <1>6, <1>7, <1>8 DEF n

\* drain_batch: the batch and what it leaves are the tier in its new order.
LEMMA TierDrained ==
  ASSUME NEW s \in Seq(QueuedMessages), OnceEach(s), Transactions(s),
         NEW b, b = Drained(s, BatchSize), NEW r, r = Retained(s, BatchSize)
  PROVE  /\ b \in Seq(QueuedMessages) /\ r \in Seq(QueuedMessages) /\ Len(r) <= Len(s)
         /\ Stamps(b) \cup Stamps(r) = Stamps(s) /\ Stamps(b) \cap Stamps(r) = {}
         /\ OnceEach(r) /\ Transactions(r) /\ b \o r = s
         /\ \A X : Fifo(s, X) => Fifo(r, X)
<1> DEFINE m == AtMost(BatchSize, Len(s))
           n == Len(s)
<1>1. b = SubSeq(s, 1, m) /\ r = SubSeq(s, m + 1, n)
  BY DEF Drained, Retained
<1>2. n \in Nat /\ m \in Nat /\ m <= n
  BY LenProperties, QueueAssumption DEF AtMost
<1>0. Len(s) = n
  OBVIOUS
<1> HIDE DEF m, n
<1>3. /\ b \in Seq(QueuedMessages) /\ Len(b) = m
      /\ r \in Seq(QueuedMessages) /\ Len(r) = n - m
      /\ \A i \in 1..m : b[i] = s[i]
      /\ \A i \in 1..(n - m) : r[i] = s[m + i]
      /\ OnceEach(r)
      /\ Stamps(b) \cup Stamps(r) = Stamps(s) /\ Stamps(b) \cap Stamps(r) = {}
      /\ Transactions(r)
  BY <1>0, <1>1, <1>2, TierSplit
<1> DEFINE o == b \o r
<1>4. /\ o \in Seq(QueuedMessages) /\ Len(o) = Len(b) + Len(r)
      /\ \A i \in 1..(Len(b) + Len(r)) : o[i] = IF i <= Len(b) THEN b[i] ELSE r[i - Len(b)]
  BY <1>3, ConcatProperties
<1> HIDE DEF o
<1>5. /\ o \in [1..n -> QueuedMessages] /\ s \in [1..n -> QueuedMessages]
      /\ DOMAIN s = 1..n /\ DOMAIN r = 1..(n - m)
  <2>1. Len(o) = n
    BY <1>2, <1>3, <1>4
  <2> QED
    BY <1>3, <1>4, <2>1, LenProperties DEF n
<1>6. ASSUME NEW i \in 1..n PROVE o[i] = s[i]
  <2>1. i \in 1..(Len(b) + Len(r)) /\ o[i] = IF i <= m THEN b[i] ELSE r[i - m]
    BY <1>2, <1>3, <1>4
  <2>2. CASE i <= m
    <3>1. i \in 1..m
      BY <1>2, <2>2
    <3> QED
      BY <1>3, <2>1, <2>2, <3>1
  <2>3. CASE ~(i <= m)
    <3>1. i - m \in 1..(n - m) /\ m + (i - m) = i
      BY <1>2, <2>3
    <3> QED
      BY <1>3, <2>1, <2>3, <3>1
  <2> QED
    BY <2>2, <2>3
<1>7. b \o r = s
  <2>1. o = [i \in 1..n |-> o[i]] /\ s = [i \in 1..n |-> s[i]]
    BY <1>5
  <2>2. [i \in 1..n |-> o[i]] = [i \in 1..n |-> s[i]]
    BY <1>6
  <2> QED
    BY <2>1, <2>2 DEF o
<1>8. ASSUME NEW X, Fifo(s, X) PROVE Fifo(r, X)
  <2> SUFFICES ASSUME NEW i \in 1..(n - m), NEW j \in 1..(n - m), i < j,
                      r[i].ttl = r[j].ttl, r[i].timestamp = r[j].timestamp
               PROVE  r[i].stamp < r[j].stamp \/ {r[i].stamp, r[j].stamp} \subseteq X
    BY <1>5 DEF Fifo
  <2>1. m + i \in 1..n /\ m + j \in 1..n /\ m + i < m + j
    BY <1>2
  <2>2. r[i] = s[m + i] /\ r[j] = s[m + j]
    BY <1>3
  <2> QED
    BY <1>5, <1>8, <2>1, <2>2 DEF Fifo
<1>9. Len(r) <= Len(s)
  BY <1>2, <1>3 DEF n
<1> QED
  BY <1>3, <1>7, <1>8, <1>9

\* A tier holds as many messages as it has places.
LEMMA TierSize ==
  ASSUME NEW s \in Seq(QueuedMessages), OnceEach(s)
  PROVE  IsFiniteSet(Stamps(s)) /\ Cardinality(Stamps(s)) = Len(s) /\ Len(s) \in Nat
<1> DEFINE n == Len(s)
           f == [i \in 1..n |-> s[i].stamp]
<1>1. n \in Nat /\ DOMAIN s = 1..n
  BY LenProperties
<1>2. IsFiniteSet(1..n) /\ Cardinality(1..n) = n
  <2>1. IsFiniteSet(1..n) /\ Cardinality(1..n) = IF 1 > n THEN 0 ELSE n - 1 + 1
    BY <1>1, FS_Interval
  <2> QED
    BY <1>1, <2>1
<1>3. Stamps(s) = {s[i].stamp : i \in 1..n}
  BY <1>1 DEF Stamps
<1>4. f \in Surjection(1..n, Stamps(s))
  BY <1>3 DEF Surjection
<1>5. f \in Injection(1..n, Stamps(s))
  BY <1>1, <1>3 DEF Injection, IsInjective, OnceEach
<1> QED
  BY <1>1, <1>2, <1>4, <1>5, FS_Surjection

\* The places where a message can be: no message is in two, and together they
\* hold the messages of P.
Ledger(H, N, L, out, lost, P) ==
  /\ H \cup N \cup L \cup out \cup lost = P
  /\ H \cap (N \cup L \cup out \cup lost) = {} /\ N \cap (L \cup out \cup lost) = {}
  /\ L \cap (out \cup lost) = {} /\ out \cap lost = {}

\* A message that comes into a tier, and those that it drives out.
LEMMA LedgerPush ==
  ASSUME NEW H, NEW N, NEW L, NEW out, NEW lost, NEW P, Ledger(H, N, L, out, lost, P),
         NEW x, x \notin P, NEW d
  PROVE  /\ d \subseteq N \cup {x} => Ledger(H, (N \cup {x}) \ d, L, out, lost \cup d, P \cup {x})
         /\ d \subseteq L \cup {x} => Ledger(H, N, (L \cup {x}) \ d, out, lost \cup d, P \cup {x})
BY DEF Ledger

PushedSoFar == {n \in 0..MaxPushes : n < pushes}

Accounted ==
  /\ OnceEach(high) /\ OnceEach(normal) /\ OnceEach(low)
  /\ Ledger(Stamps(high), Stamps(normal), Stamps(low), taken, dropped, PushedSoFar)

QueueInv == QueueTypeOK /\ Accounted /\ Fifo(normal, shuffled) /\ MostUrgentFirst

\* Without a batch, MostUrgentFirst is the order of the Normal tier.
LEMMA FifoIsUrgent ==
  ASSUME NEW q \in Seq(QueuedMessages), NEW X, Fifo(q, X)
  PROVE  \A i, j \in DOMAIN (<<>> \o q) : i < j =>
           /\ i \notin DOMAIN <<>>
           /\ (<<>> \o q)[i].ttl = (<<>> \o q)[j].ttl /\ (<<>> \o q)[i].timestamp = (<<>> \o q)[j].timestamp
                => \/ (<<>> \o q)[i].stamp < (<<>> \o q)[j].stamp
                   \/ {(<<>> \o q)[i].stamp, (<<>> \o q)[j].stamp} \subseteq X
<1>1. <<>> \o q = q
  BY ConcatEmptySeq
<1>2. DOMAIN <<>> = {}
  OBVIOUS
<1> QED
  BY <1>1, <1>2 DEF Fifo

LEMMA InitQueueInv == QueueInit => QueueInv
<1> SUFFICES ASSUME QueueInit PROVE QueueInv
  OBVIOUS
<1> USE DEF QueueInit
<1>1. <<>> \in Seq(QueuedMessages) /\ Len(<<>>) = 0 /\ DOMAIN <<>> = {}
  BY EmptySeq
<1>2. Stamps(<<>>) = {} /\ OnceEach(<<>>) /\ Fifo(<<>>, {})
  BY <1>1 DEF Stamps, OnceEach, Fifo
<1>3. PushedSoFar = {}
  BY DEF PushedSoFar
<1>4. QueueTypeOK
  BY <1>1, QueueAssumption, TierAssumption DEF QueueTypeOK
<1>5. Accounted
  BY <1>2, <1>3 DEF Accounted, Ledger
<1>6. MostUrgentFirst
  BY <1>1, <1>2, FifoIsUrgent DEF MostUrgentFirst
<1> QED
  BY <1>2, <1>4, <1>5, <1>6 DEF QueueInv

\* The state of the queue that a step starts from.
LEMMA QueueInvParts ==
  QueueInv =>
    /\ high \in Seq(QueuedMessages) /\ normal \in Seq(QueuedMessages) /\ low \in Seq(QueuedMessages)
    /\ OnceEach(high) /\ OnceEach(normal) /\ OnceEach(low) /\ Fifo(normal, shuffled)
    /\ now \in Nat /\ pushes \in 0..MaxPushes /\ MaxPushes \in Nat
    /\ Ledger(Stamps(high), Stamps(normal), Stamps(low), taken, dropped, PushedSoFar)
BY QueueAssumption DEF QueueInv, QueueTypeOK, Accounted

\* What push is given.
LEMMA PushedMessage ==
  QueueInv =>
    \A shape \in Shapes :
      LET m == [type |-> shape.type, ttl |-> shape.ttl, hops |-> shape.hops,
                timestamp |-> now, stamp |-> pushes]
      IN  m \in QueuedMessages /\ m.stamp \notin PushedSoFar /\ \A x \in PushedSoFar : x < m.stamp
<1> SUFFICES ASSUME QueueInv, NEW shape \in Shapes
             PROVE  LET m == [type |-> shape.type, ttl |-> shape.ttl, hops |-> shape.hops,
                              timestamp |-> now, stamp |-> pushes]
                    IN  m \in QueuedMessages /\ m.stamp \notin PushedSoFar /\ \A x \in PushedSoFar : x < m.stamp
  OBVIOUS
<1>1. now \in Nat /\ pushes \in Nat
  BY QueueInvParts
<1>2. shape \in [type : {"Transaction", "SyncRequest", "SyncResponse", "TopologyUpdate", "Handshake"},
                 ttl : Nat, hops : Nat]
  BY QueueAssumption
<1>3. pushes \notin PushedSoFar /\ \A x \in PushedSoFar : x < pushes
  BY <1>1 DEF PushedSoFar
<1> QED
  BY <1>1, <1>2, <1>3 DEF QueuedMessages

LEMMA PushStep == QueueInv /\ (\E shape \in Shapes : Push(shape)) => QueueInv'
<1> SUFFICES ASSUME QueueInv, NEW shape \in Shapes, Push(shape) PROVE QueueInv'
  OBVIOUS
<1> DEFINE m == [type |-> shape.type, ttl |-> shape.ttl, hops |-> shape.hops,
                 timestamp |-> now, stamp |-> pushes]
<1>1. /\ high \in Seq(QueuedMessages) /\ normal \in Seq(QueuedMessages) /\ low \in Seq(QueuedMessages)
      /\ OnceEach(high) /\ OnceEach(normal) /\ OnceEach(low) /\ Fifo(normal, shuffled)
      /\ now \in Nat /\ pushes \in 0..MaxPushes /\ MaxPushes \in Nat
      /\ Ledger(Stamps(high), Stamps(normal), Stamps(low), taken, dropped, PushedSoFar)
  BY QueueInvParts
<1>2. m \in QueuedMessages /\ m.stamp = pushes /\ m.stamp \notin PushedSoFar /\ \A x \in PushedSoFar : x < m.stamp
  BY PushedMessage
<1>3. /\ m.stamp \notin Stamps(high) /\ m.stamp \notin Stamps(normal) /\ m.stamp \notin Stamps(low)
      /\ \A x \in Stamps(normal) : x < m.stamp
  BY <1>1, <1>2 DEF Ledger
<1>4. /\ pushes < MaxPushes /\ pushes' = pushes + 1 /\ batch' = <<>> /\ now' = now /\ taken' = taken
      /\ steady' = steady /\ shuffled' = shuffled
      /\ \/ Priority(m) = "High" /\ high' = Append(high, m) /\ UNCHANGED <<normal, low, dropped>>
         \/ /\ Priority(m) = "Normal" /\ normal' = PushTier(normal, m, NORMAL_CAPACITY)
            /\ dropped' = dropped \cup {d.stamp : d \in PushDrops(normal, m, NORMAL_CAPACITY)}
            /\ UNCHANGED <<high, low>>
         \/ /\ Priority(m) = "Low" /\ low' = PushTier(low, m, LOW_CAPACITY)
            /\ dropped' = dropped \cup {d.stamp : d \in PushDrops(low, m, LOW_CAPACITY)}
            /\ UNCHANGED <<high, normal>>
  BY DEF Push
<1> HIDE DEF m
<1>5. PushedSoFar' = PushedSoFar \cup {m.stamp} /\ pushes' \in 0..MaxPushes /\ m.stamp \in 0..MaxPushes
  BY <1>1, <1>2, <1>4 DEF PushedSoFar
<1>6. <<>> \in Seq(QueuedMessages)
  BY EmptySeq
<1>7. /\ \A i \in DOMAIN high : Priority(high[i]) = "High"
      /\ \A i \in DOMAIN normal : Priority(normal[i]) = "Normal" /\ Len(normal) <= NORMAL_CAPACITY
      /\ \A i \in DOMAIN low : Priority(low[i]) = "Low"
      /\ Len(normal) <= NORMAL_CAPACITY /\ Len(low) <= LOW_CAPACITY
      /\ now \in 0..MaxNow /\ taken \in SUBSET (0..MaxPushes) /\ dropped \in SUBSET (0..MaxPushes)
      /\ steady \in BOOLEAN /\ shuffled \in SUBSET (0..MaxPushes)
  BY DEF QueueInv, QueueTypeOK
<1>8. normal' \in Seq(QueuedMessages) /\ Fifo(normal', shuffled') => MostUrgentFirst'
  BY <1>4, FifoIsUrgent DEF MostUrgentFirst
<1>9. CASE Priority(m) = "High" /\ high' = Append(high, m) /\ UNCHANGED <<normal, low, dropped>>
  <2>1. /\ high' \in Seq(QueuedMessages) /\ OnceEach(high')
        /\ Stamps(high') = Stamps(high) \cup {m.stamp}
        /\ \A i \in DOMAIN high' : Priority(high'[i]) = "High"
    BY <1>1, <1>2, <1>3, <1>7, <1>9, TierAppend
  <2>2. Ledger(Stamps(high'), Stamps(normal'), Stamps(low'), taken', dropped', PushedSoFar')
    BY <1>1, <1>2, <1>3, <1>4, <1>5, <1>9, <2>1 DEF Ledger
  <2>3. QueueTypeOK'
    BY <1>1, <1>4, <1>5, <1>6, <1>7, <1>9, <2>1 DEF QueueTypeOK
  <2> QED
    BY <1>1, <1>4, <1>8, <1>9, <2>1, <2>2, <2>3 DEF QueueInv, Accounted
<1>10. CASE /\ Priority(m) = "Normal" /\ normal' = PushTier(normal, m, NORMAL_CAPACITY)
            /\ dropped' = dropped \cup {d.stamp : d \in PushDrops(normal, m, NORMAL_CAPACITY)}
            /\ UNCHANGED <<high, low>>
  <2> DEFINE d == {x.stamp : x \in PushDrops(normal, m, NORMAL_CAPACITY)}
  <2>1. /\ normal' \in Seq(QueuedMessages) /\ Len(normal') <= NORMAL_CAPACITY /\ OnceEach(normal')
        /\ d \subseteq Stamps(normal) \cup {m.stamp}
        /\ Stamps(normal') = (Stamps(normal) \cup {m.stamp}) \ d
        /\ \A i \in DOMAIN normal' : Priority(normal'[i]) = "Normal"
        /\ Fifo(normal', shuffled')
    BY <1>1, <1>2, <1>3, <1>4, <1>7, <1>10, TierAssumption, TierPush
  <2>2. dropped' = dropped \cup d
    BY <1>10
  <2> HIDE DEF d
  <2>3. Ledger(Stamps(high'), Stamps(normal'), Stamps(low'), taken', dropped', PushedSoFar')
    <3>1. high' = high /\ low' = low /\ taken' = taken /\ PushedSoFar' = PushedSoFar \cup {m.stamp}
      BY <1>4, <1>5, <1>10
    <3>2. Ledger(Stamps(high), (Stamps(normal) \cup {m.stamp}) \ d, Stamps(low), taken, dropped \cup d, PushedSoFar \cup {m.stamp})
      BY <1>1, <1>2, <2>1, LedgerPush
    <3> QED
      BY <2>1, <2>2, <3>1, <3>2
  <2>4. dropped' \in SUBSET (0..MaxPushes)
    BY <1>5, <1>7, <2>3 DEF Ledger, PushedSoFar
  <2>5. QueueTypeOK'
    BY <1>1, <1>4, <1>5, <1>6, <1>7, <1>10, <2>1, <2>4 DEF QueueTypeOK
  <2> QED
    BY <1>1, <1>8, <1>10, <2>1, <2>3, <2>5 DEF QueueInv, Accounted
<1>11. CASE /\ Priority(m) = "Low" /\ low' = PushTier(low, m, LOW_CAPACITY)
            /\ dropped' = dropped \cup {d.stamp : d \in PushDrops(low, m, LOW_CAPACITY)}
            /\ UNCHANGED <<high, normal>>
  <2> DEFINE d == {x.stamp : x \in PushDrops(low, m, LOW_CAPACITY)}
  <2>0. LOW_CAPACITY \in Nat \ {0}
    BY QueueAssumption
  <2>1. /\ low' \in Seq(QueuedMessages) /\ Len(low') <= LOW_CAPACITY /\ OnceEach(low')
        /\ d \subseteq Stamps(low) \cup {m.stamp}
        /\ Stamps(low') = (Stamps(low) \cup {m.stamp}) \ d
        /\ \A i \in DOMAIN low' : Priority(low'[i]) = "Low"
    BY <1>1, <1>2, <1>3, <1>7, <1>11, <2>0, TierPush
  <2>2. dropped' = dropped \cup d
    BY <1>11
  <2> HIDE DEF d
  <2>3. Ledger(Stamps(high'), Stamps(normal'), Stamps(low'), taken', dropped', PushedSoFar')
    <3>1. high' = high /\ normal' = normal /\ taken' = taken /\ PushedSoFar' = PushedSoFar \cup {m.stamp}
      BY <1>4, <1>5, <1>11
    <3>2. Ledger(Stamps(high), Stamps(normal), (Stamps(low) \cup {m.stamp}) \ d, taken, dropped \cup d, PushedSoFar \cup {m.stamp})
      BY <1>1, <1>2, <2>1, LedgerPush
    <3> QED
      BY <2>1, <2>2, <3>1, <3>2
  <2>4. dropped' \in SUBSET (0..MaxPushes)
    BY <1>5, <1>7, <2>3 DEF Ledger, PushedSoFar
  <2>5. QueueTypeOK'
    BY <1>1, <1>4, <1>5, <1>6, <1>7, <1>11, <2>1, <2>4 DEF QueueTypeOK
  <2> QED
    BY <1>1, <1>4, <1>8, <1>11, <2>1, <2>3, <2>5 DEF QueueInv, Accounted
<1> QED
  BY <1>4, <1>9, <1>10, <1>11

LEMMA PopStep == QueueInv /\ Pop => QueueInv'
<1> SUFFICES ASSUME QueueInv, Pop PROVE QueueInv'
  OBVIOUS
<1>1. /\ high \in Seq(QueuedMessages) /\ normal \in Seq(QueuedMessages) /\ low \in Seq(QueuedMessages)
      /\ OnceEach(high) /\ OnceEach(normal) /\ OnceEach(low) /\ Fifo(normal, shuffled)
      /\ Ledger(Stamps(high), Stamps(normal), Stamps(low), taken, dropped, PushedSoFar)
  BY QueueInvParts
<1>2. batch' = <<>> /\ now' = now /\ pushes' = pushes /\ dropped' = dropped /\ PushedSoFar' = PushedSoFar
      /\ steady' = steady /\ shuffled' = shuffled
  BY DEF Pop, PushedSoFar
<1>3. /\ \A i \in DOMAIN high : Priority(high[i]) = "High"
      /\ \A i \in DOMAIN normal : Priority(normal[i]) = "Normal"
      /\ \A i \in DOMAIN low : Priority(low[i]) = "Low"
      /\ Len(normal) <= NORMAL_CAPACITY /\ Len(low) <= LOW_CAPACITY
      /\ now \in 0..MaxNow /\ pushes \in 0..MaxPushes
      /\ taken \in SUBSET (0..MaxPushes) /\ dropped \in SUBSET (0..MaxPushes)
      /\ steady \in BOOLEAN /\ shuffled \in SUBSET (0..MaxPushes)
  BY DEF QueueInv, QueueTypeOK
<1>4. normal' \in Seq(QueuedMessages) /\ Fifo(normal', shuffled') => MostUrgentFirst'
  BY <1>2, FifoIsUrgent DEF MostUrgentFirst
<1>5. <<>> \in Seq(QueuedMessages) /\ Len(normal) \in Nat /\ Len(low) \in Nat
  BY <1>1, EmptySeq, LenProperties
<1>6. CASE high # <<>> /\ taken' = taken \cup {Head(high).stamp} /\ high' = Tail(high) /\ UNCHANGED <<normal, low>>
  <2>1. /\ high' \in Seq(QueuedMessages) /\ OnceEach(high')
        /\ Head(high).stamp \in Stamps(high) /\ Stamps(high') = Stamps(high) \ {Head(high).stamp}
        /\ \A i \in DOMAIN high' : Priority(high'[i]) = "High"
    BY <1>1, <1>3, <1>6, TierTail
  <2>2. Ledger(Stamps(high'), Stamps(normal'), Stamps(low'), taken', dropped', PushedSoFar')
    BY <1>1, <1>2, <1>6, <2>1 DEF Ledger
  <2>3. taken' \in SUBSET (0..MaxPushes)
    BY <1>2, <2>2 DEF Ledger, PushedSoFar
  <2>4. QueueTypeOK'
    BY <1>1, <1>2, <1>3, <1>5, <1>6, <2>1, <2>3 DEF QueueTypeOK
  <2> QED
    BY <1>1, <1>2, <1>4, <1>6, <2>1, <2>2, <2>4 DEF QueueInv, Accounted
<1>7. CASE normal # <<>> /\ taken' = taken \cup {Head(normal).stamp} /\ normal' = Tail(normal) /\ UNCHANGED <<high, low>>
  <2>1. /\ normal' \in Seq(QueuedMessages) /\ OnceEach(normal') /\ Fifo(normal', shuffled')
        /\ Len(normal') = Len(normal) - 1
        /\ Head(normal).stamp \in Stamps(normal) /\ Stamps(normal') = Stamps(normal) \ {Head(normal).stamp}
        /\ \A i \in DOMAIN normal' : Priority(normal'[i]) = "Normal"
    BY <1>1, <1>2, <1>3, <1>7, TierTail
  <2>2. Ledger(Stamps(high'), Stamps(normal'), Stamps(low'), taken', dropped', PushedSoFar')
    BY <1>1, <1>2, <1>7, <2>1 DEF Ledger
  <2>3. taken' \in SUBSET (0..MaxPushes)
    BY <1>2, <2>2 DEF Ledger, PushedSoFar
  <2>4. Len(normal') <= NORMAL_CAPACITY
    BY <1>3, <1>5, <2>1, TierAssumption
  <2>5. QueueTypeOK'
    BY <1>1, <1>2, <1>3, <1>5, <1>7, <2>1, <2>3, <2>4 DEF QueueTypeOK
  <2> QED
    BY <1>1, <1>4, <1>7, <2>1, <2>2, <2>5 DEF QueueInv, Accounted
<1>8. CASE low # <<>> /\ taken' = taken \cup {Head(low).stamp} /\ low' = Tail(low) /\ UNCHANGED <<high, normal>>
  <2>1. /\ low' \in Seq(QueuedMessages) /\ OnceEach(low')
        /\ Len(low') = Len(low) - 1
        /\ Head(low).stamp \in Stamps(low) /\ Stamps(low') = Stamps(low) \ {Head(low).stamp}
        /\ \A i \in DOMAIN low' : Priority(low'[i]) = "Low"
    BY <1>1, <1>3, <1>8, TierTail
  <2>2. Ledger(Stamps(high'), Stamps(normal'), Stamps(low'), taken', dropped', PushedSoFar')
    BY <1>1, <1>2, <1>8, <2>1 DEF Ledger
  <2>3. taken' \in SUBSET (0..MaxPushes)
    BY <1>2, <2>2 DEF Ledger, PushedSoFar
  <2>4. Len(low') <= LOW_CAPACITY
    BY <1>3, <1>5, <2>1, QueueAssumption
  <2>5. QueueTypeOK'
    BY <1>1, <1>2, <1>3, <1>5, <1>8, <2>1, <2>3, <2>4 DEF QueueTypeOK
  <2> QED
    BY <1>1, <1>2, <1>4, <1>8, <2>1, <2>2, <2>5 DEF QueueInv, Accounted
<1> QED
  BY <1>6, <1>7, <1>8 DEF Pop

\* drain_batch, in whatever order the tier was put: nothing is lost, and what
\* is known of the order holds for the batch and the rest.
LEMMA Handed ==
  ASSUME QueueInv, NEW s \in Seq(QueuedMessages), Len(s) = Len(normal),
         Stamps(s) = Stamps(normal), OnceEach(s), Transactions(s),
         Hand(s), UNCHANGED <<high, low, pushes, dropped>>, now' \in 0..MaxNow, steady' \in BOOLEAN,
         shuffled' \in SUBSET (0..MaxPushes), Fifo(s, shuffled'),
         steady' => \A i, j \in 1..Len(s) : i < j => UrgencyScore(s[i], now') >= UrgencyScore(s[j], now')
  PROVE  QueueInv'
<1>1. /\ high \in Seq(QueuedMessages) /\ normal \in Seq(QueuedMessages) /\ low \in Seq(QueuedMessages)
      /\ OnceEach(high) /\ OnceEach(normal) /\ OnceEach(low)
      /\ Ledger(Stamps(high), Stamps(normal), Stamps(low), taken, dropped, PushedSoFar)
  BY QueueInvParts
<1>2. /\ batch' = Drained(s, BatchSize) /\ normal' = Retained(s, BatchSize)
      /\ taken' = taken \cup Stamps(batch')
      /\ high' = high /\ low' = low /\ pushes' = pushes /\ dropped' = dropped /\ PushedSoFar' = PushedSoFar
  BY DEF Hand, PushedSoFar
<1>3. /\ \A i \in DOMAIN high : Priority(high[i]) = "High"
      /\ \A i \in DOMAIN low : Priority(low[i]) = "Low"
      /\ Len(normal) <= NORMAL_CAPACITY /\ Len(low) <= LOW_CAPACITY
      /\ pushes \in 0..MaxPushes
      /\ taken \in SUBSET (0..MaxPushes) /\ dropped \in SUBSET (0..MaxPushes)
  BY DEF QueueInv, QueueTypeOK
<1>4. /\ batch' \in Seq(QueuedMessages) /\ normal' \in Seq(QueuedMessages) /\ Len(normal') <= Len(s)
      /\ Stamps(batch') \cup Stamps(normal') = Stamps(normal) /\ Stamps(batch') \cap Stamps(normal') = {}
      /\ OnceEach(normal') /\ Transactions(normal') /\ batch' \o normal' = s
      /\ Fifo(normal', shuffled')
  BY <1>2, TierDrained
<1>5. Ledger(Stamps(high'), Stamps(normal'), Stamps(low'), taken', dropped', PushedSoFar')
  BY <1>1, <1>2, <1>4 DEF Ledger
<1>6. taken' \in SUBSET (0..MaxPushes)
  BY <1>2, <1>5 DEF Ledger, PushedSoFar
<1>7. Len(normal') <= NORMAL_CAPACITY
  <2>1. Len(normal) \in Nat /\ Len(normal') \in Nat
    BY <1>1, <1>4, LenProperties
  <2> QED
    BY <1>3, <1>4, <2>1, TierAssumption
<1>8. \A i \in DOMAIN normal' : Priority(normal'[i]) = "Normal"
  BY <1>4 DEF Transactions
<1>9. QueueTypeOK'
  BY <1>1, <1>2, <1>3, <1>4, <1>6, <1>7, <1>8 DEF QueueTypeOK
<1>10. MostUrgentFirst'
  <2>1. DOMAIN s = 1..Len(s)
    BY LenProperties
  <2> QED
    BY <1>4, <2>1 DEF MostUrgentFirst, Fifo
<1>11. Accounted'
  BY <1>1, <1>2, <1>4, <1>5 DEF Accounted
<1> QED
  BY <1>4, <1>9, <1>10, <1>11 DEF QueueInv

\* What a drain finds in the Normal tier.
LEMMA TierBefore ==
  QueueInv => /\ normal \in Seq(QueuedMessages) /\ OnceEach(normal) /\ Transactions(normal)
              /\ Fifo(normal, shuffled) /\ now \in 0..MaxNow /\ now \in Nat /\ MaxNow \in Nat
              /\ shuffled \in SUBSET (0..MaxPushes)
BY QueueInvParts, QueueAssumption DEF QueueInv, QueueTypeOK, Transactions

LEMMA DrainStep == QueueInv /\ DrainBatch => QueueInv'
<1> SUFFICES ASSUME QueueInv, DrainBatch PROVE QueueInv'
  OBVIOUS
<1> DEFINE s == ByUrgency(normal, Scores(normal, now))
<1>1. /\ normal \in Seq(QueuedMessages) /\ OnceEach(normal) /\ Transactions(normal)
      /\ Fifo(normal, shuffled) /\ now \in 0..MaxNow /\ now \in Nat /\ shuffled \in SUBSET (0..MaxPushes)
  BY TierBefore
<1>2. /\ s \in Seq(QueuedMessages) /\ Len(s) = Len(normal)
      /\ Stamps(s) = Stamps(normal) /\ OnceEach(s) /\ Transactions(s) /\ Fifo(s, shuffled)
      /\ \A k, l \in 1..Len(s) : k < l => UrgencyScore(s[k], now) >= UrgencyScore(s[l], now)
  BY <1>1, TierSorted
<1>3. /\ Hand(s) /\ UNCHANGED <<high, low, pushes, dropped>>
      /\ now' = now /\ steady' = TRUE /\ shuffled' = shuffled
  BY DEF DrainBatch
<1> HIDE DEF s
<1>4. /\ now' \in 0..MaxNow /\ steady' \in BOOLEAN /\ shuffled' \in SUBSET (0..MaxPushes)
      /\ Fifo(s, shuffled')
      /\ \A i, j \in 1..Len(s) : i < j => UrgencyScore(s[i], now') >= UrgencyScore(s[j], now')
  BY <1>1, <1>2, <1>3
<1> QED
  BY <1>2, <1>3, <1>4, Handed

LEMMA DrainStepAsClockMoves == QueueInv /\ DrainBatchAsClockMoves => QueueInv'
<1> SUFFICES ASSUME QueueInv, DrainBatchAsClockMoves PROVE QueueInv'
  OBVIOUS
<1>1. /\ normal \in Seq(QueuedMessages) /\ OnceEach(normal) /\ Transactions(normal)
      /\ now \in 0..MaxNow /\ MaxNow \in Nat /\ shuffled \in SUBSET (0..MaxPushes)
  BY TierBefore
<1>2. PICK s \in Orders(normal) : Hand(s)
  BY DEF DrainBatchAsClockMoves
<1>3. /\ UNCHANGED <<high, low, pushes, dropped>>
      /\ now < MaxNow /\ now' = now + 1 /\ steady' = FALSE /\ shuffled' = shuffled \cup Stamps(normal)
  BY DEF DrainBatchAsClockMoves
<1>4. s \in Seq(QueuedMessages) /\ Len(s) = Len(normal)
  BY <1>1, OrderType
<1>5. PICK at : Rearranges(at, Len(normal)) /\ \A k \in 1..Len(normal) : s[k] = normal[at[k]]
  BY <1>1, OrderType
<1>6. Stamps(s) = Stamps(normal) /\ OnceEach(s) /\ Transactions(s)
  <2>1. Len(normal) \in Nat
    BY <1>1, LenProperties
  <2> QED
    BY <1>1, <1>4, <1>5, <2>1, TierPermuted
<1>7. Fifo(s, shuffled')
  BY <1>3, <1>6 DEF Fifo, Stamps
<1>8. Stamps(normal) \subseteq 0..MaxPushes
  BY QueueInvParts DEF Ledger, PushedSoFar
<1>9. now' \in 0..MaxNow /\ steady' \in BOOLEAN /\ shuffled' \in SUBSET (0..MaxPushes)
  <2>1. now' \in 0..MaxNow
    BY <1>1, <1>3
  <2> HIDE DEF PushedSoFar
  <2>2. shuffled' \in SUBSET (0..MaxPushes)
    BY <1>1, <1>3, <1>8
  <2> QED
    BY <1>3, <2>1, <2>2
<1> QED
  BY <1>2, <1>3, <1>4, <1>6, <1>7, <1>9, Handed

LEMMA PanicStep == QueueInv /\ DrainPanics => QueueInv'
<1> SUFFICES ASSUME QueueInv, DrainPanics PROVE QueueInv'
  OBVIOUS
<1>1. /\ normal' = <<>> /\ batch' = <<>> /\ dropped' = dropped \cup Stamps(normal)
      /\ now < MaxNow /\ now' = now + 1 /\ high' = high /\ low' = low /\ pushes' = pushes
      /\ taken' = taken /\ steady' = steady /\ shuffled' = shuffled /\ PushedSoFar' = PushedSoFar
  BY DEF DrainPanics, PushedSoFar
<1>2. <<>> \in Seq(QueuedMessages) /\ Len(<<>>) = 0 /\ DOMAIN <<>> = {}
  BY EmptySeq
<1>3. Stamps(<<>>) = {} /\ OnceEach(<<>>) /\ Fifo(<<>>, shuffled)
  BY <1>2 DEF Stamps, OnceEach, Fifo
<1>4. /\ OnceEach(high) /\ OnceEach(low)
      /\ Ledger(Stamps(high), Stamps(normal), Stamps(low), taken, dropped, PushedSoFar)
  BY QueueInvParts
<1>5. Ledger(Stamps(high'), Stamps(normal'), Stamps(low'), taken', dropped', PushedSoFar')
  BY <1>1, <1>3, <1>4 DEF Ledger
<1>6. dropped' \in SUBSET (0..MaxPushes)
  BY <1>1, <1>5 DEF Ledger, PushedSoFar
<1>7. QueueTypeOK'
  BY <1>1, <1>2, <1>6, QueueAssumption, TierAssumption, QueueInvParts DEF QueueInv, QueueTypeOK
<1>8. MostUrgentFirst'
  BY <1>1, <1>2, <1>3, FifoIsUrgent DEF MostUrgentFirst
<1>9. Accounted'
  BY <1>1, <1>3, <1>4, <1>5 DEF Accounted
<1> QED
  BY <1>1, <1>3, <1>7, <1>8, <1>9 DEF QueueInv

LEMMA NextQueueInv == QueueInv /\ [QueueNext]_queueVars => QueueInv'
<1> SUFFICES ASSUME QueueInv, [QueueNext]_queueVars PROVE QueueInv'
  OBVIOUS
<1>1. CASE UNCHANGED queueVars
  <2>1. QueueTypeOK' /\ Accounted' /\ Fifo(normal', shuffled')
    BY <1>1 DEF queueVars, QueueInv, QueueTypeOK, Accounted, PushedSoFar
  <2>2. MostUrgentFirst'
    <3>1. batch' = batch /\ normal' = normal /\ now' = now /\ steady' = steady /\ shuffled' = shuffled
      BY <1>1 DEF queueVars
    <3> QED
      BY <3>1 DEF QueueInv, MostUrgentFirst
  <2> QED
    BY <2>1, <2>2 DEF QueueInv
<1>2. CASE Tick
  <2>1. /\ batch' = <<>> /\ high' = high /\ normal' = normal /\ low' = low /\ pushes' = pushes
        /\ taken' = taken /\ dropped' = dropped /\ PushedSoFar' = PushedSoFar /\ now < MaxNow /\ now' = now + 1
          /\ steady' = steady /\ shuffled' = shuffled
    BY <1>2 DEF Tick, PushedSoFar
  <2>2. normal \in Seq(QueuedMessages) /\ Fifo(normal, shuffled) /\ now \in Nat /\ <<>> \in Seq(QueuedMessages)
    BY QueueInvParts, EmptySeq
  <2>3. MostUrgentFirst'
    BY <2>1, <2>2, FifoIsUrgent DEF MostUrgentFirst
  <2>4. QueueTypeOK'
    BY <2>1, <2>2, QueueAssumption DEF QueueInv, QueueTypeOK
  <2>5. Accounted'
    BY <2>1 DEF QueueInv, Accounted
  <2> QED
    BY <2>1, <2>2, <2>3, <2>4, <2>5 DEF QueueInv
<1> QED
  BY <1>1, <1>2, PushStep, PopStep, DrainStep, DrainStepAsClockMoves, PanicStep DEF QueueNext

\* The type invariant of the queue: every tier holds messages of its own
\* priority, Normal and Low within their capacities.
THEOREM QueueTypeCorrect == QueueSpec => []QueueTypeOK
BY InitQueueInv, NextQueueInv, PTL DEF QueueSpec, QueueInv

\* No sequence of push, pop and drain_batch loses a message, hands one out
\* twice, or keeps one that it has handed out or dropped.
THEOREM QueueConserves == QueueSpec => []Conservation
<1>1. QueueInv => Conservation
  <2> SUFFICES ASSUME QueueInv PROVE Conservation
    OBVIOUS
  <2> DEFINE H == Stamps(high)
             N == Stamps(normal)
             L == Stamps(low)
  <2>1. /\ high \in Seq(QueuedMessages) /\ normal \in Seq(QueuedMessages) /\ low \in Seq(QueuedMessages)
        /\ OnceEach(high) /\ OnceEach(normal) /\ OnceEach(low)
        /\ Ledger(H, N, L, taken, dropped, PushedSoFar)
    BY QueueInvParts
  <2>2. /\ IsFiniteSet(H) /\ Cardinality(H) = Len(high) /\ Len(high) \in Nat
        /\ IsFiniteSet(N) /\ Cardinality(N) = Len(normal) /\ Len(normal) \in Nat
        /\ IsFiniteSet(L) /\ Cardinality(L) = Len(low) /\ Len(low) \in Nat
    BY <2>1, TierSize
  <2> HIDE DEF H, N, L
  <2>3. H \cap N = {} /\ (H \cup N) \cap L = {} /\ Cardinality({}) = 0
    BY <2>1, FS_EmptySet DEF Ledger
  <2>4. IsFiniteSet(H \cup N) /\ Cardinality(H \cup N) = Cardinality(H) + Cardinality(N) - Cardinality(H \cap N)
    BY <2>2, FS_Union
  <2>5. Cardinality((H \cup N) \cup L) = Cardinality(H \cup N) + Cardinality(L) - Cardinality((H \cup N) \cap L)
    BY <2>2, <2>4, FS_Union
  <2>6. Cardinality(H \cup N \cup L) = Len(high) + Len(normal) + Len(low)
    <3>0. Cardinality(H \cap N) = 0 /\ Cardinality((H \cup N) \cap L) = 0
      BY <2>3
    <3>1. Cardinality(H \cup N) = Len(high) + Len(normal)
      BY <2>2, <2>4, <3>0
    <3>2. Cardinality((H \cup N) \cup L) = Len(high) + Len(normal) + Len(low)
      BY <2>2, <2>5, <3>0, <3>1
    <3> QED
      BY <3>2
  <2>7. /\ (H \cup N \cup L) \cup taken \cup dropped = PushedSoFar
        /\ (H \cup N \cup L) \cap (taken \cup dropped) = {}
        /\ taken \cap dropped = {}
    BY <2>1 DEF Ledger
  <2> QED
    BY <2>6, <2>7 DEF Conservation, PushedSoFar, H, N, L
<1> QED
  BY <1>1, InitQueueInv, NextQueueInv, PTL DEF QueueSpec

\* drain_batch hands out the most urgent envelopes first and keeps none that is
\* more urgent, whenever no score changes while it sorts, also after sorts in
\* which one did; two envelopes of the same age and TTL leave the tier in the
\* order they came, however often it was reordered, unless both were in such
\* a sort.
THEOREM MostUrgentServed == QueueSpec => []MostUrgentFirst
BY InitQueueInv, NextQueueInv, PTL DEF QueueSpec, QueueInv

-----------------------------------------------------------------------------
(* Envelopes and messages.                                                 *)

\* Crossing a connection changes the hop count only, by at most one.
LEMMA CrossedType ==
  ASSUME NEW e \in Envelopes
  PROVE  /\ Crossed(e) \in Envelopes /\ Crossed(e).id = e.id /\ Crossed(e).ttl = e.ttl
         /\ Crossed(e).hops <= e.hops + 1
<1>1. AtMost(e.hops + 1, HopCap) \in 0..HopCap /\ AtMost(e.hops + 1, HopCap) <= e.hops + 1
  BY MeshAssumption DEF Envelopes, AtMost
<1>2. Crossed(e) = [id |-> e.id, ttl |-> e.ttl, hops |-> AtMost(e.hops + 1, HopCap)]
  BY DEF Crossed, Envelopes
<1> QED
  BY <1>1, <1>2 DEF Envelopes

\* The copy that goes out has one hop less to go.
LEMMA OutboundType ==
  ASSUME NEW e \in Envelopes, e.ttl > 0
  PROVE  /\ Outbound(e) \in Messages /\ Outbound(e).type = "Transaction"
         /\ Outbound(e).env \in Envelopes /\ Outbound(e).env.id = e.id
         /\ Outbound(e).env.ttl = e.ttl - 1 /\ Outbound(e).env.hops <= e.hops + 1
<1> DEFINE d == [e EXCEPT !.ttl = @ - 1]
<1>1. d \in Envelopes /\ d.id = e.id /\ d.ttl = e.ttl - 1 /\ d.hops = e.hops
  BY MeshAssumption DEF Envelopes
<1>2. Outbound(e) = [type |-> "Transaction", env |-> Crossed(d)]
  BY DEF Outbound
<1> HIDE DEF d
<1>3. /\ Crossed(d) \in Envelopes /\ Crossed(d).id = d.id /\ Crossed(d).ttl = d.ttl
      /\ Crossed(d).hops <= d.hops + 1
  BY <1>1, CrossedType
<1> QED
  BY <1>1, <1>2, <1>3 DEF Messages

\* A request is a message.
LEMMA SyncRequestType ==
  ASSUME NEW q \in Seq(Envelopes)
  PROVE  SyncRequestOf(q) \in Messages /\ SyncRequestOf(q).type = "SyncRequest"
<1>1. \A i \in DOMAIN q : q[i] \in Envelopes
  BY LenProperties, ElementOfSeq
<1>2. \A i \in DOMAIN q : q[i].id \in Ids
  BY <1>1 DEF Envelopes
<1> QED
  BY <1>2 DEF SyncRequestOf, Messages

\* A response carries queued envelopes, each having crossed one more connection.
LEMMA SyncResponseType ==
  ASSUME NEW q \in Seq(Envelopes), NEW req
  PROVE  /\ SyncResponseFor(q, req) \in Messages /\ SyncResponseFor(q, req).type = "SyncResponse"
         /\ SyncResponseFor(q, req).envs \in Seq({Crossed(e) : e \in Elements(q)})
<1> DEFINE missing == {i \in DOMAIN q : Prefix[q[i].id] \notin req.known}
           kept == Keep(q, missing)
           envs == [i \in DOMAIN kept |-> Crossed(kept[i])]
           T == {Crossed(e) : e \in Elements(q)}
<1>1. SyncResponseFor(q, req) = [type |-> "SyncResponse", envs |-> envs]
  BY DEF SyncResponseFor
<1>2. q \in Seq(Elements(q)) /\ Elements(q) \subseteq Envelopes /\ missing \in SUBSET (1..Len(q))
  BY ElementsOfSeq, LenProperties
<1> HIDE DEF missing
<1>3. kept \in Seq(Elements(q))
  BY <1>2, KeepType
<1> HIDE DEF kept
<1>4. Len(kept) \in Nat /\ DOMAIN kept = 1..Len(kept) /\ \A i \in 1..Len(kept) : kept[i] \in Elements(q)
  BY <1>3, LenProperties, ElementOfSeq
<1>5. envs \in [1..Len(kept) -> T]
  BY <1>4
<1>6. envs \in Seq(T)
  BY <1>4, <1>5, SeqDef
<1>7. T \subseteq Envelopes
  BY <1>2, CrossedType
<1> HIDE DEF envs, T
<1>8. envs \in Seq(Envelopes)
  BY <1>6, <1>7, WiderSeq
<1>9. [type |-> "SyncResponse", envs |-> envs] \in Messages
  BY <1>8 DEF Messages
<1> QED
  BY <1>1, <1>6, <1>9 DEF T

\* What a message carries.
LEMMA CarriedBy ==
  ASSUME NEW m \in Messages
  PROVE  /\ m.type \in {"Transaction", "SyncRequest", "SyncResponse"}
         /\ m.type = "Transaction" => m.env \in Envelopes /\ Carried(m) = {m.env}
         /\ m.type = "SyncRequest" => Carried(m) = {}
         /\ m.type = "SyncResponse" => m.envs \in Seq(Envelopes) /\ Carried(m) = Elements(m.envs)
BY DEF Messages, Carried
-----------------------------------------------------------------------------
(* The mesh: type correctness.                                             *)

QueuesOK ==
  /\ queue \in [Nodes -> Seq(Envelopes)] /\ \A n \in Nodes : Len(queue[n]) <= NORMAL_CAPACITY
  /\ backlog \in [Nodes -> Seq(Envelopes)]

RoundsOK == round \in [Nodes -> Rounds] /\ \A n \in Nodes : Len(round[n].batch) <= FANOUT_BATCH_SIZE

LinksOK == links \in [Pairs -> Seq(Messages)] /\ \A c \in Pairs : Len(links[c]) <= LinkCapacity

PeersOK ==
  /\ DOMAIN reputation = Nodes /\ \A n \in Nodes : reputation[n] \in [Neighbours[n] -> 0..InitReputation]
  /\ banned \in [Nodes -> SUBSET Nodes]

HistoryOK ==
  /\ submitted \in SUBSET Ids
  /\ seen \in [Nodes -> SUBSET Ids]
  /\ forwarded \in [Nodes -> [Ids -> 0..2]]
  /\ missed \in [Pairs -> SUBSET Ids]

\* The type invariant, by what the actions change.
LEMMA TypeParts ==
  TypeOK <=> QueuesOK /\ bloom \in [Nodes -> SlidingFilters] /\ RoundsOK /\ LinksOK /\ PeersOK /\ HistoryOK
BY DEF TypeOK, QueuesOK, RoundsOK, LinksOK, PeersOK, HistoryOK

LEMMA InitTypeOK == Init => TypeOK
<1> SUFFICES ASSUME Init PROVE TypeOK
  OBVIOUS
<1>1. /\ <<>> \in Seq(Envelopes) /\ <<>> \in Seq(Messages) /\ <<>> \in Seq(Nodes)
      /\ Len(<<>>) = 0
  BY EmptySeq
<1>2. QueuesOK
  BY <1>1, TierAssumption DEF Init, QueuesOK
<1>3. bloom \in [Nodes -> SlidingFilters]
  BY CapacityAssumption DEF Init, NewFilter, SlidingFilters
<1>4. RoundsOK
  BY <1>1, MeshAssumption DEF Init, RoundsOK, Rounds, IdleRound
<1>5. LinksOK
  BY <1>1, MeshAssumption DEF Init, LinksOK
<1>6. PeersOK
  BY MeshAssumption DEF Init, PeersOK
<1>7. HistoryOK
  BY DEF Init, HistoryOK
<1> QED
  BY <1>2, <1>3, <1>4, <1>5, <1>6, <1>7, TypeParts

\* What an unfinished dispatch looks at.
LEMMA BatchHead ==
  ASSUME TypeOK, NEW n \in Nodes, round[n].batch # <<>>
  PROVE  /\ round[n] \in Rounds /\ round[n].batch \in Seq(Envelopes)
         /\ Head(round[n].batch) \in Envelopes /\ Head(round[n].batch).id \in Ids
         /\ Tail(round[n].batch) \in Seq(Envelopes)
         /\ Len(Tail(round[n].batch)) <= FANOUT_BATCH_SIZE
<1>1. round[n] \in Rounds /\ round[n].batch \in Seq(Envelopes) /\ Len(round[n].batch) <= FANOUT_BATCH_SIZE
  BY DEF TypeOK, Rounds
<1> DEFINE s == round[n].batch
<1>2. Head(s) \in Envelopes /\ Tail(s) \in Seq(Envelopes) /\ Len(Tail(s)) = Len(s) - 1 /\ Len(s) \in Nat
  BY <1>1, HeadTailProperties, LenProperties
<1>3. Len(Tail(s)) <= FANOUT_BATCH_SIZE
  BY <1>1, <1>2, MeshAssumption
<1> QED
  BY <1>1, <1>2, <1>3 DEF Envelopes

\* A message that is received.
LEMMA LinkHead ==
  ASSUME TypeOK, NEW p \in Nodes, NEW n \in Nodes, links[<<p, n>>] # <<>>
  PROVE  /\ Head(links[<<p, n>>]) \in Messages
         /\ LET rest == [links EXCEPT ![<<p, n>>] = Tail(@)]
            IN  /\ rest \in [Pairs -> Seq(Messages)]
                /\ \A c \in Pairs : Len(rest[c]) <= LinkCapacity
                /\ \A c \in Pairs : Elements(rest[c]) \subseteq Elements(links[c])
                /\ \A c \in Pairs : rest[c] # <<>> => links[c] # <<>>
<1> DEFINE s == links[<<p, n>>]
           rest == [links EXCEPT ![<<p, n>>] = Tail(@)]
<1>1. <<p, n>> \in Pairs
  BY DEF Pairs
<1>2. links \in [Pairs -> Seq(Messages)] /\ \A c \in Pairs : Len(links[c]) <= LinkCapacity
  BY DEF TypeOK
<1>3. s \in Seq(Messages) /\ Len(s) <= LinkCapacity /\ s # <<>>
  BY <1>1, <1>2
<1>4. /\ Head(s) \in Messages /\ Tail(s) \in Seq(Messages) /\ Len(Tail(s)) = Len(s) - 1 /\ Len(s) \in Nat
      /\ Elements(Tail(s)) \subseteq Elements(s)
  BY <1>3, HeadTailProperties, LenProperties, ElementsOfHeadTail
<1>5. Len(Tail(s)) <= LinkCapacity
  BY <1>3, <1>4, MeshAssumption
<1>6. \A c \in Pairs : rest[c] = IF c = <<p, n>> THEN Tail(s) ELSE links[c]
  BY <1>1, <1>2
<1>7. rest \in [Pairs -> Seq(Messages)]
  BY <1>1, <1>2, <1>4
<1> HIDE DEF rest
<1> QED
  BY <1>2, <1>3, <1>4, <1>5, <1>6, <1>7 DEF rest

\* A message put on a connection with room.
LEMMA SentType ==
  ASSUME NEW ls \in [Pairs -> Seq(Messages)], \A c \in Pairs : Len(ls[c]) <= LinkCapacity,
         NEW n \in Nodes, NEW p \in Nodes, NEW m \in Messages, Len(ls[<<n, p>>]) < LinkCapacity
  PROVE  /\ Sent(ls, n, p, m) \in [Pairs -> Seq(Messages)]
         /\ \A c \in Pairs : Len(Sent(ls, n, p, m)[c]) <= LinkCapacity
         /\ \A c \in Pairs : Elements(Sent(ls, n, p, m)[c]) \subseteq Elements(ls[c])
                                \cup (IF c = <<n, p>> THEN {m} ELSE {})
<1> DEFINE s == ls[<<n, p>>]
           new == Sent(ls, n, p, m)
<1>1. <<n, p>> \in Pairs
  BY DEF Pairs
<1>2. s \in Seq(Messages) /\ Len(s) \in Nat
  BY <1>1, LenProperties
<1>3. /\ Append(s, m) \in Seq(Messages) /\ Len(Append(s, m)) = Len(s) + 1
      /\ Elements(Append(s, m)) \subseteq Elements(s) \cup {m}
  BY <1>2, AppendProperties, ElementsOfAppend
<1>4. \A c \in Pairs : new[c] = IF c = <<n, p>> THEN Append(s, m) ELSE ls[c]
  BY <1>1 DEF Sent
<1>5. new \in [Pairs -> Seq(Messages)]
  BY <1>1, <1>3 DEF Sent
<1>6. Len(Append(s, m)) <= LinkCapacity
  BY <1>2, <1>3, MeshAssumption
<1> HIDE DEF new
<1>7. \A c \in Pairs : Len(new[c]) <= LinkCapacity
  BY <1>4, <1>6
<1>8. \A c \in Pairs : Elements(new[c]) \subseteq Elements(ls[c]) \cup (IF c = <<n, p>> THEN {m} ELSE {})
  BY <1>3, <1>4
<1> QED
  BY <1>4, <1>5, <1>7, <1>8 DEF new

\* Giving up ids for some peers.
LEMMA GiveUpType ==
  ASSUME TypeOK, NEW n \in Nodes, NEW peers, NEW ids \in SUBSET Ids, GiveUp(n, peers, ids)
  PROVE  /\ missed' \in [Pairs -> SUBSET Ids]
         /\ \A k, p \in Nodes : missed'[<<k, p>>] =
              IF k = n /\ p \in peers THEN missed[<<k, p>>] \cup ids ELSE missed[<<k, p>>]
<1>1. missed \in [Pairs -> SUBSET Ids]
  BY DEF TypeOK
<1>2. \A k, p \in Nodes : <<k, p>> \in Pairs
  BY DEF Pairs
<1> QED
  BY <1>1, <1>2 DEF GiveUp

\* The ids of a sequence of envelopes.
IdsOf(s) == {s[i].id : i \in DOMAIN s}

LEMMA IdsOfSeq ==
  ASSUME NEW s \in Seq(Envelopes)
  PROVE  IdsOf(s) \subseteq Ids /\ IdsOf(s) = {e.id : e \in Elements(s)}
<1>1. \A i \in DOMAIN s : s[i] \in Envelopes
  BY LenProperties, ElementOfSeq
<1> QED
  BY <1>1 DEF IdsOf, Elements, Envelopes

\* What a full queue loses.
LEMMA OverflowType ==
  ASSUME NEW q \in Seq(Envelopes), NEW envs \in Seq(Envelopes)
  PROVE  /\ Overflow(q, envs) \in SUBSET Ids
         /\ IdsOf(q) \cup IdsOf(envs) \subseteq IdsOf(AddEnvelopes(q, envs)) \cup Overflow(q, envs)
<1> DEFINE all == q \o envs
           k == SaturatingSub(Len(all), NORMAL_CAPACITY)
           new == SubSeq(all, 1 + k, Len(all))
<1>1. /\ all \in Seq(Envelopes) /\ Len(all) = Len(q) + Len(envs) /\ Len(q) \in Nat /\ Len(envs) \in Nat
      /\ \A i \in 1..Len(q) : all[i] = q[i]
      /\ \A i \in 1..Len(envs) : all[Len(q) + i] = envs[i]
  BY ConcatProperties, LenProperties
<1>2. DOMAIN q = 1..Len(q) /\ DOMAIN envs = 1..Len(envs)
  BY LenProperties
<1>3. AddEnvelopes(q, envs) = new /\ Overflow(q, envs) = {all[i].id : i \in 1..k}
  BY DEF AddEnvelopes, Overflow
<1> HIDE DEF all
<1>4. k \in Nat /\ k <= Len(all) /\ Len(all) \in Nat
  BY <1>1, TierAssumption DEF SaturatingSub
<1> HIDE DEF k
<1>5. \A i \in 1..Len(all) : all[i] \in Envelopes
  BY <1>1, ElementOfSeq
<1>6. new \in Seq(Envelopes) /\ Len(new) = IF 1 + k <= Len(all) THEN Len(all) - (1 + k) + 1 ELSE 0
  BY <1>1, <1>4, PartType
<1>7. \A i \in 1..Len(new) : new[i] = all[1 + k + i - 1]
  <2>1. \A i \in (1 + k)..Len(all) : all[i] \in Envelopes
    BY <1>4, <1>5
  <2> QED
    BY <1>1, <1>4, <2>1, SubSeqProperties
<1>8. Len(new) = Len(all) - k /\ DOMAIN new = 1..Len(new)
  BY <1>4, <1>6, LenProperties
<1> HIDE DEF new
<1>9. Overflow(q, envs) \subseteq Ids
  BY <1>3, <1>4, <1>5 DEF Envelopes
<1>10. ASSUME NEW j \in 1..Len(all) PROVE all[j].id \in IdsOf(new) \cup Overflow(q, envs)
  <2>1. CASE j <= k
    BY <1>3, <1>4, <2>1
  <2>2. CASE j > k
    <3>1. j - k \in 1..Len(new) /\ new[j - k] = all[j]
      BY <1>4, <1>7, <1>8, <2>2
    <3> QED
      BY <1>8, <3>1 DEF IdsOf
  <2> QED
    BY <1>4, <2>1, <2>2
<1>11. IdsOf(q) \subseteq IdsOf(new) \cup Overflow(q, envs)
  <2>1. \A i \in 1..Len(q) : i \in 1..Len(all) /\ all[i] = q[i]
    BY <1>1
  <2> QED
    BY <1>2, <1>10, <2>1 DEF IdsOf
<1>12. IdsOf(envs) \subseteq IdsOf(new) \cup Overflow(q, envs)
  <2>1. \A i \in 1..Len(envs) : Len(q) + i \in 1..Len(all) /\ all[Len(q) + i] = envs[i]
    BY <1>1
  <2> QED
    BY <1>2, <1>10, <2>1 DEF IdsOf
<1> QED
  BY <1>3, <1>9, <1>11, <1>12

\* Adding envelopes to the queue of a node.
LEMMA EnqueueType ==
  ASSUME TypeOK, NEW n \in Nodes, NEW envs \in Seq(Envelopes),
         Enqueue(n, envs)
  PROVE  /\ queue' \in [Nodes -> Seq(Envelopes)] /\ \A k \in Nodes : Len(queue'[k]) <= NORMAL_CAPACITY
         /\ \A k \in Nodes : Elements(queue'[k]) \subseteq
              Elements(queue[k]) \cup (IF k = n THEN Elements(envs) ELSE {})
         /\ missed' \in [Pairs -> SUBSET Ids]
<1> DEFINE T == Elements(queue[n]) \cup Elements(envs)
           new == AddEnvelopes(queue[n], envs)
<1>1. queue \in [Nodes -> Seq(Envelopes)] /\ \A k \in Nodes : Len(queue[k]) <= NORMAL_CAPACITY
  BY DEF TypeOK
<1>2. new \in Seq(Envelopes) /\ Len(new) <= NORMAL_CAPACITY
  BY <1>1, AddEnvelopesType
<1>3. queue[n] \in Seq(T) /\ envs \in Seq(T)
  BY <1>1, ElementsOfSeq, WiderSeq
<1>4. Elements(new) \subseteq T
  BY <1>3, AddEnvelopesType, ElementsOfSeq
<1>5. queue' = [queue EXCEPT ![n] = new] /\ \A k \in Nodes : queue'[k] = IF k = n THEN new ELSE queue[k]
  BY <1>1 DEF Enqueue
<1>6. queue' \in [Nodes -> Seq(Envelopes)]
  BY <1>1, <1>2, <1>5
<1>7. missed' \in [Pairs -> SUBSET Ids]
  <2>1. Overflow(queue[n], envs) \in SUBSET Ids /\ GiveUp(n, Neighbours[n], Overflow(queue[n], envs))
    BY <1>1, OverflowType DEF Enqueue
  <2> QED
    BY <2>1, GiveUpType
<1> HIDE DEF new
<1> QED
  BY <1>1, <1>2, <1>4, <1>5, <1>6, <1>7

\* Merging a response: its envelopes enter the queue or replace the backlog,
\* and count as seen.
LEMMA MergeType ==
  ASSUME TypeOK, NEW n \in Nodes, NEW envs \in Seq(Envelopes), HandleSyncResponse(n, envs)
  PROVE  /\ QueuesOK'
         /\ seen' \in [Nodes -> SUBSET Ids] /\ missed' \in [Pairs -> SUBSET Ids]
         /\ \A k \in Nodes : /\ Elements(queue'[k]) \cup Elements(backlog'[k]) \subseteq
                                  Elements(queue[k]) \cup Elements(backlog[k])
                                    \cup (IF k = n THEN Elements(envs) ELSE {})
         /\ seen' = [seen EXCEPT ![n] = @ \cup {e.id : e \in Elements(envs)}]
<1>0. /\ queue \in [Nodes -> Seq(Envelopes)] /\ \A k \in Nodes : Len(queue[k]) <= NORMAL_CAPACITY
      /\ backlog \in [Nodes -> Seq(Envelopes)] /\ seen \in [Nodes -> SUBSET Ids]
  BY DEF TypeOK
<1>1. Elements(envs) \subseteq Envelopes /\ {envs[i].id : i \in DOMAIN envs} = {e.id : e \in Elements(envs)}
  BY ElementsOfSeq DEF Elements
<1>2. seen' = [seen EXCEPT ![n] = @ \cup {e.id : e \in Elements(envs)}]
  BY <1>1 DEF HandleSyncResponse
<1>3. {e.id : e \in Elements(envs)} \subseteq Ids
  BY <1>1 DEF Envelopes
<1>4. seen' \in [Nodes -> SUBSET Ids]
  BY <1>0, <1>2, <1>3
<1>5. CASE Enqueue(n, envs) /\ backlog' = backlog
  <2>1. QueuesOK' /\ missed' \in [Pairs -> SUBSET Ids]
    BY <1>0, <1>5, EnqueueType DEF QueuesOK
  <2>2. \A k \in Nodes : Elements(queue'[k]) \subseteq
              Elements(queue[k]) \cup (IF k = n THEN Elements(envs) ELSE {})
    BY <1>5, EnqueueType
  <2> QED
    BY <1>2, <1>4, <1>5, <2>1, <2>2
<1>6. CASE /\ \E order \in Orders(envs) : backlog' = [backlog EXCEPT ![n] = order]
           /\ GiveUp(n, Neighbours[n], {backlog[n][i].id : i \in DOMAIN backlog[n]})
           /\ queue' = queue
  <2>1. PICK order \in Orders(envs) : backlog' = [backlog EXCEPT ![n] = order]
    BY <1>6
  <2>2. order \in Seq(Envelopes) /\ Elements(order) \subseteq Elements(envs)
    BY <1>1, OrderType, ElementsOfSeq
  <2>3. backlog' \in [Nodes -> Seq(Envelopes)] /\ \A k \in Nodes : backlog'[k] = IF k = n THEN order ELSE backlog[k]
    BY <1>0, <2>1, <2>2
  <2>4. QueuesOK'
    BY <1>0, <1>6, <2>3 DEF QueuesOK
  <2>5. missed' \in [Pairs -> SUBSET Ids]
    <3>1. IdsOf(backlog[n]) \in SUBSET Ids /\ GiveUp(n, Neighbours[n], IdsOf(backlog[n]))
      BY <1>0, <1>6, IdsOfSeq DEF IdsOf
    <3> QED
      BY <3>1, GiveUpType
  <2> QED
    BY <1>2, <1>4, <1>6, <2>2, <2>3, <2>4, <2>5
<1> QED
  BY <1>5, <1>6 DEF HandleSyncResponse
-----------------------------------------------------------------------------
(* How envelopes move.                                                     *)

\* The copies at a node, and those on their way from p to n.
CopiesAt(n) == Elements(queue[n]) \cup Elements(backlog[n]) \cup Elements(round[n].batch)
InFlight(p, n) == UNION {Carried(m) : m \in Elements(links[<<p, n>>])}

\* Where a copy can come from.  One at a node was there before, was submitted
\* or arrived.
Arrives(n, e) ==
  \/ \E id \in Ids : e = [id |-> id, ttl |-> InitTtl[id], hops |-> 0]
  \/ \E p \in Nodes : e \in InFlight(p, n)

\* A copy on a connection was there before or is one of a copy its sender
\* holds: a forwarded one, or an answer to a request.
Leaves(p, n, e) ==
  \E d \in CopiesAt(p) :
    /\ e.id = d.id
    /\ \/ e.ttl = d.ttl - 1 /\ e.hops <= d.hops + 1
       \/ \E m \in Elements(links[<<n, p>>]) : m.type # "Transaction"

\* What no step of the mesh does otherwise.
Moves ==
  /\ \A n \in Nodes : \A e \in CopiesAt(n)' : e \in CopiesAt(n) \/ Arrives(n, e)
  /\ \A p, n \in Nodes : \A e \in InFlight(p, n)' : e \in InFlight(p, n) \/ Leaves(p, n, e)
  /\ \A p, n \in Nodes : \A m \in Elements(links'[<<p, n>>]) :
       \/ m \in Elements(links[<<p, n>>])
       \/ m.type = "Transaction"
       \/ AntiEntropy # {}
       \/ \E r \in Elements(links[<<n, p>>]) : r.type # "Transaction"

\* Steps within a node that bring in nothing.
LEMMA LocalMoves ==
  ASSUME links' = links, \A k \in Nodes : CopiesAt(k)' \subseteq CopiesAt(k)
  PROVE  Moves
BY DEF Moves, InFlight

\* A step that sets the round of one node.
LEMMA RoundSet ==
  ASSUME TypeOK, NEW n \in Nodes, NEW r \in Rounds, Len(r.batch) <= FANOUT_BATCH_SIZE,
         round' = [round EXCEPT ![n] = r]
  PROVE  RoundsOK' /\ round'[n] = r /\ \A k \in Nodes : k # n => round'[k] = round[k]
BY DEF TypeOK, RoundsOK

LEMMA StartRoundStep ==
  ASSUME TypeOK, NEW n \in Nodes, StartRound(n)
  PROVE  TypeOK' /\ Moves
<1>1. PICK recipients \in SUBSET ActivePeers(n) :
        round' = [round EXCEPT ![n].stage = "drain", ![n].recipients = recipients]
  BY DEF StartRound
<1> DEFINE r == [round[n] EXCEPT !.stage = "drain", !.recipients = recipients]
<1>2. recipients \subseteq Neighbours[n] /\ recipients \subseteq Nodes
  BY MeshAssumption DEF ActivePeers
<1>3. round[n] \in Rounds /\ round \in [Nodes -> Rounds] /\ Len(round[n].batch) <= FANOUT_BATCH_SIZE
  BY DEF TypeOK
<1>4. r \in Rounds /\ r.batch = round[n].batch /\ r.recipients = recipients
  BY <1>2, <1>3 DEF Rounds
<1>5. round' = [round EXCEPT ![n] = r]
  BY <1>1, <1>3
<1> HIDE DEF r
<1>6. RoundsOK' /\ round'[n] = r /\ \A k \in Nodes : k # n => round'[k] = round[k]
  BY <1>3, <1>4, <1>5, RoundSet
<1>7. UNCHANGED <<queue, backlog, bloom, links, reputation, banned, submitted, seen, forwarded, missed>>
  BY DEF StartRound
<1>8. TypeOK'
  BY <1>6, <1>7 DEF TypeOK, RoundsOK
<1>10. \A k \in Nodes : CopiesAt(k)' \subseteq CopiesAt(k)
  BY <1>4, <1>6, <1>7 DEF CopiesAt
<1> QED
  BY <1>7, <1>8, <1>10, LocalMoves

LEMMA DrainRoundStep ==
  ASSUME TypeOK, NEW n \in Nodes, DrainRound(n)
  PROVE  TypeOK' /\ Moves
<1>1. /\ round[n] \in Rounds /\ round \in [Nodes -> Rounds]
      /\ queue \in [Nodes -> Seq(Envelopes)] /\ queue[n] \in Seq(Envelopes)
      /\ \A k \in Nodes : Len(queue[k]) <= NORMAL_CAPACITY
      /\ FANOUT_BATCH_SIZE \in Nat
  BY MeshAssumption DEF TypeOK
<1>2. PICK q \in Orders(queue[n]) :
        /\ round' = [round EXCEPT ![n].stage = "dispatch", ![n].batch = Drained(q, FANOUT_BATCH_SIZE)]
        /\ queue' = [queue EXCEPT ![n] = Retained(q, FANOUT_BATCH_SIZE)]
  BY DEF DrainRound
<1> DEFINE part == Drained(q, FANOUT_BATCH_SIZE)
           rest == Retained(q, FANOUT_BATCH_SIZE)
           r == [round[n] EXCEPT !.stage = "dispatch", !.batch = part]
<1>3. /\ q \in Seq(Envelopes) /\ Len(q) = Len(queue[n])
      /\ Elements(q) \subseteq Elements(queue[n])
  BY <1>1, OrderType, ElementsOfSeq
<1>4. /\ part \in Seq(Envelopes) /\ Len(part) <= FANOUT_BATCH_SIZE
      /\ rest \in Seq(Envelopes) /\ Len(rest) <= Len(q)
  BY <1>1, <1>3, DrainType
<1>5. Elements(part) \subseteq Elements(q) /\ Elements(rest) \subseteq Elements(q)
  BY <1>1, <1>3, DrainType, ElementsOfSeq
<1>6. Len(rest) <= NORMAL_CAPACITY
  BY <1>1, <1>3, <1>4, LenProperties, TierAssumption
<1> HIDE DEF part, rest
<1>7. r \in Rounds /\ r.batch = part /\ r.recipients = round[n].recipients
  BY <1>1, <1>4 DEF Rounds
<1>8. round' = [round EXCEPT ![n] = r]
  BY <1>1, <1>2 DEF part
<1> HIDE DEF r
<1>9. RoundsOK' /\ round'[n] = r /\ \A k \in Nodes : k # n => round'[k] = round[k]
  BY <1>4, <1>7, <1>8, RoundSet
<1>10. UNCHANGED <<backlog, bloom, links, reputation, banned, submitted, seen, forwarded, missed>>
  BY DEF DrainRound
<1>11. queue' \in [Nodes -> Seq(Envelopes)] /\ \A k \in Nodes : queue'[k] = IF k = n THEN rest ELSE queue[k]
  BY <1>1, <1>2, <1>4 DEF rest
<1>12. TypeOK'
  BY <1>1, <1>6, <1>9, <1>10, <1>11 DEF TypeOK, RoundsOK
<1>13. \A k \in Nodes : CopiesAt(k)' \subseteq CopiesAt(k)
  BY <1>3, <1>5, <1>7, <1>9, <1>10, <1>11 DEF CopiesAt
<1> QED
  BY <1>10, <1>12, <1>13, LocalMoves

LEMMA DispatchDuplicateStep ==
  ASSUME TypeOK, NEW n \in Nodes, DispatchDuplicate(n)
  PROVE  TypeOK' /\ Moves
<1> DEFINE e == Head(round[n].batch)
           rest == Tail(round[n].batch)
           dup == Append(round[n].duplicates, Origin[e.id])
           r == [round[n] EXCEPT !.batch = rest, !.duplicates = dup]
<1>1. /\ round' = [round EXCEPT ![n].batch = Tail(@), ![n].duplicates = Append(@, Origin[e.id])]
      /\ round[n].batch # <<>>
      /\ UNCHANGED <<queue, backlog, bloom, links, reputation, banned, submitted, seen, forwarded>>
  BY DEF DispatchDuplicate
<1>2. round[n] \in Rounds /\ round \in [Nodes -> Rounds] /\ round[n].duplicates \in Seq(Nodes)
  BY DEF TypeOK, Rounds
<1>3. e.id \in Ids /\ rest \in Seq(Envelopes) /\ Len(rest) <= FANOUT_BATCH_SIZE
  BY <1>1, BatchHead
<1>4. dup \in Seq(Nodes)
  BY <1>2, <1>3, AppendProperties, MeshAssumption
<1>5. Elements(rest) \subseteq Elements(round[n].batch)
  BY <1>1, BatchHead, ElementsOfHeadTail
<1>6. r \in Rounds /\ r.batch = rest /\ r.recipients = round[n].recipients
  BY <1>2, <1>3, <1>4 DEF Rounds
<1>7. round' = [round EXCEPT ![n] = r]
  BY <1>1, <1>2
<1> HIDE DEF r, rest, dup
<1>8. RoundsOK' /\ round'[n] = r /\ \A k \in Nodes : k # n => round'[k] = round[k]
  BY <1>3, <1>6, <1>7, RoundSet
<1>9. missed' \in [Pairs -> SUBSET Ids]
  <2>1. PICK ids \in SUBSET Ids : GiveUp(n, Neighbours[n], ids)
    <3>1. GiveUp(n, Neighbours[n], IF forwarded[n][e.id] = 0 THEN {e.id} ELSE {})
      BY DEF DispatchDuplicate
    <3> QED
      BY <1>3, <3>1
  <2> QED
    BY <2>1, GiveUpType
<1>10. TypeOK'
  BY <1>1, <1>8, <1>9 DEF TypeOK, RoundsOK
<1>11. \A k \in Nodes : CopiesAt(k)' \subseteq CopiesAt(k)
  BY <1>1, <1>5, <1>6, <1>8 DEF CopiesAt
<1> QED
  BY <1>1, <1>10, <1>11, LocalMoves

LEMMA DispatchExpiredStep ==
  ASSUME TypeOK, NEW n \in Nodes, DispatchExpired(n)
  PROVE  TypeOK' /\ Moves
<1> DEFINE e == Head(round[n].batch)
           rest == Tail(round[n].batch)
           r == [round[n] EXCEPT !.batch = rest]
<1>1. /\ round' = [round EXCEPT ![n].batch = Tail(@)]
      /\ round[n].batch # <<>>
      /\ UNCHANGED <<queue, backlog, links, reputation, banned, submitted, seen, forwarded>>
  BY DEF DispatchExpired
<1>2. PICK f \in AddNew(bloom[n], e.id) : bloom' = [bloom EXCEPT ![n] = f]
  BY DEF DispatchExpired
<1>3. round[n] \in Rounds /\ round \in [Nodes -> Rounds] /\ bloom \in [Nodes -> SlidingFilters]
  BY DEF TypeOK
<1>4. e.id \in Ids /\ rest \in Seq(Envelopes) /\ Len(rest) <= FANOUT_BATCH_SIZE
  BY <1>1, BatchHead
<1>5. bloom' \in [Nodes -> SlidingFilters]
  BY <1>2, <1>3, <1>4, AddNewWindows
<1>6. Elements(rest) \subseteq Elements(round[n].batch)
  BY <1>1, BatchHead, ElementsOfHeadTail
<1>7. r \in Rounds /\ r.batch = rest /\ r.recipients = round[n].recipients
  BY <1>3, <1>4 DEF Rounds
<1>8. round' = [round EXCEPT ![n] = r]
  BY <1>1, <1>3
<1> HIDE DEF r, rest
<1>9. RoundsOK' /\ round'[n] = r /\ \A k \in Nodes : k # n => round'[k] = round[k]
  BY <1>4, <1>7, <1>8, RoundSet
<1>10. missed' \in [Pairs -> SUBSET Ids]
  <2>1. GiveUp(n, Neighbours[n], {e.id}) /\ {e.id} \in SUBSET Ids
    BY <1>4 DEF DispatchExpired
  <2> QED
    BY <2>1, GiveUpType
<1>11. TypeOK'
  BY <1>1, <1>5, <1>9, <1>10 DEF TypeOK, RoundsOK
<1>12. \A k \in Nodes : CopiesAt(k)' \subseteq CopiesAt(k)
  BY <1>1, <1>6, <1>7, <1>9 DEF CopiesAt
<1> QED
  BY <1>1, <1>11, <1>12, LocalMoves

LEMMA DispatchSendStep ==
  ASSUME TypeOK, NEW n \in Nodes, DispatchSend(n)
  PROVE  TypeOK' /\ Moves
<1> DEFINE e == Head(round[n].batch)
           rest == Tail(round[n].batch)
           r == [round[n] EXCEPT !.batch = rest]
           out == Outbound(e)
<1>1. /\ round' = [round EXCEPT ![n].batch = Tail(@)]
      /\ round[n].batch # <<>>
      /\ e.ttl > 0
      /\ forwarded' = [forwarded EXCEPT ![n][e.id] = AtMost(@ + 1, 2)]
      /\ UNCHANGED <<queue, backlog, reputation, banned, submitted, seen>>
  BY DEF DispatchSend
<1>2. PICK f \in AddNew(bloom[n], e.id) : bloom' = [bloom EXCEPT ![n] = f]
  BY DEF DispatchSend
<1>3. PICK reached \in Reached(n) :
        /\ links' = [c \in Pairs |-> IF c[1] = n /\ c[2] \in reached THEN Append(links[c], out) ELSE links[c]]
        /\ GiveUp(n, Neighbours[n] \ reached, {e.id})
  BY DEF DispatchSend
<1>4. /\ round[n] \in Rounds /\ round \in [Nodes -> Rounds] /\ bloom \in [Nodes -> SlidingFilters]
      /\ links \in [Pairs -> Seq(Messages)] /\ \A c \in Pairs : Len(links[c]) <= LinkCapacity
      /\ forwarded \in [Nodes -> [Ids -> 0..2]]
  BY DEF TypeOK
<1>5. e \in Envelopes /\ e.id \in Ids /\ rest \in Seq(Envelopes) /\ Len(rest) <= FANOUT_BATCH_SIZE
  BY <1>1, BatchHead
<1>6. bloom' \in [Nodes -> SlidingFilters]
  BY <1>2, <1>4, <1>5, AddNewWindows
<1>7. e \in Elements(round[n].batch) /\ Elements(rest) \subseteq Elements(round[n].batch)
  BY <1>1, BatchHead, ElementsOfHeadTail
<1>8. r \in Rounds /\ r.batch = rest /\ r.recipients = round[n].recipients
  BY <1>4, <1>5 DEF Rounds
<1>9. round' = [round EXCEPT ![n] = r]
  BY <1>1, <1>4
<1>10. /\ out \in Messages /\ out.type = "Transaction" /\ out.env.id = e.id
       /\ out.env.ttl = e.ttl - 1 /\ out.env.hops <= e.hops + 1
  BY <1>1, <1>5, OutboundType
<1> HIDE DEF r, rest, e, out
<1>11. RoundsOK' /\ round'[n] = r /\ \A k \in Nodes : k # n => round'[k] = round[k]
  BY <1>5, <1>8, <1>9, RoundSet
<1>12. forwarded' \in [Nodes -> [Ids -> 0..2]]
  <2>1. AtMost(forwarded[n][e.id] + 1, 2) \in 0..2
    BY <1>4, <1>5 DEF AtMost
  <2> QED
    BY <1>1, <1>4, <1>5, <2>1
<1>13. \A p \in reached : p \in round[n].recipients /\ Len(links[<<n, p>>]) < LinkCapacity
  BY <1>3 DEF Reached, HasRoom
<1>14. ASSUME NEW p \in Nodes, NEW k \in Nodes
       PROVE  /\ links'[<<p, k>>] \in Seq(Messages) /\ Len(links'[<<p, k>>]) <= LinkCapacity
              /\ links'[<<p, k>>] = links[<<p, k>>] \/ (p = n /\ k \in round[n].recipients)
              /\ Elements(links'[<<p, k>>]) \subseteq Elements(links[<<p, k>>]) \cup (IF p = n THEN {out} ELSE {})
  <2> DEFINE s == links[<<p, k>>]
  <2>1. <<p, k>> \in Pairs /\ s \in Seq(Messages) /\ Len(s) \in Nat /\ Len(s) <= LinkCapacity
    BY <1>4, LenProperties DEF Pairs
  <2>2. CASE p = n /\ k \in reached
    <3>1. links'[<<p, k>>] = Append(s, out)
      BY <1>3, <2>1, <2>2
    <3>2. Len(s) < LinkCapacity /\ k \in round[n].recipients
      BY <1>13, <2>2
    <3>3. /\ Append(s, out) \in Seq(Messages) /\ Len(Append(s, out)) = Len(s) + 1
          /\ Elements(Append(s, out)) \subseteq Elements(s) \cup {out}
      BY <1>10, <2>1, AppendProperties, ElementsOfAppend
    <3>4. Len(Append(s, out)) <= LinkCapacity
      BY <2>1, <3>2, <3>3, MeshAssumption
    <3> QED
      BY <2>2, <3>1, <3>2, <3>3, <3>4
  <2>3. CASE ~(p = n /\ k \in reached)
    <3>1. links'[<<p, k>>] = s
      BY <1>3, <2>1, <2>3
    <3> QED
      BY <2>1, <3>1
  <2> QED
    BY <2>2, <2>3
<1>15. LinksOK'
  <2>1. DOMAIN links' = Pairs /\ links' = [c \in Pairs |-> links'[c]]
    BY <1>3
  <2>2. \A c \in Pairs : links'[c] \in Seq(Messages) /\ Len(links'[c]) <= LinkCapacity
    BY <1>14 DEF Pairs
  <2>3. links' \in [Pairs -> Seq(Messages)]
    BY <2>1, <2>2
  <2> QED
    BY <2>2, <2>3 DEF LinksOK
<1>16. missed' \in [Pairs -> SUBSET Ids]
  <2>1. {e.id} \in SUBSET Ids
    BY <1>5
  <2> QED
    BY <1>3, <2>1, GiveUpType
<1>17. TypeOK'
  BY <1>1, <1>6, <1>11, <1>12, <1>15, <1>16 DEF TypeOK, RoundsOK, LinksOK
<1>18. \A k \in Nodes : CopiesAt(k)' \subseteq CopiesAt(k)
  BY <1>1, <1>7, <1>8, <1>11 DEF CopiesAt
<1>19. ASSUME NEW p \in Nodes, NEW k \in Nodes, NEW x \in InFlight(p, k)'
       PROVE  x \in InFlight(p, k) \/ Leaves(p, k, x)
  <2>1. PICK m \in Elements(links'[<<p, k>>]) : x \in Carried(m)
    BY <1>19 DEF InFlight
  <2>2. CASE m \in Elements(links[<<p, k>>])
    BY <2>1, <2>2 DEF InFlight
  <2>3. CASE p = n /\ m = out
    <3>1. x = out.env
      BY <1>10, <2>1, <2>3, CarriedBy
    <3>2. e \in CopiesAt(p)
      BY <1>7, <2>3 DEF CopiesAt
    <3> QED
      BY <1>10, <3>1, <3>2 DEF Leaves
  <2> QED
    BY <1>14, <2>1, <2>2, <2>3
<1>20. \A p, k \in Nodes : \A m \in Elements(links'[<<p, k>>]) :
         m \in Elements(links[<<p, k>>]) \/ m.type = "Transaction"
  BY <1>10, <1>14
<1>21. Moves
  BY <1>1, <1>18, <1>19, <1>20 DEF Moves
<1> QED
  BY <1>17, <1>21

LEMMA FinishRoundStep ==
  ASSUME TypeOK, NEW n \in Nodes, FinishRound(n)
  PROVE  TypeOK' /\ Moves
<1>1. /\ round' = [round EXCEPT ![n] = IdleRound]
      /\ reputation' = [reputation EXCEPT ![n] = Penalised(n)]
      /\ UNCHANGED <<queue, backlog, bloom, links, submitted, seen, forwarded, missed>>
  BY DEF FinishRound
<1>2. /\ IdleRound \in Rounds /\ IdleRound.batch = <<>> /\ IdleRound.recipients = {}
      /\ Len(IdleRound.batch) <= FANOUT_BATCH_SIZE
  BY EmptySeq, MeshAssumption DEF IdleRound, Rounds
<1>3. RoundsOK' /\ round'[n] = IdleRound /\ \A k \in Nodes : k # n => round'[k] = round[k]
  BY <1>1, <1>2, RoundSet
<1>4. Penalised(n) \in [Neighbours[n] -> 0..InitReputation]
  <2> DEFINE D1 == round[n].duplicates
             strikes(p) == Cardinality({i \in DOMAIN D1 : D1[i] = p})
  <2>1. D1 \in Seq(Nodes)
    BY DEF TypeOK, Rounds
  <2>2. IsFiniteSet(DOMAIN D1)
    BY <2>1, LenProperties, FS_Interval
  <2>3. ASSUME NEW p \in Neighbours[n] PROVE strikes(p) \in Nat
    <3>1. {i \in DOMAIN D1 : D1[i] = p} \in SUBSET DOMAIN D1
      OBVIOUS
    <3>2. IsFiniteSet({i \in DOMAIN D1 : D1[i] = p})
      BY <2>2, <3>1, FS_Subset
    <3> QED
      BY <3>2, FS_CardinalityType
  <2>4. ASSUME NEW p \in Neighbours[n] PROVE SaturatingSub(reputation[n][p], strikes(p)) \in 0..InitReputation
    <3>1. reputation[n][p] \in 0..InitReputation
      BY DEF TypeOK
    <3> HIDE DEF strikes
    <3> QED
      BY <2>3, <3>1, MeshAssumption DEF SaturatingSub
  <2>5. Penalised(n) = [p \in Neighbours[n] |-> SaturatingSub(reputation[n][p], strikes(p))]
    BY DEF Penalised
  <2> QED
    BY <2>4, <2>5
<1>5. PeersOK'
  <2>1. banned' \in [Nodes -> SUBSET Nodes]
    <3>1. PICK new \in SUBSET Neighbours[n] : banned' = [banned EXCEPT ![n] = @ \cup new]
      BY DEF FinishRound
    <3> QED
      BY <3>1, MeshAssumption DEF TypeOK
  <2>2. DOMAIN reputation' = Nodes /\ \A k \in Nodes : reputation'[k] \in [Neighbours[k] -> 0..InitReputation]
    BY <1>1, <1>4 DEF TypeOK
  <2> QED
    BY <2>1, <2>2 DEF PeersOK
<1>6. TypeOK'
  BY <1>1, <1>3, <1>5 DEF TypeOK, RoundsOK, PeersOK
<1>8. Elements(<<>>) = {}
  BY EmptyElements
<1>9. \A k \in Nodes : CopiesAt(k)' \subseteq CopiesAt(k)
  BY <1>1, <1>2, <1>3, <1>8 DEF CopiesAt
<1> QED
  BY <1>1, <1>6, <1>9, LocalMoves

LEMMA BanCheckStep ==
  ASSUME TypeOK, NEW n \in Nodes, BanCheck(n)
  PROVE  TypeOK' /\ Moves
<1>1. TypeOK'
  BY DEF BanCheck, TypeOK
<1>2. links' = links /\ \A k \in Nodes : CopiesAt(k)' \subseteq CopiesAt(k)
  BY DEF BanCheck, CopiesAt
<1> QED
  BY <1>1, <1>2, LocalMoves

LEMMA RecoverBatchStep ==
  ASSUME TypeOK, NEW n \in Nodes, RecoverBatch(n)
  PROVE  TypeOK' /\ Moves
<1> DEFINE s == backlog[n]
           moved == AtMost(MACRO_MERGE_BATCH_SIZE, Len(s))
           part == SubSeq(s, 1, moved)
           rest == SubSeq(s, moved + 1, Len(s))
<1>1. /\ Enqueue(n, part) /\ backlog' = [backlog EXCEPT ![n] = rest]
      /\ UNCHANGED <<bloom, round, links, reputation, banned, submitted, seen, forwarded>>
  BY DEF RecoverBatch
<1>2. backlog \in [Nodes -> Seq(Envelopes)] /\ s \in Seq(Envelopes) /\ Len(s) \in Nat /\ s \in Seq(Elements(s))
  BY LenProperties, ElementsOfSeq DEF TypeOK
<1>3. moved \in Nat /\ moved <= Len(s)
  BY <1>2, MeshAssumption DEF AtMost
<1> HIDE DEF moved
<1>4. part \in Seq(Envelopes) /\ rest \in Seq(Envelopes)
  BY <1>2, <1>3, PartType
<1>5. part \in Seq(Elements(s)) /\ rest \in Seq(Elements(s))
  BY <1>2, <1>3, PartType
<1>6. Elements(part) \subseteq Elements(s) /\ Elements(rest) \subseteq Elements(s)
  BY <1>5, ElementsOfSeq
<1> HIDE DEF part, rest
<1>7. /\ queue' \in [Nodes -> Seq(Envelopes)] /\ \A k \in Nodes : Len(queue'[k]) <= NORMAL_CAPACITY
      /\ \A k \in Nodes : Elements(queue'[k]) \subseteq
           Elements(queue[k]) \cup (IF k = n THEN Elements(part) ELSE {})
      /\ missed' \in [Pairs -> SUBSET Ids]
  BY <1>1, <1>4, EnqueueType
<1>8. backlog' \in [Nodes -> Seq(Envelopes)] /\ \A k \in Nodes : backlog'[k] = IF k = n THEN rest ELSE backlog[k]
  BY <1>1, <1>2, <1>4
<1>9. TypeOK'
  BY <1>1, <1>7, <1>8 DEF TypeOK
<1>11. \A k \in Nodes : CopiesAt(k)' \subseteq CopiesAt(k)
  BY <1>1, <1>6, <1>7, <1>8 DEF CopiesAt
<1> QED
  BY <1>1, <1>9, <1>11, LocalMoves

LEMMA SubmitStep ==
  ASSUME TypeOK, NEW id \in Ids, Submit(id)
  PROVE  TypeOK' /\ Moves
<1> DEFINE n == Origin[id]
           e == [id |-> id, ttl |-> InitTtl[id], hops |-> 0]
<1>1. /\ submitted' = submitted \cup {id}
      /\ Enqueue(n, <<e>>)
      /\ seen' = [seen EXCEPT ![n] = @ \cup {id}]
      /\ UNCHANGED <<backlog, bloom, round, links, reputation, banned, forwarded>>
  BY DEF Submit
<1>2. n \in Nodes
  BY MeshAssumption
<1>3. e \in Envelopes
  BY MeshAssumption DEF Envelopes
<1>4. <<e>> \in Seq(Envelopes) /\ <<e>> \in Seq({e})
  BY <1>3
<1>5. Elements(<<e>>) \subseteq {e}
  BY <1>4, ElementsOfSeq
<1> HIDE DEF n
<1>6. /\ queue' \in [Nodes -> Seq(Envelopes)] /\ \A k \in Nodes : Len(queue'[k]) <= NORMAL_CAPACITY
      /\ \A k \in Nodes : Elements(queue'[k]) \subseteq
           Elements(queue[k]) \cup (IF k = n THEN Elements(<<e>>) ELSE {})
      /\ missed' \in [Pairs -> SUBSET Ids]
  BY <1>1, <1>2, <1>4, EnqueueType
<1>7. seen' \in [Nodes -> SUBSET Ids] /\ submitted' \in SUBSET Ids
  BY <1>1, <1>2 DEF TypeOK
<1>9. TypeOK'
  BY <1>1, <1>6, <1>7 DEF TypeOK
<1>11. Arrives(n, e)
  BY DEF Arrives
<1>12. \A k \in Nodes : \A x \in CopiesAt(k)' : x \in CopiesAt(k) \/ Arrives(k, x)
  BY <1>1, <1>5, <1>6, <1>11 DEF CopiesAt
<1>13. \A p, k \in Nodes : InFlight(p, k)' = InFlight(p, k)
  BY <1>1 DEF InFlight
<1> QED
  BY <1>1, <1>9, <1>12, <1>13 DEF Moves

LEMMA AntiEntropyTickStep ==
  ASSUME TypeOK, NEW n \in Nodes, AntiEntropyTick(n)
  PROVE  TypeOK' /\ Moves
<1> DEFINE req == SyncRequestOf(queue[n])
<1>1. /\ AntiEntropy # {}
      /\ UNCHANGED <<queue, backlog, bloom, reputation, banned, submitted, seen, forwarded, missed>>
  BY DEF AntiEntropyTick
<1>2. PICK p \in ActivePeers(n) :
        /\ HasRoom(n, p)
        /\ links' = Sent(links, n, p, req)
        /\ round' = [round EXCEPT ![n].stage = "sync", ![n].recipients = {p}]
  BY DEF AntiEntropyTick
<1> DEFINE r == [round[n] EXCEPT !.stage = "sync", !.recipients = {p}]
<1>3. p \in Nodes /\ p \in Neighbours[n]
  BY MeshAssumption DEF ActivePeers
<1>4. /\ round[n] \in Rounds /\ round \in [Nodes -> Rounds] /\ Len(round[n].batch) <= FANOUT_BATCH_SIZE
      /\ links \in [Pairs -> Seq(Messages)] /\ \A c \in Pairs : Len(links[c]) <= LinkCapacity
      /\ queue[n] \in Seq(Envelopes)
  BY DEF TypeOK
<1>5. req \in Messages /\ req.type = "SyncRequest"
  BY <1>4, SyncRequestType
<1> HIDE DEF req
<1>6. /\ links' \in [Pairs -> Seq(Messages)] /\ \A c \in Pairs : Len(links'[c]) <= LinkCapacity
      /\ \A c \in Pairs : Elements(links'[c]) \subseteq Elements(links[c]) \cup (IF c = <<n, p>> THEN {req} ELSE {})
      /\ \A c \in Pairs : c # <<n, p>> => links'[c] = links[c]
  <2>1. Len(links[<<n, p>>]) < LinkCapacity
    BY <1>2 DEF HasRoom
  <2> DEFINE new == Sent(links, n, p, req)
  <2>2. new \in [Pairs -> Seq(Messages)] /\ \A c \in Pairs : Len(new[c]) <= LinkCapacity
    BY <1>3, <1>4, <1>5, <2>1, SentType
  <2>3. \A c \in Pairs : Elements(new[c]) \subseteq Elements(links[c]) \cup (IF c = <<n, p>> THEN {req} ELSE {})
    BY <1>3, <1>4, <1>5, <2>1, SentType
  <2>4. \A c \in Pairs : c # <<n, p>> => new[c] = links[c]
    BY <1>4 DEF Sent
  <2>5. links' = new
    BY <1>2
  <2> HIDE DEF new
  <2> QED
    BY <2>2, <2>3, <2>4, <2>5
<1>7. r \in Rounds /\ r.batch = round[n].batch /\ r.recipients = {p}
  BY <1>3, <1>4 DEF Rounds
<1>8. round' = [round EXCEPT ![n] = r]
  BY <1>2, <1>4
<1> HIDE DEF r
<1>9. RoundsOK' /\ round'[n] = r /\ \A k \in Nodes : k # n => round'[k] = round[k]
  BY <1>4, <1>7, <1>8, RoundSet
<1>10. TypeOK'
  BY <1>1, <1>6, <1>9 DEF TypeOK, RoundsOK
<1>12. \A k \in Nodes : CopiesAt(k)' \subseteq CopiesAt(k)
  BY <1>1, <1>7, <1>9 DEF CopiesAt
<1>13. ASSUME NEW k \in Nodes, NEW l \in Nodes PROVE InFlight(k, l)' \subseteq InFlight(k, l)
  <2>1. <<k, l>> \in Pairs
    BY DEF Pairs
  <2>2. Carried(req) = {}
    BY <1>5, CarriedBy
  <2> QED
    BY <1>6, <2>1, <2>2 DEF InFlight
<1> QED
  BY <1>1, <1>10, <1>12, <1>13 DEF Moves

\* A received response, merged at n.
LEMMA MergeMoves ==
  ASSUME TypeOK, TypeOK', NEW n \in Nodes, NEW p \in Nodes, links[<<p, n>>] # <<>>,
         links' = [links EXCEPT ![<<p, n>>] = Tail(@)],
         Head(links[<<p, n>>]).type = "SyncResponse",
         HandleSyncResponse(n, Head(links[<<p, n>>]).envs),
         \A k \in Nodes : Elements(round'[k].batch) \subseteq Elements(round[k].batch)
  PROVE  Moves
<1> DEFINE m == Head(links[<<p, n>>])
<1>1. m \in Messages /\ m \in Elements(links[<<p, n>>])
  <2>1. <<p, n>> \in Pairs /\ links[<<p, n>>] \in Seq(Messages)
    BY DEF TypeOK, Pairs
  <2> QED
    BY <2>1, LinkHead, ElementsOfHeadTail
<1>2. \A c \in Pairs : Elements(links'[c]) \subseteq Elements(links[c])
  BY LinkHead
<1>3. m.envs \in Seq(Envelopes) /\ Carried(m) = Elements(m.envs) /\ HandleSyncResponse(n, m.envs)
  BY <1>1, CarriedBy
<1> HIDE DEF m
<1>4. /\ \A k \in Nodes : /\ Elements(queue'[k]) \cup Elements(backlog'[k]) \subseteq
                               Elements(queue[k]) \cup Elements(backlog[k])
                                 \cup (IF k = n THEN Elements(m.envs) ELSE {})
  BY <1>3, MergeType
<1>6. \A e \in Elements(m.envs) : Arrives(n, e)
  BY <1>1, <1>3 DEF Arrives, InFlight
<1>7. \A k \in Nodes : \A e \in CopiesAt(k)' : e \in CopiesAt(k) \/ Arrives(k, e)
  BY <1>4, <1>6 DEF CopiesAt
<1>8. \A k, l \in Nodes : Elements(links'[<<k, l>>]) \subseteq Elements(links[<<k, l>>])
  BY <1>2 DEF Pairs
<1>9. \A k, l \in Nodes : InFlight(k, l)' \subseteq InFlight(k, l)
  BY <1>8 DEF InFlight
<1> QED
  BY <1>7, <1>8, <1>9 DEF Moves

LEMMA AntiEntropyPollStep ==
  ASSUME TypeOK, NEW n \in Nodes, AntiEntropyPoll(n)
  PROVE  TypeOK' /\ Moves
<1>1. /\ round' = [round EXCEPT ![n] = IdleRound]
      /\ UNCHANGED <<bloom, reputation, banned, submitted, forwarded>>
  BY DEF AntiEntropyPoll
<1>2. /\ IdleRound \in Rounds /\ IdleRound.batch = <<>> /\ IdleRound.recipients = {}
      /\ Len(IdleRound.batch) <= FANOUT_BATCH_SIZE
  BY EmptySeq, MeshAssumption DEF IdleRound, Rounds
<1>3. RoundsOK' /\ round'[n] = IdleRound /\ \A k \in Nodes : k # n => round'[k] = round[k]
  BY <1>1, <1>2, RoundSet
<1>5. \A k \in Nodes : Elements(round'[k].batch) \subseteq Elements(round[k].batch)
  BY <1>2, <1>3, EmptyElements
<1>6. CASE UNCHANGED <<queue, backlog, links, seen, missed>>
  <2>1. TypeOK'
    BY <1>1, <1>3, <1>6 DEF TypeOK, RoundsOK
  <2>3. \A k \in Nodes : CopiesAt(k)' \subseteq CopiesAt(k)
    BY <1>5, <1>6 DEF CopiesAt
  <2> QED
    BY <1>6, <2>1, <2>3, LocalMoves
<1>7. ASSUME NEW q \in Nodes, links[<<q, n>>] # <<>>,
             links' = [links EXCEPT ![<<q, n>>] = Tail(@)]
      PROVE  /\ LinksOK'
             /\ \A k, l \in Nodes : Elements(links'[<<k, l>>]) \subseteq Elements(links[<<k, l>>])
  <2>1. /\ links' \in [Pairs -> Seq(Messages)] /\ \A c \in Pairs : Len(links'[c]) <= LinkCapacity
        /\ \A c \in Pairs : Elements(links'[c]) \subseteq Elements(links[c])
        /\ \A c \in Pairs : links'[c] # <<>> => links[c] # <<>>
    BY <1>7, LinkHead
  <2>2. \A k, l \in Nodes : <<k, l>> \in Pairs
    BY DEF Pairs
  <2> QED
    BY <2>1, <2>2 DEF LinksOK
<1>8. ASSUME NEW q \in Nodes, links[<<q, n>>] # <<>>,
             links' = [links EXCEPT ![<<q, n>>] = Tail(@)],
             GiveUp(q, {n}, IF Head(links[<<q, n>>]).type = "Transaction" THEN {Head(links[<<q, n>>]).env.id} ELSE {}),
             UNCHANGED <<queue, backlog, seen>>
      PROVE  TypeOK' /\ Moves
  <2>1. /\ LinksOK'
        /\ \A k, l \in Nodes : Elements(links'[<<k, l>>]) \subseteq Elements(links[<<k, l>>])
    BY <1>7, <1>8
  <2>2. missed' \in [Pairs -> SUBSET Ids]
    <3> DEFINE w == Head(links[<<q, n>>])
               ids == IF w.type = "Transaction" THEN {w.env.id} ELSE {}
    <3>1. w \in Messages
      BY <1>8, LinkHead
    <3>2. ids \in SUBSET Ids
      BY <3>1, CarriedBy DEF Envelopes
    <3>3. GiveUp(q, {n}, ids)
      BY <1>8
    <3> HIDE DEF ids
    <3> QED
      BY <3>2, <3>3, GiveUpType
  <2>6. TypeOK'
    BY <1>1, <1>3, <1>8, <2>1, <2>2 DEF TypeOK, RoundsOK, LinksOK
  <2>3. \A k \in Nodes : CopiesAt(k)' \subseteq CopiesAt(k)
    BY <1>5, <1>8 DEF CopiesAt
  <2>4. \A k, l \in Nodes : InFlight(k, l)' \subseteq InFlight(k, l)
    BY <2>1 DEF InFlight
  <2>5. Moves
    BY <1>8, <2>1, <2>3, <2>4 DEF Moves
  <2> QED
    BY <2>5, <2>6
<1>9. ASSUME NEW q \in Nodes, links[<<q, n>>] # <<>>,
             links' = [links EXCEPT ![<<q, n>>] = Tail(@)],
             Head(links[<<q, n>>]).type = "SyncResponse",
             HandleSyncResponse(n, Head(links[<<q, n>>]).envs)
      PROVE  TypeOK' /\ Moves
  <2>1. LinksOK'
    BY <1>7, <1>9
  <2>2. Head(links[<<q, n>>]).envs \in Seq(Envelopes)
    BY <1>9, LinkHead, CarriedBy
  <2>3. QueuesOK' /\ seen' \in [Nodes -> SUBSET Ids] /\ missed' \in [Pairs -> SUBSET Ids]
    BY <1>9, <2>2, MergeType
  <2>4. TypeOK'
    BY <1>1, <1>3, <2>1, <2>3 DEF TypeOK, RoundsOK, LinksOK, QueuesOK
  <2>5. Moves
    BY <1>5, <1>9, <2>4, MergeMoves
  <2> QED
    BY <2>1, <2>4, <2>5
<1> QED
  BY <1>6, <1>8, <1>9 DEF AntiEntropyPoll

LEMMA HostReceiveStep ==
  ASSUME TypeOK, NEW n \in Nodes, NEW p \in Nodes \ {n}, HostReceive(n, p)
  PROVE  TypeOK' /\ Moves
<1> DEFINE m == Head(links[<<p, n>>])
           rest == [links EXCEPT ![<<p, n>>] = Tail(@)]
<1>1. /\ links[<<p, n>>] # <<>>
      /\ UNCHANGED <<bloom, round, reputation, banned, submitted, forwarded>>
  BY DEF HostReceive
<1>2. /\ rest \in [Pairs -> Seq(Messages)]
      /\ \A c \in Pairs : Len(rest[c]) <= LinkCapacity
      /\ \A c \in Pairs : Elements(rest[c]) \subseteq Elements(links[c])
      /\ \A c \in Pairs : rest[c] # <<>> => links[c] # <<>>
  BY <1>1, LinkHead
<1>3. /\ \A k, l \in Nodes : <<k, l>> \in Pairs
      /\ links \in [Pairs -> Seq(Messages)] /\ queue \in [Nodes -> Seq(Envelopes)]
      /\ seen \in [Nodes -> SUBSET Ids]
  BY DEF Pairs, TypeOK
<1>4. m \in Messages /\ m \in Elements(links[<<p, n>>])
  <2>1. links[<<p, n>>] \in Seq(Messages)
    BY <1>3
  <2> QED
    BY <1>1, <2>1, LinkHead, ElementsOfHeadTail
<1>5. CASE links' = rest
  <2>1. LinksOK'
    BY <1>2, <1>5 DEF LinksOK
  <2>3. \A k, l \in Nodes : Elements(links'[<<k, l>>]) \subseteq Elements(links[<<k, l>>])
    BY <1>2, <1>3, <1>5
  <2>4. \A k, l \in Nodes : InFlight(k, l)' \subseteq InFlight(k, l)
    BY <2>3 DEF InFlight
  <2>5. CASE /\ m.type = "Transaction"
             /\ Enqueue(n, <<m.env>>)
             /\ seen' = [seen EXCEPT ![n] = @ \cup {m.env.id}]
             /\ UNCHANGED backlog
    <3> DEFINE e == m.env
    <3>1. e \in Envelopes /\ Carried(m) = {e} /\ e.id \in Ids
      BY <1>4, <2>5, CarriedBy DEF Envelopes
    <3> HIDE DEF e
    <3>2. <<e>> \in Seq(Envelopes) /\ <<e>> \in Seq({e})
      BY <3>1
    <3>3. Elements(<<e>>) \subseteq {e}
      BY <3>2, ElementsOfSeq
    <3>4. Enqueue(n, <<e>>) /\ seen' = [seen EXCEPT ![n] = @ \cup {e.id}]
      BY <2>5 DEF e
    <3>5. /\ queue' \in [Nodes -> Seq(Envelopes)] /\ \A k \in Nodes : Len(queue'[k]) <= NORMAL_CAPACITY
          /\ \A k \in Nodes : Elements(queue'[k]) \subseteq
               Elements(queue[k]) \cup (IF k = n THEN Elements(<<e>>) ELSE {})
          /\ missed' \in [Pairs -> SUBSET Ids]
      BY <3>2, <3>4, EnqueueType
    <3>6. seen' \in [Nodes -> SUBSET Ids]
      BY <1>3, <3>1, <3>4
    <3>7. TypeOK'
      BY <1>1, <2>1, <2>5, <3>5, <3>6 DEF TypeOK, LinksOK
    <3>8. Arrives(n, e)
      <4>1. e \in InFlight(p, n)
        BY <1>4, <3>1 DEF InFlight
      <4> QED
        BY <4>1 DEF Arrives
    <3>9. \A k \in Nodes : \A x \in CopiesAt(k)' : x \in CopiesAt(k) \/ Arrives(k, x)
      BY <1>1, <2>5, <3>3, <3>5, <3>8 DEF CopiesAt
    <3>10. Moves
      BY <2>3, <2>4, <3>9 DEF Moves
    <3> QED
      BY <3>7, <3>10
  <2>6. CASE m.type = "SyncResponse" /\ HandleSyncResponse(n, m.envs)
    <3>1. m.envs \in Seq(Envelopes)
      BY <1>4, <2>6, CarriedBy
    <3>2. QueuesOK' /\ seen' \in [Nodes -> SUBSET Ids] /\ missed' \in [Pairs -> SUBSET Ids]
      BY <2>6, <3>1, MergeType
    <3>3. TypeOK'
      BY <1>1, <2>1, <3>2 DEF TypeOK, LinksOK, QueuesOK
    <3>4. Moves
      BY <1>1, <1>5, <2>6, <3>3, MergeMoves
    <3> QED
      BY <3>3, <3>4
  <2>7. CASE UNCHANGED <<queue, backlog, seen, missed>>
    <3>1. TypeOK'
      BY <1>1, <2>1, <2>7 DEF TypeOK, LinksOK
    <3>2. \A k \in Nodes : CopiesAt(k)' \subseteq CopiesAt(k)
      BY <1>1, <2>7 DEF CopiesAt
    <3>3. Moves
      BY <2>3, <2>4, <2>7, <3>2 DEF Moves
    <3> QED
      BY <3>1, <3>3
  <2> QED
    BY <2>5, <2>6, <2>7 DEF HostReceive
<1>6. CASE /\ m.type = "SyncRequest" /\ HasRoom(n, p)
           /\ links' = Sent(rest, n, p, SyncResponseFor(queue[n], m))
           /\ UNCHANGED <<queue, backlog, seen, missed>>
  <2> DEFINE resp == SyncResponseFor(queue[n], m)
  <2>1. /\ resp \in Messages /\ resp.type = "SyncResponse"
        /\ resp.envs \in Seq({Crossed(e) : e \in Elements(queue[n])})
    BY <1>3, SyncResponseType
  <2>2. /\ Carried(resp) \subseteq {Crossed(e) : e \in Elements(queue[n])}
        /\ Elements(queue[n]) \subseteq Envelopes
    BY <1>3, <2>1, CarriedBy, ElementsOfSeq
  <2> HIDE DEF resp
  <2>3. rest[<<n, p>>] = links[<<n, p>>] /\ Len(rest[<<n, p>>]) < LinkCapacity
    BY <1>3, <1>6 DEF HasRoom
  <2> DEFINE new == Sent(rest, n, p, resp)
  <2>4. links' = new
    BY <1>6 DEF resp
  <2>5. \A c \in Pairs : c # <<n, p>> => new[c] = rest[c]
    BY <1>2 DEF Sent
  <2> HIDE DEF rest
  <2>6. new \in [Pairs -> Seq(Messages)] /\ \A c \in Pairs : Len(new[c]) <= LinkCapacity
    BY <1>2, <2>1, <2>3, SentType
  <2>7. \A c \in Pairs : Elements(new[c]) \subseteq Elements(rest[c]) \cup (IF c = <<n, p>> THEN {resp} ELSE {})
    BY <1>2, <2>1, <2>3, SentType
  <2> HIDE DEF new
  <2>8. TypeOK'
    BY <1>1, <1>6, <2>4, <2>6 DEF TypeOK
  <2>10. \A k, l \in Nodes : \A x \in Elements(links'[<<k, l>>]) :
           x \in Elements(links[<<k, l>>]) \/ (k = n /\ l = p /\ x = resp)
    BY <1>2, <1>3, <2>4, <2>7
  <2>11. m \in Elements(links[<<p, n>>]) /\ m.type # "Transaction"
    BY <1>4, <1>6
  <2>12. ASSUME NEW k \in Nodes, NEW l \in Nodes, NEW x \in InFlight(k, l)'
         PROVE  x \in InFlight(k, l) \/ Leaves(k, l, x)
    <3>1. PICK w \in Elements(links'[<<k, l>>]) : x \in Carried(w)
      BY <2>12 DEF InFlight
    <3>2. CASE w \in Elements(links[<<k, l>>])
      BY <3>1, <3>2 DEF InFlight
    <3>3. CASE k = n /\ l = p /\ w = resp
      <4>1. PICK d \in Elements(queue[n]) : x = Crossed(d)
        BY <2>2, <3>1, <3>3
      <4>2. x.id = d.id /\ d \in CopiesAt(k)
        BY <2>2, <3>3, <4>1, CrossedType DEF CopiesAt
      <4> QED
        BY <2>11, <3>3, <4>2 DEF Leaves
    <3> QED
      BY <2>10, <3>1, <3>2, <3>3
  <2>13. \A k \in Nodes : CopiesAt(k)' \subseteq CopiesAt(k)
    BY <1>1, <1>6 DEF CopiesAt
  <2>14. Moves
    BY <1>6, <2>10, <2>11, <2>12, <2>13 DEF Moves
  <2> QED
    BY <2>8, <2>14
<1> QED
  BY <1>5, <1>6 DEF HostReceive

\* Every step keeps the types and the wiring, and moves copies as described.
LEMMA EveryStep ==
  ASSUME TypeOK, [Next]_vars
  PROVE  TypeOK' /\ Moves
<1>1. CASE UNCHANGED vars
  <2>1. TypeOK'
    BY <1>1 DEF vars, TypeOK
  <2>2. links' = links /\ \A k \in Nodes : CopiesAt(k)' \subseteq CopiesAt(k)
    BY <1>1 DEF vars, CopiesAt
  <2> QED
    BY <2>1, <2>2, LocalMoves
<1>2. CASE Next
  <2>1. CASE \E id \in Ids : Submit(id)
    BY <2>1, SubmitStep
  <2>2. ASSUME NEW n \in Nodes,
               \/ StartRound(n) \/ RoundStep(n) \/ BanCheck(n) \/ AntiEntropyTick(n)
               \/ AntiEntropyPoll(n) \/ RecoverBatch(n) \/ \E p \in Nodes \ {n} : HostReceive(n, p)
        PROVE  TypeOK' /\ Moves
    BY <2>2, StartRoundStep, DrainRoundStep, DispatchDuplicateStep, DispatchExpiredStep, DispatchSendStep,
       FinishRoundStep, BanCheckStep, AntiEntropyTickStep, AntiEntropyPollStep, RecoverBatchStep,
       HostReceiveStep DEF RoundStep
  <2> QED
    BY <1>2, <2>1, <2>2 DEF Next
<1> QED
  BY <1>1, <1>2

\* Queues, batches, connections and histories keep their types and their
\* bounds: a queue its capacity, a batch its size, a filter its window.
THEOREM TypeCorrect == Spec => []TypeOK
<1>1. Init => TypeOK
  BY InitTypeOK
<1>2. TypeOK /\ [Next]_vars => (TypeOK)'
  BY EveryStep
<1> QED
  BY <1>1, <1>2, PTL DEF Spec
LEMMA InitEmpty ==
  ASSUME Init
  PROVE  /\ \A n \in Nodes : CopiesAt(n) = {}
         /\ \A p, n \in Nodes : links[<<p, n>>] = <<>> /\ InFlight(p, n) = {}
<1>1. \A n \in Nodes : queue[n] = <<>> /\ backlog[n] = <<>> /\ round[n].batch = <<>>
  BY DEF Init, IdleRound
<1>2. \A p, n \in Nodes : links[<<p, n>>] = <<>>
  BY DEF Init, Pairs
<1> QED
  BY <1>1, <1>2, EmptyElements DEF CopiesAt, InFlight

-----------------------------------------------------------------------------
(* Hops.                                                                   *)

\* What the messages of a connection carry are envelopes.
LEMMA CarriedTyped ==
  ASSUME NEW ms \in Seq(Messages)
  PROVE  UNION {Carried(m) : m \in Elements(ms)} \subseteq Envelopes
<1>1. ASSUME NEW m \in Elements(ms) PROVE Carried(m) \subseteq Envelopes
  <2>1. m \in Messages
    BY ElementsOfSeq
  <2> QED
    BY <2>1, CarriedBy, ElementsOfSeq
<1> QED
  BY <1>1

\* Copies are envelopes.
LEMMA CopiesTyped ==
  ASSUME TypeOK
  PROVE  /\ \A n \in Nodes : CopiesAt(n) \subseteq Envelopes
         /\ \A p, n \in Nodes : InFlight(p, n) \subseteq Envelopes
<1>1. ASSUME NEW n \in Nodes PROVE CopiesAt(n) \subseteq Envelopes
  <2>1. queue[n] \in Seq(Envelopes) /\ backlog[n] \in Seq(Envelopes) /\ round[n].batch \in Seq(Envelopes)
    BY DEF TypeOK, Rounds
  <2> QED
    BY <2>1, ElementsOfSeq DEF CopiesAt
<1>2. ASSUME NEW p \in Nodes, NEW n \in Nodes PROVE InFlight(p, n) \subseteq Envelopes
  <2>1. links[<<p, n>>] \in Seq(Messages)
    BY DEF TypeOK, Pairs
  <2> QED
    BY <2>1, CarriedTyped DEF InFlight
<1> QED
  BY <1>1, <1>2

\* Hops taken and hops left never exceed what the envelope set out with.
Budget ==
  /\ \A n \in Nodes : \A e \in CopiesAt(n) : e.hops + e.ttl <= InitTtl[e.id]
  /\ \A p, n \in Nodes : \A e \in InFlight(p, n) : e.hops + e.ttl <= InitTtl[e.id]

\* Without anti-entropy only transactions travel.
Pushed == \A p, n \in Nodes : \A m \in Elements(links[<<p, n>>]) : m.type = "Transaction"

LEMMA BudgetStep ==
  ASSUME TypeOK, TypeOK', Moves, Pushed, Budget, AntiEntropy = {}
  PROVE  Budget' /\ Pushed'
<1>1. Pushed'
  <2>1. ASSUME NEW p \in Nodes, NEW n \in Nodes, NEW m \in Elements(links'[<<p, n>>])
        PROVE  m.type = "Transaction"
    <3>1. /\ \A r \in Elements(links[<<n, p>>]) : r.type = "Transaction"
          /\ \A r \in Elements(links[<<p, n>>]) : r.type = "Transaction"
      BY DEF Pushed
    <3>2. \/ m \in Elements(links[<<p, n>>]) \/ m.type = "Transaction" \/ AntiEntropy # {}
          \/ \E r \in Elements(links[<<n, p>>]) : r.type # "Transaction"
      BY <2>1 DEF Moves
    <3> QED
      BY <3>1, <3>2
  <2>2. \A p, n \in Nodes : \A m \in Elements(links'[<<p, n>>]) : m.type = "Transaction"
    BY <2>1
  <2> QED
    BY <2>2 DEF Pushed
<1>2. ASSUME NEW n \in Nodes, NEW e \in CopiesAt(n)' PROVE e.hops + e.ttl <= InitTtl[e.id]
  <2>1. CASE e \in CopiesAt(n)
    BY <2>1 DEF Budget
  <2>2. CASE \E id \in Ids : e = [id |-> id, ttl |-> InitTtl[id], hops |-> 0]
    BY <2>2, MeshAssumption
  <2>3. CASE \E p \in Nodes : e \in InFlight(p, n)
    BY <2>3 DEF Budget
  <2> QED
    BY <1>2, <2>1, <2>2, <2>3 DEF Moves, Arrives
<1>3. ASSUME NEW p \in Nodes, NEW n \in Nodes, NEW e \in InFlight(p, n)' PROVE e.hops + e.ttl <= InitTtl[e.id]
  <2>1. CASE e \in InFlight(p, n)
    BY <2>1 DEF Budget
  <2>2. CASE Leaves(p, n, e)
    <3>1. PICK d \in CopiesAt(p) : e.id = d.id /\ e.ttl = d.ttl - 1 /\ e.hops <= d.hops + 1
      BY <2>2 DEF Leaves, Pushed
    <3>2. d \in Envelopes /\ d.hops + d.ttl <= InitTtl[d.id]
      BY CopiesTyped DEF Budget
    <3>3. e \in Envelopes
      <4>1. links'[<<p, n>>] \in Seq(Messages)
        BY DEF TypeOK, Pairs
      <4> QED
        BY <1>3, <4>1, CarriedTyped DEF InFlight
    <3>4. InitTtl[d.id] \in Nat
      BY <3>2, MeshAssumption DEF Envelopes
    <3> QED
      BY <3>1, <3>2, <3>3, <3>4 DEF Envelopes
  <2> QED
    BY <1>3, <2>1, <2>2 DEF Moves
<1> QED
  BY <1>1, <1>2, <1>3 DEF Budget

\* Copies at nodes and on connections are all the copies there are.
LEMMA BudgetLimitsHops == TypeOK /\ Budget => HopLimit
<1> SUFFICES ASSUME TypeOK, Budget, NEW e \in Copies PROVE e.hops <= InitTtl[e.id]
  BY DEF HopLimit
<1>1. e \in Envelopes /\ e.hops + e.ttl <= InitTtl[e.id]
  <2>1. CASE \E n \in Nodes : e \in CopiesAt(n)
    BY <2>1, CopiesTyped DEF Budget
  <2>2. CASE \E p, n \in Nodes : e \in InFlight(p, n)
    BY <2>2, CopiesTyped DEF Budget
  <2>3. CASE e \in UNION {Elements(queue[n]) \cup Elements(backlog[n]) \cup Elements(round[n].batch) : n \in Nodes}
    BY <2>1, <2>3 DEF CopiesAt
  <2>4. CASE e \in UNION {UNION {Carried(m) : m \in Elements(links[c])} : c \in Pairs}
    <3>1. PICK c \in Pairs : e \in UNION {Carried(m) : m \in Elements(links[c])}
      BY <2>4
    <3>2. PICK p \in Nodes, n \in Nodes : c = <<p, n>>
      BY DEF Pairs
    <3>3. e \in InFlight(p, n)
      BY <3>1, <3>2 DEF InFlight
    <3> QED
      BY <2>2, <3>3
  <2> QED
    BY <2>3, <2>4 DEF Copies
<1> QED
  BY <1>1, MeshAssumption DEF Envelopes

\* As long as no anti-entropy runs, no copy crosses more connections than its
\* TTL allowed when it was submitted, on whatever topology and however many
\* nodes forward it.  (A sync response passes the TTL on unchanged.)
THEOREM HopsAreLimited ==
  ASSUME AntiEntropy = {}
  PROVE  Spec => []HopLimit
<1>1. Init => TypeOK /\ Pushed /\ Budget
  BY InitTypeOK, InitEmpty, EmptyElements DEF Budget, Pushed
<1>2. TypeOK /\ Pushed /\ Budget /\ [Next]_vars => (TypeOK /\ Pushed /\ Budget)'
  BY EveryStep, BudgetStep
<1>3. TypeOK /\ Budget => HopLimit
  BY BudgetLimitsHops
<1> QED
  BY <1>1, <1>2, <1>3, PTL DEF Spec
-----------------------------------------------------------------------------
(* Forwarding.                                                             *)

\* The window has taken in as many ids as it has counted, and holds every id
\* the node has forwarded.
Counted ==
  \A n \in Nodes :
    /\ bloom[n].insert_count <= Cardinality(bloom[n].current)
    /\ \A id \in Ids : forwarded[n][id] > 0 => id \in bloom[n].current

\* A window that knows one id more has counted one more.
LEMMA WindowCounts ==
  ASSUME IsFiniteSet(Ids), Cardinality(Ids) <= Capacity,
         NEW f \in SlidingFilters, f.insert_count <= Cardinality(f.current),
         NEW id \in Ids, ~Check(f, id), NEW g \in AddNew(f, id)
  PROVE  /\ g.insert_count <= Cardinality(g.current)
         /\ f.current \subseteq g.current /\ id \in g.current
<1>1. f.current \in SUBSET Ids /\ f.insert_count \in Nat /\ id \notin f.current
  BY DEF SlidingFilters, Check
<1>2. IsFiniteSet(f.current) /\ Cardinality(f.current) \in Nat /\ Cardinality(Ids) \in Nat
  BY <1>1, FS_Subset, FS_CardinalityType
<1>3. IsFiniteSet(f.current \cup {id}) /\ Cardinality(f.current \cup {id}) = Cardinality(f.current) + 1
  BY <1>1, <1>2, FS_AddElement
<1>4. Cardinality(f.current \cup {id}) <= Cardinality(Ids)
  <2>1. f.current \cup {id} \in SUBSET Ids
    BY <1>1
  <2> QED
    BY <2>1, FS_Subset
<1>5. f.insert_count < Capacity
  BY <1>1, <1>2, <1>3, <1>4, CapacityAssumption
<1>6. /\ g \in SlidingFilters /\ id \in g.current /\ f.current \subseteq g.current
      /\ g.insert_count = f.insert_count + 1
  BY <1>5, AddNewWindows
<1>7. g.current \in SUBSET Ids /\ IsFiniteSet(g.current) /\ Cardinality(g.current) \in Nat
  BY <1>6, FS_Subset, FS_CardinalityType DEF SlidingFilters
<1>8. Cardinality(f.current \cup {id}) <= Cardinality(g.current)
  <2>1. f.current \cup {id} \in SUBSET g.current
    BY <1>6
  <2> QED
    BY <1>7, <2>1, FS_Subset
<1> QED
  BY <1>1, <1>2, <1>3, <1>6, <1>7, <1>8

LEMMA ForwardStep ==
  ASSUME IsFiniteSet(Ids), Cardinality(Ids) <= Capacity,
         TypeOK, Counted, ForwardOnce, [Next]_vars
  PROVE  Counted' /\ ForwardOnce'
<1>0. bloom \in [Nodes -> SlidingFilters] /\ forwarded \in [Nodes -> [Ids -> 0..2]]
  BY DEF TypeOK
<1>1. CASE UNCHANGED <<bloom, forwarded>>
  BY <1>1 DEF Counted, ForwardOnce
<1>2. ASSUME NEW n \in Nodes, DispatchExpired(n) \/ DispatchSend(n) PROVE Counted' /\ ForwardOnce'
  <2> DEFINE e == Head(round[n].batch)
  <2>1. round[n].batch # <<>> /\ ~Check(bloom[n], e.id)
    BY <1>2 DEF DispatchExpired, DispatchSend
  <2>2. e.id \in Ids
    BY <2>1, BatchHead
  <2>3. PICK g \in AddNew(bloom[n], e.id) : bloom' = [bloom EXCEPT ![n] = g]
    BY <1>2 DEF DispatchExpired, DispatchSend
  <2>4. \/ forwarded' = forwarded
        \/ forwarded' = [forwarded EXCEPT ![n][e.id] = AtMost(@ + 1, 2)]
    BY <1>2 DEF DispatchExpired, DispatchSend
  <2> DEFINE x == e.id
  <2> HIDE DEF e, x
  <2>5. /\ g.insert_count <= Cardinality(g.current)
        /\ bloom[n].current \subseteq g.current /\ e.id \in g.current
    BY <1>0, <2>1, <2>2, <2>3, WindowCounts DEF Counted
  <2>6. e.id \notin bloom[n].current
    BY <2>1 DEF Check
  <2>7. forwarded[n][e.id] = 0
    BY <1>0, <2>2, <2>6 DEF Counted
  <2>8. AtMost(forwarded[n][e.id] + 1, 2) = 1
    BY <2>7 DEF AtMost
  <2>9. \A k \in Nodes, id \in Ids :
          forwarded'[k][id] = forwarded[k][id] \/ (k = n /\ id = e.id /\ forwarded'[k][id] = 1)
    BY <1>0, <2>2, <2>4, <2>8
  <2>10. bloom'[n] = g /\ \A k \in Nodes : k # n => bloom'[k] = bloom[k]
    BY <1>0, <2>3
  <2>11. ForwardOnce'
    BY <2>9 DEF ForwardOnce
  <2>12. \A k \in Nodes : bloom'[k].insert_count <= Cardinality(bloom'[k].current)
    BY <2>5, <2>10 DEF Counted
  <2>13. \A k \in Nodes, id \in Ids : forwarded'[k][id] > 0 => id \in bloom'[k].current
    BY <2>5, <2>9, <2>10 DEF Counted
  <2> QED
    BY <2>11, <2>12, <2>13 DEF Counted
<1>3. ASSUME NEW n \in Nodes,
             \/ StartRound(n) \/ DrainRound(n) \/ DispatchDuplicate(n) \/ FinishRound(n)
             \/ BanCheck(n) \/ AntiEntropyTick(n) \/ AntiEntropyPoll(n) \/ RecoverBatch(n)
             \/ \E p \in Nodes \ {n} : HostReceive(n, p)
      PROVE  UNCHANGED <<bloom, forwarded>>
  BY <1>3 DEF StartRound, DrainRound, DispatchDuplicate, FinishRound, BanCheck, AntiEntropyTick,
              AntiEntropyPoll, RecoverBatch, HostReceive
<1>4. ASSUME NEW id \in Ids, Submit(id) PROVE UNCHANGED <<bloom, forwarded>>
  BY <1>4 DEF Submit
<1>5. UNCHANGED vars => UNCHANGED <<bloom, forwarded>>
  BY DEF vars
<1> QED
  BY <1>1, <1>2, <1>3, <1>4, <1>5 DEF Next, RoundStep

\* While the filter window holds all the ids in play, a node sends an id out
\* in at most one round: no copy that anti-entropy, recovery or a peer brings
\* back gets past the filter, whichever false positives it has.
THEOREM ForwardedOnce ==
  ASSUME IsFiniteSet(Ids), Cardinality(Ids) <= Capacity
  PROVE  Spec => []ForwardOnce
<1>1. Init => TypeOK /\ Counted /\ ForwardOnce
  <2> SUFFICES ASSUME Init PROVE TypeOK /\ Counted /\ ForwardOnce
    OBVIOUS
  <2>1. \A n \in Nodes : bloom[n] = NewFilter /\ \A id \in Ids : forwarded[n][id] = 0
    BY DEF Init
  <2>2. NewFilter.insert_count = 0 /\ NewFilter.current = {} /\ Cardinality({}) = 0
    BY FS_EmptySet DEF NewFilter
  <2>3. Counted
    <3>1. \A n \in Nodes : bloom[n].insert_count = 0 /\ Cardinality(bloom[n].current) = 0
      BY <2>1, <2>2
    <3>2. \A n \in Nodes, id \in Ids : ~(forwarded[n][id] > 0)
      BY <2>1
    <3> QED
      BY <3>1, <3>2 DEF Counted
  <2>4. ForwardOnce
    BY <2>1 DEF ForwardOnce
  <2> QED
    BY <2>3, <2>4, InitTypeOK
<1>2. TypeOK /\ Counted /\ ForwardOnce /\ [Next]_vars => (TypeOK /\ Counted /\ ForwardOnce)'
  BY EveryStep, ForwardStep
<1> QED
  BY <1>1, <1>2, PTL DEF Spec

-----------------------------------------------------------------------------
(* Losses.                                                                 *)

\* Only a dispatching round has a batch.
BatchInDispatch == \A n \in Nodes : round[n].stage # "dispatch" => round[n].batch = <<>>

\* The ids n need not bring to p any more, and those it is done with.
Reaches(n, p) == seen[p] \cup UnderWay(n, p) \cup missed[<<n, p>>]
Dealt(n, id) == \A p \in Neighbours[n] : id \in Reaches(n, p)

\* A duplicate can be dropped because the node is done with what it forwarded.
ForwardedDealt == \A n \in Nodes, id \in Ids : forwarded[n][id] > 0 => Dealt(n, id)

\* What a step does to the ids of a node: what reached a peer stays so, and an
\* id leaves a node, or fails to enter it, only when the node is done with it.
Carries == \A n, p \in Nodes : Reaches(n, p) \subseteq Reaches(n, p)'

Disposes ==
  \A n \in Nodes : \A id \in Held(n) \cup (seen'[n] \ seen[n]) :
    id \in Held(n)' \/ forwarded[n][id] > 0 \/ Dealt(n, id)'

Forwards ==
  \A n \in Nodes, id \in Ids : forwarded'[n][id] > 0 => forwarded[n][id] > 0 \/ Dealt(n, id)'

Tracked == Carries /\ Disposes /\ Forwards /\ BatchInDispatch'

LEMMA HeldIds ==
  \A n : Held(n) = IdsOf(queue[n]) \cup IdsOf(backlog[n]) \cup IdsOf(round[n].batch)
BY DEF Held, IdsOf

LEMMA TrackedLosses ==
  ASSUME TypeOK, TypeOK', LossesKnown, ForwardedDealt, Tracked
  PROVE  LossesKnown' /\ ForwardedDealt'
<1>1. ASSUME NEW n \in Nodes, NEW id, Dealt(n, id) PROVE Dealt(n, id)'
  <2>1. \A p \in Neighbours[n] : p \in Nodes
    BY MeshAssumption
  <2> QED
    BY <1>1, <2>1 DEF Tracked, Carries, Dealt
<1>2. ForwardedDealt'
  BY <1>1 DEF ForwardedDealt, Tracked, Forwards
<1>3. ASSUME NEW n \in Nodes, NEW id \in seen'[n], id \notin Held(n)' PROVE Dealt(n, id)'
  <2>1. id \in Ids
    BY <1>3 DEF TypeOK
  <2>2. CASE id \in seen[n] \ Held(n)
    <3>1. Dealt(n, id)
      BY <2>2 DEF LossesKnown, Dealt, Reaches
    <3> QED
      BY <1>1, <3>1
  <2>3. CASE id \in Held(n) \cup (seen'[n] \ seen[n])
    <3>1. forwarded[n][id] > 0 \/ Dealt(n, id)'
      BY <1>3, <2>3 DEF Tracked, Disposes
    <3> QED
      BY <1>1, <2>1, <3>1 DEF ForwardedDealt
  <2> QED
    BY <1>3, <2>2, <2>3
<1>4. LossesKnown'
  BY <1>3 DEF LossesKnown, Dealt, Reaches
<1> QED
  BY <1>2, <1>4

\* A connection that lost at most the messages X.
LEMMA UnderWayKept ==
  ASSUME NEW k, NEW l, NEW X, Elements(links[<<k, l>>]) \subseteq Elements(links'[<<k, l>>]) \cup X
  PROVE  UnderWay(k, l) \subseteq UnderWay(k, l)' \cup {x.env.id : x \in {y \in X : y.type = "Transaction"}}
BY DEF UnderWay

\* Steps that lose nothing and forward nothing.
LEMMA QuietTracked ==
  ASSUME BatchInDispatch', seen' = seen, missed' = missed, forwarded' = forwarded,
         \A k, l \in Nodes : Elements(links[<<k, l>>]) \subseteq Elements(links'[<<k, l>>]),
         \A k \in Nodes : Held(k) \subseteq Held(k)'
  PROVE  Tracked
<1>1. \A k, l \in Nodes : UnderWay(k, l) \subseteq UnderWay(k, l)'
  BY DEF UnderWay
<1>2. Carries
  BY <1>1 DEF Carries, Reaches
<1>3. Disposes
  BY DEF Disposes
<1>4. Forwards
  BY DEF Forwards
<1> QED
  BY <1>2, <1>3, <1>4 DEF Tracked

\* Nothing but the head leaves a sequence with it.
LEMMA HeadLeaves ==
  ASSUME NEW S, NEW s \in Seq(S), s # <<>>
  PROVE  Elements(s) \subseteq {Head(s)} \cup Elements(Tail(s))
<1>1. /\ Len(s) \in Nat /\ DOMAIN s = 1..Len(s) /\ Head(s) = s[1]
      /\ Tail(s) \in Seq(S) /\ Len(Tail(s)) = Len(s) - 1
      /\ \A i \in 1..Len(Tail(s)) : Tail(s)[i] = s[i + 1]
  BY LenProperties, HeadTailProperties
<1>2. DOMAIN Tail(s) = 1..Len(Tail(s))
  BY <1>1, LenProperties
<1>3. ASSUME NEW i \in 1..Len(s), i # 1 PROVE s[i] \in Elements(Tail(s))
  <2>1. i - 1 \in 1..Len(Tail(s)) /\ Tail(s)[i - 1] = s[i]
    BY <1>1, <1>3
  <2> QED
    BY <1>2, <2>1 DEF Elements
<1> QED
  BY <1>1, <1>3 DEF Elements

\* Appending keeps what was there.
LEMMA AppendHolds ==
  ASSUME NEW S, NEW s \in Seq(S), NEW m \in S
  PROVE  Elements(s) \cup {m} \subseteq Elements(Append(s, m))
<1>1. /\ Len(s) \in Nat /\ DOMAIN s = 1..Len(s)
      /\ Append(s, m) \in Seq(S) /\ Len(Append(s, m)) = Len(s) + 1
      /\ \A i \in 1..Len(s) : Append(s, m)[i] = s[i]
      /\ Append(s, m)[Len(s) + 1] = m
  BY LenProperties, AppendProperties
<1>2. DOMAIN Append(s, m) = 1..(Len(s) + 1)
  BY <1>1, LenProperties
<1>3. \A i \in 1..Len(s) : i \in 1..(Len(s) + 1)
  BY <1>1
<1>4. Len(s) + 1 \in 1..(Len(s) + 1)
  BY <1>1
<1> QED
  BY <1>1, <1>2, <1>3, <1>4 DEF Elements

\* An order of a sequence, and what is split off it, keep all ids.
LEMMA OrderIds ==
  ASSUME NEW q \in Seq(Envelopes), NEW s \in Orders(q)
  PROVE  IdsOf(q) \subseteq IdsOf(s)
<1>1. s \in Seq(Envelopes) /\ Len(s) = Len(q)
  BY OrderType
<1>2. PICK at : Rearranges(at, Len(q)) /\ \A k \in 1..Len(q) : s[k] = q[at[k]]
  BY OrderType
<1>3. DOMAIN q = 1..Len(q) /\ DOMAIN s = 1..Len(q)
  BY <1>1, LenProperties
<1>4. ASSUME NEW i \in 1..Len(q) PROVE q[i].id \in IdsOf(s)
  <2>1. PICK k \in 1..Len(q) : at[k] = i
    BY <1>2 DEF Rearranges
  <2> QED
    BY <1>2, <1>3, <2>1 DEF IdsOf
<1> QED
  BY <1>3, <1>4 DEF IdsOf

LEMMA SplitIds ==
  ASSUME NEW s \in Seq(Envelopes), NEW m \in Nat, m <= Len(s)
  PROVE  IdsOf(s) \subseteq IdsOf(SubSeq(s, 1, m)) \cup IdsOf(SubSeq(s, m + 1, Len(s)))
<1> DEFINE a == SubSeq(s, 1, m)
           b == SubSeq(s, m + 1, Len(s))
<1>1. Len(s) \in Nat /\ DOMAIN s = 1..Len(s) /\ \A i \in 1..Len(s) : s[i] \in Envelopes
  BY LenProperties, ElementOfSeq
<1>2. a \in Seq(Envelopes) /\ Len(a) = m
  BY <1>1, PartType
<1>3. b \in Seq(Envelopes) /\ Len(b) = Len(s) - m
  <2>1. m + 1 \in Nat /\ m + 1 >= 1 /\ Len(s) <= Len(s)
    BY <1>1
  <2>2. b \in Seq(Envelopes) /\ Len(b) = IF m + 1 <= Len(s) THEN Len(s) - (m + 1) + 1 ELSE 0
    BY <1>1, <2>1, PartType
  <2> DEFINE l == Len(s)
  <2>3. l \in Nat /\ m <= l /\ (IF m + 1 <= l THEN l - (m + 1) + 1 ELSE 0) = l - m
    <3>1. l \in Nat /\ m <= l
      BY <1>1
    <3> HIDE DEF l
    <3> QED
      BY <3>1
  <2> QED
    BY <2>2, <2>3
<1>4. \A i \in 1..Len(a) : a[i] = s[1 + i - 1]
  <2>1. \A i \in 1..m : s[i] \in Envelopes
    BY <1>1
  <2> QED
    BY <1>1, <2>1, SubSeqProperties
<1>5. \A i \in 1..Len(b) : b[i] = s[m + 1 + i - 1]
  <2>1. \A i \in (m + 1)..Len(s) : s[i] \in Envelopes
    BY <1>1
  <2>2. m + 1 \in Int /\ Len(s) \in Int
    BY <1>1
  <2> QED
    BY <2>1, <2>2, SubSeqProperties
<1>6. DOMAIN a = 1..m /\ DOMAIN b = 1..(Len(s) - m)
  BY <1>2, <1>3, LenProperties
<1> HIDE DEF a, b
<1>7. ASSUME NEW i \in 1..Len(s) PROVE s[i].id \in IdsOf(a) \cup IdsOf(b)
  <2>1. CASE i <= m
    <3>1. i \in DOMAIN a /\ a[i] = s[i]
      BY <1>1, <1>2, <1>4, <1>6, <2>1
    <3> QED
      BY <3>1 DEF IdsOf
  <2>2. CASE i > m
    <3>1. i - m \in DOMAIN b /\ b[i - m] = s[i]
      BY <1>1, <1>3, <1>5, <1>6, <2>2
    <3> QED
      BY <3>1 DEF IdsOf
  <2> QED
    BY <1>1, <2>1, <2>2
<1> QED
  BY <1>1, <1>7 DEF IdsOf, a, b

LEMMA EnqueueTracks ==
  ASSUME TypeOK, NEW n \in Nodes, NEW envs \in Seq(Envelopes), Enqueue(n, envs)
  PROVE  /\ \A k \in Nodes : k # n => queue'[k] = queue[k]
         /\ \A id \in IdsOf(queue[n]) \cup IdsOf(envs) :
              id \in IdsOf(queue'[n]) \/ \A p \in Neighbours[n] : id \in missed'[<<n, p>>]
         /\ \A k, p \in Nodes : missed[<<k, p>>] \subseteq missed'[<<k, p>>]
<1> DEFINE lost == Overflow(queue[n], envs)
<1>1. queue \in [Nodes -> Seq(Envelopes)] /\ queue' = [queue EXCEPT ![n] = AddEnvelopes(@, envs)]
  BY DEF TypeOK, Enqueue
<1>2. queue'[n] = AddEnvelopes(queue[n], envs) /\ \A k \in Nodes : k # n => queue'[k] = queue[k]
  BY <1>1
<1>3. lost \in SUBSET Ids /\ IdsOf(queue[n]) \cup IdsOf(envs) \subseteq IdsOf(queue'[n]) \cup lost
  BY <1>1, <1>2, OverflowType
<1>4. GiveUp(n, Neighbours[n], lost)
  BY DEF Enqueue
<1> HIDE DEF lost
<1>5. \A k, p \in Nodes : missed'[<<k, p>>] =
        IF k = n /\ p \in Neighbours[n] THEN missed[<<k, p>>] \cup lost ELSE missed[<<k, p>>]
  <2>1. \A k, p \in Nodes : <<k, p>> \in Pairs
    BY DEF Pairs
  <2> QED
    BY <1>4, <2>1 DEF GiveUp
<1>6. \A p \in Neighbours[n] : p \in Nodes
  BY MeshAssumption
<1> QED
  BY <1>2, <1>3, <1>5, <1>6

\* Steps that put envelopes into the queue of a node, which counts them as seen,
\* while its round goes on and connections lose at most what arrived.
LEMMA EnqueueTracked ==
  ASSUME TypeOK, BatchInDispatch', NEW n \in Nodes, NEW envs \in Seq(Envelopes), Enqueue(n, envs),
         forwarded' = forwarded,
         \A k \in Nodes : IdsOf(round[k].batch) \subseteq IdsOf(round'[k].batch),
         \A k \in Nodes : k # n => backlog'[k] = backlog[k] /\ seen'[k] = seen[k],
         IdsOf(backlog[n]) \subseteq IdsOf(backlog'[n]) \cup IdsOf(envs),
         seen[n] \subseteq seen'[n], seen'[n] \subseteq seen[n] \cup IdsOf(envs),
         \A k, l \in Nodes : UnderWay(k, l) \subseteq UnderWay(k, l)' \cup seen'[l]
  PROVE  Tracked
<1>1. /\ \A k \in Nodes : k # n => queue'[k] = queue[k]
      /\ \A id \in IdsOf(queue[n]) \cup IdsOf(envs) :
              id \in IdsOf(queue'[n]) \/ \A p \in Neighbours[n] : id \in missed'[<<n, p>>]
      /\ \A k, p \in Nodes : missed[<<k, p>>] \subseteq missed'[<<k, p>>]
  BY EnqueueTracks
<1>2. Carries
  BY <1>1 DEF Carries, Reaches
<1>3. \A k \in Nodes : Held(k)' = IdsOf(queue'[k]) \cup IdsOf(backlog'[k]) \cup IdsOf(round'[k].batch)
  BY DEF Held, IdsOf
<1>4. Disposes
  <2>1. ASSUME NEW k \in Nodes, k # n PROVE Held(k) \subseteq Held(k)' /\ seen'[k] = seen[k]
    BY <1>1, <1>3, <2>1, HeldIds
  <2>2. ASSUME NEW id \in Held(n) \cup (seen'[n] \ seen[n]) PROVE id \in Held(n)' \/ Dealt(n, id)'
    <3>1. id \in IdsOf(queue[n]) \cup IdsOf(envs) \cup IdsOf(backlog'[n]) \cup IdsOf(round'[n].batch)
      BY HeldIds
    <3>2. CASE id \in IdsOf(queue'[n]) \cup IdsOf(backlog'[n]) \cup IdsOf(round'[n].batch)
      BY <1>3, <3>2
    <3>3. CASE \A p \in Neighbours[n] : id \in missed'[<<n, p>>]
      BY <3>3 DEF Dealt, Reaches
    <3> QED
      BY <1>1, <3>1, <3>2, <3>3
  <2> QED
    BY <2>1, <2>2 DEF Disposes
<1>5. Forwards
  BY DEF Forwards
<1> QED
  BY <1>2, <1>4, <1>5 DEF Tracked

LEMMA StutterTracked == BatchInDispatch /\ UNCHANGED vars => Tracked
<1> SUFFICES ASSUME BatchInDispatch, UNCHANGED vars PROVE Tracked
  OBVIOUS
<1>1. /\ links' = links /\ queue' = queue /\ backlog' = backlog /\ round' = round
      /\ seen' = seen /\ missed' = missed /\ forwarded' = forwarded
  BY DEF vars
<1>2. BatchInDispatch' /\ \A k \in Nodes : Held(k) \subseteq Held(k)'
  BY <1>1 DEF BatchInDispatch, Held
<1> QED
  BY <1>1, <1>2, QuietTracked

LEMMA SubmitTracked ==
  ASSUME TypeOK, BatchInDispatch, NEW id \in Ids, Submit(id)
  PROVE  Tracked
<1> DEFINE n == Origin[id]
           e == [id |-> id, ttl |-> InitTtl[id], hops |-> 0]
<1>1. /\ Enqueue(n, <<e>>) /\ seen' = [seen EXCEPT ![n] = @ \cup {id}]
      /\ backlog' = backlog /\ round' = round /\ links' = links /\ forwarded' = forwarded
  BY DEF Submit
<1>2. n \in Nodes /\ e \in Envelopes
  BY MeshAssumption DEF Envelopes
<1>3. <<e>> \in Seq(Envelopes) /\ IdsOf(<<e>>) = {id}
  BY <1>2 DEF IdsOf
<1>4. /\ seen[n] \subseteq seen'[n] /\ seen'[n] \subseteq seen[n] \cup {id}
      /\ \A k \in Nodes : k # n => seen'[k] = seen[k]
  BY <1>1, <1>2 DEF TypeOK
<1>5. BatchInDispatch' /\ \A k, l \in Nodes : UnderWay(k, l) \subseteq UnderWay(k, l)'
  BY <1>1 DEF BatchInDispatch, UnderWay
<1> HIDE DEF n, e
<1> QED
  BY <1>1, <1>2, <1>3, <1>4, <1>5, EnqueueTracked

LEMMA StartRoundTracked ==
  ASSUME TypeOK, BatchInDispatch, NEW n \in Nodes, StartRound(n)
  PROVE  Tracked
<1>1. PICK recipients : round' = [round EXCEPT ![n].stage = "drain", ![n].recipients = recipients]
  BY DEF StartRound
<1>2. round \in [Nodes -> Rounds] /\ round[n].stage = "idle"
  BY DEF TypeOK, StartRound
<1>3. \A k \in Nodes : round'[k].batch = round[k].batch /\ (k # n => round'[k] = round[k])
  BY <1>1, <1>2 DEF Rounds
<1>4. UNCHANGED <<queue, backlog, links, seen, forwarded, missed>>
  BY DEF StartRound
<1>5. round[n].batch = <<>>
  BY <1>2 DEF BatchInDispatch
<1>6. BatchInDispatch'
  BY <1>3, <1>5 DEF BatchInDispatch
<1>7. \A k \in Nodes : Held(k) \subseteq Held(k)'
  BY <1>3, <1>4 DEF Held
<1> QED
  BY <1>4, <1>6, <1>7, QuietTracked

LEMMA DrainRoundTracked ==
  ASSUME TypeOK, BatchInDispatch, NEW n \in Nodes, DrainRound(n)
  PROVE  Tracked
<1>1. /\ round[n] \in Rounds /\ round \in [Nodes -> Rounds] /\ round[n].batch = <<>>
      /\ queue \in [Nodes -> Seq(Envelopes)] /\ queue[n] \in Seq(Envelopes)
      /\ FANOUT_BATCH_SIZE \in Nat
  BY MeshAssumption DEF TypeOK, BatchInDispatch, DrainRound
<1>2. PICK q \in Orders(queue[n]) :
        /\ round' = [round EXCEPT ![n].stage = "dispatch", ![n].batch = Drained(q, FANOUT_BATCH_SIZE)]
        /\ queue' = [queue EXCEPT ![n] = Retained(q, FANOUT_BATCH_SIZE)]
  BY DEF DrainRound
<1> DEFINE m == AtMost(FANOUT_BATCH_SIZE, Len(q))
<1>3. q \in Seq(Envelopes) /\ Len(q) \in Nat
  BY <1>1, OrderType, LenProperties
<1>4. m \in Nat /\ m <= Len(q)
  BY <1>1, <1>3 DEF AtMost
<1>5. Drained(q, FANOUT_BATCH_SIZE) = SubSeq(q, 1, m) /\ Retained(q, FANOUT_BATCH_SIZE) = SubSeq(q, m + 1, Len(q))
  BY DEF Drained, Retained
<1> HIDE DEF m
<1>6. IdsOf(queue[n]) \subseteq IdsOf(SubSeq(q, 1, m)) \cup IdsOf(SubSeq(q, m + 1, Len(q)))
  BY <1>1, <1>3, <1>4, OrderIds, SplitIds
<1>7. /\ round'[n].stage = "dispatch" /\ round'[n].batch = SubSeq(q, 1, m)
      /\ \A k \in Nodes : k # n => round'[k] = round[k] /\ queue'[k] = queue[k]
      /\ queue'[n] = SubSeq(q, m + 1, Len(q))
  BY <1>1, <1>2, <1>5 DEF Rounds
<1>8. UNCHANGED <<backlog, links, seen, forwarded, missed>>
  BY DEF DrainRound
<1>9. BatchInDispatch'
  BY <1>7 DEF BatchInDispatch
<1>10. \A k \in Nodes : Held(k)' = IdsOf(queue'[k]) \cup IdsOf(backlog'[k]) \cup IdsOf(round'[k].batch)
  BY DEF Held, IdsOf
<1>11. IdsOf(round[n].batch) = {}
  BY <1>1 DEF IdsOf
<1>12. ASSUME NEW k \in Nodes PROVE Held(k) \subseteq Held(k)'
  <2>1. CASE k = n
    BY <1>6, <1>7, <1>8, <1>10, <1>11, <2>1, HeldIds
  <2>2. CASE k # n
    BY <1>7, <1>8, <1>10, <2>2, HeldIds
  <2> QED
    BY <2>1, <2>2
<1> QED
  BY <1>8, <1>9, <1>12, QuietTracked

\* A dispatch takes the head of the batch; the node must then be done with it.
LEMMA DispatchTracked ==
  ASSUME TypeOK, BatchInDispatch, NEW n \in Nodes, round[n].batch # <<>>,
         NEW h, h = Head(round[n].batch).id,
         round'[n].stage = "dispatch", round'[n].batch = Tail(round[n].batch),
         \A k \in Nodes : k # n => round'[k] = round[k],
         queue' = queue, backlog' = backlog, seen' = seen,
         \A k, l \in Nodes : missed[<<k, l>>] \subseteq missed'[<<k, l>>],
         \A k, l \in Nodes : Elements(links[<<k, l>>]) \subseteq Elements(links'[<<k, l>>]),
         Forwards,
         forwarded[n][h] > 0 \/ Dealt(n, h)'
  PROVE  Tracked
<1> DEFINE s == round[n].batch
<1>1. s \in Seq(Envelopes) /\ s # <<>>
  BY DEF TypeOK, Rounds
<1>2. \A k \in Nodes : Held(k)' = IdsOf(queue'[k]) \cup IdsOf(backlog'[k]) \cup IdsOf(round'[k].batch)
  BY DEF Held, IdsOf
<1>3. IdsOf(s) \subseteq {h} \cup IdsOf(Tail(s))
  <2>1. Elements(s) \subseteq {Head(s)} \cup Elements(Tail(s))
    BY <1>1, HeadLeaves
  <2>2. IdsOf(s) = {e.id : e \in Elements(s)} /\ IdsOf(Tail(s)) = {e.id : e \in Elements(Tail(s))}
    BY DEF IdsOf, Elements
  <2> QED
    BY <2>1, <2>2
<1>4. \A k, l \in Nodes : UnderWay(k, l) \subseteq UnderWay(k, l)'
  BY DEF UnderWay
<1>5. Carries
  BY <1>4 DEF Carries, Reaches
<1>6. BatchInDispatch'
  BY DEF BatchInDispatch
<1>8. \A k \in Nodes : k # n => Held(k) \subseteq Held(k)'
  BY <1>2, HeldIds
<1>9. Held(n) \subseteq Held(n)' \cup {h}
  BY <1>2, <1>3, HeldIds
<1>10. Disposes
  BY <1>8, <1>9 DEF Disposes
<1> QED
  BY <1>5, <1>6, <1>10 DEF Tracked

LEMMA DispatchDuplicateTracked ==
  ASSUME TypeOK, BatchInDispatch, NEW n \in Nodes, DispatchDuplicate(n)
  PROVE  Tracked
<1>1. PICK h : h = Head(round[n].batch).id
  OBVIOUS
<1>2. /\ round[n].stage = "dispatch" /\ round[n].batch # <<>>
      /\ UNCHANGED <<queue, backlog, links, seen, forwarded>>
      /\ round' = [round EXCEPT ![n].batch = Tail(@), ![n].duplicates = Append(@, Origin[h])]
      /\ GiveUp(n, Neighbours[n], IF forwarded[n][h] = 0 THEN {h} ELSE {})
  BY <1>1 DEF DispatchDuplicate
<1>3. round \in [Nodes -> Rounds] /\ h \in Ids /\ forwarded[n][h] \in 0..2
  BY <1>1, <1>2, BatchHead DEF TypeOK
<1>4. /\ round'[n].stage = "dispatch" /\ round'[n].batch = Tail(round[n].batch)
      /\ \A k \in Nodes : k # n => round'[k] = round[k]
  BY <1>2, <1>3 DEF Rounds
<1>5. /\ \A k, l \in Nodes : <<k, l>> \in Pairs
      /\ \A p \in Neighbours[n] : p \in Nodes
  BY MeshAssumption DEF Pairs
<1>6. \A k, l \in Nodes : missed[<<k, l>>] \subseteq missed'[<<k, l>>]
  BY <1>2, <1>5 DEF GiveUp
<1>7. forwarded[n][h] > 0 \/ Dealt(n, h)'
  <2>1. CASE forwarded[n][h] = 0
    <3>1. GiveUp(n, Neighbours[n], {h})
      BY <1>2, <2>1
    <3>2. \A p \in Neighbours[n] : h \in missed'[<<n, p>>]
      BY <1>5, <3>1 DEF GiveUp
    <3> QED
      BY <3>2 DEF Dealt, Reaches
  <2> QED
    BY <1>3, <2>1
<1>8. Forwards
  BY <1>2 DEF Forwards
<1> QED
  BY <1>1, <1>2, <1>4, <1>6, <1>7, <1>8, DispatchTracked

LEMMA DispatchExpiredTracked ==
  ASSUME TypeOK, BatchInDispatch, NEW n \in Nodes, DispatchExpired(n)
  PROVE  Tracked
<1>1. PICK h : h = Head(round[n].batch).id
  OBVIOUS
<1>2. /\ round[n].stage = "dispatch" /\ round[n].batch # <<>>
      /\ UNCHANGED <<queue, backlog, links, seen, forwarded>>
      /\ round' = [round EXCEPT ![n].batch = Tail(@)]
      /\ GiveUp(n, Neighbours[n], {h})
  BY <1>1 DEF DispatchExpired
<1>3. round \in [Nodes -> Rounds]
  BY DEF TypeOK
<1>4. /\ round'[n].stage = "dispatch" /\ round'[n].batch = Tail(round[n].batch)
      /\ \A k \in Nodes : k # n => round'[k] = round[k]
  BY <1>2, <1>3 DEF Rounds
<1>5. /\ \A k, l \in Nodes : <<k, l>> \in Pairs
      /\ \A p \in Neighbours[n] : p \in Nodes
  BY MeshAssumption DEF Pairs
<1>6. /\ \A k, l \in Nodes : missed[<<k, l>>] \subseteq missed'[<<k, l>>]
      /\ \A p \in Neighbours[n] : h \in missed'[<<n, p>>]
  BY <1>2, <1>5 DEF GiveUp
<1>7. Dealt(n, h)'
  BY <1>6 DEF Dealt, Reaches
<1>8. Forwards
  BY <1>2 DEF Forwards
<1> QED
  BY <1>1, <1>2, <1>4, <1>6, <1>7, <1>8, DispatchTracked

LEMMA DispatchSendTracked ==
  ASSUME TypeOK, BatchInDispatch, NEW n \in Nodes, DispatchSend(n)
  PROVE  Tracked
<1> DEFINE e == Head(round[n].batch)
           out == Outbound(e)
<1>1. PICK h : h = e.id
  OBVIOUS
<1>2. /\ round[n].stage = "dispatch" /\ round[n].batch # <<>> /\ e.ttl > 0
      /\ UNCHANGED <<queue, backlog, seen>>
      /\ round' = [round EXCEPT ![n].batch = Tail(@)]
      /\ forwarded' = [forwarded EXCEPT ![n][h] = AtMost(@ + 1, 2)]
  BY <1>1 DEF DispatchSend
<1>3. PICK reached \in Reached(n) :
        /\ links' = [c \in Pairs |-> IF c[1] = n /\ c[2] \in reached THEN Append(links[c], out) ELSE links[c]]
        /\ GiveUp(n, Neighbours[n] \ reached, {h})
  BY <1>1 DEF DispatchSend
<1>4. /\ round \in [Nodes -> Rounds] /\ links \in [Pairs -> Seq(Messages)]
      /\ forwarded \in [Nodes -> [Ids -> 0..2]]
  BY DEF TypeOK
<1>5. e \in Envelopes /\ h \in Ids
  BY <1>1, <1>2, BatchHead
<1>6. out \in Messages /\ out.type = "Transaction" /\ out.env.id = h
  BY <1>1, <1>2, <1>5, OutboundType
<1> HIDE DEF e, out
<1>7. /\ round'[n].stage = "dispatch" /\ round'[n].batch = Tail(round[n].batch)
      /\ \A k \in Nodes : k # n => round'[k] = round[k]
  BY <1>2, <1>4 DEF Rounds
<1>8. /\ \A k, l \in Nodes : <<k, l>> \in Pairs
      /\ \A p \in Neighbours[n] : p \in Nodes
  BY MeshAssumption DEF Pairs
<1>9. /\ \A k, l \in Nodes : missed[<<k, l>>] \subseteq missed'[<<k, l>>]
      /\ \A p \in Neighbours[n] : p \notin reached => h \in missed'[<<n, p>>]
  BY <1>3, <1>8 DEF GiveUp
<1>10. ASSUME NEW k \in Nodes, NEW l \in Nodes
       PROVE  /\ Elements(links[<<k, l>>]) \subseteq Elements(links'[<<k, l>>])
              /\ k = n /\ l \in reached => out \in Elements(links'[<<k, l>>])
  <2> DEFINE s == links[<<k, l>>]
  <2>1. s \in Seq(Messages)
    BY <1>4, <1>8
  <2>2. Elements(s) \cup {out} \subseteq Elements(Append(s, out))
    BY <1>6, <2>1, AppendHolds
  <2>3. links'[<<k, l>>] = IF k = n /\ l \in reached THEN Append(s, out) ELSE s
    BY <1>3, <1>8
  <2> QED
    BY <2>2, <2>3
<1>11. ASSUME NEW p \in Neighbours[n] PROVE h \in Reaches(n, p)'
  <2>1. CASE p \in reached
    <3>1. out \in Elements(links'[<<n, p>>])
      BY <1>8, <1>10, <2>1
    <3>2. h \in UnderWay(n, p)'
      BY <1>6, <3>1 DEF UnderWay
    <3> QED
      BY <3>2 DEF Reaches
  <2>2. CASE p \notin reached
    BY <1>9, <2>2 DEF Reaches
  <2> QED
    BY <2>1, <2>2
<1>12. Dealt(n, h)'
  BY <1>11 DEF Dealt
<1>13. \A k \in Nodes, id \in Ids : forwarded'[k][id] # forwarded[k][id] => k = n /\ id = h
  BY <1>2, <1>4, <1>5
<1>14. h = Head(round[n].batch).id
  BY <1>1 DEF e
<1>15. /\ \A k, l \in Nodes : Elements(links[<<k, l>>]) \subseteq Elements(links'[<<k, l>>])
       /\ \A k, l \in Nodes : missed[<<k, l>>] \subseteq missed'[<<k, l>>]
       /\ queue' = queue /\ backlog' = backlog /\ seen' = seen /\ round[n].batch # <<>>
  BY <1>2, <1>9, <1>10
<1>16. Forwards
  BY <1>12, <1>13 DEF Forwards
<1> QED
  BY <1>7, <1>12, <1>14, <1>15, <1>16, DispatchTracked

\* Steps that end a round or a synchronization.
LEMMA IdleTracked ==
  ASSUME TypeOK, BatchInDispatch, NEW n \in Nodes, round[n].batch = <<>>,
         round' = [round EXCEPT ![n] = IdleRound], queue' = queue, backlog' = backlog, links' = links,
         seen' = seen, forwarded' = forwarded, missed' = missed
  PROVE  Tracked
<1>1. round \in [Nodes -> Rounds] /\ IdleRound.batch = <<>>
  BY DEF TypeOK, IdleRound
<1>2. round'[n].batch = <<>> /\ \A k \in Nodes : k # n => round'[k] = round[k]
  BY <1>1
<1>3. BatchInDispatch'
  BY <1>2 DEF BatchInDispatch
<1>4. \A k \in Nodes : round'[k].batch = round[k].batch
  BY <1>2
<1>5. \A k \in Nodes : Held(k) \subseteq Held(k)'
  BY <1>4 DEF Held
<1> QED
  BY <1>3, <1>5, QuietTracked

LEMMA FinishRoundTracked ==
  ASSUME TypeOK, BatchInDispatch, NEW n \in Nodes, FinishRound(n)
  PROVE  Tracked
BY IdleTracked DEF FinishRound

LEMMA BanCheckTracked ==
  ASSUME TypeOK, BatchInDispatch, NEW n \in Nodes, BanCheck(n)
  PROVE  Tracked
<1>1. UNCHANGED <<queue, backlog, round, links, seen, forwarded, missed>>
  BY DEF BanCheck
<1>2. BatchInDispatch' /\ \A k \in Nodes : Held(k) \subseteq Held(k)'
  BY <1>1 DEF BatchInDispatch, Held
<1> QED
  BY <1>1, <1>2, QuietTracked

LEMMA AntiEntropyTickTracked ==
  ASSUME TypeOK, BatchInDispatch, NEW n \in Nodes, AntiEntropyTick(n)
  PROVE  Tracked
<1> DEFINE req == SyncRequestOf(queue[n])
<1>1. PICK p \in ActivePeers(n) :
        /\ links' = Sent(links, n, p, req)
        /\ round' = [round EXCEPT ![n].stage = "sync", ![n].recipients = {p}]
  BY DEF AntiEntropyTick
<1>2. UNCHANGED <<queue, backlog, seen, forwarded, missed>> /\ round[n].stage = "idle"
  BY DEF AntiEntropyTick
<1>3. /\ round \in [Nodes -> Rounds] /\ links \in [Pairs -> Seq(Messages)]
      /\ queue[n] \in Seq(Envelopes)
  BY DEF TypeOK
<1>4. req \in Messages
  BY <1>3, SyncRequestType
<1> HIDE DEF req
<1>5. \A k \in Nodes : round'[k].batch = round[k].batch /\ (k # n => round'[k] = round[k])
  BY <1>1, <1>3 DEF Rounds
<1>6. BatchInDispatch'
  BY <1>2, <1>5 DEF BatchInDispatch
<1>7. \A k \in Nodes : Held(k) \subseteq Held(k)'
  BY <1>2, <1>5 DEF Held
<1>8. ASSUME NEW k \in Nodes, NEW l \in Nodes
      PROVE  Elements(links[<<k, l>>]) \subseteq Elements(links'[<<k, l>>])
  <2> DEFINE s == links[<<k, l>>]
  <2>1. <<k, l>> \in Pairs /\ s \in Seq(Messages)
    BY <1>3 DEF Pairs
  <2>2. Elements(s) \subseteq Elements(Append(s, req))
    BY <1>4, <2>1, AppendHolds
  <2>3. links'[<<k, l>>] = s \/ links'[<<k, l>>] = Append(s, req)
    BY <1>1, <1>3, <2>1 DEF Sent
  <2> QED
    BY <2>2, <2>3
<1> QED
  BY <1>2, <1>6, <1>7, <1>8, QuietTracked

\* A merged response: it enters the queue, or replaces the backlog.
LEMMA MergeTracked ==
  ASSUME TypeOK, BatchInDispatch', NEW n \in Nodes, NEW envs \in Seq(Envelopes), HandleSyncResponse(n, envs),
         forwarded' = forwarded,
         \A k \in Nodes : IdsOf(round[k].batch) \subseteq IdsOf(round'[k].batch),
         \A k, l \in Nodes : UnderWay(k, l) \subseteq UnderWay(k, l)'
  PROVE  Tracked
<1>1. seen \in [Nodes -> SUBSET Ids] /\ seen' = [seen EXCEPT ![n] = @ \cup IdsOf(envs)]
  BY DEF TypeOK, HandleSyncResponse, IdsOf
<1>2. /\ seen'[n] = seen[n] \cup IdsOf(envs) /\ seen[n] \subseteq seen'[n]
      /\ \A k \in Nodes : k # n => seen'[k] = seen[k]
  BY <1>1
<1>3. CASE Enqueue(n, envs) /\ backlog' = backlog
  BY <1>2, <1>3, EnqueueTracked
<1>4. CASE /\ \E order \in Orders(envs) : backlog' = [backlog EXCEPT ![n] = order]
           /\ GiveUp(n, Neighbours[n], {backlog[n][i].id : i \in DOMAIN backlog[n]})
           /\ queue' = queue
  <2>1. PICK order \in Orders(envs) : backlog' = [backlog EXCEPT ![n] = order]
    BY <1>4
  <2>2. IdsOf(envs) \subseteq IdsOf(order)
    BY OrderIds
  <2>3. backlog'[n] = order /\ \A k \in Nodes : k # n => backlog'[k] = backlog[k]
    BY <2>1 DEF TypeOK
  <2>4. /\ \A k, l \in Nodes : <<k, l>> \in Pairs
        /\ \A p \in Neighbours[n] : p \in Nodes
    BY MeshAssumption DEF Pairs
  <2>5. GiveUp(n, Neighbours[n], IdsOf(backlog[n]))
    BY <1>4 DEF IdsOf
  <2>6. /\ \A k, l \in Nodes : missed[<<k, l>>] \subseteq missed'[<<k, l>>]
        /\ \A p \in Neighbours[n] : IdsOf(backlog[n]) \subseteq missed'[<<n, p>>]
    BY <2>4, <2>5 DEF GiveUp
  <2>7. Carries
    BY <1>2, <2>6 DEF Carries, Reaches
  <2>8. \A k \in Nodes : Held(k)' = IdsOf(queue'[k]) \cup IdsOf(backlog'[k]) \cup IdsOf(round'[k].batch)
    BY DEF Held, IdsOf
  <2>9. \A k \in Nodes : k # n => Held(k) \subseteq Held(k)'
    BY <1>4, <2>3, <2>8, HeldIds
  <2>10. \A id \in IdsOf(backlog[n]) : Dealt(n, id)'
    BY <2>6 DEF Dealt, Reaches
  <2>11. Held(n) \cup (seen'[n] \ seen[n]) \subseteq Held(n)' \cup IdsOf(backlog[n])
    BY <1>2, <1>4, <2>2, <2>3, <2>8, HeldIds
  <2>12. Disposes
    BY <1>2, <2>9, <2>10, <2>11 DEF Disposes
  <2>13. Forwards
    BY DEF Forwards
  <2> QED
    BY <2>7, <2>12, <2>13 DEF Tracked
<1> QED
  BY <1>3, <1>4 DEF HandleSyncResponse

LEMMA RecoverBatchTracked ==
  ASSUME TypeOK, BatchInDispatch, NEW n \in Nodes, RecoverBatch(n)
  PROVE  Tracked
<1> DEFINE s == backlog[n]
           moved == AtMost(MACRO_MERGE_BATCH_SIZE, Len(s))
           part == SubSeq(s, 1, moved)
           rest == SubSeq(s, moved + 1, Len(s))
<1>1. /\ Enqueue(n, part) /\ backlog' = [backlog EXCEPT ![n] = rest]
      /\ UNCHANGED <<round, links, seen, forwarded>>
  BY DEF RecoverBatch
<1>2. backlog \in [Nodes -> Seq(Envelopes)] /\ s \in Seq(Envelopes) /\ Len(s) \in Nat
  BY LenProperties DEF TypeOK
<1>3. moved \in Nat /\ moved <= Len(s)
  BY <1>2, MeshAssumption DEF AtMost
<1> HIDE DEF moved
<1>4. part \in Seq(Envelopes) /\ IdsOf(s) \subseteq IdsOf(part) \cup IdsOf(rest)
  BY <1>2, <1>3, PartType, SplitIds
<1>5. backlog'[n] = rest /\ \A k \in Nodes : k # n => backlog'[k] = backlog[k]
  BY <1>1, <1>2
<1> HIDE DEF part, rest
<1>6. BatchInDispatch' /\ \A k, l \in Nodes : UnderWay(k, l) \subseteq UnderWay(k, l)'
  BY <1>1 DEF BatchInDispatch, UnderWay
<1>7. /\ \A k \in Nodes : IdsOf(round[k].batch) \subseteq IdsOf(round'[k].batch)
      /\ \A k \in Nodes : k # n => backlog'[k] = backlog[k] /\ seen'[k] = seen[k]
      /\ IdsOf(backlog[n]) \subseteq IdsOf(backlog'[n]) \cup IdsOf(part)
      /\ seen[n] \subseteq seen'[n] /\ seen'[n] \subseteq seen[n] \cup IdsOf(part)
      /\ forwarded' = forwarded
  BY <1>1, <1>4, <1>5
<1> QED
  BY <1>1, <1>4, <1>6, <1>7, EnqueueTracked

\* A receipt takes the head of one connection.
LEMMA ReceiptTracks ==
  ASSUME TypeOK, NEW p \in Nodes, NEW n \in Nodes, links[<<p, n>>] # <<>>,
         NEW k \in Nodes, NEW l \in Nodes,
         Elements([links EXCEPT ![<<p, n>>] = Tail(@)][<<k, l>>]) \subseteq Elements(links'[<<k, l>>])
  PROVE  LET m == Head(links[<<p, n>>])
         IN  UnderWay(k, l) \subseteq UnderWay(k, l)' \cup
               (IF k = p /\ l = n /\ m.type = "Transaction" THEN {m.env.id} ELSE {})
<1> DEFINE s == links[<<p, n>>]
           m == Head(s)
           rest == [links EXCEPT ![<<p, n>>] = Tail(@)]
           X == IF k = p /\ l = n THEN {m} ELSE {}
<1>1. <<p, n>> \in Pairs /\ <<k, l>> \in Pairs /\ links \in [Pairs -> Seq(Messages)] /\ s \in Seq(Messages)
  BY DEF Pairs, TypeOK
<1>2. Elements(s) \subseteq {m} \cup Elements(Tail(s))
  BY <1>1, HeadLeaves
<1>3. rest[<<k, l>>] = IF k = p /\ l = n THEN Tail(s) ELSE links[<<k, l>>]
  BY <1>1
<1>4. Elements(links[<<k, l>>]) \subseteq Elements(links'[<<k, l>>]) \cup X
  BY <1>2, <1>3
<1> HIDE DEF m, X
<1>5. UnderWay(k, l) \subseteq UnderWay(k, l)' \cup {x.env.id : x \in {y \in X : y.type = "Transaction"}}
  BY <1>4, UnderWayKept
<1> QED
  BY <1>5 DEF X, m

LEMMA AntiEntropyPollTracked ==
  ASSUME TypeOK, BatchInDispatch, NEW n \in Nodes, AntiEntropyPoll(n)
  PROVE  Tracked
<1>1. /\ round' = [round EXCEPT ![n] = IdleRound] /\ forwarded' = forwarded
      /\ round[n].batch = <<>>
  BY DEF AntiEntropyPoll, BatchInDispatch
<1>2. round \in [Nodes -> Rounds] /\ IdleRound.batch = <<>>
  BY DEF TypeOK, IdleRound
<1>3. \A k \in Nodes : round'[k].batch = round[k].batch /\ (k # n => round'[k] = round[k])
  BY <1>1, <1>2
<1>4. BatchInDispatch'
  BY <1>1, <1>3 DEF BatchInDispatch
<1>5. \A k \in Nodes : IdsOf(round[k].batch) \subseteq IdsOf(round'[k].batch)
  BY <1>3
<1>6. CASE UNCHANGED <<queue, backlog, links, seen, missed>>
  BY <1>1, <1>6, IdleTracked
<1>7. ASSUME NEW q \in Nodes, links[<<q, n>>] # <<>>, links' = [links EXCEPT ![<<q, n>>] = Tail(@)]
      PROVE  \A k, l \in Nodes : UnderWay(k, l) \subseteq UnderWay(k, l)' \cup
               (IF k = q /\ l = n /\ Head(links[<<q, n>>]).type = "Transaction"
                THEN {Head(links[<<q, n>>]).env.id} ELSE {})
  <2>1. \A k, l \in Nodes :
          Elements([links EXCEPT ![<<q, n>>] = Tail(@)][<<k, l>>]) \subseteq Elements(links'[<<k, l>>])
    BY <1>7
  <2> QED
    BY <1>7, <2>1, ReceiptTracks
<1>8. ASSUME NEW q \in Nodes, links[<<q, n>>] # <<>>, links' = [links EXCEPT ![<<q, n>>] = Tail(@)],
             GiveUp(q, {n}, IF Head(links[<<q, n>>]).type = "Transaction" THEN {Head(links[<<q, n>>]).env.id} ELSE {}),
             UNCHANGED <<queue, backlog, seen>>
      PROVE  Tracked
  <2> DEFINE gone == IF Head(links[<<q, n>>]).type = "Transaction" THEN {Head(links[<<q, n>>]).env.id} ELSE {}
  <2>1. \A k, l \in Nodes : UnderWay(k, l) \subseteq UnderWay(k, l)' \cup (IF k = q /\ l = n THEN gone ELSE {})
    BY <1>7, <1>8
  <2>2. GiveUp(q, {n}, gone)
    BY <1>8
  <2> HIDE DEF gone
  <2>3. \A k, l \in Nodes : <<k, l>> \in Pairs
    BY DEF Pairs
  <2>4. /\ \A k, l \in Nodes : missed[<<k, l>>] \subseteq missed'[<<k, l>>]
        /\ gone \subseteq missed'[<<q, n>>]
    BY <2>2, <2>3 DEF GiveUp
  <2>5. Carries
    BY <1>8, <2>1, <2>4 DEF Carries, Reaches
  <2>6. \A k \in Nodes : Held(k) \subseteq Held(k)'
    BY <1>3, <1>8 DEF Held
  <2>7. Disposes
    BY <1>8, <2>6 DEF Disposes
  <2>8. Forwards
    BY <1>1 DEF Forwards
  <2> QED
    BY <1>4, <2>5, <2>7, <2>8 DEF Tracked
<1>9. ASSUME NEW q \in Nodes, links[<<q, n>>] # <<>>, links' = [links EXCEPT ![<<q, n>>] = Tail(@)],
             Head(links[<<q, n>>]).type = "SyncResponse",
             HandleSyncResponse(n, Head(links[<<q, n>>]).envs)
      PROVE  Tracked
  <2>1. Head(links[<<q, n>>]).envs \in Seq(Envelopes)
    BY <1>9, LinkHead, CarriedBy
  <2>2. \A k, l \in Nodes : UnderWay(k, l) \subseteq UnderWay(k, l)'
    BY <1>7, <1>9
  <2> QED
    BY <1>1, <1>4, <1>5, <1>9, <2>1, <2>2, MergeTracked
<1> QED
  BY <1>6, <1>8, <1>9 DEF AntiEntropyPoll

LEMMA HostReceiveTracked ==
  ASSUME TypeOK, BatchInDispatch, NEW n \in Nodes, NEW p \in Nodes \ {n}, HostReceive(n, p)
  PROVE  Tracked
<1> DEFINE m == Head(links[<<p, n>>])
           rest == [links EXCEPT ![<<p, n>>] = Tail(@)]
<1>1. /\ links[<<p, n>>] # <<>>
      /\ round' = round /\ forwarded' = forwarded
  BY DEF HostReceive
<1>2. m \in Messages /\ rest \in [Pairs -> Seq(Messages)]
  BY <1>1, LinkHead
<1>3. BatchInDispatch' /\ \A k \in Nodes : IdsOf(round[k].batch) \subseteq IdsOf(round'[k].batch)
  BY <1>1 DEF BatchInDispatch
<1>4. /\ \A k, l \in Nodes : <<k, l>> \in Pairs
      /\ seen \in [Nodes -> SUBSET Ids] /\ queue[n] \in Seq(Envelopes)
  BY DEF Pairs, TypeOK
<1>5. ASSUME \A k, l \in Nodes : Elements(rest[<<k, l>>]) \subseteq Elements(links'[<<k, l>>])
      PROVE  \A k, l \in Nodes : UnderWay(k, l) \subseteq UnderWay(k, l)' \cup
               (IF k = p /\ l = n /\ m.type = "Transaction" THEN {m.env.id} ELSE {})
  BY <1>1, <1>5, ReceiptTracks
<1> HIDE DEF m
<1>6. CASE /\ m.type = "Transaction" /\ links' = rest
           /\ Enqueue(n, <<m.env>>)
           /\ seen' = [seen EXCEPT ![n] = @ \cup {m.env.id}]
           /\ UNCHANGED backlog
  <2> DEFINE e == m.env
             id == e.id
  <2>1. e \in Envelopes
    BY <1>2, <1>6, CarriedBy
  <2>2. Enqueue(n, <<e>>) /\ seen' = [seen EXCEPT ![n] = @ \cup {id}]
    BY <1>6
  <2>3. \A k, l \in Nodes : UnderWay(k, l) \subseteq UnderWay(k, l)' \cup (IF k = p /\ l = n THEN {id} ELSE {})
    BY <1>5, <1>6
  <2> HIDE DEF e
  <2>4. <<e>> \in Seq(Envelopes) /\ IdsOf(<<e>>) = {id}
    BY <2>1 DEF IdsOf
  <2> HIDE DEF id
  <2>5. /\ seen'[n] = seen[n] \cup {id}
        /\ \A k \in Nodes : k # n => seen'[k] = seen[k]
    BY <1>4, <2>2
  <2>6. /\ \A k \in Nodes : k # n => backlog'[k] = backlog[k] /\ seen'[k] = seen[k]
        /\ IdsOf(backlog[n]) \subseteq IdsOf(backlog'[n]) \cup IdsOf(<<e>>)
        /\ seen[n] \subseteq seen'[n] /\ seen'[n] \subseteq seen[n] \cup IdsOf(<<e>>)
    BY <1>6, <2>4, <2>5
  <2>7. \A k, l \in Nodes : UnderWay(k, l) \subseteq UnderWay(k, l)' \cup seen'[l]
    BY <2>3, <2>5
  <2> QED
    BY <1>1, <1>3, <2>2, <2>4, <2>6, <2>7, EnqueueTracked
<1>7. CASE m.type = "SyncResponse" /\ HandleSyncResponse(n, m.envs) /\ links' = rest
  <2>1. m.envs \in Seq(Envelopes)
    BY <1>2, <1>7, CarriedBy
  <2>2. \A k, l \in Nodes : UnderWay(k, l) \subseteq UnderWay(k, l)'
    BY <1>5, <1>7
  <2> QED
    BY <1>1, <1>3, <1>7, <2>1, <2>2, MergeTracked
<1>8. CASE /\ m.type = "SyncRequest"
           /\ links' = IF HasRoom(n, p) THEN Sent(rest, n, p, SyncResponseFor(queue[n], m)) ELSE rest
           /\ UNCHANGED <<queue, backlog, seen, missed>>
  <2> DEFINE resp == SyncResponseFor(queue[n], m)
  <2>1. resp \in Messages
    BY <1>4, SyncResponseType
  <2> HIDE DEF resp, rest
  <2>2. ASSUME NEW k \in Nodes, NEW l \in Nodes PROVE Elements(rest[<<k, l>>]) \subseteq Elements(links'[<<k, l>>])
    <3> DEFINE s == rest[<<k, l>>]
    <3>1. s \in Seq(Messages)
      BY <1>2, <1>4
    <3>2. Elements(s) \subseteq Elements(Append(s, resp))
      BY <2>1, <3>1, AppendHolds
    <3>3. links'[<<k, l>>] = s \/ links'[<<k, l>>] = Append(s, resp)
      BY <1>2, <1>4, <1>8 DEF Sent, resp
    <3> QED
      BY <3>2, <3>3
  <2>3. \A k, l \in Nodes : UnderWay(k, l) \subseteq UnderWay(k, l)'
    BY <1>5, <1>8, <2>2
  <2>4. Carries
    BY <1>8, <2>3 DEF Carries, Reaches
  <2>5. \A k \in Nodes : Held(k) \subseteq Held(k)'
    BY <1>1, <1>8 DEF Held
  <2>6. Disposes
    BY <1>8, <2>5 DEF Disposes
  <2>7. Forwards
    BY <1>1 DEF Forwards
  <2> QED
    BY <1>3, <2>4, <2>6, <2>7 DEF Tracked
<1> QED
  BY <1>6, <1>7, <1>8 DEF HostReceive, m

LEMMA EveryStepTracked ==
  ASSUME TypeOK, BatchInDispatch, [Next]_vars
  PROVE  Tracked
<1>1. CASE UNCHANGED vars
  BY <1>1, StutterTracked
<1>2. CASE \E id \in Ids : Submit(id)
  BY <1>2, SubmitTracked
<1>3. ASSUME NEW n \in Nodes,
             \/ StartRound(n) \/ RoundStep(n) \/ BanCheck(n) \/ AntiEntropyTick(n)
             \/ AntiEntropyPoll(n) \/ RecoverBatch(n) \/ \E p \in Nodes \ {n} : HostReceive(n, p)
      PROVE  Tracked
  BY <1>3, StartRoundTracked, DrainRoundTracked, DispatchDuplicateTracked, DispatchExpiredTracked,
     DispatchSendTracked, FinishRoundTracked, BanCheckTracked, AntiEntropyTickTracked, AntiEntropyPollTracked,
     RecoverBatchTracked, HostReceiveTracked DEF RoundStep
<1> QED
  BY <1>1, <1>2, <1>3 DEF Next

\* On every topology, with every capacity, filter error and failing send: an id
\* that reached a node's GossipState stays with the node until it has reached,
\* or is on its way to, each of its peers, or was given up for that peer at one
\* of the places that GiveUp marks.
THEOREM LossesAreKnown == Spec => []LossesKnown
<1>1. Init => TypeOK /\ BatchInDispatch /\ LossesKnown /\ ForwardedDealt
  <2> SUFFICES ASSUME Init PROVE TypeOK /\ BatchInDispatch /\ LossesKnown /\ ForwardedDealt
    OBVIOUS
  <2>1. BatchInDispatch
    BY DEF Init, BatchInDispatch, IdleRound
  <2>2. LossesKnown
    BY DEF Init, LossesKnown
  <2>3. \A n \in Nodes, id \in Ids : ~(forwarded[n][id] > 0)
    BY DEF Init
  <2> QED
    BY <2>1, <2>2, <2>3, InitTypeOK DEF ForwardedDealt
<1>2. TypeOK /\ BatchInDispatch /\ LossesKnown /\ ForwardedDealt /\ [Next]_vars
        => (TypeOK /\ BatchInDispatch /\ LossesKnown /\ ForwardedDealt)'
  <2>1. TypeOK /\ BatchInDispatch /\ [Next]_vars => TypeOK' /\ Tracked
    BY EveryStep, EveryStepTracked
  <2>2. Tracked => BatchInDispatch'
    BY DEF Tracked
  <2> QED
    BY <2>1, <2>2, TrackedLosses
<1> QED
  BY <1>1, <1>2, PTL DEF Spec
=============================================================================
