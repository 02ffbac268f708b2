----------------------- MODULE TopologyRoutingProofs -----------------------
(***************************************************************************)
(* Which routes a node keeps and what it announces, for every mesh, every  *)
(* capacity of the table and of the event bus and every bound on           *)
(* distances.                                                              *)
(*                                                                         *)
(* That a route which is to go has its event still ahead is not inductive: *)
(* reading an event drops the routes to and through its peer, which are    *)
(* those that owed it only because an owed event always condemns the one   *)
(* route cached for its destination (Condemned, with the uniqueness of     *)
(* destinations in TypeOK).                                                *)
(*                                                                         *)
(* That the nearest relays are selected holds of every graph and all       *)
(* distances that TypeOK allows.  The search of rank_next_hops and Within  *)
(* are recursive functions; what they compute is shown by induction over   *)
(* the set of the numbers for which it holds (Induct, from the existence   *)
(* of a least number, which Ranks gives).                                  *)
(***************************************************************************)
EXTENDS TopologyRouting, FiniteSetTheorems, SequenceTheorems, TLAPS

\* What is owed to a cached route condemns it.
Condemned == \A r \in ToSet(table) : \A e \in owed[r.dest] : Uses(r, e.peers)

\* A table holds one route for a destination.
TableOK(t) ==
  /\ t \in Seq(Routes) /\ Len(t) <= TableCapacity
  /\ \A i, j \in 1..Len(t) : t[i].dest = t[j].dest => i = j

\* NoStaleRoutes, of the set of cached routes.
Ahead == \A r \in ToSet(table) : owed[r.dest] \subseteq ToSet(bus)

Inv ==
  /\ TypeOK
  /\ IsFiniteSet(DOMAIN edges)
  /\ Ahead /\ Condemned
  /\ ReachabilityAnnounced
-----------------------------------------------------------------------------
(* Positions by rank.                                                      *)

\* In a finite set where B[i] are the elements before i, every rank below the
\* size of the set is that of exactly one element.
LEMMA Ranks ==
  ASSUME NEW S, IsFiniteSet(S), NEW B \in [S -> SUBSET S],
         \A i \in S : i \notin B[i],
         \A i, j \in S : i # j => \/ i \in B[j] /\ B[i] \subseteq B[j]
                                  \/ j \in B[i] /\ B[j] \subseteq B[i]
  PROVE  /\ Cardinality(S) \in Nat
         /\ \A k \in 0..(Cardinality(S) - 1) : \E i \in S : Cardinality(B[i]) = k
<1> DEFINE n == Cardinality(S)
           T == 0..(n - 1)
           f == [i \in S |-> Cardinality(B[i])]
<1>1. n \in Nat /\ \A i \in S : IsFiniteSet(B[i]) /\ Cardinality(B[i]) \in Nat
  BY FS_CardinalityType, FS_Subset
<1>2. ASSUME NEW i \in S PROVE Cardinality(B[i]) < n
  <2>1. B[i] # S /\ B[i] \in SUBSET S
    OBVIOUS
  <2>2. Cardinality(B[i]) <= n /\ Cardinality(B[i]) # n
    BY <2>1, FS_Subset
  <2> QED
    BY <1>1, <2>2
<1>3. ASSUME NEW i \in S, NEW j \in S, i \in B[j], B[i] \subseteq B[j]
      PROVE  Cardinality(B[i]) # Cardinality(B[j])
  <2>1. B[i] # B[j] /\ IsFiniteSet(B[j]) /\ B[i] \in SUBSET B[j]
    BY <1>1, <1>3
  <2> QED
    BY <2>1, FS_Subset
<1>4. \A i, j \in S : f[i] = f[j] => i = j
  BY <1>3
<1>5. f \in [S -> T]
  BY <1>1, <1>2
<1>6. f \in Injection(S, T)
  BY <1>4, <1>5 DEF Injection, IsInjective
<1>7. IsFiniteSet(T) /\ Cardinality(T) = n
  <2>1. IsFiniteSet(T) /\ Cardinality(T) = IF 0 > n - 1 THEN 0 ELSE (n - 1) - 0 + 1
    BY <1>1, FS_Interval
  <2> QED
    BY <1>1, <2>1
<1>8. f \in Surjection(S, T)
  BY <1>6, <1>7, FS_Injection
<1> QED
  BY <1>1, <1>8 DEF Surjection

\* Keep takes different entries from the given positions.
LEMMA KeepProperties ==
  ASSUME NEW S, NEW t \in Seq(S), NEW kept \in SUBSET (1..Len(t))
  PROVE  /\ Keep(t, kept) \in Seq(S)
         /\ Cardinality(kept) \in Nat /\ Len(Keep(t, kept)) = Cardinality(kept)
         /\ \E at \in [1..Cardinality(kept) -> kept] :
              /\ \A k \in 1..Cardinality(kept) : Keep(t, kept)[k] = t[at[k]]
              /\ \A k, l \in 1..Cardinality(kept) : at[k] = at[l] => k = l
<1> DEFINE n == Cardinality(kept)
           B == [i \in kept |-> {j \in kept : j < i}]
           at == [k \in 1..n |-> CHOOSE i \in kept : Cardinality({j \in kept : j < i}) = k - 1]
           s == [k \in 1..n |-> t[at[k]]]
<1>1. Len(t) \in Nat /\ \A i \in 1..Len(t) : t[i] \in S
  BY LenProperties, ElementOfSeq
<1>2. IsFiniteSet(1..Len(t)) /\ IsFiniteSet(kept)
  <2>1. IsFiniteSet(1..Len(t))
    BY <1>1, FS_Interval
  <2> QED
    BY <2>1, FS_Subset
<1>3. n \in Nat /\ \A k \in 0..(n - 1) : \E i \in kept : Cardinality(B[i]) = k
  <2>1. B \in [kept -> SUBSET kept]
    OBVIOUS
  <2>2. \A i \in kept : i \notin B[i]
    BY <1>1
  <2>3. \A i, j \in kept : i # j => \/ i \in B[j] /\ B[i] \subseteq B[j]
                                    \/ j \in B[i] /\ B[j] \subseteq B[i]
    <3>1. ASSUME NEW i \in kept, NEW j \in kept, i < j PROVE i \in B[j] /\ B[i] \subseteq B[j]
      <4>1. \A x \in kept : x \in Nat
        BY <1>1
      <4>2. \A x \in kept : x < i => x < j
        BY <3>1, <4>1
      <4> QED
        BY <3>1, <4>2
    <3>2. \A i, j \in kept : i # j => i < j \/ j < i
      BY <1>1
    <3> HIDE DEF B
    <3> QED
      BY <3>1, <3>2
  <2> HIDE DEF B
  <2> QED
    BY <1>2, <2>1, <2>2, <2>3, Ranks
<1>4. ASSUME NEW k \in 1..n PROVE at[k] \in kept /\ Cardinality({j \in kept : j < at[k]}) = k - 1
  <2>1. k - 1 \in 0..(n - 1)
    BY <1>3
  <2>2. PICK i \in kept : Cardinality(B[i]) = k - 1
    BY <1>3, <2>1
  <2>3. Cardinality({j \in kept : j < i}) = k - 1
    BY <2>2
  <2> QED
    BY <2>3
<1>5. Keep(t, kept) = s
  BY DEF Keep
<1> HIDE DEF at
<1>6. at \in [1..n -> kept]
  BY <1>4 DEF at
<1>7. ASSUME NEW k \in 1..n, NEW l \in 1..n, at[k] = at[l] PROVE k = l
  <2>1. k - 1 = l - 1
    BY <1>4, <1>7
  <2> QED
    BY <1>3, <2>1
<1>8. s \in [1..n -> S] /\ n \in Nat
  BY <1>1, <1>3, <1>6
<1>9. s \in Seq(S) /\ Len(s) = n
  BY <1>8, LenProperties
<1> QED
  BY <1>3, <1>5, <1>6, <1>7, <1>9
-----------------------------------------------------------------------------
(* The routing table.                                                      *)

LEMMA TableElements ==
  ASSUME NEW S, NEW t \in Seq(S)
  PROVE  /\ DOMAIN t = 1..Len(t) /\ Len(t) \in Nat
         /\ \A x : x \in ToSet(t) <=> \E i \in 1..Len(t) : x = t[i]
         /\ ToSet(t) \subseteq S
BY LenProperties, ElementOfSeq DEF ToSet

\* What is kept of a table is a table.
LEMMA KeepTable ==
  ASSUME NEW t, TableOK(t), NEW kept \in SUBSET (1..Len(t))
  PROVE  /\ TableOK(Keep(t, kept))
         /\ Len(Keep(t, kept)) = Cardinality(kept) /\ Cardinality(kept) \in 0..Len(t)
         /\ \A r \in ToSet(Keep(t, kept)) : \E i \in kept : r = t[i]
<1> DEFINE s == Keep(t, kept)
           n == Cardinality(kept)
<1>1. t \in Seq(Routes) /\ Len(t) \in Nat /\ Len(t) <= TableCapacity
  BY LenProperties DEF TableOK
<1>2. s \in Seq(Routes) /\ n \in Nat /\ Len(s) = n
  BY <1>1, KeepProperties
<1>3. PICK at \in [1..n -> kept] :
        (\A k \in 1..n : s[k] = t[at[k]]) /\ \A k, l \in 1..n : at[k] = at[l] => k = l
  BY <1>1, KeepProperties
<1>4. n <= Len(t)
  <2>1. IsFiniteSet(1..Len(t)) /\ Cardinality(1..Len(t)) = IF 1 > Len(t) THEN 0 ELSE Len(t) - 1 + 1
    BY <1>1, FS_Interval
  <2>2. n <= Cardinality(1..Len(t))
    BY <2>1, FS_Subset
  <2> QED
    BY <1>1, <1>2, <2>1, <2>2
<1> HIDE DEF s, n
<1>5. ASSUME NEW k \in 1..n, NEW l \in 1..n, s[k].dest = s[l].dest PROVE k = l
  <2>1. at[k] \in 1..Len(t) /\ at[l] \in 1..Len(t) /\ t[at[k]].dest = t[at[l]].dest
    BY <1>3, <1>5
  <2>2. at[k] = at[l]
    BY <2>1 DEF TableOK
  <2> QED
    BY <1>3, <2>2
<1>6. TableOK(s)
  BY <1>1, <1>2, <1>4, <1>5, TopologyAssumption DEF TableOK
<1>7. ASSUME NEW r \in ToSet(s) PROVE \E i \in kept : r = t[i]
  <2>1. PICK k \in 1..n : r = s[k]
    BY <1>2, TableElements
  <2>2. at[k] \in kept /\ r = t[at[k]]
    BY <1>3, <2>1
  <2> QED
    BY <2>2
<1> QED
  BY <1>2, <1>4, <1>6, <1>7 DEF s, n

LEMMA WithoutTable ==
  ASSUME NEW t, TableOK(t), NEW d
  PROVE  /\ TableOK(Without(t, d)) /\ Len(Without(t, d)) \in 0..Len(t)
         /\ ToSet(Without(t, d)) \subseteq {r \in ToSet(t) : r.dest # d}
         /\ (\E i \in 1..Len(t) : t[i].dest = d) => Len(Without(t, d)) < Len(t)
<1> DEFINE kept == {i \in 1..Len(t) : t[i].dest # d}
<1>1. t \in Seq(Routes) /\ Len(t) \in Nat /\ DOMAIN t = 1..Len(t) /\ \A x : x \in ToSet(t) <=> \E i \in 1..Len(t) : x = t[i]
  BY TableElements DEF TableOK
<1>2. Without(t, d) = Keep(t, kept) /\ kept \in SUBSET (1..Len(t))
  BY <1>1 DEF Without
<1>3. ASSUME NEW i \in 1..Len(t), t[i].dest = d PROVE Cardinality(kept) # Len(t)
  <2>1. IsFiniteSet(1..Len(t)) /\ Cardinality(1..Len(t)) = IF 1 > Len(t) THEN 0 ELSE Len(t) - 1 + 1
    BY <1>1, FS_Interval
  <2>2. Cardinality(1..Len(t)) = Len(t)
    BY <1>1, <2>1
  <2>3. kept # 1..Len(t)
    BY <1>3
  <2> QED
    BY <1>2, <2>1, <2>2, <2>3, FS_Subset
<1>4. \A i \in kept : t[i] \in {r \in ToSet(t) : r.dest # d}
  BY <1>1
<1> HIDE DEF kept
<1>5. /\ TableOK(Keep(t, kept))
      /\ Len(Keep(t, kept)) = Cardinality(kept) /\ Cardinality(kept) \in 0..Len(t)
      /\ \A r \in ToSet(Keep(t, kept)) : \E i \in kept : r = t[i]
  BY <1>2, KeepTable
<1> QED
  BY <1>1, <1>2, <1>3, <1>4, <1>5

\* Appending a route to a destination that the table has no route for.
LEMMA AppendTable ==
  ASSUME NEW t, TableOK(t), Len(t) < TableCapacity, NEW route \in Routes,
         \A r \in ToSet(t) : r.dest # route.dest
  PROVE  TableOK(Append(t, route)) /\ ToSet(Append(t, route)) = ToSet(t) \cup {route}
<1> DEFINE u == Append(t, route)
<1>1. t \in Seq(Routes) /\ Len(t) \in Nat /\ \A x : x \in ToSet(t) <=> \E i \in 1..Len(t) : x = t[i]
  BY TableElements DEF TableOK
<1>2. u \in Seq(Routes) /\ Len(u) = Len(t) + 1 /\ (\A i \in 1..Len(t) : u[i] = t[i]) /\ u[Len(t) + 1] = route
  BY <1>1, AppendProperties
<1> HIDE DEF u
<1>3. \A x : x \in ToSet(u) <=> \E i \in 1..Len(u) : x = u[i]
  BY <1>2, TableElements
<1>4. ASSUME NEW i \in 1..Len(u), NEW j \in 1..Len(u), u[i].dest = u[j].dest PROVE i = j
  BY <1>1, <1>2, <1>4 DEF TableOK
<1>5. TableOK(u)
  BY <1>1, <1>2, <1>4, TopologyAssumption DEF TableOK
<1>6. \A x : x \in ToSet(u) <=> x \in ToSet(t) \cup {route}
  BY <1>1, <1>2, <1>3
<1> QED
  BY <1>5, <1>6 DEF u

LEMMA TailTable ==
  ASSUME NEW t, TableOK(t), t # <<>>
  PROVE  TableOK(Tail(t)) /\ Len(Tail(t)) = Len(t) - 1 /\ ToSet(Tail(t)) \subseteq ToSet(t)
<1> DEFINE u == Tail(t)
<1>1. t \in Seq(Routes) /\ Len(t) \in Nat \ {0} /\ \A x : x \in ToSet(t) <=> \E i \in 1..Len(t) : x = t[i]
  BY TableElements, EmptySeq DEF TableOK
<1>2. u \in Seq(Routes) /\ Len(u) = Len(t) - 1 /\ \A i \in 1..Len(u) : u[i] = t[i + 1]
  BY <1>1, HeadTailProperties
<1> HIDE DEF u
<1>3. \A x : x \in ToSet(u) <=> \E i \in 1..Len(u) : x = u[i]
  BY <1>2, TableElements
<1>4. \A i \in 1..Len(u) : i + 1 \in 1..Len(t)
  BY <1>1, <1>2
<1>5. ASSUME NEW i \in 1..Len(u), NEW j \in 1..Len(u), u[i].dest = u[j].dest PROVE i = j
  <2>1. i + 1 = j + 1
    BY <1>2, <1>4, <1>5 DEF TableOK
  <2> QED
    BY <1>1, <1>2, <2>1
<1>6. TableOK(u)
  BY <1>1, <1>2, <1>5, TopologyAssumption DEF TableOK
<1>7. ToSet(u) \subseteq ToSet(t)
  BY <1>1, <1>2, <1>3, <1>4
<1> QED
  BY <1>2, <1>6, <1>7 DEF u

LEMMA PutTable ==
  ASSUME NEW t, TableOK(t), NEW route \in Routes
  PROVE  /\ TableOK(Put(t, route))
         /\ ToSet(Put(t, route)) \subseteq {r \in ToSet(t) : r.dest # route.dest} \cup {route}
<1> DEFINE rest == Without(t, route.dest)
           kept == IF Len(rest) = TableCapacity THEN Tail(rest) ELSE rest
<1>1. TableOK(rest) /\ Len(rest) \in Nat /\ ToSet(rest) \subseteq {r \in ToSet(t) : r.dest # route.dest}
  BY WithoutTable, LenProperties DEF TableOK
<1>2. Put(t, route) = Append(kept, route)
  BY DEF Put
<1> HIDE DEF rest
<1>3. TableOK(kept) /\ Len(kept) < TableCapacity /\ ToSet(kept) \subseteq ToSet(rest)
  <2>1. CASE Len(rest) = TableCapacity
    <3>1. rest # <<>>
      BY <2>1, TopologyAssumption
    <3> QED
      BY <1>1, <2>1, <3>1, TailTable, TopologyAssumption
  <2>2. CASE Len(rest) # TableCapacity
    BY <1>1, <2>2, TopologyAssumption DEF TableOK
  <2> QED
    BY <2>1, <2>2
<1> HIDE DEF kept
<1> QED
  BY <1>1, <1>2, <1>3, AppendTable
-----------------------------------------------------------------------------
(* The bus.                                                                *)

\* Publishing keeps what is owed ahead of the loop, and only owes what
\* condemns a route.
LEMMA PublishStep ==
  ASSUME Inv, NEW events \in Seq(Events), Publish(events), UNCHANGED table
  PROVE  /\ bus' \in Seq(Events) /\ Len(bus') <= BusCapacity
         /\ lagged' \in BOOLEAN
         /\ owed' \in [Dests -> SUBSET Events]
         /\ Ahead' /\ Condemned'
<1> DEFINE all == bus \o events
           excess == Len(all) - BusCapacity
           b == IF excess > 0 THEN SubSeq(all, excess + 1, Len(all)) ELSE all
<1>1. bus \in Seq(Events) /\ table \in Seq(Routes) /\ owed \in [Dests -> SUBSET Events] /\ lagged \in BOOLEAN
  BY DEF Inv, TypeOK
<1>2. all \in Seq(Events) /\ Len(all) \in Nat /\ ToSet(all) = ToSet(bus) \cup ToSet(events)
  <2>1. all \in Seq(Events) /\ Len(all) \in Nat
    BY <1>1, ConcatProperties, LenProperties
  <2>2. Range(all) = Range(bus) \cup Range(events)
    BY <1>1, RangeConcatenation
  <2> QED
    BY <2>1, <2>2 DEF Range, ToSet
<1>3. bus' = b /\ lagged' = (lagged \/ excess > 0)
  BY DEF Publish
<1>4. owed' = [d \in Dests |->
                 {e \in owed[d] \cup ToSet(events) : Condemns(e, d)} \ (ToSet(all) \ ToSet(bus'))]
  BY DEF Publish
<1> HIDE DEF all
<1>5. bus' \in Seq(Events) /\ Len(bus') <= BusCapacity
  <2>1. CASE excess > 0
    <3>1. excess \in Nat /\ excess + 1 \in Int /\ Len(all) \in Int
      BY <1>2, <2>1, TopologyAssumption
    <3>2. \A i \in (excess + 1)..Len(all) : all[i] \in Events
      BY <1>2, <3>1, ElementOfSeq, TopologyAssumption
    <3>3. /\ SubSeq(all, excess + 1, Len(all)) \in Seq(Events)
          /\ Len(SubSeq(all, excess + 1, Len(all))) = IF excess + 1 <= Len(all) THEN Len(all) - (excess + 1) + 1 ELSE 0
      <4> HIDE DEF excess
      <4> QED
        BY <3>1, <3>2, SubSeqProperties
    <3> QED
      BY <1>2, <1>3, <2>1, <3>3, TopologyAssumption
  <2>2. CASE ~(excess > 0)
    BY <1>2, <1>3, <2>2, TopologyAssumption
  <2> QED
    BY <2>1, <2>2
<1>6. lagged' \in BOOLEAN
  BY <1>1, <1>3
<1>7. owed' \in [Dests -> SUBSET Events]
  <2>1. ToSet(events) \subseteq Events
    BY TableElements
  <2> QED
    BY <1>1, <1>4, <2>1
<1>8. ASSUME NEW r \in ToSet(table), NEW e \in owed'[r.dest]
      PROVE  e \in ToSet(bus') /\ Uses(r, e.peers)
  <2>1. PICK i \in DOMAIN table : r = table[i]
    BY DEF ToSet
  <2>2. r \in Routes /\ r.dest \in Dests
    <3>1. r \in Routes
      BY <1>1, TableElements
    <3> QED
      BY <3>1 DEF Routes
  <2>3. e \in owed[r.dest] \cup ToSet(events) /\ Condemns(e, r.dest) /\ e \notin ToSet(all) \ ToSet(bus')
    BY <1>4, <1>8, <2>2
  <2>4. owed[r.dest] \subseteq ToSet(bus)
    BY DEF Inv, Ahead
  <2>5. PICK j \in DOMAIN table : table[j].dest = r.dest /\ Uses(table[j], e.peers)
    BY <2>3 DEF Condemns
  <2>6. i = j
    BY <2>1, <2>5 DEF Inv, TypeOK
  <2> QED
    BY <1>2, <2>1, <2>3, <2>4, <2>5, <2>6
<1>9. ToSet(table)' = ToSet(table)
  OBVIOUS
<1>10. Ahead' /\ Condemned'
  BY <1>8, <1>9 DEF Ahead, Condemned
<1> QED
  BY <1>5, <1>6, <1>7, <1>10

\* A single event, and the notices of a change of size.
LEMMA EventSequences ==
  /\ \A e \in Events : <<e>> \in Seq(Events)
  /\ Notice \in Events
  /\ \A m, n : SizeNotice(m, n) \in Seq(Events)
  /\ \A s, t \in Seq(Events) : s \o t \in Seq(Events)
  /\ \A n \in Nat : [i \in 1..n |-> Notice] \in Seq(Events)
<1>1. Notice \in Events
  BY DEF Events
<1>2. \A e \in Events : <<e>> \in Seq(Events)
  OBVIOUS
<1>3. \A m, n : SizeNotice(m, n) \in Seq(Events)
  BY <1>1, <1>2, EmptySeq DEF SizeNotice
<1>4. \A s, t \in Seq(Events) : s \o t \in Seq(Events)
  BY ConcatProperties
<1>5. ASSUME NEW n \in Nat PROVE [i \in 1..n |-> Notice] \in Seq(Events)
  <2>1. [i \in 1..n |-> Notice] \in [1..n -> Events]
    BY <1>1
  <2> QED
    BY <2>1, SeqDef
<1> QED
  BY <1>1, <1>2, <1>3, <1>4, <1>5

\* A step that changes the table only: its new routes are old ones, or new
\* ones to which nothing is owed.
LEMMA TableStep ==
  ASSUME Inv, TableOK(table'), UNCHANGED <<host, edges, distances, bus, lagged, told>>,
         owed' \in [Dests -> SUBSET Events],
         \A r \in ToSet(table') : owed'[r.dest] = {} \/ (r \in ToSet(table) /\ owed'[r.dest] = owed[r.dest])
  PROVE  Inv'
<1>1. TypeOK'
  <2>1. DOMAIN table' = 1..Len(table')
    BY LenProperties DEF TableOK
  <2> QED
    BY <2>1 DEF Inv, TypeOK, TableOK
<1>2. Ahead' /\ Condemned'
  BY DEF Inv, Ahead, Condemned
<1>3. IsFiniteSet(DOMAIN edges)' /\ ReachabilityAnnounced'
  BY DEF Inv, ReachabilityAnnounced
<1> QED
  BY <1>1, <1>2, <1>3 DEF Inv
-----------------------------------------------------------------------------
(* The invariant.                                                          *)

LEMMA InvTable ==
  ASSUME Inv
  PROVE  TableOK(table) /\ ToSet(table) \subseteq Routes /\ DOMAIN table = 1..Len(table)
BY TableElements, LenProperties DEF Inv, TypeOK, TableOK

LEMMA InvInit == Init => Inv
<1> SUFFICES ASSUME Init PROVE Inv
  OBVIOUS
<1>1. DOMAIN edges = {} /\ DOMAIN distances = {} /\ DOMAIN table = {} /\ Len(table) = 0 /\ Len(bus) = 0
  BY EmptySeq, LenProperties DEF Init
<1>2. bus \in Seq(Events) /\ table \in Seq(Routes)
  BY EmptySeq DEF Init
<1>3. TypeOK
  <2>1. lagged \in BOOLEAN /\ told \in BOOLEAN
    BY DEF Init
  <2>2. owed \in [Dests -> SUBSET Events]
    BY DEF Init
  <2>3. Len(bus) <= BusCapacity /\ Len(table) <= TableCapacity
    BY <1>1, TopologyAssumption
  <2> QED
    BY <1>1, <1>2, <2>1, <2>2, <2>3 DEF Init, TypeOK
<1>4. Ahead /\ Condemned
  BY <1>1 DEF Ahead, Condemned, ToSet
<1>5. ReachabilityAnnounced
  BY <1>1 DEF Init, ReachabilityAnnounced, Reaching
<1> QED
  BY <1>1, <1>3, <1>4, <1>5, FS_EmptySet DEF Inv

\* A change of the graph, with or without a word about it.
LEMMA GraphChange ==
  ASSUME Inv, NEW events \in Seq(Events), Publish(events) \/ UNCHANGED <<bus, lagged, owed>>,
         UNCHANGED <<host, distances, table, told>>,
         DOMAIN edges' \subseteq Dests, \A n \in DOMAIN edges' : edges'[n] \in SUBSET (Dests \ {n}),
         IsFiniteSet(DOMAIN edges')
  PROVE  Inv'
<1>1. /\ bus' \in Seq(Events) /\ Len(bus') <= BusCapacity /\ lagged' \in BOOLEAN
      /\ owed' \in [Dests -> SUBSET Events]
      /\ Ahead' /\ Condemned'
  <2>1. CASE Publish(events)
    BY <2>1, PublishStep
  <2>2. CASE UNCHANGED <<bus, lagged, owed>>
    BY <2>2 DEF Inv, TypeOK, Ahead, Condemned
  <2> QED
    BY <2>1, <2>2
<1>2. TypeOK'
  BY <1>1 DEF Inv, TypeOK
<1>3. ReachabilityAnnounced'
  BY DEF Inv, ReachabilityAnnounced
<1> QED
  BY <1>1, <1>2, <1>3 DEF Inv

LEMMA GraphStepInv ==
  ASSUME Inv, GraphStep
  PROVE  Inv'
<1>1. DOMAIN edges \subseteq Dests /\ (\A n \in DOMAIN edges : edges[n] \in SUBSET (Dests \ {n})) /\ IsFiniteSet(DOMAIN edges)
  BY DEF Inv, TypeOK
<1>2. ASSUME NEW stale_keys \in SUBSET DOMAIN edges, NEW silent \in BOOLEAN, PruneStaleEdges(stale_keys, silent)
      PROVE  Inv'
  <2> DEFINE events == [i \in 1..Cardinality(stale_keys) |-> Notice] \o SizeNotice(Nodes, Nodes')
  <2>1. IsFiniteSet(stale_keys) /\ Cardinality(stale_keys) \in Nat
    BY <1>1, FS_Subset, FS_CardinalityType
  <2>2. events \in Seq(Events)
    BY <2>1, EventSequences
  <2>3. DOMAIN edges' = DOMAIN edges \ stale_keys /\ \A n \in DOMAIN edges' : edges'[n] = edges[n]
    BY <1>2 DEF PruneStaleEdges
  <2>4. IsFiniteSet(DOMAIN edges')
    BY <1>1, <2>3, FS_Subset
  <2>5. Publish(events) \/ UNCHANGED <<bus, lagged, owed>>
    BY <1>2 DEF PruneStaleEdges
  <2>6. UNCHANGED <<host, distances, table, told>>
    BY <1>2 DEF PruneStaleEdges
  <2> HIDE DEF events
  <2> QED
    BY <1>1, <2>2, <2>3, <2>4, <2>5, <2>6, GraphChange
<1>3. ASSUME NEW p \in Dests, NEW list \in SUBSET Dests, ApplyUpdate(p, list) PROVE Inv'
  <2> DEFINE events == <<Notice>> \o SizeNotice(Nodes, Nodes')
  <2>1. events \in Seq(Events)
    BY EventSequences
  <2>2. edges' = With(edges, p, list \ {p})
    BY <1>3 DEF ApplyUpdate
  <2>3. /\ DOMAIN edges' = DOMAIN edges \cup {p}
        /\ \A n \in DOMAIN edges' : edges'[n] = IF n = p THEN list \ {p} ELSE edges[n]
    BY <2>2 DEF With
  <2>4. IsFiniteSet(DOMAIN edges')
    BY <1>1, <2>3, FS_AddElement
  <2>5. Publish(events) /\ UNCHANGED <<host, distances, table, told>>
    BY <1>3 DEF ApplyUpdate
  <2> HIDE DEF events
  <2> QED
    BY <1>1, <2>1, <2>3, <2>4, <2>5, GraphChange
<1>4. ASSUME NEW p \in Dests, NEW hops \in 0..MaxDistance \cup {UNREACHABLE}, UpdateDistance(p, hops) PROVE Inv'
  <2>1. distances' = With(distances, p, hops)
    BY <1>4 DEF UpdateDistance
  <2>2. /\ DOMAIN distances' = DOMAIN distances \cup {p}
        /\ \A n \in DOMAIN distances' : distances'[n] = IF n = p THEN hops ELSE distances[n]
    BY <2>1 DEF With
  <2>3. /\ UNCHANGED <<host, edges, table>>
        /\ \/ /\ told' = (hops < UNREACHABLE) /\ Publish(<<Notice>>)
              /\ \/ p \notin Reaching(distances) /\ hops < UNREACHABLE
                 \/ p \in Reaching(distances) /\ Reaching(distances') = {}
           \/ /\ UNCHANGED <<bus, lagged, told, owed>>
              /\ p \in Reaching(distances) \/ ~(hops < UNREACHABLE)
              /\ p \notin Reaching(distances) \/ Reaching(distances') # {}
    BY <1>4 DEF UpdateDistance
  <2>4. /\ bus' \in Seq(Events) /\ Len(bus') <= BusCapacity /\ lagged' \in BOOLEAN
        /\ owed' \in [Dests -> SUBSET Events]
        /\ Ahead' /\ Condemned'
    <3>1. CASE Publish(<<Notice>>)
      BY <2>3, <3>1, PublishStep, EventSequences
    <3>2. CASE UNCHANGED <<bus, lagged, owed>>
      BY <2>3, <3>2 DEF Inv, TypeOK, Ahead, Condemned
    <3> QED
      BY <2>3, <3>1, <3>2
  <2>5. TypeOK'
    <3>1. told' \in BOOLEAN
      <4>1. (hops < UNREACHABLE) \in BOOLEAN
        OBVIOUS
      <4>2. told \in BOOLEAN
        BY DEF Inv, TypeOK
      <4> QED
        BY <2>3, <4>1, <4>2
    <3> QED
      BY <2>2, <2>3, <2>4, <3>1 DEF Inv, TypeOK
  <2>6. /\ p \in Reaching(distances') <=> hops < UNREACHABLE
        /\ \A q : q # p => (q \in Reaching(distances') <=> q \in Reaching(distances))
    BY <2>2 DEF Reaching
  <2>7. ReachabilityAnnounced'
    <3>1. told \in BOOLEAN /\ (told <=> Reaching(distances) # {})
      BY DEF Inv, TypeOK, ReachabilityAnnounced
    <3>2. CASE hops < UNREACHABLE
      <4>1. Reaching(distances') # {}
        BY <2>6, <3>2
      <4>2. told'
        BY <2>3, <3>1, <3>2, <4>1
      <4> QED
        BY <4>1, <4>2 DEF ReachabilityAnnounced
    <3>3. CASE ~(hops < UNREACHABLE) /\ p \in Reaching(distances) /\ Reaching(distances') = {}
      <4>1. told' = (hops < UNREACHABLE)
        BY <2>3, <3>3
      <4>2. ~told'
        BY <3>3, <4>1
      <4> QED
        BY <3>3, <4>2 DEF ReachabilityAnnounced
    <3>4. CASE ~(hops < UNREACHABLE) /\ (p \notin Reaching(distances) \/ Reaching(distances') # {})
      <4>1. told' = told
        BY <2>3, <3>4
      <4>2. Reaching(distances') # {} <=> Reaching(distances) # {}
        BY <2>6, <3>4
      <4> QED
        BY <3>1, <4>1, <4>2 DEF ReachabilityAnnounced
    <3> QED
      BY <3>2, <3>3, <3>4
  <2> QED
    BY <2>3, <2>4, <2>5, <2>7 DEF Inv
<1>5. \A p \in Peers : p \in Dests
  BY TopologyAssumption
<1> QED
  BY <1>2, <1>3, <1>4, <1>5 DEF GraphStep

LEMMA RoutesStepInv ==
  ASSUME Inv, RoutesStep
  PROVE  Inv'
<1>1. TableOK(table) /\ ToSet(table) \subseteq Routes /\ DOMAIN table = 1..Len(table)
  BY InvTable
<1>2. owed \in [Dests -> SUBSET Events] /\ \A r \in Routes : r.dest \in Dests
  BY DEF Inv, TypeOK, Routes
<1>3. ASSUME NEW d \in Dests, Lookup(d) PROVE Inv'
  <2>1. CASE UNCHANGED table
    BY <1>1, <1>2, <1>3, <2>1, TableStep DEF Lookup
  <2>2. ASSUME NEW i \in DOMAIN table, table[i].dest = d, table' = Append(Without(table, d), table[i])
        PROVE  Inv'
    <3>1. table[i] \in Routes /\ table[i] \in ToSet(table)
      BY <1>1 DEF ToSet
    <3>2. TableOK(Without(table, d)) /\ ToSet(Without(table, d)) \subseteq {r \in ToSet(table) : r.dest # d}
      BY <1>1, WithoutTable
    <3>3. Len(Without(table, d)) < TableCapacity
      <4>1. Len(Without(table, d)) \in 0..Len(table) /\ Len(Without(table, d)) < Len(table)
        BY <1>1, <2>2, WithoutTable
      <4>2. Len(table) \in Nat /\ Len(table) <= TableCapacity
        BY <1>1, LenProperties DEF TableOK
      <4> QED
        BY <4>1, <4>2, TopologyAssumption
    <3>4. TableOK(table') /\ ToSet(table') = ToSet(Without(table, d)) \cup {table[i]}
      BY <2>2, <3>1, <3>2, <3>3, AppendTable
    <3>5. ToSet(table') \subseteq ToSet(table)
      BY <3>1, <3>2, <3>4
    <3> QED
      BY <1>2, <1>3, <3>4, <3>5, TableStep DEF Lookup
  <2> QED
    BY <1>3, <2>1, <2>2 DEF Lookup
<1>4. ASSUME NEW e \in Events, HostPublishes(e) PROVE Inv'
  <2>1. <<e>> \in Seq(Events) /\ Publish(<<e>>) /\ UNCHANGED <<host, edges, distances, table, told>>
    BY <1>4, EventSequences DEF HostPublishes
  <2> QED
    BY <2>1, GraphChange DEF Inv, TypeOK
<1>5. ASSUME NEW r \in Routes, Insert(r) PROVE Inv'
  <2>1. TableOK(table') /\ ToSet(table') \subseteq {q \in ToSet(table) : q.dest # r.dest} \cup {r}
    BY <1>1, <1>5, PutTable DEF Insert
  <2>2. owed' = [owed EXCEPT ![r.dest] = {}] /\ UNCHANGED <<host, edges, distances, bus, lagged, told>>
    BY <1>5 DEF Insert
  <2>3. owed' \in [Dests -> SUBSET Events]
    BY <1>2, <2>2
  <2>4. \A q \in ToSet(table') : owed'[q.dest] = {} \/ (q \in ToSet(table) /\ owed'[q.dest] = owed[q.dest])
    BY <1>1, <1>2, <2>1, <2>2
  <2> QED
    BY <2>1, <2>2, <2>3, <2>4, TableStep
<1>6. ASSUME NEW r \in Routes, NEW s \in Routes, Refresh(r, s) PROVE Inv'
  <2> DEFINE t == Put(table, r)
  <2>1. TableOK(t) /\ ToSet(t) \subseteq {q \in ToSet(table) : q.dest # r.dest} \cup {r}
    BY <1>1, PutTable
  <2>2. table' = Put(t, s)
    BY <1>6 DEF Refresh
  <2> HIDE DEF t
  <2>3. TableOK(table') /\ ToSet(table') \subseteq {q \in ToSet(t) : q.dest # s.dest} \cup {s}
    BY <2>1, <2>2, PutTable
  <2>4. owed' = [owed EXCEPT ![r.dest] = {}, ![s.dest] = {}] /\ UNCHANGED <<host, edges, distances, bus, lagged, told>>
    BY <1>6 DEF Refresh
  <2>5. owed' \in [Dests -> SUBSET Events]
    BY <1>2, <2>4
  <2>6. \A q \in ToSet(table') : owed'[q.dest] = {} \/ (q \in ToSet(table) /\ owed'[q.dest] = owed[q.dest])
    BY <1>1, <1>2, <2>1, <2>3, <2>4
  <2> QED
    BY <2>3, <2>4, <2>5, <2>6, TableStep
<1> QED
  BY <1>3, <1>4, <1>5, <1>6 DEF RoutesStep

\* The loop reads an event: exactly the routes that owe it go.
LEMMA HandleEventInv ==
  ASSUME Inv, HandleEvent
  PROVE  Inv'
<1> DEFINE first == Head(bus)
           Cleared == /\ TableOK(table') /\ ToSet(table') \subseteq ToSet(table)
                      /\ \A r \in ToSet(table') : ~Uses(r, first.peers)
<1>1. TableOK(table) /\ ToSet(table) \subseteq Routes /\ DOMAIN table = 1..Len(table)
  BY InvTable
<1>2. bus \in Seq(Events) /\ bus # <<>> /\ Len(bus) \in Nat \ {0} /\ Len(bus) <= BusCapacity
  BY EmptySeq DEF Inv, TypeOK, HandleEvent
<1>3. bus' = Tail(bus) /\ UNCHANGED <<host, edges, distances, lagged, told, owed>>
  BY DEF HandleEvent
<1>4. /\ first \in Events /\ bus' \in Seq(Events) /\ Len(bus') = Len(bus) - 1
      /\ first = bus[1] /\ \A i \in 1..Len(bus') : bus'[i] = bus[i + 1]
  BY <1>2, <1>3, HeadTailProperties
<1>5. ASSUME NEW e \in ToSet(bus), e # first PROVE e \in ToSet(bus')
  <2>1. PICK i \in 1..Len(bus) : e = bus[i]
    BY <1>2, TableElements
  <2>2. i - 1 \in 1..Len(bus') /\ i = (i - 1) + 1
    BY <1>2, <1>4, <1>5, <2>1
  <2>3. e = bus'[i - 1]
    BY <1>4, <2>1, <2>2
  <2> QED
    BY <1>4, <2>2, <2>3, TableElements
<1>6. Cleared
  <2>1. ASSUME first.kind = "loss", NEW p \in first.peers, table' = Invalidate(p)
        PROVE  Cleared
    <3> DEFINE kept == {i \in 1..Len(table) : ~Uses(table[i], {p})}
    <3>1. first.peers = {p}
      BY <1>4, <2>1 DEF Events, Loss, Restructured, Notice
    <3>2. table' = Keep(table, kept) /\ kept \in SUBSET (1..Len(table))
      BY <1>1, <2>1 DEF Invalidate
    <3>3. \A i \in kept : table[i] \in ToSet(table) /\ ~Uses(table[i], {p})
      BY <1>1 DEF ToSet
    <3> HIDE DEF kept
    <3>4. TableOK(Keep(table, kept)) /\ \A r \in ToSet(Keep(table, kept)) : \E i \in kept : r = table[i]
      BY <1>1, <3>2, KeepTable
    <3> QED
      BY <3>1, <3>2, <3>3, <3>4
  <2>2. ASSUME table' = <<>> PROVE Cleared
    <3>1. <<>> \in Seq(Routes) /\ Len(<<>>) = 0 /\ DOMAIN <<>> = {}
      BY EmptySeq
    <3>2. ToSet(<<>>) = {}
      BY <3>1 DEF ToSet
    <3> QED
      BY <2>2, <3>1, <3>2, TopologyAssumption DEF TableOK
  <2>3. ASSUME first.kind = "notice", UNCHANGED table PROVE Cleared
    <3>1. first.peers = {}
      BY <1>4, <2>3 DEF Events, Loss, Restructured, Notice
    <3>2. \A r \in ToSet(table') : ~Uses(r, first.peers)
      BY <3>1 DEF Uses
    <3> QED
      BY <1>1, <2>3, <3>2
  <2> QED
    BY <2>1, <2>2, <2>3 DEF HandleEvent
<1> HIDE DEF first
<1>7. ASSUME NEW r \in ToSet(table') PROVE first \notin owed[r.dest]
  BY <1>6, <1>7 DEF Inv, Condemned
<1>8. Ahead'
  BY <1>3, <1>5, <1>6, <1>7 DEF Inv, Ahead
<1>9. Condemned'
  BY <1>3, <1>6 DEF Inv, Condemned
<1>10. TypeOK'
  <2>1. DOMAIN table' = 1..Len(table')
    BY <1>6, LenProperties DEF TableOK
  <2>2. Len(bus') <= BusCapacity
    BY <1>2, <1>4, TopologyAssumption
  <2> QED
    BY <1>3, <1>4, <1>6, <2>1, <2>2 DEF Inv, TypeOK, TableOK
<1>11. ReachabilityAnnounced' /\ IsFiniteSet(DOMAIN edges)'
  BY <1>3 DEF Inv, ReachabilityAnnounced
<1> QED
  BY <1>8, <1>9, <1>10, <1>11 DEF Inv

LEMMA InvStep == Inv /\ [Next]_vars => Inv'
<1> SUFFICES ASSUME Inv, [Next]_vars PROVE Inv'
  OBVIOUS
<1>1. ASSUME HandleLagged PROVE Inv'
  <2>1. lagged' \in BOOLEAN
    BY <1>1 DEF HandleLagged
  <2> QED
    BY <1>1, <2>1 DEF HandleLagged, Inv, TypeOK, Ahead, Condemned, ReachabilityAnnounced
<1>2. ASSUME UNCHANGED vars PROVE Inv'
  BY <1>2 DEF vars, Inv, TypeOK, Ahead, Condemned, ReachabilityAnnounced
<1> QED
  BY <1>1, <1>2, GraphStepInv, RoutesStepInv, HandleEventInv DEF Next

LEMMA Invariance == Spec => []Inv
BY InvInit, InvStep, PTL DEF Spec

\* The state stays within its type: the table and the bus within their
\* capacities, with one route to a destination at most.
THEOREM TypeCorrect == Spec => []TypeOK
BY Invariance, PTL DEF Inv

\* A cached route that a published event condemns has that event still ahead
\* of the loop, unless a later one has overwritten it on the bus.
THEOREM RoutesAreFresh == Spec => []NoStaleRoutes
<1>1. Inv => NoStaleRoutes
  BY DEF Inv, Ahead, NoStaleRoutes, ToSet
<1> QED
  BY <1>1, Invariance, PTL

\* The last announcement of update_distance is right: a relay is reachable
\* through some peer exactly when it said so.
THEOREM AnnouncementsAreRight == Spec => []ReachabilityAnnounced
BY Invariance, PTL DEF Inv
-----------------------------------------------------------------------------
(* Numbers.                                                                *)

\* Every set of numbers that is not empty has a least one.
LEMMA Least ==
  ASSUME NEW T \in SUBSET Nat, T # {}
  PROVE  \E m \in T : \A n \in T : m <= n
<1>1. PICK x \in T : TRUE
  OBVIOUS
<1> DEFINE S == T \cap (0..x)
           B == [i \in S |-> {j \in S : j < i}]
<1>2. x \in S /\ S \subseteq Nat
  BY <1>1
<1>3. IsFiniteSet(S)
  <2>1. IsFiniteSet(0..x)
    BY <1>1, FS_Interval
  <2> QED
    BY <2>1, FS_Subset
<1>4. /\ B \in [S -> SUBSET S]
      /\ \A i \in S : i \notin B[i]
  BY <1>2
<1>5. \A i, j \in S : i # j => \/ i \in B[j] /\ B[i] \subseteq B[j]
                               \/ j \in B[i] /\ B[j] \subseteq B[i]
  <2>1. ASSUME NEW i \in S, NEW j \in S, i < j PROVE i \in B[j] /\ B[i] \subseteq B[j]
    <3>1. \A y \in S : y < i => y < j
      BY <1>2, <2>1
    <3> HIDE DEF S
    <3> QED
      BY <2>1, <3>1
  <2>2. \A i, j \in S : i # j => i < j \/ j < i
    BY <1>2
  <2> HIDE DEF B
  <2> QED
    BY <2>1, <2>2
<1>6. Cardinality(S) \in Nat /\ \A k \in 0..(Cardinality(S) - 1) : \E i \in S : Cardinality(B[i]) = k
  <2> HIDE DEF B, S
  <2> QED
    BY <1>3, <1>4, <1>5, Ranks
<1>7. Cardinality(S) # 0
  BY <1>2, <1>3, FS_EmptySet
<1>8. 0 \in 0..(Cardinality(S) - 1)
  BY <1>6, <1>7
<1>9. PICK m \in S : Cardinality(B[m]) = 0
  BY <1>6, <1>8
<1>10. B[m] = {}
  <2>1. IsFiniteSet(B[m])
    BY <1>3, <1>4, <1>9, FS_Subset
  <2> QED
    BY <1>9, <2>1, FS_EmptySet
<1>11. \A n \in S : m <= n
  BY <1>2, <1>9, <1>10
<1>12. m <= x /\ m \in Nat /\ x \in Nat
  BY <1>2, <1>9
<1>13. ASSUME NEW n \in T PROVE m <= n
  <2>1. CASE n <= x
    BY <1>1, <1>11, <2>1
  <2>2. CASE ~(n <= x)
    <3>1. n \in Nat
      OBVIOUS
    <3> HIDE DEF S
    <3> QED
      BY <1>12, <2>2, <3>1
  <2> QED
    BY <2>1, <2>2
<1> QED
  BY <1>9, <1>13

\* Induction, over a set instead of a predicate.
LEMMA Induct ==
  ASSUME NEW T \in SUBSET Nat, 0 \in T, \A n \in T : n + 1 \in T
  PROVE  T = Nat
<1> SUFFICES ASSUME Nat \ T # {} PROVE FALSE
  OBVIOUS
<1> DEFINE U == Nat \ T
<1>1. U \in SUBSET Nat /\ U # {}
  OBVIOUS
<1>2. PICK m \in U : \A n \in U : m <= n
  <2> HIDE DEF U
  <2> QED
    BY <1>1, Least
<1>3. m \in Nat /\ m # 0
  BY <1>2
<1>4. m - 1 \in Nat /\ (m - 1) + 1 = m /\ ~(m <= m - 1)
  BY <1>3
<1>5. m - 1 \in T
  BY <1>2, <1>4
<1> QED
  BY <1>2, <1>4, <1>5

\* Min is that least one.
LEMMA MinIs ==
  ASSUME NEW T \in SUBSET Nat, T # {}
  PROVE  Min(T) \in T /\ \A n \in T : Min(T) <= n
<1>1. \E m \in T : \A n \in T : m <= n
  BY Least
<1> QED
  BY <1>1 DEF Min

\* Functions that are defined by recursion on numbers, within a set W.
Iterated(f, W, a, s) == f \in [Nat -> W] /\ f[0] = a /\ \A k \in Nat : f[k + 1] = s[k][f[k]]

LEMMA Iterates ==
  ASSUME NEW W, NEW a \in W, NEW s \in [Nat -> [W -> W]]
  PROVE  \E f : Iterated(f, W, a, s)
<1> DEFINE Upto(n, g) == g[0] = a /\ \A k \in Nat : k < n => g[k + 1] = s[k][g[k]]
           Some == {n \in Nat : \E g \in [Nat -> W] : Upto(n, g)}
<1>1. Some \in SUBSET Nat
  OBVIOUS
<1>2. 0 \in Some
  <2> DEFINE g == [i \in Nat |-> a]
  <2>1. g \in [Nat -> W] /\ Upto(0, g)
    OBVIOUS
  <2> QED
    BY <2>1
<1>3. ASSUME NEW n \in Some PROVE n + 1 \in Some
  <2>1. PICK g \in [Nat -> W] : Upto(n, g)
    OBVIOUS
  <2> DEFINE h == [g EXCEPT ![n + 1] = s[n][g[n]]]
  <2>2. n \in Nat /\ n + 1 \in Nat
    OBVIOUS
  <2>3. h \in [Nat -> W] /\ h[n + 1] = s[n][g[n]] /\ \A i \in Nat : i # n + 1 => h[i] = g[i]
    BY <2>1, <2>2
  <2> HIDE DEF h, Some
  <2>4. h[0] = a
    BY <2>1, <2>2, <2>3
  <2>5. ASSUME NEW k \in Nat, k < n + 1 PROVE h[k + 1] = s[k][h[k]]
    <3>1. CASE k = n
      <4>1. n # n + 1
        BY <2>2
      <4> QED
        BY <2>2, <2>3, <3>1, <4>1
    <3>2. CASE k < n
      <4>1. k # n + 1 /\ k + 1 # n + 1 /\ k + 1 \in Nat
        BY <2>2, <3>2
      <4> QED
        BY <2>1, <2>3, <3>2, <4>1
    <3> QED
      BY <2>2, <2>5, <3>1, <3>2
  <2>6. Upto(n + 1, h)
    BY <2>4, <2>5
  <2> QED
    BY <2>2, <2>3, <2>6 DEF Some
<1>4. Some = Nat
  <2> HIDE DEF Some
  <2> QED
    BY <1>1, <1>2, <1>3, Induct
<1>5. ASSUME NEW n \in Nat, NEW m \in Nat, n <= m, NEW g \in [Nat -> W], NEW h \in [Nat -> W], Upto(n, g), Upto(m, h)
      PROVE  g[n] = h[n]
  <2> DEFINE T == {i \in Nat : i <= n => g[i] = h[i]}
  <2>1. 0 \in T
    BY <1>5
  <2>2. ASSUME NEW i \in T PROVE i + 1 \in T
    <3>1. i \in Nat /\ i + 1 \in Nat
      OBVIOUS
    <3>2. ASSUME i + 1 <= n PROVE g[i + 1] = h[i + 1]
      <4>1. i <= n /\ i < n /\ i < m
        BY <1>5, <3>1, <3>2
      <4> QED
        BY <1>5, <3>1, <4>1
    <3> QED
      BY <3>1, <3>2
  <2>3. T = Nat
    <3>1. T \in SUBSET Nat
      OBVIOUS
    <3> HIDE DEF T
    <3> QED
      BY <2>1, <2>2, <3>1, Induct
  <2>4. n \in T /\ n <= n
    BY <2>3
  <2> QED
    BY <2>4
<1> DEFINE G == [n \in Nat |-> CHOOSE g \in [Nat -> W] : Upto(n, g)]
           f == [n \in Nat |-> G[n][n]]
<1>6. \A n \in Nat : G[n] \in [Nat -> W] /\ Upto(n, G[n])
  <2> SUFFICES ASSUME NEW n \in Nat PROVE G[n] \in [Nat -> W] /\ Upto(n, G[n])
    OBVIOUS
  <2>1. \E g \in [Nat -> W] : Upto(n, g)
    BY <1>4
  <2> HIDE DEF Upto
  <2> QED
    BY <2>1
<1> HIDE DEF G
<1>7. f \in [Nat -> W]
  BY <1>6
<1>8. f[0] = a
  BY <1>6
<1>9. ASSUME NEW k \in Nat PROVE f[k + 1] = s[k][f[k]]
  <2>1. k + 1 \in Nat /\ k < k + 1 /\ k <= k + 1
    OBVIOUS
  <2>2. G[k + 1][k + 1] = s[k][G[k + 1][k]]
    BY <1>6, <2>1
  <2>3. G[k][k] = G[k + 1][k]
    <3> HIDE DEF Upto
    <3> QED
      BY <1>5, <1>6, <2>1
  <2> QED
    BY <2>1, <2>2, <2>3
<1>10. Iterated(f, W, a, s)
  BY <1>7, <1>8, <1>9 DEF Iterated
<1> QED
  BY <1>10
-----------------------------------------------------------------------------
(* The search.                                                             *)

\* A graph of nodes S.
Graph(E, S) == DOMAIN E \subseteq S /\ \A n \in DOMAIN E : E[n] \subseteq S

\* The neighbours of these nodes.
Met(E, nodes) == UNION {GetNeighbors(E, m) : m \in nodes}

\* What the search has visited one depth further.
Wider(E, b, k) ==
  [n \in DOMAIN b \cup Met(E, DOMAIN b) |-> IF n \in DOMAIN b THEN b[n] ELSE k]

\* Is c what Wider makes of b at depth k?
Widened(c, b, E, k) ==
  /\ DOMAIN c = DOMAIN b \cup Met(E, DOMAIN b)
  /\ \A n \in DOMAIN c : c[n] = IF n \in DOMAIN b THEN b[n] ELSE k

\* What a search can have visited in a graph of nodes S.
Visits(S) == UNION {[D -> Nat] : D \in SUBSET S}

\* v[k] are the nodes and depths after depth k, from p on.
Searches(v, E, p) ==
  v[0] = [n \in {p} |-> 0] /\ \A k \in Nat : v[k + 1] = Wider(E, v[k], k + 1)

\* Visits(S), element by element.
LEMMA InVisits ==
  ASSUME NEW S, NEW b
  PROVE  b \in Visits(S) <=> b = [n \in DOMAIN b |-> b[n]] /\ DOMAIN b \subseteq S /\ \A n \in DOMAIN b : b[n] \in Nat
<1>1. ASSUME b \in Visits(S)
      PROVE  b = [n \in DOMAIN b |-> b[n]] /\ DOMAIN b \subseteq S /\ \A n \in DOMAIN b : b[n] \in Nat
  <2>1. PICK D \in SUBSET S : b \in [D -> Nat]
    BY <1>1 DEF Visits
  <2> QED
    BY <2>1
<1>2. ASSUME b = [n \in DOMAIN b |-> b[n]], DOMAIN b \subseteq S, \A n \in DOMAIN b : b[n] \in Nat
      PROVE  b \in Visits(S)
  <2>1. b \in [DOMAIN b -> Nat] /\ DOMAIN b \in SUBSET S
    BY <1>2
  <2> QED
    BY <2>1 DEF Visits
<1> QED
  BY <1>1, <1>2

\* One depth further, no node outside the graph is visited.
LEMMA WiderVisits ==
  ASSUME NEW S, NEW E, Graph(E, S), NEW b \in Visits(S), NEW k \in Nat
  PROVE  Wider(E, b, k) \in Visits(S) /\ Widened(Wider(E, b, k), b, E, k)
<1> DEFINE D == DOMAIN b \cup Met(E, DOMAIN b)
           c == Wider(E, b, k)
<1>1. b = [n \in DOMAIN b |-> b[n]] /\ DOMAIN b \subseteq S /\ \A n \in DOMAIN b : b[n] \in Nat
  BY InVisits
<1>2. c = [n \in D |-> IF n \in DOMAIN b THEN b[n] ELSE k]
  BY DEF Wider
<1>3. D \subseteq S
  BY <1>1 DEF Graph, GetNeighbors, Met
<1> HIDE DEF D, c
<1>4. c = [n \in DOMAIN c |-> c[n]] /\ DOMAIN c = D /\ \A n \in D : c[n] = IF n \in DOMAIN b THEN b[n] ELSE k
  BY <1>2
<1>5. c \in Visits(S)
  BY <1>1, <1>3, <1>4, InVisits
<1> QED
  BY <1>4, <1>5 DEF D, c, Widened

\* The recursion of Depths has a solution.
LEMMA Searched ==
  ASSUME NEW S, NEW E, Graph(E, S), NEW p \in S, NEW nodes
  PROVE  \E v \in [Nat -> Visits(S)] : Searches(v, E, p) /\ Depths(E, p, nodes) = v[Cardinality(nodes)]
<1> DEFINE W == Visits(S)
           a == [n \in {p} |-> 0]
           s == [k \in Nat |-> [b \in W |-> Wider(E, b, k + 1)]]
           Solves(g) == g = [k \in Nat |-> IF k = 0 THEN [n \in {p} |-> 0]
                                           ELSE LET before == g[k - 1]
                                                    met == UNION {GetNeighbors(E, n) : n \in DOMAIN before}
                                                IN  [n \in DOMAIN before \cup met |-> IF n \in DOMAIN before THEN before[n] ELSE k]]
           v == CHOOSE g : Solves(g)
<1>1. a \in W
  BY InVisits
<1>2. s \in [Nat -> [W -> W]]
  <2>1. ASSUME NEW k \in Nat, NEW b \in W PROVE Wider(E, b, k + 1) \in W
    <3> DEFINE j == k + 1
    <3>1. j \in Nat
      OBVIOUS
    <3> HIDE DEF j
    <3>2. Wider(E, b, j) \in W
      BY <3>1, WiderVisits
    <3> QED
      BY <3>2 DEF j
  <2> HIDE DEF W
  <2> QED
    BY <2>1
<1>3. PICK f \in [Nat -> W] : f[0] = a /\ \A k \in Nat : f[k + 1] = s[k][f[k]]
  <2> HIDE DEF W, a, s
  <2>1. \E f : Iterated(f, W, a, s)
    BY <1>1, <1>2, Iterates
  <2> QED
    BY <2>1 DEF Iterated
<1>4. \A g : Solves(g) <=> g = [k \in Nat |-> IF k = 0 THEN a ELSE Wider(E, g[k - 1], k)]
  BY DEF Wider, Met
<1>5. Depths(E, p, nodes) = v[Cardinality(nodes)]
  BY DEF Depths
<1> HIDE DEF Solves, a
<1>6. Solves(f)
  <2>1. f = [k \in Nat |-> f[k]]
    OBVIOUS
  <2>2. ASSUME NEW k \in Nat PROVE f[k] = IF k = 0 THEN a ELSE Wider(E, f[k - 1], k)
    <3>1. CASE k = 0
      BY <1>3, <3>1
    <3>2. CASE k # 0
      <4>1. k - 1 \in Nat /\ (k - 1) + 1 = k
        BY <3>2
      <4>2. f[k] = s[k - 1][f[k - 1]]
        BY <1>3, <4>1
      <4>3. f[k - 1] \in W
        BY <4>1
      <4>4. s[k - 1][f[k - 1]] = Wider(E, f[k - 1], k)
        BY <4>1, <4>3
      <4> QED
        BY <3>2, <4>2, <4>4
    <3> QED
      BY <3>1, <3>2
  <2> QED
    BY <1>4, <2>1, <2>2
<1>7. Solves(v)
  BY <1>6
<1> HIDE DEF v
<1>8. v = [k \in Nat |-> IF k = 0 THEN a ELSE Wider(E, v[k - 1], k)]
  BY <1>4, <1>7
<1>9. v[0] = a /\ \A k \in Nat : v[k + 1] = Wider(E, v[k], k + 1)
  <2>1. v[0] = a
    BY <1>8
  <2>2. ASSUME NEW k \in Nat PROVE v[k + 1] = Wider(E, v[k], k + 1)
    <3>1. k + 1 \in Nat /\ k + 1 # 0 /\ (k + 1) - 1 = k
      OBVIOUS
    <3> QED
      BY <1>8, <3>1
  <2> QED
    BY <2>1, <2>2
<1>10. v \in [Nat -> W]
  <2> DEFINE T == {k \in Nat : v[k] \in W}
  <2>1. 0 \in T
    BY <1>1, <1>9
  <2>2. ASSUME NEW k \in T PROVE k + 1 \in T
    <3>1. k \in Nat /\ k + 1 \in Nat /\ v[k] \in W
      OBVIOUS
    <3>2. Wider(E, v[k], k + 1) \in W
      BY <3>1, WiderVisits
    <3> QED
      BY <1>9, <3>1, <3>2
  <2>3. T = Nat
    <3>1. T \in SUBSET Nat
      OBVIOUS
    <3> HIDE DEF T
    <3> QED
      BY <2>1, <2>2, <3>1, Induct
  <2> QED
    BY <1>8, <2>3
<1>11. Searches(v, E, p)
  BY <1>9 DEF Searches, a
<1> QED
  BY <1>5, <1>10, <1>11

\* One depth further: the neighbours of what was visited.
LEMMA SearchStep ==
  ASSUME NEW S, NEW E, Graph(E, S), NEW p \in S, NEW v \in [Nat -> Visits(S)], Searches(v, E, p), NEW k \in Nat
  PROVE  v[k + 1] \in Visits(S) /\ Widened(v[k + 1], v[k], E, k + 1)
<1> DEFINE b == v[k]
           j == k + 1
<1>1. b \in Visits(S) /\ j \in Nat /\ v[j] = Wider(E, b, j)
  BY DEF Searches
<1> HIDE DEF b, j
<1>2. Wider(E, b, j) \in Visits(S) /\ Widened(Wider(E, b, j), b, E, j)
  BY <1>1, WiderVisits
<1>3. v[j] \in Visits(S) /\ Widened(v[j], b, E, j)
  BY <1>1, <1>2
<1> QED
  BY <1>3 DEF b, j

\* A node is met at most once, at the depth that is kept for it.
LEMMA SearchDepths ==
  ASSUME NEW S, NEW E, Graph(E, S), NEW p \in S, NEW v \in [Nat -> Visits(S)], Searches(v, E, p)
  PROVE  \A k \in Nat : /\ DOMAIN v[k] \subseteq S
                        /\ \A n \in DOMAIN v[k] : v[k][n] \in Nat /\ v[k][n] <= k /\ n \in DOMAIN v[v[k][n]]
<1> DEFINE Good(k) == \A n \in DOMAIN v[k] : v[k][n] \in Nat /\ v[k][n] <= k /\ n \in DOMAIN v[v[k][n]]
           T == {k \in Nat : Good(k)}
<1>1. 0 \in T
  <2>1. v[0] = [n \in {p} |-> 0]
    BY DEF Searches
  <2> QED
    BY <2>1
<1>2. ASSUME NEW k \in T PROVE k + 1 \in T
  <2>1. k \in Nat /\ k + 1 \in Nat /\ Good(k)
    OBVIOUS
  <2>2. \A n \in DOMAIN v[k + 1] : v[k + 1][n] = IF n \in DOMAIN v[k] THEN v[k][n] ELSE k + 1
    BY <2>1, SearchStep DEF Widened
  <2>3. ASSUME NEW n \in DOMAIN v[k + 1]
        PROVE  v[k + 1][n] \in Nat /\ v[k + 1][n] <= k + 1 /\ n \in DOMAIN v[v[k + 1][n]]
    <3>1. CASE n \in DOMAIN v[k]
      <4>1. v[k + 1][n] = v[k][n] /\ v[k][n] \in Nat /\ v[k][n] <= k /\ n \in DOMAIN v[v[k][n]]
        BY <2>1, <2>2, <3>1
      <4> QED
        BY <2>1, <4>1
    <3>2. CASE n \notin DOMAIN v[k]
      <4>1. v[k + 1][n] = k + 1
        BY <2>2, <3>2
      <4> QED
        BY <2>1, <4>1
    <3> QED
      BY <3>1, <3>2
  <2> QED
    BY <2>1, <2>3
<1>3. T = Nat
  <2>1. T \in SUBSET Nat
    OBVIOUS
  <2> HIDE DEF T
  <2> QED
    BY <1>1, <1>2, <2>1, Induct
<1>4. ASSUME NEW k \in Nat PROVE DOMAIN v[k] \subseteq S
  <2>1. v[k] \in Visits(S)
    OBVIOUS
  <2> QED
    BY <2>1, InVisits
<1> QED
  BY <1>3, <1>4

\* What was visited stays, with its depth.
LEMMA SearchGrows ==
  ASSUME NEW S, NEW E, Graph(E, S), NEW p \in S, NEW v \in [Nat -> Visits(S)], Searches(v, E, p)
  PROVE  \A j, k \in Nat : j <= k => \A n \in DOMAIN v[j] : n \in DOMAIN v[k] /\ v[k][n] = v[j][n]
<1> SUFFICES ASSUME NEW j \in Nat, NEW k \in Nat, j <= k, NEW n \in DOMAIN v[j]
             PROVE  n \in DOMAIN v[k] /\ v[k][n] = v[j][n]
  OBVIOUS
<1> DEFINE T == {i \in Nat : n \in DOMAIN v[j + i] /\ v[j + i][n] = v[j][n]}
<1>1. 0 \in T
  <2>1. j + 0 = j
    OBVIOUS
  <2> QED
    BY <2>1
<1>2. ASSUME NEW i \in T PROVE i + 1 \in T
  <2> DEFINE l == j + i
  <2>1. l \in Nat /\ j + (i + 1) = l + 1 /\ i + 1 \in Nat /\ n \in DOMAIN v[l] /\ v[l][n] = v[j][n]
    OBVIOUS
  <2> HIDE DEF l, T
  <2>2. /\ DOMAIN v[l + 1] = DOMAIN v[l] \cup Met(E, DOMAIN v[l])
        /\ \A x \in DOMAIN v[l + 1] : v[l + 1][x] = IF x \in DOMAIN v[l] THEN v[l][x] ELSE l + 1
    BY <2>1, SearchStep DEF Widened
  <2>3. n \in DOMAIN v[l + 1] /\ v[l + 1][n] = v[j][n]
    BY <2>1, <2>2
  <2> QED
    BY <2>1, <2>3 DEF T
<1>3. T = Nat
  <2>1. T \in SUBSET Nat
    OBVIOUS
  <2> HIDE DEF T
  <2> QED
    BY <1>1, <1>2, <2>1, Induct
<1>4. k - j \in T /\ j + (k - j) = k
  <2> HIDE DEF T
  <2>1. k - j \in Nat /\ j + (k - j) = k
    OBVIOUS
  <2> QED
    BY <1>3, <2>1
<1> QED
  BY <1>4

\* The search has met all that it can after as many steps as there are nodes.
LEMMA SearchEnds ==
  ASSUME NEW S, IsFiniteSet(S), NEW E, Graph(E, S), NEW p \in S, NEW v \in [Nat -> Visits(S)], Searches(v, E, p)
  PROVE  Cardinality(S) \in Nat /\ \A k \in Nat : DOMAIN v[k] \subseteq DOMAIN v[Cardinality(S)]
<1> DEFINE c == Cardinality(S)
           size(k) == Cardinality(DOMAIN v[k])
           T == {k \in Nat : size(k) <= k}
<1>1. c \in Nat
  BY FS_CardinalityType
<1>2. ASSUME NEW k \in Nat PROVE IsFiniteSet(DOMAIN v[k]) /\ size(k) \in Nat /\ size(k) <= c
  <2>1. DOMAIN v[k] \subseteq S
    BY SearchDepths
  <2> QED
    BY <2>1, FS_Subset, FS_CardinalityType
<1>3. T \in SUBSET Nat /\ c \in T
  BY <1>1, <1>2
<1>4. PICK m \in T : \A k \in T : m <= k
  <2> HIDE DEF T
  <2> QED
    BY <1>3, Least
<1>5. m \in Nat /\ m <= c /\ size(m) <= m
  BY <1>3, <1>4
<1>6. m # 0
  <2>1. v[0] = [n \in {p} |-> 0]
    BY DEF Searches
  <2>2. DOMAIN v[0] = {p}
    BY <2>1
  <2>3. size(0) = 1
    BY <2>2, FS_Singleton
  <2> QED
    BY <1>5, <2>3
<1> DEFINE l == m - 1
<1>7. l \in Nat /\ l + 1 = m /\ l < m /\ l <= c
  BY <1>1, <1>5, <1>6
<1>8. ~(size(l) <= l)
  <2>1. l \notin T
    BY <1>4, <1>5, <1>7
  <2> QED
    BY <1>7, <2>1
<1> HIDE DEF l
<1>9. DOMAIN v[l] \subseteq DOMAIN v[m]
  <2>1. l <= m
    BY <1>5, <1>7
  <2> QED
    BY <1>5, <1>7, <2>1, SearchGrows
<1>10. DOMAIN v[l] = DOMAIN v[m]
  <2>1. size(l) <= size(m)
    BY <1>2, <1>5, <1>9, FS_Subset
  <2>2. size(l) = size(m)
    <3>1. size(l) \in Nat /\ size(m) \in Nat
      BY <1>2, <1>5, <1>7
    <3> HIDE DEF size
    <3> QED
      BY <1>5, <1>7, <1>8, <2>1, <3>1
  <2> QED
    BY <1>2, <1>5, <1>9, <2>2, FS_Subset
<1> DEFINE U == {i \in Nat : DOMAIN v[l + i] = DOMAIN v[l]}
<1>11. 0 \in U
  <2>1. l + 0 = l
    BY <1>7
  <2> QED
    BY <2>1
<1>12. ASSUME NEW i \in U PROVE i + 1 \in U
  <2> DEFINE j == l + i
  <2>1. j \in Nat /\ l + (i + 1) = j + 1 /\ i + 1 \in Nat /\ DOMAIN v[j] = DOMAIN v[l]
    BY <1>7
  <2> HIDE DEF j
  <2>2. DOMAIN v[j + 1] = DOMAIN v[j] \cup Met(E, DOMAIN v[j])
    <3>1. j \in Nat
      BY <2>1
    <3> HIDE DEF U, T, c
    <3>2. Widened(v[j + 1], v[j], E, j + 1)
      BY <3>1, SearchStep
    <3> QED
      BY <3>2 DEF Widened
  <2>3. DOMAIN v[l + 1] = DOMAIN v[l] \cup Met(E, DOMAIN v[l])
    BY <1>7, SearchStep DEF Widened
  <2>4. DOMAIN v[j + 1] = DOMAIN v[l]
    BY <1>7, <1>10, <2>1, <2>2, <2>3
  <2> QED
    BY <2>1, <2>4
<1>13. U = Nat
  <2>1. U \in SUBSET Nat
    OBVIOUS
  <2> HIDE DEF U
  <2> QED
    BY <1>11, <1>12, <2>1, Induct
<1>14. ASSUME NEW k \in Nat PROVE DOMAIN v[k] \subseteq DOMAIN v[c]
  <2>1. DOMAIN v[l] \subseteq DOMAIN v[c]
    BY <1>1, <1>7, SearchGrows
  <2>2. CASE k <= l
    <3>1. DOMAIN v[k] \subseteq DOMAIN v[l]
      BY <1>7, <2>2, SearchGrows
    <3> QED
      BY <2>1, <3>1
  <2>3. CASE ~(k <= l)
    <3>1. k - l \in U /\ l + (k - l) = k
      <4>1. l \in Nat
        BY <1>7
      <4> HIDE DEF U, T, c
      <4>2. k - l \in Nat /\ l + (k - l) = k
        BY <2>3, <4>1
      <4> QED
        BY <1>13, <4>2
    <3>2. DOMAIN v[k] = DOMAIN v[l]
      BY <3>1
    <3> QED
      BY <2>1, <3>2
  <2> QED
    BY <2>2, <2>3
<1> QED
  BY <1>1, <1>14

\* What one visits from a neighbour one visits one step later from here.
LEMMA SearchFromNeighbour ==
  ASSUME NEW S, NEW E, Graph(E, S), NEW p \in S, NEW v \in [Nat -> Visits(S)], Searches(v, E, p),
         NEW q \in S, NEW w \in [Nat -> Visits(S)], Searches(w, E, q), q \in GetNeighbors(E, p)
  PROVE  \A j \in Nat : DOMAIN w[j] \subseteq DOMAIN v[j + 1]
<1> DEFINE T == {j \in Nat : DOMAIN w[j] \subseteq DOMAIN v[j + 1]}
<1>1. 0 \in T
  <2>1. DOMAIN v[0] = {p} /\ DOMAIN w[0] = {q}
    BY DEF Searches
  <2>2. Widened(v[0 + 1], v[0], E, 0 + 1)
    <3>1. 0 \in Nat
      OBVIOUS
    <3> HIDE DEF T
    <3> QED
      BY <3>1, SearchStep
  <2> QED
    BY <2>1, <2>2 DEF Met, Widened
<1>2. ASSUME NEW j \in T PROVE j + 1 \in T
  <2> DEFINE i == j + 1
  <2>1. j \in Nat /\ i \in Nat /\ DOMAIN w[j] \subseteq DOMAIN v[i]
    OBVIOUS
  <2>2. DOMAIN w[i] = DOMAIN w[j] \cup Met(E, DOMAIN w[j])
    BY <2>1, SearchStep DEF Widened
  <2> HIDE DEF i
  <2>3. DOMAIN v[i + 1] = DOMAIN v[i] \cup Met(E, DOMAIN v[i])
    BY <2>1, SearchStep DEF Widened
  <2>4. DOMAIN w[i] \subseteq DOMAIN v[i + 1]
    BY <2>1, <2>2, <2>3 DEF Met
  <2> QED
    BY <2>1, <2>4 DEF i
<1>3. T = Nat
  <2>1. T \in SUBSET Nat
    OBVIOUS
  <2> HIDE DEF T
  <2> QED
    BY <1>1, <1>2, <2>1, Induct
<1> QED
  BY <1>3
-----------------------------------------------------------------------------
(* How far a relay is.                                                     *)

\* The graph and the distances that a node can have.
Mesh ==
  /\ Graph(edges, Dests)
  /\ DOMAIN distances \subseteq Dests /\ \A p \in DOMAIN distances : distances[p] \in Nat

\* The peers that say a relay is at most h hops from them.
Near(h) == {p \in Reaching(distances) : distances[p] <= h}

\* The nodes with a neighbour among these.
Adjacent(nodes) == {n \in DOMAIN edges : edges[n] \cap nodes # {}}

\* Sets that each depend on the one before.
LEMMA Layers ==
  ASSUME NEW S, NEW N \in [Nat -> SUBSET S], NEW A \in [SUBSET S -> SUBSET S]
  PROVE  \E f \in [Nat -> SUBSET S] : f[0] = N[0] /\ \A k \in Nat : f[k + 1] = N[k + 1] \cup A[f[k]]
<1> DEFINE W == SUBSET S
           a == N[0]
           s == [k \in Nat |-> [D \in W |-> N[k + 1] \cup A[D]]]
<1>1. a \in W
  OBVIOUS
<1>2. s \in [Nat -> [W -> W]]
  OBVIOUS
<1>3. PICK f \in [Nat -> W] : f[0] = a /\ \A k \in Nat : f[k + 1] = s[k][f[k]]
  <2> HIDE DEF W, a, s
  <2>1. \E f : Iterated(f, W, a, s)
    BY <1>1, <1>2, Iterates
  <2> QED
    BY <2>1 DEF Iterated
<1> QED
  BY <1>3

\* The recursion of Within has a solution.
LEMMA WithinIs ==
  ASSUME Mesh
  PROVE  /\ Within[0] = Near(0)
         /\ \A h \in Nat : Within[h + 1] = Near(h + 1) \cup Adjacent(Within[h])
         /\ \A h \in Nat : Within[h] \subseteq Dests
<1> DEFINE W == SUBSET Dests
           N == [h \in Nat |-> Near(h)]
           A == [D \in W |-> Adjacent(D)]
           Solves(g) == g = [h \in Nat |->
                               LET near == {p \in Reaching(distances) : distances[p] <= h}
                                   closer == IF h = 0 THEN {} ELSE g[h - 1]
                               IN  near \cup {n \in DOMAIN edges : edges[n] \cap closer # {}}]
           v == CHOOSE g : Solves(g)
<1>1. /\ \A h : Near(h) \in W
      /\ \A D : Adjacent(D) \in W
  BY DEF Near, Adjacent, Reaching, Mesh, Graph
<1>2. N \in [Nat -> W] /\ A \in [W -> W]
  BY <1>1
<1>3. PICK f \in [Nat -> W] : f[0] = N[0] /\ \A k \in Nat : f[k + 1] = N[k + 1] \cup A[f[k]]
  <2> HIDE DEF N, A, Solves, v
  <2> QED
    BY <1>2, Layers
<1>4. \A g : Solves(g) <=> g = [h \in Nat |-> Near(h) \cup Adjacent(IF h = 0 THEN {} ELSE g[h - 1])]
  BY DEF Near, Adjacent
<1>5. Within = v
  BY DEF Within
<1> HIDE DEF Solves
<1>6. Adjacent({}) = {}
  BY DEF Adjacent
<1>7. Solves(f)
  <2>1. f = [h \in Nat |-> f[h]]
    OBVIOUS
  <2>2. ASSUME NEW h \in Nat PROVE f[h] = Near(h) \cup Adjacent(IF h = 0 THEN {} ELSE f[h - 1])
    <3>1. CASE h = 0
      BY <1>3, <1>6, <3>1
    <3>2. CASE h # 0
      <4>1. h - 1 \in Nat /\ (h - 1) + 1 = h
        BY <3>2
      <4>2. f[h] = N[h] \cup A[f[h - 1]]
        BY <1>3, <4>1
      <4>3. f[h - 1] \in W
        BY <4>1
      <4>4. N[h] \cup A[f[h - 1]] = Near(h) \cup Adjacent(f[h - 1])
        BY <4>1, <4>3
      <4> QED
        BY <3>2, <4>2, <4>4
    <3> QED
      BY <3>1, <3>2
  <2> QED
    BY <1>4, <2>1, <2>2
<1>8. Solves(v)
  BY <1>7
<1> HIDE DEF v
<1>9. v = [h \in Nat |-> Near(h) \cup Adjacent(IF h = 0 THEN {} ELSE v[h - 1])]
  BY <1>4, <1>8
<1>10. v[0] = Near(0)
  BY <1>6, <1>9
<1>11. ASSUME NEW h \in Nat PROVE v[h + 1] = Near(h + 1) \cup Adjacent(v[h])
  <2>1. h + 1 \in Nat /\ h + 1 # 0 /\ (h + 1) - 1 = h
    OBVIOUS
  <2> QED
    BY <1>9, <2>1
<1>12. ASSUME NEW h \in Nat PROVE v[h] \subseteq Dests
  BY <1>1, <1>9
<1> QED
  BY <1>5, <1>10, <1>11, <1>12

\* Who has a relay within h hops has one within more.
LEMMA WithinGrows ==
  ASSUME Mesh
  PROVE  \A h, k \in Nat : h <= k => Within[h] \subseteq Within[k]
<1> DEFINE T == {h \in Nat : Within[h] \subseteq Within[h + 1]}
<1>1. \A h \in Nat : Near(h) \subseteq Near(h + 1)
  BY DEF Near, Reaching, Mesh
<1>2. 0 \in T
  <2>1. Within[0] = Near(0) /\ Within[0 + 1] = Near(0 + 1) \cup Adjacent(Within[0])
    BY WithinIs
  <2> QED
    BY <1>1, <2>1
<1>3. ASSUME NEW h \in T PROVE h + 1 \in T
  <2> DEFINE j == h + 1
  <2>1. h \in Nat /\ j \in Nat /\ Within[h] \subseteq Within[j]
    OBVIOUS
  <2>2. Within[j] = Near(j) \cup Adjacent(Within[h])
    BY <2>1, WithinIs
  <2> HIDE DEF j
  <2>3. Within[j + 1] = Near(j + 1) \cup Adjacent(Within[j])
    BY <2>1, WithinIs
  <2>4. Adjacent(Within[h]) \subseteq Adjacent(Within[j])
    BY <2>1 DEF Adjacent
  <2>5. Within[j] \subseteq Within[j + 1]
    BY <1>1, <2>1, <2>2, <2>3, <2>4
  <2> QED
    BY <2>1, <2>5 DEF j
<1>4. T = Nat
  <2>1. T \in SUBSET Nat
    OBVIOUS
  <2> HIDE DEF T
  <2> QED
    BY <1>2, <1>3, <2>1, Induct
<1> SUFFICES ASSUME NEW h \in Nat, NEW k \in Nat, h <= k PROVE Within[h] \subseteq Within[k]
  OBVIOUS
<1> DEFINE U == {i \in Nat : Within[h] \subseteq Within[h + i]}
<1>5. 0 \in U
  <2>1. h + 0 = h
    OBVIOUS
  <2> QED
    BY <2>1
<1>6. ASSUME NEW i \in U PROVE i + 1 \in U
  <2> DEFINE l == h + i
  <2>1. l \in Nat /\ h + (i + 1) = l + 1 /\ i + 1 \in Nat /\ Within[h] \subseteq Within[l]
    OBVIOUS
  <2> HIDE DEF l
  <2>2. Within[l] \subseteq Within[l + 1]
    BY <1>4, <2>1
  <2> QED
    BY <2>1, <2>2
<1>7. U = Nat
  <2>1. U \in SUBSET Nat
    OBVIOUS
  <2> HIDE DEF U
  <2> QED
    BY <1>5, <1>6, <2>1, Induct
<1>8. k - h \in Nat /\ h + (k - h) = k
  <2> HIDE DEF U, T
  <2> QED
    OBVIOUS
<1>9. k - h \in U
  BY <1>7, <1>8
<1> QED
  BY <1>8, <1>9

\* What the search meets lies so many hops ahead.
LEMMA SearchWithin ==
  ASSUME Mesh, NEW p \in Dests, NEW v \in [Nat -> Visits(Dests)], Searches(v, edges, p)
  PROVE  \A j, h \in Nat : \A n \in DOMAIN v[j] : n \in Within[h] => p \in Within[h + j]
<1> DEFINE Good(j) == \A n \in DOMAIN v[j], h \in Nat : n \in Within[h] => p \in Within[h + j]
           T == {j \in Nat : Good(j)}
<1>1. Graph(edges, Dests)
  BY DEF Mesh
<1>2. 0 \in T
  <2>1. DOMAIN v[0] = {p}
    BY DEF Searches
  <2>2. \A h \in Nat : h + 0 = h
    OBVIOUS
  <2> QED
    BY <2>1, <2>2
<1>3. ASSUME NEW j \in T PROVE j + 1 \in T
  <2>1. j \in Nat /\ j + 1 \in Nat /\ Good(j)
    OBVIOUS
  <2>2. Widened(v[j + 1], v[j], edges, j + 1)
    <3>1. j \in Nat
      BY <2>1
    <3> HIDE DEF T, Good
    <3> QED
      BY <1>1, <3>1, SearchStep
  <2>3. ASSUME NEW n \in DOMAIN v[j + 1], NEW h \in Nat, n \in Within[h] PROVE p \in Within[h + (j + 1)]
    <3>1. h + 1 \in Nat /\ h + j \in Nat /\ h + (j + 1) \in Nat /\ h + j <= h + (j + 1) /\ (h + 1) + j = h + (j + 1)
      BY <2>1
    <3>2. CASE n \in DOMAIN v[j]
      <4>1. p \in Within[h + j]
        BY <2>1, <2>3, <3>2
      <4> QED
        BY <3>1, <4>1, WithinGrows
    <3>3. CASE n \notin DOMAIN v[j]
      <4>1. PICK m \in DOMAIN v[j] : n \in GetNeighbors(edges, m)
        BY <2>2, <3>3 DEF Widened, Met
      <4>2. m \in Adjacent(Within[h])
        BY <2>3, <4>1 DEF Adjacent, GetNeighbors
      <4>3. m \in Within[h + 1]
        BY <4>2, WithinIs
      <4>4. p \in Within[(h + 1) + j]
        BY <2>1, <3>1, <4>1, <4>3
      <4> QED
        BY <3>1, <4>4
    <3> QED
      BY <3>2, <3>3
  <2> QED
    BY <2>1, <2>3
<1>4. T = Nat
  <2>1. T \in SUBSET Nat
    OBVIOUS
  <2> HIDE DEF T
  <2> QED
    BY <1>2, <1>3, <2>1, Induct
<1> QED
  BY <1>4

\* Does the search meet a peer that puts a relay at most h hops away?
Finds(v, h) == \E j \in Nat : \E n \in DOMAIN v[j] \cap Reaching(distances) : j + distances[n] <= h

\* The search finds every relay that is at most h hops away.
LEMMA SearchFinds ==
  ASSUME Mesh
  PROVE  \A h \in Nat : \A p \in Within[h], v \in [Nat -> Visits(Dests)] : Searches(v, edges, p) => Finds(v, h)
<1> DEFINE Good(h) == \A p \in Within[h], v \in [Nat -> Visits(Dests)] : Searches(v, edges, p) => Finds(v, h)
           T == {h \in Nat : Good(h)}
<1>1. Graph(edges, Dests)
  BY DEF Mesh
<1>2. ASSUME NEW h \in Nat, NEW p \in Near(h), NEW v, Searches(v, edges, p) PROVE Finds(v, h)
  <2>1. DOMAIN v[0] = {p}
    BY <1>2 DEF Searches
  <2>2. p \in Reaching(distances) /\ distances[p] <= h /\ distances[p] \in Nat
    BY DEF Near, Mesh, Reaching
  <2>3. 0 + distances[p] <= h
    BY <2>2
  <2>4. 0 \in Nat /\ p \in DOMAIN v[0] \cap Reaching(distances)
    BY <2>1, <2>2
  <2> QED
    BY <2>3, <2>4 DEF Finds
<1>3. 0 \in T
  <2>1. Within[0] = Near(0) /\ 0 \in Nat
    BY WithinIs
  <2> QED
    BY <1>2, <2>1
<1>4. ASSUME NEW h \in T PROVE h + 1 \in T
  <2>1. h \in Nat /\ h + 1 \in Nat /\ Good(h)
    OBVIOUS
  <2>2. ASSUME NEW p \in Within[h + 1], NEW v \in [Nat -> Visits(Dests)], Searches(v, edges, p)
        PROVE  Finds(v, h + 1)
    <3>1. p \in Near(h + 1) \cup Adjacent(Within[h])
      BY <2>1, WithinIs
    <3>2. CASE p \in Near(h + 1)
      BY <1>2, <2>1, <2>2, <3>2
    <3>3. CASE p \in Adjacent(Within[h])
      <4>1. PICK q \in Within[h] : q \in GetNeighbors(edges, p) /\ p \in Dests /\ q \in Dests
        BY <1>1, <3>3 DEF Adjacent, GetNeighbors, Graph
      <4>2. PICK w \in [Nat -> Visits(Dests)] : Searches(w, edges, q)
        BY <1>1, <4>1, Searched
      <4>3. Finds(w, h)
        BY <2>1, <4>1, <4>2
      <4>8. PICK j \in Nat : \E n \in DOMAIN w[j] \cap Reaching(distances) : j + distances[n] <= h
        BY <4>3 DEF Finds
      <4>4. PICK n \in DOMAIN w[j] \cap Reaching(distances) : j + distances[n] <= h
        BY <4>8
      <4>5. DOMAIN w[j] \subseteq DOMAIN v[j + 1]
        <5> HIDE DEF T, Good
        <5> QED
          BY <1>1, <2>2, <4>1, <4>2, SearchFromNeighbour
      <4>6. distances[n] \in Nat
        BY DEF Mesh, Reaching
      <4>7. j + 1 \in Nat /\ (j + 1) + distances[n] <= h + 1
        BY <2>1, <4>4, <4>6
      <4> QED
        BY <4>5, <4>7 DEF Finds
    <3> QED
      BY <3>1, <3>2, <3>3
  <2> QED
    BY <2>1, <2>2
<1>5. T = Nat
  <2>1. T \in SUBSET Nat
    OBVIOUS
  <2> HIDE DEF T
  <2> QED
    BY <1>3, <1>4, <2>1, Induct
<1> QED
  BY <1>5
\* A relay that a peer itself says is near.
LEMMA NearWithin ==
  ASSUME Mesh, NEW g \in Nat
  PROVE  Near(g) \subseteq Within[g]
<1>1. CASE g = 0
  BY <1>1, WithinIs
<1>2. CASE g # 0
  <2>1. g - 1 \in Nat /\ (g - 1) + 1 = g
    BY <1>2
  <2>2. Within[(g - 1) + 1] = Near((g - 1) + 1) \cup Adjacent(Within[g - 1])
    BY <2>1, WithinIs
  <2> QED
    BY <2>1, <2>2
<1> QED
  BY <1>1, <1>2

\* min_distance of a node of this mesh.
HopsFrom(p) == MinDistance(edges, distances, p, Dests)

\* Below 255 min_distance is the least number of hops to a relay.
LEMMA HopsToRelay ==
  ASSUME Mesh, IsFiniteSet(Dests), NEW p \in Dests
  PROVE  HopsFrom(p) \in Nat /\ \A h \in Nat : h < UNREACHABLE => (p \in Within[h] <=> HopsFrom(p) <= h)
<1> DEFINE c == Cardinality(Dests)
<1>1. Graph(edges, Dests)
  BY DEF Mesh
<1>2. PICK v \in [Nat -> Visits(Dests)] : Searches(v, edges, p) /\ Depths(edges, p, Dests) = v[c]
  BY <1>1, Searched
<1>3. c \in Nat /\ \A k \in Nat : DOMAIN v[k] \subseteq DOMAIN v[c]
  BY <1>1, <1>2, SearchEnds
<1> DEFINE d == v[c]
           T == {d[n] + distances[n] : n \in DOMAIN d \cap DOMAIN distances} \cup {USIZE_MAX}
<1>4. HopsFrom(p) = Min(T)
  BY <1>2 DEF HopsFrom, MinDistance
<1> HIDE DEF c
<1>5. \A k \in Nat : \A n \in DOMAIN v[k] : v[k][n] \in Nat /\ v[k][n] <= k /\ n \in DOMAIN v[v[k][n]]
  BY <1>1, <1>2, SearchDepths
<1>6. \A j, k \in Nat : j <= k => \A n \in DOMAIN v[j] : n \in DOMAIN v[k] /\ v[k][n] = v[j][n]
  BY <1>1, <1>2, SearchGrows
<1>7. \A n \in DOMAIN d : d[n] \in Nat
  BY <1>3, <1>5
<1>8. \A n \in DOMAIN distances : distances[n] \in Nat
  BY DEF Mesh
<1>9. T \in SUBSET Nat /\ T # {}
  <2>1. \A n \in DOMAIN d \cap DOMAIN distances : d[n] + distances[n] \in Nat
    BY <1>7, <1>8
  <2> HIDE DEF d
  <2> QED
    BY <2>1 DEF USIZE_MAX
<1>10. Min(T) \in T /\ \A n \in T : Min(T) <= n
  <2> HIDE DEF T
  <2> QED
    BY <1>9, MinIs
<1> DEFINE m == Min(T)
<1>11. m \in Nat
  <2> HIDE DEF T
  <2> QED
    BY <1>9, <1>10
<1>12. ASSUME NEW h \in Nat, p \in Within[h] PROVE m <= h
  <2>1. Finds(v, h)
    BY <1>2, <1>12, SearchFinds
  <2>2. PICK j \in Nat : \E n \in DOMAIN v[j] \cap Reaching(distances) : j + distances[n] <= h
    BY <2>1 DEF Finds
  <2>3. PICK n \in DOMAIN v[j] \cap Reaching(distances) : j + distances[n] <= h
    BY <2>2
  <2>4. n \in DOMAIN d \cap DOMAIN distances
    BY <1>3, <2>3 DEF Reaching
  <2>5. d[n] = v[j][n]
    <3>1. CASE j <= c
      BY <1>3, <1>6, <2>3, <3>1
    <3>2. CASE c <= j
      BY <1>3, <1>6, <2>4, <3>2
    <3> QED
      BY <1>3, <3>1, <3>2
  <2>6. d[n] <= j /\ d[n] \in Nat /\ distances[n] \in Nat
    BY <1>5, <1>8, <2>3, <2>4, <2>5
  <2>7. m <= d[n] + distances[n]
    BY <1>10, <2>4
  <2> HIDE DEF m, d
  <2> QED
    BY <1>11, <2>3, <2>6, <2>7
<1>13. ASSUME NEW h \in Nat, h < UNREACHABLE, m <= h PROVE p \in Within[h]
  <2>1. PICK n \in DOMAIN d \cap DOMAIN distances : m = d[n] + distances[n]
    <3>1. m # USIZE_MAX
      <4> HIDE DEF m
      <4> QED
        BY <1>11, <1>13 DEF USIZE_MAX, UNREACHABLE
    <3>2. m \in T
      BY <1>10
    <3> HIDE DEF m
    <3> QED
      BY <3>1, <3>2
  <2> DEFINE i == d[n]
             g == distances[n]
  <2>2. i \in Nat /\ g \in Nat /\ n \in DOMAIN v[i]
    BY <1>3, <1>5, <1>8, <2>1
  <2>3. m = i + g
    BY <2>1
  <2> HIDE DEF m
  <2>4. g < UNREACHABLE /\ g <= g /\ g + i <= h /\ g + i \in Nat
    <3> HIDE DEF i, g, d, T
    <3> QED
      BY <1>11, <1>13, <2>2, <2>3 DEF UNREACHABLE
  <2>5. n \in Near(g)
    BY <2>1, <2>4 DEF Near, Reaching
  <2> HIDE DEF i, g
  <2>6. n \in Within[g]
    BY <2>2, <2>5, NearWithin
  <2>7. p \in Within[g + i]
    BY <1>2, <2>2, <2>6, SearchWithin
  <2> QED
    BY <2>4, <2>7, WithinGrows
<1> QED
  BY <1>4, <1>11, <1>12, <1>13
-----------------------------------------------------------------------------
(* Sorting by a key.                                                       *)

\* The positions that come before position i, and the one that comes k-th.
Earlier(key, n, i) == {j \in 1..n : key[j] < key[i] \/ (key[j] = key[i] /\ j < i)}

Position(key, n, k) == CHOOSE i \in 1..n : Cardinality(Earlier(key, n, i)) = k - 1

\* Every position has its place, and the keys ascend.
LEMMA SortsByKey ==
  ASSUME NEW n \in Nat, NEW key \in [1..n -> Nat]
  PROVE  /\ \A k \in 1..n : Position(key, n, k) \in 1..n
         /\ \A i \in 1..n : \E k \in 1..n : Position(key, n, k) = i
         /\ \A k, l \in 1..n : k <= l => key[Position(key, n, k)] <= key[Position(key, n, l)]
<1> DEFINE S == 1..n
           B == [i \in S |-> Earlier(key, n, i)]
           at == [k \in S |-> Position(key, n, k)]
<1>1. IsFiniteSet(S) /\ Cardinality(S) = n
  <2>1. IsFiniteSet(S) /\ Cardinality(S) = IF 1 > n THEN 0 ELSE n - 1 + 1
    BY FS_Interval
  <2> QED
    BY <2>1
<1>2. \A i \in S : key[i] \in Nat /\ i \in Nat
  OBVIOUS
<1>3. B \in [S -> SUBSET S]
  BY DEF Earlier
<1>4. \A i \in S : i \notin B[i]
  BY <1>2 DEF Earlier
<1>5. ASSUME NEW i \in S, NEW j \in S, i \in B[j] PROVE B[i] \subseteq B[j]
  <2>1. key[i] < key[j] \/ (key[i] = key[j] /\ i < j)
    BY <1>5 DEF Earlier
  <2>2. ASSUME NEW x \in S, key[x] < key[i] \/ (key[x] = key[i] /\ x < i)
        PROVE  key[x] < key[j] \/ (key[x] = key[j] /\ x < j)
    <3>1. key[x] \in Nat /\ key[i] \in Nat /\ key[j] \in Nat /\ x \in Nat /\ i \in Nat /\ j \in Nat
      BY <1>2
    <3> HIDE DEF S, B
    <3> QED
      BY <2>1, <2>2, <3>1
  <2> QED
    BY <2>2 DEF Earlier
<1>6. \A i, j \in S : i # j => i \in B[j] \/ j \in B[i]
  BY <1>2 DEF Earlier
<1>7. \A i, j \in S : i # j => \/ i \in B[j] /\ B[i] \subseteq B[j]
                               \/ j \in B[i] /\ B[j] \subseteq B[i]
  <2> HIDE DEF B, S
  <2> QED
    BY <1>5, <1>6
<1>8. \A k \in 0..(n - 1) : \E i \in S : Cardinality(B[i]) = k
  <2>1. \A k \in 0..(Cardinality(S) - 1) : \E i \in S : Cardinality(B[i]) = k
    <3> HIDE DEF B, S
    <3> QED
      BY <1>1, <1>3, <1>4, <1>7, Ranks
  <2> HIDE DEF B, S
  <2> QED
    BY <1>1, <2>1
<1>9. ASSUME NEW k \in S PROVE at[k] \in S /\ Cardinality(B[at[k]]) = k - 1
  <2>1. k - 1 \in 0..(n - 1)
    OBVIOUS
  <2>2. PICK i \in S : Cardinality(Earlier(key, n, i)) = k - 1
    BY <1>8, <2>1
  <2>3. Position(key, n, k) \in S /\ Cardinality(Earlier(key, n, Position(key, n, k))) = k - 1
    BY <2>2 DEF Position
  <2> QED
    BY <2>3
<1> HIDE DEF B
<1>10. ASSUME NEW i \in S PROVE IsFiniteSet(B[i]) /\ Cardinality(B[i]) \in Nat /\ Cardinality(B[i]) < n
  <2>1. B[i] # S /\ B[i] \in SUBSET S
    BY <1>3, <1>4
  <2>2. IsFiniteSet(B[i]) /\ Cardinality(B[i]) <= n /\ Cardinality(B[i]) # n
    BY <1>1, <2>1, FS_Subset
  <2>3. Cardinality(B[i]) \in Nat
    BY <2>2, FS_CardinalityType
  <2> QED
    BY <2>2, <2>3
<1>11. ASSUME NEW i \in S, NEW j \in S, i \in B[j] PROVE Cardinality(B[i]) < Cardinality(B[j])
  <2>1. B[i] # B[j] /\ IsFiniteSet(B[j]) /\ B[i] \in SUBSET B[j]
    BY <1>4, <1>5, <1>10, <1>11
  <2>2. Cardinality(B[i]) <= Cardinality(B[j]) /\ Cardinality(B[i]) # Cardinality(B[j])
    BY <2>1, FS_Subset
  <2>3. Cardinality(B[i]) \in Nat /\ Cardinality(B[j]) \in Nat
    BY <1>10
  <2> QED
    BY <2>2, <2>3
<1> HIDE DEF at
<1>12. ASSUME NEW i \in S PROVE \E k \in S : at[k] = i
  <2> DEFINE k == Cardinality(B[i]) + 1
  <2>1. k \in S /\ k - 1 = Cardinality(B[i])
    BY <1>10
  <2> HIDE DEF k
  <2>2. at[k] \in S /\ Cardinality(B[at[k]]) = Cardinality(B[i])
    BY <1>9, <2>1
  <2>3. ~(Cardinality(B[at[k]]) < Cardinality(B[i])) /\ ~(Cardinality(B[i]) < Cardinality(B[at[k]]))
    BY <1>10, <2>2
  <2>4. at[k] = i
    BY <1>6, <1>11, <2>2, <2>3
  <2> QED
    BY <2>1, <2>4
<1>13. ASSUME NEW k \in S, NEW l \in S, k <= l PROVE key[at[k]] <= key[at[l]]
  <2>1. at[k] \in S /\ at[l] \in S /\ Cardinality(B[at[k]]) = k - 1 /\ Cardinality(B[at[l]]) = l - 1
    BY <1>9
  <2>2. at[l] \notin B[at[k]]
    <3> SUFFICES ASSUME at[l] \in B[at[k]] PROVE FALSE
      OBVIOUS
    <3>1. l - 1 < k - 1
      BY <1>11, <2>1
    <3> QED
      BY <1>2, <1>13, <3>1
  <2>3. ~(key[at[l]] < key[at[k]])
    BY <2>1, <2>2 DEF B, Earlier
  <2> QED
    BY <1>2, <2>1, <2>3
<1>14. \A k \in S : Position(key, n, k) = at[k]
  BY DEF at
<1> QED
  BY <1>9, <1>12, <1>13, <1>14
-----------------------------------------------------------------------------
(* The connections that are chosen.                                        *)

\* A sequence of all destinations, the nearer to a relay the earlier.
ByDistance(seq) ==
  /\ seq \in [1..Cardinality(Dests) -> Dests]
  /\ \A p \in Dests : \E k \in 1..Cardinality(Dests) : seq[k] = p
  /\ \A k, l \in 1..Cardinality(Dests) : k <= l => HopsFrom(seq[k]) <= HopsFrom(seq[l])

\* The elements of a sequence in the order of their keys.
Arranged(seq, D, key) ==
  [k \in D |-> seq[CHOOSE i \in D : Cardinality({j \in D : key[j] < key[i] \/ (key[j] = key[i] /\ j < i)}) = k - 1]]

\* Every destination is a connection in some order.
LEMMA ActiveIs ==
  ASSUME IsFiniteSet(Dests)
  PROVE  /\ Cardinality(Dests) \in Nat
         /\ Active \in [1..Cardinality(Dests) -> Dests]
         /\ \A p \in Dests : \E i \in 1..Cardinality(Dests) : Active[i] = p
<1> DEFINE c == Cardinality(Dests)
           S == 1..c
<1>1. c \in Nat /\ ExistsBijection(S, Dests)
  BY FS_CardinalityType
<1>2. PICK g \in [S -> Dests] : IsInjective(g)
  BY <1>1 DEF ExistsBijection, Bijection, Injection
<1>3. Active \in [S -> Dests] /\ IsInjective(Active)
  BY <1>2 DEF Active, SetToSeq
<1>4. IsFiniteSet(S) /\ Cardinality(S) = c
  <2>1. IsFiniteSet(S) /\ Cardinality(S) = IF 1 > c THEN 0 ELSE c - 1 + 1
    BY <1>1, FS_Interval
  <2> QED
    BY <1>1, <2>1
<1>5. Active \in Injection(S, Dests)
  BY <1>3 DEF Injection
<1>6. Active \in Surjection(S, Dests)
  <2> HIDE DEF S
  <2> QED
    BY <1>4, <1>5, FS_Injection
<1> QED
  BY <1>1, <1>3, <1>6 DEF Surjection

\* rank_next_hops ranks every connection once, in order of distance.
LEMMA RankedIs ==
  ASSUME Mesh, IsFiniteSet(Dests)
  PROVE  ByDistance(Ranked)
<1> DEFINE c == Cardinality(Dests)
           key == [i \in 1..c |-> HopsFrom(Active[i])]
<1>1. /\ c \in Nat
      /\ Active \in [1..c -> Dests]
      /\ \A p \in Dests : \E i \in 1..c : Active[i] = p
  BY ActiveIs
<1>2. DOMAIN Active = 1..c
  BY <1>1
<1>3. \A p \in Dests : HopsFrom(p) \in Nat
  BY HopsToRelay
<1>4. key \in [1..c -> Nat]
  BY <1>1, <1>3
<1> DEFINE At(k) == Position(key, c, k)
<1>5. Ranked = [k \in 1..c |-> Active[At(k)]]
  <2> DEFINE D == DOMAIN Active
             K == [i \in D |-> MinDistance(edges, distances, Active[i], Dests)]
  <2>1. Ranked = Arranged(Active, D, K)
    BY DEF Ranked, RankNextHops, Arranged
  <2>2. D = 1..c /\ K = key
    BY <1>2 DEF HopsFrom
  <2>3. Arranged(Active, 1..c, key) = [k \in 1..c |-> Active[At(k)]]
    BY DEF Arranged, Position, Earlier
  <2> HIDE DEF D, K, key, c, At
  <2> QED
    BY <2>1, <2>2, <2>3
<1>6. /\ \A k \in 1..c : At(k) \in 1..c
      /\ \A i \in 1..c : \E k \in 1..c : At(k) = i
      /\ \A k, l \in 1..c : k <= l => key[At(k)] <= key[At(l)]
  <2> HIDE DEF key, c
  <2> QED
    BY <1>1, <1>4, SortsByKey
<1> HIDE DEF At, c
<1>7. \A k \in 1..c : Ranked[k] \in Dests /\ HopsFrom(Ranked[k]) = key[At(k)]
  BY <1>1, <1>5, <1>6
<1> HIDE DEF key
<1>8. Ranked \in [1..c -> Dests]
  BY <1>1, <1>5, <1>6
<1>9. ASSUME NEW p \in Dests PROVE \E k \in 1..c : Ranked[k] = p
  <2>1. PICK i \in 1..c : Active[i] = p
    BY <1>1
  <2>2. PICK k \in 1..c : At(k) = i
    BY <1>6
  <2> QED
    BY <1>5, <2>1, <2>2
<1>10. ASSUME NEW k \in 1..c, NEW l \in 1..c, k <= l PROVE HopsFrom(Ranked[k]) <= HopsFrom(Ranked[l])
  BY <1>6, <1>7, <1>10
<1> QED
  BY <1>8, <1>9, <1>10 DEF ByDistance, c

\* select_next_hops takes a beginning of what it is given.
LEMMA SelectsFirst ==
  ASSUME NEW c \in Nat, NEW S, NEW ranked \in [1..c -> S], NEW t \in 1..c
  PROVE  ToSet(SelectNextHops(t, ranked)) = {ranked[k] : k \in 1..t}
<1>1. ranked \in Seq(S) /\ Len(ranked) = c /\ DOMAIN ranked = 1..c
  BY LenProperties
<1>2. CASE t >= c
  <2>1. t = c
    BY <1>2
  <2>2. SelectNextHops(t, ranked) = ranked
    BY <1>1, <1>2 DEF SelectNextHops
  <2> QED
    BY <1>1, <2>1, <2>2 DEF ToSet
<1>3. CASE ~(t >= c)
  <2> DEFINE s == SubSeq(ranked, 1, t)
  <2>1. SelectNextHops(t, ranked) = s
    BY <1>1, <1>3 DEF SelectNextHops
  <2>2. t \in Nat /\ t <= c
    OBVIOUS
  <2>3. s \in Seq(S) /\ Len(s) = t /\ \A i \in 1..t : s[i] = ranked[i]
    BY <1>1, <2>2, SubSeqProperties
  <2> HIDE DEF s
  <2>4. DOMAIN s = 1..t
    BY <2>2, <2>3
  <2> QED
    BY <2>1, <2>3, <2>4 DEF ToSet
<1> QED
  BY <1>2, <1>3

\* The selection is right in every graph and for all distances.
LEMMA NearestSelected ==
  ASSUME Mesh, IsFiniteSet(Dests), MaxDistance + Cardinality(Dests) <= UNREACHABLE
  PROVE  NearestRelaysSelected
<1> DEFINE c == Cardinality(Dests)
           hops == LocalHopCount(distances, Active)
<1>1. c \in Nat
  BY FS_CardinalityType
<1>2. ByDistance(Ranked)
  BY RankedIs
<1>3. Ranked \in [1..c -> Dests]
  BY <1>2 DEF ByDistance
<1>4. \A h \in Nat : Within[h] \subseteq Dests
  BY WithinIs
<1>5. \A p \in Dests : HopsFrom(p) \in Nat /\ \A h \in Nat : h < UNREACHABLE => (p \in Within[h] <=> HopsFrom(p) <= h)
  BY HopsToRelay
<1>6. ASSUME NEW h \in 0..(MaxDistance + c - 1), NEW t \in 1..c
      PROVE  Within[h] \subseteq ToSet(SelectNextHops(t, Ranked)) \/ ToSet(SelectNextHops(t, Ranked)) \subseteq Within[h]
  <2> DEFINE chosen == {Ranked[k] : k \in 1..t}
  <2>1. ToSet(SelectNextHops(t, Ranked)) = chosen
    BY <1>1, <1>3, SelectsFirst
  <2>2. h \in Nat /\ h < UNREACHABLE
    <3>1. MaxDistance \in Nat
      BY TopologyAssumption DEF UNREACHABLE
    <3> HIDE DEF c
    <3>2. MaxDistance + c <= UNREACHABLE
      BY DEF c
    <3> QED
      BY <1>1, <3>1, <3>2 DEF UNREACHABLE
  <2>3. ASSUME NEW q \in Within[h], q \notin chosen, NEW x \in chosen PROVE x \in Within[h]
    <3>1. q \in Dests
      BY <1>4, <2>2
    <3>2. PICK l \in 1..c : Ranked[l] = q
      BY <1>2, <3>1 DEF ByDistance
    <3>3. PICK k \in 1..t : Ranked[k] = x
      BY <2>3
    <3>4. l \notin 1..t
      BY <2>3, <3>2
    <3>5. k \in 1..c /\ k <= l
      <4> HIDE DEF c, chosen
      <4> QED
        BY <1>1, <3>4
    <3>6. x \in Dests
      BY <1>3, <3>3, <3>5
    <3>7. HopsFrom(x) <= HopsFrom(q)
      BY <1>2, <3>2, <3>3, <3>5 DEF ByDistance
    <3>8. HopsFrom(q) <= h
      BY <1>5, <2>2, <2>3, <3>1
    <3>9. HopsFrom(x) <= h
      <4>1. HopsFrom(x) \in Nat /\ HopsFrom(q) \in Nat
        BY <1>5, <3>1, <3>6
      <4> QED
        BY <2>2, <3>7, <3>8, <4>1
    <3> QED
      BY <1>5, <2>2, <3>6, <3>9
  <2> HIDE DEF chosen
  <2> QED
    BY <2>1, <2>3
<1>7. ASSUME hops < UNREACHABLE PROVE \E h \in 0..(hops - 1) : Ranked[1] \in Within[h]
  <2> DEFINE T == {distances[p] : p \in {Active[i] : i \in DOMAIN Active} \cap DOMAIN distances} \cup {UNREACHABLE}
             m == Min(T)
  <2>1. \A p \in DOMAIN distances : p \in Dests /\ distances[p] \in Nat
    BY DEF Mesh
  <2>2. T \in SUBSET Nat /\ T # {}
    BY <2>1 DEF UNREACHABLE
  <2>3. m \in T /\ m \in Nat
    <3> HIDE DEF T
    <3> QED
      BY <2>2, MinIs
  <2>4. hops = IF m = UNREACHABLE THEN UNREACHABLE ELSE m + 1
    BY DEF LocalHopCount
  <2> HIDE DEF hops, m
  <2>5. m # UNREACHABLE /\ hops = m + 1
    BY <1>7, <2>4 DEF UNREACHABLE
  <2>6. PICK p \in DOMAIN distances : m = distances[p]
    BY <2>3, <2>5
  <2> HIDE DEF T
  <2>7. m < UNREACHABLE /\ m <= m /\ m \in 0..(hops - 1)
    BY <1>7, <2>3, <2>5 DEF UNREACHABLE
  <2>8. p \in Near(m) /\ p \in Dests
    BY <2>1, <2>6, <2>7 DEF Near, Reaching
  <2>9. p \in Within[m]
    BY <2>3, <2>8, NearWithin
  <2>10. PICK l \in 1..c : Ranked[l] = p
    BY <1>2, <2>8 DEF ByDistance
  <2>11. 1 \in 1..c /\ 1 <= l
    BY <1>1
  <2>12. Ranked[1] \in Dests
    BY <1>3, <2>11
  <2>13. HopsFrom(Ranked[1]) <= HopsFrom(p)
    BY <1>2, <2>10, <2>11 DEF ByDistance
  <2>14. HopsFrom(p) <= m
    BY <1>5, <2>3, <2>7, <2>8, <2>9
  <2>15. HopsFrom(Ranked[1]) <= m
    <3>1. HopsFrom(Ranked[1]) \in Nat /\ HopsFrom(p) \in Nat
      BY <1>5, <2>8, <2>12
    <3> QED
      BY <2>3, <2>13, <2>14, <3>1
  <2>16. Ranked[1] \in Within[m]
    BY <1>5, <2>3, <2>7, <2>12, <2>15
  <2> QED
    BY <2>7, <2>16
<1> QED
  BY <1>6, <1>7 DEF NearestRelaysSelected

\* Of the connections that select_next_hops leaves out none is nearer to a
\* relay than one it takes, and the first ranked one keeps the hop count that
\* local_hop_count gives, in every mesh in which no number of hops that adds
\* up along a path to a relay is 255, which stands for a lost one.
THEOREM NearestAreSelected ==
  ASSUME IsFiniteSet(Dests), MaxDistance + Cardinality(Dests) <= UNREACHABLE
  PROVE  Spec => []NearestRelaysSelected
<1>1. TypeOK => Mesh
  <2> SUFFICES ASSUME TypeOK PROVE Mesh
    OBVIOUS
  <2>1. Graph(edges, Dests)
    BY DEF TypeOK, Graph
  <2>2. MaxDistance \in Nat
    BY TopologyAssumption DEF UNREACHABLE
  <2>3. DOMAIN distances \subseteq Dests /\ \A p \in DOMAIN distances : distances[p] \in Nat
    BY <2>2 DEF TypeOK, UNREACHABLE
  <2> QED
    BY <2>1, <2>3 DEF Mesh
<1>2. TypeOK => NearestRelaysSelected
  BY <1>1, NearestSelected
<1> QED
  BY <1>2, TypeCorrect, PTL
=============================================================================
