-------------------------- MODULE RelayNodeProofs --------------------------
(***************************************************************************)
(* What a relay proves and what it submits again, for every set of         *)
(* transactions, every capacity of its cache and every number of attempts. *)
(*                                                                         *)
(* Neither property is inductive.  A proof is written two RPC calls after  *)
(* the submission it is about, so what a call in progress has achieved     *)
(* belongs to the invariant (CallOK), and every successful submission has  *)
(* to be remembered somewhere: in the cache, in the call that is still     *)
(* going on, or in the list of excuses (Remembered).                       *)
(***************************************************************************)
EXTENDS RelayNode, SequenceTheorems, TLAPS

\* A call is about one transaction, which is not in the cache.  Past its
\* submission the transaction is applied, and the sequence it has read is
\* that of a closed ledger.
CallOK ==
  /\ call.stage # "idle" => \E id \in Ids : call.ids = {id} /\ ~Cached(id)
  /\ call.stage \in {"sequence", "hash"} => call.ids \subseteq applied
  /\ call.stage = "hash" => call.sequence \in 1..ledger

\* A successful submission is remembered, or its loss is excused.
Remembered ==
  \A id \in Ids : successes[id] >= 1 =>
    \/ Cached(id)
    \/ id \in excused
    \/ call.stage \in {"sequence", "hash"} /\ id \in call.ids

Inv == TypeOK /\ CallOK /\ ProvedIsApplied /\ Remembered /\ ResubmittedForCause
-----------------------------------------------------------------------------
(* The cache.                                                              *)

\* What RemoveAt keeps, and where.
LEMMA RemoveAtProperties ==
  ASSUME NEW S, NEW s \in Seq(S), NEW i \in 1..Len(s)
  PROVE  /\ RemoveAt(s, i) \in Seq(S)
         /\ Len(RemoveAt(s, i)) = Len(s) - 1
         /\ \A j \in 1..(Len(s) - 1) : RemoveAt(s, i)[j] = IF j < i THEN s[j] ELSE s[j + 1]
<1> DEFINE a == SubSeq(s, 1, i - 1)
           b == SubSeq(s, i + 1, Len(s))
<1>1. Len(s) \in Nat /\ i \in Nat /\ \A j \in 1..Len(s) : s[j] \in S
  BY LenProperties, ElementOfSeq
<1>2. a \in Seq(S) /\ Len(a) = i - 1 /\ \A j \in 1..(i - 1) : a[j] = s[j]
  <2>1. \A j \in 1..(i - 1) : s[j] \in S
    BY <1>1
  <2>2. /\ a \in Seq(S)
        /\ Len(a) = IF 1 <= i - 1 THEN i - 1 - 1 + 1 ELSE 0
        /\ \A j \in 1..(i - 1 - 1 + 1) : a[j] = s[1 + j - 1]
    BY <1>1, <2>1, SubSeqProperties
  <2> QED
    BY <1>1, <2>2
<1>3. b \in Seq(S) /\ Len(b) = Len(s) - i /\ \A j \in 1..(Len(s) - i) : b[j] = s[i + j]
  <2>1. \A j \in (i + 1)..Len(s) : s[j] \in S
    BY <1>1
  <2>2. /\ b \in Seq(S)
        /\ Len(b) = IF i + 1 <= Len(s) THEN Len(s) - (i + 1) + 1 ELSE 0
        /\ \A j \in 1..(Len(s) - (i + 1) + 1) : b[j] = s[i + 1 + j - 1]
    BY <1>1, <2>1, SubSeqProperties
  <2> QED
    BY <1>1, <2>2
<1> HIDE DEF a, b
<1>4. /\ a \o b \in Seq(S) /\ Len(a \o b) = Len(a) + Len(b)
      /\ \A j \in 1..(Len(a) + Len(b)) : (a \o b)[j] = IF j <= Len(a) THEN a[j] ELSE b[j - Len(a)]
  BY <1>2, <1>3, ConcatProperties
<1>5. RemoveAt(s, i) = a \o b
  BY DEF RemoveAt, a, b
<1> DEFINE r == a \o b
<1>6. r \in Seq(S) /\ Len(r) = Len(s) - 1
  BY <1>1, <1>2, <1>3, <1>4
<1>7. ASSUME NEW j \in 1..(Len(s) - 1) PROVE r[j] = IF j < i THEN s[j] ELSE s[j + 1]
  <2>1. j \in 1..(Len(a) + Len(b))
    BY <1>1, <1>2, <1>3
  <2>2. CASE j < i
    <3>1. j <= Len(a) /\ j \in 1..(i - 1)
      BY <1>1, <1>2, <2>2
    <3> QED
      BY <1>2, <1>4, <2>1, <2>2, <3>1
  <2>3. CASE ~(j < i)
    <3>1. ~(j <= Len(a)) /\ j - Len(a) \in 1..(Len(s) - i) /\ i + (j - Len(a)) = j + 1
      BY <1>1, <1>2, <2>3
    <3>2. r[j] = b[j - Len(a)]
      BY <1>4, <2>1, <3>1
    <3>3. b[j - Len(a)] = s[i + (j - Len(a))]
      BY <1>3, <3>1
    <3> QED
      BY <2>3, <3>1, <3>2, <3>3
  <2> QED
    BY <2>2, <2>3
<1> HIDE DEF r
<1>8. RemoveAt(s, i) = r
  BY <1>5 DEF r
<1> QED
  BY <1>6, <1>7, <1>8

\* A cache without repetitions: the entries of different ids.
Distinct(c) ==
  /\ c \in Seq(Entries)
  /\ \A i, j \in 1..Len(c) : c[i].id = c[j].id => i = j

\* The rest of a cache has no entry for the id, and all the others.
LEMMA OthersProperties ==
  ASSUME TypeOK, NEW id \in Ids
  PROVE  /\ Distinct(Others(id))
         /\ Len(Others(id)) = IF Cached(id) THEN Len(cache) - 1 ELSE Len(cache)
         /\ CachedIds(Others(id)) = CachedIds(cache) \ {id}
<1>1. cache \in Seq(Entries) /\ DOMAIN cache = 1..Len(cache) /\ Len(cache) \in Nat
  BY LenProperties DEF TypeOK
<1>2. CASE ~Cached(id)
  BY <1>1, <1>2 DEF Others, Cached, CachedIds, Distinct, TypeOK
<1>3. CASE Cached(id)
  <2> DEFINE n == At(id)
             r == RemoveAt(cache, n)
  <2>1. n \in 1..Len(cache) /\ cache[n].id = id
    BY <1>1, <1>3 DEF Cached, At
  <2>2. Others(id) = r
    BY <1>3 DEF Others
  <2> HIDE DEF n
  <2>3. /\ r \in Seq(Entries) /\ Len(r) = Len(cache) - 1
        /\ \A j \in 1..(Len(cache) - 1) : r[j] = IF j < n THEN cache[j] ELSE cache[j + 1]
    BY <1>1, <2>1, RemoveAtProperties
  <2> HIDE DEF r
  <2>4. DOMAIN r = 1..(Len(cache) - 1)
    BY <2>3, LenProperties
  <2>5. \A j, k \in 1..Len(cache) : cache[j].id = cache[k].id => j = k
    BY <1>1 DEF TypeOK
  <2>6. \A j, k \in 1..Len(r) : r[j].id = r[k].id => j = k
    BY <1>1, <2>1, <2>3, <2>5
  <2>7. ASSUME NEW x PROVE x \in CachedIds(r) <=> x \in CachedIds(cache) \ {id}
    <3>1. ASSUME x \in CachedIds(r) PROVE x \in CachedIds(cache) \ {id}
      <4>1. PICK j \in 1..(Len(cache) - 1) : x = r[j].id
        BY <3>1, <2>4 DEF CachedIds
      <4>2. PICK k \in 1..Len(cache) : k # n /\ r[j] = cache[k]
        BY <1>1, <2>1, <2>3, <4>1
      <4> QED
        BY <1>1, <2>1, <2>5, <4>1, <4>2 DEF CachedIds
    <3>2. ASSUME x \in CachedIds(cache) \ {id} PROVE x \in CachedIds(r)
      <4>1. PICK k \in 1..Len(cache) : x = cache[k].id
        BY <3>2, <1>1 DEF CachedIds
      <4>2. k # n
        BY <3>2, <2>1, <4>1
      <4>3. PICK j \in 1..(Len(cache) - 1) : r[j] = cache[k]
        <5>1. CASE k < n
          BY <1>1, <2>1, <2>3, <5>1
        <5>2. CASE k > n
          <6>1. k - 1 \in 1..(Len(cache) - 1) /\ ~(k - 1 < n) /\ (k - 1) + 1 = k
            BY <1>1, <2>1, <5>2
          <6> QED
            BY <2>3, <6>1
        <5> QED
          BY <1>1, <2>1, <4>2, <5>1, <5>2
      <4> QED
        BY <2>4, <4>1, <4>3 DEF CachedIds
    <3> QED
      BY <3>1, <3>2
  <2> QED
    BY <1>3, <2>2, <2>3, <2>6, <2>7 DEF Distinct
<1> QED
  BY <1>2, <1>3

\* Appending an entry with a new id.
LEMMA AppendDistinct ==
  ASSUME NEW c, Distinct(c), NEW e \in Entries, e.id \notin CachedIds(c)
  PROVE  /\ Distinct(Append(c, e))
         /\ Len(Append(c, e)) = Len(c) + 1
         /\ CachedIds(Append(c, e)) = CachedIds(c) \cup {e.id}
<1> DEFINE d == Append(c, e)
<1>1. c \in Seq(Entries) /\ DOMAIN c = 1..Len(c) /\ Len(c) \in Nat
  BY LenProperties DEF Distinct
<1>2. d \in Seq(Entries) /\ Len(d) = Len(c) + 1 /\ (\A i \in 1..Len(c) : d[i] = c[i]) /\ d[Len(c) + 1] = e
  BY <1>1, AppendProperties
<1> HIDE DEF d
<1>3. DOMAIN d = 1..(Len(c) + 1)
  BY <1>2, LenProperties
<1>4. \A i \in 1..Len(c) : c[i].id # e.id
  BY <1>1 DEF CachedIds
<1>5. ASSUME NEW i \in 1..Len(d), NEW j \in 1..Len(d), d[i].id = d[j].id PROVE i = j
  BY <1>1, <1>2, <1>4, <1>5 DEF Distinct
<1>6. \A x : x \in CachedIds(d) <=> x \in CachedIds(c) \cup {e.id}
  <2>1. \A x : x \in CachedIds(d) <=> \E i \in 1..(Len(c) + 1) : x = d[i].id
    BY <1>3 DEF CachedIds
  <2>2. \A x : x \in CachedIds(c) <=> \E i \in 1..Len(c) : x = c[i].id
    BY <1>1 DEF CachedIds
  <2> QED
    BY <1>1, <1>2, <2>1, <2>2
<1>7. Distinct(d)
  BY <1>2, <1>5 DEF Distinct
<1>8. CachedIds(d) = CachedIds(c) \cup {e.id}
  BY <1>6
<1> QED
  BY <1>2, <1>7, <1>8 DEF d

\* Evicting the first entry.
LEMMA TailDistinct ==
  ASSUME NEW c, Distinct(c), c # <<>>
  PROVE  Distinct(Tail(c)) /\ Len(Tail(c)) = Len(c) - 1 /\ CachedIds(Tail(c)) \subseteq CachedIds(c)
<1> DEFINE d == Tail(c)
<1>1. c \in Seq(Entries) /\ DOMAIN c = 1..Len(c) /\ Len(c) \in Nat \ {0}
  BY LenProperties, EmptySeq DEF Distinct
<1>2. d \in Seq(Entries) /\ Len(d) = Len(c) - 1 /\ \A i \in 1..Len(d) : d[i] = c[i + 1]
  BY <1>1, HeadTailProperties
<1> HIDE DEF d
<1>3. DOMAIN d = 1..(Len(c) - 1)
  BY <1>2, LenProperties
<1>4. ASSUME NEW i \in 1..Len(d), NEW j \in 1..Len(d), d[i].id = d[j].id PROVE i = j
  <2>1. i + 1 \in 1..Len(c) /\ j + 1 \in 1..Len(c)
    BY <1>1, <1>2
  <2>2. c[i + 1].id = c[j + 1].id
    BY <1>2, <1>4
  <2>3. i + 1 = j + 1
    BY <2>1, <2>2 DEF Distinct
  <2> QED
    BY <1>1, <1>2, <2>3
<1>5. CachedIds(d) \subseteq CachedIds(c)
  <2> SUFFICES ASSUME NEW x \in CachedIds(d) PROVE x \in CachedIds(c)
    OBVIOUS
  <2>1. PICK i \in 1..(Len(c) - 1) : x = d[i].id
    BY <1>3 DEF CachedIds
  <2>2. i + 1 \in 1..Len(c) /\ x = c[i + 1].id
    BY <1>1, <1>2, <2>1
  <2> QED
    BY <1>1, <2>2 DEF CachedIds
<1> QED
  BY <1>2, <1>4, <1>5 DEF Distinct, d
-----------------------------------------------------------------------------
(* The invariant.                                                          *)

LEMMA CacheOK ==
  ASSUME TypeOK
  PROVE  Distinct(cache) /\ Len(cache) \in 0..capacity /\ \A id : Cached(id) <=> id \in CachedIds(cache)
<1>1. cache \in Seq(Entries) /\ DOMAIN cache = 1..Len(cache) /\ Len(cache) \in Nat
  BY LenProperties DEF TypeOK
<1> QED
  BY <1>1, RelayAssumption DEF TypeOK, Distinct, Cached, CachedIds

\* The typing of a step follows from that of the cache and of the call.
LEMMA TypeFromCache ==
  ASSUME NEW c, Distinct(c), Len(c) <= capacity
  PROVE  /\ c \in Seq(Entries) /\ Len(c) <= capacity
         /\ \A i, j \in DOMAIN c : c[i].id = c[j].id => i = j
<1>1. DOMAIN c = 1..Len(c)
  BY LenProperties DEF Distinct
<1> QED
  BY <1>1 DEF Distinct

LEMMA InvInit == Init => Inv
<1> SUFFICES ASSUME Init PROVE Inv
  OBVIOUS
<1>1. cache \in Seq(Entries) /\ Len(cache) = 0 /\ DOMAIN cache = {}
  BY EmptySeq, LenProperties DEF Init
<1>2. TypeOK
  BY <1>1, RelayAssumption DEF Init, TypeOK, Idle
<1>3. CallOK /\ ProvedIsApplied /\ Remembered /\ ResubmittedForCause
  BY DEF Init, CallOK, Idle, ProvedIsApplied, Remembered, ResubmittedForCause
<1> QED
  BY <1>2, <1>3 DEF Inv

\* A cached proof is returned: the order of the cache changes, nothing else.
LEMMA ReturnCachedStep ==
  ASSUME Inv, NEW id \in Ids, ReturnCached(id)
  PROVE  Inv'
<1> USE DEF Inv
<1>1. Distinct(Others(id)) /\ Len(Others(id)) = Len(cache) - 1 /\ CachedIds(Others(id)) = CachedIds(cache) \ {id}
  BY OthersProperties DEF ReturnCached
<1>2. cache[At(id)] \in Entries /\ cache[At(id)].id = id
  <2>1. At(id) \in DOMAIN cache /\ cache[At(id)].id = id
    BY DEF ReturnCached, Cached, At
  <2> QED
    BY <2>1, LenProperties, ElementOfSeq DEF TypeOK
<1>3. Distinct(cache') /\ Len(cache') = Len(cache) - 1 + 1 /\ CachedIds(cache') = (CachedIds(cache) \ {id}) \cup {id}
  BY <1>1, <1>2, AppendDistinct DEF ReturnCached, Touched
<1>4. Len(cache') <= capacity
  BY <1>3, CacheOK, RelayAssumption
<1>5. TypeOK'
  BY <1>3, <1>4, TypeFromCache, RelayAssumption DEF ReturnCached, TypeOK
<1>6. \A x : Cached(x)' <=> Cached(x)
  <2>1. CachedIds(cache') = CachedIds(cache)
    BY <1>3, CacheOK DEF ReturnCached
  <2>2. \A x : Cached(x)' <=> x \in CachedIds(cache')
    BY <1>5, LenProperties DEF TypeOK, Cached, CachedIds
  <2> QED
    BY <2>1, <2>2, CacheOK
<1>7. UNCHANGED <<ledger, applied, call, proofs, successes, excused>>
  BY DEF ReturnCached
<1>8. CallOK' /\ ProvedIsApplied' /\ Remembered' /\ ResubmittedForCause'
  BY <1>6, <1>7 DEF CallOK, ProvedIsApplied, Remembered, ResubmittedForCause
<1> QED
  BY <1>5, <1>8

\* A call ends with a proof: the id becomes cached, and what the cache
\* forgets is excused.
LEMMA GetHashStep ==
  ASSUME Inv, NEW id \in Ids, GetHash(id)
  PROVE  Inv'
<1> USE DEF Inv
<1> DEFINE e == [id |-> id, proof |-> [sequence |-> call.sequence, hash |-> ledger]]
           rest == Others(id)
           kept == IF Len(rest) >= capacity THEN Tail(rest) ELSE rest
<1>1. call.stage = "hash" /\ call.ids = {id} /\ ~Cached(id) /\ id \in applied /\ call.sequence \in 1..ledger
  BY DEF GetHash, CallOK
<1>2. /\ e \in Entries /\ e.id = id /\ e.proof.sequence <= e.proof.hash /\ e.proof.hash <= ledger
  BY <1>1, RelayAssumption DEF TypeOK, Entries, Proofs
<1>3. rest = cache /\ Distinct(cache) /\ Len(cache) \in 0..capacity /\ id \notin CachedIds(cache)
  BY <1>1, CacheOK DEF Others
<1>4. cache' = Append(kept, e) /\ proofs' = proofs \cup {e} /\ call' = Idle
  BY DEF GetHash, Put
<1>5. excused' = IF Len(rest) < capacity THEN excused ELSE excused \cup (CachedIds(cache) \ CachedIds(cache'))
  BY DEF GetHash
<1> HIDE DEF e
<1>6. Distinct(kept) /\ Len(kept) + 1 <= capacity /\ CachedIds(kept) \subseteq CachedIds(cache)
  <2>1. CASE Len(cache) >= capacity
    <3>1. cache # <<>>
      BY <2>1, RelayAssumption
    <3> QED
      BY <1>3, <2>1, <3>1, TailDistinct, RelayAssumption
  <2>2. CASE ~(Len(cache) >= capacity)
    BY <1>3, <2>2, RelayAssumption
  <2> QED
    BY <2>1, <2>2
<1>7. Len(rest) < capacity => kept = cache
  BY <1>3, RelayAssumption
<1> HIDE DEF kept
<1>8. Distinct(cache') /\ Len(cache') <= capacity /\ CachedIds(cache') = CachedIds(kept) \cup {id}
  BY <1>2, <1>3, <1>4, <1>6, AppendDistinct
<1>9. TypeOK'
  <2>1. call' \in [stage : {"idle", "submit", "sequence", "hash"}, ids : SUBSET Ids,
                   attempt : 0..max_attempts, sequence : 0..MaxLedger]
    BY <1>4, RelayAssumption DEF Idle
  <2>2. excused' \in SUBSET Ids
    <3>1. CachedIds(cache) \subseteq Ids
      <4>1. \A i \in DOMAIN cache : cache[i].id \in Ids
        <5>1. cache \in [1..Len(cache) -> Entries]
          BY LenProperties DEF TypeOK
        <5> QED
          BY <5>1 DEF Entries
      <4> QED
        BY <4>1 DEF CachedIds
    <3> QED
      BY <1>5, <3>1 DEF TypeOK
  <2> QED
    BY <1>2, <1>4, <1>8, <2>1, <2>2, TypeFromCache DEF GetHash, TypeOK
<1>10. \A x : Cached(x)' <=> x \in CachedIds(kept) \cup {id}
  <2>1. \A x : Cached(x)' <=> x \in CachedIds(cache')
    BY <1>9, LenProperties DEF TypeOK, Cached, CachedIds
  <2> QED
    BY <1>8, <2>1
<1>11. ProvedIsApplied'
  BY <1>1, <1>2, <1>4 DEF GetHash, ProvedIsApplied
<1>12. Remembered'
  <2> SUFFICES ASSUME NEW x \in Ids, successes[x] >= 1 PROVE Cached(x)' \/ x \in excused'
    BY DEF Remembered, GetHash
  <2>1. x \in CachedIds(cache) \/ x \in excused \/ x = id
    BY <1>1, CacheOK DEF Remembered
  <2> QED
    BY <1>3, <1>5, <1>7, <1>8, <1>10, <2>1
<1>13. CallOK' /\ ResubmittedForCause'
  BY <1>4, <1>5 DEF CallOK, Idle, ResubmittedForCause, GetHash
<1> QED
  BY <1>9, <1>11, <1>12, <1>13

LEMMA InvStep == Inv /\ [Next]_vars => Inv'
<1> SUFFICES ASSUME Inv, [Next]_vars PROVE Inv'
  OBVIOUS
<1> USE DEF Inv
<1>1. ASSUME UNCHANGED vars PROVE Inv'
  BY <1>1 DEF vars, TypeOK, CallOK, ProvedIsApplied, Remembered, ResubmittedForCause, Cached
<1>2. ASSUME LedgerCloses PROVE Inv'
  <2>1. TypeOK'
    BY <1>2, RelayAssumption DEF LedgerCloses, TypeOK
  <2>2. CallOK'
    BY <1>2 DEF LedgerCloses, TypeOK, CallOK, Cached
  <2>3. ProvedIsApplied'
    BY <1>2 DEF LedgerCloses, TypeOK, ProvedIsApplied, Entries, Proofs
  <2>4. Remembered' /\ ResubmittedForCause'
    BY <1>2 DEF LedgerCloses, Remembered, ResubmittedForCause, Cached
  <2> QED
    BY <2>1, <2>2, <2>3, <2>4
<1>3. ASSUME NEW id \in Ids, ReturnCached(id) PROVE Inv'
  BY <1>3, ReturnCachedStep
<1>4. ASSUME NEW id \in Ids, Begin(id) PROVE Inv'
  <2>1. TypeOK'
    BY <1>4, RelayAssumption DEF Begin, TypeOK
  <2>2. CallOK'
    BY <1>4 DEF Begin, CallOK, Cached
  <2>3. ProvedIsApplied' /\ ResubmittedForCause'
    BY <1>4 DEF Begin, ProvedIsApplied, ResubmittedForCause
  <2>4. Remembered'
    BY <1>4 DEF Begin, Idle, Remembered, Cached
  <2> QED
    BY <2>1, <2>2, <2>3, <2>4
<1>5. ASSUME NEW id \in Ids, SubmitOk(id) PROVE Inv'
  <2>1. TypeOK'
    BY <1>5 DEF SubmitOk, TypeOK
  <2>2. call.stage = "submit" /\ call.ids = {id} /\ ~Cached(id)
    BY <1>5 DEF SubmitOk, CallOK
  <2>3. CallOK'
    BY <1>5, <2>2 DEF SubmitOk, TypeOK, CallOK, Cached
  <2>4. ProvedIsApplied'
    BY <1>5 DEF SubmitOk, ProvedIsApplied
  <2>5. Remembered'
    BY <1>5, <2>2 DEF SubmitOk, TypeOK, Remembered, Cached
  <2>6. ResubmittedForCause'
    BY <1>5, <2>2 DEF SubmitOk, TypeOK, Remembered, ResubmittedForCause
  <2> QED
    BY <2>1, <2>3, <2>4, <2>5, <2>6
<1>6. ASSUME NEW id \in Ids, SubmitRejected(id) PROVE Inv'
  <2>1. TypeOK'
    BY <1>6, RelayAssumption DEF SubmitRejected, Idle, TypeOK
  <2>2. CallOK' /\ ProvedIsApplied' /\ ResubmittedForCause'
    BY <1>6 DEF SubmitRejected, Idle, CallOK, ProvedIsApplied, ResubmittedForCause
  <2>3. Remembered'
    BY <1>6 DEF SubmitRejected, Remembered, Cached
  <2> QED
    BY <2>1, <2>2, <2>3
<1>7. ASSUME NEW id \in Ids, SubmitFails(id) PROVE Inv'
  <2>1. call' = Idle \/ (call' = [call EXCEPT !.attempt = @ + 1] /\ call.attempt < max_attempts)
    BY <1>7, RelayAssumption DEF SubmitFails, AfterFailure, TypeOK
  <2>2. applied \subseteq applied' /\ applied' \in SUBSET Ids
    BY <1>7 DEF SubmitFails, TypeOK
  <2>3. TypeOK'
    BY <1>7, <2>1, <2>2, RelayAssumption DEF SubmitFails, Idle, TypeOK
  <2>4. CallOK'
    BY <1>7, <2>1, <2>2 DEF SubmitFails, Idle, TypeOK, CallOK, Cached
  <2>5. ProvedIsApplied' /\ ResubmittedForCause'
    BY <1>7, <2>2 DEF SubmitFails, ProvedIsApplied, ResubmittedForCause
  <2>6. Remembered'
    BY <1>7 DEF SubmitFails, Remembered, Cached
  <2> QED
    BY <2>3, <2>4, <2>5, <2>6
<1>8. ASSUME NEW id \in Ids, GetHash(id) PROVE Inv'
  BY <1>8, GetHashStep
<1>9. ASSUME GetSequence PROVE Inv'
  <2>1. TypeOK'
    <3>1. ledger \in 0..MaxLedger
      BY RelayAssumption DEF TypeOK
    <3> QED
      BY <1>9, <3>1 DEF GetSequence, TypeOK
  <2>2. CallOK'
    BY <1>9 DEF GetSequence, TypeOK, CallOK, Cached
  <2>3. ProvedIsApplied' /\ ResubmittedForCause'
    BY <1>9 DEF GetSequence, ProvedIsApplied, ResubmittedForCause
  <2>4. Remembered'
    BY <1>9 DEF GetSequence, TypeOK, Remembered, Cached
  <2> QED
    BY <2>1, <2>2, <2>3, <2>4
<1>10. ASSUME QueryFails PROVE Inv'
  <2>1. TypeOK'
    BY <1>10, RelayAssumption DEF QueryFails, Idle, TypeOK
  <2>2. CallOK' /\ ProvedIsApplied' /\ ResubmittedForCause'
    BY <1>10 DEF QueryFails, Idle, CallOK, ProvedIsApplied, ResubmittedForCause
  <2>3. Remembered'
    BY <1>10 DEF QueryFails, Remembered, Cached
  <2> QED
    BY <2>1, <2>2, <2>3
<1> QED
  BY <1>1, <1>2, <1>3, <1>4, <1>5, <1>6, <1>7, <1>8, <1>9, <1>10 DEF Next, Step

LEMMA Invariance == Spec => []Inv
BY InvInit, InvStep, PTL DEF Spec

\* The relay's state stays within its type: the cache holds no more than
\* capacity proofs and at most one for an id, and a call makes no more than
\* max_attempts attempts.
THEOREM TypeCorrect == Spec => []TypeOK
BY Invariance, PTL DEF Inv

\* process_envelope hands out a proof only for a transaction the network has
\* applied, with a sequence and a hash from ledgers that had closed, in order.
THEOREM ProofsAreTrue == Spec => []ProvedIsApplied
BY Invariance, PTL DEF Inv

\* The relay submits a transaction successfully for a second time only after
\* a failed ledger query or an eviction from its cache.
THEOREM NoNeedlessResubmission == Spec => []ResubmittedForCause
BY Invariance, PTL DEF Inv
=============================================================================
