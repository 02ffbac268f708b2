----------------------- MODULE TransportManagerProofs -----------------------
(***************************************************************************)
(* The guarantees of the transport manager for every set of peers, every   *)
(* limit, and any number of messages.                                      *)
(*                                                                         *)
(* The counter is right because every operator on the connection table     *)
(* keeps it right (TableOK).  What becomes of a transaction and when the   *)
(* node sleeps depends on the call in progress: its message is one that    *)
(* nobody has seen yet, a flush runs awake, and a call that got past its   *)
(* flush finds either an empty queue or a closed wake window.  That no     *)
(* transaction is overtaken needs in addition that the queue is in order   *)
(* of arrival (Ordered).                                                   *)
(***************************************************************************)
EXTENDS TransportManager, FiniteSetTheorems, SequenceTheorems, TLAPS

Tables == [conns : [Peers -> {"none", "wifi", "ble"}], count : Nat]

\* The counter of a table is the number of its connections.
TableOK(t) ==
  /\ t \in Tables
  /\ IsFiniteSet(Connected(t))
  /\ t.count = Cardinality(Connected(t))

\* The call in progress, if it sends, has a message of its own; a flush runs
\* awake.
CallOK ==
  /\ call.kind = "send" => /\ call.peer \in Peers /\ call.type \in {"Transaction", "SyncRequest"}
                           /\ sends > 0 /\ call.msg = sends
  /\ call.stage = "flush" => mode = "HighPower"

Typed == TypeOK /\ TableOK(table) /\ CallOK

\* Past its flush a call finds nothing queued, unless the window is closed or
\* a flush has failed.
FlushedInWindow == call.stage = "act" /\ pending # <<>> /\ ~aborted => ~window

\* Every message on record was sent before the one in progress.
Fresh ==
  \A m \in accepted \cup delivered \cup dropped \cup Queued :
    m \in 1..sends /\ (call.kind = "send" => m # call.msg)

\* What Accounted says of the sets of messages.
Balanced ==
  /\ accepted = (accepted \cap delivered) \cup Queued \cup dropped
  /\ Queued \cap (delivered \cup dropped) = {}
  /\ delivered \cap dropped = {}

\* No message is queued twice.
NoRepeat == \A i, j \in DOMAIN pending : pending[i].msg = pending[j].msg => i = j

\* A connection in an empty slot is counted, and replacing one is not.
LEMMA InsertKeeps ==
  ASSUME NEW t, TableOK(t), NEW p \in Peers, NEW transport \in {"wifi", "ble"}
  PROVE  TableOK(Insert(t, p, transport))
<1> DEFINE u == Insert(t, p, transport)
<1>1. u.conns = [t.conns EXCEPT ![p] = transport]
      /\ u.count = IF t.conns[p] = "none" THEN t.count + 1 ELSE t.count
  BY DEF Insert
<1>2. Connected(u) = Connected(t) \cup {p}
  BY <1>1 DEF Connected, TableOK, Tables
<1>3. p \in Connected(t) <=> t.conns[p] # "none"
  BY DEF Connected
<1>4. IsFiniteSet(Connected(u)) /\ u.count = Cardinality(Connected(u))
  BY <1>1, <1>2, <1>3, FS_AddElement DEF TableOK
<1>5. u \in Tables
  BY DEF Insert, TableOK, Tables
<1> QED
  BY <1>4, <1>5 DEF TableOK

\* Removing a connection gives its slot back, and only once.
LEMMA RemoveKeeps ==
  ASSUME NEW t, TableOK(t), NEW p \in Peers
  PROVE  TableOK(Remove(t, p))
<1> DEFINE u == Remove(t, p)
<1>1. u.conns = [t.conns EXCEPT ![p] = "none"]
      /\ u.count = IF t.conns[p] = "none" THEN t.count ELSE t.count - 1
  BY DEF Remove
<1>2. Connected(u) = Connected(t) \ {p}
  BY <1>1 DEF Connected, TableOK, Tables
<1>3. p \in Connected(t) <=> t.conns[p] # "none"
  BY DEF Connected
<1>4. IsFiniteSet(Connected(u)) /\ u.count = Cardinality(Connected(u))
  BY <1>1, <1>2, <1>3, FS_RemoveElement DEF TableOK
<1>5. Cardinality(Connected(u)) \in Nat
  BY <1>4, FS_CardinalityType
<1>6. u \in Tables
  BY <1>4, <1>5 DEF Remove, TableOK, Tables
<1> QED
  BY <1>4, <1>6 DEF TableOK

\* Whatever becomes of a send, its table is right.
LEMMA SendNowKeeps ==
  ASSUME NEW t, TableOK(t), NEW p \in Peers, NEW out \in SendNow(t, p)
  PROVE  TableOK(out.table) /\ out.ok \in BOOLEAN
<1>1. TableOK(Remove(t, p))
  BY RemoveKeeps
<1>2. TableOK(Insert(Remove(t, p), p, "ble"))
  BY <1>1, InsertKeeps
<1>3. PICK ok \in BOOLEAN, u \in {t, Remove(t, p), Insert(Remove(t, p), p, "ble")} :
        out = [ok |-> ok, table |-> u]
  <2> DEFINE r == Remove(t, p)
             i == Insert(r, p, "ble")
  <2>1. SendNow(t, p) \subseteq {[ok |-> FALSE, table |-> t], [ok |-> TRUE, table |-> t],
                                [ok |-> FALSE, table |-> r]}
                               \cup {[ok |-> ok, table |-> i] : ok \in BOOLEAN}
    BY DEF SendNow
  <2> HIDE DEF r, i
  <2> QED
    BY <2>1 DEF r, i
<1>4. out.ok = ok /\ out.table = u
  BY <1>3
<1> QED
  BY <1>1, <1>2, <1>4

LEMMA BleFallbackKeeps ==
  ASSUME NEW t, TableOK(t), NEW p \in Peers, NEW u \in BleFallback(t, p)
  PROVE  TableOK(u)
<1>1. TableOK(Remove(t, p))
  BY RemoveKeeps
<1>2. TableOK(Insert(Remove(t, p), p, "ble"))
  BY <1>1, InsertKeeps
<1> QED
  BY <1>1, <1>2 DEF BleFallback

\* The elements of a sequence are finitely many.
LEMMA RangeFinite ==
  ASSUME NEW S, NEW s \in Seq(S)
  PROVE  IsFiniteSet({s[i] : i \in DOMAIN s})
<1> DEFINE T == {s[i] : i \in 1..Len(s)}
           f == [i \in 1..Len(s) |-> s[i]]
<1>1. f \in Surjection(1..Len(s), T)
  BY DEF Surjection
<1>2. IsFiniteSet(1..Len(s))
  BY FS_Interval
<1>3. IsFiniteSet(T)
  BY <1>1, <1>2, FS_Surjection
<1> QED
  BY <1>3

\* A batch of inbound connections is counted without the replaced ones.
LEMMA RegisterAllKeeps ==
  ASSUME NEW t, TableOK(t), NEW ps \in Seq(Peers), NEW transport \in {"wifi", "ble"}
  PROVE  TableOK(RegisterAll(t, ps, transport))
<1> DEFINE u == RegisterAll(t, ps, transport)
           new == {ps[i] : i \in DOMAIN ps}
           old == Connected(t)
<1>1. IsFiniteSet(new) /\ new \subseteq Peers
  BY RangeFinite
<1>2. /\ u.conns = [p \in Peers |-> IF p \in new THEN transport ELSE t.conns[p]]
      /\ u.count = t.count + Cardinality(new \ old)
  BY DEF RegisterAll
<1> HIDE DEF new
<1>3. Connected(u) = old \cup (new \ old)
  BY <1>1, <1>2 DEF Connected, TableOK, Tables
<1> DEFINE added == new \ old
<1>4. IsFiniteSet(added)
  BY <1>1, FS_Subset
<1>5. old \cap added = {}
  OBVIOUS
<1> HIDE DEF added
<1>6. IsFiniteSet(old) /\ Cardinality(old) \in Nat /\ Cardinality(added) \in Nat
  BY <1>4, FS_CardinalityType DEF TableOK
<1>7. /\ IsFiniteSet(old \cup added)
      /\ Cardinality(old \cup added) = Cardinality(old) + Cardinality(added)
  <2>1. Cardinality(old \cap added) = 0
    BY <1>5, FS_EmptySet
  <2>2. Cardinality(old \cup added) = Cardinality(old) + Cardinality(added) - Cardinality(old \cap added)
    BY <1>4, <1>6, FS_Union
  <2> QED
    BY <1>4, <1>6, <2>1, <2>2, FS_Union
<1>8. u.count = Cardinality(Connected(u)) /\ u.count \in Nat
  BY <1>2, <1>3, <1>6, <1>7 DEF TableOK, added
<1>9. u.conns \in [Peers -> {"none", "wifi", "ble"}]
  BY <1>2 DEF TableOK, Tables
<1>10. u \in Tables
  BY <1>8, <1>9 DEF Tables, RegisterAll
<1> QED
  BY <1>3, <1>7, <1>8, <1>10 DEF TableOK, added
-----------------------------------------------------------------------------
\* Queued messages are messages.
LEMMA QueuedTyped == TypeOK => Queued \subseteq 1..MaxSends
<1> SUFFICES ASSUME TypeOK, NEW i \in DOMAIN pending PROVE pending[i].msg \in 1..MaxSends
  BY DEF Queued
<1> DEFINE Item == [peer : Peers, msg : 1..MaxSends]
<1>1. pending[i] \in Item
  <2>1. pending \in Seq(Item)
    BY DEF TypeOK
  <2> HIDE DEF Item
  <2> QED
    BY <2>1, ElementOfSeq, LenProperties
<1> QED
  BY <1>1

\* The manager starts well typed, with an empty table.
LEMMA TypedInit == Init => Typed
<1> SUFFICES ASSUME Init PROVE Typed
  OBVIOUS
<1> USE DEF Init
<1>1. Connected(table) = {}
  BY DEF Connected
<1>2. TableOK(table)
  BY <1>1, FS_EmptySet DEF TableOK, Tables
<1>3. TypeOK
  <2>1. call \in Calls /\ sends \in 0..MaxSends
    BY TransportAssumption DEF Calls, Free
  <2>2. arriving \in [Listeners -> Seq(Peers)] /\ \A l \in Listeners : Len(arriving[l]) <= ChannelCapacity
    BY TransportAssumption
  <2>3. pending \in Seq([peer : Peers, msg : 1..MaxSends])
    BY EmptySeq
  <2> QED
    BY <1>2, <2>1, <2>2, <2>3 DEF TypeOK, TableOK, Tables
<1>4. CallOK
  BY DEF CallOK, Free
<1> QED
  BY <1>2, <1>3, <1>4 DEF Typed

\* The part of a call that every entry point shares keeps the types.
LEMMA BeginTyped ==
  ASSUME Typed,
         NEW c \in Calls, sends' \in 0..MaxSends, Begin(c),
         c.kind = "send" => /\ c.peer \in Peers /\ c.type \in {"Transaction", "SyncRequest"}
                            /\ sends' > 0 /\ c.msg = sends'
  PROVE  Typed'
<1> USE DEF Typed
<1>1. TableOK(table')
  BY RegisterAllKeeps DEF Begin, TypeOK, Listeners
<1>2. /\ call' \in Calls /\ call'.kind = c.kind /\ call'.peer = c.peer /\ call'.type = c.type
      /\ call'.msg = c.msg /\ (call'.stage = "flush" => mode' = "HighPower")
      /\ mode' \in {"HighPower", "SynchronizedLowPower"}
      /\ armed' \in BOOLEAN /\ idle' \in BOOLEAN
  <2>1. mode \in {"HighPower", "SynchronizedLowPower"} /\ armed \in BOOLEAN /\ idle \in BOOLEAN
    BY DEF TypeOK
  <2>2. CASE /\ mode' = "HighPower" /\ armed' = FALSE /\ idle' = FALSE
             /\ call' = [c EXCEPT !.stage = "flush"]
    BY <2>2 DEF Calls
  <2>3. CASE /\ mode' = FallAsleep /\ call' = [c EXCEPT !.stage = "act"] /\ UNCHANGED <<armed, idle>>
    BY <2>1, <2>3 DEF Calls, FallAsleep
  <2> QED
    BY <2>2, <2>3 DEF Begin
<1>3. CallOK'
  BY <1>2 DEF CallOK
<1>4. arriving' \in [Listeners -> Seq(Peers)] /\ \A l \in Listeners : Len(arriving'[l]) <= ChannelCapacity
  BY TransportAssumption DEF Begin, TypeOK, Listeners
<1>5. TypeOK'
  BY <1>1, <1>2, <1>4 DEF Begin, TypeOK, TableOK, Tables
<1> QED
  BY <1>1, <1>3, <1>5

\* Every step keeps the types and the counter.
LEMMA TypedStep == Typed /\ [Next]_vars => Typed'
<1> SUFFICES ASSUME Typed, [Next]_vars PROVE Typed'
  OBVIOUS
<1> USE DEF Typed
<1>1. ASSUME WindowChanges \/ BecomeIdle PROVE Typed'
  BY <1>1 DEF WindowChanges, BecomeIdle, history, TypeOK, CallOK
<1>2. ASSUME NEW l \in Listeners, ListenerSend(l) PROVE Typed'
  <2>1. PICK p \in holding[l] : arriving' = [arriving EXCEPT ![l] = Append(@, p)]
    BY <1>2 DEF ListenerSend
  <2>2. p \in Peers /\ arriving[l] \in Seq(Peers) /\ Len(arriving[l]) < ChannelCapacity
    BY <1>2 DEF ListenerSend, TypeOK
  <2>3. Append(arriving[l], p) \in Seq(Peers) /\ Len(Append(arriving[l], p)) <= ChannelCapacity
    BY <2>2, TransportAssumption
  <2> QED
    BY <1>2, <2>1, <2>3 DEF ListenerSend, history, TypeOK, CallOK
<1>3. ASSUME NEW l \in Listeners, NEW p \in Peers, ListenerAccept(l, p) PROVE Typed'
  BY <1>3 DEF ListenerAccept, history, TypeOK, CallOK
<1>4. ASSUME RegisterInbound PROVE Typed'
  <2> DEFINE s == arriving["wifi"]
  <2>1. s \in Seq(Peers) /\ s # <<>> /\ Len(s) <= ChannelCapacity
    BY <1>4 DEF RegisterInbound, TypeOK, Listeners
  <2>2. Head(s) \in Peers /\ Tail(s) \in Seq(Peers) /\ Len(Tail(s)) <= ChannelCapacity
    BY <2>1, TransportAssumption
  <2>3. TableOK(table')
    BY <1>4, <2>2, InsertKeeps DEF RegisterInbound
  <2> QED
    BY <1>4, <2>2, <2>3 DEF RegisterInbound, history, TypeOK, CallOK, Listeners, TableOK, Tables
<1>5. ASSUME NEW p \in Peers, Connect(p) \/ DisconnectPeer(p) PROVE Typed'
  <2>1. TableOK(table')
    BY <1>5, InsertKeeps, RemoveKeeps DEF Connect, DisconnectPeer
  <2> QED
    BY <1>5, <2>1 DEF Connect, DisconnectPeer, history, TypeOK, CallOK, TableOK, Tables
<1>6. ASSUME Shutdown PROVE Typed'
  <2>1. Connected(table') = {}
    BY <1>6 DEF Shutdown, Connected
  <2>2. TableOK(table')
    BY <1>6, <2>1, FS_EmptySet DEF Shutdown, TableOK, Tables
  <2>3. Queued \subseteq 1..MaxSends
    BY QueuedTyped
  <2> QED
    BY <1>6, <2>2, <2>3 DEF Shutdown, TypeOK, CallOK, TableOK, Tables
<1>7. ASSUME NotifyMacRotated PROVE Typed'
  <2> DEFINE ble == {p \in Peers : table.conns[p] = "ble"}
  <2>1. /\ table'.conns = [p \in Peers |-> IF p \in ble THEN "none" ELSE table.conns[p]]
        /\ table'.count = table.count - Cardinality(ble)
        /\ table' = [conns |-> table'.conns, count |-> table'.count]
    BY <1>7 DEF NotifyMacRotated
  <2>2. ble \in SUBSET Connected(table) /\ Connected(table') = Connected(table) \ ble
    BY <2>1 DEF Connected
  <2>3. IsFiniteSet(ble) /\ IsFiniteSet(Connected(table'))
    BY <2>2, FS_Subset DEF TableOK
  <2>4. Cardinality(ble) \in Nat /\ Cardinality(Connected(table')) \in Nat
    BY <2>3, FS_CardinalityType
  <2>5. ble \cap Connected(table') = {} /\ ble \cup Connected(table') = Connected(table)
    BY <2>2
  <2>6. Cardinality(ble \cap Connected(table')) = 0
    BY <2>5, FS_EmptySet
  <2>7. Cardinality(Connected(table)) =
          Cardinality(ble) + Cardinality(Connected(table')) - Cardinality(ble \cap Connected(table'))
    BY <2>3, <2>5, FS_Union
  <2>8. table'.count = Cardinality(Connected(table'))
    BY <2>1, <2>4, <2>6, <2>7 DEF TableOK
  <2>9. TableOK(table')
    BY <2>1, <2>3, <2>4, <2>8 DEF TableOK, Tables, TypeOK
  <2> QED
    BY <1>7, <2>9 DEF NotifyMacRotated, history, TypeOK, CallOK, TableOK, Tables
<1>8. ASSUME NEW p \in Peers, NEW type \in {"Transaction", "SyncRequest"}, BeginSend(p, type)
      PROVE  Typed'
  <2> DEFINE c == [kind |-> "send", stage |-> "begin", peer |-> p, msg |-> sends + 1, type |-> type]
  <2>1. Begin(c) /\ sends' = sends + 1 /\ sends' \in 0..MaxSends /\ sends' > 0
    BY <1>8, TransportAssumption DEF BeginSend, TypeOK
  <2>2. c \in Calls
    BY <2>1 DEF Calls
  <2>3. c.peer = p /\ c.type = type /\ c.msg = sends'
    BY <2>1
  <2> HIDE DEF c
  <2> QED
    BY <2>1, <2>2, <2>3, BeginTyped
<1>9. ASSUME BeginRecv \/ BeginTick PROVE Typed'
  <2> DEFINE r == [kind |-> "recv", stage |-> "begin", peer |-> "none", msg |-> 0, type |-> "none"]
             t == [kind |-> "tick", stage |-> "begin", peer |-> "none", msg |-> 0, type |-> "none"]
  <2>1. r \in Calls /\ t \in Calls /\ r.kind # "send" /\ t.kind # "send"
    BY TransportAssumption DEF Calls
  <2>2. (Begin(r) \/ Begin(t)) /\ sends' \in 0..MaxSends
    BY <1>9 DEF BeginRecv, BeginTick, TypeOK
  <2> HIDE DEF r, t
  <2> QED
    BY <2>1, <2>2, BeginTyped
<1>10. ASSUME FlushOne PROVE Typed'
  <2>1. pending \in Seq([peer : Peers, msg : 1..MaxSends]) /\ pending # <<>>
    BY <1>10 DEF FlushOne, Flush, TypeOK
  <2>2. /\ Head(pending) \in [peer : Peers, msg : 1..MaxSends]
        /\ Tail(pending) \in Seq([peer : Peers, msg : 1..MaxSends])
    BY <2>1, HeadTailProperties
  <2>5. Head(pending).peer \in Peers /\ Head(pending).msg \in 1..MaxSends
    BY <2>2
  <2>3. TableOK(table')
    BY <1>10, <2>5, SendNowKeeps DEF FlushOne, Flush
  <2>4. CallOK' /\ call' \in Calls
    BY <1>10, TransportAssumption DEF FlushOne, Flush, CallOK, TypeOK, Free, Calls
  <2> QED
    BY <1>10, <2>2, <2>5, <2>3, <2>4 DEF FlushOne, Flush, TypeOK, TableOK, Tables
<1>11. ASSUME FlushDone PROVE Typed'
  BY <1>11 DEF FlushDone, history, TypeOK, CallOK, Calls
<1>12. ASSUME ActQueue PROVE Typed'
  <2>1. [peer |-> call.peer, msg |-> call.msg] \in [peer : Peers, msg : 1..MaxSends]
    BY <1>12 DEF ActQueue, CallOK, TypeOK
  <2>2. Append(pending, [peer |-> call.peer, msg |-> call.msg]) \in Seq([peer : Peers, msg : 1..MaxSends])
    BY <2>1 DEF TypeOK
  <2>3. CallOK' /\ call' \in Calls
    BY <1>12, TransportAssumption DEF ActQueue, CallOK, Free, Calls
  <2> QED
    BY <1>12, <2>1, <2>2, <2>3 DEF ActQueue, TypeOK
<1>13. ASSUME ActSend PROVE Typed'
  <2>1. call.peer \in Peers /\ call.msg \in 1..MaxSends
    BY <1>13 DEF ActSend, CallOK, TypeOK
  <2>2. TableOK(table')
    BY <1>13, <2>1, SendNowKeeps DEF ActSend
  <2>3. CallOK' /\ call' \in Calls
    BY <1>13, TransportAssumption DEF ActSend, CallOK, Free, Calls
  <2> QED
    BY <1>13, <2>1, <2>2, <2>3 DEF ActSend, TypeOK, TableOK, Tables
<1>14. ASSUME ActRecv PROVE Typed'
  <2>1. TableOK(table')
    BY <1>14, BleFallbackKeeps DEF ActRecv, Connected
  <2>2. CallOK' /\ call' \in Calls
    BY <1>14, TransportAssumption DEF ActRecv, CallOK, Free, Calls
  <2> QED
    BY <1>14, <2>1, <2>2 DEF ActRecv, history, TypeOK, TableOK, Tables
<1>15. ASSUME ActTick PROVE Typed'
  BY <1>15, TransportAssumption DEF ActTick, history, TypeOK, CallOK, Calls, Free
<1>16. CASE UNCHANGED vars
  BY <1>16 DEF vars, TypeOK, CallOK, TableOK
<1> QED
  BY <1>1, <1>2, <1>3, <1>4, <1>5, <1>6, <1>7, <1>8, <1>9, <1>10, <1>11, <1>12, <1>13, <1>14,
     <1>15, <1>16 DEF Next
-----------------------------------------------------------------------------
\* Taking the first message off the queue.
LEMMA TailQueued ==
  ASSUME TypeOK, NoRepeat, pending # <<>>, pending' = Tail(pending)
  PROVE  /\ Head(pending).msg \in Queued /\ Queued' = Queued \ {Head(pending).msg}
         /\ NoRepeat'
<1> DEFINE n == Len(pending)
<1>1. /\ pending \in Seq([peer : Peers, msg : 1..MaxSends])
      /\ n \in Nat \ {0} /\ DOMAIN pending = 1..n
  BY EmptySeq, LenProperties DEF TypeOK
<1>2. /\ Head(pending) = pending[1] /\ DOMAIN pending' = 1..(n - 1)
      /\ \A i \in 1..(n - 1) : pending'[i] = pending[i + 1]
  BY <1>1, HeadTailProperties, LenProperties
<1> HIDE DEF n
<1>3. \A m : m \in Queued <=> \E i \in 1..n : m = pending[i].msg
  BY <1>1 DEF Queued
<1>4. \A m : m \in Queued' <=> \E i \in 1..(n - 1) : m = pending[i + 1].msg
  <2> DEFINE q == pending'
  <2>1. DOMAIN q = 1..(n - 1) /\ \A i \in 1..(n - 1) : q[i] = pending[i + 1]
    BY <1>2
  <2>2. Queued' = {q[i].msg : i \in DOMAIN q}
    BY DEF Queued
  <2> HIDE DEF q
  <2> QED
    BY <2>1, <2>2
<1>5. \A m : m \in Queued' <=> \E i \in 2..n : m = pending[i].msg
  <2>1. \A i \in 2..n : i - 1 \in 1..(n - 1) /\ (i - 1) + 1 = i
    BY <1>1
  <2>2. \A i \in 1..(n - 1) : i + 1 \in 2..n
    BY <1>1
  <2> QED
    BY <1>4, <2>1, <2>2
<1>6. \A i \in 2..n : pending[i].msg # pending[1].msg
  BY <1>1 DEF NoRepeat
<1>7. NoRepeat'
  BY <1>1, <1>2 DEF NoRepeat
<1>8. Queued' = Queued \ {pending[1].msg}
  <2>1. 1 \in 1..n /\ \A i \in 1..n : i = 1 \/ i \in 2..n
    BY <1>1
  <2> QED
    BY <1>3, <1>5, <1>6, <2>1
<1> QED
  BY <1>1, <1>2, <1>3, <1>7, <1>8

\* Queueing a message that is not queued.
LEMMA AppendQueued ==
  ASSUME TypeOK, NoRepeat, NEW p \in Peers, NEW m \in 1..MaxSends, m \notin Queued,
         pending' = Append(pending, [peer |-> p, msg |-> m])
  PROVE  Queued' = Queued \cup {m} /\ NoRepeat'
<1> DEFINE n == Len(pending)
           e == [peer |-> p, msg |-> m]
<1>1. /\ pending \in Seq([peer : Peers, msg : 1..MaxSends])
      /\ n \in Nat /\ DOMAIN pending = 1..n /\ e.msg = m /\ e \in [peer : Peers, msg : 1..MaxSends]
  BY LenProperties DEF TypeOK
<1> HIDE DEF e
<1>2. /\ DOMAIN pending' = 1..(n + 1) /\ pending'[n + 1] = e
      /\ \A i \in 1..n : pending'[i] = pending[i]
  BY <1>1, AppendProperties, LenProperties DEF e
<1> HIDE DEF n
<1>3. \A i \in 1..(n + 1) : i \in 1..n \/ i = n + 1
  BY <1>1
<1>4. Queued' = Queued \cup {m}
  BY <1>1, <1>2, <1>3 DEF Queued
<1>5. \A i \in 1..n : pending[i].msg # m
  BY <1>1 DEF Queued
<1>6. NoRepeat'
  BY <1>1, <1>2, <1>3, <1>5 DEF NoRepeat
<1> QED
  BY <1>4, <1>6

\* Every step keeps the books: no message is lost, sent again or kept twice.
LEMMA BooksStep ==
  ASSUME Typed, Fresh, NoRepeat, Balanced, [Next]_vars
  PROVE  Fresh' /\ NoRepeat' /\ Balanced'
<1> USE DEF Typed
<1>1. CASE UNCHANGED <<pending, accepted, delivered, dropped, sends, call>>
  BY <1>1 DEF Fresh, NoRepeat, Balanced, Queued
<1>2. ASSUME UNCHANGED <<pending, accepted, delivered, dropped>>,
             \/ call'.kind # "send" /\ sends' = sends
             \/ call'.kind = call.kind /\ call'.msg = call.msg /\ sends' = sends
             \/ sends' = sends + 1 /\ call'.msg = sends'
      PROVE  Fresh' /\ NoRepeat' /\ Balanced'
  <2>1. Queued' = Queued
    BY <1>2 DEF Queued
  <2>2. sends \in Nat
    BY DEF TypeOK
  <2> QED
    BY <1>2, <2>1, <2>2 DEF Fresh, NoRepeat, Balanced
<1>3. ASSUME Shutdown PROVE Fresh' /\ NoRepeat' /\ Balanced'
  <2>1. Queued' = {}
    BY <1>3 DEF Shutdown, Queued
  <2> QED
    BY <1>3, <2>1 DEF Shutdown, Fresh, NoRepeat, Balanced
<1>4. ASSUME FlushOne PROVE Fresh' /\ NoRepeat' /\ Balanced'
  <2> DEFINE m == Head(pending).msg
  <2>1. m \in Queued /\ Queued' = Queued \ {m} /\ NoRepeat'
    BY <1>4, TailQueued DEF FlushOne, Flush
  <2>2. /\ accepted' = accepted /\ sends' = sends /\ (call' = call \/ call' = Free)
        /\ \/ delivered' = delivered \cup {m} /\ dropped' = dropped
           \/ dropped' = dropped \cup {m} /\ delivered' = delivered
    BY <1>4 DEF FlushOne, Flush
  <2>3. Free.kind # "send"
    BY DEF Free
  <2> HIDE DEF m
  <2>4. Balanced'
    BY <2>1, <2>2 DEF Balanced
  <2> QED
    BY <2>1, <2>2, <2>3, <2>4 DEF Fresh
<1>5. ASSUME ActQueue PROVE Fresh' /\ NoRepeat' /\ Balanced'
  <2>1. call.peer \in Peers /\ call.msg \in 1..sends /\ call.msg \in 1..MaxSends /\ call.kind = "send"
    BY <1>5 DEF ActQueue, CallOK, TypeOK
  <2>2. call.msg \notin accepted \cup delivered \cup dropped \cup Queued
    BY <2>1 DEF Fresh
  <2>3. Queued' = Queued \cup {call.msg} /\ NoRepeat'
    BY <1>5, <2>1, <2>2, AppendQueued DEF ActQueue
  <2>4. Balanced'
    BY <1>5, <2>2, <2>3 DEF ActQueue, Balanced
  <2>5. Fresh'
    BY <1>5, <2>1, <2>3 DEF ActQueue, Fresh, Free
  <2> QED
    BY <2>3, <2>4, <2>5
<1>6. ASSUME ActSend PROVE Fresh' /\ NoRepeat' /\ Balanced'
  <2>1. call.peer \in Peers /\ call.msg \in 1..sends /\ call.kind = "send"
    BY <1>6 DEF ActSend, CallOK, TypeOK
  <2>2. call.msg \notin accepted \cup delivered \cup dropped \cup Queued
    BY <2>1 DEF Fresh
  <2>3. /\ pending' = pending /\ dropped' = dropped /\ sends' = sends /\ call' = Free
        /\ \/ accepted' = accepted /\ delivered' \in {delivered, delivered \cup {call.msg}}
           \/ accepted' = accepted \cup {call.msg} /\ delivered' = delivered \cup {call.msg}
    BY <1>6 DEF ActSend
  <2>4. Queued' = Queued /\ NoRepeat'
    BY <2>3 DEF Queued, NoRepeat
  <2>5. Balanced'
    BY <2>2, <2>3, <2>4 DEF Balanced
  <2>6. Fresh'
    BY <2>1, <2>3, <2>4 DEF Fresh, Free
  <2> QED
    BY <2>4, <2>5, <2>6
<1>7. ASSUME NEW p \in Peers, NEW type, BeginSend(p, type) PROVE Fresh' /\ NoRepeat' /\ Balanced'
  <2>1. call'.msg = sends + 1 /\ sends' = sends + 1 /\ UNCHANGED <<pending, accepted, delivered, dropped>>
    BY <1>7 DEF BeginSend, Begin
  <2> QED
    BY <2>1, <1>2
<1>8. ASSUME BeginRecv \/ BeginTick PROVE Fresh' /\ NoRepeat' /\ Balanced'
  <2>1. call'.kind # "send" /\ sends' = sends /\ UNCHANGED <<pending, accepted, delivered, dropped>>
    BY <1>8 DEF BeginRecv, BeginTick, Begin
  <2> QED
    BY <2>1, <1>2
<1>9. ASSUME FlushDone PROVE Fresh' /\ NoRepeat' /\ Balanced'
  <2>1. /\ call'.kind = call.kind /\ call'.msg = call.msg /\ sends' = sends
        /\ UNCHANGED <<pending, accepted, delivered, dropped>>
    BY <1>9 DEF FlushDone, history, TypeOK, Calls
  <2> QED
    BY <2>1, <1>2
<1>10. ASSUME ActRecv \/ ActTick PROVE Fresh' /\ NoRepeat' /\ Balanced'
  <2>1. call'.kind # "send" /\ sends' = sends /\ UNCHANGED <<pending, accepted, delivered, dropped>>
    BY <1>10 DEF ActRecv, ActTick, history, Free
  <2> QED
    BY <2>1, <1>2
<1>11. ASSUME \/ WindowChanges \/ BecomeIdle \/ RegisterInbound \/ NotifyMacRotated \/ UNCHANGED vars
              \/ \E l \in Listeners : ListenerSend(l) \/ \E p \in Peers : ListenerAccept(l, p)
              \/ \E p \in Peers : Connect(p) \/ DisconnectPeer(p)
       PROVE  Fresh' /\ NoRepeat' /\ Balanced'
  BY <1>1, <1>11 DEF WindowChanges, BecomeIdle, RegisterInbound, NotifyMacRotated, ListenerSend,
                     ListenerAccept, Connect, DisconnectPeer, history, vars
<1> QED
  BY <1>3, <1>4, <1>5, <1>6, <1>7, <1>8, <1>9, <1>10, <1>11 DEF Next

\* Every step keeps the wake-up armed while transactions wait for it.
LEMMA WakeUpStep ==
  ASSUME Typed, WakeUpArmed, FlushedInWindow, [Next]_vars
  PROVE  WakeUpArmed' /\ FlushedInWindow'
<1> USE DEF Typed, WakeUpArmed, FlushedInWindow
<1>1. ASSUME NEW c, Begin(c), c \in Calls PROVE WakeUpArmed' /\ FlushedInWindow'
  <2>1. call.stage = "free"
    BY <1>1 DEF Begin, Free
  <2>2. UNCHANGED <<window, pending, aborted>>
    BY <1>1 DEF Begin
  <2>3. CASE call'.stage = "flush"
    BY <2>3
  <2>4. CASE ~WakeNetwork(FallAsleep) /\ mode' = FallAsleep /\ UNCHANGED armed
    BY <2>1, <2>2, <2>4 DEF WakeNetwork, FallAsleep
  <2>5. [c EXCEPT !.stage = "flush"].stage = "flush"
    BY <1>1 DEF Calls
  <2> QED
    BY <1>1, <2>3, <2>4, <2>5 DEF Begin
<1>2. ASSUME \/ BeginRecv \/ BeginTick
             \/ \E p \in Peers, type \in {"Transaction", "SyncRequest"} : BeginSend(p, type)
      PROVE  WakeUpArmed' /\ FlushedInWindow'
  <2> SUFFICES \E c \in Calls : Begin(c)
    BY <1>1
  <2>1. CASE BeginRecv
    BY <2>1, TransportAssumption DEF BeginRecv, Calls
  <2>2. CASE BeginTick
    BY <2>2, TransportAssumption DEF BeginTick, Calls
  <2>3. ASSUME NEW p \in Peers, NEW type \in {"Transaction", "SyncRequest"}, BeginSend(p, type)
        PROVE  \E c \in Calls : Begin(c)
    BY <2>3, TransportAssumption DEF BeginSend, Calls, TypeOK
  <2> QED
    BY <1>2, <2>1, <2>2, <2>3
<1>3. ASSUME FlushOne \/ FlushDone PROVE WakeUpArmed' /\ FlushedInWindow'
  BY <1>3 DEF FlushOne, Flush, FlushDone, TypeOK, Calls, Free, history
<1>4. ASSUME ActQueue PROVE WakeUpArmed' /\ FlushedInWindow'
  BY <1>4 DEF ActQueue, Asleep, Free
<1>5. ASSUME ActSend \/ ActRecv \/ ActTick PROVE WakeUpArmed' /\ FlushedInWindow'
  BY <1>5 DEF ActSend, ActRecv, ActTick, Asleep, Free, history
<1>6. ASSUME \/ WindowChanges \/ BecomeIdle \/ RegisterInbound \/ NotifyMacRotated \/ Shutdown
             \/ UNCHANGED vars
             \/ \E l \in Listeners : ListenerSend(l) \/ \E p \in Peers : ListenerAccept(l, p)
             \/ \E p \in Peers : Connect(p) \/ DisconnectPeer(p)
       PROVE  WakeUpArmed' /\ FlushedInWindow'
  BY <1>6 DEF WindowChanges, BecomeIdle, RegisterInbound, NotifyMacRotated, Shutdown, ListenerSend,
              ListenerAccept, Connect, DisconnectPeer, history, vars, Free
<1> QED
  BY <1>2, <1>3, <1>4, <1>5, <1>6 DEF Next

\* The queue is in order of arrival.
Ordered == \A i, j \in DOMAIN pending : i < j => pending[i].msg < pending[j].msg

\* Every step keeps the order: a flush takes the oldest message, a message is
\* queued behind older ones, and one that is sent at once finds none queued.
LEMMA OrderStep ==
  ASSUME Typed, Fresh, NoRepeat, WakeUpArmed, FlushedInWindow, NotOvertaken, Ordered, [Next]_vars
  PROVE  NotOvertaken' /\ Ordered'
<1> USE DEF Typed
<1>0. /\ sends \in Nat /\ Queued \subseteq 1..MaxSends
      /\ \A m \in accepted \cup delivered \cup Queued : m \in 1..sends
  BY QueuedTyped DEF TypeOK, Fresh
<1>1. ASSUME pending' = pending, aborted' = aborted, accepted' \cap delivered' \subseteq accepted \cap delivered
      PROVE  NotOvertaken' /\ Ordered'
  <2>1. Queued' = Queued
    BY <1>1 DEF Queued
  <2> QED
    BY <1>1, <2>1 DEF NotOvertaken, Ordered
<1>2. ASSUME Shutdown PROVE NotOvertaken' /\ Ordered'
  <2>1. pending' = <<>> /\ Queued' = {}
    BY <1>2 DEF Shutdown, Queued
  <2> QED
    BY <2>1 DEF NotOvertaken, Ordered
<1>3. ASSUME FlushOne PROVE NotOvertaken' /\ Ordered'
  <2> DEFINE n == Len(pending)
             m == Head(pending).msg
  <2>1. pending # <<>> /\ pending' = Tail(pending) /\ accepted' = accepted
        /\ delivered' \in {delivered, delivered \cup {m}} /\ (aborted => aborted')
    BY <1>3 DEF FlushOne, Flush
  <2>2. m \in Queued /\ Queued' = Queued \ {m}
    BY <2>1, TailQueued
  <2>3. /\ n \in Nat \ {0} /\ DOMAIN pending = 1..n /\ Head(pending) = pending[1]
        /\ DOMAIN pending' = 1..(n - 1) /\ \A i \in 1..(n - 1) : pending'[i] = pending[i + 1]
    BY <2>1, EmptySeq, HeadTailProperties, LenProperties DEF TypeOK
  <2> HIDE DEF n
  <2>4. ASSUME NEW q \in Queued' PROVE m < q
    <3>1. q \in Queued /\ q # m
      BY <2>2
    <3>2. PICK i \in 1..n : q = pending[i].msg
      BY <2>3, <3>1 DEF Queued
    <3>3. i # 1
      BY <2>3, <3>1, <3>2
    <3>4. 1 < i /\ 1 \in 1..n
      BY <2>3, <3>3
    <3> QED
      BY <2>3, <3>2, <3>4 DEF Ordered
  <2>5. Ordered'
    <3> SUFFICES ASSUME NEW i \in 1..(n - 1), NEW j \in 1..(n - 1), i < j
                 PROVE  pending'[i].msg < pending'[j].msg
      BY <2>3 DEF Ordered
    <3>1. i + 1 \in 1..n /\ j + 1 \in 1..n /\ i + 1 < j + 1
      BY <2>3
    <3> QED
      BY <2>3, <3>1 DEF Ordered
  <2> HIDE DEF m
  <2>6. NotOvertaken'
    BY <2>1, <2>2, <2>4 DEF NotOvertaken
  <2> QED
    BY <2>5, <2>6
<1>4. ASSUME ActQueue PROVE NotOvertaken' /\ Ordered'
  <2> DEFINE n == Len(pending)
             e == [peer |-> call.peer, msg |-> call.msg]
  <2>1. /\ call.peer \in Peers /\ call.msg = sends /\ call.msg \in 1..MaxSends /\ call.kind = "send"
        /\ pending' = Append(pending, e) /\ accepted' = accepted \cup {call.msg}
        /\ delivered' = delivered /\ aborted' = aborted
    BY <1>4 DEF ActQueue, CallOK, TypeOK
  <2>2. \A m \in accepted \cup delivered \cup Queued : m < call.msg
    BY <1>0, <2>1 DEF Fresh
  <2>3. call.msg \notin Queued /\ call.msg \notin delivered
    BY <2>1 DEF Fresh
  <2>4. Queued' = Queued \cup {call.msg}
    BY <2>1, <2>3, AppendQueued
  <2>5. /\ pending \in Seq([peer : Peers, msg : 1..MaxSends])
        /\ n \in Nat /\ DOMAIN pending = 1..n /\ e.msg = call.msg
        /\ e \in [peer : Peers, msg : 1..MaxSends]
    BY <2>1, LenProperties DEF TypeOK
  <2> HIDE DEF e
  <2>6. /\ DOMAIN pending' = 1..(n + 1) /\ pending'[n + 1] = e
        /\ \A i \in 1..n : pending'[i] = pending[i]
    BY <2>1, <2>5, AppendProperties, LenProperties
  <2> HIDE DEF n
  <2>7. \A i \in 1..n : pending[i].msg < call.msg
    BY <2>2, <2>5 DEF Queued
  <2>8. Ordered'
    <3> SUFFICES ASSUME NEW i \in 1..(n + 1), NEW j \in 1..(n + 1), i < j
                 PROVE  pending'[i].msg < pending'[j].msg
      BY <2>6 DEF Ordered
    <3>1. i \in 1..n /\ (j \in 1..n \/ j = n + 1)
      BY <2>5
    <3> QED
      BY <2>5, <2>6, <2>7, <3>1 DEF Ordered
  <2>9. NotOvertaken'
    BY <2>1, <2>2, <2>3, <2>4 DEF NotOvertaken
  <2> QED
    BY <2>8, <2>9
<1>5. ASSUME ActSend PROVE NotOvertaken' /\ Ordered'
  <2>1. /\ pending' = pending /\ aborted' = aborted /\ call.kind = "send" /\ call.stage = "act"
        /\ ~(call.type = "Transaction" /\ Asleep)
        /\ \/ accepted' = accepted /\ delivered' \in {delivered, delivered \cup {call.msg}}
           \/ call.type = "Transaction" /\ accepted' = accepted \cup {call.msg}
    BY <1>5 DEF ActSend
  <2>2. call.msg \notin accepted
    <3>1. call.msg = sends
      BY <2>1 DEF CallOK
    <3> QED
      BY <2>1, <3>1 DEF Fresh
  <2>3. CASE accepted' = accepted
    BY <1>1, <2>1, <2>2, <2>3
  <2>4. CASE call.type = "Transaction"
    <3>1. aborted \/ pending = <<>>
      BY <2>1, <2>4 DEF Asleep, WakeUpArmed, FlushedInWindow
    <3>2. pending = <<>> => Queued' = {}
      BY <2>1 DEF Queued
    <3> QED
      BY <2>1, <3>1, <3>2 DEF NotOvertaken, Ordered
  <2> QED
    BY <2>1, <2>3, <2>4
<1>6. ASSUME \/ WindowChanges \/ BecomeIdle \/ RegisterInbound \/ NotifyMacRotated \/ UNCHANGED vars
             \/ BeginRecv \/ BeginTick \/ FlushDone \/ ActRecv \/ ActTick
             \/ \E l \in Listeners : ListenerSend(l) \/ \E p \in Peers : ListenerAccept(l, p)
             \/ \E p \in Peers : \/ Connect(p) \/ DisconnectPeer(p)
                                \/ \E type \in {"Transaction", "SyncRequest"} : BeginSend(p, type)
      PROVE  NotOvertaken' /\ Ordered'
  BY <1>1, <1>6 DEF WindowChanges, BecomeIdle, RegisterInbound, NotifyMacRotated, ListenerSend,
       ListenerAccept, Connect, DisconnectPeer, BeginSend, BeginRecv, BeginTick, Begin, FlushDone,
       ActRecv, ActTick, history, vars
<1> QED
  BY <1>2, <1>3, <1>4, <1>5, <1>6 DEF Next

\* A step of a node that is asleep outside the window.
LEMMA SilentStep ==
  ASSUME Typed, [Next]_vars, Asleep
  PROVE  mode' = mode /\ (delivered' # delivered => call.type = "SyncRequest")
<1> USE DEF Typed, Asleep
<1>1. ASSUME NEW c, Begin(c) PROVE mode' = mode /\ delivered' = delivered
  BY <1>1 DEF Begin, WakeNetwork, FallAsleep
<1>2. ASSUME ActSend PROVE mode' = mode /\ call.type = "SyncRequest"
  BY <1>2 DEF ActSend, CallOK
<1>3. ~FlushOne
  BY DEF FlushOne, Flush, CallOK
<1> QED
  BY <1>1, <1>2, <1>3 DEF Next, WindowChanges, BecomeIdle, RegisterInbound, NotifyMacRotated, Shutdown,
       ListenerSend, ListenerAccept, Connect, DisconnectPeer, history, vars, BeginSend, BeginRecv,
       BeginTick, FlushDone, ActQueue, ActRecv, ActTick
-----------------------------------------------------------------------------
\* The manager is well typed in every state it can reach: no channel exceeds
\* its capacity, and what is queued are messages with a peer to send them to.
THEOREM TypeCorrect == Spec => []TypeOK
<1>1. Typed => TypeOK
  BY DEF Typed
<1> QED
  BY <1>1, TypedInit, TypedStep, PTL DEF Spec

\* peer_count mirrors active_connections.len() through replacements, BLE
\* fallbacks, MAC rotations, batches of inbound connections and shutdown.
THEOREM CounterMirrorsTable == Spec => []CountMirrors
<1>1. Typed => CountMirrors
  BY DEF Typed, TableOK, CountMirrors
<1> QED
  BY <1>1, TypedInit, TypedStep, PTL DEF Spec

\* A transaction that send_to took is delivered, queued or known to be thrown
\* away, and never twice, however many calls and flushes fail.
THEOREM TransactionsAccounted == Spec => []Accounted
<1>1. Init => Fresh /\ NoRepeat /\ Balanced
  BY DEF Init, Fresh, NoRepeat, Balanced, Queued
<1>2. Typed /\ NoRepeat /\ Balanced => Accounted
  <2> SUFFICES ASSUME Typed, NoRepeat, Balanced PROVE Cardinality(Queued) = Len(pending)
    BY DEF Balanced, Accounted
  <2> DEFINE n == Len(pending)
             f == [i \in 1..n |-> pending[i].msg]
  <2>1. n \in Nat /\ DOMAIN pending = 1..n
    BY LenProperties DEF Typed, TypeOK
  <2>2. f \in Bijection(1..n, Queued)
    <3>1. f \in [1..n -> Queued] /\ \A m \in Queued : \E i \in 1..n : f[i] = m
      BY <2>1 DEF Queued
    <3>2. \A i, j \in 1..n : f[i] = f[j] => i = j
      BY <2>1 DEF NoRepeat
    <3> QED
      BY <3>1, <3>2 DEF Bijection, Injection, Surjection, IsInjective
  <2>3. ExistsBijection(1..n, Queued)
    BY <2>2 DEF ExistsBijection
  <2> QED
    BY <2>1, <2>3, FS_CountingElements
<1>3. Typed /\ Fresh /\ NoRepeat /\ Balanced /\ [Next]_vars => (Fresh /\ NoRepeat /\ Balanced)'
  BY BooksStep
<1> QED
  BY <1>1, <1>2, <1>3, TypedInit, TypedStep, PTL DEF Spec

\* As long as no flush has failed, transactions that wait for the wake window
\* have a wake-up armed and the node is in low power.
THEOREM WakeUpsArmed == Spec => []WakeUpArmed
<1>1. Init => WakeUpArmed /\ FlushedInWindow
  BY DEF Init, WakeUpArmed, FlushedInWindow
<1>2. Typed /\ WakeUpArmed /\ FlushedInWindow /\ [Next]_vars => (WakeUpArmed /\ FlushedInWindow)'
  BY WakeUpStep
<1> QED
  BY <1>1, <1>2, TypedInit, TypedStep, PTL DEF Spec

\* Asleep outside the wake window the node stays asleep and sends no
\* transaction, whatever arrives or waits.
THEOREM AsleepIsSilent == Spec => SilentAsleep
<1> DEFINE Silent == Asleep => /\ mode' = mode
                               /\ delivered' # delivered => call.type = "SyncRequest"
<1>1. Typed /\ [Next]_vars => [Silent]_vars
  BY SilentStep
<1> QED
  BY <1>1, TypedInit, TypedStep, PTL DEF Spec, SilentAsleep

\* NotOvertaken, for every set of peers and any number of messages: as long as
\* no flush has failed, no transaction that send_to took goes out before one
\* that it took earlier and queued.
THEOREM OrderIsKept == Spec => []NotOvertaken
<1> DEFINE Books == Fresh /\ NoRepeat /\ Balanced
           Waking == WakeUpArmed /\ FlushedInWindow
           Order == NotOvertaken /\ Ordered
<1>1. Init => Books /\ Waking /\ Order
  BY DEF Init, Fresh, NoRepeat, Balanced, Queued, WakeUpArmed, FlushedInWindow, NotOvertaken, Ordered
<1>2. Typed /\ Books /\ Waking /\ Order /\ [Next]_vars => (Books /\ Waking /\ Order)'
  BY BooksStep, WakeUpStep, OrderStep
<1>3. Order => NotOvertaken
  OBVIOUS
<1> QED
  BY <1>1, <1>2, <1>3, TypedInit, TypedStep, PTL DEF Spec
=============================================================================
