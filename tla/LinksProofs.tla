---------------------------- MODULE LinksProofs ----------------------------
(***************************************************************************)
(* The connections of SecureLink: what a side receives is what the other   *)
(* side sent, whole, and over Wi-Fi in order, for every frame size, every  *)
(* length of messages, every set of ids and every number of sends and      *)
(* reconnects.                                                             *)
(*                                                                         *)
(* Neither Intact nor InOrder is inductive.  Intact needs that frames      *)
(* under way and cells in a reassembler that agree on id and length come   *)
(* from one message (Unmixed).  InOrder needs the order of the frames in   *)
(* the stream and in the call that is writing them (Ordered), that no cell *)
(* of a frame under way has arrived already (Missing), and that a message  *)
(* that was received has nothing left under way.  Both rest on the frames  *)
(* and buffers having their shapes (LinkTypes) and on nothing coming from  *)
(* a message that was not sent (Bounded).                                  *)
(*                                                                         *)
(* Each action is classified once by what it does to frames and buffers    *)
(* (Quiet, Sends, Receives); the invariants are then proved for the three  *)
(* classes.                                                                *)
(***************************************************************************)
EXTENDS SecureLink, SequenceTheorems, TLAPS

Frames ==
  {f \in [message_id : Ids, total_length : 1..MAX_MESSAGE_SIZE, offset : Nat,
          payload_size : Nat \ {0}, source : Nat \ {0}] :
     f.offset + f.payload_size <= f.total_length}

Parts == [part : {"prefix", "body", "fragment"}, frame : SUBSET Frames]

\* A message that is partly there.
Partial(b) ==
  /\ b = [total |-> b.total, data |-> b.data]
  /\ b.total \in 1..MAX_MESSAGE_SIZE
  /\ b.data \in [1..b.total -> Nat]
  /\ Received(b) # {} /\ Received(b) # 1..b.total

Reassembler(B) ==
  /\ B = [id \in Ids |-> B[id]]
  /\ \A id \in Ids : B[id] = NoBuffer \/ Partial(B[id])

\* Cell i of a message, once frame f has come, is x: it is of the frame, or was
\* there before.
Comes(B, f, i, x) ==
  \/ x = f.source /\ f.offset < i /\ i <= f.offset + f.payload_size
  \/ B[f.message_id].total = f.total_length /\ x = B[f.message_id].data[i]

Calls == [do : {"idle", "send", "recv", "ingest"}, frames : Seq(Frames), half : BOOLEAN, result : {"none", "ok"}]

\* The frames of a stream w, and of the call q that is writing to it.
Contents(w, q) == ToSet(q) \cup UNION {w[i].frame : i \in DOMAIN w}

Before(f, g) ==
  \/ f.source < g.source
  \/ /\ f.source = g.source /\ f.message_id = g.message_id /\ f.total_length = g.total_length
     /\ f.offset + f.payload_size <= g.offset

\* The frames of a stream, and those that are still to be written to it, are
\* in the order of their messages and within a message disjoint.
Ordered(w, q) ==
  /\ \A i, j \in DOMAIN w : i < j => \A f \in w[i].frame, g \in w[j].frame : Before(f, g)
  /\ \A i \in DOMAIN w, j \in DOMAIN q : \A f \in w[i].frame : Before(f, q[j])
  /\ \A i, j \in DOMAIN q : i < j => Before(q[i], q[j])

\* The second stream is what is left of the first.
Shrinks(w, q, w2, q2) ==
  /\ w2 \in Seq(Parts) /\ q2 \in Seq(Frames)
  /\ Contents(w2, q2) \subseteq Contents(w, q)
  /\ Ordered(w, q) => Ordered(w2, q2)
-----------------------------------------------------------------------------
(* Streams.                                                                *)

\* A frame is in a stream when some place of the stream has it.
LEMMA InContents ==
  ASSUME NEW w, NEW q, NEW f
  PROVE  f \in Contents(w, q) <=> \/ \E j \in DOMAIN q : f = q[j]
                                  \/ \E i \in DOMAIN w : f \in w[i].frame
BY DEF Contents, ToSet

\* Places of the second stream stand for places of the first, in the same
\* order; the call writes the same frames.
LEMMA StreamMapped ==
  ASSUME NEW w, NEW q, NEW w2 \in Seq(Parts), NEW q2 \in Seq(Frames), NEW m, NEW k,
         \A i \in DOMAIN w2 : w2[i].frame = {} \/ (m[i] \in DOMAIN w /\ w2[i].frame \subseteq w[m[i]].frame),
         \A i, j \in DOMAIN w2 : i < j /\ w2[i].frame # {} /\ w2[j].frame # {} => m[i] < m[j],
         \A i \in DOMAIN q2 : k[i] \in DOMAIN q /\ q2[i] = q[k[i]],
         \A i, j \in DOMAIN q2 : i < j => k[i] < k[j]
  PROVE  Shrinks(w, q, w2, q2)
<1>1. Contents(w2, q2) \subseteq Contents(w, q)
  <2> SUFFICES ASSUME NEW f \in Contents(w2, q2) PROVE f \in Contents(w, q)
    OBVIOUS
  <2>1. CASE \E j \in DOMAIN q2 : f = q2[j]
    BY <2>1, InContents
  <2>2. CASE \E i \in DOMAIN w2 : f \in w2[i].frame
    <3>1. PICK i \in DOMAIN w2 : f \in w2[i].frame
      BY <2>2
    <3>2. m[i] \in DOMAIN w /\ f \in w[m[i]].frame
      BY <3>1
    <3> QED
      BY <3>2, InContents
  <2> QED
    BY <2>1, <2>2, InContents
<1>2. ASSUME Ordered(w, q) PROVE Ordered(w2, q2)
  <2>1. ASSUME NEW i \in DOMAIN w2, NEW j \in DOMAIN w2, i < j, NEW f \in w2[i].frame, NEW g \in w2[j].frame
        PROVE  Before(f, g)
    <3>1. m[i] \in DOMAIN w /\ m[j] \in DOMAIN w /\ f \in w[m[i]].frame /\ g \in w[m[j]].frame /\ m[i] < m[j]
      BY <2>1
    <3> QED
      BY <1>2, <3>1 DEF Ordered
  <2>2. ASSUME NEW i \in DOMAIN w2, NEW j \in DOMAIN q2, NEW f \in w2[i].frame
        PROVE  Before(f, q2[j])
    <3>1. m[i] \in DOMAIN w /\ f \in w[m[i]].frame /\ k[j] \in DOMAIN q /\ q2[j] = q[k[j]]
      BY <2>2
    <3> QED
      BY <1>2, <3>1 DEF Ordered
  <2>3. ASSUME NEW i \in DOMAIN q2, NEW j \in DOMAIN q2, i < j
        PROVE  Before(q2[i], q2[j])
    BY <1>2, <2>3 DEF Ordered
  <2> QED
    BY <2>1, <2>2, <2>3 DEF Ordered
<1> QED
  BY <1>1, <1>2 DEF Shrinks

LEMMA ShrinksTwice ==
  ASSUME NEW w, NEW q, NEW w1, NEW q1, NEW w2, NEW q2, Shrinks(w, q, w1, q1), Shrinks(w1, q1, w2, q2)
  PROVE  Shrinks(w, q, w2, q2)
BY DEF Shrinks

\* A stream that is left alone, cut off, or whose call is over.
LEMMA StreamCut ==
  ASSUME NEW w \in Seq(Parts), NEW q \in Seq(Frames)
  PROVE  /\ Shrinks(w, q, w, q) /\ Shrinks(w, q, <<>>, q)
         /\ Shrinks(w, q, w, <<>>) /\ Shrinks(w, q, <<>>, <<>>)
<1>1. Shrinks(w, q, w, q)
  BY DEF Shrinks
<1>2. <<>> \in Seq(Parts) /\ <<>> \in Seq(Frames) /\ DOMAIN <<>> = {}
  BY EmptySeq
<1>3. ASSUME NEW v \in {w, <<>>}, NEW r \in {q, <<>>} PROVE Shrinks(w, q, v, r)
  <2>1. v \in Seq(Parts) /\ r \in Seq(Frames)
    BY <1>2
  <2>2. Contents(v, r) \subseteq Contents(w, q)
    BY <1>2 DEF Contents, ToSet
  <2>3. Ordered(w, q) => Ordered(v, r)
    BY <1>2 DEF Ordered
  <2> QED
    BY <2>1, <2>2, <2>3 DEF Shrinks
<1> QED
  BY <1>1, <1>3

\* A prefix or a fragment at the end of a stream.
LEMMA StreamMarked ==
  ASSUME NEW w \in Seq(Parts), NEW q \in Seq(Frames), NEW e \in {Prefix, Fragment}
  PROVE  Shrinks(w, q, Append(w, e), q)
<1> DEFINE v == Append(w, e)
           n == Len(w)
           m == [i \in 1..(n + 1) |-> i]
           k == [i \in DOMAIN q |-> i]
<1>1. e \in Parts /\ e.frame = {}
  BY DEF Prefix, Fragment, Parts
<1>2. /\ v \in Seq(Parts) /\ DOMAIN v = 1..(n + 1) /\ n \in Nat /\ DOMAIN w = 1..n
      /\ \A i \in 1..n : v[i] = w[i]
      /\ v[n + 1] = e
  BY <1>1, AppendProperties, LenProperties
<1> HIDE DEF v
<1>3. \A i \in DOMAIN v : v[i].frame = {} \/ (m[i] \in DOMAIN w /\ v[i].frame \subseteq w[m[i]].frame)
  BY <1>1, <1>2
<1>4. \A i, j \in DOMAIN v : i < j /\ v[i].frame # {} /\ v[j].frame # {} => m[i] < m[j]
  BY <1>2
<1>5. /\ \A i \in DOMAIN q : k[i] \in DOMAIN q /\ q[i] = q[k[i]]
      /\ \A i, j \in DOMAIN q : i < j => k[i] < k[j]
  OBVIOUS
<1> HIDE DEF m, k
<1>6. Shrinks(w, q, v, q)
  BY <1>2, <1>3, <1>4, <1>5, StreamMapped
<1> QED
  BY <1>6 DEF v

\* The front of a stream is read, or only a part of it.  What is behind it
\* comes after it.
LEMMA StreamRead ==
  ASSUME NEW w \in Seq(Parts), NEW q \in Seq(Frames), w # <<>>
  PROVE  /\ Head(w) \in Parts
         /\ Shrinks(w, q, Tail(w), q)
         /\ Shrinks(w, q, <<Fragment>> \o Tail(w), q)
         /\ Head(w).frame \subseteq Contents(w, q)
         /\ Ordered(w, q) => \A f \in Head(w).frame, g \in Contents(Tail(w), q) : Before(f, g)
<1> DEFINE n == Len(w)
           t == Tail(w)
           v == <<Fragment>> \o Tail(w)
           m == [i \in 1..n |-> i + 1]
           k == [i \in DOMAIN q |-> i]
           id == [i \in 1..n |-> i]
<1>1. n \in Nat /\ n >= 1 /\ DOMAIN w = 1..n
  BY LenProperties, EmptySeq
<1>2. /\ t \in Seq(Parts) /\ Len(t) = n - 1 /\ DOMAIN t = 1..(n - 1)
      /\ \A i \in 1..(n - 1) : t[i] = w[i + 1]
      /\ Head(w) = w[1] /\ Head(w) \in Parts
  BY HeadTailProperties, LenProperties
<1>3. Fragment \in Parts /\ Fragment.frame = {}
  BY DEF Fragment, Parts
<1>4. /\ v \in Seq(Parts) /\ DOMAIN v = 1..n
      /\ v[1] = Fragment
      /\ \A i \in 2..n : v[i] = w[i]
  <2> DEFINE u == <<Fragment>>
  <2>1. u \in Seq(Parts) /\ Len(u) = 1 /\ u[1] = Fragment
    BY <1>3
  <2> HIDE DEF u, t
  <2>2. /\ u \o t \in Seq(Parts) /\ Len(u \o t) = Len(u) + Len(t)
        /\ \A i \in 1..(Len(u) + Len(t)) : (u \o t)[i] = IF i <= Len(u) THEN u[i] ELSE t[i - Len(u)]
    <3>1. u \in Seq(Parts) /\ t \in Seq(Parts)
      BY <1>2, <2>1
    <3> QED
      BY <3>1, ConcatProperties
  <2>7. Len(u) + Len(t) = n
    BY <1>1, <1>2, <2>1
  <2>3. v = u \o t
    BY DEF u, t
  <2>4. Len(v) = n /\ DOMAIN v = 1..n
    BY <2>2, <2>3, <2>7, LenProperties
  <2>5. ASSUME NEW i \in 2..n PROVE v[i] = w[i]
    <3>1. i \in 1..n /\ ~(i <= 1) /\ i - 1 \in 1..(n - 1) /\ (i - 1) + 1 = i
      BY <1>1
    <3> QED
      BY <1>2, <2>1, <2>2, <2>3, <2>7, <3>1
  <2>6. v[1] = Fragment
    <3>1. 1 \in 1..n
      BY <1>1
    <3> QED
      BY <2>1, <2>2, <2>3, <2>7, <3>1
  <2> QED
    BY <2>2, <2>3, <2>4, <2>5, <2>6
<1> HIDE DEF t, v
<1>5. /\ \A i \in DOMAIN q : k[i] \in DOMAIN q /\ q[i] = q[k[i]]
      /\ \A i, j \in DOMAIN q : i < j => k[i] < k[j]
  OBVIOUS
<1>6. Shrinks(w, q, t, q)
  <2>1. \A i \in DOMAIN t : t[i].frame = {} \/ (m[i] \in DOMAIN w /\ t[i].frame \subseteq w[m[i]].frame)
    BY <1>1, <1>2
  <2>2. \A i, j \in DOMAIN t : i < j /\ t[i].frame # {} /\ t[j].frame # {} => m[i] < m[j]
    BY <1>1, <1>2
  <2> HIDE DEF m, k
  <2> QED
    BY <1>2, <1>5, <2>1, <2>2, StreamMapped
<1>7. Shrinks(w, q, v, q)
  <2>1. \A i \in 1..n : i = 1 \/ i \in 2..n
    BY <1>1
  <2>2. \A i \in DOMAIN v : v[i].frame = {} \/ (id[i] \in DOMAIN w /\ v[i].frame \subseteq w[id[i]].frame)
    BY <1>1, <1>3, <1>4, <2>1
  <2>3. \A i, j \in DOMAIN v : i < j /\ v[i].frame # {} /\ v[j].frame # {} => id[i] < id[j]
    BY <1>1, <1>4
  <2> HIDE DEF id, k
  <2> QED
    BY <1>4, <1>5, <2>2, <2>3, StreamMapped
<1>8. Head(w).frame \subseteq Contents(w, q)
  BY <1>1, <1>2, InContents
<1>9. ASSUME Ordered(w, q), NEW f \in Head(w).frame, NEW g \in Contents(t, q) PROVE Before(f, g)
  <2>1. f \in w[1].frame /\ 1 \in DOMAIN w
    BY <1>1, <1>2
  <2>2. CASE \E j \in DOMAIN q : g = q[j]
    BY <1>9, <2>1, <2>2 DEF Ordered
  <2>3. CASE \E i \in DOMAIN t : g \in t[i].frame
    <3>1. PICK i \in 1..(n - 1) : g \in t[i].frame
      BY <1>2, <2>3
    <3>2. i + 1 \in DOMAIN w /\ 1 < i + 1 /\ g \in w[i + 1].frame
      BY <1>1, <1>2, <3>1
    <3> QED
      BY <1>9, <2>1, <3>2 DEF Ordered
  <2> QED
    BY <2>2, <2>3, InContents
<1> QED
  BY <1>2, <1>6, <1>7, <1>8, <1>9 DEF t, v

\* The first frame of the call is written, or lost on a reader out of step.
LEMMA StreamWritten ==
  ASSUME NEW w \in Seq(Parts), NEW q \in Seq(Frames), q # <<>>
  PROVE  /\ Head(q) \in Frames /\ Head(q) \in Contents(w, q)
         /\ Shrinks(w, q, w, Tail(q))
         /\ Shrinks(w, q, Append(w, Body(Head(q))), Tail(q))
         /\ Len(q) > 1 <=> Tail(q) # <<>>
<1> DEFINE n == Len(w)
           l == Len(q)
           h == Head(q)
           t == Tail(q)
           v == Append(w, Body(Head(q)))
<1>1. l \in Nat /\ l >= 1 /\ DOMAIN q = 1..l /\ n \in Nat /\ DOMAIN w = 1..n
  BY LenProperties, EmptySeq
<1>2. /\ t \in Seq(Frames) /\ Len(t) = l - 1 /\ DOMAIN t = 1..(l - 1)
      /\ \A i \in 1..(l - 1) : t[i] = q[i + 1]
      /\ h = q[1] /\ h \in Frames
  BY HeadTailProperties, LenProperties
<1> HIDE DEF t, h
<1>3. Body(h) \in Parts /\ Body(h).frame = {h}
  BY <1>2 DEF Body, Parts
<1>4. /\ v \in Seq(Parts) /\ DOMAIN v = 1..(n + 1)
      /\ \A i \in 1..n : v[i] = w[i]
      /\ v[n + 1] = Body(h)
  BY <1>1, <1>3, AppendProperties, LenProperties DEF h
<1> HIDE DEF v
<1>5. h \in Contents(w, q)
  BY <1>1, <1>2, InContents
<1>6. Shrinks(w, q, w, t)
  <2> DEFINE m == [i \in DOMAIN w |-> i]
             k == [i \in 1..l |-> i + 1]
  <2>1. /\ \A i \in DOMAIN w : w[i].frame = {} \/ (m[i] \in DOMAIN w /\ w[i].frame \subseteq w[m[i]].frame)
        /\ \A i, j \in DOMAIN w : i < j /\ w[i].frame # {} /\ w[j].frame # {} => m[i] < m[j]
    OBVIOUS
  <2>2. \A i \in DOMAIN t : k[i] \in DOMAIN q /\ t[i] = q[k[i]]
    BY <1>1, <1>2
  <2>3. \A i, j \in DOMAIN t : i < j => k[i] < k[j]
    BY <1>1, <1>2
  <2> HIDE DEF m, k
  <2> QED
    BY <1>2, <2>1, <2>2, <2>3, StreamMapped
<1>7. Contents(v, t) \subseteq Contents(w, q)
  <2> SUFFICES ASSUME NEW f \in Contents(v, t) PROVE f \in Contents(w, q)
    OBVIOUS
  <2>1. CASE \E j \in DOMAIN t : f = t[j]
    <3>1. f \in Contents(w, t)
      BY <2>1, InContents
    <3> QED
      BY <1>6, <3>1 DEF Shrinks
  <2>2. CASE \E i \in DOMAIN v : f \in v[i].frame
    <3>1. PICK i \in 1..(n + 1) : f \in v[i].frame
      BY <1>4, <2>2
    <3>2. CASE i = n + 1
      BY <1>3, <1>4, <1>5, <3>1, <3>2
    <3>3. CASE i # n + 1
      <4>1. i \in DOMAIN w /\ f \in w[i].frame
        BY <1>1, <1>4, <3>1, <3>3
      <4> QED
        BY <4>1, InContents
    <3> QED
      BY <3>2, <3>3
  <2> QED
    BY <2>1, <2>2, InContents
<1>8. ASSUME Ordered(w, q) PROVE Ordered(v, t)
  <2>0. 1 \in DOMAIN q /\ \A i \in 1..(l - 1) : i + 1 \in DOMAIN q /\ 1 < i + 1 /\ t[i] = q[i + 1]
    BY <1>1, <1>2
  <2>1. \A j \in DOMAIN t : Before(h, t[j])
    BY <1>2, <1>8, <2>0 DEF Ordered
  <2>2. \A i \in DOMAIN w : \A f \in w[i].frame : Before(f, h)
    BY <1>2, <1>8, <2>0 DEF Ordered
  <2>3. Ordered(w, t)
    BY <1>6, <1>8 DEF Shrinks
  <2>4. \A i \in DOMAIN v : (i \in DOMAIN w /\ v[i] = w[i]) \/ (i = n + 1 /\ v[i].frame = {h})
    BY <1>1, <1>3, <1>4
  <2>5. ASSUME NEW i \in DOMAIN v, NEW j \in DOMAIN v, i < j, NEW f \in v[i].frame, NEW g \in v[j].frame
        PROVE  Before(f, g)
    <3>1. i \in DOMAIN w /\ v[i] = w[i]
      <4>1. i # n + 1
        BY <1>1, <1>4, <2>5
      <4> QED
        BY <2>4, <4>1
    <3>2. CASE j \in DOMAIN w /\ v[j] = w[j]
      BY <1>8, <2>5, <3>1, <3>2 DEF Ordered
    <3>3. CASE v[j].frame = {h}
      BY <2>2, <2>5, <3>1, <3>3
    <3> QED
      BY <2>4, <3>2, <3>3
  <2>6. ASSUME NEW i \in DOMAIN v, NEW j \in DOMAIN t, NEW f \in v[i].frame
        PROVE  Before(f, t[j])
    <3>1. CASE i \in DOMAIN w /\ v[i] = w[i]
      BY <2>3, <2>6, <3>1 DEF Ordered
    <3>2. CASE v[i].frame = {h}
      BY <2>1, <2>6, <3>2
    <3> QED
      BY <2>4, <3>1, <3>2
  <2> QED
    BY <2>3, <2>5, <2>6 DEF Ordered
<1>9. Shrinks(w, q, v, t)
  BY <1>2, <1>4, <1>7, <1>8 DEF Shrinks
<1>10. l > 1 <=> t # <<>>
  <2>1. t = <<>> <=> Len(t) = 0
    BY <1>2, EmptySeq
  <2> QED
    BY <1>1, <1>2, <2>1
<1> QED
  BY <1>2, <1>5, <1>6, <1>9, <1>10 DEF t, h, v
-----------------------------------------------------------------------------
(* Chunks.                                                                 *)

\* The frames of a message: all of it, in order, without overlap.
LEMMA Chunked ==
  ASSUME NEW n \in Nat \ {0}, NEW len \in Nat, NEW id \in Ids
  PROVE  /\ Chunk(n, len, id) \in Seq(Frames)
         /\ \A i \in DOMAIN Chunk(n, len, id) :
              /\ Chunk(n, len, id)[i].message_id = id
              /\ Chunk(n, len, id)[i].total_length = len
              /\ Chunk(n, len, id)[i].source = n
         /\ \A i, j \in DOMAIN Chunk(n, len, id) : i < j => Before(Chunk(n, len, id)[i], Chunk(n, len, id)[j])
<1>1. CASE len = 0 \/ len > MAX_MESSAGE_SIZE
  <2>1. Chunk(n, len, id) = <<>>
    BY <1>1 DEF Chunk
  <2> QED
    BY <2>1, EmptySeq
<1>2. CASE ~(len = 0 \/ len > MAX_MESSAGE_SIZE)
  <2> DEFINE p == payload_capacity
             c == (len + p - 1) \div p
             size(i) == Smaller(p, len - (i - 1) * p)
             q == [i \in 1..c |-> [message_id |-> id, total_length |-> len, offset |-> (i - 1) * p,
                                   payload_size |-> size(i), source |-> n]]
  <2>1. Chunk(n, len, id) = q
    BY <1>2 DEF Chunk
  <2>2. p \in Nat /\ p >= 1 /\ len \in 1..MAX_MESSAGE_SIZE
    BY <1>2, ChunkingAssumption
  <2> HIDE DEF p
  <2>3. c \in Nat /\ c * p <= len + p - 1
    BY <2>2
  <2> HIDE DEF c
  <2>4. ASSUME NEW i \in 1..c
        PROVE  /\ (i - 1) * p \in Nat /\ (i - 1) * p < len
               /\ size(i) \in Nat \ {0} /\ (i - 1) * p + size(i) <= len
               /\ (i - 1) * p + size(i) <= i * p
    <3>1. i * p <= c * p
      BY <2>2, <2>3
    <3>2. (i - 1) * p = i * p - p /\ i * p \in Nat /\ c * p \in Nat /\ (i - 1) * p \in Nat
      BY <2>2, <2>3
    <3>3. (i - 1) * p < len
      BY <2>2, <2>3, <3>1, <3>2
    <3> QED
      BY <2>2, <3>2, <3>3 DEF Smaller
  <2> HIDE DEF size
  <2>5. \A i \in 1..c : q[i] \in Frames
    <3> SUFFICES ASSUME NEW i \in 1..c PROVE q[i] \in Frames
      OBVIOUS
    <3> QED
      BY <2>2, <2>4 DEF Frames
  <2>6. q \in Seq(Frames) /\ DOMAIN q = 1..c
    <3>1. q \in [1..c -> Frames]
      BY <2>5
    <3> QED
      BY <2>3, <3>1, SeqDef
  <2>7. ASSUME NEW i \in 1..c, NEW j \in 1..c, i < j PROVE Before(q[i], q[j])
    <3>1. (i - 1) * p + size(i) <= i * p
      BY <2>4
    <3>2. i <= j - 1 /\ i \in Nat /\ j - 1 \in Nat
      BY <2>3, <2>7
    <3>3. i * p <= (j - 1) * p /\ i * p \in Nat /\ (j - 1) * p \in Nat
      BY <2>2, <3>2
    <3>4. (i - 1) * p + size(i) <= (j - 1) * p
      BY <2>4, <3>1, <3>3
    <3> QED
      BY <3>4 DEF Before
  <2> QED
    BY <2>1, <2>6, <2>7
<1> QED
  BY <1>1, <1>2

\* receive_chunk: the cells of the buffer it leaves, or of the message it
\* completes.
LEMMA ChunkReceived ==
  ASSUME NEW B, Reassembler(B), NEW f \in Frames, NEW r, r = ReceiveChunk(B, f)
  PROVE  /\ Reassembler(r.buffers)
         /\ \A id \in Ids :
              \/ r.buffers[id] = B[id]
              \/ r.buffers[id] = NoBuffer
              \/ /\ id = f.message_id /\ r.buffers[id].total = f.total_length
                 /\ \A i \in 1..f.total_length :
                      r.buffers[id].data[i] # 0 => Comes(B, f, i, r.buffers[id].data[i])
         /\ r.complete # <<>> =>
              /\ r.complete \in [1..f.total_length -> Nat \ {0}]
              /\ \A i \in 1..f.total_length : Comes(B, f, i, r.complete[i])
              /\ r.complete[f.offset + 1] = f.source
<1> DEFINE m == f.message_id
           t == f.total_length
           old == IF B[m] = NoBuffer THEN [total |-> t, data |-> [i \in 1..t |-> 0]] ELSE B[m]
           new == Written(old, f)
<1>1. /\ m \in Ids /\ t \in 1..MAX_MESSAGE_SIZE /\ f.offset \in Nat /\ f.payload_size \in Nat \ {0}
      /\ f.source \in Nat \ {0} /\ f.offset + f.payload_size <= t /\ MAX_MESSAGE_SIZE \in Nat
  BY ChunkingAssumption DEF Frames
<1>2. WellFormed(f)
  BY <1>1 DEF WellFormed
<1>3. DOMAIN B = Ids /\ \A id \in Ids : B[id] = NoBuffer \/ Partial(B[id])
  BY DEF Reassembler
<1>4. CASE old.total # t
  <2>1. r = [buffers |-> B, complete |-> <<>>]
    BY <1>4 DEF ReceiveChunk
  <2> QED
    BY <2>1
<1>5. CASE old.total = t
  <2>1. /\ old = [total |-> old.total, data |-> old.data] /\ old.data \in [1..t -> Nat]
        /\ \A i \in 1..t : old.data[i] # 0 => B[m].total = t /\ old.data[i] = B[m].data[i]
    <3>1. CASE B[m] = NoBuffer
      BY <1>1, <3>1
    <3>2. CASE B[m] # NoBuffer
      BY <1>1, <1>3, <1>5, <3>2 DEF Partial
    <3> QED
      BY <3>1, <3>2
  <2> HIDE DEF old
  <2>2. /\ new = [total |-> t, data |-> new.data] /\ new.total = t
        /\ new.data = [i \in 1..t |-> IF i \in f.offset + 1 .. f.offset + f.payload_size THEN f.source ELSE old.data[i]]
    BY <1>5, <2>1 DEF Written
  <2> HIDE DEF new
  <2>3. /\ new.data \in [1..t -> Nat]
        /\ \A i \in 1..t : new.data[i] # 0 => Comes(B, f, i, new.data[i])
    BY <1>1, <2>1, <2>2 DEF Comes
  <2>4. f.offset + 1 \in 1..t /\ new.data[f.offset + 1] = f.source
    BY <1>1, <2>2
  <2>5. Received(new) = {i \in 1..t : new.data[i] # 0}
    BY <2>3 DEF Received
  <2>6. CASE Received(new) = 1..new.total
    <3>1. r = [buffers |-> [B EXCEPT ![m] = NoBuffer], complete |-> new.data]
      BY <1>2, <1>5, <2>6 DEF ReceiveChunk, old, new
    <3>2. \A i \in 1..t : new.data[i] # 0
      BY <2>2, <2>5, <2>6
    <3>3. Reassembler(r.buffers) /\ \A id \in Ids : r.buffers[id] = B[id] \/ r.buffers[id] = NoBuffer
      BY <1>1, <1>3, <3>1 DEF Reassembler
    <3>4. r.complete = new.data
      BY <3>1
    <3>5. new.data \in [1..t -> Nat \ {0}]
      BY <2>3, <3>2
    <3>6. \A i \in 1..t : Comes(B, f, i, new.data[i])
      BY <2>3, <3>2
    <3> HIDE DEF m, t
    <3> QED
      BY <2>4, <3>3, <3>4, <3>5, <3>6 DEF m, t
  <2>7. CASE Received(new) # 1..new.total
    <3>1. r = [buffers |-> [B EXCEPT ![m] = new], complete |-> <<>>]
      BY <1>2, <1>5, <2>7 DEF ReceiveChunk, old, new
    <3>2. Partial(new)
      BY <1>1, <2>2, <2>3, <2>4, <2>5, <2>7 DEF Partial
    <3>3. Reassembler(r.buffers)
      BY <1>1, <1>3, <3>1, <3>2 DEF Reassembler
    <3>4. \A id \in Ids : r.buffers[id] = IF id = m THEN new ELSE B[id]
      BY <1>1, <1>3, <3>1
    <3>5. \A id \in Ids : \/ r.buffers[id] = B[id]
                           \/ /\ id = m /\ r.buffers[id].total = t
                              /\ \A i \in 1..t : r.buffers[id].data[i] # 0 => Comes(B, f, i, r.buffers[id].data[i])
      BY <2>2, <2>3, <3>4
    <3>6. r.complete = <<>>
      BY <3>1
    <3> QED
      BY <3>3, <3>5, <3>6
  <2> QED
    BY <2>6, <2>7
<1> QED
  BY <1>4, <1>5
-----------------------------------------------------------------------------
(* One side of a connection: the frames U under way to it and its          *)
(* reassembler B.                                                          *)

\* Nothing there comes from a message after the n-th.
Upto(U, B, n) ==
  /\ \A f \in U : f.source <= n
  /\ \A id \in Ids : \A i \in DOMAIN B[id].data : B[id].data[i] <= n

\* There is a frame, or a cell in the buffer, of message n with that id and
\* length.
Piece(U, B, id, len, n) ==
  \/ \E f \in U : f.message_id = id /\ f.total_length = len /\ f.source = n
  \/ B[id].total = len /\ \E i \in 1..len : B[id].data[i] = n

\* What agrees on id and length comes from one message.
OneSource(U, B) ==
  \A id \in Ids, len \in 1..MAX_MESSAGE_SIZE, m, n \in Nat \ {0} :
    Piece(U, B, id, len, m) /\ Piece(U, B, id, len, n) => m = n

\* Frames of V are frames of U, or of message n with that id and length.
Adds(U, V, id, len, n) ==
  \A f \in V : f \in U \/ (f.message_id = id /\ f.total_length = len /\ f.source = n)

\* No cell of the frame has arrived.
Missing(f, B) ==
  \A id \in Ids : \A i \in DOMAIN B[id].data :
    f.offset < i /\ i <= f.offset + f.payload_size => B[id].data[i] # f.source

\* The cells of a buffer.
LEMMA Cells ==
  ASSUME NEW B, Reassembler(B), NEW id \in Ids
  PROVE  /\ B[id].total \in Nat /\ DOMAIN B[id].data = 1..B[id].total
         /\ \A i \in DOMAIN B[id].data : B[id].data[i] \in Nat
         /\ B[id] = NoBuffer <=> B[id].total = 0
<1>1. CASE B[id] = NoBuffer
  BY <1>1 DEF NoBuffer
<1>2. CASE Partial(B[id])
  BY <1>2, ChunkingAssumption DEF Partial, NoBuffer
<1> QED
  BY <1>1, <1>2 DEF Reassembler

\* Frames are lost and buffers given up.
LEMMA SideShrinks ==
  ASSUME NEW U, NEW V, V \subseteq U, NEW B, Reassembler(B), NEW C, Reassembler(C),
         \A id \in Ids : C[id] = B[id] \/ C[id] = NoBuffer
  PROVE  /\ \A n \in Nat : Upto(U, B, n) => Upto(V, C, n)
         /\ OneSource(U, B) => OneSource(V, C)
         /\ \A f \in V : Missing(f, B) => Missing(f, C)
<1>1. DOMAIN NoBuffer.data = {} /\ NoBuffer.total = 0
  BY DEF NoBuffer
<1>2. \A n \in Nat : Upto(U, B, n) => Upto(V, C, n)
  BY <1>1 DEF Upto
<1>3. ASSUME NEW id \in Ids, NEW len \in 1..MAX_MESSAGE_SIZE, NEW n \in Nat \ {0}, Piece(V, C, id, len, n)
      PROVE  Piece(U, B, id, len, n)
  BY <1>1, <1>3 DEF Piece
<1>4. OneSource(U, B) => OneSource(V, C)
  BY <1>3 DEF OneSource
<1>5. \A f \in V : Missing(f, B) => Missing(f, C)
  BY <1>1 DEF Missing
<1> QED
  BY <1>2, <1>4, <1>5

\* A new message is under way.
LEMMA SideSent ==
  ASSUME NEW U \in SUBSET Frames, NEW V \in SUBSET Frames, NEW B, Reassembler(B), NEW n \in Nat, Upto(U, B, n),
         NEW id \in Ids, NEW len \in Nat, Adds(U, V, id, len, n + 1)
  PROVE  /\ Upto(V, B, n + 1)
         /\ (\A k \in Nat \ {0} : ~Piece(U, B, id, len, k)) /\ OneSource(U, B) => OneSource(V, B)
         /\ (\A f \in U : Missing(f, B)) => \A f \in V : Missing(f, B)
<1>0. \A f \in Frames : f.source \in Nat
  BY DEF Frames
<1>1. \A i \in Ids : \A j \in DOMAIN B[i].data : B[i].data[j] \in Nat /\ B[i].data[j] <= n
  BY Cells DEF Upto
<1>2. Upto(V, B, n + 1)
  <2>1. \A f \in V : f.source <= n + 1
    BY <1>0 DEF Upto, Adds
  <2>2. \A i \in Ids : \A j \in DOMAIN B[i].data : B[i].data[j] <= n + 1
    BY <1>1
  <2> QED
    BY <2>1, <2>2 DEF Upto
<1>3. ASSUME \A k \in Nat \ {0} : ~Piece(U, B, id, len, k), OneSource(U, B) PROVE OneSource(V, B)
  <2>1. ASSUME NEW i \in Ids, NEW l \in 1..MAX_MESSAGE_SIZE, NEW k \in Nat \ {0}, Piece(V, B, i, l, k)
        PROVE  (Piece(U, B, i, l, k) /\ ~(i = id /\ l = len)) \/ (i = id /\ l = len /\ k = n + 1)
    BY <1>3, <2>1 DEF Piece, Adds
  <2> QED
    BY <1>3, <2>1 DEF OneSource
<1>4. ASSUME NEW f \in V, \A g \in U : Missing(g, B) PROVE Missing(f, B)
  <2>1. CASE f \in U
    BY <1>4, <2>1
  <2>2. CASE f.source = n + 1
    BY <1>1, <2>2 DEF Missing
  <2> QED
    BY <2>1, <2>2 DEF Adds
<1> QED
  BY <1>2, <1>3, <1>4

\* A frame is received.
LEMMA SideReceived ==
  ASSUME NEW U \in SUBSET Frames, NEW V, V \subseteq U, NEW B, Reassembler(B), NEW f \in U,
         NEW r, r = ReceiveChunk(B, f)
  PROVE  /\ Reassembler(r.buffers)
         /\ \A n \in Nat : Upto(U, B, n) => Upto(V, r.buffers, n)
         /\ OneSource(U, B) => OneSource(V, r.buffers)
         /\ (\A g \in V : Before(f, g) /\ Missing(g, B)) => \A g \in V : Missing(g, r.buffers)
<1>1. f \in Frames /\ f.message_id \in Ids /\ f.total_length \in 1..MAX_MESSAGE_SIZE
      /\ f.offset \in Nat /\ f.payload_size \in Nat /\ f.source \in Nat
  BY DEF Frames
<1>2. /\ Reassembler(r.buffers)
      /\ \A id \in Ids :
           \/ r.buffers[id] = B[id]
           \/ r.buffers[id] = NoBuffer
           \/ /\ id = f.message_id /\ r.buffers[id].total = f.total_length
              /\ \A i \in 1..f.total_length :
                   r.buffers[id].data[i] # 0 => Comes(B, f, i, r.buffers[id].data[i])
  BY <1>1, ChunkReceived
<1> DEFINE C == r.buffers
<1> HIDE DEF C
<1>3. Reassembler(C)
  BY <1>2 DEF C
<1>4. ASSUME NEW id \in Ids, NEW i \in DOMAIN C[id].data, C[id].data[i] # 0
      PROVE  \/ B[id].total = C[id].total /\ i \in DOMAIN B[id].data /\ C[id].data[i] = B[id].data[i]
             \/ /\ id = f.message_id /\ C[id].total = f.total_length /\ C[id].data[i] = f.source
                /\ f.offset < i /\ i <= f.offset + f.payload_size
  <2>1. DOMAIN C[id].data = 1..C[id].total /\ DOMAIN B[id].data = 1..B[id].total
    BY <1>3, Cells
  <2>2. CASE C[id] = B[id]
    BY <2>2
  <2>3. CASE C[id] = NoBuffer
    BY <2>3 DEF NoBuffer
  <2>4. CASE /\ id = f.message_id /\ C[id].total = f.total_length
             /\ \A j \in 1..f.total_length : C[id].data[j] # 0 => Comes(B, f, j, C[id].data[j])
    <3>1. i \in 1..f.total_length /\ Comes(B, f, i, C[id].data[i])
      BY <1>4, <2>1, <2>4
    <3> QED
      BY <2>1, <2>4, <3>1 DEF Comes
  <2> QED
    BY <1>2, <2>2, <2>3, <2>4 DEF C
<1>5. ASSUME NEW n \in Nat, Upto(U, B, n) PROVE Upto(V, C, n)
  <2>1. ASSUME NEW id \in Ids, NEW i \in DOMAIN C[id].data PROVE C[id].data[i] <= n
    <3>1. CASE C[id].data[i] = 0
      BY <3>1
    <3>2. CASE C[id].data[i] # 0
      BY <1>4, <1>5, <3>2 DEF Upto
    <3> QED
      BY <3>1, <3>2
  <2> QED
    BY <1>5, <2>1 DEF Upto
<1>6. ASSUME NEW id \in Ids, NEW len \in 1..MAX_MESSAGE_SIZE, NEW n \in Nat \ {0}, Piece(V, C, id, len, n)
      PROVE  Piece(U, B, id, len, n)
  <2>1. CASE \E g \in V : g.message_id = id /\ g.total_length = len /\ g.source = n
    BY <2>1 DEF Piece
  <2>2. CASE C[id].total = len /\ \E i \in 1..len : C[id].data[i] = n
    <3>1. PICK i \in 1..len : C[id].data[i] = n
      BY <2>2
    <3>2. i \in DOMAIN C[id].data /\ C[id].data[i] # 0
      BY <1>3, <2>2, <3>1, Cells
    <3>3. \/ B[id].total = len /\ i \in DOMAIN B[id].data /\ n = B[id].data[i]
          \/ id = f.message_id /\ len = f.total_length /\ n = f.source
      BY <1>4, <2>2, <3>1, <3>2
    <3> QED
      BY <3>1, <3>3 DEF Piece
  <2> QED
    BY <1>6, <2>1, <2>2 DEF Piece
<1>7. OneSource(U, B) => OneSource(V, C)
  BY <1>6 DEF OneSource
<1>8. ASSUME NEW g \in V, Before(f, g), Missing(g, B) PROVE Missing(g, C)
  <2> SUFFICES ASSUME NEW id \in Ids, NEW i \in DOMAIN C[id].data,
                      g.offset < i, i <= g.offset + g.payload_size, C[id].data[i] = g.source
               PROVE  FALSE
    BY DEF Missing
  <2>1. g.source \in Nat \ {0} /\ g.offset \in Nat /\ i \in Nat
    <3>1. i \in 1..C[id].total /\ C[id].total \in Nat
      BY <1>3, Cells
    <3> QED
      BY <3>1 DEF Frames
  <2>2. CASE i \in DOMAIN B[id].data /\ C[id].data[i] = B[id].data[i]
    BY <1>8, <2>2 DEF Missing
  <2>3. CASE f.source = g.source /\ f.offset < i /\ i <= f.offset + f.payload_size
    BY <1>1, <1>8, <2>1, <2>3 DEF Before
  <2> QED
    BY <1>4, <2>1, <2>2, <2>3
<1> QED
  BY <1>3, <1>5, <1>7, <1>8 DEF C

\* What a frame completes.
LEMMA SideCompleted ==
  ASSUME NEW U \in SUBSET Frames, NEW V, V \subseteq U, NEW B, Reassembler(B), NEW f \in U,
         NEW r, r = ReceiveChunk(B, f), r.complete # <<>>
  PROVE  /\ Assembled(r.complete) \in Nat
         /\ \A n \in Nat : Upto(U, B, n) => Assembled(r.complete) <= n
         /\ OneSource(U, B) => Assembled(r.complete) = f.source
         /\ OneSource(U, B) /\ (\A g \in V : Before(f, g) /\ Missing(g, B))
              => \A g \in V : f.source < g.source
<1> DEFINE d == r.complete
           t == f.total_length
           m == f.message_id
<1>1. f \in Frames /\ m \in Ids /\ t \in 1..MAX_MESSAGE_SIZE /\ MAX_MESSAGE_SIZE \in Nat
      /\ f.offset \in Nat /\ f.payload_size \in Nat \ {0} /\ f.source \in Nat \ {0}
      /\ f.offset + f.payload_size <= t
  BY ChunkingAssumption DEF Frames
<1>2. /\ d \in [1..t -> Nat \ {0}]
      /\ \A i \in 1..t : Comes(B, f, i, d[i])
      /\ d[f.offset + 1] = f.source
  BY <1>1, ChunkReceived
<1> HIDE DEF d
<1>3. Assembled(d) = d[1] \/ Assembled(d) = 0
  BY DEF Assembled
<1>4. 1 \in 1..t /\ d[1] \in Nat
  BY <1>1, <1>2
<1>5. ASSUME NEW i \in 1..t PROVE Piece(U, B, m, t, d[i])
  <2>1. CASE d[i] = f.source
    BY <2>1 DEF Piece
  <2>2. CASE B[m].total = t /\ d[i] = B[m].data[i]
    BY <2>2 DEF Piece
  <2> QED
    BY <1>2, <2>1, <2>2 DEF Comes
<1>6. ASSUME NEW n \in Nat, Upto(U, B, n) PROVE Assembled(d) <= n
  <2>1. CASE Assembled(d) = 0
    BY <2>1
  <2>2. CASE Assembled(d) = d[1]
    <3>1. CASE d[1] = f.source
      BY <1>6, <2>2, <3>1 DEF Upto
    <3>2. CASE B[m].total = t /\ d[1] = B[m].data[1]
      <4>1. 1 \in DOMAIN B[m].data
        BY <1>1, <1>4, <3>2, Cells
      <4> QED
        BY <1>1, <1>6, <2>2, <3>2, <4>1 DEF Upto
    <3> QED
      BY <1>2, <1>4, <3>1, <3>2 DEF Comes
  <2> QED
    BY <1>3, <2>1, <2>2
<1>7. ASSUME OneSource(U, B) PROVE \A i \in 1..t : d[i] = f.source
  <2>1. Piece(U, B, m, t, f.source)
    BY DEF Piece
  <2> QED
    BY <1>1, <1>2, <1>5, <1>7, <2>1 DEF OneSource
<1>8. ASSUME OneSource(U, B) PROVE Assembled(d) = f.source
  <2>1. DOMAIN d = 1..t
    BY <1>2
  <2>2. \E i \in DOMAIN d : \A j \in DOMAIN d : d[j] = d[i]
    BY <1>4, <1>7, <1>8, <2>1
  <2> QED
    BY <1>4, <1>7, <1>8, <2>2 DEF Assembled
<1>9. ASSUME OneSource(U, B), NEW g \in V, Before(f, g), Missing(g, B) PROVE f.source < g.source
  <2> SUFFICES ASSUME f.source = g.source, m = g.message_id, t = g.total_length,
                      f.offset + f.payload_size <= g.offset
               PROVE  FALSE
    BY <1>9 DEF Before
  <2> DEFINE i == g.offset + 1
  <2>1. g.offset \in Nat /\ g.payload_size \in Nat \ {0} /\ g.offset + g.payload_size <= t
    BY DEF Frames
  <2>2. i \in 1..t /\ g.offset < i /\ i <= g.offset + g.payload_size /\ ~(i <= f.offset + f.payload_size)
    <3>1. t \in Nat
      BY <1>1
    <3>2. i \in Nat /\ 1 <= i /\ i <= t /\ g.offset < i /\ i <= g.offset + g.payload_size
      BY <2>1, <3>1
    <3>3. f.offset + f.payload_size \in Nat /\ f.offset + f.payload_size < i
      BY <1>1, <2>1
    <3> HIDE DEF i, t
    <3> QED
      BY <3>1, <3>2, <3>3
  <2> HIDE DEF i
  <2>3. d[i] = g.source
    BY <1>7, <1>9, <2>2
  <2>4. B[m].total = t /\ d[i] = B[m].data[i]
    BY <1>2, <2>2 DEF Comes
  <2>5. i \in DOMAIN B[m].data
    BY <1>1, <2>2, <2>4, Cells
  <2> QED
    BY <1>1, <1>9, <2>2, <2>3, <2>4, <2>5 DEF Missing
<1> QED
  BY <1>1, <1>3, <1>4, <1>6, <1>8, <1>9 DEF d
-----------------------------------------------------------------------------
(* The invariant.                                                          *)

LinkTypes ==
  /\ kind \in {"wifi", "ble"} /\ from \in Sides
  /\ conn \in [Sides -> {"Connected", "Disconnected", "Dropped"}]
  /\ op \in [Sides -> Calls] /\ \A s \in Sides : op[s].frames # <<>> <=> op[s].do = "send"
  /\ wire \in [Sides -> Seq(Parts)]
  /\ air \in [Sides -> SUBSET Frames] /\ (kind = "wifi" => \A s \in Sides : air[s] = {})
  /\ buffers = [s \in Sides |-> buffers[s]] /\ \A s \in Sides : Reassembler(buffers[s])
  /\ inbox \in [Sides -> Seq(Nat)] /\ \A s \in Sides : Len(inbox[s]) <= InboxCapacity
  /\ got \in [Sides -> Seq(Nat)]
  /\ sent \in 0..MaxSends /\ connects \in 0..(MaxConnects + 1)
  /\ finished \subseteq 1..sent
  /\ clash \in {"no", "length", "full"}

Values(s) == ToSet(got[s]) \cup ToSet(inbox[s])

Bounded ==
  \A s \in Sides : Upto(UnderWay(s), buffers[s], sent) /\ \A x \in Values(s) : x <= sent

Unmixed ==
  clash # "full" => \A s \in Sides : OneSource(UnderWay(s), buffers[s]) /\ 0 \notin Values(s)

Streamed ==
  kind = "wifi" =>
    \A s \in Sides :
      /\ Ordered(wire[s], op[Other(s)].frames)
      /\ \A f \in UnderWay(s) : Missing(f, buffers[s])
      /\ clash # "full" =>
           /\ \A i, j \in DOMAIN got[s] : i < j => got[s][i] < got[s][j]
           /\ \A f \in UnderWay(s) : \A i \in DOMAIN got[s] : got[s][i] < f.source

LinkInv == LinkTypes /\ Bounded /\ Unmixed /\ Streamed

\* A step after which less is under way, buffered and in the inbox.
Quiet ==
  /\ \A s \in Sides :
       /\ Shrinks(wire[s], op[Other(s)].frames, wire'[s], op'[Other(s)].frames)
       /\ air'[s] = air[s]
       /\ \A id \in Ids : buffers'[s][id] = buffers[s][id] \/ buffers'[s][id] = NoBuffer
       /\ Values(s)' \subseteq Values(s)
       /\ kind = "wifi" => got'[s] = got[s]
  /\ UNCHANGED <<kind, sent, clash>>

\* A message is put under way to side t.
Sends(t, len, id) ==
  LET q == Chunk(sent + 1, len, id)
  IN  /\ sent' = sent + 1 /\ UNCHANGED <<kind, wire, buffers, got, inbox>>
      /\ clash' = IF q = <<>> THEN clash ELSE Clash(t, id, len)
      /\ op'[t].frames = op[t].frames
      /\ \/ /\ kind = "wifi" /\ air' = air
            /\ op[Other(t)].frames = <<>> /\ op'[Other(t)].frames = q
         \/ /\ kind = "ble" /\ air' = [air EXCEPT ![t] = @ \cup ToSet(q)]
            /\ op'[Other(t)].frames = op[Other(t)].frames

\* Side t takes frame f into its reassembler.
Receives(t, f) ==
  LET r == ReceiveChunk(buffers[t], f)
  IN  /\ f \in UnderWay(t)
      /\ \A s \in Sides : Shrinks(wire[s], op[Other(s)].frames, wire'[s], op'[Other(s)].frames)
      /\ buffers' = [buffers EXCEPT ![t] = r.buffers]
      /\ \/ UNCHANGED <<got, inbox>>
         \/ r.complete # <<>> /\ got' = [got EXCEPT ![t] = Append(@, Assembled(r.complete))] /\ inbox' = inbox
         \/ /\ r.complete # <<>> /\ kind = "ble"
            /\ inbox' = [inbox EXCEPT ![t] = Append(@, Assembled(r.complete))] /\ got' = got
      /\ kind = "wifi" /\ Ordered(wire[t], op[Other(t)].frames)
           => \A g \in Contents(wire'[t], op'[Other(t)].frames) : Before(f, g)
      /\ UNCHANGED <<kind, air, sent, clash>>

LEMMA TwoSides ==
  \A s \in Sides : /\ Other(s) \in Sides /\ Other(s) # s /\ Other(Other(s)) = s
                   /\ \A t \in Sides : t = s \/ t = Other(s)
BY DEF Sides, Other

LEMMA ContentsFrames ==
  ASSUME NEW w \in Seq(Parts), NEW q \in Seq(Frames)
  PROVE  Contents(w, q) \subseteq Frames
<1>1. \A i \in DOMAIN w : w[i] \in Parts
  BY ElementOfSeq, LenProperties
<1>2. \A i \in DOMAIN q : q[i] \in Frames
  BY ElementOfSeq, LenProperties
<1>3. \A p \in Parts : p.frame \subseteq Frames
  BY DEF Parts
<1> QED
  BY <1>1, <1>2, <1>3 DEF Contents, ToSet

\* What is under way: in the air, in the stream or in the call that writes it.
LEMMA UnderWayIs ==
  LinkTypes => \A s \in Sides : /\ UnderWay(s) = air[s] \cup Contents(wire[s], op[Other(s)].frames)
                                /\ UnderWay(s) \in SUBSET Frames
<1> SUFFICES ASSUME LinkTypes, NEW s \in Sides
             PROVE  /\ UnderWay(s) = air[s] \cup Contents(wire[s], op[Other(s)].frames)
                    /\ UnderWay(s) \in SUBSET Frames
  OBVIOUS
<1>1. UnderWay(s) = air[s] \cup Contents(wire[s], op[Other(s)].frames)
  BY DEF UnderWay, Contents
<1>2. wire[s] \in Seq(Parts) /\ op[Other(s)].frames \in Seq(Frames) /\ air[s] \subseteq Frames
  BY TwoSides DEF LinkTypes, Calls
<1> QED
  BY <1>1, <1>2, ContentsFrames

LEMMA UnderWayIsNext ==
  LinkTypes' => \A s \in Sides : /\ UnderWay(s)' = air'[s] \cup Contents(wire'[s], op'[Other(s)].frames)
                                 /\ UnderWay(s)' \in SUBSET Frames
<1> SUFFICES ASSUME LinkTypes', NEW s \in Sides
             PROVE  /\ UnderWay(s)' = air'[s] \cup Contents(wire'[s], op'[Other(s)].frames)
                    /\ UnderWay(s)' \in SUBSET Frames
  OBVIOUS
<1>1. UnderWay(s)' = air'[s] \cup Contents(wire'[s], op'[Other(s)].frames)
  BY DEF UnderWay, Contents
<1>2. wire'[s] \in Seq(Parts) /\ op'[Other(s)].frames \in Seq(Frames) /\ air'[s] \subseteq Frames
  BY TwoSides DEF LinkTypes, Calls
<1> QED
  BY <1>1, <1>2, ContentsFrames

LEMMA QuietStep == LinkInv /\ LinkTypes' /\ Quiet => LinkInv'
<1> SUFFICES ASSUME LinkInv, LinkTypes', Quiet PROVE Bounded' /\ Unmixed' /\ Streamed'
  BY DEF LinkInv
<1>1. kind' = kind /\ sent' = sent /\ clash' = clash /\ sent \in Nat
  BY DEF Quiet, LinkInv, LinkTypes
<1>2. ASSUME NEW s \in Sides
      PROVE  /\ UnderWay(s)' \subseteq UnderWay(s)
             /\ Reassembler(buffers[s]) /\ Reassembler(buffers'[s])
             /\ \A id \in Ids : buffers'[s][id] = buffers[s][id] \/ buffers'[s][id] = NoBuffer
             /\ Values(s)' \subseteq Values(s)
             /\ kind = "wifi" => got'[s] = got[s]
             /\ Ordered(wire[s], op[Other(s)].frames) => Ordered(wire'[s], op'[Other(s)].frames)
  <2>1. /\ UnderWay(s) = air[s] \cup Contents(wire[s], op[Other(s)].frames)
        /\ UnderWay(s)' = air'[s] \cup Contents(wire'[s], op'[Other(s)].frames)
    BY UnderWayIs, UnderWayIsNext DEF LinkInv
  <2>2. UnderWay(s)' \subseteq UnderWay(s)
    BY <2>1 DEF Quiet, Shrinks
  <2>3. Reassembler(buffers[s]) /\ Reassembler(buffers'[s])
    BY DEF LinkInv, LinkTypes
  <2> QED
    BY <2>2, <2>3 DEF Quiet, Shrinks
<1>3. ASSUME NEW s \in Sides
      PROVE  /\ Upto(UnderWay(s), buffers[s], sent) => Upto(UnderWay(s)', buffers'[s], sent)
             /\ OneSource(UnderWay(s), buffers[s]) => OneSource(UnderWay(s)', buffers'[s])
             /\ \A f \in UnderWay(s)' : Missing(f, buffers[s]) => Missing(f, buffers'[s])
  <2> DEFINE U == UnderWay(s)
             V == UnderWay(s)'
             B == buffers[s]
             C == buffers'[s]
  <2>1. V \subseteq U /\ Reassembler(B) /\ Reassembler(C) /\ \A id \in Ids : C[id] = B[id] \/ C[id] = NoBuffer
    BY <1>2
  <2> HIDE DEF U, V, B, C
  <2>2. /\ \A n \in Nat : Upto(U, B, n) => Upto(V, C, n)
        /\ OneSource(U, B) => OneSource(V, C)
        /\ \A f \in V : Missing(f, B) => Missing(f, C)
    BY <2>1, SideShrinks
  <2> QED
    BY <1>1, <2>2 DEF U, V, B, C
<1>4. Bounded'
  BY <1>1, <1>2, <1>3 DEF LinkInv, Bounded
<1>5. Unmixed'
  BY <1>1, <1>2, <1>3 DEF LinkInv, Unmixed
<1>6. Streamed'
  BY <1>1, <1>2, <1>3 DEF LinkInv, Streamed
<1> QED
  BY <1>4, <1>5, <1>6

\* An id and length that no frame and no buffer has.
LEMMA UnknownHasNoPiece ==
  ASSUME NEW t \in Sides, NEW id \in Ids, NEW len \in 1..MAX_MESSAGE_SIZE, <<id, len>> \notin Known(t)
  PROVE  \A k \in Nat \ {0} : ~Piece(UnderWay(t), buffers[t], id, len, k)
<1> SUFFICES ASSUME NEW k \in Nat \ {0}, Piece(UnderWay(t), buffers[t], id, len, k) PROVE FALSE
  OBVIOUS
<1>1. CASE \E f \in UnderWay(t) : f.message_id = id /\ f.total_length = len
  BY <1>1 DEF Known
<1>2. CASE buffers[t][id].total = len
  <2>1. buffers[t][id] # NoBuffer
    BY <1>2, ChunkingAssumption DEF NoBuffer
  <2> QED
    BY <1>2, <2>1 DEF Known
<1> QED
  BY <1>1, <1>2 DEF Piece

LEMMA SendsStep ==
  ASSUME LinkInv, LinkTypes', NEW t \in Sides, NEW len \in Nat, NEW id \in Ids, Sends(t, len, id)
  PROVE  LinkInv'
<1> DEFINE q == Chunk(sent + 1, len, id)
<1>1. /\ sent \in Nat /\ sent' = sent + 1 /\ kind' = kind /\ wire' = wire /\ buffers' = buffers
      /\ got' = got /\ inbox' = inbox
      /\ clash' = IF q = <<>> THEN clash ELSE Clash(t, id, len)
  BY DEF Sends, LinkInv, LinkTypes
<1>2. /\ q \in Seq(Frames)
      /\ \A i \in DOMAIN q : q[i].message_id = id /\ q[i].total_length = len /\ q[i].source = sent + 1
      /\ \A i, j \in DOMAIN q : i < j => Before(q[i], q[j])
  <2> DEFINE n == sent + 1
  <2>1. n \in Nat \ {0}
    BY <1>1
  <2> HIDE DEF n
  <2>2. /\ Chunk(n, len, id) \in Seq(Frames)
        /\ \A i \in DOMAIN Chunk(n, len, id) :
             /\ Chunk(n, len, id)[i].message_id = id
             /\ Chunk(n, len, id)[i].total_length = len
             /\ Chunk(n, len, id)[i].source = n
        /\ \A i, j \in DOMAIN Chunk(n, len, id) : i < j => Before(Chunk(n, len, id)[i], Chunk(n, len, id)[j])
    BY <2>1, Chunked
  <2> QED
    BY <2>2 DEF n
<1>3. q # <<>> => len \in 1..MAX_MESSAGE_SIZE
  BY ChunkingAssumption DEF Chunk
<1>4. /\ op'[t].frames = op[t].frames
      /\ \/ /\ kind = "wifi" /\ air' = air
            /\ op[Other(t)].frames = <<>> /\ op'[Other(t)].frames = q
         \/ /\ kind = "ble" /\ air' = [air EXCEPT ![t] = @ \cup ToSet(q)]
            /\ op'[Other(t)].frames = op[Other(t)].frames
  BY DEF Sends
<1> HIDE DEF q
<1>5. /\ Other(t) \in Sides /\ Other(t) # t /\ Other(Other(t)) = t
      /\ \A s \in Sides : s = t \/ s = Other(t)
  BY TwoSides
<1>6. ASSUME NEW s \in Sides
      PROVE  /\ UnderWay(s) = air[s] \cup Contents(wire[s], op[Other(s)].frames)
             /\ UnderWay(s)' = air'[s] \cup Contents(wire[s], op'[Other(s)].frames)
             /\ UnderWay(s) \in SUBSET Frames /\ UnderWay(s)' \in SUBSET Frames
             /\ Reassembler(buffers[s])
  BY <1>1, UnderWayIs, UnderWayIsNext DEF LinkInv, LinkTypes
<1>7. UnderWay(Other(t))' = UnderWay(Other(t))
  <2>1. air'[Other(t)] = air[Other(t)]
    BY <1>4, <1>5 DEF LinkInv, LinkTypes
  <2> QED
    BY <1>4, <1>5, <1>6, <2>1
<1>8. ASSUME NEW f \in UnderWay(t)' PROVE f \in UnderWay(t) \/ \E i \in DOMAIN q : f = q[i]
  <2>1. CASE kind = "wifi"
    BY <1>4, <1>5, <1>6, <1>8, <2>1 DEF Contents, ToSet
  <2>2. CASE kind = "ble"
    <3>1. air'[t] = air[t] \cup ToSet(q)
      BY <1>4, <2>2 DEF LinkInv, LinkTypes
    <3> QED
      BY <1>4, <1>5, <1>6, <1>8, <2>2, <3>1 DEF ToSet
  <2> QED
    BY <2>1, <2>2 DEF LinkInv, LinkTypes
<1>9. ASSUME NEW s \in Sides, NEW f \in UnderWay(s)'
      PROVE  f \in UnderWay(s) \/ (f.message_id = id /\ f.total_length = len /\ f.source = sent + 1)
  BY <1>2, <1>5, <1>7, <1>8, <1>9
<1>10. ASSUME NEW s \in Sides
       PROVE  /\ Upto(UnderWay(s)', buffers[s], sent + 1)
              /\ (\A k \in Nat \ {0} : ~Piece(UnderWay(s), buffers[s], id, len, k))
                 /\ OneSource(UnderWay(s), buffers[s]) => OneSource(UnderWay(s)', buffers[s])
              /\ (\A f \in UnderWay(s) : Missing(f, buffers[s])) => \A f \in UnderWay(s)' : Missing(f, buffers[s])
  <2> DEFINE U == UnderWay(s)
             V == UnderWay(s)'
             B == buffers[s]
  <2>1. /\ U \in SUBSET Frames /\ V \in SUBSET Frames /\ Reassembler(B) /\ Upto(U, B, sent)
        /\ Adds(U, V, id, len, sent + 1) /\ sent \in Nat /\ id \in Ids /\ len \in Nat
    BY <1>1, <1>6, <1>9 DEF LinkInv, Bounded, Adds
  <2> HIDE DEF U, V, B
  <2>2. /\ Upto(V, B, sent + 1)
        /\ (\A k \in Nat \ {0} : ~Piece(U, B, id, len, k)) /\ OneSource(U, B) => OneSource(V, B)
        /\ (\A f \in U : Missing(f, B)) => \A f \in V : Missing(f, B)
    BY <2>1, SideSent
  <2> QED
    BY <2>2 DEF U, V, B
<1>11. ASSUME NEW s \in Sides, OneSource(UnderWay(s), buffers[s]), clash' # "full"
       PROVE  OneSource(UnderWay(s)', buffers[s])
  <2>1. CASE s = Other(t)
    BY <1>7, <1>11, <2>1
  <2>2. CASE s = t /\ q = <<>>
    <3>1. UnderWay(t)' \subseteq UnderWay(t)
      BY <1>8, <2>2
    <3>2. \A i \in Ids, l \in 1..MAX_MESSAGE_SIZE, k \in Nat \ {0} :
            Piece(UnderWay(t)', buffers[t], i, l, k) => Piece(UnderWay(t), buffers[t], i, l, k)
      BY <3>1 DEF Piece
    <3> QED
      BY <1>11, <2>2, <3>2 DEF OneSource
  <2>3. CASE s = t /\ q # <<>>
    <3>1. <<id, len>> \notin Known(t)
      BY <1>1, <1>11, <2>3 DEF Clash
    <3> QED
      BY <1>3, <1>10, <1>11, <2>3, <3>1, UnknownHasNoPiece
  <2> QED
    BY <1>5, <2>1, <2>2, <2>3
<1>12. clash' # "full" => clash # "full"
  BY <1>1 DEF Clash
<1>13. \A s \in Sides : Values(s)' = Values(s)
  BY <1>1 DEF Values
<1>14. Bounded'
  <2>1. \A s \in Sides : \A x \in Values(s) : x \in Nat /\ x <= sent
    <3> SUFFICES ASSUME NEW s \in Sides, NEW x \in Values(s) PROVE x \in Nat /\ x <= sent
      OBVIOUS
    <3>1. got[s] \in Seq(Nat) /\ inbox[s] \in Seq(Nat)
      BY DEF LinkInv, LinkTypes
    <3>2. x \in Nat
      BY <3>1, ElementOfSeq, LenProperties DEF Values, ToSet
    <3> QED
      BY <3>2 DEF LinkInv, Bounded
  <2>2. \A s \in Sides : \A x \in Values(s)' : x <= sent'
    BY <1>1, <1>13, <2>1
  <2>3. \A s \in Sides : Upto(UnderWay(s)', buffers'[s], sent')
    BY <1>1, <1>10
  <2> QED
    BY <2>2, <2>3 DEF Bounded
<1>15. Unmixed'
  BY <1>1, <1>11, <1>12, <1>13 DEF LinkInv, Unmixed
<1>16. ASSUME kind = "wifi", NEW s \in Sides
       PROVE  /\ Ordered(wire[s], op'[Other(s)].frames)
              /\ \A f \in UnderWay(s)' : Missing(f, buffers[s])
              /\ clash' # "full" => \A f \in UnderWay(s)' : \A i \in DOMAIN got[s] : got[s][i] < f.source
  <2>1. Ordered(wire[s], op'[Other(s)].frames)
    <3>1. Ordered(wire[s], op[Other(s)].frames)
      BY <1>16 DEF LinkInv, Streamed
    <3>2. CASE s = Other(t)
      BY <1>4, <1>5, <3>1, <3>2
    <3>3. CASE s = t
      <4>1. op'[Other(s)].frames = q
        BY <1>4, <1>16, <3>3
      <4>2. \A f \in UnderWay(s) : f.source \in Nat /\ f.source <= sent
        BY <1>6 DEF LinkInv, Bounded, Upto, Frames
      <4>3. \A i \in DOMAIN wire[s] : \A f \in wire[s][i].frame : f \in UnderWay(s)
        BY <1>6 DEF Contents
      <4>4. \A i \in DOMAIN wire[s], j \in DOMAIN q : \A f \in wire[s][i].frame : Before(f, q[j])
        <5> SUFFICES ASSUME NEW i \in DOMAIN wire[s], NEW j \in DOMAIN q, NEW f \in wire[s][i].frame
                     PROVE  Before(f, q[j])
          OBVIOUS
        <5>1. f.source \in Nat /\ f.source <= sent /\ q[j].source = sent + 1
          BY <1>2, <4>2, <4>3
        <5>2. f.source < q[j].source
          BY <1>1, <5>1
        <5> QED
          BY <5>2 DEF Before
      <4> QED
        BY <1>2, <3>1, <4>1, <4>4 DEF Ordered
    <3> QED
      BY <1>5, <3>2, <3>3
  <2>2. \A f \in UnderWay(s)' : Missing(f, buffers[s])
    BY <1>10, <1>16 DEF LinkInv, Streamed
  <2>3. ASSUME clash' # "full", NEW f \in UnderWay(s)', NEW i \in DOMAIN got[s] PROVE got[s][i] < f.source
    <3>1. CASE f \in UnderWay(s)
      BY <1>12, <1>16, <2>3, <3>1 DEF LinkInv, Streamed
    <3>2. CASE f.source = sent + 1
      <4>1. got[s][i] \in Nat
        <5>1. got[s] \in Seq(Nat)
          BY DEF LinkInv, LinkTypes
        <5> QED
          BY <5>1, ElementOfSeq, LenProperties
      <4>2. got[s][i] <= sent
        BY DEF LinkInv, Bounded, Values, ToSet
      <4> QED
        BY <1>1, <3>2, <4>1, <4>2
    <3> QED
      BY <1>9, <2>3, <3>1, <3>2
  <2> QED
    BY <2>1, <2>2, <2>3
<1>17. Streamed'
  BY <1>1, <1>12, <1>16 DEF LinkInv, Streamed
<1> QED
  BY <1>14, <1>15, <1>17 DEF LinkInv

LEMMA ReceivesStep ==
  ASSUME LinkInv, LinkTypes', NEW t \in Sides, NEW f, Receives(t, f)
  PROVE  LinkInv'
<1> DEFINE r == ReceiveChunk(buffers[t], f)
           x == Assembled(r.complete)
<1>1. /\ kind' = kind /\ sent' = sent /\ clash' = clash /\ air' = air /\ sent \in Nat
      /\ f \in UnderWay(t)
  BY DEF Receives, LinkInv, LinkTypes
<1>2. /\ Other(t) \in Sides /\ Other(t) # t /\ Other(Other(t)) = t
      /\ \A s \in Sides : s = t \/ s = Other(t)
  BY TwoSides
<1>3. \A s \in Sides : buffers'[s] = IF s = t THEN r.buffers ELSE buffers[s]
  <2>1. buffers = [s \in Sides |-> buffers[s]]
    BY DEF LinkInv, LinkTypes
  <2> QED
    BY <2>1 DEF Receives
<1>4. \/ got' = got /\ inbox' = inbox
      \/ r.complete # <<>> /\ got' = [got EXCEPT ![t] = Append(@, x)] /\ inbox' = inbox
      \/ r.complete # <<>> /\ kind = "ble" /\ inbox' = [inbox EXCEPT ![t] = Append(@, x)] /\ got' = got
  BY DEF Receives
<1>5. ASSUME NEW s \in Sides
      PROVE  /\ UnderWay(s) = air[s] \cup Contents(wire[s], op[Other(s)].frames)
             /\ UnderWay(s)' = air[s] \cup Contents(wire'[s], op'[Other(s)].frames)
             /\ UnderWay(s) \in SUBSET Frames /\ UnderWay(s)' \subseteq UnderWay(s)
             /\ Reassembler(buffers[s]) /\ Reassembler(buffers'[s])
             /\ Ordered(wire[s], op[Other(s)].frames) => Ordered(wire'[s], op'[Other(s)].frames)
             /\ got[s] \in Seq(Nat) /\ inbox[s] \in Seq(Nat)
  <2>1. Shrinks(wire[s], op[Other(s)].frames, wire'[s], op'[Other(s)].frames)
    BY DEF Receives
  <2>2. /\ UnderWay(s) = air[s] \cup Contents(wire[s], op[Other(s)].frames)
        /\ UnderWay(s)' = air[s] \cup Contents(wire'[s], op'[Other(s)].frames)
        /\ UnderWay(s) \in SUBSET Frames
    BY <1>1, UnderWayIs, UnderWayIsNext DEF LinkInv
  <2>3. UnderWay(s)' \subseteq UnderWay(s)
    BY <2>1, <2>2 DEF Shrinks
  <2>4. Reassembler(buffers[s]) /\ Reassembler(buffers'[s]) /\ got[s] \in Seq(Nat) /\ inbox[s] \in Seq(Nat)
    BY DEF LinkInv, LinkTypes
  <2> QED
    BY <2>1, <2>2, <2>3, <2>4 DEF Shrinks
<1>6. ASSUME kind = "wifi" PROVE \A g \in UnderWay(t)' : Before(f, g) /\ Missing(g, buffers[t])
  <2>1. Ordered(wire[t], op[Other(t)].frames) /\ \A g \in UnderWay(t) : Missing(g, buffers[t])
    BY <1>6 DEF LinkInv, Streamed
  <2>2. air[t] = {}
    BY <1>6 DEF LinkInv, LinkTypes
  <2>3. \A g \in Contents(wire'[t], op'[Other(t)].frames) : Before(f, g)
    BY <1>6, <2>1 DEF Receives
  <2> QED
    BY <1>5, <2>1, <2>2, <2>3
<1>7. /\ Upto(UnderWay(t), buffers[t], sent) => Upto(UnderWay(t)', r.buffers, sent)
      /\ OneSource(UnderWay(t), buffers[t]) => OneSource(UnderWay(t)', r.buffers)
      /\ kind = "wifi" => \A g \in UnderWay(t)' : Missing(g, r.buffers)
      /\ r.complete # <<>> =>
           /\ x \in Nat
           /\ Upto(UnderWay(t), buffers[t], sent) => x <= sent
           /\ OneSource(UnderWay(t), buffers[t]) => x = f.source
           /\ kind = "wifi" /\ OneSource(UnderWay(t), buffers[t]) => \A g \in UnderWay(t)' : f.source < g.source
  <2> DEFINE U == UnderWay(t)
             V == UnderWay(t)'
             B == buffers[t]
             R == r
  <2>1. /\ U \in SUBSET Frames /\ V \subseteq U /\ Reassembler(B) /\ f \in U
        /\ kind = "wifi" => \A g \in V : Before(f, g) /\ Missing(g, B)
        /\ R = ReceiveChunk(B, f)
    BY <1>1, <1>5, <1>6
  <2> HIDE DEF U, V, B, R
  <2>2. /\ \A n \in Nat : Upto(U, B, n) => Upto(V, R.buffers, n)
        /\ OneSource(U, B) => OneSource(V, R.buffers)
        /\ (\A g \in V : Before(f, g) /\ Missing(g, B)) => \A g \in V : Missing(g, R.buffers)
    BY <2>1, SideReceived
  <2>3. ASSUME R.complete # <<>>
        PROVE  /\ Assembled(R.complete) \in Nat
               /\ \A n \in Nat : Upto(U, B, n) => Assembled(R.complete) <= n
               /\ OneSource(U, B) => Assembled(R.complete) = f.source
               /\ OneSource(U, B) /\ (\A g \in V : Before(f, g) /\ Missing(g, B))
                    => \A g \in V : f.source < g.source
    BY <2>1, <2>3, SideCompleted
  <2>4. /\ Upto(U, B, sent) => Upto(V, R.buffers, sent)
        /\ OneSource(U, B) => OneSource(V, R.buffers)
        /\ kind = "wifi" => \A g \in V : Missing(g, R.buffers)
    BY <1>1, <2>1, <2>2
  <2>5. ASSUME R.complete # <<>>
        PROVE  /\ Assembled(R.complete) \in Nat
               /\ Upto(U, B, sent) => Assembled(R.complete) <= sent
               /\ OneSource(U, B) => Assembled(R.complete) = f.source
               /\ kind = "wifi" /\ OneSource(U, B) => \A g \in V : f.source < g.source
    BY <1>1, <2>1, <2>3, <2>5
  <2> QED
    BY <2>4, <2>5 DEF U, V, B, R
<1> HIDE DEF r, x
<1>8. ASSUME NEW s \in Sides
      PROVE  Values(s)' \subseteq Values(s) \/ (s = t /\ r.complete # <<>> /\ Values(s)' \subseteq Values(s) \cup {x})
  <2>0. DOMAIN got = Sides /\ DOMAIN inbox = Sides
    BY DEF LinkInv, LinkTypes
  <2>1. CASE s # t
    <3>1. got'[s] = got[s] /\ inbox'[s] = inbox[s]
      BY <1>4, <2>0, <2>1
    <3> QED
      BY <3>1 DEF Values
  <2>2. CASE got' = got /\ inbox' = inbox
    BY <2>2 DEF Values
  <2>3. ASSUME NEW q \in Seq(Nat), x \in Nat PROVE ToSet(Append(q, x)) \subseteq ToSet(q) \cup {x}
    <3>1. DOMAIN Append(q, x) = 1..(Len(q) + 1) /\ DOMAIN q = 1..Len(q) /\ Len(q) \in Nat
      BY <2>3, AppendProperties, LenProperties
    <3>2. \A i \in 1..(Len(q) + 1) : Append(q, x)[i] = x \/ (i \in 1..Len(q) /\ Append(q, x)[i] = q[i])
      BY <2>3, <3>1, AppendProperties
    <3> QED
      BY <3>1, <3>2 DEF ToSet
  <2>4. CASE s = t /\ r.complete # <<>> /\ got' = [got EXCEPT ![t] = Append(@, x)] /\ inbox' = inbox
    <3>1. got'[s] = Append(got[s], x) /\ inbox'[s] = inbox[s]
      BY <2>0, <2>4
    <3> QED
      BY <1>5, <1>7, <2>3, <2>4, <3>1 DEF Values
  <2>5. CASE s = t /\ r.complete # <<>> /\ inbox' = [inbox EXCEPT ![t] = Append(@, x)] /\ got' = got
    <3>1. inbox'[s] = Append(inbox[s], x) /\ got'[s] = got[s]
      BY <2>0, <2>5
    <3> QED
      BY <1>5, <1>7, <2>3, <2>5, <3>1 DEF Values
  <2> QED
    BY <1>4, <2>1, <2>2, <2>4, <2>5
<1>9. ASSUME NEW s \in Sides, s # t
      PROVE  /\ Upto(UnderWay(s), buffers[s], sent) => Upto(UnderWay(s)', buffers[s], sent)
             /\ OneSource(UnderWay(s), buffers[s]) => OneSource(UnderWay(s)', buffers[s])
  <2> DEFINE U == UnderWay(s)
             V == UnderWay(s)'
             B == buffers[s]
  <2>1. V \subseteq U /\ Reassembler(B)
    BY <1>5
  <2> HIDE DEF U, V, B
  <2>2. /\ \A n \in Nat : Upto(U, B, n) => Upto(V, B, n)
        /\ OneSource(U, B) => OneSource(V, B)
    BY <2>1, SideShrinks
  <2> QED
    BY <1>1, <2>2 DEF U, V, B
<1>10. Bounded'
  <2> SUFFICES ASSUME NEW s \in Sides
               PROVE  Upto(UnderWay(s)', buffers'[s], sent) /\ \A y \in Values(s)' : y <= sent
    BY <1>1 DEF Bounded
  <2>1. Upto(UnderWay(s), buffers[s], sent) /\ \A y \in Values(s) : y <= sent
    BY DEF LinkInv, Bounded
  <2>2. Upto(UnderWay(s)', buffers'[s], sent)
    BY <1>3, <1>7, <1>9, <2>1
  <2>3. \A y \in Values(s)' : y <= sent
    BY <1>7, <1>8, <2>1
  <2> QED
    BY <2>2, <2>3
<1>11. Unmixed'
  <2> SUFFICES ASSUME clash # "full", NEW s \in Sides
               PROVE  OneSource(UnderWay(s)', buffers'[s]) /\ 0 \notin Values(s)'
    BY <1>1 DEF Unmixed
  <2>1. OneSource(UnderWay(s), buffers[s]) /\ 0 \notin Values(s)
    BY DEF LinkInv, Unmixed
  <2>2. OneSource(UnderWay(s)', buffers'[s])
    BY <1>3, <1>7, <1>9, <2>1
  <2>3. f.source # 0
    BY <1>1, <1>5 DEF Frames
  <2>4. 0 \notin Values(s)'
    BY <1>7, <1>8, <2>1, <2>3
  <2> QED
    BY <2>2, <2>4
<1>12. ASSUME kind = "wifi", NEW s \in Sides
       PROVE  /\ Ordered(wire'[s], op'[Other(s)].frames)
              /\ \A g \in UnderWay(s)' : Missing(g, buffers'[s])
  <2>1. Ordered(wire[s], op[Other(s)].frames) /\ \A g \in UnderWay(s) : Missing(g, buffers[s])
    BY <1>12 DEF LinkInv, Streamed
  <2> QED
    BY <1>3, <1>5, <1>7, <1>12, <2>1
<1>13. ASSUME kind = "wifi", NEW s \in Sides, clash # "full"
       PROVE  /\ \A i, j \in DOMAIN got'[s] : i < j => got'[s][i] < got'[s][j]
              /\ \A g \in UnderWay(s)' : \A i \in DOMAIN got'[s] : got'[s][i] < g.source
  <2>1. /\ \A i, j \in DOMAIN got[s] : i < j => got[s][i] < got[s][j]
        /\ \A g \in UnderWay(s) : \A i \in DOMAIN got[s] : got[s][i] < g.source
        /\ OneSource(UnderWay(s), buffers[s])
    BY <1>13 DEF LinkInv, Streamed, Unmixed
  <2>2. CASE got'[s] = got[s]
    BY <1>5, <2>1, <2>2
  <2>3. CASE s = t /\ r.complete # <<>> /\ got'[s] = Append(got[s], x)
    <3> DEFINE q == got[s]
               n == Len(q)
               p == Append(q, x)
    <3>1. q \in Seq(Nat) /\ x = f.source /\ x \in Nat /\ \A g \in UnderWay(s)' : x < g.source
      BY <1>5, <1>7, <1>13, <2>1, <2>3
    <3>2. /\ n \in Nat /\ DOMAIN q = 1..n /\ DOMAIN p = 1..(n + 1) /\ p[n + 1] = x
          /\ \A i \in 1..n : p[i] = q[i]
      BY <3>1, AppendProperties, LenProperties
    <3>3. \A i \in 1..n : q[i] < x
      BY <1>1, <2>1, <2>3, <3>1, <3>2
    <3>4. \A i, j \in 1..n : i < j => q[i] < q[j]
      BY <2>1, <3>2
    <3>5. \A g \in UnderWay(s)' : \A i \in 1..n : q[i] < g.source
      BY <1>5, <2>1, <3>2
    <3>6. p = got'[s]
      BY <2>3
    <3> HIDE DEF p, q, n
    <3>7. \A i \in 1..(n + 1) : i = n + 1 \/ i \in 1..n
      BY <3>2
    <3>8. \A i, j \in 1..(n + 1) : i < j => p[i] < p[j]
      <4> SUFFICES ASSUME NEW i \in 1..(n + 1), NEW j \in 1..(n + 1), i < j PROVE p[i] < p[j]
        OBVIOUS
      <4>1. i \in 1..n
        BY <3>2
      <4> QED
        BY <3>2, <3>3, <3>4, <3>7, <4>1
    <3>9. \A g \in UnderWay(s)' : \A i \in 1..(n + 1) : p[i] < g.source
      BY <3>1, <3>2, <3>5, <3>7
    <3> QED
      BY <3>2, <3>6, <3>8, <3>9
  <2>4. got'[s] = got[s] \/ (s = t /\ r.complete # <<>> /\ got'[s] = Append(got[s], x))
    <3>1. DOMAIN got = Sides
      BY DEF LinkInv, LinkTypes
    <3> QED
      BY <1>4, <3>1
  <2> QED
    BY <2>2, <2>3, <2>4
<1>14. Streamed'
  BY <1>1, <1>12, <1>13 DEF Streamed
<1> QED
  BY <1>10, <1>11, <1>14 DEF LinkInv
-----------------------------------------------------------------------------
(* Wi-Fi.                                                                  *)

LEMMA IdleCall ==
  ASSUME NEW result \in {"none", "ok"}
  PROVE  Idle(result) \in Calls /\ Idle(result).frames = <<>> /\ Idle(result).do = "idle"
BY EmptySeq DEF Idle, Calls

\* The calls and streams when the call of side s becomes c.
LEMMA CallStep ==
  ASSUME LinkTypes, NEW s \in Sides, NEW c \in Calls, c.frames # <<>> <=> c.do = "send",
         op' = [op EXCEPT ![s] = c], wire' = [u \in Sides |-> wire'[u]],
         Shrinks(wire[s], op[Other(s)].frames, wire'[s], op[Other(s)].frames),
         Shrinks(wire[Other(s)], op[s].frames, wire'[Other(s)], c.frames)
  PROVE  /\ op' \in [Sides -> Calls] /\ \A u \in Sides : op'[u].frames # <<>> <=> op'[u].do = "send"
         /\ wire' \in [Sides -> Seq(Parts)]
         /\ \A u \in Sides : Shrinks(wire[u], op[Other(u)].frames, wire'[u], op'[Other(u)].frames)
<1>1. /\ Other(s) \in Sides /\ Other(s) # s /\ Other(Other(s)) = s /\ \A u \in Sides : u = s \/ u = Other(s)
  BY TwoSides
<1>2. op \in [Sides -> Calls] /\ \A u \in Sides : op[u].frames # <<>> <=> op[u].do = "send"
  BY DEF LinkTypes
<1>3. op'[s] = c /\ op'[Other(s)] = op[Other(s)] /\ op' \in [Sides -> Calls]
  BY <1>1, <1>2
<1>4. \A u \in Sides : op'[u].frames # <<>> <=> op'[u].do = "send"
  BY <1>1, <1>2, <1>3
<1>5. \A u \in Sides : Shrinks(wire[u], op[Other(u)].frames, wire'[u], op'[Other(u)].frames)
  BY <1>1, <1>3
<1>6. wire' \in [Sides -> Seq(Parts)]
  BY <1>5 DEF Shrinks
<1> QED
  BY <1>3, <1>4, <1>5, <1>6

\* A step of a call that writes, or that reads what is no frame.
LEMMA WireStep ==
  ASSUME LinkInv, NEW s \in Sides, NEW c \in Calls, c.frames # <<>> <=> c.do = "send",
         op' = [op EXCEPT ![s] = c], wire' = [u \in Sides |-> wire'[u]],
         Shrinks(wire[s], op[Other(s)].frames, wire'[s], op[Other(s)].frames),
         Shrinks(wire[Other(s)], op[s].frames, wire'[Other(s)], c.frames),
         UNCHANGED <<kind, from, conn, air, buffers, inbox, sent, connects, got, clash>>,
         finished' \subseteq 1..sent
  PROVE  LinkInv'
<1>1. LinkTypes
  BY DEF LinkInv
<1>2. /\ op' \in [Sides -> Calls] /\ \A u \in Sides : op'[u].frames # <<>> <=> op'[u].do = "send"
      /\ wire' \in [Sides -> Seq(Parts)]
      /\ \A u \in Sides : Shrinks(wire[u], op[Other(u)].frames, wire'[u], op'[Other(u)].frames)
  BY <1>1, CallStep
<1>3. LinkTypes'
  BY <1>1, <1>2 DEF LinkTypes
<1>4. Quiet
  BY <1>2 DEF Quiet, Values
<1> QED
  BY <1>3, <1>4, QuietStep

\* The streams and calls of side s, and a stream that is left alone.
LEMMA SideTypes ==
  ASSUME LinkTypes, NEW s \in Sides
  PROVE  /\ wire[s] \in Seq(Parts) /\ wire[Other(s)] \in Seq(Parts)
         /\ op[s] \in Calls /\ op[s].frames \in Seq(Frames) /\ op[Other(s)].frames \in Seq(Frames)
         /\ op[s].frames # <<>> <=> op[s].do = "send"
         /\ Shrinks(wire[s], op[Other(s)].frames, wire[s], op[Other(s)].frames)
         /\ Shrinks(wire[Other(s)], op[s].frames, wire[Other(s)], op[s].frames)
         /\ Shrinks(wire[Other(s)], op[s].frames, wire[Other(s)], <<>>)
         /\ DOMAIN wire = Sides /\ Other(s) \in Sides /\ Other(s) # s
<1>1. Other(s) \in Sides /\ Other(s) # s
  BY TwoSides
<1>2. /\ wire[s] \in Seq(Parts) /\ wire[Other(s)] \in Seq(Parts) /\ DOMAIN wire = Sides
      /\ op[s] \in Calls /\ op[Other(s)] \in Calls /\ (op[s].frames # <<>> <=> op[s].do = "send")
  BY <1>1 DEF LinkTypes
<1>3. op[s].frames \in Seq(Frames) /\ op[Other(s)].frames \in Seq(Frames)
  BY <1>2 DEF Calls
<1> QED
  BY <1>1, <1>2, <1>3, StreamCut

\* A frame that is under way comes from a message that was sent.
LEMMA FinishedSent ==
  ASSUME LinkInv, NEW s \in Sides, NEW f \in UnderWay(s)
  PROVE  f.source \in 1..sent
<1>1. f \in Frames
  BY UnderWayIs DEF LinkInv
<1>2. f.source <= sent /\ sent \in Nat
  BY DEF LinkInv, LinkTypes, Bounded, Upto
<1> QED
  BY <1>1, <1>2 DEF Frames

LEMMA WriteLengthInv ==
  ASSUME LinkInv, NEW s \in Sides, WriteLength(s)
  PROVE  LinkInv'
<1> DEFINE c == [op[s] EXCEPT !.half = TRUE]
<1>1. LinkTypes
  BY DEF LinkInv
<1>2. c \in Calls /\ c.frames = op[s].frames /\ c.do = op[s].do /\ op' = [op EXCEPT ![s] = c]
  BY <1>1, SideTypes DEF WriteLength, Calls
<1>3. wire' = [u \in Sides |-> wire'[u]] /\ wire'[s] = wire[s]
      /\ (wire'[Other(s)] = wire[Other(s)] \/ wire'[Other(s)] = Append(wire[Other(s)], Prefix))
  BY <1>1, SideTypes DEF WriteLength, Sent, LinkTypes
<1>4. Shrinks(wire[Other(s)], op[s].frames, wire'[Other(s)], c.frames)
  BY <1>1, <1>2, <1>3, SideTypes, StreamMarked
<1>5. Shrinks(wire[s], op[Other(s)].frames, wire'[s], op[Other(s)].frames)
  BY <1>1, <1>3, SideTypes
<1>6. UNCHANGED <<kind, from, conn, air, buffers, inbox, sent, connects, got, clash>> /\ finished' \subseteq 1..sent
  BY <1>1 DEF WriteLength, history, LinkTypes
<1>7. c.frames # <<>> <=> c.do = "send"
  BY <1>1, <1>2, SideTypes
<1> HIDE DEF c
<1> QED
  BY <1>2, <1>3, <1>4, <1>5, <1>6, <1>7, WireStep

LEMMA WriteBodyInv ==
  ASSUME LinkInv, NEW s \in Sides, WriteBody(s)
  PROVE  LinkInv'
<1> DEFINE q == op[s].frames
           more == [op[s] EXCEPT !.frames = Tail(@), !.half = FALSE]
<1>1. LinkTypes
  BY DEF LinkInv
<1>2. /\ q \in Seq(Frames) /\ q # <<>> /\ op[s].do = "send" /\ op[s] \in Calls
      /\ wire[Other(s)] \in Seq(Parts) /\ Other(s) \in Sides
  BY <1>1, SideTypes DEF WriteBody
<1>3. /\ Head(q) \in Contents(wire[Other(s)], q)
      /\ Shrinks(wire[Other(s)], q, wire[Other(s)], Tail(q))
      /\ Shrinks(wire[Other(s)], q, Append(wire[Other(s)], Body(Head(q))), Tail(q))
      /\ Len(q) > 1 <=> Tail(q) # <<>>
      /\ Tail(q) \in Seq(Frames)
  BY <1>2, StreamWritten, HeadTailProperties
<1>4. wire' = [u \in Sides |-> wire'[u]] /\ wire'[s] = wire[s]
      /\ (wire'[Other(s)] = wire[Other(s)] \/ wire'[Other(s)] = Append(wire[Other(s)], Body(Head(q))))
  BY <1>1, SideTypes DEF WriteBody, Sent, LinkTypes
<1>5. Shrinks(wire[Other(s)], q, wire'[Other(s)], Tail(q))
  BY <1>3, <1>4
<1>6. Shrinks(wire[s], op[Other(s)].frames, wire'[s], op[Other(s)].frames)
  BY <1>1, <1>4, SideTypes
<1>7. UNCHANGED <<kind, from, conn, air, buffers, inbox, sent, connects, got, clash>>
  BY DEF WriteBody
<1>8. finished \subseteq 1..sent
  BY <1>1 DEF LinkTypes
<1>9. CASE Len(q) > 1
  <2>1. more \in Calls /\ more.frames = Tail(q) /\ more.do = "send"
    BY <1>2, <1>3 DEF Calls
  <2>2. op' = [op EXCEPT ![s] = more] /\ finished' = finished
    <3>0. Len(op[s].frames) # 1
      <4>1. q \in Seq(Frames)
        BY <1>2
      <4> HIDE DEF q, more
      <4>2. Len(q) \in Nat
        BY <4>1, LenProperties
      <4> DEFINE n == Len(q)
      <4>3. n \in Nat /\ n > 1
        BY <1>9, <4>2
      <4> HIDE DEF n
      <4>4. n # 1
        BY <4>3
      <4> QED
        BY <4>4 DEF q, n
    <3>1. op' = [op EXCEPT ![s].frames = Tail(@), ![s].half = FALSE] /\ finished' = finished
      BY <3>0, Zenon DEF WriteBody
    <3>2. op \in [Sides -> Calls]
      BY <1>1 DEF LinkTypes
    <3> QED
      BY <1>2, <3>1, <3>2
  <2>3. more.frames # <<>> <=> more.do = "send"
    BY <1>3, <1>9, <2>1
  <2>4. Shrinks(wire[Other(s)], q, wire'[Other(s)], more.frames)
    BY <1>5, <2>1
  <2> HIDE DEF more
  <2> QED
    BY <1>4, <1>6, <1>7, <1>8, <2>1, <2>2, <2>3, <2>4, WireStep
<1>10. CASE ~(Len(q) > 1)
  <2> DEFINE c == Idle("ok")
  <2>1. c \in Calls /\ c.frames = <<>> /\ c.do = "idle"
    BY IdleCall
  <2>2. op' = [op EXCEPT ![s] = c] /\ finished' = finished \cup {Head(q).source}
    BY <1>10 DEF WriteBody
  <2>3. Shrinks(wire[Other(s)], q, wire'[Other(s)], c.frames)
    BY <1>3, <1>5, <1>10, <2>1
  <2>4. Head(q) \in UnderWay(Other(s))
    BY <1>1, <1>2, <1>3, TwoSides, UnderWayIs
  <2>5. finished' \subseteq 1..sent
    BY <1>2, <1>8, <2>2, <2>4, FinishedSent
  <2>6. c.frames # <<>> <=> c.do = "send"
    BY <2>1
  <2> HIDE DEF c
  <2> QED
    BY <1>4, <1>6, <1>7, <2>1, <2>2, <2>3, <2>5, <2>6, WireStep
<1> QED
  BY <1>9, <1>10

\* The call of side s ends, or begins to wait; its stream out may get a
\* fragment and its stream in be cut.
LEMMA CallEnds ==
  ASSUME LinkInv, NEW s \in Sides, NEW c \in Calls, c.frames = <<>>, c.do # "send",
         op' = [op EXCEPT ![s] = c],
         \/ wire' = wire
         \/ wire' = Sent(Other(s), Fragment)
         \/ wire' = [wire EXCEPT ![s] = <<>>]
         \/ wire[s] # <<>> /\ wire' = [wire EXCEPT ![s] = Tail(@)]
         \/ wire[s] # <<>> /\ wire' = [wire EXCEPT ![s] = <<Fragment>> \o Tail(@)],
         UNCHANGED <<kind, from, conn, air, buffers, inbox, sent, connects, history>>
  PROVE  LinkInv'
<1>1. LinkTypes
  BY DEF LinkInv
<1> DEFINE w == wire[s]
           v == wire[Other(s)]
<1>2. /\ DOMAIN wire = Sides /\ Other(s) \in Sides /\ Other(s) # s /\ wire = [u \in Sides |-> wire[u]]
      /\ w \in Seq(Parts) /\ v \in Seq(Parts)
      /\ op[s].frames \in Seq(Frames) /\ op[Other(s)].frames \in Seq(Frames)
  BY <1>1, SideTypes DEF LinkTypes
<1>3. /\ wire' = [u \in Sides |-> wire'[u]]
      /\ (wire'[Other(s)] = v \/ wire'[Other(s)] = Append(v, Fragment))
      /\ \/ wire'[s] = w \/ wire'[s] = <<>>
         \/ w # <<>> /\ (wire'[s] = Tail(w) \/ wire'[s] = <<Fragment>> \o Tail(w))
  BY <1>2 DEF Sent
<1>4. Shrinks(v, op[s].frames, wire'[Other(s)], c.frames)
  <2>1. CASE wire'[Other(s)] = v
    BY <1>2, <2>1, StreamCut
  <2>2. CASE wire'[Other(s)] = Append(v, Fragment)
    <3>1. Shrinks(v, op[s].frames, v, <<>>) /\ <<>> \in Seq(Frames)
      BY <1>2, StreamCut, EmptySeq
    <3>2. Shrinks(v, <<>>, Append(v, Fragment), <<>>)
      BY <1>2, <3>1, StreamMarked
    <3> QED
      BY <2>2, <3>1, <3>2, ShrinksTwice
  <2> QED
    BY <1>3, <2>1, <2>2
<1>5. Shrinks(w, op[Other(s)].frames, wire'[s], op[Other(s)].frames)
  <2>1. CASE wire'[s] = w \/ wire'[s] = <<>>
    BY <1>2, <2>1, StreamCut
  <2>2. CASE w # <<>> /\ (wire'[s] = Tail(w) \/ wire'[s] = <<Fragment>> \o Tail(w))
    <3> DEFINE q == op[Other(s)].frames
    <3>1. q \in Seq(Frames) /\ w \in Seq(Parts) /\ w # <<>>
      BY <1>2, <2>2
    <3> HIDE DEF q, w
    <3>2. Shrinks(w, q, Tail(w), q) /\ Shrinks(w, q, <<Fragment>> \o Tail(w), q)
      BY <3>1, StreamRead
    <3>3. Shrinks(w, q, wire'[s], q)
      BY <2>2, <3>2
    <3> QED
      BY <3>3 DEF q
  <2> QED
    BY <1>3, <2>1, <2>2
<1>6. UNCHANGED <<kind, from, conn, air, buffers, inbox, sent, connects, got, clash>> /\ finished' \subseteq 1..sent
  BY <1>1 DEF history, LinkTypes
<1>7. c.frames # <<>> <=> c.do = "send"
  OBVIOUS
<1> QED
  BY <1>3, <1>4, <1>5, <1>6, <1>7, WireStep

\* WriteFails, CancelSend, StartRecv, ReadLength, ReadGarbage, ReadFails and
\* CancelRecv.
LEMMA CallsInv ==
  ASSUME LinkInv, NEW s \in Sides,
         \/ WriteFails(s) \/ CancelSend(s) \/ StartRecv(s) \/ ReadLength(s)
         \/ ReadGarbage(s) \/ ReadFails(s) \/ CancelRecv(s)
  PROVE  LinkInv'
<1>1. LinkTypes
  BY DEF LinkInv
<1>2. /\ op[s] \in Calls /\ (op[s].frames # <<>> <=> op[s].do = "send")
  BY <1>1, SideTypes
<1>3. Idle("none") \in Calls /\ Idle("none").frames = <<>> /\ Idle("none").do = "idle"
  BY IdleCall
<1>4. ASSUME op' = [op EXCEPT ![s] = Idle("none")],
             \/ wire' = wire
             \/ wire' = Sent(Other(s), Fragment)
             \/ wire' = [wire EXCEPT ![s] = <<>>]
             \/ wire[s] # <<>> /\ wire' = [wire EXCEPT ![s] = <<Fragment>> \o Tail(@)],
             UNCHANGED <<kind, from, conn, air, buffers, inbox, sent, connects, history>>
      PROVE  LinkInv'
  <2> DEFINE c == Idle("none")
  <2>1. c \in Calls /\ c.frames = <<>> /\ c.do # "send" /\ op' = [op EXCEPT ![s] = c]
    BY <1>3, <1>4
  <2> HIDE DEF c
  <2> QED
    BY <1>4, <2>1, CallEnds
<1>5. CASE WriteFails(s)
  BY <1>4, <1>5 DEF WriteFails
<1>6. CASE CancelSend(s)
  BY <1>4, <1>6 DEF CancelSend
<1>7. CASE ReadFails(s)
  BY <1>4, <1>7 DEF ReadFails
<1>8. CASE CancelRecv(s)
  BY <1>4, <1>8 DEF CancelRecv
<1>9. CASE StartRecv(s)
  <2> DEFINE c == [do |-> "recv", frames |-> <<>>, half |-> FALSE, result |-> "none"]
  <2>1. c \in Calls /\ c.frames = <<>> /\ c.do # "send" /\ op' = [op EXCEPT ![s] = c]
    BY <1>9, EmptySeq DEF StartRecv, Calls
  <2>2. wire' = wire /\ UNCHANGED <<kind, from, conn, air, buffers, inbox, sent, connects, history>>
    BY <1>9 DEF StartRecv
  <2> HIDE DEF c
  <2> QED
    BY <2>1, <2>2, CallEnds
<1>10. ASSUME op[s].do = "recv", NEW b \in BOOLEAN, op' = [op EXCEPT ![s].half = b],
              \/ wire' = [wire EXCEPT ![s] = <<>>]
              \/ wire[s] # <<>> /\ wire' = [wire EXCEPT ![s] = Tail(@)],
              UNCHANGED <<kind, from, conn, air, buffers, inbox, sent, connects, history>>
       PROVE  LinkInv'
  <2> DEFINE c == [op[s] EXCEPT !.half = b]
  <2>1. c \in Calls /\ c.frames = <<>> /\ c.do # "send"
    BY <1>2, <1>10 DEF Calls
  <2>2. op' = [op EXCEPT ![s] = c]
    BY <1>10
  <2> HIDE DEF c
  <2> QED
    BY <1>10, <2>1, <2>2, CallEnds
<1>11. CASE ReadLength(s)
  BY <1>10, <1>11 DEF ReadLength, Reading
<1>12. CASE ReadGarbage(s)
  <2>1. /\ op[s].do = "recv" /\ wire' = [wire EXCEPT ![s] = <<>>]
        /\ op' = [op EXCEPT ![s] = Idle("none")] \/ op' = [op EXCEPT ![s].half = FALSE]
        /\ UNCHANGED <<kind, from, conn, air, buffers, inbox, sent, connects, history>>
    BY <1>12 DEF ReadGarbage, Reading
  <2> QED
    BY <1>4, <1>10, <2>1
<1> QED
  BY <1>5, <1>6, <1>7, <1>8, <1>9, <1>11, <1>12

\* What receive_chunk leaves has its shape.
LEMMA ReceivedTypes ==
  ASSUME LinkTypes, NEW s \in Sides, NEW f \in UnderWay(s)
  PROVE  /\ Reassembler(ReceiveChunk(buffers[s], f).buffers)
         /\ ReceiveChunk(buffers[s], f).complete # <<>>
              => Assembled(ReceiveChunk(buffers[s], f).complete) \in Nat
<1> DEFINE U == UnderWay(s)
           B == buffers[s]
           r == ReceiveChunk(buffers[s], f)
<1>1. U \in SUBSET Frames /\ U \subseteq U /\ Reassembler(B) /\ f \in U /\ r = ReceiveChunk(B, f)
  BY UnderWayIs DEF LinkTypes
<1> HIDE DEF U, B, r
<1>2. Reassembler(r.buffers)
  BY <1>1, SideReceived
<1>3. r.complete # <<>> => Assembled(r.complete) \in Nat
  BY <1>1, SideCompleted
<1> QED
  BY <1>2, <1>3 DEF r

LEMMA ReadBodyInv ==
  ASSUME LinkInv, NEW s \in Sides, ReadBody(s)
  PROVE  LinkInv'
<1> DEFINE w == wire[s]
           q == op[Other(s)].frames
<1>1. LinkTypes
  BY DEF LinkInv
<1>2. PICK f \in Head(w).frame :
        LET r == ReceiveChunk(buffers[s], f)
        IN  /\ buffers' = [buffers EXCEPT ![s] = r.buffers]
            /\ IF r.complete = <<>>
               THEN op' = [op EXCEPT ![s].half = FALSE] /\ UNCHANGED got
               ELSE /\ op' = [op EXCEPT ![s] = Idle("none")]
                    /\ got' = [got EXCEPT ![s] = Append(@, Assembled(r.complete))]
  BY Zenon DEF ReadBody
<1> DEFINE r == ReceiveChunk(buffers[s], f)
           c == IF r.complete = <<>> THEN [op[s] EXCEPT !.half = FALSE] ELSE Idle("none")
<1>3. /\ w \in Seq(Parts) /\ w # <<>> /\ q \in Seq(Frames) /\ op[s] \in Calls /\ op[s].frames = <<>>
      /\ op[s].do = "recv" /\ Other(s) \in Sides /\ Other(s) # s
      /\ Shrinks(wire[Other(s)], op[s].frames, wire[Other(s)], op[s].frames)
  BY <1>1, SideTypes DEF ReadBody, Reading
<1>4. /\ wire' = [wire EXCEPT ![s] = Tail(@)] /\ DOMAIN wire = Sides
      /\ UNCHANGED <<kind, from, conn, air, inbox, sent, connects, finished, clash>>
  BY <1>1, SideTypes DEF ReadBody
<1>5. op' = [op EXCEPT ![s] = c] /\ c \in Calls /\ c.frames = <<>> /\ c.do # "send"
  <2>1. CASE r.complete = <<>>
    BY <1>2, <1>3, <2>1 DEF Calls
  <2>2. CASE r.complete # <<>>
    BY <1>2, <2>2, IdleCall
  <2> QED
    BY <2>1, <2>2
<1>6. wire'[s] = Tail(w) /\ wire'[Other(s)] = wire[Other(s)] /\ wire' = [u \in Sides |-> wire'[u]]
  BY <1>3, <1>4
<1>7. /\ Shrinks(w, q, Tail(w), q) /\ Head(w).frame \subseteq Contents(w, q)
      /\ Ordered(w, q) => \A h \in Head(w).frame, g \in Contents(Tail(w), q) : Before(h, g)
  <2> HIDE DEF w, q
  <2> QED
    BY <1>3, StreamRead
<1>8. /\ op' \in [Sides -> Calls] /\ \A u \in Sides : op'[u].frames # <<>> <=> op'[u].do = "send"
      /\ wire' \in [Sides -> Seq(Parts)]
      /\ \A u \in Sides : Shrinks(wire[u], op[Other(u)].frames, wire'[u], op'[Other(u)].frames)
  <2>1. /\ Shrinks(wire[s], op[Other(s)].frames, wire'[s], op[Other(s)].frames)
        /\ Shrinks(wire[Other(s)], op[s].frames, wire'[Other(s)], c.frames)
        /\ c.frames # <<>> <=> c.do = "send"
    BY <1>3, <1>5, <1>6, <1>7
  <2> HIDE DEF c
  <2> QED
    BY <1>1, <1>5, <1>6, <2>1, CallStep
<1>9. f \in UnderWay(s) /\ f \in Frames
  BY <1>1, <1>7, UnderWayIs
<1>10. op'[Other(s)].frames = q
  BY <1>3, <1>5
<1>11. /\ buffers' = [buffers EXCEPT ![s] = r.buffers]
       /\ got' = got \/ (r.complete # <<>> /\ got' = [got EXCEPT ![s] = Append(@, Assembled(r.complete))])
  BY <1>2
<1>12. Receives(s, f)
  <2>1. \/ UNCHANGED <<got, inbox>>
        \/ r.complete # <<>> /\ got' = [got EXCEPT ![s] = Append(@, Assembled(r.complete))] /\ inbox' = inbox
    BY <1>4, <1>11
  <2>2. kind = "wifi" /\ Ordered(wire[s], op[Other(s)].frames)
           => \A g \in Contents(wire'[s], op'[Other(s)].frames) : Before(f, g)
    BY <1>6, <1>7, <1>10
  <2>3. UNCHANGED <<kind, air, sent, clash>>
    BY <1>4
  <2> QED
    BY <1>8, <1>9, <1>11, <2>1, <2>2, <2>3 DEF Receives
<1>13. Reassembler(r.buffers) /\ (r.complete # <<>> => Assembled(r.complete) \in Nat)
  BY <1>1, <1>9, ReceivedTypes
<1>14. LinkTypes'
  <2> HIDE DEF r
  <2>1. buffers' = [u \in Sides |-> buffers'[u]] /\ \A u \in Sides : Reassembler(buffers'[u])
    <3>1. buffers = [u \in Sides |-> buffers[u]] /\ \A u \in Sides : Reassembler(buffers[u])
      BY <1>1 DEF LinkTypes
    <3> QED
      BY <1>11, <1>13, <3>1
  <2>2. got' \in [Sides -> Seq(Nat)]
    <3>1. got \in [Sides -> Seq(Nat)]
      BY <1>1 DEF LinkTypes
    <3>2. r.complete # <<>> => Append(got[s], Assembled(r.complete)) \in Seq(Nat)
      BY <1>13, <3>1, AppendProperties
    <3> QED
      BY <1>11, <3>1, <3>2
  <2> QED
    BY <1>1, <1>4, <1>8, <2>1, <2>2 DEF LinkTypes
<1> QED
  BY <1>12, <1>14, ReceivesStep

\* What a send adds has its shape.
LEMMA SendTypes ==
  ASSUME LinkTypes, sent < MaxSends, NEW len \in Nat, NEW id \in Ids, NEW t \in Sides
  PROVE  /\ Chunk(sent + 1, len, id) \in Seq(Frames)
         /\ sent + 1 \in 0..MaxSends /\ finished \subseteq 1..(sent + 1)
         /\ Clash(t, id, len) \in {"no", "length", "full"}
<1>1. sent \in 0..MaxSends /\ finished \subseteq 1..sent /\ clash \in {"no", "length", "full"} /\ MaxSends \in Nat
  BY LinksAssumption DEF LinkTypes
<1> DEFINE n == sent + 1
<1>2. n \in Nat \ {0} /\ n \in 0..MaxSends /\ finished \subseteq 1..n
  BY <1>1
<1>3. Chunk(n, len, id) \in Seq(Frames)
  <2> HIDE DEF n
  <2> QED
    BY <1>2, Chunked
<1>4. Clash(t, id, len) \in {"no", "length", "full"}
  BY <1>1 DEF Clash
<1> QED
  BY <1>2, <1>3, <1>4

LEMMA WifiSendInv ==
  ASSUME LinkInv, NEW s \in Sides, NEW len \in Nat, NEW id \in Ids, WifiSend(s, len, id)
  PROVE  LinkInv'
<1> DEFINE q == Chunk(sent + 1, len, id)
           c == IF q = <<>> THEN Idle("ok") ELSE [do |-> "send", frames |-> q, half |-> FALSE, result |-> "none"]
<1>1. LinkTypes /\ Other(s) \in Sides /\ Other(s) # s /\ Other(Other(s)) = s
  BY TwoSides DEF LinkInv
<1>2. /\ kind = "wifi" /\ op[s].do = "idle" /\ sent < MaxSends /\ sent' = sent + 1
      /\ op' = [op EXCEPT ![s] = c]
      /\ clash' = IF q = <<>> THEN clash ELSE Clash(Other(s), id, len)
      /\ UNCHANGED <<kind, from, conn, wire, air, buffers, inbox, connects, finished, got>>
  BY DEF WifiSend, Ready
<1>3. /\ q \in Seq(Frames) /\ sent + 1 \in 0..MaxSends /\ finished \subseteq 1..(sent + 1)
      /\ Clash(Other(s), id, len) \in {"no", "length", "full"}
  BY <1>1, <1>2, SendTypes
<1> HIDE DEF q
<1>4. c \in Calls /\ c.frames = q /\ (c.frames # <<>> <=> c.do = "send")
  <2>1. CASE q = <<>>
    BY <2>1, IdleCall
  <2>2. CASE q # <<>>
    BY <1>3, <2>2 DEF Calls
  <2> QED
    BY <2>1, <2>2
<1> HIDE DEF c
<1>5. /\ op[s].frames = <<>> /\ op'[s] = c /\ op'[Other(s)] = op[Other(s)]
      /\ op' \in [Sides -> Calls] /\ \A u \in Sides : op'[u].frames # <<>> <=> op'[u].do = "send"
  <2>1. op \in [Sides -> Calls] /\ \A u \in Sides : op[u].frames # <<>> <=> op[u].do = "send"
    BY <1>1 DEF LinkTypes
  <2> QED
    BY <1>1, <1>2, <1>4, <2>1
<1>6. LinkTypes'
  <2>1. clash' \in {"no", "length", "full"}
    BY <1>1, <1>2, <1>3 DEF LinkTypes
  <2> QED
    BY <1>1, <1>2, <1>3, <1>5, <2>1 DEF LinkTypes
<1>7. Sends(Other(s), len, id)
  BY <1>1, <1>2, <1>4, <1>5 DEF Sends, q
<1> QED
  BY <1>1, <1>6, <1>7, SendsStep

LEMMA LinkBreaksInv ==
  ASSUME LinkInv, LinkBreaks
  PROVE  LinkInv'
<1>1. LinkTypes
  BY DEF LinkInv
<1>2. /\ wire' = wire \/ wire' = [s \in Sides |-> <<>>]
      /\ UNCHANGED <<kind, from, conn, op, air, buffers, inbox, sent, connects, finished, got, clash>>
  BY DEF LinkBreaks
<1>3. ASSUME NEW s \in Sides
      PROVE  Shrinks(wire[s], op[Other(s)].frames, wire'[s], op'[Other(s)].frames)
  <2>1. wire[s] \in Seq(Parts) /\ op[Other(s)].frames \in Seq(Frames)
    BY <1>1, SideTypes
  <2>2. wire'[s] = wire[s] \/ wire'[s] = <<>>
    BY <1>2
  <2> QED
    BY <1>2, <2>1, <2>2, StreamCut
<1>4. wire' \in [Sides -> Seq(Parts)]
  <2>1. wire' = [s \in Sides |-> wire'[s]]
    BY <1>1, <1>2 DEF LinkTypes
  <2> QED
    BY <1>3, <2>1 DEF Shrinks
<1>5. LinkTypes'
  BY <1>1, <1>2, <1>4 DEF LinkTypes
<1>6. Quiet
  BY <1>2, <1>3 DEF Quiet, Values
<1> QED
  BY <1>5, <1>6, QuietStep

LEMMA ReconnectInv ==
  ASSUME LinkInv, Reconnect
  PROVE  LinkInv'
<1> DEFINE c == Idle("none")
<1>1. LinkTypes
  BY DEF LinkInv
<1>2. /\ conn' = [s \in Sides |-> "Connected"] /\ op' = [op EXCEPT !["b"] = c]
      /\ wire' = [s \in Sides |-> <<>>] /\ buffers' = [buffers EXCEPT !["b"] = NewReassembler]
      /\ connects < MaxConnects /\ connects' = connects + 1
      /\ UNCHANGED <<kind, from, air, inbox, sent, finished, got, clash>>
  BY DEF Reconnect, history
<1>3. c \in Calls /\ c.frames = <<>> /\ c.do = "idle"
  BY IdleCall
<1> HIDE DEF c
<1> DEFINE s == "b"
<1>4. s \in Sides /\ wire'[s] = <<>> /\ wire'[Other(s)] = <<>> /\ wire' = [u \in Sides |-> wire'[u]]
  BY <1>2, TwoSides DEF Sides
<1>5. op' = [op EXCEPT ![s] = c]
  BY <1>2
<1> HIDE DEF s
<1>6. /\ Shrinks(wire[s], op[Other(s)].frames, wire'[s], op[Other(s)].frames)
      /\ Shrinks(wire[Other(s)], op[s].frames, wire'[Other(s)], c.frames)
      /\ c.frames # <<>> <=> c.do = "send"
  BY <1>1, <1>3, <1>4, SideTypes, StreamCut
<1>7. /\ op' \in [Sides -> Calls] /\ \A u \in Sides : op'[u].frames # <<>> <=> op'[u].do = "send"
      /\ wire' \in [Sides -> Seq(Parts)]
      /\ \A u \in Sides : Shrinks(wire[u], op[Other(u)].frames, wire'[u], op'[Other(u)].frames)
  BY <1>1, <1>3, <1>4, <1>5, <1>6, CallStep
<1>8. Reassembler(NewReassembler) /\ \A id \in Ids : NewReassembler[id] = NoBuffer
  BY DEF NewReassembler, Reassembler
<1>9. /\ buffers' = [u \in Sides |-> buffers'[u]] /\ \A u \in Sides : Reassembler(buffers'[u])
      /\ \A u \in Sides, id \in Ids : buffers'[u][id] = buffers[u][id] \/ buffers'[u][id] = NoBuffer
  <2>1. buffers = [u \in Sides |-> buffers[u]] /\ \A u \in Sides : Reassembler(buffers[u])
    BY <1>1 DEF LinkTypes
  <2>2. \A u \in Sides : buffers'[u] = buffers[u] \/ buffers'[u] = NewReassembler
    BY <1>2, <2>1
  <2> QED
    BY <1>2, <1>8, <2>1, <2>2
<1>10. LinkTypes'
  <2>1. conn' \in [Sides -> {"Connected", "Disconnected", "Dropped"}]
    BY <1>2
  <2>2. connects' \in 0..(MaxConnects + 1)
    BY <1>1, <1>2, LinksAssumption DEF LinkTypes
  <2> QED
    BY <1>1, <1>2, <1>7, <1>9, <2>1, <2>2 DEF LinkTypes
<1>11. Quiet
  BY <1>2, <1>7, <1>9 DEF Quiet, Values
<1> QED
  BY <1>10, <1>11, QuietStep
-----------------------------------------------------------------------------
(* BLE.                                                                    *)

\* Streams when no call is one that sends.
LEMMA StreamsKept ==
  ASSUME LinkTypes, wire' = wire, op' \in [Sides -> Calls],
         \A u \in Sides : op'[u].frames = op[u].frames
  PROVE  \A u \in Sides : Shrinks(wire[u], op[Other(u)].frames, wire'[u], op'[Other(u)].frames)
BY SideTypes, TwoSides

\* The call of side s that is over, for one that sends nothing either.
LEMMA CallOver ==
  ASSUME LinkTypes, NEW s \in Sides, op[s].do = "idle", NEW c \in Calls, c.frames = <<>>, c.do # "send",
         op' = [op EXCEPT ![s] = c]
  PROVE  /\ op' \in [Sides -> Calls]
         /\ \A u \in Sides : op'[u].frames = op[u].frames /\ (op'[u].frames # <<>> <=> op'[u].do = "send")
<1>1. op \in [Sides -> Calls] /\ \A u \in Sides : op[u].frames # <<>> <=> op[u].do = "send"
  BY DEF LinkTypes
<1>2. op[s].frames = <<>>
  BY <1>1
<1>3. \A u \in Sides : op'[u] = IF u = s THEN c ELSE op[u]
  BY <1>1
<1> QED
  BY <1>1, <1>2, <1>3

\* A message in the air.
LEMMA EmitInv ==
  ASSUME LinkInv, NEW s \in Sides, NEW len \in Nat, NEW id \in Ids, Emit(s, len, id), kind = "ble",
         op' \in [Sides -> Calls],
         \A u \in Sides : op'[u].frames = op[u].frames /\ (op'[u].frames # <<>> <=> op'[u].do = "send"),
         conn' \in [Sides -> {"Connected", "Disconnected", "Dropped"}], connects' \in 0..(MaxConnects + 1),
         UNCHANGED <<kind, from, wire, buffers, inbox, finished, got>>
  PROVE  LinkInv'
<1> DEFINE q == Chunk(sent + 1, len, id)
           t == Other(s)
<1>1. LinkTypes /\ t \in Sides /\ Other(t) = s
  BY TwoSides DEF LinkInv
<1>2. /\ sent < MaxSends /\ sent' = sent + 1 /\ air' = [air EXCEPT ![t] = @ \cup ToSet(q)]
      /\ clash' = IF q = <<>> THEN clash ELSE Clash(t, id, len)
  BY DEF Emit
<1> HIDE DEF t
<1>3. /\ q \in Seq(Frames) /\ sent + 1 \in 0..MaxSends /\ finished \subseteq 1..(sent + 1)
      /\ Clash(t, id, len) \in {"no", "length", "full"}
  BY <1>1, <1>2, SendTypes
<1> HIDE DEF q
<1>4. ToSet(q) \subseteq Frames
  BY <1>3, ElementOfSeq, LenProperties DEF ToSet
<1>5. air' \in [Sides -> SUBSET Frames]
  <2>1. air \in [Sides -> SUBSET Frames]
    BY <1>1 DEF LinkTypes
  <2> QED
    BY <1>1, <1>2, <1>4, <2>1
<1>6. clash' \in {"no", "length", "full"}
  BY <1>1, <1>2, <1>3 DEF LinkTypes
<1>7. LinkTypes'
  BY <1>1, <1>2, <1>3, <1>5, <1>6 DEF LinkTypes
<1>8. Sends(t, len, id)
  BY <1>1, <1>2 DEF Sends, q
<1> QED
  BY <1>1, <1>7, <1>8, SendsStep

\* Steps that leave frames and buffers alone.
LEMMA KeptInv ==
  ASSUME LinkInv, conn' \in [Sides -> {"Connected", "Disconnected", "Dropped"}], connects' \in 0..(MaxConnects + 1),
         UNCHANGED <<kind, from, op, wire, air, buffers, inbox, sent, finished, got, clash>>
  PROVE  LinkInv'
<1>1. LinkTypes
  BY DEF LinkInv
<1>2. LinkTypes'
  BY <1>1 DEF LinkTypes
<1>3. \A u \in Sides : Shrinks(wire[u], op[Other(u)].frames, wire'[u], op'[Other(u)].frames)
  BY <1>1, SideTypes
<1>4. Quiet
  BY <1>3 DEF Quiet, Values
<1> QED
  BY <1>2, <1>4, QuietStep

LEMMA BleConnectInv ==
  ASSUME LinkInv, NEW s \in Sides, NEW id \in Ids, BleConnect(s, id)
  PROVE  LinkInv'
<1>1. LinkTypes
  BY DEF LinkInv
<1>2. /\ kind = "ble" /\ connects < MaxConnects + 1 /\ connects' = connects + 1
      /\ conn' = [conn EXCEPT ![s] = "Connected"]
      /\ Emit(s, 1, id) \/ UNCHANGED <<sent, air, clash>>
      /\ UNCHANGED <<kind, from, op, wire, buffers, inbox, finished, got>>
  BY DEF BleConnect
<1>3. conn' \in [Sides -> {"Connected", "Disconnected", "Dropped"}]
  BY <1>1, <1>2 DEF LinkTypes
<1>4. connects' \in 0..(MaxConnects + 1)
  BY <1>1, <1>2, LinksAssumption DEF LinkTypes
<1>5. CASE UNCHANGED <<sent, air, clash>>
  BY <1>2, <1>3, <1>4, <1>5, KeptInv
<1>6. CASE Emit(s, 1, id)
  <2>1. /\ op' \in [Sides -> Calls]
        /\ \A u \in Sides : op'[u].frames = op[u].frames /\ (op'[u].frames # <<>> <=> op'[u].do = "send")
    BY <1>1, <1>2 DEF LinkTypes
  <2>2. 1 \in Nat
    OBVIOUS
  <2> QED
    BY <1>2, <1>3, <1>4, <1>6, <2>1, <2>2, EmitInv
<1> QED
  BY <1>2, <1>5, <1>6

LEMMA BleSendInv ==
  ASSUME LinkInv, NEW s \in Sides, NEW len \in Nat, NEW id \in Ids, BleSend(s, len, id)
  PROVE  LinkInv'
<1> DEFINE c == Idle("none")
<1>1. LinkTypes
  BY DEF LinkInv
<1>2. /\ kind = "ble" /\ op[s].do = "idle" /\ Emit(s, len, id) /\ op' = [op EXCEPT ![s] = c]
      /\ UNCHANGED <<kind, from, conn, wire, buffers, inbox, connects, finished, got>>
  BY DEF BleSend, Ready
<1>3. c \in Calls /\ c.frames = <<>> /\ c.do # "send"
  BY IdleCall
<1> HIDE DEF c
<1>4. /\ op' \in [Sides -> Calls]
      /\ \A u \in Sides : op'[u].frames = op[u].frames /\ (op'[u].frames # <<>> <=> op'[u].do = "send")
  BY <1>1, <1>2, <1>3, CallOver
<1>5. conn' \in [Sides -> {"Connected", "Disconnected", "Dropped"}] /\ connects' \in 0..(MaxConnects + 1)
  BY <1>1, <1>2 DEF LinkTypes
<1> QED
  BY <1>2, <1>4, <1>5, EmitInv

LEMMA IngestInv ==
  ASSUME LinkInv, NEW s \in Sides, NEW f, Ingest(s, f)
  PROVE  LinkInv'
<1> DEFINE r == ReceiveChunk(buffers[s], f)
           x == Assembled(r.complete)
           c == [Idle("none") EXCEPT !.do = "ingest"]
<1>1. LinkTypes
  BY DEF LinkInv
<1>2. /\ kind = "ble" /\ f \in air[s] /\ op[s].do = "idle"
      /\ buffers' = [buffers EXCEPT ![s] = r.buffers]
      /\ UNCHANGED <<kind, from, conn, wire, air, sent, connects, finished, got, clash>>
  BY DEF Ingest, history
<1>3. \/ inbox' = inbox /\ (op' = op \/ op' = [op EXCEPT ![s] = c])
      \/ r.complete # <<>> /\ Len(inbox[s]) < InboxCapacity /\ inbox' = [inbox EXCEPT ![s] = Append(@, x)] /\ op' = op
  BY DEF Ingest
<1>4. c \in Calls /\ c.frames = <<>> /\ c.do # "send"
  BY EmptySeq DEF Idle, Calls
<1>5. f \in UnderWay(s)
  BY <1>1, <1>2, UnderWayIs
<1>6. Reassembler(r.buffers) /\ (r.complete # <<>> => x \in Nat)
  BY <1>1, <1>5, ReceivedTypes
<1> HIDE DEF c, r, x
<1>7. /\ op' \in [Sides -> Calls]
      /\ \A u \in Sides : op'[u].frames = op[u].frames /\ (op'[u].frames # <<>> <=> op'[u].do = "send")
  <2>1. CASE op' = op
    BY <1>1, <2>1 DEF LinkTypes
  <2>2. CASE op' = [op EXCEPT ![s] = c]
    BY <1>1, <1>2, <1>4, <2>2, CallOver
  <2> QED
    BY <1>3, <2>1, <2>2
<1>8. \A u \in Sides : Shrinks(wire[u], op[Other(u)].frames, wire'[u], op'[Other(u)].frames)
  BY <1>1, <1>2, <1>7, StreamsKept
<1>9. /\ buffers' = [u \in Sides |-> buffers'[u]] /\ \A u \in Sides : Reassembler(buffers'[u])
  <2>1. buffers = [u \in Sides |-> buffers[u]] /\ \A u \in Sides : Reassembler(buffers[u])
    BY <1>1 DEF LinkTypes
  <2> QED
    BY <1>2, <1>6, <2>1
<1>10. inbox' \in [Sides -> Seq(Nat)] /\ \A u \in Sides : Len(inbox'[u]) <= InboxCapacity
  <2>1. inbox \in [Sides -> Seq(Nat)] /\ \A u \in Sides : Len(inbox[u]) <= InboxCapacity
    BY <1>1 DEF LinkTypes
  <2>2. CASE inbox' = inbox
    BY <2>1, <2>2
  <2>3. CASE r.complete # <<>> /\ Len(inbox[s]) < InboxCapacity /\ inbox' = [inbox EXCEPT ![s] = Append(@, x)]
    <3> DEFINE q == inbox[s]
               p == Append(q, x)
    <3>1. q \in Seq(Nat) /\ x \in Nat
      BY <1>6, <2>1, <2>3
    <3>2. p \in Seq(Nat) /\ Len(p) = Len(q) + 1 /\ Len(q) \in Nat
      BY <3>1, AppendProperties, LenProperties
    <3>3. Len(p) <= InboxCapacity
      BY <2>3, <3>2, LinksAssumption
    <3>4. \A u \in Sides : inbox'[u] = IF u = s THEN p ELSE inbox[u]
      BY <2>1, <2>3
    <3> HIDE DEF p
    <3> QED
      BY <2>1, <2>3, <3>2, <3>3, <3>4
  <2> QED
    BY <1>3, <2>2, <2>3
<1>11. LinkTypes'
  BY <1>1, <1>2, <1>7, <1>9, <1>10 DEF LinkTypes
<1>12. \/ UNCHANGED <<got, inbox>>
       \/ r.complete # <<>> /\ kind = "ble" /\ inbox' = [inbox EXCEPT ![s] = Append(@, x)] /\ got' = got
  BY <1>2, <1>3
<1>13. Receives(s, f)
  BY <1>2, <1>5, <1>8, <1>12 DEF Receives, r, x
<1> QED
  BY <1>11, <1>13, ReceivesStep

LEMMA CleanupInv ==
  ASSUME LinkInv, NEW id \in Ids, CleanupStaleBuffers(id)
  PROVE  LinkInv'
<1>1. LinkTypes
  BY DEF LinkInv
<1>2. /\ buffers' = [buffers EXCEPT !["a"][id] = NoBuffer]
      /\ UNCHANGED <<kind, from, conn, op, wire, air, inbox, sent, connects, finished, got, clash>>
  BY DEF CleanupStaleBuffers, history
<1> DEFINE B == buffers["a"]
           C == [buffers["a"] EXCEPT ![id] = NoBuffer]
<1>3. buffers = [u \in Sides |-> buffers[u]] /\ \A u \in Sides : Reassembler(buffers[u])
  BY <1>1 DEF LinkTypes
<1>4. Reassembler(B)
  BY <1>3 DEF Sides
<1>5. Reassembler(C) /\ \A i \in Ids : C[i] = B[i] \/ C[i] = NoBuffer
  BY <1>4 DEF Reassembler
<1>6. buffers' = [buffers EXCEPT !["a"] = C]
  BY <1>2
<1> HIDE DEF C
<1>7. \A u \in Sides : buffers'[u] = IF u = "a" THEN C ELSE buffers[u]
  BY <1>3, <1>6
<1>8. /\ buffers' = [u \in Sides |-> buffers'[u]] /\ \A u \in Sides : Reassembler(buffers'[u])
      /\ \A u \in Sides, i \in Ids : buffers'[u][i] = buffers[u][i] \/ buffers'[u][i] = NoBuffer
  BY <1>3, <1>5, <1>6, <1>7
<1>9. LinkTypes'
  BY <1>1, <1>2, <1>8 DEF LinkTypes
<1>10. \A u \in Sides : Shrinks(wire[u], op[Other(u)].frames, wire'[u], op'[Other(u)].frames)
  BY <1>1, <1>2, SideTypes
<1>11. Quiet
  BY <1>2, <1>8, <1>10 DEF Quiet, Values
<1> QED
  BY <1>9, <1>11, QuietStep

LEMMA BleRecvInv ==
  ASSUME LinkInv, NEW s \in Sides, BleRecv(s)
  PROVE  LinkInv'
<1> DEFINE c == Idle("none")
           q == inbox[s]
<1>1. LinkTypes
  BY DEF LinkInv
<1>2. /\ kind = "ble" /\ op[s].do = "idle" /\ q # <<>>
      /\ inbox' = [inbox EXCEPT ![s] = Tail(@)] /\ op' = [op EXCEPT ![s] = c]
      /\ got' = got \/ got' = [got EXCEPT ![s] = Append(@, Head(q))]
      /\ UNCHANGED <<kind, from, conn, wire, air, buffers, sent, connects, finished, clash>>
  BY DEF BleRecv, Ready
<1>3. c \in Calls /\ c.frames = <<>> /\ c.do # "send"
  BY IdleCall
<1> HIDE DEF c
<1>4. /\ op' \in [Sides -> Calls]
      /\ \A u \in Sides : op'[u].frames = op[u].frames /\ (op'[u].frames # <<>> <=> op'[u].do = "send")
  BY <1>1, <1>2, <1>3, CallOver
<1>5. \A u \in Sides : Shrinks(wire[u], op[Other(u)].frames, wire'[u], op'[Other(u)].frames)
  BY <1>1, <1>2, <1>4, StreamsKept
<1>6. /\ inbox \in [Sides -> Seq(Nat)] /\ \A u \in Sides : Len(inbox[u]) <= InboxCapacity
      /\ got \in [Sides -> Seq(Nat)]
  BY <1>1 DEF LinkTypes
<1> DEFINE n == Len(q)
           t == Tail(q)
           p == Append(got[s], Head(q))
           m == Len(got[s])
<1>7. /\ n \in Nat /\ n >= 1 /\ DOMAIN q = 1..n
      /\ t \in Seq(Nat) /\ Len(t) = n - 1 /\ DOMAIN t = 1..(n - 1) /\ \A i \in 1..(n - 1) : t[i] = q[i + 1]
      /\ Head(q) = q[1] /\ Head(q) \in Nat
  <2>1. q \in Seq(Nat)
    BY <1>6
  <2> HIDE DEF q
  <2> QED
    BY <1>2, <2>1, HeadTailProperties, LenProperties, EmptySeq
<1>8. ToSet(t) \subseteq ToSet(q) /\ Head(q) \in ToSet(q)
  <2> HIDE DEF q, t, n
  <2>1. 1 \in 1..n /\ \A i \in 1..(n - 1) : i + 1 \in 1..n
    BY <1>7
  <2>2. Head(q) \in ToSet(q)
    BY <1>7, <2>1 DEF ToSet
  <2>3. ASSUME NEW y \in ToSet(t) PROVE y \in ToSet(q)
    <3>1. PICK i \in 1..(n - 1) : y = t[i]
      BY <1>7, <2>3 DEF ToSet
    <3>2. i + 1 \in DOMAIN q /\ y = q[i + 1]
      BY <1>7, <2>1, <3>1
    <3> QED
      BY <3>2 DEF ToSet
  <2> QED
    BY <2>2, <2>3
<1>9. /\ p \in Seq(Nat) /\ DOMAIN p = 1..(m + 1) /\ m \in Nat /\ DOMAIN got[s] = 1..m
      /\ p[m + 1] = Head(q) /\ \A i \in 1..m : p[i] = got[s][i]
  BY <1>6, <1>7, AppendProperties, LenProperties
<1>10. ToSet(p) \subseteq ToSet(got[s]) \cup {Head(q)}
  <2> HIDE DEF p, m, q
  <2>1. \A i \in 1..(m + 1) : i = m + 1 \/ i \in 1..m
    BY <1>9
  <2> QED
    BY <1>9, <2>1 DEF ToSet
<1> HIDE DEF t, p
<1>11. /\ inbox'[s] = t /\ \A u \in Sides : u # s => inbox'[u] = inbox[u] /\ got'[u] = got[u]
       /\ got'[s] = got[s] \/ got'[s] = p
       /\ inbox' = [u \in Sides |-> inbox'[u]] /\ got' = [u \in Sides |-> got'[u]]
  BY <1>2, <1>6 DEF t, p
<1>12. inbox' \in [Sides -> Seq(Nat)] /\ got' \in [Sides -> Seq(Nat)]
  <2>1. \A u \in Sides : inbox'[u] \in Seq(Nat) /\ got'[u] \in Seq(Nat)
    BY <1>6, <1>7, <1>9, <1>11
  <2> QED
    BY <1>11, <2>1
<1>13. \A u \in Sides : Len(inbox'[u]) <= InboxCapacity
  <2>1. Len(t) <= InboxCapacity
    <3>1. n <= InboxCapacity
      BY <1>6
    <3> QED
      BY <1>7, <3>1, LinksAssumption
  <2> QED
    BY <1>6, <1>11, <2>1
<1>14. \A u \in Sides : Values(u)' \subseteq Values(u)
  BY <1>8, <1>10, <1>11 DEF Values
<1>15. LinkTypes'
  BY <1>1, <1>2, <1>4, <1>12, <1>13 DEF LinkTypes
<1>16. Quiet
  BY <1>2, <1>5, <1>14 DEF Quiet
<1> QED
  BY <1>15, <1>16, QuietStep

LEMMA ConnInv ==
  ASSUME LinkInv, NEW s \in Sides, Disconnect(s) \/ HandshakeFails(s)
  PROVE  LinkInv'
<1>1. /\ UNCHANGED <<kind, from, op, wire, air, buffers, inbox, sent, connects, finished, got, clash>>
      /\ conn' = [conn EXCEPT ![s] = "Disconnected"] \/ conn' = [conn EXCEPT ![s] = "Dropped"]
  BY DEF Disconnect, HandshakeFails, history
<1>2. conn' \in [Sides -> {"Connected", "Disconnected", "Dropped"}] /\ connects' \in 0..(MaxConnects + 1)
  BY <1>1 DEF LinkInv, LinkTypes
<1> QED
  BY <1>1, <1>2, KeptInv
-----------------------------------------------------------------------------
(* The theorems.                                                           *)

ShakeTypes ==
  /\ layer \in {"plain", "noise"}
  /\ shake \in [Sides -> {"none", "sending", "receiving", "failed"}]

LEMMA InitLinkInv == SecureInit => LinkInv /\ ShakeTypes
<1> SUFFICES ASSUME SecureInit PROVE LinkInv /\ ShakeTypes
  OBVIOUS
<1>1. Init
  BY DEF SecureInit
<1>2. /\ kind \in {"wifi", "ble"} /\ from \in Sides
      /\ conn = [s \in Sides |-> IF kind = "wifi" THEN "Connected" ELSE "Disconnected"]
      /\ op = [s \in Sides |-> Idle("none")] /\ wire = [s \in Sides |-> <<>>]
      /\ air = [s \in Sides |-> {}] /\ inbox = [s \in Sides |-> <<>>] /\ got = [s \in Sides |-> <<>>]
      /\ buffers = [s \in Sides |-> NewReassembler]
      /\ sent = 0 /\ connects = 0 /\ finished = {} /\ clash = "no"
  BY <1>1 DEF Init
<1>3. Reassembler(NewReassembler) /\ \A id \in Ids : NewReassembler[id] = NoBuffer
  BY DEF NewReassembler, Reassembler
<1>4. Idle("none") \in Calls /\ Idle("none").frames = <<>> /\ Idle("none").do = "idle"
  BY IdleCall
<1>5. /\ <<>> \in Seq(Parts) /\ <<>> \in Seq(Nat) /\ Len(<<>>) = 0
  BY EmptySeq
<1>6. 0 <= InboxCapacity /\ 0 \in 0..MaxSends /\ 0 \in 0..(MaxConnects + 1)
  BY LinksAssumption
<1>7. LinkTypes
  BY <1>2, <1>3, <1>4, <1>5, <1>6 DEF LinkTypes
<1>8. ASSUME NEW s \in Sides
      PROVE  /\ wire[s] = <<>> /\ op[Other(s)].frames = <<>> /\ got[s] = <<>> /\ inbox[s] = <<>>
             /\ air[s] = {} /\ buffers[s] = NewReassembler
  BY <1>2, <1>4, TwoSides
<1>9. DOMAIN <<>> = {}
  BY EmptySeq
<1>10. ASSUME NEW s \in Sides PROVE UnderWay(s) = {} /\ Values(s) = {}
  <2>1. UnderWay(s) = air[s] \cup Contents(wire[s], op[Other(s)].frames)
    BY <1>7, UnderWayIs
  <2>2. Contents(<<>>, <<>>) = {}
    BY <1>9 DEF Contents, ToSet
  <2> QED
    BY <1>8, <1>9, <2>1, <2>2 DEF Values, ToSet
<1>11. DOMAIN NoBuffer.data = {} /\ NoBuffer.total = 0
  BY DEF NoBuffer
<1>12. Bounded
  BY <1>3, <1>8, <1>10, <1>11 DEF Bounded, Upto
<1>13. OneSource({}, NewReassembler)
  BY <1>3, <1>11 DEF OneSource, Piece
<1>14. Unmixed
  BY <1>8, <1>10, <1>13 DEF Unmixed
<1>15. Ordered(<<>>, <<>>)
  BY <1>9 DEF Ordered
<1>16. Streamed
  BY <1>8, <1>9, <1>10, <1>15 DEF Streamed
<1>17. ShakeTypes
  BY DEF SecureInit, ShakeTypes
<1> QED
  BY <1>7, <1>12, <1>14, <1>16, <1>17 DEF LinkInv

LEMMA NextLinkInv == LinkInv /\ ShakeTypes /\ [Next]_vars => LinkInv' /\ ShakeTypes'
<1> SUFFICES ASSUME LinkInv, ShakeTypes, [Next]_vars PROVE LinkInv' /\ ShakeTypes'
  OBVIOUS
<1>0. from \in Sides /\ Other(from) \in Sides /\ Drawn \subseteq Ids /\ Lens \subseteq Nat
      /\ payload_capacity + 1 \in Nat
  BY TwoSides, LinksAssumption, ChunkingAssumption DEF LinkInv, LinkTypes, Drawn
<1>1. CASE Progress /\ UNCHANGED secureVars
  <2>1. LinkInv'
    <3>1. PICK s \in Sides :
            \/ WriteLength(s) \/ WriteBody(s)
            \/ ReadLength(s) \/ ReadBody(s) \/ ReadGarbage(s)
      BY <1>1 DEF Progress
    <3>2. CASE WriteLength(s)
      BY <3>2, WriteLengthInv
    <3>3. CASE WriteBody(s)
      BY <3>3, WriteBodyInv
    <3>4. CASE ReadBody(s)
      BY <3>4, ReadBodyInv
    <3>5. CASE ReadLength(s) \/ ReadGarbage(s)
      BY <3>5, CallsInv
    <3> QED
      BY <3>1, <3>2, <3>3, <3>4, <3>5
  <2> QED
    BY <1>1, <2>1 DEF secureVars, ShakeTypes
<1>2. CASE Environment /\ UNCHANGED secureVars
  <2> SUFFICES LinkInv'
    BY <1>2 DEF secureVars, ShakeTypes
  <2>1. CASE LinkBreaks
    BY <2>1, LinkBreaksInv
  <2>2. CASE \E s \in Sides, f \in air["a"] \cup air["b"] : Ingest(s, f)
    BY <2>2, IngestInv
  <2>3. CASE \E id \in Ids : CleanupStaleBuffers(id)
    BY <2>3, CleanupInv
  <2>4. CASE \E s \in Sides : WriteFails(s) \/ ReadFails(s)
    BY <2>4, CallsInv
  <2> QED
    BY <1>2, <2>1, <2>2, <2>3, <2>4 DEF Environment
<1>3. CASE PlainHost /\ UNCHANGED secureVars
  <2> SUFFICES LinkInv'
    BY <1>3 DEF secureVars, ShakeTypes
  <2>1. Host
    BY <1>3 DEF PlainHost
  <2>2. CASE \E len \in Lens, id \in Drawn : WifiSend(from, len, id) \/ BleSend(from, len, id)
    <3>1. PICK len \in Nat, id \in Ids : WifiSend(from, len, id) \/ BleSend(from, len, id)
      BY <1>0, <2>2
    <3>2. CASE WifiSend(from, len, id)
      BY <1>0, <3>2, WifiSendInv
    <3>3. CASE BleSend(from, len, id)
      BY <1>0, <3>3, BleSendInv
    <3> QED
      BY <3>1, <3>2, <3>3
  <2>3. CASE StartRecv(Other(from))
    BY <1>0, <2>3, CallsInv
  <2>4. CASE BleRecv(Other(from))
    BY <1>0, <2>4, BleRecvInv
  <2>5. CASE \E s \in Sides : CancelSend(s) \/ CancelRecv(s) \/ Disconnect(s) \/ \E id \in Drawn : BleConnect(s, id)
    <3>1. PICK s \in Sides : CancelSend(s) \/ CancelRecv(s) \/ Disconnect(s) \/ \E id \in Drawn : BleConnect(s, id)
      BY <2>5
    <3>2. CASE CancelSend(s) \/ CancelRecv(s)
      BY <3>2, CallsInv
    <3>3. CASE Disconnect(s)
      BY <3>3, ConnInv
    <3>4. CASE \E id \in Drawn : BleConnect(s, id)
      BY <1>0, <3>4, BleConnectInv
    <3> QED
      BY <3>1, <3>2, <3>3, <3>4
  <2>6. CASE Reconnect
    BY <2>6, ReconnectInv
  <2> QED
    BY <2>1, <2>2, <2>3, <2>4, <2>5, <2>6 DEF Host
<1>4. CASE Handshake
  <2>1. CASE \E id \in Drawn : Initiate(id)
    <3>1. PICK id \in Drawn : Initiate(id)
      BY <2>1
    <3>2. WifiSend(from, payload_capacity + 1, id) /\ id \in Ids
      BY <1>0, <3>1 DEF Initiate
    <3>3. LinkInv'
      <4> DEFINE len == payload_capacity + 1
      <4>1. len \in Nat /\ WifiSend(from, len, id)
        BY <1>0, <3>2
      <4> HIDE DEF len
      <4> QED
        BY <1>0, <3>2, <4>1, WifiSendInv
    <3>4. ShakeTypes'
      BY <1>0, <3>1 DEF Initiate, ShakeTypes
    <3> QED
      BY <3>3, <3>4
  <2>2. CASE AwaitReply
    <3>1. LinkInv'
      <4>1. StartRecv(from)
        BY <2>2 DEF AwaitReply
      <4> QED
        BY <1>0, <4>1, CallsInv
    <3>2. ShakeTypes'
      BY <1>0, <2>2 DEF AwaitReply, ShakeTypes
    <3> QED
      BY <3>1, <3>2
  <2>3. CASE Respond
    <3>1. LinkInv'
      <4>1. StartRecv(Other(from))
        BY <2>3 DEF Respond
      <4> QED
        BY <1>0, <4>1, CallsInv
    <3>2. ShakeTypes'
      BY <1>0, <2>3 DEF Respond, ShakeTypes
    <3> QED
      BY <3>1, <3>2
  <2>4. CASE \E s \in Sides : HandshakeFails(s)
    <3>1. PICK s \in Sides : HandshakeFails(s)
      BY <2>4
    <3>2. LinkInv'
      BY <3>1, ConnInv
    <3>3. ShakeTypes'
      BY <3>1 DEF HandshakeFails, ShakeTypes
    <3> QED
      BY <3>2, <3>3
  <2> QED
    BY <1>4, <2>1, <2>2, <2>3, <2>4 DEF Handshake
<1>5. CASE UNCHANGED vars
  <2>1. UNCHANGED <<kind, from, conn, op, wire, air, buffers, inbox, sent, connects, finished, got, clash, layer, shake>>
    BY <1>5 DEF vars, linkVars, secureVars
  <2>2. conn' \in [Sides -> {"Connected", "Disconnected", "Dropped"}] /\ connects' \in 0..(MaxConnects + 1)
    BY <2>1 DEF LinkInv, LinkTypes
  <2>3. LinkInv'
    BY <2>1, <2>2, KeptInv
  <2> QED
    BY <2>1, <2>3 DEF ShakeTypes
<1> QED
  BY <1>1, <1>2, <1>3, <1>4, <1>5 DEF Next

\* The invariant gives the types: values are of messages that were sent, and
\* frames have a place in their message.
LEMMA LinkInvTypes == LinkInv => LinksTypeOK
<1> SUFFICES ASSUME LinkInv PROVE LinksTypeOK
  OBVIOUS
<1>1. LinkTypes
  BY DEF LinkInv
<1>2. ASSUME NEW s \in Sides
      PROVE  /\ [do |-> op[s].do, half |-> op[s].half, result |-> op[s].result] \in Operations
             /\ op[s].frames # <<>> <=> op[s].do = "send"
             /\ Len(inbox[s]) <= InboxCapacity
  BY <1>1 DEF LinkTypes, Calls, Operations
<1>3. ASSUME NEW s \in Sides, NEW f \in UnderWay(s) PROVE WellFormed(f)
  <2>1. f \in Frames
    BY <1>1, UnderWayIs
  <2> QED
    BY <2>1, ChunkingAssumption DEF Frames, WellFormed
<1>4. ASSUME NEW s \in Sides, NEW id \in Ids, buffers[s][id] # NoBuffer
      PROVE  /\ DOMAIN buffers[s][id].data = 1..buffers[s][id].total
             /\ Received(buffers[s][id]) \notin {{}, 1..buffers[s][id].total}
  <2>1. Partial(buffers[s][id])
    BY <1>1, <1>4 DEF LinkTypes, Reassembler
  <2> QED
    BY <2>1 DEF Partial
<1>5. ASSUME NEW q \in Seq(Nat), \A x \in ToSet(q) : x <= sent PROVE q \in Seq(0..sent)
  <2>1. Len(q) \in Nat /\ DOMAIN q = 1..Len(q) /\ q \in [1..Len(q) -> Nat] /\ sent \in Nat
    BY <1>1, LenProperties DEF LinkTypes
  <2>2. \A i \in 1..Len(q) : q[i] \in 0..sent
    BY <1>5, <2>1 DEF ToSet
  <2>3. q \in [1..Len(q) -> 0..sent]
    BY <2>1, <2>2
  <2> QED
    BY <2>1, <2>3, SeqDef
<1>6. got \in [Sides -> Seq(0..sent)] /\ inbox \in [Sides -> Seq(0..sent)]
  <2>1. got \in [Sides -> Seq(Nat)] /\ inbox \in [Sides -> Seq(Nat)]
    BY <1>1 DEF LinkTypes
  <2>2. \A s \in Sides : got[s] \in Seq(0..sent) /\ inbox[s] \in Seq(0..sent)
    BY <1>5, <2>1 DEF LinkInv, Bounded, Values
  <2> QED
    BY <2>1, <2>2
<1>7. /\ sent \in 0..MaxSends /\ finished \subseteq 1..MaxSends
  BY <1>1, LinksAssumption DEF LinkTypes
<1> QED
  BY <1>1, <1>2, <1>3, <1>4, <1>6, <1>7 DEF LinksTypeOK, LinkTypes

\* Calls, streams, buffers, inboxes and handshakes have their types; frames
\* under way fit their messages, and a buffer is never empty or complete.
THEOREM TypeCorrect == Spec => []TypeOK
<1>1. SecureInit => LinkInv /\ ShakeTypes
  BY InitLinkInv
<1>2. (LinkInv /\ ShakeTypes) /\ [Next]_vars => (LinkInv /\ ShakeTypes)'
  BY NextLinkInv
<1>3. LinkInv /\ ShakeTypes => TypeOK
  BY LinkInvTypes DEF TypeOK, ShakeTypes
<1> QED
  BY <1>1, <1>2, <1>3, PTL DEF Spec

\* What recv returns, and what waits in the inbox, is all of one message that
\* was sent: frames and buffers are mixed only by two messages with one id
\* and one length.
THEOREM MessagesIntact == Spec => []Intact
<1>1. SecureInit => LinkInv /\ ShakeTypes
  BY InitLinkInv
<1>2. (LinkInv /\ ShakeTypes) /\ [Next]_vars => (LinkInv /\ ShakeTypes)'
  BY NextLinkInv
<1>3. LinkInv => Intact
  BY DEF LinkInv, Unmixed, Values, Intact
<1> QED
  BY <1>1, <1>2, <1>3, PTL DEF Spec

\* Over Wi-Fi messages are received in the order in which they were sent and
\* none twice, over any number of cancelled calls, breaks and reconnects.
THEOREM MessagesInOrder == Spec => []InOrder
<1>1. SecureInit => LinkInv /\ ShakeTypes
  BY InitLinkInv
<1>2. (LinkInv /\ ShakeTypes) /\ [Next]_vars => (LinkInv /\ ShakeTypes)'
  BY NextLinkInv
<1>3. LinkInv => InOrder
  BY DEF LinkInv, Streamed, InOrder
<1> QED
  BY <1>1, <1>2, <1>3, PTL DEF Spec
=============================================================================
