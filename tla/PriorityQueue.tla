---------------------------- MODULE PriorityQueue ----------------------------
(***************************************************************************)
(* The three-tier queue of src/gossip/queue.rs: High, Normal and Low, with *)
(* bounded Normal and Low tiers and an urgency-ordered drain of Normal.    *)
(*                                                                         *)
(* Every pushed message carries a stamp, its place in the order of         *)
(* arrival, so that the properties can tell messages apart.                *)
(***************************************************************************)
EXTENDS MessageQueue

CONSTANTS Shapes,          \* the messages that are pushed: records with type, ttl, hops
          LOW_CAPACITY,
          BatchSize,       \* FANOUT_BATCH_SIZE
          TtlCeiling,      \* 16 in urgency_score
          AgeUnit,         \* 60 s in urgency_score
          AgeCeiling,      \* 10 in urgency_score
          MaxNow,          \* bound on the clock
          MaxPushes        \* bound on the number of pushes

ASSUME QueueAssumption ==
  /\ LOW_CAPACITY \in Nat \ {0}
  /\ BatchSize \in Nat \ {0}
  /\ TtlCeiling \in Nat /\ AgeUnit \in Nat \ {0} /\ AgeCeiling \in Nat
  /\ MaxNow \in Nat /\ MaxPushes \in Nat
  /\ Shapes \subseteq
       [type : {"Transaction", "SyncRequest", "SyncResponse", "TopologyUpdate", "Handshake"},
        ttl : Nat, hops : Nat]

VARIABLES high, normal, low,   \* the tiers, front first
          now,                 \* SystemTime::now
          pushes,              \* number of messages pushed so far
          batch,               \* what the last drain_batch returned
          taken,               \* history: stamps popped or drained
          dropped,             \* history: stamps dropped by an overflow or a panic
          steady,              \* history: did the last sort see one urgency per message?
          shuffled             \* history: stamps in the tier when a sort did not

queueVars == <<high, normal, low, now, pushes, batch, taken, dropped, steady, shuffled>>

\* MessagePriority::for_message, for_topology_update
Priority(m) ==
  CASE m.type \in {"SyncRequest", "SyncResponse"}    -> "High"
    [] m.type = "TopologyUpdate" /\ m.hops > 5       -> "Low"
    [] m.type = "TopologyUpdate" /\ ~(m.hops > 5)    -> "High"
    [] m.type = "Transaction"                        -> "Normal"
    [] m.type = "Handshake"                          -> "Low"

\* MessagePriority::urgency_score, when it reads t from the clock.
UrgencyScore(m, t) ==
  IF m.type = "Transaction"
  THEN SaturatingSub(TtlCeiling, m.ttl) + AtMost(SaturatingSub(t, m.timestamp) \div AgeUnit, AgeCeiling)
  ELSE 0

Scores(tier, t) == [i \in DOMAIN tier |-> UrgencyScore(tier[i], t)]

Stamps(s) == {s[i].stamp : i \in DOMAIN s}

QueueInit ==
  /\ high = <<>> /\ normal = <<>> /\ low = <<>>
  /\ now = 0
  /\ pushes = 0
  /\ batch = <<>>
  /\ taken = {}
  /\ dropped = {}
  /\ steady = TRUE
  /\ shuffled = {}

\* push: a message of some shape, created now.
Push(shape) ==
  LET m == [type |-> shape.type, ttl |-> shape.ttl, hops |-> shape.hops,
            timestamp |-> now, stamp |-> pushes]
  IN  /\ pushes < MaxPushes
      /\ pushes' = pushes + 1
      /\ \/ /\ Priority(m) = "High"
            /\ high' = Append(high, m)
            /\ UNCHANGED <<normal, low, dropped>>
         \/ /\ Priority(m) = "Normal"
            /\ normal' = PushTier(normal, m, NORMAL_CAPACITY)
            /\ dropped' = dropped \cup {d.stamp : d \in PushDrops(normal, m, NORMAL_CAPACITY)}
            /\ UNCHANGED <<high, low>>
         \/ /\ Priority(m) = "Low"
            /\ low' = PushTier(low, m, LOW_CAPACITY)
            /\ dropped' = dropped \cup {d.stamp : d \in PushDrops(low, m, LOW_CAPACITY)}
            /\ UNCHANGED <<high, normal>>
      /\ batch' = <<>>
      /\ UNCHANGED <<now, taken, steady, shuffled>>

\* pop: the front of the first tier that is not empty.
Pop ==
  /\ \/ /\ high # <<>>
        /\ taken' = taken \cup {Head(high).stamp}
        /\ high' = Tail(high)
        /\ UNCHANGED <<normal, low>>
     \/ /\ high = <<>> /\ normal # <<>>
        /\ taken' = taken \cup {Head(normal).stamp}
        /\ normal' = Tail(normal)
        /\ UNCHANGED <<high, low>>
     \/ /\ high = <<>> /\ normal = <<>> /\ low # <<>>
        /\ taken' = taken \cup {Head(low).stamp}
        /\ low' = Tail(low)
        /\ UNCHANGED <<high, normal>>
  /\ batch' = <<>>
  /\ UNCHANGED <<now, pushes, dropped, steady, shuffled>>

\* Faulty variant of Hand: what the batch leaves is not put back.
HandLosingRest(order) ==
  /\ batch' = Drained(order, BatchSize)
  /\ normal' = <<>>
  /\ taken' = taken \cup Stamps(Drained(order, BatchSize))

\* The end of drain_batch(BatchSize), once the tier was put in this order.
Hand(order) ==
  /\ batch' = Drained(order, BatchSize)
  /\ normal' = Retained(order, BatchSize)
  /\ taken' = taken \cup Stamps(Drained(order, BatchSize))

\* drain_batch, with something to drain.  urgency_score reads the clock anew at
\* every comparison: here no message changes its score while they are sorted.
DrainBatch ==
  /\ normal # <<>>
  /\ Hand(ByUrgency(normal, Scores(normal, now)))
  /\ steady' = TRUE
  /\ UNCHANGED <<high, low, now, pushes, dropped, shuffled>>

\* drain_batch, when the clock moves on under the sort and with it a score:
\* the keys are no total order, and sort_by_key leaves any order behind.
DrainBatchAsClockMoves ==
  /\ now < MaxNow
  /\ now' = now + 1
  /\ Scores(normal, now') # Scores(normal, now)
  /\ \E order \in Orders(normal) : Hand(order)
  /\ steady' = FALSE
  /\ shuffled' = shuffled \cup Stamps(normal)
  /\ UNCHANGED <<high, low, pushes, dropped>>

\* The same, when sort_by_key notices that the keys are inconsistent and
\* panics: the messages were drained from the tier already and go with it.
DrainPanics ==
  /\ now < MaxNow
  /\ now' = now + 1
  /\ Len(normal) > 1
  /\ Scores(normal, now') # Scores(normal, now)
  /\ normal' = <<>>
  /\ batch' = <<>>
  /\ dropped' = dropped \cup Stamps(normal)
  /\ UNCHANGED <<high, low, pushes, taken, steady, shuffled>>

\* Time passes; messages in the queue age.
Tick ==
  /\ now < MaxNow
  /\ now' = now + 1
  /\ batch' = <<>>
  /\ UNCHANGED <<high, normal, low, pushes, taken, dropped, steady, shuffled>>

QueueNext ==
  \/ \E shape \in Shapes : Push(shape)
  \/ Pop
  \/ DrainBatch
  \/ DrainBatchAsClockMoves
  \/ DrainPanics
  \/ Tick

QueueSpec == QueueInit /\ [][QueueNext]_queueVars
-----------------------------------------------------------------------------
QueuedMessages ==
  [type : {"Transaction", "SyncRequest", "SyncResponse", "TopologyUpdate", "Handshake"},
   ttl : Nat, hops : Nat, timestamp : Nat, stamp : Nat]

\* Every tier holds messages of its own priority, Normal and Low within
\* their capacities.
QueueTypeOK ==
  /\ high \in Seq(QueuedMessages) /\ \A i \in DOMAIN high : Priority(high[i]) = "High"
  /\ normal \in Seq(QueuedMessages) /\ \A i \in DOMAIN normal : Priority(normal[i]) = "Normal"
  /\ low \in Seq(QueuedMessages) /\ \A i \in DOMAIN low : Priority(low[i]) = "Low"
  /\ Len(normal) <= NORMAL_CAPACITY /\ Len(low) <= LOW_CAPACITY
  /\ now \in 0..MaxNow
  /\ pushes \in 0..MaxPushes
  /\ batch \in Seq(QueuedMessages)
  /\ taken \in SUBSET (0..MaxPushes) /\ dropped \in SUBSET (0..MaxPushes)
  /\ steady \in BOOLEAN /\ shuffled \in SUBSET (0..MaxPushes)

\* Every pushed message is in exactly one place: in one tier, once, or handed
\* out, or dropped by an overflow or a panic.  No other sequence of push, pop
\* and drain_batch loses or duplicates one, in whatever order a sort leaves it.
Conservation ==
  LET queued == Stamps(high) \cup Stamps(normal) \cup Stamps(low)
  IN  /\ queued \cup taken \cup dropped = {n \in 0..MaxPushes : n < pushes}
      /\ queued \cap (taken \cup dropped) = {}
      /\ taken \cap dropped = {}
      /\ Cardinality(queued) = Len(high) + Len(normal) + Len(low)

\* drain_batch hands out the most urgent envelopes, most urgent first, and
\* keeps no envelope that is more urgent than one it handed out, unless a
\* score changed during its sort (queue.rs:148 reads the clock at every
\* comparison); a later drain has it right again.  Two envelopes of the same
\* age and TTL leave the Normal tier in the order they came, within a batch,
\* from batch to batch, and however often the tier was reordered in between,
\* unless both were there when a sort saw the clock move.
MostUrgentFirst ==
  LET order == batch \o normal
  IN  \A i, j \in DOMAIN order : i < j =>
        /\ steady /\ i \in DOMAIN batch => UrgencyScore(order[i], now) >= UrgencyScore(order[j], now)
        /\ order[i].ttl = order[j].ttl /\ order[i].timestamp = order[j].timestamp
             => order[i].stamp < order[j].stamp \/ {order[i].stamp, order[j].stamp} \subseteq shuffled
=============================================================================
