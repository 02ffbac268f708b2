----------------------------- MODULE GossipMesh -----------------------------
(***************************************************************************)
(* Epidemic gossip between nodes, src/gossip/protocol.rs: every node runs  *)
(* the gossip loop (fanout rounds, anti-entropy, ban check) and a host     *)
(* that hands it what arrives, the way the integration tests do.           *)
(*                                                                         *)
(* A round is split where the code releases a lock: peers are resolved,    *)
(* the batch is drained, envelopes are dispatched one by one, penalties    *)
(* are applied.  Connections are FIFO and lose what send_to fails to send. *)
(* Envelopes come with timestamps of their senders' clocks, so the urgency *)
(* order of a drain may be any order here (PriorityQueue says which).      *)
(***************************************************************************)
EXTENDS BloomFilter, MessageQueue, Positions

CONSTANTS Nodes,
          Neighbours,        \* the active peers of each node
          Origin,            \* the node at which each id is submitted
          Prefix,            \* the 4-byte prefix of each id
          InitTtl,           \* ttl_hops each id is submitted with
          InitReputation,    \* reputation of a new peer, in duplicate penalties
          FANOUT_BATCH_SIZE,
          MACRO_MERGE_THRESHOLD, MACRO_MERGE_BATCH_SIZE,
          MIN_FANOUT, MAX_FANOUT, FALLBACK_FANOUT,
          HopCap,            \* bound on the hop count the history keeps
          LinkCapacity,      \* bound on the messages in flight on a connection
          Lossy,             \* may a send fail?
          AntiEntropy        \* the nodes whose anti-entropy timer fires

ASSUME MeshAssumption ==
  /\ Neighbours \in [Nodes -> SUBSET Nodes]
  /\ \A n \in Nodes : n \notin Neighbours[n]
  /\ Origin \in [Ids -> Nodes]
  /\ DOMAIN Prefix = Ids
  /\ InitTtl \in [Ids -> Nat \ {0}] /\ InitReputation \in Nat \ {0}
  /\ FANOUT_BATCH_SIZE \in Nat \ {0}
  /\ MACRO_MERGE_THRESHOLD \in Nat /\ MACRO_MERGE_BATCH_SIZE \in Nat \ {0}
  /\ MIN_FANOUT \in Nat /\ MAX_FANOUT \in Nat /\ FALLBACK_FANOUT \in Nat
  /\ HopCap \in Nat /\ LinkCapacity \in Nat
  /\ Lossy \in BOOLEAN /\ AntiEntropy \subseteq Nodes

VARIABLES queue,       \* Normal tier of each node's active_queue
          backlog,     \* macro_merge_backlog of each node
          bloom,       \* the gossip loop's SlidingBloomFilter of each node
          round,       \* where each node's gossip loop is
          links,       \* messages in flight on each connection
          reputation,  \* what each node thinks of its peers
          banned,      \* the peers each node has banned
          submitted,   \* the ids that entered the mesh
          seen,        \* history: the ids that reached each node's GossipState
          forwarded,   \* history: rounds in which a node sent an id out (at most two counted)
          missed       \* history: for each pair of peers, the ids the first gave up handing to the second

vars == <<queue, backlog, bloom, round, links, reputation, banned, submitted, seen, forwarded, missed>>

Pairs == Nodes \X Nodes

\* hops is history: the connections this copy has crossed.
Envelopes == [id : Ids, ttl : Nat, hops : 0..HopCap]

Messages ==
  [type : {"Transaction"}, env : Envelopes]
    \cup [type : {"SyncRequest"}, known : SUBSET {Prefix[id] : id \in Ids}]
    \cup [type : {"SyncResponse"}, envs : Seq(Envelopes)]

IdleRound == [stage |-> "idle", recipients |-> {}, batch |-> <<>>, duplicates |-> <<>>]

\* One more connection crossed (saturating, to keep the history finite).
Crossed(e) == [e EXCEPT !.hops = AtMost(@ + 1, HopCap)]

\* FanoutCalculator::calculate(active, None)
FanoutTarget(active) ==
  CASE active <= MIN_FANOUT                         -> active
    [] active > MIN_FANOUT /\ active > MAX_FANOUT   -> AtMost(FALLBACK_FANOUT, active)
    [] active > MIN_FANOUT /\ active <= MAX_FANOUT  -> active

\* get_active_peers without the banned ones.
ActivePeers(n) == Neighbours[n] \ banned[n]

\* GossipState::add_envelope on a sequence of envelopes, in order.
AddEnvelopes(q, envs) ==
  LET all == q \o envs
  IN  SubSeq(all, 1 + SaturatingSub(Len(all), NORMAL_CAPACITY), Len(all))

\* The ids it drives out of the queue.
Overflow(q, envs) ==
  LET all == q \o envs
  IN  {all[i].id : i \in 1..SaturatingSub(Len(all), NORMAL_CAPACITY)}

\* GossipState::generate_sync_request
SyncRequestOf(q) == [type |-> "SyncRequest", known |-> {Prefix[q[i].id] : i \in DOMAIN q}]

\* GossipState::handle_sync_request: what the requester seems to lack, with
\* the TTL it has here.
SyncResponseFor(q, req) ==
  LET missing == {i \in DOMAIN q : Prefix[q[i].id] \notin req.known}
      envs == Keep(q, missing)
  IN  [type |-> "SyncResponse", envs |-> [i \in DOMAIN envs |-> Crossed(envs[i])]]

\* A message put on the connection from n to p.
Sent(ls, n, p, m) == [ls EXCEPT ![<<n, p>>] = Append(@, m)]

HasRoom(n, p) == Len(links[<<n, p>>]) < LinkCapacity

\* n loses its copy of these ids for these peers.
GiveUp(n, peers, ids) ==
  missed' = [c \in Pairs |-> IF c[1] = n /\ c[2] \in peers THEN missed[c] \cup ids ELSE missed[c]]

\* add_envelope for each of envs, in order.
Enqueue(n, envs) ==
  /\ queue' = [queue EXCEPT ![n] = AddEnvelopes(@, envs)]
  /\ GiveUp(n, Neighbours[n], Overflow(queue[n], envs))
-----------------------------------------------------------------------------
Init ==
  /\ queue = [n \in Nodes |-> <<>>]
  /\ backlog = [n \in Nodes |-> <<>>]
  /\ bloom = [n \in Nodes |-> NewFilter]
  /\ round = [n \in Nodes |-> IdleRound]
  /\ links = [c \in Pairs |-> <<>>]
  /\ reputation = [n \in Nodes |-> [p \in Neighbours[n] |-> InitReputation]]
  /\ banned = [n \in Nodes |-> {}]
  /\ submitted = {}
  /\ seen = [n \in Nodes |-> {}]
  /\ forwarded = [n \in Nodes |-> [id \in Ids |-> 0]]
  /\ missed = [c \in Pairs |-> {}]

\* The application submits a new envelope on its own node.
Submit(id) ==
  /\ id \notin submitted
  /\ submitted' = submitted \cup {id}
  /\ Enqueue(Origin[id], <<[id |-> id, ttl |-> InitTtl[id], hops |-> 0]>>)
  /\ seen' = [seen EXCEPT ![Origin[id]] = @ \cup {id}]
  /\ UNCHANGED <<backlog, bloom, round, links, reputation, banned, forwarded>>

\* execute_fanout_round, steps 1 and 2: resolve the peers, select recipients.
\* Without an active peer the round ends here and drains nothing.
StartRound(n) ==
  /\ round[n].stage = "idle"
  /\ ActivePeers(n) # {}
  /\ \E recipients \in SUBSET ActivePeers(n) :
       /\ Cardinality(recipients) = FanoutTarget(Cardinality(ActivePeers(n)))
       /\ round' = [round EXCEPT ![n].stage = "drain", ![n].recipients = recipients]
  /\ UNCHANGED <<queue, backlog, bloom, links, reputation, banned, submitted, seen, forwarded, missed>>

\* Faulty variant of DrainRound: what the batch leaves is not put back.
DrainRoundLosing(n) ==
  /\ round[n].stage = "drain"
  /\ \E order \in Orders(queue[n]) :
       round' = [round EXCEPT ![n].stage = "dispatch", ![n].batch = Drained(order, FANOUT_BATCH_SIZE)]
  /\ queue' = [queue EXCEPT ![n] = <<>>]
  /\ UNCHANGED <<backlog, bloom, links, reputation, banned, submitted, seen, forwarded, missed>>

\* execute_fanout_round, step 3: drain_batch under the state lock.
DrainRound(n) ==
  /\ round[n].stage = "drain"
  /\ \E order \in Orders(queue[n]) :
       /\ round' = [round EXCEPT ![n].stage = "dispatch", ![n].batch = Drained(order, FANOUT_BATCH_SIZE)]
       /\ queue' = [queue EXCEPT ![n] = Retained(order, FANOUT_BATCH_SIZE)]
  /\ UNCHANGED <<backlog, bloom, links, reputation, banned, submitted, seen, forwarded, missed>>

\* execute_fanout_round, step 4, for an id the filter knows: the envelope is
\* dropped and its origin noted for a penalty, whether it was forwarded before
\* or the filter errs.
DispatchDuplicate(n) ==
  /\ round[n].stage = "dispatch" /\ round[n].batch # <<>>
  /\ LET e == Head(round[n].batch)
     IN  /\ Check(bloom[n], e.id)
         /\ round' = [round EXCEPT ![n].batch = Tail(@),
                                   ![n].duplicates = Append(@, Origin[e.id])]
         /\ GiveUp(n, Neighbours[n], IF forwarded[n][e.id] = 0 THEN {e.id} ELSE {})
  /\ UNCHANGED <<queue, backlog, bloom, links, reputation, banned, submitted, seen, forwarded>>

\* ... for a new id without hops left: it enters the filter and is dropped.
DispatchExpired(n) ==
  /\ round[n].stage = "dispatch" /\ round[n].batch # <<>>
  /\ LET e == Head(round[n].batch)
     IN  /\ ~Check(bloom[n], e.id)
         /\ e.ttl = 0
         /\ \E f \in AddNew(bloom[n], e.id) : bloom' = [bloom EXCEPT ![n] = f]
         /\ round' = [round EXCEPT ![n].batch = Tail(@)]
         /\ GiveUp(n, Neighbours[n], {e.id})
  /\ UNCHANGED <<queue, backlog, links, reputation, banned, submitted, seen, forwarded>>

\* The recipients a send reaches: a send may fail or time out, and does so
\* when the connection is full.
Reached(n) ==
  LET open == {p \in round[n].recipients : HasRoom(n, p)}
  IN  IF Lossy THEN SUBSET open ELSE {open}

\* Faulty variant of Outbound: the TTL stays.
OutboundSameTtl(e) == [type |-> "Transaction", env |-> Crossed(e)]

\* The copy that goes out: one hop less.
Outbound(e) == [type |-> "Transaction", env |-> Crossed([e EXCEPT !.ttl = @ - 1])]

\* ... for a new id: a copy with one hop less goes to every recipient.  The
\* outcome of the sends makes no difference: whom a send does not reach, or
\* who is no recipient, gets no other copy of it from here.
DispatchSend(n) ==
  /\ round[n].stage = "dispatch" /\ round[n].batch # <<>>
  /\ LET e == Head(round[n].batch)
     IN  /\ ~Check(bloom[n], e.id)
         /\ e.ttl > 0
         /\ \E f \in AddNew(bloom[n], e.id) : bloom' = [bloom EXCEPT ![n] = f]
         /\ \E reached \in Reached(n) :
              /\ links' = [c \in Pairs |-> IF c[1] = n /\ c[2] \in reached
                                           THEN Append(links[c], Outbound(e)) ELSE links[c]]
              /\ GiveUp(n, Neighbours[n] \ reached, {e.id})
         /\ forwarded' = [forwarded EXCEPT ![n][e.id] = AtMost(@ + 1, 2)]
         /\ round' = [round EXCEPT ![n].batch = Tail(@)]
  /\ UNCHANGED <<queue, backlog, reputation, banned, submitted, seen>>

\* apply_penalty(DuplicateMessageFlood) once per noted origin that is a peer.
Penalised(n) ==
  LET strikes(p) == Cardinality({i \in DOMAIN round[n].duplicates : round[n].duplicates[i] = p})
  IN  [p \in Neighbours[n] |-> SaturatingSub(reputation[n][p], strikes(p))]

\* Faulty variant of FinishRound: it waits for the peer list lock, which the
\* round itself still holds.
FinishRoundLocked(n) ==
  /\ round[n].stage = "dispatch" /\ round[n].batch = <<>>
  /\ round' = IF round[n].duplicates = <<>> THEN [round EXCEPT ![n] = IdleRound] ELSE round
  /\ UNCHANGED <<queue, backlog, bloom, links, reputation, banned, submitted, seen, forwarded, missed>>

\* execute_fanout_round, its end: penalties under the peer list lock.
FinishRound(n) ==
  /\ round[n].stage = "dispatch" /\ round[n].batch = <<>>
  /\ reputation' = [reputation EXCEPT ![n] = Penalised(n)]
  /\ banned' = [banned EXCEPT ![n] = @ \cup {p \in Neighbours[n] :
                  Penalised(n)[p] = 0 /\ \E i \in DOMAIN round[n].duplicates : round[n].duplicates[i] = p}]
  /\ round' = [round EXCEPT ![n] = IdleRound]
  /\ UNCHANGED <<queue, backlog, bloom, links, submitted, seen, forwarded, missed>>

\* The ban check timer: a ban that apply_penalty issued has no expiry time
\* (zero), so the next check lifts it.  The reputation stays as it is.
BanCheck(n) ==
  /\ round[n].stage = "idle"
  /\ banned[n] # {}
  /\ banned' = [banned EXCEPT ![n] = {}]
  /\ UNCHANGED <<queue, backlog, bloom, round, links, reputation, submitted, seen, forwarded, missed>>

\* GossipState::handle_sync_response: no check of signature, filter or hops;
\* a large response, sorted by its senders' clocks, replaces the backlog.
HandleSyncResponse(n, envs) ==
  /\ \/ /\ Len(envs) <= MACRO_MERGE_THRESHOLD
        /\ Enqueue(n, envs)
        /\ UNCHANGED backlog
     \/ /\ Len(envs) > MACRO_MERGE_THRESHOLD
        /\ \E order \in Orders(envs) : backlog' = [backlog EXCEPT ![n] = order]
        /\ GiveUp(n, Neighbours[n], {backlog[n][i].id : i \in DOMAIN backlog[n]})
        /\ UNCHANGED queue
  /\ seen' = [seen EXCEPT ![n] = @ \cup {envs[i].id : i \in DOMAIN envs}]

\* The anti-entropy timer: a SyncRequest to one active peer.  A request that
\* cannot be sent changes nothing.
AntiEntropyTick(n) ==
  /\ n \in AntiEntropy
  /\ round[n].stage = "idle"
  /\ \E p \in ActivePeers(n) :
       /\ HasRoom(n, p)
       /\ links' = Sent(links, n, p, SyncRequestOf(queue[n]))
       /\ round' = [round EXCEPT ![n].stage = "sync", ![n].recipients = {p}]
  /\ UNCHANGED <<queue, backlog, bloom, reputation, banned, submitted, seen, forwarded, missed>>

\* ... and one recv_any for the response.  Any other message recv_any returns
\* is consumed and ignored; when nothing has arrived yet the loop moves on.
AntiEntropyPoll(n) ==
  /\ round[n].stage = "sync"
  /\ round' = [round EXCEPT ![n] = IdleRound]
  /\ \/ UNCHANGED <<queue, backlog, links, seen, missed>>
     \/ \E q \in Nodes \ {n} :
          /\ links[<<q, n>>] # <<>>
          /\ links' = [links EXCEPT ![<<q, n>>] = Tail(@)]
          /\ LET m == Head(links[<<q, n>>])
             IN  \/ /\ m.type = "SyncResponse" /\ q \in round[n].recipients
                    /\ HandleSyncResponse(n, m.envs)
                 \/ /\ ~(m.type = "SyncResponse" /\ q \in round[n].recipients)
                    /\ GiveUp(q, {n}, IF m.type = "Transaction" THEN {m.env.id} ELSE {})
                    /\ UNCHANGED <<queue, backlog, seen>>
  /\ UNCHANGED <<bloom, reputation, banned, submitted, forwarded>>

\* The host's own recv_any, which waits for the transport lock of a round.
\* It queues transactions, answers requests and merges responses.
HostReceive(n, p) ==
  /\ round[n].stage # "dispatch"
  /\ links[<<p, n>>] # <<>>
  /\ LET m == Head(links[<<p, n>>])
         rest == [links EXCEPT ![<<p, n>>] = Tail(@)]
     IN  \/ /\ m.type = "Transaction"
            /\ Enqueue(n, <<m.env>>)
            /\ links' = rest
            /\ seen' = [seen EXCEPT ![n] = @ \cup {m.env.id}]
            /\ UNCHANGED backlog
         \/ /\ m.type = "SyncRequest"
            /\ links' = IF HasRoom(n, p) THEN Sent(rest, n, p, SyncResponseFor(queue[n], m)) ELSE rest
            /\ UNCHANGED <<queue, backlog, seen, missed>>
         \/ /\ m.type = "SyncResponse"
            /\ HandleSyncResponse(n, m.envs)
            /\ links' = rest
  /\ UNCHANGED <<bloom, round, reputation, banned, submitted, forwarded>>

\* Faulty variant of RecoverBatch: it removes one envelope more than it queues.
RecoverBatchShort(n) ==
  LET moved == AtMost(MACRO_MERGE_BATCH_SIZE, Len(backlog[n]))
  IN  /\ backlog[n] # <<>>
      /\ Enqueue(n, SubSeq(backlog[n], 1, moved - 1))
      /\ backlog' = [backlog EXCEPT ![n] = SubSeq(@, moved + 1, Len(@))]
      /\ UNCHANGED <<bloom, round, links, reputation, banned, submitted, seen, forwarded>>

\* The host paces the recovery of a large merge: process_paced_recovery_batch.
RecoverBatch(n) ==
  LET moved == AtMost(MACRO_MERGE_BATCH_SIZE, Len(backlog[n]))
  IN  /\ backlog[n] # <<>>
      /\ Enqueue(n, SubSeq(backlog[n], 1, moved))
      /\ backlog' = [backlog EXCEPT ![n] = SubSeq(@, moved + 1, Len(@))]
      /\ UNCHANGED <<bloom, round, links, reputation, banned, submitted, seen, forwarded>>

\* A round that has started runs to its end.
RoundStep(n) ==
  \/ DrainRound(n)
  \/ DispatchDuplicate(n)
  \/ DispatchExpired(n)
  \/ DispatchSend(n)
  \/ FinishRound(n)

Next ==
  \/ \E id \in Ids : Submit(id)
  \/ \E n \in Nodes :
       \/ StartRound(n)
       \/ RoundStep(n)
       \/ BanCheck(n)
       \/ AntiEntropyTick(n)
       \/ AntiEntropyPoll(n)
       \/ RecoverBatch(n)
       \/ \E p \in Nodes \ {n} : HostReceive(n, p)

Spec == Init /\ [][Next]_vars

\* What the loop and the host go on doing: the loop finishes what it began
\* and keeps starting rounds and ban checks (a round may lose the race against
\* the timers again and again, but not for ever: strong fairness), and the
\* host keeps receiving between rounds.
PushFairness ==
  \A n \in Nodes :
    /\ WF_vars(RoundStep(n) \/ AntiEntropyPoll(n))
    /\ SF_vars(StartRound(n))
    /\ SF_vars(BanCheck(n))
    /\ SF_vars(\E p \in Nodes \ {n} : HostReceive(n, p))

FairPushSpec == Spec /\ PushFairness
-----------------------------------------------------------------------------
Rounds ==
  [stage : {"idle", "drain", "dispatch", "sync"}, recipients : SUBSET Nodes,
   batch : Seq(Envelopes), duplicates : Seq(Nodes)]

TypeOK ==
  /\ queue \in [Nodes -> Seq(Envelopes)] /\ \A n \in Nodes : Len(queue[n]) <= NORMAL_CAPACITY
  /\ backlog \in [Nodes -> Seq(Envelopes)]
  /\ bloom \in [Nodes -> SlidingFilters]
  /\ round \in [Nodes -> Rounds] /\ \A n \in Nodes : Len(round[n].batch) <= FANOUT_BATCH_SIZE
  /\ links \in [Pairs -> Seq(Messages)] /\ \A c \in Pairs : Len(links[c]) <= LinkCapacity
  /\ DOMAIN reputation = Nodes /\ \A n \in Nodes : reputation[n] \in [Neighbours[n] -> 0..InitReputation]
  /\ banned \in [Nodes -> SUBSET Nodes]
  /\ submitted \in SUBSET Ids
  /\ seen \in [Nodes -> SUBSET Ids]
  /\ forwarded \in [Nodes -> [Ids -> 0..2]]
  /\ missed \in [Pairs -> SUBSET Ids]

Elements(s) == {s[i] : i \in DOMAIN s}

\* The envelopes of a message.
Carried(m) ==
  CASE m.type = "Transaction"  -> {m.env}
    [] m.type = "SyncRequest"  -> {}
    [] m.type = "SyncResponse" -> Elements(m.envs)

\* Every copy of an envelope anywhere in the mesh.
Copies ==
  (UNION {Elements(queue[n]) \cup Elements(backlog[n]) \cup Elements(round[n].batch) : n \in Nodes})
    \cup (UNION {UNION {Carried(m) : m \in Elements(links[c])} : c \in Pairs})

\* A node sends an id out in at most one round, however many copies rounds,
\* anti-entropy and paced recovery put into its queue (for a filter window
\* that holds all ids in play).
ForwardOnce == \A n \in Nodes, id \in Ids : forwarded[n][id] <= 1

\* An envelope crosses at most as many connections as its TTL allowed.
HopLimit == \A e \in Copies : e.hops <= InitTtl[e.id]

\* The ids n still has to forward.
Held(n) ==
  {queue[n][i].id : i \in DOMAIN queue[n]}
    \cup {backlog[n][i].id : i \in DOMAIN backlog[n]}
    \cup {round[n].batch[i].id : i \in DOMAIN round[n].batch}

\* The ids that are under way from n to p because n forwarded them.
UnderWay(n, p) ==
  {m.env.id : m \in {x \in Elements(links[<<n, p>>]) : x.type = "Transaction"}}

\* No id that has reached a node gets lost between its queue, its backlog, a
\* round and its connections: the node still holds it, or has brought it to
\* every peer, or gave it up at one of the places where the code does: a send
\* that failed or passed over a banned or unselected peer (protocol.rs:276),
\* an expired TTL, a filter that erred, a full queue, a backlog that was
\* replaced, or the anti-entropy of the peer, which swallowed it (protocol.rs:386).
LossesKnown ==
  \A n \in Nodes : \A id \in seen[n] \ Held(n) :
    \A p \in Neighbours[n] : id \in seen[p] \cup UnderWay(n, p) \cup missed[<<n, p>>]

\* The mesh implements Dissemination: what a node knows spreads, connection by
\* connection, although origins of echoed envelopes are banned and skipped
\* (protocol.rs:256), except where it was given up.
D == INSTANCE Dissemination WITH knows <- seen

Disseminates == D!Spec

\* Propagation of an envelope comes to an end: TTL and deduplication
\* eventually remove every copy.
PropagationEnds == <>[](Copies = {})
=============================================================================
