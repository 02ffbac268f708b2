# A TLA+ model of stellarconduit-core

stellarconduit-core is the mesh networking library of StellarConduit: offline
devices pass signed Stellar transactions to each other over BLE and Wi-Fi
Direct until a relay with Internet access submits them to the network. This
directory holds TLA+ modules that model the stateful core of the library, TLC
configurations that check them on small instances, and proofs of the types and
the most important invariants for all instances.

File names below are relative to `src/src/` of the repository unless they say
otherwise. `PROJECT.json` maps every definition to the lines it models.

## 1. The system

| Component | State | Operations | Talks to |
|---|---|---|---|
| deduplication filter (`gossip/bloom.rs`) | two Bloom filters, insert count | check, add, check_and_add, rotation | owned by the gossip loop |
| priority queue (`gossip/queue.rs`) | High, Normal, Low tiers | push, pop, drain_batch | inside `GossipState`, shared under a mutex |
| gossip loop (`gossip/protocol.rs`, `fanout.rs`, `round.rs`) | queue, macro-merge backlog, scheduler | fanout rounds, anti-entropy, ban check, topology events; `process_transaction_envelope` for the host | peer list, transport manager, database, event bus, routing table |
| strikes (`gossip/strike_tracker.rs`) | times of failures per peer | record_failure, clear_peer, cleanup | host's envelope handler |
| peers (`peer/*`, `discovery/peer_list.rs`) | reputation, ban flag, ban expiry, last seen | insert, penalties, rewards, ban, prune | everyone, under one mutex |
| persistent bans (`security/peer_ban.rs`, `persistence/db.rs`) | table `banned_peers` | ban_and_persist, restore_bans_from_db, save, remove, load | peer list, SQLite |
| transport manager (`transport/unified.rs`, `connection.rs`) | connection table, its atomic mirror, queued messages, channels from the listeners | connect, send_to, recv_any, listeners, disconnect, shutdown, MAC rotation, flush, BLE fallback | one mutex; listener tasks read the counter and fill channels |
| links (`transport/wifi_transport.rs`, `ble_transport.rs`, chunking in `unified.rs`) | stream, connection state, reassembly buffers, inbox | connect, send, recv, ingest, disconnect, reconnect | the manager, which cancels their calls; the other side |
| power saving (`transport/power.rs`) | mode, state, pending and announcement flags, activity time | set_state, tick, record in and out | the manager; a second one the scheduler |
| relay (`relay/*`) | LRU cache of proofs, retry configuration | process_envelope, submit_with_retry | Horizon RPC, peer list |
| topology (`topology/*`) | neighbour lists, hop counts, event bus | apply_update, prune, publish | gossip loop |
| router (`router/*`) | LRU routing table, path finder | lookup, invalidate, clear, find path | gossip loop |
| encryption (`security/encryption.rs`) | a connection and a Noise session | handshakes, encrypt, decrypt | a link |
| rate limiter (`security/rate_limit.rs`) | window and count per peer | check_and_record | nobody |
| discovery (`discovery/ble.rs`, `mdns.rs`, `wifi_direct.rs`) | a bounded channel of discovered peers | scanning, browsing, advertising | peer list, daemon |
| tables (`persistence/db.rs`) and `StatePruner` (`topology/health.rs`) | `peers`, `pending_messages`, `relay_proofs` | save, load, delete; a sweep every five minutes | peer list, mesh graph |
| daemon (`bin/stellarconduitd.rs`) | start order | main | all of them |

What makes it hard: several tasks share the peer list, the gossip state, the
transport manager and the database, and release the locks in between; sends
fail, time out and are cancelled; the daemon crashes between a change in memory
and its row; radios sleep while messages wait; RPC answers get lost after the
network has acted; queues, filters and caches reach their limits. The list of
hazards, each at its line, is in `PROJECT.json`.

What makes the parts correct:

* the filter knows the ids of the last full window, whatever was rotated out;
* the queue neither loses nor duplicates, and hands out what is most urgent;
* gossip brings an envelope from peer to peer, loses it only where the code
  gives it up, forwards it once per node, stays within its TTL and comes to an end;
* a ban is issued for cause, holds until its end, survives a restart, and ends;
* the connection counter is right, accepted transactions are sent or accounted
  for, sleeping radios stay silent;
* a message comes out of a link whole or not at all, and over a stream in order;
* rounds go on whatever else the loop has to do;
* what is on disk is what was saved, for as long as it was meant to be;
* routes do not outlive the peers they lead through, subscribers can trust events;
* a relay hands out a proof only for a transaction that was applied, and forgets a
  submission only for cause;
* the connections closest to a relay are the ones that are used.

## 2. Modules and how they correspond to the code

| Module | Models |
|---|---|
| `BloomFilter`, `SlidingBloom` | `SlidingBloomFilter`. A Bloom filter is the set of ids it answers yes to; setting an id may add any ids of `Colliding` (false positives). `SlidingBloom` is the filter alone, with the sequence of accepted ids as history |
| `MessageQueue`, `PriorityQueue` | the tiers of `PriorityQueue`: the front of a `VecDeque` is the head of a sequence; `urgency_score` with scaled constants, and a clock that lets messages age, also while a drain sorts them |
| `Dissemination` | abstract specification: nodes learn ids from nodes they are connected to, and what a node knows reaches each of its peers in the end, unless it was given up for that peer |
| `Positions` | what `retain` and `iter().filter()` leave of a collection, by positions: `SelectSeq` says the same, but by a recursion the provers cannot follow |
| `GossipMesh` (extends `BloomFilter`, `MessageQueue`, `Positions`) | nodes that each run `execute_fanout_round` split at its locks, the anti-entropy and ban check branches of `run_gossip_loop`, and a host that hands over what arrives, as the integration tests do |
| `BanLifecycle` (extends `Positions`) | `process_transaction_envelope`, `ban_and_persist`, the ban check, `restore_bans_from_db`, penalties, rewards, pruning, `banned_peers`, start and crash |
| `TransportManager` | `TransportManager` and the part of `PowerManager` it uses, with the two listener tasks |
| `Chunking` | `MessageChunker` and `MessageReassembler` as operators |
| `Links` (extends `Chunking`) | a pair of connections, Wi-Fi or BLE, with calls split at every await |
| `SecureLink` (extends `Links`) | the same pair, plain or under the two Noise handshakes |
| `PowerManager` | the operations of `PowerManager` as operators on its state |
| `GossipTiming` (extends `PowerManager`) | when the branches of `run_gossip_loop` run: `GossipScheduler`, the two timers, topology events, branches that take any time |
| `PeerDirectory` | `PeerList` with the three scanners and the daemon's consumer, the tables other than `banned_peers`, `StatePruner`, crash and restart |
| `PathFinder` | `rank_next_hops`, `select_next_hops` and `local_hop_count` as operators |
| `TopologyRouting` (extends `PathFinder`, `Positions`) | `MeshGraph`, `HopCounter`, `TopologyEventBus`, `RoutingTable`, and the branch of `run_gossip_loop` that invalidates routes |
| `RelayNode` | `process_envelope` split at its RPC calls, `RelayDeduplicator`, the network |
| `GossipProofs` | the theorems about `SlidingBloom`, `PriorityQueue` and `GossipMesh` |
| `LinksProofs` | the theorems about `SecureLink`, and through it `Links` and `Chunking` |
| `BanLifecycleProofs`, `TransportManagerProofs`, `PeerDirectoryProofs`, `RelayNodeProofs`, `TopologyRoutingProofs`, `GossipTimingProofs` | the theorems about the module each is named after |
| `MC...` | instances for TLC: topologies, message shapes, model values |

`GossipMesh` implements `Dissemination` (property `Disseminates`, mapping
`knows` to the history of ids that entered a node's `GossipState`). Its `missed`
is a history too: an action of the mesh adds to it exactly where the code drops
an envelope for a peer. Without losses the abstract specification would be
false of the code, and without `missed` it would say nothing about them.
Definitions that begin with "Faulty variant" are bugs one could make in the
code; each is used to check that the property next to it would notice.

### Abstractions

* **GossipMesh.** Connections are FIFO and bounded by `LinkCapacity`; a send
  fails when the connection is full or, with `Lossy`, at any time. A drain
  and a macro merge may leave any order of their envelopes: clocks of senders
  and of this node decide, and the order is the subject of `PriorityQueue`.
  Reputation is counted in duplicate penalties. `AntiEntropyTick` takes the three short locks
  (state, peers, transport) in one step; nothing between them depends on the
  others. The host of the integration tests queues envelopes without
  `process_transaction_envelope`, and so does the model; signatures are the
  subject of `BanLifecycle`.
* **PriorityQueue.** `sort_by_key` reads the clock at each comparison. As long as
  no score changes during the sort this is the sort by one reading; when one
  does, the keys are not a total order, and the sort promises no more than some
  order of the same messages, or a panic (`DrainBatchAsClockMoves`,
  `DrainPanics`). What a panic does to the process beyond the lost messages is
  not followed.
* **BanLifecycle.** One clock stands for `SystemTime` and `Instant`. The
  gossip loop's own strike tracker is always empty, so clearing it is left out.
  The database is one row per peer; a statement fails or succeeds as a whole
  (`DbMayFail`). A restore is split at each of its readings of the clock: by the
  query, before the peer list is locked (`ReadClock`), and by `Peer::ban` for
  every row (`RestoreBan`), since time passes in between.
* **TransportManager.** Calls hold the manager's mutex, so one runs at a time;
  it is split at each queued message of a flush. Time is reduced to what the
  manager asks: is the wake window open, has the idle timeout passed. A call
  that its caller cancels leaves one of the states a failing call leaves. The
  GoToSleep announcement and `set_state` are in `PowerManager`. Several
  broken connections found by one `recv_any` have the effect of several calls.
* **Links.** Bytes are cells that bear the number of their message, so an
  assembled message shows whose bytes it is made of. `message_id` is drawn at
  random: each send takes any id, also one that is in use. The TCP stream is a
  sequence of prefixes, bodies and fragments; a cancelled call leaves a
  fragment, or has read one, and the reader is out of step from then on. What
  it reads then fails a check or waits; the model does not follow it further.
  A connection is lost in silence: writes go on for a while and read calls need
  never notice, as there is neither a timeout nor a keepalive.
  In the library the BLE classes encode frames and drop them; the platform
  that would carry them is modelled as losing, repeating and reordering.
  One side's host sends, the other's receives.
* **SecureLink.** `unframe_noise_message` returns no bytes, which snow refuses,
  so the handshakes fail at the first message they read; the model stops there,
  as the code does. A host need not begin its handshake. Modelled over Wi-Fi (over BLE nothing can reach a
  connection that a handshake has taken).
* **GossipTiming.** The constants keep the order of the real ones, not their
  size. Only the wait for a sync response has a limit; a round, the locks,
  the request, the merge, a ban check and an event take any time, or for ever.
  Ticks that a timer misses meanwhile come in a burst, as tokio's default is.
* **PeerDirectory.** Ages instead of times, each up to where it makes no more
  difference. One behaviour uses one of the three tables, which have nothing in
  common but the crash. A statement fails or succeeds as a whole. A record
  parses or is dropped. Nothing in the repository but the pruner calls the
  tables; the host may, at any time.
* **TopologyRouting.** In one behaviour the host uses either the routing table
  (then edge lists are empty) or the path finder (then nothing is cached): they
  have only the bus in common. Of an event the model keeps whether it condemns
  the routes of a peer, all routes or none. The broadcast channel is the sequence of events the
  loop has not read, at most `BusCapacity`; publishing to a full channel
  overwrites the oldest one and makes the next read fail once. Nothing in the
  library caches routes or publishes losses; the host does, at any time. Each
  of the components is behind its own lock, so an operation is one step;
  `refresh` is two puts in one step.
* **RelayNode.** A proof is the pair of ledgers its sequence and hash came
  from. The Bloom filter of the deduplicator is written and never read. The
  network is external: it applies a valid transaction once, and a retry of an
  applied one may succeed or be rejected.

## 3. Runs

| Run | Expect | Shows |
|---|---|---|
| `sliding_bloom` | pass | the last accepted ids, a window of them, are all known, across rotations and with every false positive |
| `priority_queue` | pass | conservation, also when the clock moves under a sort; otherwise most urgent first, first in first out among equals |
| `gossip_push` | pass | in a line of nodes: ids spread hop by hop (`Dissemination`) although echoes get their origins banned and skipped, hops stay within the TTL, and all copies disappear |
| `gossip_sync` | pass | with lost sends, bans, anti-entropy, swallowed messages, overwritten backlogs and paced recovery a node still forwards an id once, and an id is lost only where the code gives it up |
| `ban_lifecycle` | pass | bans are issued for cause, hold until their end (pruning aside), are extended by a restart by no more than the time between its two readings of the clock, active rows are enforced, and every ban ends |
| `ban_remove_race` | violation | `remove_ban` of an ended ban, carried out after a new ban was saved, deletes the new row: a restart forgets the new ban |
| `transport` | pass | the counter mirrors the table, every accepted transaction is delivered, queued or known to be dropped, wake-ups are armed, outside the wake window a sleeping node stays asleep and sends no transaction, and until a flush fails no queued transaction is overtaken by a later one |
| `topology_routing` | pass | routes to or through a lost peer leave the table unless their event was overwritten, also after the loop has lagged; reachability of a relay is announced correctly through every sequence of distances; the router selects the connections closest to a relay (against a definition of distance by recursion from the relays), and the distance a node advertises is one that its first choice can keep |
| `links` | pass | a received message is one that was sent, whole, unless two equally long ones were given the same random id; over Wi-Fi (with the same exception) in order and never twice, across cancelled calls and reconnects; nothing is lost unless a call was cancelled inside a frame or the connection ended; a handshake that both sides have begun ends on both, unless the connection is lost |
| `peer_directory` | pass | whom a sweep marks as banned on disk; no message goes before its time, and old ones do go, whatever fails; proofs read back; a resolved peer is listed although the channel is bounded |
| `gossip_timing` | pass | between rounds the loop sleeps no more than the interval, one sleep per branch of a timer or an event, and one more, whatever time the branches themselves take; rounds recur once events cease and branches return in time |
| `relay` | pass | a proof implies that the transaction was applied, whatever failed; the network takes a transaction twice only after a failed ledger query or an eviction from a full cache; every call returns |

Every module states a `TypeOK`, which types its state for readers and proofs
and holds under its configuration; all of them are theorems, and only the
`FilterTypeOK` of `SlidingBloom` is listed in a run.

### Bounds, and why they are enough

* `sliding_bloom`: a capacity of two and a few ids give several rotations; the
  theorems cover every capacity.
* `priority_queue`: three Normal and one Low slots, six pushes, batches of two,
  two ages: each tier overflows, drains reorder and leave a remainder.
* `gossip_push`: a line of three nodes, so that the ends are two hops apart;
  an envelope from each end, with the TTL to be echoed back and with just the
  hops it needs; batches of one, so that a queue outlasts a round; a reputation
  of one, so that an echo bans its origin and a round skips it.
  `gossip_sync`: the same line, with anti-entropy in its middle and a last
  node that only listens, thresholds so low that every response is a macro
  merge, capacities of one.
* `ban_lifecycle`: one peer, because peers meet only in the handler and in the
  loop, each of which serves one at a time; the theorems cover every set of
  peers. Four seconds with bans of two and a window of one fit a ban, its end,
  a second ban and two restarts, with a second passing inside a restore. Reputation is scaled to five.
* `transport`: two peers at a limit of one, channels of one, three sends: two
  messages queued behind one whose send fails, replacement, fallback, shutdown.
* `topology_routing`: two peers, a destination that is not a peer, a table of
  two (three destinations, so routes are evicted) and a bus of two: a single
  update that announces a node and a new mesh size fills it. The path finder
  sees every graph of three nodes with distances 0, 1, 255 and unknown: the
  nearest known distance is not on the shortest path in many of them.
* `links`: messages of two chunks (the second one full or not) and one that is
  too long, two sends, two ids that may collide, one reconnect, an inbox of one.
* `peer_directory`: two peers and one message, ages around the limits, a delay
  of one tick between cutoff and deletion; i64 scaled to a maximum of one.
* `gossip_timing`: an active interval takes one tick, an idle one two, a deep
  sleep three, so that the sleeps of an idle loop miss its end; an answer may
  take two ticks, other branches any time; a timer misses up to two ticks.
  A synchronization comes every seven ticks, which leaves room for a sleep when
  a request, an answer and a merge take as long as they may, as thirty seconds
  do for ten and a sleep of five. `RoundGap` is told apart for fewer than two
  branches (`MaxServed`); the theorem covers every number.
* `relay`: three valid transactions for a cache of two, one invalid one, two
  attempts, six calls, three ledgers.

### Fairness

* `gossip_push`: a round that began goes on (weak fairness); rounds, ban checks
  and the host's receive happen again and again when they can (strong fairness:
  `select!` picks among ready branches at random and tokio's mutex is fair).
  That rounds keep starting is what `RoundsRecur` of `gossip_timing` shows.
* `gossip_timing`: time passes, the runtime polls the loop, and the wait for an
  answer ends with its timeout (weak fairness). That any other branch returns is
  not assumed: `RoundsRecur` supposes that from some time on topology events
  cease and branches return within `Prompt`. Without this it is false:
  frequent events and slow branches do put rounds off, for ever if they go on.
* `links`: calls and handshakes that can go on do, and a read notices that the
  other side has closed the connection, but not that it was lost (weak
  fairness); `recv_any` is called again and again and does not cancel every call
  before it has read what is there (strong fairness). No host has to begin a
  handshake.
* `peer_directory`: the browser, the consumer and the pruner go on (weak
  fairness), and a deletion that is tried again and again succeeds at some time
  (strong fairness of `DeleteOld`).
* `ban_lifecycle`: the daemon starts again, the handler finishes, the timer of
  the ban check fires (weak fairness). The clock need not advance.
* `topology_routing`: the loop's branch for events is taken when it is ready
  (weak fairness). `LossesHandled` supposes that publishers pause at some
  time: a publisher that fills the bus between any two reads would leave the
  loop nothing but errors.
* `relay`: RPC calls return or time out (weak fairness of the steps of a call).

## 4. Proofs

`GossipProofs`, the filter (for every set of ids, capacity and false positives;
assumptions `CapacityAssumption`, `CollidingAssumption`):

* `FilterTypeCorrect`, `FilterRemembers`. That a window of ids is known is not
  inductive: one has to know where recent ids are. The strengthening `WindowsHoldRecent` says that the last
  `insert_count` accepted ids are in the current filter and the `Capacity`
  before them in the previous one; a rotation turns the first into the second.

`GossipProofs`, the queue (every capacity, batch size, set of message shapes and
scale of the urgency; assumptions `TierAssumption` and `QueueAssumption`):

* `QueueTypeCorrect`; `QueueConserves`: `Conservation`. No tier holds an
  envelope twice (`OnceEach`), and what was pushed is what the tiers hold, what
  was handed out and what was dropped, by an overflow or a panic (`Ledger`). `drain_batch` sorts a tier,
  hands out its front and writes the rest back; that the sort is a permutation
  is a lemma of its own (`ByUrgencySorts`, `TierPermuted`).
* `MostUrgentServed`: `MostUrgentFirst`. That a stable sort keeps equals in the
  order they came says nothing about later drains unless the tier itself
  still holds equals in that order, although each drain has rewritten it:
  `Fifo` is this invariant. A drain whose sort saw the clock move may swap
  what it had in its hands (`shuffled`) and nothing else.

`BanLifecycleProofs` (for every set of peers, all durations, thresholds and
bounds; assumption `BanAssumption`):

* `ExtensionIsBounded`: `ExtendedByWaitOnly`, by `WithinSentence`: every copy of
  an expiry time (row, loaded row, pending save) is within the longest ban
  issued to the peer, and the one in memory exceeds it by no more than its
  restore has waited. Since a restore writes no row, the waits of several
  restarts do not add up.
* `StrikeBansHold`: `BanHolds`, and `RowsAreEnforced`: `ActiveRowsEnforced`.
  Their common strengthening `Owed` follows a ban through its life: the ban a
  process owes is in memory *with that expiry time* (`DueInMemory`), so the ban
  check does not lift it; what the handler saves is owed already
  (`SavesWhatIsDue`); no copy ends later than a ban issued now
  (`WithinDuration`), so a second ban never moves an end back behind a row; an
  active row is owed by a running process and loaded by a starting one
  (`RowsAreDue`); and a process that is not up has neither task running
  (`QuietUntilUp`).

* `BansHaveCause`: `BannedForCause`, an action property. The tracker counts
  strikes, the property speaks of offences; `StrikesAreOffences` says that
  there is an injection from the strikes on record to the offences of the peer,
  at the same times (a mere subset of times would not do: two strikes may share
  one). `retain` composes it with the positions it keeps, a new failure
  extends it.
* `TypeCorrect`, which adds the tracker and the histories (`Tracked`) to the part
  of the types (`Types`) the other proofs use.

`TransportManagerProofs` (every set of peers, `max_peers`, channel capacity and
number of sends; assumption `TransportAssumption`):

* `TypeCorrect` and `CounterMirrorsTable`: `CountMirrors`. Every operator on the
  connection table keeps `TableOK` (the set of connections is finite and the
  counter its cardinality); one lemma each for inserting, removing, sending,
  falling back to BLE and registering a batch of inbound connections.
* `TransactionsAccounted`: `Accounted`, by `Balanced` and `NoRepeat`, which hold
  only because the message of a call in progress is on no record yet (`Fresh`).
* `WakeUpsArmed`: `WakeUpArmed`, and `AsleepIsSilent`: `SilentAsleep`. A flush
  runs awake (`CallOK`), and a call past its flush finds nothing queued, a
  closed window or a failed flush (`FlushedInWindow`).
* `OrderIsKept`: `NotOvertaken`, by `Ordered`: the queue is in order of arrival,
  and a message that is sent at once finds nothing queued.

`PeerDirectoryProofs` (every set of peers, messages and transactions, every age
limit, capacity, delay and width of the column; assumption
`DirectoryAssumption`):

* `TypeCorrect`; `DiskBansExplained`: `BannedOnDiskExplained`, by
  `LostIsBlamed` (whom a sweep has still to mark is blamed); `AcceptedReadsBack`:
  `ProofsReadBack`, by `StoredIsAccepted`; `PendingIsKept`: `PendingKept`, an
  action property that follows from the types.

`RelayNodeProofs` (every set of transactions, capacity of the cache, number of
attempts, calls and ledgers; assumption `RelayAssumption`):

* `TypeCorrect`; `ProofsAreTrue`: `ProvedIsApplied`. A proof is written two RPC
  calls after the submission it is about, so `CallOK` says what a call in
  progress has achieved.
* `NoNeedlessResubmission`: `ResubmittedForCause`, by `Remembered`: a
  successful submission is in the cache, in the call in progress or excused.

`TopologyRoutingProofs` (every finite set of peers, capacity of table and bus,
every bound on distances; assumption `TopologyAssumption`):

* `TypeCorrect`; `RoutesAreFresh`: `NoStaleRoutes`. Reading an event drops the
  routes to and through its peer; that these are all that waited for it needs
  `Condemned`: what is owed to a route condemns the one route cached for its
  destination.
* `AnnouncementsAreRight`: `ReachabilityAnnounced`.
* On the way, what `Keep` returns: positions by rank (`Ranks`,
  `KeepProperties`), by the induction over finite sets that is built into the
  cardinality theorems.
* `NearestAreSelected`: `NearestRelaysSelected`, of every graph and all
  distances within `TypeOK`, for a finite set of destinations and under the
  hypothesis `MaxDistance + Cardinality(Dests) <= UNREACHABLE`: hops along a
  path add up to less than 255. Beyond it the claim fails, since
  `rank_next_hops` adds the 255 of a lost relay like any other distance. The
  search and `Within` are recursive functions; that they have a solution
  (`Iterates`, `Searched`, `WithinIs`) and what it is follows by induction over
  the set of numbers for which it holds (`Induct`, from `Least`, from `Ranks`).
  The search ends after as many steps as there are nodes, for there is a step
  that meets nobody new (`SearchEnds`); what it meets at depth j is
  j hops away, and whatever is so near it meets (`SearchWithin`,
  `SearchFinds`), so below 255 `min_distance` is the least number of hops
  (`HopsToRelay`); and ranking sorts by it (`SortsByKey`, `RankedIs`).

`GossipTimingProofs` (all intervals and timeouts that `TimingAssumption` admits,
which asks of them little more than to be positive; branches of any length):

* `TypeCorrect`; `RoundsAreTimely`: `RoundGap`. It bounds the past; the invariant
  has to bound what is to come (`Schedule`: the time slept and what is left of
  the present sleep, or the sleep that follows the branch that runs). That a
  pass without a round does not add a sleep for ever needs `Aged`: the time
  slept is part of the age of the last round, which `is_time_for_round` looks at.

`GossipProofs`, the mesh (every set of nodes and ids, every topology, capacity,
threshold, fanout and TTL, losses or not; assumptions `MeshAssumption` and those
of the filter):

* Each action is taken apart once, into how it moves copies (`Moves`). The hop
  limit then follows from where a copy can come from.
* `TypeCorrect`; `LossesAreKnown`: `LossesKnown`. An account of each id a node has
  seen survives every step (`Tracked`): the node holds it, or is done with it
  for each of its peers. A duplicate is dropped on the word of the filter, so
  that one has to know that the node is done with whatever it has forwarded
  (`ForwardedDealt`); and a round that ended has an empty batch
  (`BatchInDispatch`). This is the safety part of the refinement that matters;
  that the mesh settles is liveness, and `Disseminates` is left to TLC.
* `HopsAreLimited`: `HopLimit` when `AntiEntropy = {}`, as in `gossip_push`.
  Hops taken and hops left together never exceed the TTL an envelope set out
  with (`Budget`), and only transactions are in flight (`Pushed`). With
  anti-entropy it is false (see the observations).
* `ForwardedOnce`: `ForwardOnce`, with anti-entropy too, when there are at most
  `Capacity` ids. `Counted` says that the filter still knows whatever was
  forwarded; with more ids than a window holds it may forget, and the code
  forwards again: `FilterRemembers` has the bound for that case.

`LinksProofs` (every frame size, longest message, set of lengths and of ids, capacity
of the inbox, number of sends and of reconnects; assumptions
`ChunkingAssumption` and `LinksAssumption`):

* `MessagesIntact`: `Intact`, and `MessagesInOrder`: `InOrder`, for plain
  connections and for those under a handshake, over Wi-Fi and over BLE. Neither
  is inductive. For the first, all frames under way to a side and all cells in
  its reassembler that agree on id and length come from one message
  (`Unmixed`); `clash` records when that ends. For the second, the frames in
  the stream and in the call that is still writing them are in the order of
  their messages and disjoint within one (`Ordered`), no cell of a frame under
  way has arrived before (`Missing`), and a message that was received has
  nothing left under way: this is how a buffer that the dialling side keeps
  over a reconnect does no harm (`Streamed`). Both need that nothing comes from a
  message that was not sent (`Bounded`).
* The actions are put into three classes by what they do to streams and
  buffers: less is left (`Quiet`), a message is put under way (`Sends`), a frame
  goes to the reassembler (`Receives`). The invariant is proved once for each
  class; per action it remains to show its class. On the way, what `Chunk` and
  `ReceiveChunk` compute (`Chunked`, `ChunkReceived`).
* `TypeCorrect`.

None of the theorems uses the bounds of TLC's instances: `MaxNow`, `MaxSends`,
`MaxCalls`, `MaxLedger`, `MaxServed`, `MaxMissed` and `HopCap` are arbitrary.

### Left to TLC

* Liveness under fairness, which the prover cannot handle (it has no `ENABLED`):
  `Disseminates` (for its `Spreads`), `PropagationEnds`, `BansAreLifted`,
  `CallsReturn`, `LossesHandled`, `SentIsReceived`, `HandshakeEnds`,
  `ResolvedIsListed`, `OldMessagesGo`, `RoundsRecur`.
* `SavedBanSurvives` is false, see `ban_remove_race`.

## 5. Observations

`ban_remove_race` shows one disagreement between documentation and code.
Modelling showed these too, which have no run of their own:

Gossip

* Anti-entropy offers only what is still in the active queue, and an envelope
  leaves it in its first round, whether its sends succeed or not. A gap is not
  repaired (`src/docs/gossip-protocol.md:53` says "repairing gaps").
* `queue.rs` drops the front of the Normal tier on overflow, which after a
  `drain_batch` is the most urgent envelope and not the oldest one.
* `urgency_score` reads the clock, and `sort_by_key` calls it at every comparison:
  a drain during which an envelope grows a minute older may come out in any
  order, and may panic; the Normal tier was drained before the sort and is lost.
* The origin of a duplicate is penalised although neighbours echo envelopes as
  a matter of course; an honest origin can be banned, and a round meanwhile
  skips it.
* Anti-entropy hands envelopes on without decrementing the TTL, and merges
  responses without looking at filter or TTL; pull and push can go round for ever.
* A second macro merge overwrites the backlog of the first.
* The peers of a round are resolved before its batch is drained: one that is
  banned in between still gets that batch.
* The sleep in the loop does not ask the power manager: a node that is idle and
  set to Active sleeps 5 s, one in deep sleep wakes every 5 s to do nothing.
* In the anti-entropy branch only `recv_any` has a time limit
  (`protocol.rs:386`). `send_to` (377), which may flush what is queued for
  others, and the locks have none: a connection that takes no bytes stops the
  whole loop. Branches that take longer than the interval of the timers less
  a sleep leave no time for rounds.

Transport

* Listeners compare `peer_count` with `max_peers` (`unified.rs:206`, "maximum
  number of simultaneously connected peers") when they accept; connections
  count when they are registered, which checks nothing (`unified.rs:469`).
* `send` of an empty or oversized message returns Ok and sends nothing. `send`
  of the BLE classes encodes its frames and drops them.
* A cancelled `recv` or `send` leaves the stream out of step for good;
  `PayloadTooLarge` leaves such a connection in the table, and `connect` on a
  broken stream whose state is still Connected returns Ok.
* A chunk that completes a BLE message while the inbox is full waits for room
  with the connection in its hands, so `recv` cannot make any: both wait for ever.
* Reads have neither a timeout nor a keepalive; a connection that is lost in
  silence is noticed by the next write at the earliest.
* Chunks of a BLE message that are repeated after it was assembled assemble it
  again: the message is delivered twice.
* The BLE listener registers a `BlePeripheral` that is Disconnected.
* No Noise handshake ever completes. The limit of two seconds
  (`encryption.rs:15`) is compared with the time between calls only: a side whose
  peer stays silent waits in `recv` for ever.
* `tick` raises GoToSleep once per sleep and every caller drops it
  (`unified.rs` 337, 343, 351, 363, 395): no neighbour is told of a sleep.
  `set_state` does not touch `sleep_flag_emitted` and the pending wake-up, so a
  wake-up can come for a transaction sent long ago. `should_advertise_ble` uses
  the time of the last tick.
* Nothing calls `power_tick` periodically. What is queued waits for a call that
  falls into a wake window; anti-entropy, every 30 s from the start, has a fixed
  place in the wake interval of 5 s and can miss the window each time.
* `power_tick_at` stops at the first queued transaction whose send fails, after
  `tick` has cleared the wake-up: those behind it wait until another
  transaction arms a new one, and are overtaken meanwhile (`aborted` in
  `TransportManager`).

Topology, discovery and storage

* `mark_peer_offline` sets `is_banned`: an honest peer that was pruned comes back
  from the database as banned, even one that returned and was saved before the
  pruner got to marking it.
* The daemon never refreshes the contact time of a peer that mDNS resolves
  again, and `ServiceRemoved` is ignored; `MdnsAdvertiser::stop` unregisters the
  instance by its short name.
* `topology_edges` is written and never read.
* A peer whose relay was lost (255 hops) is ranked before one of which nothing
  is known.
* A route whose loss event was overwritten stays cached: the loop turns the
  error of a lagged subscriber into no event. `PeerPruned` invalidates nothing,
  the `StatePruner` prunes without a bus, and pruning leaves distances in the
  `HopCounter`. `run_gossip_loop` says that the next round re-computes paths;
  rounds do not consult the routing table.
* `apply_update` computes the growth of the mesh as a quotient minus one: from
  five nodes to six it is just below 0.20, and `MeshSizeChanged` is not sent.
* A relay remembers a submission only after both ledger queries: when one fails,
  the next copy is submitted again
  (`src/tests/integration/double_spend_simulation_test.rs:196` says "exactly
  ONCE"; `ResubmittedForCause` says when).
* `relay/rpc_client.rs` 94-137 is what a merge has left over of another client.
* Nothing calls `record_activity`: 30 s after its start the scheduler is idle
  for good, whatever is flowing (`src/docs/gossip-protocol.md` says otherwise).
* Pruning of stale peers forgets bans (`forgotten` in `BanLifecycle`).
* A restored ban ends later than the one that was issued, by the time between
  the two readings of the clock in a restore (`peer_ban.rs:48`,
  `peer_node.rs:37`), which includes the wait for the peer list.
* The daemon starts its listener before it restores bans, `src/pull.md` says the
  opposite; a row that has expired at a restart is never removed.

## 6. Not modelled, and the plan

Not modelled: radio and mDNS I/O, serialization and the parsing of records,
signatures and what lies beyond the failing Noise handshake (cryptography),
the rate limiter (a counter nobody calls), metrics (written, never read back),
the C interface, the table `topology_edges` (never read), the BLE duty cycle and
the choice of MAC addresses (nothing in the library acts on them).

Next: a composition of `GossipMesh` and `BanLifecycle` in which a peer is banned
while a round is sending to it.
