--------------------------- MODULE PeerDirectory ---------------------------
(***************************************************************************)
(* Where a node keeps what it knows of others, and for how long: PeerList  *)
(* (discovery/peer_list.rs) with the scanners that fill it                 *)
(* (discovery/ble.rs, wifi_direct.rs, mdns.rs and the daemon), the tables  *)
(* of MeshDatabase (persistence/db.rs), and the StatePruner                *)
(* (topology/health.rs), which works on both.                              *)
(*                                                                         *)
(* Time is told by ages, in ticks, each up to the point where it makes no  *)
(* more difference.  Bans of the list are those of module BanLifecycle;    *)
(* here a row of the table peers has its own flag is_banned.               *)
(*                                                                         *)
(* Only the pruner calls the tables in this repository.  The other calls   *)
(* are the host's, which may make them at any time.                        *)
(***************************************************************************)
EXTENDS Integers, Sequences

CONSTANTS Peers, Messages, Transactions,
          expiry_seconds,   \* PeerList: ticks until a peer is stale
          MSG_MAX_AGE,      \* StatePruner: ticks until a message is too old
          ChannelCapacity,  \* of the channel of discovered peers
          Sequences64,      \* u64 values of RelayChainProof.sequence
          I64_MAX,          \* the largest of them that fits an i64
          SavedAges,        \* ages of messages when they are saved
          MaxDelay          \* bound on the ticks while messages are deleted

ASSUME DirectoryAssumption ==
  /\ expiry_seconds \in Nat /\ MSG_MAX_AGE \in Nat
  /\ ChannelCapacity \in Nat \ {0} /\ MaxDelay \in Nat
  /\ I64_MAX \in Nat /\ Sequences64 \subseteq 0..(2 * I64_MAX + 1)
  /\ SavedAges \subseteq -1..(MSG_MAX_AGE + 1)

None == "none"
Nobody == "nobody"

StalePeer == expiry_seconds + 1
OldestMessage == MSG_MAX_AGE + MaxDelay + 1

Absent == StalePeer + 1      \* no peer has this age
Gone == OldestMessage + 1    \* no message has this age

VARIABLES uses,     \* the table that the host uses; they have nothing in common
          up,       \* is the process running?
          seen,     \* PeerList: the age of last_seen_unix_sec
          browsing, \* does the browse loop run?
          held,     \* the peer that the browse loop is sending on
          channel,  \* discovered_peers
          stage,    \* of the pruner
          lost,     \* the peers it has still to mark
          cutoff,   \* the age beyond which it deletes messages
          rows,     \* peers: None, "clear" or "banned" as saved, "marked"
          pending,  \* pending_messages: the age of timestamp_sec
          proofs,   \* relay_proofs: the stored sequence, if there is one
          blame,    \* history: peers pruned and not saved afterwards
          accepted  \* history: the sequence last accepted, if there is one

memory == <<seen, browsing, held, channel, stage, lost, cutoff>>
tables == <<rows, pending, proofs>>
vars == <<uses, up, memory, tables, blame, accepted>>

Init ==
  /\ uses \in {"peers", "pending_messages", "relay_proofs"}
  /\ up = TRUE
  /\ seen = [p \in Peers |-> Absent]
  /\ browsing = TRUE /\ held = Nobody /\ channel = <<>>
  /\ stage = "sleeping" /\ lost = {} /\ cutoff = MSG_MAX_AGE
  /\ rows = [p \in Peers |-> None]
  /\ pending = [m \in Messages |-> Gone]
  /\ proofs = [t \in Transactions |-> {}]
  /\ blame = {} /\ accepted = [t \in Transactions |-> {}]

Listed(p) == seen[p] # Absent

Older(age, none, oldest) == IF age \in {none, oldest} THEN age ELSE age + 1

Tick ==
  /\ stage = "deleting" => cutoff < MSG_MAX_AGE + MaxDelay
  /\ seen' = [p \in Peers |-> Older(seen[p], Absent, StalePeer)]
  /\ pending' = [m \in Messages |-> Older(pending[m], Gone, OldestMessage)]
  /\ cutoff' = IF stage = "deleting" THEN cutoff + 1 ELSE cutoff
  /\ UNCHANGED <<uses, up, browsing, held, channel, stage, lost, rows, proofs, blame, accepted>>
-----------------------------------------------------------------------------
(* Discovery *)

\* PeerList::insert_or_update
InsertOrUpdate(p) == seen' = [seen EXCEPT ![p] = 0]

\* BleScanner::handle_advertisement of a payload that decodes.
HandleAdvertisement(p) ==
  /\ up /\ InsertOrUpdate(p)
  /\ UNCHANGED <<uses, up, browsing, held, channel, stage, lost, cutoff, tables, blame, accepted>>

\* MdnsScanner::handle_service_resolved of a record that parses.
HandleServiceResolved(p) ==
  /\ up /\ InsertOrUpdate(p)
  /\ UNCHANGED <<uses, up, browsing, held, channel, stage, lost, cutoff, tables, blame, accepted>>

\* browse_event_loop takes a service that is resolved and parses ...
ServiceResolved(p) ==
  /\ up /\ browsing /\ held = Nobody
  /\ held' = p
  /\ UNCHANGED <<uses, up, seen, browsing, channel, stage, lost, cutoff, tables, blame, accepted>>

\* Faulty variant of SendDiscovered: try_send, which gives up.
TrySendDiscovered ==
  /\ up /\ held # Nobody
  /\ channel' = IF Len(channel) < ChannelCapacity THEN Append(channel, held) ELSE channel
  /\ held' = Nobody
  /\ UNCHANGED <<uses, up, seen, browsing, stage, lost, cutoff, tables, blame, accepted>>

\* ... and sends it, once there is room in the channel.
SendDiscovered ==
  /\ up /\ held # Nobody /\ Len(channel) < ChannelCapacity
  /\ channel' = Append(channel, held)
  /\ held' = Nobody
  /\ UNCHANGED <<uses, up, seen, browsing, stage, lost, cutoff, tables, blame, accepted>>

\* SearchStopped, or the daemon of mdns_sd has shut down: the loop ends.
SearchStopped ==
  /\ up /\ browsing /\ held = Nobody
  /\ browsing' = FALSE
  /\ UNCHANGED <<uses, up, seen, held, channel, stage, lost, cutoff, tables, blame, accepted>>

\* The task of the daemon: a peer that is not listed is inserted; one that is
\* listed is left as it is, its time of last contact too.
ConsumeDiscovered ==
  /\ up /\ channel # <<>>
  /\ channel' = Tail(channel)
  /\ IF Listed(Head(channel)) THEN UNCHANGED seen ELSE InsertOrUpdate(Head(channel))
  /\ UNCHANGED <<uses, up, browsing, held, stage, lost, cutoff, tables, blame, accepted>>
-----------------------------------------------------------------------------
(* Pruning *)

Stale == {p \in Peers : seen[p] = StalePeer}

\* PeerList::prune_stale_peers
PruneStalePeers == seen' = [p \in Peers |-> IF p \in Stale THEN Absent ELSE seen[p]]

\* background_pruning_loop
BackgroundPruning ==
  /\ up /\ Stale # {} /\ PruneStalePeers
  /\ UNCHANGED <<uses, up, browsing, held, channel, stage, lost, cutoff, tables, blame, accepted>>

\* StatePruner wakes up.  prune_peers holds the lock on the list for this
\* step only.
PrunePeers ==
  /\ up /\ stage = "sleeping"
  /\ PruneStalePeers
  /\ lost' = Stale /\ blame' = blame \cup Stale
  /\ stage' = "marking"
  /\ UNCHANGED <<uses, up, browsing, held, channel, cutoff, tables, accepted>>

\* Faulty variant of MarkPeerOffline: the statement has no WHERE.
MarkAllOffline(p) ==
  /\ up /\ stage = "marking" /\ p \in lost
  /\ lost' = lost \ {p}
  /\ rows' = [q \in Peers |-> IF rows[q] = None THEN None ELSE "marked"]
  /\ UNCHANGED <<uses, up, seen, browsing, held, channel, stage, cutoff, pending, proofs, blame, accepted>>

\* Faulty variant of MarkPeerOffline: a failure ends the sweep.
MarkPeerOfflineOrStop(p) ==
  /\ up /\ stage = "marking" /\ p \in lost
  /\ \/ /\ lost' = lost \ {p}
        /\ rows' = [rows EXCEPT ![p] = IF @ = None THEN None ELSE "marked"]
        /\ UNCHANGED stage
     \/ lost' = {} /\ stage' = "sleeping" /\ UNCHANGED rows
  /\ UNCHANGED <<uses, up, seen, browsing, held, channel, cutoff, pending, proofs, blame, accepted>>

\* mark_peer_offline, which sets is_banned; a failure is ignored.
MarkPeerOffline(p) ==
  /\ up /\ stage = "marking" /\ p \in lost
  /\ lost' = lost \ {p}
  /\ \/ rows' = [rows EXCEPT ![p] = IF @ = None THEN None ELSE "marked"]
     \/ UNCHANGED rows
  /\ UNCHANGED <<uses, up, seen, browsing, held, channel, stage, cutoff, pending, proofs, blame, accepted>>

\* prune_graph_edges, which is part of TopologyRouting, and the first part of
\* prune_pending_messages.
ReadCutoff ==
  /\ up /\ stage = "marking" /\ lost = {}
  /\ cutoff' = MSG_MAX_AGE
  /\ stage' = "deleting"
  /\ UNCHANGED <<uses, up, seen, browsing, held, channel, lost, tables, blame, accepted>>

\* Faulty variant of DeleteOld: a message of exactly that age goes too.
DeleteOldAndEqual ==
  /\ up /\ stage = "deleting"
  /\ pending' = [m \in Messages |-> IF pending[m] >= cutoff THEN Gone ELSE pending[m]]
  /\ stage' = "sleeping"
  /\ UNCHANGED <<uses, up, seen, browsing, held, channel, lost, cutoff, rows, proofs, blame, accepted>>

\* delete_messages_older_than; the pruner sleeps again.
DeleteOld ==
  /\ up /\ stage = "deleting"
  /\ pending' = [m \in Messages |-> IF pending[m] > cutoff THEN Gone ELSE pending[m]]
  /\ stage' = "sleeping"
  /\ UNCHANGED <<uses, up, seen, browsing, held, channel, lost, cutoff, rows, proofs, blame, accepted>>

\* The deletion fails; unwrap_or ignores that.
DeleteFails ==
  /\ up /\ stage = "deleting"
  /\ stage' = "sleeping"
  /\ UNCHANGED <<uses, up, seen, browsing, held, channel, lost, cutoff, tables, blame, accepted>>
-----------------------------------------------------------------------------
(* The host and the tables *)

\* save_peer
SavePeer(p, is_banned) ==
  /\ up
  /\ rows' = [rows EXCEPT ![p] = IF is_banned THEN "banned" ELSE "clear"]
  /\ blame' = IF p \in lost THEN blame ELSE blame \ {p}
  /\ UNCHANGED <<uses, up, memory, pending, proofs, accepted>>

\* load_all_peers: the peers it returns, and those of them with is_banned.
LoadAllPeers == {p \in Peers : rows[p] # None}
LoadedBanned == {p \in LoadAllPeers : rows[p] \in {"banned", "marked"}}

\* save_envelope.  A message that is there already is left as it is.
SaveEnvelope(m, age) ==
  /\ up /\ pending[m] = Gone
  /\ pending' = [pending EXCEPT ![m] = age]
  /\ UNCHANGED <<uses, up, memory, rows, proofs, blame, accepted>>

\* load_pending_envelopes
LoadPendingEnvelopes == {m \in Messages : pending[m] # Gone}

\* delete_envelope
DeleteEnvelope(m) ==
  /\ up /\ pending[m] # Gone
  /\ pending' = [pending EXCEPT ![m] = Gone]
  /\ UNCHANGED <<uses, up, memory, rows, proofs, blame, accepted>>

\* `sequence as i64`: two's complement.
AsI64(n) == IF n <= I64_MAX THEN n ELSE n - 2 * (I64_MAX + 1)

\* Faulty variant of SaveRelayProof: a cast instead of i64::try_from.
SaveRelayProofCast(t, sequence) ==
  /\ up
  /\ proofs' = [proofs EXCEPT ![t] = {AsI64(sequence)}]
  /\ accepted' = [accepted EXCEPT ![t] = {sequence}]
  /\ UNCHANGED <<uses, up, memory, rows, pending, blame>>

\* save_relay_proof, of a sequence that it does not refuse.
SaveRelayProof(t, sequence) ==
  /\ up /\ sequence <= I64_MAX
  /\ proofs' = [proofs EXCEPT ![t] = {sequence}]
  /\ accepted' = [accepted EXCEPT ![t] = {sequence}]
  /\ UNCHANGED <<uses, up, memory, rows, pending, blame>>

\* get_relay_proof: the proof; nothing if there is none, or if the sequence is
\* negative and cannot be read.
GetRelayProof(t) == {n \in proofs[t] : n >= 0}

\* The process ends, at whatever point it is.
Crash ==
  /\ up
  /\ up' = FALSE
  /\ seen' = [p \in Peers |-> Absent]
  /\ browsing' = FALSE /\ held' = Nobody /\ channel' = <<>>
  /\ stage' = "sleeping" /\ lost' = {} /\ cutoff' = MSG_MAX_AGE
  /\ UNCHANGED <<uses, tables, blame, accepted>>

\* MeshDatabase::init, which keeps the tables that exist, PeerList::new,
\* MdnsScanner::start and MdnsDiscovery::browse.
Start ==
  /\ ~up
  /\ up' = TRUE
  /\ browsing' = TRUE
  /\ UNCHANGED <<uses, seen, held, channel, stage, lost, cutoff, tables, blame, accepted>>
-----------------------------------------------------------------------------
Discovery ==
  \/ \E p \in Peers : HandleAdvertisement(p) \/ HandleServiceResolved(p) \/ ServiceResolved(p)
  \/ SendDiscovered \/ ConsumeDiscovered \/ SearchStopped

Sweep ==
  \/ PrunePeers
  \/ \E p \in Peers : MarkPeerOffline(p)
  \/ ReadCutoff \/ DeleteOld \/ DeleteFails

Host ==
  \/ /\ uses = "peers"
     /\ \E p \in Peers, b \in BOOLEAN : SavePeer(p, b)
  \/ /\ uses = "pending_messages"
     /\ \E m \in Messages : DeleteEnvelope(m) \/ \E age \in SavedAges : SaveEnvelope(m, age)
  \/ /\ uses = "relay_proofs"
     /\ \E t \in Transactions, n \in Sequences64 : SaveRelayProof(t, n)
  \/ Crash \/ Start

Next == Tick \/ Discovery \/ BackgroundPruning \/ Sweep \/ Host

Spec == Init /\ [][Next]_vars

\* The runtime goes on with the tasks, the pruner's sleep ends, and the
\* database does not always fail.
FairSpec ==
  /\ Spec
  /\ WF_vars(SendDiscovered) /\ WF_vars(ConsumeDiscovered)
  /\ WF_vars(Sweep) /\ SF_vars(DeleteOld)
-----------------------------------------------------------------------------
TypeOK ==
  /\ uses \in {"peers", "pending_messages", "relay_proofs"}
  /\ up \in BOOLEAN
  /\ seen \in [Peers -> 0..StalePeer \cup {Absent}]
  /\ browsing \in BOOLEAN
  /\ held \in Peers \cup {Nobody}
  /\ channel \in Seq(Peers) /\ Len(channel) <= ChannelCapacity
  /\ stage \in {"sleeping", "marking", "deleting"}
  /\ lost \subseteq Peers /\ (lost # {} => stage = "marking")
  /\ cutoff \in MSG_MAX_AGE..(MSG_MAX_AGE + MaxDelay)
  /\ rows \in [Peers -> {None, "clear", "banned", "marked"}]
  /\ pending \in [Messages -> -1..OldestMessage \cup {Gone}]
  /\ blame \subseteq Peers

\* A peer that load_all_peers returns as banned was saved as banned, or it
\* went stale and a sweep took it off the list that had not finished when the
\* peer was last saved.  Nobody else is banned on the way, although the pruner
\* marks peers without the lock on the list, while they come back and are
\* saved again, and although the process may end in between.
BannedOnDiskExplained == \A p \in LoadedBanned : rows[p] = "banned" \/ p \in blame

\* A message leaves pending_messages only when the host deletes it or when it
\* is too old, even if time passes between the reading of the clock and the
\* deletion, and across restarts.
PendingKept ==
  [][\A m \in Messages :
       m \in LoadPendingEnvelopes /\ m \notin LoadPendingEnvelopes' =>
         DeleteEnvelope(m) \/ pending[m] > MSG_MAX_AGE]_vars

\* A relay proof that was accepted reads back as it was, until it is replaced,
\* after any number of restarts.
ProofsReadBack == \A t \in Transactions : GetRelayProof(t) = accepted[t]

\* A peer that the browse loop resolved gets on the list, also when the
\* channel is full or when pruning takes the peer off meanwhile, unless the
\* process ends.
ResolvedIsListed == \A p \in Peers : held = p ~> Listed(p) \/ ~up

\* Messages that are too old do not stay: again and again there is none, as
\* long as the process runs.
OldMessagesGo == []<>(~up \/ \A m \in LoadPendingEnvelopes : pending[m] <= MSG_MAX_AGE)
=============================================================================
