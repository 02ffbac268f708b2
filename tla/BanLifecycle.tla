---------------------------- MODULE BanLifecycle ----------------------------
(***************************************************************************)
(* How a peer is banned, how the ban is persisted, lifted and restored:    *)
(* process_transaction_envelope and the ban check of the gossip loop       *)
(* (src/gossip/protocol.rs), ban_and_persist and restore_bans_from_db      *)
(* (src/security/peer_ban.rs), the PeerList, the strike tracker, the       *)
(* banned_peers table and the start of the daemon.                         *)
(*                                                                         *)
(* The handler of incoming envelopes and the gossip loop are two tasks     *)
(* that share the peer list and the database; each is split where it       *)
(* releases the lock or awaits the database.  The loop owns a strike       *)
(* tracker of its own, in which nothing is ever recorded: clearing it      *)
(* changes nothing, and strikes is the tracker of the handler.             *)
(***************************************************************************)
EXTENDS Naturals, Sequences, FiniteSets, Positions

CONSTANTS Peers,
          Nobody,             \* not a peer
          max_strikes, window_duration,   \* of the StrikeTracker
          BAN_DURATION_SEC,
          expiry_seconds,     \* of the PeerList
          MaxReputation,      \* 100
          SignaturePenalty, DuplicatePenalty, RouteReward,
          DbMayFail,          \* may a statement on the database fail?
          MaxNow,             \* bound on the clock
          MaxCrashes,         \* bound on the number of crashes
          MaxOffences         \* bound on the invalid signatures since the last valid one

ASSUME BanAssumption ==
  /\ Nobody \notin Peers
  /\ max_strikes \in Nat /\ window_duration \in Nat
  /\ BAN_DURATION_SEC \in Nat \ {0} /\ expiry_seconds \in Nat
  /\ MaxReputation \in Nat \ {0}
  /\ SignaturePenalty \in Nat /\ DuplicatePenalty \in Nat /\ RouteReward \in Nat
  /\ DbMayFail \in BOOLEAN
  /\ MaxNow \in Nat \ {0} /\ MaxCrashes \in Nat /\ MaxOffences \in Nat

VARIABLES now,        \* SystemTime::now, in seconds; Instant::now runs along
          phase,      \* how far the daemon has started
          peers,      \* the PeerList
          strikes,    \* failures of the StrikeTracker
          handler,    \* process_transaction_envelope: what it is about to do
          lifting,    \* ban check: the peers whose row is yet to be removed
          loading,    \* restore_bans_from_db: the bans it has loaded
          clock,      \* ... and its now, read before it waits for the list
          db,         \* banned_peers: expires_at of each row, 0 without a row
          crashes,
          due,        \* history: until when this process owes the peer a ban
          forgotten,  \* history: the peers pruned in the middle of a ban, and not banned since
          sentence,   \* history: the latest end of a ban issued so far
          waited,     \* history: how old clock was when the ban of a peer was restored
          stored,     \* history: expires_at of the latest ban that was saved
          offences    \* history: times of the invalid signatures since the last valid one

vars == <<now, phase, peers, strikes, handler, lifting, loading, clock, db,
          crashes, due, forgotten, sentence, waited, stored, offences>>

Unknown == [known |-> FALSE, reputation |-> 0, banned |-> FALSE, expires |-> 0, lastSeen |-> 0]

Idle == [stage |-> "idle", peer |-> Nobody, expires |-> 0]

AtLeast(a, b) == IF a > b THEN a ELSE b

Minus(a, b) == IF a > b THEN a - b ELSE 0
-----------------------------------------------------------------------------
(* Operations of Peer, PeerList and StrikeTracker. *)

\* Faulty variant of InsertOrUpdate: an update starts from a new Peer.
InsertAfresh(peer) ==
  [known |-> TRUE, reputation |-> MaxReputation, banned |-> FALSE, expires |-> 0, lastSeen |-> now]

\* PeerList::insert_or_update on the peer's entry
InsertOrUpdate(peer) ==
  IF peer.known
  THEN [peer EXCEPT !.lastSeen = now]
  ELSE [known |-> TRUE, reputation |-> MaxReputation, banned |-> FALSE, expires |-> 0, lastSeen |-> now]

\* get_peer(..).is_none() => insert_or_update
EnsureKnown(peer) == IF peer.known THEN peer ELSE InsertOrUpdate(peer)

\* Peer::ban, up to a given time
BanUntil(peer, expires) == [peer EXCEPT !.banned = TRUE, !.expires = expires]

\* Faulty variant of Expired: the comparison is turned round.
ExpiredTooSoon(peer) == peer.banned /\ now <= peer.expires

\* Faulty variant of Expired: only strike bans, which have an expiry time, end.
ExpiredStrikeBan(peer) == peer.banned /\ peer.expires > 0 /\ now >= peer.expires

\* Peer::check_ban_expiration: does it lift the ban?
Expired(peer) == peer.banned /\ now >= peer.expires

Lifted(peer) == [peer EXCEPT !.banned = FALSE, !.expires = 0]

\* apply_penalty: a ban at reputation zero, without an expiry time.
ApplyPenalty(peer, points) ==
  [peer EXCEPT !.reputation = Minus(@, points),
               !.banned = @ \/ Minus(peer.reputation, points) = 0]

\* apply_reward
ApplyReward(peer, points) ==
  [peer EXCEPT !.reputation = IF @ + points > MaxReputation THEN MaxReputation ELSE @ + points]

Stale(peer) == peer.known /\ Minus(now, peer.lastSeen) > expiry_seconds

\* Faulty variant of RecordFailure: old failures are kept.
RecordWithoutWindow(failures) == Append(failures, now)

\* StrikeTracker::record_failure: the failures of a peer after it.
RecordFailure(failures) ==
  LET recent == {i \in DOMAIN failures : now - failures[i] <= window_duration}
  IN  Append(Keep(failures, recent), now)
-----------------------------------------------------------------------------
Init ==
  /\ now = 1
  /\ phase = "down"
  /\ peers = [p \in Peers |-> Unknown]
  /\ strikes = [p \in Peers |-> <<>>]
  /\ handler = Idle
  /\ lifting = {}
  /\ loading = [p \in Peers |-> 0]
  /\ clock = 0
  /\ db = [p \in Peers |-> 0]
  /\ crashes = 0
  /\ due = [p \in Peers |-> 0]
  /\ forgotten = {}
  /\ sentence = [p \in Peers |-> 0]
  /\ waited = [p \in Peers |-> 0]
  /\ stored = [p \in Peers |-> 0]
  /\ offences = [p \in Peers |-> <<>>]

history == <<due, forgotten, sentence, waited, stored, offences>>

Tick ==
  /\ now < MaxNow
  /\ now' = now + 1
  /\ UNCHANGED <<phase, peers, strikes, handler, lifting, loading, clock, db, crashes, history>>

\* main, up to start_wifi_listener and the task that registers connections.
StartListener ==
  /\ phase = "down"
  /\ phase' = "listening"
  /\ UNCHANGED <<now, peers, strikes, handler, lifting, loading, clock, db, crashes, history>>

\* restore_bans_from_db: load_active_bans.  A failure ends the daemon.
LoadActiveBans ==
  /\ phase = "listening"
  /\ phase' = "restoring"
  /\ loading' = [p \in Peers |-> IF db[p] > now THEN db[p] ELSE 0]
  /\ UNCHANGED <<now, peers, strikes, handler, lifting, clock, db, crashes, history>>

\* ... its clock reading, after which it waits for the lock of the list.
ReadClock ==
  /\ phase = "restoring"
  /\ phase' = "applying"
  /\ clock' = now
  /\ UNCHANGED <<now, peers, strikes, handler, lifting, loading, db, crashes, history>>

\* Faulty variant of RestoredUntil: the full duration starts again.
RestoredAfresh(expires) == now + BAN_DURATION_SEC

\* ban_peer for remaining_secs: the rest at the clock reading, from now on.
RestoredUntil(expires) == now + (expires - clock)

\* ... the next ban that was active at that reading enters the PeerList.
RestoreBan(p) ==
  LET until == RestoredUntil(loading[p])
  IN  /\ phase = "applying"
      /\ loading[p] > clock
      /\ peers' = [peers EXCEPT ![p] = BanUntil(EnsureKnown(@), until)]
      /\ loading' = [loading EXCEPT ![p] = 0]
      /\ due' = [due EXCEPT ![p] = until]
      /\ waited' = [waited EXCEPT ![p] = now - clock]
      /\ UNCHANGED <<now, phase, strikes, handler, lifting, clock, db, crashes,
                     forgotten, sentence, stored, offences>>

\* ... and it returns.
RestoreEnds ==
  /\ phase = "applying"
  /\ \A p \in Peers : loading[p] <= clock
  /\ phase' = "up"
  /\ loading' = [p \in Peers |-> 0]
  /\ UNCHANGED <<now, peers, strikes, handler, lifting, clock, db, crashes, history>>

\* Only the database outlives the process.
Crash ==
  /\ phase # "down"
  /\ crashes < MaxCrashes
  /\ crashes' = crashes + 1
  /\ phase' = "down"
  /\ peers' = [p \in Peers |-> Unknown]
  /\ strikes' = [p \in Peers |-> <<>>]
  /\ handler' = Idle
  /\ lifting' = {}
  /\ loading' = [p \in Peers |-> 0]
  /\ clock' = 0
  /\ waited' = [p \in Peers |-> 0]
  /\ due' = [p \in Peers |-> 0]
  /\ forgotten' = {}
  /\ offences' = [p \in Peers |-> <<>>]
  /\ UNCHANGED <<now, db, sentence, stored>>

\* A peer is discovered or heard of again (BLE, Wi-Fi Direct: insert_or_update;
\* mDNS: only when it is not known).
Observe(p) ==
  /\ phase = "up"
  /\ \/ peers' = [peers EXCEPT ![p] = InsertOrUpdate(@)]
     \/ peers' = [peers EXCEPT ![p] = EnsureKnown(@)]
  /\ UNCHANGED <<now, phase, strikes, handler, lifting, loading, clock, db, crashes, history>>

\* background_pruning_loop, StatePruner::prune_peers
PruneStalePeers ==
  /\ phase = "up"
  /\ \E p \in Peers : Stale(peers[p])
  /\ peers' = [p \in Peers |-> IF Stale(peers[p]) THEN Unknown ELSE peers[p]]
  /\ forgotten' = forgotten \cup {p \in Peers : Stale(peers[p]) /\ peers[p].banned}
  /\ UNCHANGED <<now, phase, strikes, handler, lifting, loading, clock, db, crashes,
                 due, sentence, waited, stored, offences>>

\* The penalty that ends a fanout round, for one of its duplicates.
PenaliseDuplicate(p) ==
  /\ phase = "up" /\ lifting = {}
  /\ peers[p].known
  /\ peers' = [peers EXCEPT ![p] = ApplyPenalty(@, DuplicatePenalty)]
  /\ UNCHANGED <<now, phase, strikes, handler, lifting, loading, clock, db, crashes, history>>

\* The relay rewards the origin of an envelope it has submitted.
Reward(p) ==
  /\ phase = "up"
  /\ peers[p].known
  /\ peers' = [peers EXCEPT ![p] = ApplyReward(@, RouteReward)]
  /\ UNCHANGED <<now, phase, strikes, handler, lifting, loading, clock, db, crashes, history>>

\* process_transaction_envelope, hops left and a valid signature.
AcceptSignature(p) ==
  /\ phase = "up" /\ handler.stage = "idle"
  /\ strikes' = [strikes EXCEPT ![p] = <<>>]
  /\ offences' = [offences EXCEPT ![p] = <<>>]
  /\ UNCHANGED <<now, phase, peers, handler, lifting, loading, clock, db, crashes,
                 due, forgotten, sentence, waited, stored>>

\* ... an invalid one: the penalty, the strike, and for one strike too many
\* the entry of ban_and_persist, which computes expires_at.
RejectSignature(p) ==
  /\ phase = "up" /\ handler.stage = "idle"
  /\ Len(offences[p]) < MaxOffences
  /\ peers' = IF peers[p].known
              THEN [peers EXCEPT ![p] = ApplyPenalty(@, SignaturePenalty)] ELSE peers
  /\ strikes' = [strikes EXCEPT ![p] = RecordFailure(@)]
  /\ offences' = [offences EXCEPT ![p] = Append(@, now)]
  /\ \/ /\ Len(strikes'[p]) > max_strikes
        /\ handler' = [stage |-> "ban", peer |-> p, expires |-> now + BAN_DURATION_SEC]
     \/ /\ ~(Len(strikes'[p]) > max_strikes)
        /\ UNCHANGED handler
  /\ UNCHANGED <<now, phase, lifting, loading, clock, db, crashes, due, forgotten, sentence, waited, stored>>

\* ban_and_persist: the ban in memory, under the lock.
BanInMemory ==
  LET p == handler.peer
      until == now + BAN_DURATION_SEC
  IN  /\ handler.stage = "ban"
      /\ peers' = [peers EXCEPT ![p] = BanUntil(EnsureKnown(@), until)]
      /\ handler' = [handler EXCEPT !.stage = "save"]
      /\ due' = [due EXCEPT ![p] = until]
      /\ forgotten' = forgotten \ {p}
      /\ sentence' = [sentence EXCEPT ![p] = AtLeast(@, until)]
      /\ waited' = [waited EXCEPT ![p] = 0]
      /\ UNCHANGED <<now, phase, strikes, lifting, loading, clock, db, crashes, stored, offences>>

\* ... and its row.  A failure is only logged.  Then the peer is disconnected.
SaveBan ==
  /\ handler.stage = "save"
  /\ handler' = Idle
  /\ \/ /\ db' = [db EXCEPT ![handler.peer] = handler.expires]
        /\ stored' = [stored EXCEPT ![handler.peer] = handler.expires]
     \/ /\ DbMayFail
        /\ UNCHANGED <<db, stored>>
  /\ UNCHANGED <<now, phase, peers, strikes, lifting, loading, clock, crashes,
                 due, forgotten, sentence, waited, offences>>

\* The ban check timer of the gossip loop: check_ban_expirations, under the lock.
CheckBanExpirations ==
  /\ phase = "up" /\ lifting = {}
  /\ \E p \in Peers : Expired(peers[p])
  /\ lifting' = {p \in Peers : Expired(peers[p])}
  /\ peers' = [p \in Peers |-> IF Expired(peers[p]) THEN Lifted(peers[p]) ELSE peers[p]]
  /\ UNCHANGED <<now, phase, strikes, handler, loading, clock, db, crashes, history>>

\* ... then remove_ban for each of them, without the lock.  A failure is only
\* logged.
RemoveBan(p) ==
  /\ p \in lifting
  /\ lifting' = lifting \ {p}
  /\ \/ db' = [db EXCEPT ![p] = 0]
     \/ DbMayFail /\ UNCHANGED db
  /\ UNCHANGED <<now, phase, peers, strikes, handler, loading, clock, crashes, history>>

Next ==
  \/ Tick
  \/ StartListener \/ LoadActiveBans \/ ReadClock \/ RestoreEnds
  \/ Crash
  \/ PruneStalePeers
  \/ BanInMemory \/ SaveBan
  \/ CheckBanExpirations
  \/ \E p \in Peers :
       \/ RestoreBan(p)
       \/ Observe(p)
       \/ PenaliseDuplicate(p)
       \/ Reward(p)
       \/ AcceptSignature(p)
       \/ RejectSignature(p)
       \/ RemoveBan(p)

Spec == Init /\ [][Next]_vars

\* Tasks go on: the daemon starts again, the handler ends what it began, the
\* timer of the ban check keeps firing and its removals are carried out.
Fairness ==
  /\ WF_vars(StartListener) /\ WF_vars(LoadActiveBans)
  /\ WF_vars(ReadClock) /\ WF_vars(RestoreEnds) /\ \A p \in Peers : WF_vars(RestoreBan(p))
  /\ WF_vars(BanInMemory) /\ WF_vars(SaveBan)
  /\ WF_vars(CheckBanExpirations)
  /\ \A p \in Peers : WF_vars(RemoveBan(p))

FairSpec == Spec /\ Fairness
-----------------------------------------------------------------------------
Times == Nat

PeerRecords ==
  [known : BOOLEAN, reputation : 0..MaxReputation, banned : BOOLEAN, expires : Times, lastSeen : Times]

\* Only a known peer is banned; a peer at reputation zero may well not be.
TypeOK ==
  /\ now \in 1..MaxNow
  /\ phase \in {"down", "listening", "restoring", "applying", "up"}
  /\ peers \in [Peers -> PeerRecords]
  /\ \A p \in Peers : peers[p].banned => peers[p].known
  /\ strikes \in [Peers -> Seq(1..MaxNow)]
  /\ handler \in [stage : {"idle", "ban", "save"}, peer : Peers \cup {Nobody}, expires : Times]
  /\ handler.stage # "idle" => handler.peer \in Peers
  /\ lifting \in SUBSET Peers
  /\ loading \in [Peers -> Times] /\ clock \in 0..now
  /\ db \in [Peers -> Times]
  /\ crashes \in 0..MaxCrashes
  /\ due \in [Peers -> Times]
  /\ forgotten \in SUBSET Peers
  /\ sentence \in [Peers -> Times] /\ waited \in [Peers -> Times]
  /\ stored \in [Peers -> Times]
  /\ offences \in [Peers -> Seq(1..MaxNow)]

\* A strike ban holds until its end: no penalty, reward, discovery, ban check
\* or second offence of the same process lifts it early.  Only the pruning of
\* stale peers does, which forgets the peer together with its ban.
BanHolds == \A p \in Peers : due[p] > now => peers[p].banned \/ p \in forgotten

\* While the daemon runs, every active row of banned_peers is backed by a ban
\* in memory, whatever the handler, the ban check and a restart did in
\* between and whatever the database failed to do, pruning aside.
ActiveRowsEnforced ==
  phase = "up" => \A p \in Peers : db[p] > now => peers[p].banned \/ p \in forgotten

\* A ban in memory ends after the longest one issued by no more than the time
\* this restore waited between its two readings of the clock: ban_and_persist,
\* penalties and failed removals add nothing, and what earlier restarts added
\* is not carried on.
ExtendedByWaitOnly == \A p \in Peers : peers[p].expires <= sentence[p] + waited[p]

\* A strike ban is issued only for more than max_strikes invalid signatures
\* within the window since the peer's last valid one.
BannedForCause ==
  [][\A p \in Peers :
       handler.stage = "idle" /\ handler'.stage = "ban" /\ handler'.peer = p
         => Cardinality({i \in DOMAIN offences'[p] : now - offences'[p][i] <= window_duration})
              > max_strikes]_vars

\* No ban outlasts its end for ever: the ban check lifts it, also when it was
\* issued by apply_penalty and has no expiry time.
BansAreLifted == \A p \in Peers : []<>~(peers[p].banned /\ now >= peers[p].expires)

\* What pull.md says of a restart: a ban that was saved and has not ended is
\* in force when the daemon is up again.  A remove_ban of the ban check that
\* runs after a new ban was saved deletes the new row.
SavedBanSurvives == phase = "up" => \A p \in Peers : stored[p] > now => peers[p].banned \/ p \in forgotten
=============================================================================
