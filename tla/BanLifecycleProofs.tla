------------------------- MODULE BanLifecycleProofs -------------------------
(***************************************************************************)
(* The guarantees of the ban lifecycle for every set of peers, every       *)
(* duration and every threshold.  None of the three invariants is          *)
(* inductive.  A ban in force is known to hold only because its expiry     *)
(* time in memory is the one the process owes; a row is known to be        *)
(* backed by a ban only because the handler saves what it has put in       *)
(* memory first, and because a restart loads the rows before it is up.     *)
(* That a ban has a cause is known only because every strike on record     *)
(* stands for an offence of its own.                                       *)
(***************************************************************************)
EXTENDS BanLifecycle, FiniteSetTheorems, SequenceTheorems, TLAPS

\* The part of TypeOK on which the ends of bans depend; the rest is Tracked.
Types ==
  /\ now \in 1..MaxNow
  /\ phase \in {"down", "listening", "restoring", "applying", "up"}
  /\ peers \in [Peers -> PeerRecords]
  /\ \A p \in Peers : peers[p].banned => peers[p].known
  /\ handler \in [stage : {"idle", "ban", "save"}, peer : Peers \cup {Nobody}, expires : Times]
  /\ handler.stage # "idle" => handler.peer \in Peers
  /\ lifting \in SUBSET Peers
  /\ loading \in [Peers -> Times] /\ clock \in 0..now
  /\ db \in [Peers -> Times]
  /\ due \in [Peers -> Times]
  /\ sentence \in [Peers -> Times] /\ waited \in [Peers -> Times]

\* A process that is not up runs neither task, and has issued no ban but
\* those it restores.
QuietUntilUp ==
  /\ phase # "up" => handler.stage = "idle" /\ lifting = {}
  /\ phase \notin {"applying", "up"} => \A p \in Peers : due[p] = 0

\* The ban a process owes is in memory, with the time at which it ends,
\* unless pruning has forgotten it.
DueInMemory ==
  \A p \in Peers : due[p] > now => \/ p \in forgotten
                                   \/ peers[p].banned /\ peers[p].expires = due[p]

\* No ban, pending, loaded or saved, ends later than one issued now.
WithinDuration ==
  /\ handler.stage # "idle" => handler.expires <= now + BAN_DURATION_SEC
  /\ \A p \in Peers : db[p] <= now + BAN_DURATION_SEC /\ loading[p] <= now + BAN_DURATION_SEC

\* What the handler is about to save is owed already.
SavesWhatIsDue == handler.stage = "save" => handler.expires <= due[handler.peer]

\* An active row of a running process is owed, and one of a process that
\* restores its bans has been loaded, and is owed once it was applied.
RowsAreDue ==
  \A p \in Peers : db[p] > now =>
    /\ phase = "up" => db[p] <= due[p]
    /\ phase = "restoring" => loading[p] = db[p]
    /\ phase = "applying" => loading[p] = db[p] \/ (loading[p] = 0 /\ db[p] <= due[p])

Owed == QuietUntilUp /\ DueInMemory /\ WithinDuration /\ SavesWhatIsDue /\ RowsAreDue

\* Every copy of an expiry time is within the longest sentence of the peer,
\* the one in memory but for the wait of the restore, and a ban about to be
\* issued ends no later than one issued now.  The rows are what keeps a wait
\* from being carried over to the next restart.
WithinSentence ==
  /\ handler.stage = "ban" => handler.expires <= now + BAN_DURATION_SEC
  /\ \A p \in Peers : /\ peers[p].expires <= sentence[p] + waited[p]
                       /\ db[p] <= sentence[p] /\ loading[p] <= sentence[p]
  /\ handler.stage = "save" => handler.expires <= sentence[handler.peer]
-----------------------------------------------------------------------------
\* The clock and the duration in the terms the leaves need.
LEMMA TimeFacts ==
  ASSUME now \in 1..MaxNow
  PROVE  /\ now \in Nat /\ now \in Times /\ now + BAN_DURATION_SEC \in Times
         /\ Times \subseteq Nat /\ 0 \in Times
BY BanAssumption DEF Times

\* What insert_or_update, alone or behind the test of get_peer, keeps.
LEMMA InsertKeeps ==
  ASSUME now \in 1..MaxNow, NEW q \in PeerRecords
  PROVE  /\ InsertOrUpdate(q) \in PeerRecords /\ EnsureKnown(q) \in PeerRecords
         /\ InsertOrUpdate(q).known /\ EnsureKnown(q).known
         /\ q.known => /\ InsertOrUpdate(q).banned = q.banned /\ InsertOrUpdate(q).expires = q.expires
                       /\ EnsureKnown(q) = q
         /\ ~q.known => /\ ~InsertOrUpdate(q).banned /\ InsertOrUpdate(q).expires = 0
                        /\ ~EnsureKnown(q).banned /\ EnsureKnown(q).expires = 0
<1> DEFINE new == [known |-> TRUE, reputation |-> MaxReputation, banned |-> FALSE,
                   expires |-> 0, lastSeen |-> now]
           seen == [q EXCEPT !.lastSeen = now]
<1>1. now \in Times /\ 0 \in Times /\ MaxReputation \in 0..MaxReputation
  BY TimeFacts, BanAssumption
<1>2. new \in PeerRecords /\ new.known = TRUE /\ new.banned = FALSE /\ new.expires = 0
  BY <1>1 DEF PeerRecords
<1>3. /\ seen \in PeerRecords
      /\ seen.known = q.known /\ seen.banned = q.banned /\ seen.expires = q.expires
  BY <1>1 DEF PeerRecords
<1>4. CASE q.known
  <2>1. InsertOrUpdate(q) = seen /\ EnsureKnown(q) = q
    BY <1>4 DEF InsertOrUpdate, EnsureKnown
  <2> QED
    BY <1>3, <1>4, <2>1
<1>5. CASE ~q.known
  <2>1. InsertOrUpdate(q) = new /\ EnsureKnown(q) = new
    BY <1>5 DEF InsertOrUpdate, EnsureKnown
  <2> QED
    BY <1>2, <1>5, <2>1
<1> QED
  BY <1>4, <1>5

\* What ban_peer leaves of the entry of a known peer.
LEMMA BanSets ==
  ASSUME NEW q \in PeerRecords, NEW t \in Times
  PROVE  /\ BanUntil(q, t) \in PeerRecords
         /\ BanUntil(q, t).banned /\ BanUntil(q, t).expires = t /\ BanUntil(q, t).known = q.known
BY DEF BanUntil, PeerRecords

\* The entry of a peer after ban_and_persist or restore_bans_from_db.
LEMMA BannedEntry ==
  ASSUME now \in 1..MaxNow, NEW q \in PeerRecords, NEW t \in Times
  PROVE  /\ BanUntil(EnsureKnown(q), t) \in PeerRecords
         /\ BanUntil(EnsureKnown(q), t).known /\ BanUntil(EnsureKnown(q), t).banned
         /\ BanUntil(EnsureKnown(q), t).expires = t
<1>1. EnsureKnown(q) \in PeerRecords /\ EnsureKnown(q).known
  BY InsertKeeps
<1>2. PICK k \in PeerRecords : k = EnsureKnown(q) /\ k.known
  BY <1>1
<1>3. /\ BanUntil(k, t) \in PeerRecords
      /\ BanUntil(k, t).banned /\ BanUntil(k, t).expires = t /\ BanUntil(k, t).known = k.known
  BY BanSets
<1> QED
  BY <1>2, <1>3

\* Neither a penalty nor a reward lifts a ban or moves its end.
LEMMA ReputationKeeps ==
  ASSUME NEW q \in PeerRecords, NEW points \in Nat
  PROVE  /\ ApplyPenalty(q, points) \in PeerRecords /\ ApplyReward(q, points) \in PeerRecords
         /\ q.banned => ApplyPenalty(q, points).banned
         /\ ApplyReward(q, points).banned = q.banned
         /\ ApplyPenalty(q, points).known = q.known /\ ApplyReward(q, points).known = q.known
         /\ ApplyPenalty(q, points).expires = q.expires /\ ApplyReward(q, points).expires = q.expires
<1>1. q.reputation \in 0..MaxReputation /\ q.banned \in BOOLEAN
  BY DEF PeerRecords
<1>2. Minus(q.reputation, points) \in 0..MaxReputation
  BY <1>1, BanAssumption DEF Minus
<1>3. (IF q.reputation + points > MaxReputation THEN MaxReputation ELSE q.reputation + points)
        \in 0..MaxReputation
  BY <1>1, BanAssumption
<1>4. (q.banned \/ Minus(q.reputation, points) = 0) \in BOOLEAN
  BY <1>1
<1>5. /\ ApplyPenalty(q, points) \in PeerRecords
      /\ ApplyPenalty(q, points).banned = (q.banned \/ Minus(q.reputation, points) = 0)
      /\ ApplyPenalty(q, points).known = q.known /\ ApplyPenalty(q, points).expires = q.expires
  <2> DEFINE r == Minus(q.reputation, points)
             b == q.banned \/ r = 0
  <2>1. ApplyPenalty(q, points) = [q EXCEPT !.reputation = r, !.banned = b]
    BY DEF ApplyPenalty, PeerRecords
  <2>2. r \in 0..MaxReputation /\ b \in BOOLEAN
    BY <1>2, <1>4
  <2> HIDE DEF r, b
  <2>3. /\ [q EXCEPT !.reputation = r, !.banned = b] \in PeerRecords
        /\ [q EXCEPT !.reputation = r, !.banned = b].banned = b
        /\ [q EXCEPT !.reputation = r, !.banned = b].known = q.known
        /\ [q EXCEPT !.reputation = r, !.banned = b].expires = q.expires
    BY <2>2 DEF PeerRecords
  <2> QED
    BY <2>1, <2>3 DEF r, b
<1>6. /\ ApplyReward(q, points) \in PeerRecords
      /\ ApplyReward(q, points).banned = q.banned
      /\ ApplyReward(q, points).known = q.known /\ ApplyReward(q, points).expires = q.expires
  BY <1>3 DEF ApplyReward, PeerRecords
<1> QED
  BY <1>5, <1>6

\* What check_ban_expiration leaves of an entry whose ban it lifts.
LEMMA LiftClears ==
  ASSUME NEW q \in PeerRecords
  PROVE  Lifted(q) \in PeerRecords /\ ~Lifted(q).banned /\ Lifted(q).expires = 0
<1>1. 0 \in Times
  BY BanAssumption DEF Times
<1>2. Lifted(q) \in PeerRecords /\ Lifted(q).banned = FALSE /\ Lifted(q).expires = 0
  BY <1>1 DEF Lifted, PeerRecords
<1> QED
  BY <1>2

\* The entry of a peer the list does not hold.
LEMMA UnknownType == Unknown \in PeerRecords /\ ~Unknown.banned /\ Unknown.expires = 0
BY BanAssumption DEF Unknown, PeerRecords, Times

-----------------------------------------------------------------------------
LEMMA InitTypes == Init => Types /\ WithinSentence
<1> SUFFICES ASSUME Init PROVE Types /\ WithinSentence
  OBVIOUS
<1>1. now \in 1..MaxNow /\ 0 \in Times
  BY BanAssumption DEF Init, Times
<1>2. \A p \in Peers : peers[p] = Unknown /\ db[p] = 0 /\ loading[p] = 0 /\ sentence[p] = 0 /\ waited[p] = 0
  BY DEF Init
<1>3. Types
  BY <1>1, <1>2, UnknownType DEF Init, Types, Idle
<1>4. WithinSentence
  BY <1>2, UnknownType DEF Init, WithinSentence, Idle
<1> QED
  BY <1>3, <1>4

\* What the types say of the state of one peer, in the terms the leaves need.
LEMMA TypeFacts ==
  ASSUME Types
  PROVE  /\ now \in Nat /\ now \in Times /\ now + BAN_DURATION_SEC \in Times
         /\ Times \subseteq Nat /\ 0 \in Times
         /\ BAN_DURATION_SEC \in Nat
         /\ handler.expires \in Times
         /\ clock \in Nat /\ clock <= now
         /\ \A p \in Peers :
              /\ peers[p] \in PeerRecords /\ peers[p].expires \in Times
              /\ db[p] \in Times /\ loading[p] \in Times /\ due[p] \in Times /\ sentence[p] \in Times
              /\ waited[p] \in Times
<1>1. now \in 1..MaxNow
  BY DEF Types
<1>2. ASSUME NEW q \in PeerRecords PROVE q.expires \in Times
  BY DEF PeerRecords
<1> QED
  BY <1>1, <1>2, TimeFacts, BanAssumption DEF Types

\* Every step keeps the types.
LEMMA NextTypes == Types /\ [Next]_vars => Types'
<1> SUFFICES ASSUME Types, [Next]_vars PROVE Types'
  OBVIOUS
<1>0. /\ now \in Times /\ now + BAN_DURATION_SEC \in Times /\ 0 \in Times /\ Times \subseteq Nat
      /\ \A p \in Peers :
              /\ peers[p] \in PeerRecords
              /\ db[p] \in Times /\ loading[p] \in Times /\ due[p] \in Times /\ sentence[p] \in Times
  BY TypeFacts
<1>a. now \in 1..MaxNow
  BY DEF Types
<1>1. CASE UNCHANGED vars
  BY <1>1 DEF vars, Types
<1>2. CASE Tick
  BY <1>2, BanAssumption DEF Tick, Types, history
<1>3. CASE StartListener
  BY <1>3 DEF StartListener, Types, history
<1>5. CASE LoadActiveBans
  BY <1>5, <1>0 DEF LoadActiveBans, Types, history
<1>4. CASE ReadClock
  <2>1. /\ phase' = "applying" /\ clock' = now
        /\ UNCHANGED <<now, peers, handler, lifting, loading, db, due, sentence, waited>>
    BY <1>4 DEF ReadClock, history
  <2>2. clock' \in 0..now'
    BY <2>1, <1>a
  <2> QED
    BY <2>1, <2>2 DEF Types
<1>6. ASSUME NEW p \in Peers, RestoreBan(p) PROVE Types'
  <2> DEFINE until == RestoredUntil(loading[p])
             entry == BanUntil(EnsureKnown(peers[p]), until)
             wait == now - clock
  <2>1. /\ peers' = [peers EXCEPT ![p] = entry]
        /\ loading' = [loading EXCEPT ![p] = 0]
        /\ due' = [due EXCEPT ![p] = until]
        /\ waited' = [waited EXCEPT ![p] = wait]
        /\ UNCHANGED <<now, phase, handler, lifting, clock, db, sentence>>
    BY <1>6 DEF RestoreBan
  <2>2. until \in Times /\ wait \in Times
    BY <1>6, <1>0, TypeFacts DEF RestoreBan, RestoredUntil, Times
  <2>3. entry \in PeerRecords /\ entry.known
    BY <2>2, <1>0, <1>a, BannedEntry
  <2> HIDE DEF until, entry, wait
  <2> QED
    BY <2>1, <2>2, <2>3, <1>0 DEF Types
<1>19. CASE RestoreEnds
  BY <1>19, <1>0 DEF RestoreEnds, Types, history
<1>7. CASE Crash
  <2>1. /\ peers' = [p \in Peers |-> Unknown] /\ loading' = [p \in Peers |-> 0]
        /\ due' = [p \in Peers |-> 0] /\ lifting' = {} /\ phase' = "down"
        /\ clock' = 0 /\ waited' = [p \in Peers |-> 0]
        /\ handler' = Idle /\ UNCHANGED <<now, db, sentence>>
    BY <1>7 DEF Crash
  <2>2. clock' \in 0..now'
    BY <2>1, <1>a
  <2> QED
    BY <2>1, <2>2, <1>0, UnknownType DEF Types, Idle
<1>8. CASE PruneStalePeers
  <2>1. /\ peers' = [p \in Peers |-> IF Stale(peers[p]) THEN Unknown ELSE peers[p]]
        /\ UNCHANGED <<now, phase, handler, lifting, loading, clock, db, due, sentence, waited>>
    BY <1>8 DEF PruneStalePeers
  <2> QED
    BY <2>1, <1>0, UnknownType DEF Types
<1>9. CASE BanInMemory
  <2> DEFINE p == handler.peer
             until == now + BAN_DURATION_SEC
             entry == BanUntil(EnsureKnown(peers[p]), until)
             longest == AtLeast(sentence[p], until)
  <2>1. /\ handler.stage = "ban"
        /\ peers' = [peers EXCEPT ![p] = entry]
        /\ handler' = [handler EXCEPT !.stage = "save"]
        /\ due' = [due EXCEPT ![p] = until]
        /\ sentence' = [sentence EXCEPT ![p] = longest]
        /\ waited' = [waited EXCEPT ![p] = 0]
        /\ UNCHANGED <<now, phase, lifting, loading, clock, db>>
    BY <1>9 DEF BanInMemory
  <2>2. p \in Peers
    BY <2>1 DEF Types
  <2>3. entry \in PeerRecords /\ entry.known
    BY <2>2, <1>0, <1>a, BannedEntry
  <2>4. longest \in Times /\ until \in Times
    BY <2>2, <1>0 DEF AtLeast
  <2> HIDE DEF entry, longest, until
  <2> QED
    BY <2>1, <2>2, <2>3, <2>4, <1>0 DEF Types
<1>10. CASE SaveBan
  BY <1>10, <1>0 DEF SaveBan, Idle, Types
<1>11. CASE CheckBanExpirations
  <2>1. /\ lifting' \in SUBSET Peers
        /\ peers' = [p \in Peers |-> IF Expired(peers[p]) THEN Lifted(peers[p]) ELSE peers[p]]
        /\ UNCHANGED <<now, phase, handler, loading, clock, db, due, sentence, waited>>
    BY <1>11 DEF CheckBanExpirations, history
  <2> QED
    BY <2>1, <1>0, LiftClears DEF Types
<1>12. ASSUME NEW p \in Peers, Observe(p) PROVE Types'
  BY <1>12, <1>0, <1>a, InsertKeeps DEF Observe, Types, history
<1>13. ASSUME NEW p \in Peers, NEW points \in Nat, peers[p].known,
              peers' = [peers EXCEPT ![p] = ApplyPenalty(@, points)]
       PROVE  peers' \in [Peers -> PeerRecords] /\ \A q \in Peers : peers'[q].banned => peers'[q].known
  BY <1>13, <1>0, ReputationKeeps DEF Types
<1>14. ASSUME NEW p \in Peers, PenaliseDuplicate(p) PROVE Types'
  BY <1>13, <1>14, BanAssumption DEF PenaliseDuplicate, Types, history
<1>15. ASSUME NEW p \in Peers, Reward(p) PROVE Types'
  BY <1>15, <1>0, ReputationKeeps, BanAssumption DEF Reward, Types, history
<1>16. ASSUME NEW p \in Peers, AcceptSignature(p) PROVE Types'
  BY <1>16 DEF AcceptSignature, Types
<1>17. ASSUME NEW p \in Peers, RejectSignature(p) PROVE Types'
  <2>1. peers' \in [Peers -> PeerRecords] /\ \A q \in Peers : peers'[q].banned => peers'[q].known
    BY <1>13, <1>17, BanAssumption DEF RejectSignature, Types
  <2>2. \/ handler' = handler
        \/ handler' = [stage |-> "ban", peer |-> p, expires |-> now + BAN_DURATION_SEC]
    BY <1>17 DEF RejectSignature
  <2>3. UNCHANGED <<now, phase, lifting, loading, clock, db, due, sentence, waited>>
    BY <1>17 DEF RejectSignature
  <2> QED
    BY <2>1, <2>2, <2>3, <1>0 DEF Types
<1>18. ASSUME NEW p \in Peers, RemoveBan(p) PROVE Types'
  BY <1>18, <1>0 DEF RemoveBan, Types, history
<1> QED
  BY <1>1, <1>2, <1>3, <1>4, <1>5, <1>6, <1>7, <1>8, <1>9, <1>10, <1>11, <1>12,
     <1>14, <1>15, <1>16, <1>17, <1>18, <1>19 DEF Next

\* The steps that penalise or reward a peer keep all bans and their ends.
LEMMA ReputationSteps ==
  ASSUME Types, NEW p \in Peers,
         PenaliseDuplicate(p) \/ Reward(p) \/ RejectSignature(p)
  PROVE  \A q \in Peers : /\ peers'[q].expires = peers[q].expires
                          /\ peers[q].banned => peers'[q].banned
<1>1. peers \in [Peers -> PeerRecords] /\ peers[p] \in PeerRecords
  BY DEF Types
<1>2. \/ peers' = peers
      \/ \E points \in Nat : \/ peers' = [peers EXCEPT ![p] = ApplyPenalty(peers[p], points)]
                             \/ peers' = [peers EXCEPT ![p] = ApplyReward(peers[p], points)]
  <2>1. SignaturePenalty \in Nat /\ DuplicatePenalty \in Nat /\ RouteReward \in Nat
    BY BanAssumption
  <2>2. CASE PenaliseDuplicate(p)
    BY <2>1, <2>2 DEF PenaliseDuplicate
  <2>3. CASE Reward(p)
    BY <2>1, <2>3 DEF Reward
  <2>4. CASE RejectSignature(p)
    BY <2>1, <2>4 DEF RejectSignature
  <2> QED
    BY <2>2, <2>3, <2>4
<1>3. ASSUME NEW e \in PeerRecords, peers' = [peers EXCEPT ![p] = e],
             e.expires = peers[p].expires, peers[p].banned => e.banned, NEW q \in Peers
      PROVE  peers'[q].expires = peers[q].expires /\ (peers[q].banned => peers'[q].banned)
  <2>1. peers'[q] = IF q = p THEN e ELSE peers[q]
    BY <1>1, <1>3
  <2> QED
    BY <1>3, <2>1
<1>4. CASE peers' = peers
  BY <1>4
<1>5. ASSUME NEW points \in Nat, peers' = [peers EXCEPT ![p] = ApplyPenalty(peers[p], points)],
             NEW q \in Peers
      PROVE  peers'[q].expires = peers[q].expires /\ (peers[q].banned => peers'[q].banned)
  BY <1>1, <1>3, <1>5, ReputationKeeps
<1>6. ASSUME NEW points \in Nat, peers' = [peers EXCEPT ![p] = ApplyReward(peers[p], points)],
             NEW q \in Peers
      PROVE  peers'[q].expires = peers[q].expires /\ (peers[q].banned => peers'[q].banned)
  BY <1>1, <1>3, <1>6, ReputationKeeps
<1> QED
  BY <1>2, <1>4, <1>5, <1>6

\* Every step keeps every copy of an expiry time within the sentence.
LEMMA NextWithinSentence == Types /\ WithinSentence /\ [Next]_vars => WithinSentence'
<1> SUFFICES ASSUME Types, WithinSentence, [Next]_vars PROVE WithinSentence'
  OBVIOUS
<1>0. /\ now \in Nat /\ now + BAN_DURATION_SEC \in Times /\ Times \subseteq Nat
      /\ handler.expires \in Nat /\ BAN_DURATION_SEC \in Nat /\ clock \in Nat /\ clock <= now
      /\ \A p \in Peers :
              /\ peers[p] \in PeerRecords /\ peers[p].expires \in Nat
              /\ db[p] \in Nat /\ loading[p] \in Nat /\ loading[p] \in Times /\ sentence[p] \in Nat
              /\ waited[p] \in Nat
  BY TypeFacts
<1>a. /\ now \in 1..MaxNow /\ peers \in [Peers -> PeerRecords] /\ waited \in [Peers -> Times]
      /\ loading \in [Peers -> Times]
  BY DEF Types
<1>b. ASSUME NEW p \in Peers
      PROVE  /\ peers[p].expires <= sentence[p] + waited[p] /\ db[p] <= sentence[p] /\ loading[p] <= sentence[p]
             /\ 0 <= sentence[p] /\ 0 <= sentence[p] + waited[p]
  BY <1>0 DEF WithinSentence
\* A step that changes nothing but the entries of peers.
<1>c. ASSUME \A p \in Peers : peers'[p].expires = peers[p].expires \/ peers'[p].expires = 0,
             UNCHANGED <<handler, db, loading, sentence, waited>>, now' = now \/ now' = now + 1
      PROVE  WithinSentence'
  BY <1>0, <1>b, <1>c DEF WithinSentence
<1>1. CASE UNCHANGED vars
  BY <1>1, <1>c DEF vars
<1>2. CASE Tick
  BY <1>2, <1>c DEF Tick, history
<1>3. CASE StartListener
  BY <1>3, <1>c DEF StartListener, history
<1>5. CASE LoadActiveBans
  BY <1>5, <1>0, <1>b DEF LoadActiveBans, history, WithinSentence
<1>4. CASE ReadClock
  BY <1>4, <1>c DEF ReadClock, history
<1>6. ASSUME NEW p \in Peers, RestoreBan(p) PROVE WithinSentence'
  <2> DEFINE until == RestoredUntil(loading[p])
             entry == BanUntil(EnsureKnown(peers[p]), until)
             wait == now - clock
  <2>1. /\ peers' = [peers EXCEPT ![p] = entry]
        /\ loading' = [loading EXCEPT ![p] = 0]
        /\ waited' = [waited EXCEPT ![p] = wait]
        /\ UNCHANGED <<now, handler, db, sentence>>
    BY <1>6 DEF RestoreBan
  <2>2. until \in Times /\ wait \in Nat /\ until = loading[p] + wait
    BY <1>6, <1>0 DEF RestoreBan, RestoredUntil, Times
  <2>3. entry.expires = until
    BY <2>2, <1>0, <1>a, BannedEntry
  <2>4. until <= sentence[p] + wait
    BY <2>2, <1>0, <1>b
  <2> HIDE DEF until, entry, wait
  <2>5. ASSUME NEW q \in Peers
        PROVE  peers'[q].expires <= sentence[q] + waited'[q] /\ loading'[q] <= sentence[q]
    <3>1. CASE q = p
      BY <2>1, <2>3, <2>4, <3>1, <1>a, <1>b
    <3>2. CASE q # p
      BY <2>1, <3>2, <1>a, <1>b
    <3> QED
      BY <3>1, <3>2
  <2> QED
    BY <2>1, <2>5 DEF WithinSentence
<1>18. CASE RestoreEnds
  <2>1. /\ loading' = [p \in Peers |-> 0] /\ UNCHANGED <<now, peers, handler, db, sentence, waited>>
    BY <1>18 DEF RestoreEnds, history
  <2> QED
    BY <2>1, <1>b DEF WithinSentence
<1>7. CASE Crash
  <2>1. /\ peers' = [p \in Peers |-> Unknown] /\ loading' = [p \in Peers |-> 0]
        /\ waited' = [p \in Peers |-> 0]
        /\ handler'.stage = "idle" /\ UNCHANGED <<db, sentence>>
    BY <1>7 DEF Crash, Idle
  <2> QED
    BY <2>1, <1>0, <1>b, UnknownType DEF WithinSentence
<1>8. CASE PruneStalePeers
  <2>1. /\ peers' = [p \in Peers |-> IF Stale(peers[p]) THEN Unknown ELSE peers[p]]
        /\ UNCHANGED <<now, handler, db, loading, sentence, waited>>
    BY <1>8 DEF PruneStalePeers
  <2> QED
    BY <2>1, <1>c, UnknownType
<1>9. CASE BanInMemory
  <2> DEFINE p == handler.peer
             until == now + BAN_DURATION_SEC
             entry == BanUntil(EnsureKnown(peers[p]), until)
             longest == AtLeast(sentence[p], until)
  <2>1. /\ handler.stage = "ban"
        /\ peers' = [peers EXCEPT ![p] = entry]
        /\ handler' = [handler EXCEPT !.stage = "save"]
        /\ sentence' = [sentence EXCEPT ![p] = longest]
        /\ waited' = [waited EXCEPT ![p] = 0]
        /\ UNCHANGED <<loading, db>>
    BY <1>9 DEF BanInMemory
  <2>2. /\ p \in Peers /\ sentence \in [Peers -> Times]
        /\ handler'.stage = "save" /\ handler'.expires = handler.expires /\ handler'.peer = p
    BY <2>1 DEF Types
  <2>3. entry.expires = until
    BY <2>2, <1>0, <1>a, BannedEntry
  <2>4. longest \in Nat /\ sentence[p] <= longest /\ until <= longest
    BY <2>2, <1>0 DEF AtLeast
  <2>5. until \in Nat /\ handler.expires <= longest
    BY <2>1, <2>4, <1>0 DEF WithinSentence
  <2> HIDE DEF entry, longest, until
  <2> QED
    BY <2>1, <2>2, <2>3, <2>4, <2>5, <1>0, <1>a, <1>b DEF WithinSentence
<1>10. CASE SaveBan
  <2>1. /\ handler.stage = "save" /\ handler'.stage = "idle"
        /\ db' = [db EXCEPT ![handler.peer] = handler.expires] \/ db' = db
        /\ UNCHANGED <<peers, loading, sentence, waited>>
    BY <1>10 DEF SaveBan, Idle
  <2>2. handler.peer \in Peers /\ handler.expires <= sentence[handler.peer] /\ db \in [Peers -> Times]
    BY <2>1 DEF Types, WithinSentence
  <2> QED
    BY <2>1, <2>2, <1>b DEF WithinSentence
<1>11. CASE CheckBanExpirations
  <2>1. /\ peers' = [p \in Peers |-> IF Expired(peers[p]) THEN Lifted(peers[p]) ELSE peers[p]]
        /\ UNCHANGED <<now, handler, loading, db, sentence, waited>>
    BY <1>11 DEF CheckBanExpirations, history
  <2> QED
    BY <2>1, <1>0, <1>c, LiftClears
<1>12. ASSUME NEW p \in Peers, Observe(p) PROVE WithinSentence'
  <2>1. UNCHANGED <<now, handler, db, loading, sentence, waited>>
    BY <1>12 DEF Observe, history
  <2>2. \A q \in Peers : peers'[q].expires = peers[q].expires \/ peers'[q].expires = 0
    BY <1>12, <1>0, <1>a, InsertKeeps DEF Observe
  <2> QED
    BY <2>1, <2>2, <1>c
<1>13. ASSUME NEW p \in Peers, PenaliseDuplicate(p) PROVE WithinSentence'
  <2>1. UNCHANGED <<now, handler, db, loading, sentence, waited>>
    BY <1>13 DEF PenaliseDuplicate, history
  <2> QED
    BY <1>13, <2>1, <1>c, ReputationSteps
<1>14. ASSUME NEW p \in Peers, Reward(p) PROVE WithinSentence'
  <2>1. UNCHANGED <<now, handler, db, loading, sentence, waited>>
    BY <1>14 DEF Reward, history
  <2> QED
    BY <1>14, <2>1, <1>c, ReputationSteps
<1>15. ASSUME NEW p \in Peers, AcceptSignature(p) PROVE WithinSentence'
  BY <1>15, <1>c DEF AcceptSignature
<1>16. ASSUME NEW p \in Peers, RejectSignature(p) PROVE WithinSentence'
  <2>1. \A q \in Peers : peers'[q].expires = peers[q].expires
    BY <1>16, ReputationSteps
  <2>2. \/ handler' = handler
        \/ handler' = [stage |-> "ban", peer |-> p, expires |-> now + BAN_DURATION_SEC]
    BY <1>16 DEF RejectSignature
  <2>3. UNCHANGED <<now, db, loading, sentence, waited>>
    BY <1>16 DEF RejectSignature
  <2>4. CASE handler' = handler
    BY <2>1, <2>3, <2>4, <1>c
  <2>5. CASE handler' = [stage |-> "ban", peer |-> p, expires |-> now + BAN_DURATION_SEC]
    <3>1. handler'.stage = "ban" /\ handler'.expires = now + BAN_DURATION_SEC
      BY <2>5
    <3> QED
      BY <2>1, <2>3, <3>1, <1>0, <1>b DEF WithinSentence
  <2> QED
    BY <2>2, <2>4, <2>5
<1>17. ASSUME NEW p \in Peers, RemoveBan(p) PROVE WithinSentence'
  <2>1. /\ db' = [db EXCEPT ![p] = 0] \/ db' = db
        /\ UNCHANGED <<now, handler, peers, loading, sentence, waited>>
    BY <1>17 DEF RemoveBan, history
  <2>2. db \in [Peers -> Times]
    BY DEF Types
  <2> QED
    BY <2>1, <2>2, <1>b DEF WithinSentence
<1> QED
  BY <1>1, <1>2, <1>3, <1>4, <1>5, <1>6, <1>7, <1>8, <1>9, <1>10, <1>11, <1>12, <1>13,
     <1>14, <1>15, <1>16, <1>17, <1>18 DEF Next

\* ExtendedByWaitOnly, for every set of peers and all durations, with pruning,
\* failures of the database and any number of crashes: penalties, new bans,
\* the ban check and failed removals never move the end of a ban past the
\* longest sentence issued to the peer, and restore_bans_from_db moves it by
\* its own wait for the list and by nothing an earlier restart has added.
THEOREM ExtensionIsBounded == Spec => []ExtendedByWaitOnly
<1>1. Types /\ WithinSentence => ExtendedByWaitOnly
  BY DEF WithinSentence, ExtendedByWaitOnly
<1> QED
  BY <1>1, InitTypes, NextTypes, NextWithinSentence, PTL DEF Spec
-----------------------------------------------------------------------------
LEMMA InitOwed == Init => Owed
<1> SUFFICES ASSUME Init PROVE Owed
  OBVIOUS
<1>1. \A p \in Peers : db[p] = 0 /\ loading[p] = 0 /\ due[p] = 0
  BY DEF Init
<1>2. now = 1 /\ phase = "down" /\ handler.stage = "idle" /\ lifting = {}
  BY DEF Init, Idle
<1> QED
  BY <1>1, <1>2, BanAssumption
     DEF Owed, QuietUntilUp, DueInMemory, WithinDuration, SavesWhatIsDue, RowsAreDue

\* Every step keeps the bans that are owed in memory and the rows behind
\* them; pruning notes what it forgets.
LEMMA NextOwed == Types /\ Owed /\ [Next]_vars => Owed'
<1> SUFFICES ASSUME Types, Owed, [Next]_vars PROVE Owed'
  OBVIOUS
<1> USE DEF Owed
<1>0. /\ now \in Nat /\ now + BAN_DURATION_SEC \in Times /\ Times \subseteq Nat
      /\ handler.expires \in Nat /\ BAN_DURATION_SEC \in Nat /\ clock \in Nat /\ clock <= now
      /\ \A p \in Peers :
              /\ peers[p] \in PeerRecords /\ peers[p].expires \in Nat
              /\ db[p] \in Nat /\ loading[p] \in Nat /\ loading[p] \in Times /\ due[p] \in Nat
  BY TypeFacts
<1>a. /\ now \in 1..MaxNow /\ peers \in [Peers -> PeerRecords]
      /\ db \in [Peers -> Times] /\ due \in [Peers -> Times] /\ loading \in [Peers -> Times]
      /\ handler.stage # "idle" => handler.peer \in Peers
  BY DEF Types
\* A step that changes nothing but entries whose ban is not owed.
<1>b. ASSUME \A p \in Peers : peers[p].banned /\ peers[p].expires = due[p] /\ due[p] > now
                               => peers'[p].banned /\ peers'[p].expires = due[p],
             UNCHANGED <<now, phase, handler, lifting, loading, db, due, forgotten>>
      PROVE  Owed'
  BY <1>b DEF QuietUntilUp, DueInMemory, WithinDuration, SavesWhatIsDue, RowsAreDue
<1>1. CASE UNCHANGED vars
  BY <1>1, <1>b DEF vars
<1>2. CASE Tick
  <2>1. now' = now + 1 /\ UNCHANGED <<phase, peers, handler, lifting, loading, db, due, forgotten>>
    BY <1>2 DEF Tick, history
  <2> QED
    BY <2>1, <1>0, <1>a DEF QuietUntilUp, DueInMemory, WithinDuration, SavesWhatIsDue, RowsAreDue
<1>3. CASE StartListener
  <2>1. /\ phase = "down" /\ phase' = "listening"
        /\ UNCHANGED <<now, peers, handler, lifting, loading, db, due, forgotten>>
    BY <1>3 DEF StartListener, history
  <2> QED
    BY <2>1 DEF QuietUntilUp, DueInMemory, WithinDuration, SavesWhatIsDue, RowsAreDue
<1>5. CASE LoadActiveBans
  <2>1. /\ phase = "listening" /\ phase' = "restoring"
        /\ loading' = [p \in Peers |-> IF db[p] > now THEN db[p] ELSE 0]
        /\ UNCHANGED <<now, peers, handler, lifting, db, due, forgotten>>
    BY <1>5 DEF LoadActiveBans, history
  <2> QED
    BY <2>1, <1>0 DEF QuietUntilUp, DueInMemory, WithinDuration, SavesWhatIsDue, RowsAreDue
<1>4. CASE ReadClock
  <2>1. /\ phase = "restoring" /\ phase' = "applying"
        /\ UNCHANGED <<now, peers, handler, lifting, loading, db, due, forgotten>>
    BY <1>4 DEF ReadClock, history
  <2> QED
    BY <2>1 DEF QuietUntilUp, DueInMemory, WithinDuration, SavesWhatIsDue, RowsAreDue
<1>6. ASSUME NEW p \in Peers, RestoreBan(p) PROVE Owed'
  <2> DEFINE until == RestoredUntil(loading[p])
             entry == BanUntil(EnsureKnown(peers[p]), until)
  <2>1. /\ peers' = [peers EXCEPT ![p] = entry]
        /\ loading' = [loading EXCEPT ![p] = 0]
        /\ due' = [due EXCEPT ![p] = until]
        /\ phase = "applying" /\ phase' = "applying"
        /\ UNCHANGED <<now, handler, lifting, db, forgotten>>
    BY <1>6 DEF RestoreBan
  <2>2. until \in Times /\ loading[p] <= until
    BY <1>6, <1>0 DEF RestoreBan, RestoredUntil, Times
  <2>3. entry.banned /\ entry.expires = until
    BY <2>2, <1>0, <1>a, BannedEntry
  <2> HIDE DEF until, entry
  <2>4. DueInMemory'
    BY <2>1, <2>3, <1>a DEF DueInMemory
  <2>5. RowsAreDue'
    <3> SUFFICES ASSUME NEW q \in Peers, db[q] > now
                 PROVE  loading'[q] = db[q] \/ (loading'[q] = 0 /\ db[q] <= due'[q])
      BY <2>1 DEF RowsAreDue
    <3>0. loading[q] = db[q] \/ (loading[q] = 0 /\ db[q] <= due[q])
      BY <2>1 DEF RowsAreDue
    <3>1. CASE q # p
      BY <2>1, <3>0, <3>1, <1>a
    <3>2. CASE q = p
      <4>1. due'[p] = until /\ loading'[p] = 0
        BY <2>1, <1>a
      <4>2. loading[p] = db[p]
        BY <3>0, <3>2, <1>6, <1>0 DEF RestoreBan
      <4> QED
        BY <4>1, <4>2, <2>2, <3>2
    <3> QED
      BY <3>1, <3>2
  <2>6. WithinDuration'
    BY <2>1, <1>0, <1>a DEF WithinDuration
  <2> QED
    BY <2>1, <2>4, <2>5, <2>6 DEF QuietUntilUp, SavesWhatIsDue
<1>18. CASE RestoreEnds
  <2>1. /\ phase = "applying" /\ phase' = "up" /\ loading' = [p \in Peers |-> 0]
        /\ \A p \in Peers : loading[p] <= clock
        /\ UNCHANGED <<now, peers, handler, lifting, db, due, forgotten>>
    BY <1>18 DEF RestoreEnds, history
  <2>2. RowsAreDue'
    BY <2>1, <1>0 DEF RowsAreDue
  <2>3. WithinDuration'
    BY <2>1, <1>0 DEF WithinDuration
  <2>4. handler.stage = "idle"
    BY <2>1 DEF QuietUntilUp
  <2> QED
    BY <2>1, <2>2, <2>3, <2>4 DEF QuietUntilUp, DueInMemory, SavesWhatIsDue
<1>7. CASE Crash
  <2>1. /\ loading' = [p \in Peers |-> 0] /\ due' = [p \in Peers |-> 0]
        /\ lifting' = {} /\ phase' = "down"
        /\ handler'.stage = "idle" /\ UNCHANGED <<now, db>>
    BY <1>7 DEF Crash, Idle
  <2> QED
    BY <2>1, <1>0 DEF QuietUntilUp, DueInMemory, WithinDuration, SavesWhatIsDue, RowsAreDue
<1>8. CASE PruneStalePeers
  <2>1. /\ peers' = [p \in Peers |-> IF Stale(peers[p]) THEN Unknown ELSE peers[p]]
        /\ forgotten' = forgotten \cup {p \in Peers : Stale(peers[p]) /\ peers[p].banned}
        /\ UNCHANGED <<now, phase, handler, lifting, loading, db, due>>
    BY <1>8 DEF PruneStalePeers
  <2>2. DueInMemory'
    BY <2>1 DEF DueInMemory
  <2> QED
    BY <2>1, <2>2 DEF QuietUntilUp, WithinDuration, SavesWhatIsDue, RowsAreDue
<1>9. CASE BanInMemory
  <2> DEFINE p == handler.peer
             until == now + BAN_DURATION_SEC
             entry == BanUntil(EnsureKnown(peers[p]), until)
  <2>1. /\ handler.stage = "ban"
        /\ peers' = [peers EXCEPT ![p] = entry]
        /\ handler' = [handler EXCEPT !.stage = "save"]
        /\ due' = [due EXCEPT ![p] = until]
        /\ forgotten' = forgotten \ {p}
        /\ waited' = [waited EXCEPT ![p] = 0]
        /\ UNCHANGED <<now, phase, lifting, loading, clock, db>>
    BY <1>9 DEF BanInMemory
  <2>2. p \in Peers /\ phase = "up"
    BY <2>1, <1>a DEF QuietUntilUp
  <2>3. handler'.stage = "save" /\ handler'.expires = handler.expires /\ handler'.peer = p
    BY <2>1 DEF Types
  <2>4. entry.banned /\ entry.expires = until
    BY <2>2, <1>0, <1>a, BannedEntry
  <2> HIDE DEF entry
  <2>5. DueInMemory'
    BY <2>1, <2>2, <2>4, <1>a DEF DueInMemory
  <2>6. RowsAreDue'
    BY <2>1, <2>2, <1>0, <1>a DEF RowsAreDue, WithinDuration
  <2>7. WithinDuration'
    BY <2>1, <2>3 DEF WithinDuration
  <2>8. SavesWhatIsDue'
    BY <2>1, <2>2, <2>3, <1>a DEF SavesWhatIsDue, WithinDuration
  <2>9. QuietUntilUp'
    BY <2>1, <2>2 DEF QuietUntilUp
  <2> QED
    BY <2>5, <2>6, <2>7, <2>8, <2>9
<1>10. CASE SaveBan
  <2>1. /\ handler.stage = "save" /\ handler'.stage = "idle"
        /\ db' = [db EXCEPT ![handler.peer] = handler.expires] \/ db' = db
        /\ UNCHANGED <<now, phase, peers, lifting, loading, due, forgotten>>
    BY <1>10 DEF SaveBan, Idle
  <2>2. /\ handler.peer \in Peers /\ phase = "up"
        /\ handler.expires <= due[handler.peer] /\ handler.expires <= now + BAN_DURATION_SEC
    BY <2>1, <1>a DEF QuietUntilUp, SavesWhatIsDue, WithinDuration
  <2> QED
    BY <2>1, <2>2, <1>a DEF QuietUntilUp, DueInMemory, WithinDuration, SavesWhatIsDue, RowsAreDue
<1>11. CASE CheckBanExpirations
  <2>1. /\ phase = "up"
        /\ peers' = [p \in Peers |-> IF Expired(peers[p]) THEN Lifted(peers[p]) ELSE peers[p]]
        /\ UNCHANGED <<now, phase, handler, loading, db, due, forgotten>>
    BY <1>11 DEF CheckBanExpirations, history
  <2>2. DueInMemory'
    BY <2>1, <1>0 DEF DueInMemory, Expired
  <2> QED
    BY <2>1, <2>2 DEF QuietUntilUp, WithinDuration, SavesWhatIsDue, RowsAreDue
<1>12. ASSUME NEW p \in Peers, Observe(p) PROVE Owed'
  <2>1. UNCHANGED <<now, phase, handler, lifting, loading, db, due, forgotten>>
    BY <1>12 DEF Observe, history
  <2>2. peers[p].banned => peers[p].known
    BY DEF Types
  <2>3. \A q \in Peers : peers[q].banned => peers'[q].banned /\ peers'[q].expires = peers[q].expires
    BY <1>12, <2>2, <1>0, <1>a, InsertKeeps DEF Observe
  <2> QED
    BY <2>1, <2>3, <1>b
<1>13. ASSUME NEW p \in Peers, PenaliseDuplicate(p) PROVE Owed'
  <2>1. UNCHANGED <<now, phase, handler, lifting, loading, db, due, forgotten>>
    BY <1>13 DEF PenaliseDuplicate, history
  <2> QED
    BY <1>13, <2>1, <1>b, ReputationSteps
<1>14. ASSUME NEW p \in Peers, Reward(p) PROVE Owed'
  <2>1. UNCHANGED <<now, phase, handler, lifting, loading, db, due, forgotten>>
    BY <1>14 DEF Reward, history
  <2> QED
    BY <1>14, <2>1, <1>b, ReputationSteps
<1>15. ASSUME NEW p \in Peers, AcceptSignature(p) PROVE Owed'
  BY <1>15, <1>b DEF AcceptSignature
<1>16. ASSUME NEW p \in Peers, RejectSignature(p) PROVE Owed'
  <2>1. phase = "up" /\ UNCHANGED <<now, phase, lifting, loading, db, due, forgotten>>
    BY <1>16 DEF RejectSignature
  <2>2. DueInMemory'
    BY <1>16, <2>1, ReputationSteps DEF DueInMemory
  <2>3. \/ handler' = handler
        \/ handler' = [stage |-> "ban", peer |-> p, expires |-> now + BAN_DURATION_SEC]
    BY <1>16 DEF RejectSignature
  <2>4. WithinDuration' /\ SavesWhatIsDue'
    BY <2>1, <2>3, <1>0 DEF WithinDuration, SavesWhatIsDue
  <2> QED
    BY <2>1, <2>2, <2>4 DEF QuietUntilUp, RowsAreDue
<1>17. ASSUME NEW p \in Peers, RemoveBan(p) PROVE Owed'
  <2>1. /\ db' = [db EXCEPT ![p] = 0] \/ db' = db
        /\ lifting' = lifting \ {p}
        /\ UNCHANGED <<now, phase, handler, peers, loading, due, forgotten>>
    BY <1>17 DEF RemoveBan, history
  <2> QED
    BY <2>1, <1>0, <1>a DEF QuietUntilUp, DueInMemory, WithinDuration, SavesWhatIsDue, RowsAreDue
<1> QED
  BY <1>1, <1>2, <1>3, <1>4, <1>5, <1>6, <1>7, <1>8, <1>9, <1>10, <1>11, <1>12, <1>13,
     <1>14, <1>15, <1>16, <1>17, <1>18 DEF Next

\* BanHolds, for every set of peers and all durations: a ban of
\* ban_and_persist or restore_bans_from_db is in force until its end,
\* whatever the handler, the gossip loop and the relay do; only pruning
\* forgets it.
THEOREM StrikeBansHold == Spec => []BanHolds
<1>1. Owed => BanHolds
  BY DEF Owed, DueInMemory, BanHolds
<1>2. Init => Types /\ Owed
  BY InitTypes, InitOwed
<1>3. Types /\ Owed /\ [Next]_vars => Types' /\ Owed'
  BY NextTypes, NextOwed
<1> QED
  BY <1>1, <1>2, <1>3, PTL DEF Spec

\* ActiveRowsEnforced, likewise: while the daemon is up, an active row of
\* banned_peers is a ban in memory, also after failed statements, removals
\* and crashes.
THEOREM RowsAreEnforced == Spec => []ActiveRowsEnforced
<1>1. Types /\ Owed => ActiveRowsEnforced
  <2> SUFFICES ASSUME Types, Owed, phase = "up", NEW p \in Peers, db[p] > now
               PROVE  peers[p].banned \/ p \in forgotten
    BY DEF ActiveRowsEnforced
  <2>1. db[p] \in Nat /\ due[p] \in Nat /\ now \in Nat
    BY TypeFacts
  <2> QED
    BY <2>1 DEF Owed, RowsAreDue, DueInMemory
<1>2. Init => Types /\ Owed
  BY InitTypes, InitOwed
<1>3. Types /\ Owed /\ [Next]_vars => Types' /\ Owed'
  BY NextTypes, NextOwed
<1> QED
  BY <1>1, <1>2, <1>3, PTL DEF Spec
-----------------------------------------------------------------------------
(* Strikes and the offences behind them.                                   *)

\* In a finite set where B[i] are the elements before i, every rank below the
\* size of the set is that of exactly one element.
LEMMA Ranks ==
  ASSUME NEW S, IsFiniteSet(S), NEW B \in [S -> SUBSET S],
         \A i \in S : i \notin B[i],
         \A i, j \in S : i # j => \/ i \in B[j] /\ B[i] \subseteq B[j]
                                  \/ j \in B[i] /\ B[j] \subseteq B[i]
  PROVE  /\ Cardinality(S) \in Nat
         /\ \A k \in 0..(Cardinality(S) - 1) : \E i \in S : Cardinality(B[i]) = k
<1> DEFINE n == Cardinality(S)
           T == 0..(n - 1)
           f == [i \in S |-> Cardinality(B[i])]
<1>1. n \in Nat /\ \A i \in S : IsFiniteSet(B[i]) /\ Cardinality(B[i]) \in Nat
  BY FS_CardinalityType, FS_Subset
<1>2. ASSUME NEW i \in S PROVE Cardinality(B[i]) < n
  <2>1. B[i] # S /\ B[i] \in SUBSET S
    OBVIOUS
  <2>2. Cardinality(B[i]) <= n /\ Cardinality(B[i]) # n
    BY <2>1, FS_Subset
  <2> QED
    BY <1>1, <2>2
<1>3. ASSUME NEW i \in S, NEW j \in S, i \in B[j], B[i] \subseteq B[j]
      PROVE  Cardinality(B[i]) # Cardinality(B[j])
  <2>1. B[i] # B[j] /\ IsFiniteSet(B[j]) /\ B[i] \in SUBSET B[j]
    BY <1>1, <1>3
  <2> QED
    BY <2>1, FS_Subset
<1>4. \A i, j \in S : f[i] = f[j] => i = j
  BY <1>3
<1>5. f \in [S -> T]
  BY <1>1, <1>2
<1>6. f \in Injection(S, T)
  BY <1>4, <1>5 DEF Injection, IsInjective
<1>7. IsFiniteSet(T) /\ Cardinality(T) = n
  <2>1. IsFiniteSet(T) /\ Cardinality(T) = IF 0 > n - 1 THEN 0 ELSE (n - 1) - 0 + 1
    BY <1>1, FS_Interval
  <2> QED
    BY <1>1, <2>1
<1>8. f \in Surjection(S, T)
  BY <1>6, <1>7, FS_Injection
<1> QED
  BY <1>1, <1>8 DEF Surjection

\* Keep takes different entries from the given positions.
LEMMA KeepProperties ==
  ASSUME NEW S, NEW t \in Seq(S), NEW kept \in SUBSET (1..Len(t))
  PROVE  /\ Keep(t, kept) \in Seq(S)
         /\ Cardinality(kept) \in Nat /\ Len(Keep(t, kept)) = Cardinality(kept)
         /\ \E at \in [1..Cardinality(kept) -> kept] :
              /\ \A k \in 1..Cardinality(kept) : Keep(t, kept)[k] = t[at[k]]
              /\ \A k, l \in 1..Cardinality(kept) : at[k] = at[l] => k = l
<1> DEFINE n == Cardinality(kept)
           B == [i \in kept |-> {j \in kept : j < i}]
           at == [k \in 1..n |-> CHOOSE i \in kept : Cardinality({j \in kept : j < i}) = k - 1]
           s == [k \in 1..n |-> t[at[k]]]
<1>1. Len(t) \in Nat /\ \A i \in 1..Len(t) : t[i] \in S
  BY LenProperties, ElementOfSeq
<1>2. IsFiniteSet(1..Len(t)) /\ IsFiniteSet(kept)
  <2>1. IsFiniteSet(1..Len(t))
    BY <1>1, FS_Interval
  <2> QED
    BY <2>1, FS_Subset
<1>3. n \in Nat /\ \A k \in 0..(n - 1) : \E i \in kept : Cardinality(B[i]) = k
  <2>1. B \in [kept -> SUBSET kept]
    OBVIOUS
  <2>2. \A i \in kept : i \notin B[i]
    BY <1>1
  <2>3. \A i, j \in kept : i # j => \/ i \in B[j] /\ B[i] \subseteq B[j]
                                    \/ j \in B[i] /\ B[j] \subseteq B[i]
    <3>1. ASSUME NEW i \in kept, NEW j \in kept, i < j PROVE i \in B[j] /\ B[i] \subseteq B[j]
      <4>1. \A x \in kept : x \in Nat
        BY <1>1
      <4>2. \A x \in kept : x < i => x < j
        BY <3>1, <4>1
      <4> QED
        BY <3>1, <4>2
    <3>2. \A i, j \in kept : i # j => i < j \/ j < i
      BY <1>1
    <3> HIDE DEF B
    <3> QED
      BY <3>1, <3>2
  <2> HIDE DEF B
  <2> QED
    BY <1>2, <2>1, <2>2, <2>3, Ranks
<1>4. ASSUME NEW k \in 1..n PROVE at[k] \in kept /\ Cardinality({j \in kept : j < at[k]}) = k - 1
  <2>1. k - 1 \in 0..(n - 1)
    BY <1>3
  <2>2. PICK i \in kept : Cardinality(B[i]) = k - 1
    BY <1>3, <2>1
  <2>3. Cardinality({j \in kept : j < i}) = k - 1
    BY <2>2
  <2> QED
    BY <2>3
<1>5. Keep(t, kept) = s
  BY DEF Keep
<1> HIDE DEF at
<1>6. at \in [1..n -> kept]
  BY <1>4 DEF at
<1>7. ASSUME NEW k \in 1..n, NEW l \in 1..n, at[k] = at[l] PROVE k = l
  <2>1. k - 1 = l - 1
    BY <1>4, <1>7
  <2> QED
    BY <1>3, <2>1
<1>8. s \in [1..n -> S] /\ n \in Nat
  BY <1>1, <1>3, <1>6
<1>9. s \in Seq(S) /\ Len(s) = n
  BY <1>8, LenProperties
<1> QED
  BY <1>3, <1>5, <1>6, <1>7, <1>9

\* The two sequences of times, and the counter of crashes.
Tracked ==
  /\ strikes \in [Peers -> Seq(1..MaxNow)] /\ offences \in [Peers -> Seq(1..MaxNow)]
  /\ crashes \in 0..MaxCrashes /\ forgotten \in SUBSET Peers /\ stored \in [Peers -> Times]

\* The times s are those of different positions of o.
Among(s, o) ==
  \E g \in [1..Len(s) -> 1..Len(o)] :
    /\ \A k \in 1..Len(s) : s[k] = o[g[k]]
    /\ \A k, l \in 1..Len(s) : g[k] = g[l] => k = l

\* Every strike on record is an offence since the peer's last valid signature,
\* and no offence is on record twice.
StrikesAreOffences == \A p \in Peers : Among(strikes[p], offences[p])

\* A new failure: what the tracker keeps is recent, and each strike still
\* stands for an offence of its own.
LEMMA RecordKeeps ==
  ASSUME now \in 1..MaxNow, NEW s \in Seq(1..MaxNow), NEW o \in Seq(1..MaxNow), Among(s, o)
  PROVE  /\ RecordFailure(s) \in Seq(1..MaxNow) /\ Append(o, now) \in Seq(1..MaxNow)
         /\ Among(RecordFailure(s), Append(o, now))
         /\ \A k \in 1..Len(RecordFailure(s)) : now - RecordFailure(s)[k] <= window_duration
<1> DEFINE recent == {i \in DOMAIN s : now - s[i] <= window_duration}
           kept == Keep(s, recent)
           n == Cardinality(recent)
           t == Append(kept, now)
           u == Append(o, now)
<1>1. /\ Len(s) \in Nat /\ DOMAIN s = 1..Len(s) /\ \A i \in 1..Len(s) : s[i] \in 1..MaxNow
      /\ Len(o) \in Nat
  BY LenProperties, ElementOfSeq
<1>2. recent \in SUBSET (1..Len(s))
  BY <1>1
<1>3. \A i \in recent : now - s[i] <= window_duration
  OBVIOUS
<1> HIDE DEF recent
<1>4. kept \in Seq(1..MaxNow) /\ n \in Nat /\ Len(kept) = n
  <2> DEFINE T == 1..MaxNow
  <2>1. s \in Seq(T)
    OBVIOUS
  <2> HIDE DEF T
  <2>2. Keep(s, recent) \in Seq(T) /\ Cardinality(recent) \in Nat /\ Len(Keep(s, recent)) = Cardinality(recent)
    BY <1>2, <2>1, KeepProperties
  <2> QED
    BY <2>2 DEF T
<1>5. PICK at \in [1..n -> recent] :
        /\ \A k \in 1..n : kept[k] = s[at[k]]
        /\ \A k, l \in 1..n : at[k] = at[l] => k = l
  BY <1>2, KeepProperties
<1>6. PICK g \in [1..Len(s) -> 1..Len(o)] :
        /\ \A k \in 1..Len(s) : s[k] = o[g[k]]
        /\ \A k, l \in 1..Len(s) : g[k] = g[l] => k = l
  BY DEF Among
<1>7. RecordFailure(s) = t
  BY DEF RecordFailure, recent
<1> HIDE DEF kept, n
<1>8. /\ t \in Seq(1..MaxNow) /\ Len(t) = n + 1
      /\ \A k \in 1..n : t[k] = kept[k]
      /\ t[n + 1] = now
  BY <1>4, AppendProperties
<1>9. /\ u \in Seq(1..MaxNow) /\ Len(u) = Len(o) + 1
      /\ \A k \in 1..Len(o) : u[k] = o[k]
      /\ u[Len(o) + 1] = now
  BY AppendProperties
<1> HIDE DEF t, u
<1> DEFINE h == [k \in 1..(n + 1) |-> IF k = n + 1 THEN Len(o) + 1 ELSE g[at[k]]]
<1>10. ASSUME NEW k \in 1..n
       PROVE  /\ at[k] \in recent /\ at[k] \in 1..Len(s) /\ g[at[k]] \in 1..Len(o) /\ h[k] = g[at[k]]
              /\ k \in Nat /\ k < n + 1
  <2>1. k \in Nat /\ k < n + 1 /\ k # n + 1 /\ k \in 1..(n + 1)
    BY <1>4
  <2>2. at[k] \in recent /\ at[k] \in 1..Len(s)
    BY <1>2, <1>5
  <2>3. g[at[k]] \in 1..Len(o)
    BY <1>6, <2>2
  <2> QED
    BY <2>1, <2>2, <2>3
<1>11. h[n + 1] = Len(o) + 1 /\ n + 1 \in 1..(n + 1)
  BY <1>4
<1>12. \A k \in 1..(n + 1) : k \in 1..n \/ k = n + 1
  BY <1>4
<1>13. \A i \in 1..Len(o) : i \in 1..(Len(o) + 1) /\ i # Len(o) + 1
  BY <1>1
<1>14. Len(o) + 1 \in 1..(Len(o) + 1) /\ DOMAIN h = 1..(n + 1) /\ h = [k \in 1..(n + 1) |-> h[k]]
  BY <1>1
<1> HIDE DEF h
<1>15. h \in [1..(n + 1) -> 1..(Len(o) + 1)]
  <2>1. \A k \in 1..(n + 1) : h[k] \in 1..(Len(o) + 1)
    BY <1>10, <1>11, <1>12, <1>13, <1>14
  <2> QED
    BY <1>14, <2>1
<1>16. ASSUME NEW k \in 1..n PROVE t[k] = u[h[k]] /\ now - t[k] <= window_duration
  <2>1. t[k] = s[at[k]] /\ s[at[k]] = o[g[at[k]]]
    BY <1>5, <1>6, <1>8, <1>10
  <2> QED
    BY <1>3, <1>9, <1>10, <2>1
<1>17. \A k \in 1..(n + 1) : t[k] = u[h[k]]
  BY <1>8, <1>9, <1>11, <1>12, <1>16
<1>18. ASSUME NEW k \in 1..(n + 1), NEW l \in 1..(n + 1), h[k] = h[l] PROVE k = l
  <2>1. CASE k \in 1..n /\ l \in 1..n
    <3>1. g[at[k]] = g[at[l]]
      BY <1>10, <1>18, <2>1
    <3>2. at[k] = at[l]
      BY <1>6, <1>10, <2>1, <3>1
    <3> QED
      BY <1>5, <2>1, <3>2
  <2>2. CASE k \in 1..n /\ l = n + 1
    BY <1>10, <1>11, <1>13, <1>18, <2>2
  <2>3. CASE k = n + 1 /\ l \in 1..n
    BY <1>10, <1>11, <1>13, <1>18, <2>3
  <2> QED
    BY <1>12, <2>1, <2>2, <2>3
<1>19. Among(t, u)
  <2>1. h \in [1..Len(t) -> 1..Len(u)]
    BY <1>8, <1>9, <1>15
  <2>2. /\ \A k \in 1..Len(t) : t[k] = u[h[k]]
        /\ \A k, l \in 1..Len(t) : h[k] = h[l] => k = l
    BY <1>8, <1>17, <1>18
  <2> QED
    BY <2>1, <2>2 DEF Among
<1>20. now - now <= window_duration
  BY BanAssumption
<1>21. \A k \in 1..(n + 1) : now - t[k] <= window_duration
  BY <1>8, <1>12, <1>16, <1>20
<1> QED
  BY <1>7, <1>8, <1>9, <1>19, <1>21 DEF u

\* So there are at least as many recent offences as strikes.
LEMMA StrikesCount ==
  ASSUME now \in 1..MaxNow, NEW s \in Seq(1..MaxNow), NEW o \in Seq(1..MaxNow), Among(s, o),
         \A k \in 1..Len(s) : now - s[k] <= window_duration
  PROVE  Len(s) <= Cardinality({i \in DOMAIN o : now - o[i] <= window_duration})
<1> DEFINE R == {i \in DOMAIN o : now - o[i] <= window_duration}
           n == Len(s)
           P == 1..n
<1>1. n \in Nat /\ Len(o) \in Nat /\ DOMAIN o = 1..Len(o)
  BY LenProperties
<1>2. IsFiniteSet(R)
  <2>1. IsFiniteSet(1..Len(o))
    BY <1>1, FS_Interval
  <2>2. R \in SUBSET (1..Len(o))
    BY <1>1
  <2> QED
    BY <2>1, <2>2, FS_Subset
<1>3. PICK g \in [P -> 1..Len(o)] :
        /\ \A k \in P : s[k] = o[g[k]]
        /\ \A k, l \in P : g[k] = g[l] => k = l
  BY DEF Among
<1>4. \A k \in P : g[k] \in R
  BY <1>1, <1>3
<1> HIDE DEF R
<1>5. g \in [P -> R]
  BY <1>3, <1>4
<1>6. g \in Injection(P, R)
  BY <1>3, <1>5 DEF Injection, IsInjective
<1>7. Cardinality(P) = n
  <2> HIDE DEF n
  <2>1. Cardinality(1..n) = IF 1 > n THEN 0 ELSE n - 1 + 1
    BY <1>1, FS_Interval
  <2> QED
    BY <1>1, <2>1
<1>8. Cardinality(P) <= Cardinality(R)
  BY <1>2, <1>6, FS_Injection
<1> QED
  BY <1>7, <1>8 DEF R

\* Only an invalid signature adds to the two records, and what clears the
\* offences clears the strikes.
LEMMA NextTracked ==
  ASSUME Types, Tracked, StrikesAreOffences, [Next]_vars
  PROVE  Tracked' /\ StrikesAreOffences'
<1>0. now \in 1..MaxNow
  BY DEF Types
<1>1. CASE UNCHANGED <<strikes, offences, crashes, forgotten, stored>>
  BY <1>1 DEF Tracked, StrikesAreOffences
<1>2. \A p \in Peers : strikes[p] \in Seq(1..MaxNow) /\ offences[p] \in Seq(1..MaxNow)
  BY DEF Tracked
<1>3. Among(<<>>, <<>>) /\ <<>> \in Seq(1..MaxNow)
  <2>1. Len(<<>>) = 0 /\ <<>> \in Seq(1..MaxNow)
    BY EmptySeq
  <2>2. \A k \in 1..0 : FALSE
    OBVIOUS
  <2>3. [k \in 1..0 |-> 0] \in [1..0 -> 1..0]
    BY <2>2
  <2> QED
    BY <2>1, <2>2, <2>3 DEF Among
<1>4. CASE Crash
  <2>1. /\ strikes' = [p \in Peers |-> <<>>] /\ offences' = [p \in Peers |-> <<>>]
        /\ crashes' = crashes + 1 /\ crashes < MaxCrashes /\ forgotten' = {} /\ stored' = stored
    BY <1>4 DEF Crash
  <2>2. crashes' \in 0..MaxCrashes
    BY <2>1, BanAssumption DEF Tracked
  <2>3. Tracked'
    BY <1>3, <2>1, <2>2 DEF Tracked
  <2> QED
    BY <1>3, <2>1, <2>3 DEF StrikesAreOffences
<1>5. CASE PruneStalePeers
  BY <1>5 DEF PruneStalePeers, Tracked, StrikesAreOffences
<1>6. CASE BanInMemory
  BY <1>6 DEF BanInMemory, Tracked, StrikesAreOffences
<1>7. CASE SaveBan
  <2>1. handler.expires \in Times /\ handler.peer \in Peers
    BY <1>7 DEF SaveBan, Types
  <2>2. /\ UNCHANGED <<strikes, offences, crashes, forgotten>>
        /\ stored' = [stored EXCEPT ![handler.peer] = handler.expires] \/ stored' = stored
    BY <1>7 DEF SaveBan
  <2> QED
    BY <2>1, <2>2 DEF Tracked, StrikesAreOffences
<1>8. ASSUME NEW p \in Peers, AcceptSignature(p) PROVE Tracked' /\ StrikesAreOffences'
  <2>1. /\ strikes' = [strikes EXCEPT ![p] = <<>>] /\ offences' = [offences EXCEPT ![p] = <<>>]
        /\ UNCHANGED <<crashes, forgotten, stored>>
    BY <1>8 DEF AcceptSignature
  <2>2. Tracked'
    BY <1>3, <2>1 DEF Tracked
  <2>3. \A q \in Peers : Among(strikes'[q], offences'[q])
    BY <1>3, <2>1 DEF Tracked, StrikesAreOffences
  <2> QED
    BY <2>2, <2>3 DEF StrikesAreOffences
<1>9. ASSUME NEW p \in Peers, RejectSignature(p) PROVE Tracked' /\ StrikesAreOffences'
  <2> DEFINE t == RecordFailure(strikes[p])
             u == Append(offences[p], now)
  <2>1. /\ strikes' = [strikes EXCEPT ![p] = t] /\ offences' = [offences EXCEPT ![p] = u]
        /\ UNCHANGED <<crashes, forgotten, stored>>
    BY <1>9 DEF RejectSignature
  <2>2. t \in Seq(1..MaxNow) /\ u \in Seq(1..MaxNow) /\ Among(t, u)
    BY <1>0, <1>2, RecordKeeps DEF StrikesAreOffences
  <2> HIDE DEF t, u
  <2>3. Tracked'
    BY <2>1, <2>2 DEF Tracked
  <2>4. \A q \in Peers : Among(strikes'[q], offences'[q])
    BY <2>1, <2>2 DEF Tracked, StrikesAreOffences
  <2> QED
    BY <2>3, <2>4 DEF StrikesAreOffences
<1>10. ASSUME \/ Tick \/ StartListener \/ LoadActiveBans \/ ReadClock \/ RestoreEnds \/ CheckBanExpirations
              \/ \E p \in Peers : RestoreBan(p) \/ Observe(p) \/ PenaliseDuplicate(p) \/ Reward(p) \/ RemoveBan(p)
       PROVE  UNCHANGED <<strikes, offences, crashes, forgotten, stored>>
  BY <1>10 DEF Tick, StartListener, LoadActiveBans, ReadClock, RestoreBan, RestoreEnds, CheckBanExpirations, Observe,
               PenaliseDuplicate, Reward, RemoveBan, history
<1>11. UNCHANGED vars => UNCHANGED <<strikes, offences, crashes, forgotten, stored>>
  BY DEF vars
<1> QED
  BY <1>1, <1>4, <1>5, <1>6, <1>7, <1>8, <1>9, <1>10, <1>11 DEF Next

LEMMA InitTracked == Init => Tracked /\ StrikesAreOffences
<1> SUFFICES ASSUME Init PROVE Tracked /\ StrikesAreOffences
  OBVIOUS
<1>1. Len(<<>>) = 0 /\ <<>> \in Seq(1..MaxNow)
  BY EmptySeq
<1>2. \A k \in 1..0 : FALSE
  OBVIOUS
<1>3. [k \in 1..0 |-> 0] \in [1..0 -> 1..0]
  BY <1>2
<1>4. Among(<<>>, <<>>)
  BY <1>1, <1>2, <1>3 DEF Among
<1>5. 0 \in Times /\ 0 \in 0..MaxCrashes
  BY BanAssumption DEF Times
<1>6. Tracked
  BY <1>1, <1>5 DEF Init, Tracked
<1> QED
  BY <1>4, <1>6 DEF Init, StrikesAreOffences

\* Peer list, tables, handler and histories keep their types: above all, only a
\* known peer is banned, and restore_bans_from_db reckons with a past clock.
THEOREM TypeCorrect == Spec => []TypeOK
<1>1. Init => Types /\ Tracked /\ StrikesAreOffences
  BY InitTypes, InitTracked
<1>2. Types /\ Tracked /\ StrikesAreOffences /\ [Next]_vars => (Types /\ Tracked /\ StrikesAreOffences)'
  BY NextTypes, NextTracked
<1>3. Types /\ Tracked => TypeOK
  BY DEF Types, Tracked, TypeOK
<1> QED
  BY <1>1, <1>2, <1>3, PTL DEF Spec

\* The step that starts a ban has counted enough offences.
LEMMA CauseOfBan ==
  ASSUME Types, Tracked, StrikesAreOffences, [Next]_vars,
         handler.stage = "idle", handler'.stage = "ban"
  PROVE  Cardinality({i \in DOMAIN offences'[handler'.peer] :
                        now - offences'[handler'.peer][i] <= window_duration}) > max_strikes
<1>0. now \in 1..MaxNow
  BY DEF Types
<1>1. ASSUME NEW p \in Peers, RejectSignature(p)
      PROVE  Cardinality({i \in DOMAIN offences'[handler'.peer] :
                            now - offences'[handler'.peer][i] <= window_duration}) > max_strikes
  <2> DEFINE t == RecordFailure(strikes[p])
             u == Append(offences[p], now)
             R == {i \in DOMAIN u : now - u[i] <= window_duration}
  <2>1. /\ strikes' = [strikes EXCEPT ![p] = t] /\ offences' = [offences EXCEPT ![p] = u]
        /\ \/ Len(strikes'[p]) > max_strikes /\ handler'.peer = p
           \/ handler' = handler
    BY <1>1 DEF RejectSignature
  <2>2. /\ strikes[p] \in Seq(1..MaxNow) /\ offences[p] \in Seq(1..MaxNow) /\ Among(strikes[p], offences[p])
        /\ strikes \in [Peers -> Seq(1..MaxNow)] /\ offences \in [Peers -> Seq(1..MaxNow)]
    BY DEF Tracked, StrikesAreOffences
  <2>3. /\ t \in Seq(1..MaxNow) /\ u \in Seq(1..MaxNow) /\ Among(t, u)
        /\ \A k \in 1..Len(t) : now - t[k] <= window_duration
    BY <1>0, <2>2, RecordKeeps
  <2> HIDE DEF t, u
  <2>4. Len(t) <= Cardinality(R) /\ Len(t) \in Nat
    BY <1>0, <2>3, StrikesCount, LenProperties
  <2>5. strikes'[p] = t /\ offences'[p] = u
    BY <2>1, <2>2
  <2>6. Len(t) > max_strikes /\ handler'.peer = p
    BY <2>1, <2>5
  <2>7. Cardinality(R) \in Nat
    <3>1. Len(u) \in Nat /\ DOMAIN u = 1..Len(u)
      BY <2>3, LenProperties
    <3>2. IsFiniteSet(1..Len(u))
      BY <3>1, FS_Interval
    <3>3. R \in SUBSET (1..Len(u))
      BY <3>1
    <3> QED
      BY <3>2, <3>3, FS_Subset, FS_CardinalityType
  <2>8. Cardinality(R) > max_strikes
    <3> HIDE DEF R
    <3> QED
      BY <2>4, <2>6, <2>7, BanAssumption
  <2> QED
    BY <2>5, <2>6, <2>8
<1>2. ASSUME \/ Tick \/ StartListener \/ LoadActiveBans \/ ReadClock \/ RestoreEnds \/ CheckBanExpirations
             \/ PruneStalePeers \/ UNCHANGED vars
             \/ \E p \in Peers : \/ RestoreBan(p) \/ Observe(p) \/ PenaliseDuplicate(p) \/ Reward(p)
                                \/ AcceptSignature(p) \/ RemoveBan(p)
      PROVE  handler' = handler
  BY <1>2 DEF Tick, StartListener, LoadActiveBans, ReadClock, RestoreBan, RestoreEnds, CheckBanExpirations, Observe, PruneStalePeers,
              PenaliseDuplicate, Reward, AcceptSignature, RemoveBan, vars
<1>3. ~Crash /\ ~BanInMemory /\ ~SaveBan
  BY DEF Crash, BanInMemory, SaveBan, Idle
<1> QED
  BY <1>1, <1>2, <1>3 DEF Next

\* BannedForCause, for every set of peers, every window and every threshold:
\* process_transaction_envelope starts a ban only when more than max_strikes
\* invalid signatures since the last valid one are within the window, however
\* often retain has thinned the record out.
THEOREM BansHaveCause == Spec => BannedForCause
<1>1. Init => Types /\ Tracked /\ StrikesAreOffences
  BY InitTypes, InitTracked
<1>2. Types /\ Tracked /\ StrikesAreOffences /\ [Next]_vars => (Types /\ Tracked /\ StrikesAreOffences)'
  BY NextTypes, NextTracked
<1>3. Types /\ Tracked /\ StrikesAreOffences /\ [Next]_vars =>
        [\A p \in Peers :
           handler.stage = "idle" /\ handler'.stage = "ban" /\ handler'.peer = p
             => Cardinality({i \in DOMAIN offences'[p] : now - offences'[p][i] <= window_duration})
                  > max_strikes]_vars
  BY CauseOfBan
<1> QED
  BY <1>1, <1>2, <1>3, PTL DEF Spec, BannedForCause
=============================================================================
