------------------------- MODULE PeerDirectoryProofs -------------------------
(***************************************************************************)
(* What the tables of a node keep, for every set of peers, messages and    *)
(* transactions and every age limit, through crashes at any point.         *)
(*                                                                         *)
(* The pruner marks peers without the lock on the list.  That it marks     *)
(* only peers which went stale rests on what it has still to mark: those   *)
(* peers stay blamed even when they are saved meanwhile (LostIsBlamed).    *)
(***************************************************************************)
EXTENDS PeerDirectory, SequenceTheorems, TLAPS

\* Whom the sweep has still to mark went stale and was not cleared since.
LostIsBlamed == lost \subseteq blame

\* Only accepted sequences are stored, none of them negative.
StoredIsAccepted ==
  \A t \in Transactions : proofs[t] = accepted[t] /\ \A n \in proofs[t] : n >= 0

\* Ages are told apart from their absence.
LEMMA Ages ==
  /\ StalePeer \in Nat /\ OldestMessage \in Nat /\ Absent \notin 0..StalePeer /\ Gone \notin -1..OldestMessage
  /\ MSG_MAX_AGE + 1 <= OldestMessage
  /\ \A a \in 0..StalePeer \cup {Absent} : Older(a, Absent, StalePeer) \in 0..StalePeer \cup {Absent}
  /\ \A a \in -1..OldestMessage \cup {Gone} :
       /\ Older(a, Gone, OldestMessage) \in -1..OldestMessage \cup {Gone}
       /\ Older(a, Gone, OldestMessage) = Gone <=> a = Gone
BY DirectoryAssumption DEF StalePeer, OldestMessage, Absent, Gone, Older

LEMMA TypeInit == Init => TypeOK
<1>1. <<>> \in Seq(Peers) /\ Len(<<>>) = 0
  OBVIOUS
<1> QED
  BY <1>1, Ages, DirectoryAssumption DEF Init, TypeOK, None, Nobody

LEMMA TypeStep == TypeOK /\ [Next]_vars => TypeOK'
<1> SUFFICES ASSUME TypeOK, [Next]_vars PROVE TypeOK'
  OBVIOUS
<1>1. ASSUME Tick PROVE TypeOK'
  <2>1. seen' \in [Peers -> 0..StalePeer \cup {Absent}]
    BY <1>1, Ages DEF Tick, TypeOK
  <2>2. pending' \in [Messages -> -1..OldestMessage \cup {Gone}]
    BY <1>1, Ages DEF Tick, TypeOK
  <2>3. cutoff' \in MSG_MAX_AGE..(MSG_MAX_AGE + MaxDelay)
    BY <1>1, DirectoryAssumption DEF Tick, TypeOK
  <2> QED
    BY <1>1, <2>1, <2>2, <2>3 DEF Tick, TypeOK
<1>2. ASSUME NEW p \in Peers, HandleAdvertisement(p) \/ HandleServiceResolved(p) \/ ServiceResolved(p)
      PROVE  TypeOK'
  <2>1. 0 \in 0..StalePeer
    BY Ages
  <2> QED
    BY <1>2, <2>1 DEF HandleAdvertisement, HandleServiceResolved, ServiceResolved, InsertOrUpdate, tables, TypeOK
<1>3. ASSUME SendDiscovered PROVE TypeOK'
  <2>1. held \in Peers /\ channel \in Seq(Peers) /\ Len(channel) < ChannelCapacity
    BY <1>3 DEF SendDiscovered, TypeOK
  <2>2. Append(channel, held) \in Seq(Peers) /\ Len(Append(channel, held)) <= ChannelCapacity
    BY <2>1, DirectoryAssumption
  <2> QED
    BY <1>3, <2>2 DEF SendDiscovered, tables, TypeOK
<1>4. ASSUME ConsumeDiscovered PROVE TypeOK'
  <2>1. channel \in Seq(Peers) /\ channel # <<>> /\ Len(channel) <= ChannelCapacity
    BY <1>4 DEF ConsumeDiscovered, TypeOK
  <2>2. Head(channel) \in Peers /\ Tail(channel) \in Seq(Peers) /\ Len(Tail(channel)) <= ChannelCapacity
    BY <2>1, DirectoryAssumption
  <2>3. 0 \in 0..StalePeer
    BY Ages
  <2> QED
    BY <1>4, <2>2, <2>3 DEF ConsumeDiscovered, InsertOrUpdate, tables, TypeOK
<1>5. ASSUME SearchStopped PROVE TypeOK'
  BY <1>5 DEF SearchStopped, tables, TypeOK
<1>6. ASSUME BackgroundPruning \/ PrunePeers PROVE TypeOK'
  BY <1>6, Ages DEF BackgroundPruning, PrunePeers, PruneStalePeers, Stale, tables, TypeOK
<1>7. ASSUME NEW p \in Peers, MarkPeerOffline(p) PROVE TypeOK'
  BY <1>7 DEF MarkPeerOffline, TypeOK
<1>8. ASSUME ReadCutoff \/ DeleteOld \/ DeleteFails PROVE TypeOK'
  BY <1>8, DirectoryAssumption DEF ReadCutoff, DeleteOld, DeleteFails, tables, TypeOK
<1>9. ASSUME NEW p \in Peers, NEW b \in BOOLEAN, SavePeer(p, b) PROVE TypeOK'
  BY <1>9 DEF SavePeer, memory, TypeOK
<1>10. ASSUME NEW m \in Messages, DeleteEnvelope(m) PROVE TypeOK'
  BY <1>10 DEF DeleteEnvelope, memory, TypeOK
<1>11. ASSUME NEW m \in Messages, NEW age \in SavedAges, SaveEnvelope(m, age) PROVE TypeOK'
  <2>1. age \in -1..OldestMessage
    BY Ages, DirectoryAssumption
  <2> QED
    BY <1>11, <2>1 DEF SaveEnvelope, memory, TypeOK
<1>12. ASSUME NEW t \in Transactions, NEW n \in Sequences64, SaveRelayProof(t, n) PROVE TypeOK'
  BY <1>12 DEF SaveRelayProof, memory, TypeOK
<1>13. ASSUME Crash PROVE TypeOK'
  <2>1. <<>> \in Seq(Peers) /\ Len(<<>>) = 0
    OBVIOUS
  <2>2. MSG_MAX_AGE \in MSG_MAX_AGE..(MSG_MAX_AGE + MaxDelay) /\ 0 <= ChannelCapacity
    BY DirectoryAssumption
  <2> QED
    BY <1>13, <2>1, <2>2 DEF Crash, tables, TypeOK
<1>14. ASSUME Start PROVE TypeOK'
  BY <1>14 DEF Start, tables, TypeOK
<1>15. CASE UNCHANGED vars
  BY <1>15 DEF vars, memory, tables, TypeOK
<1> QED
  BY <1>1, <1>2, <1>3, <1>4, <1>5, <1>6, <1>7, <1>8, <1>9, <1>10, <1>11, <1>12, <1>13, <1>14, <1>15
     DEF Next, Discovery, Sweep, Host
-----------------------------------------------------------------------------
\* The directory is well typed in every state: the channel of discovered
\* peers keeps to its capacity, and a sweep has peers to mark only while it
\* marks.
THEOREM TypeCorrect == Spec => []TypeOK
BY TypeInit, TypeStep, PTL DEF Spec

\* Whoever is banned on disk was saved as banned, or went stale before a sweep
\* that had not finished when the peer was last saved.
THEOREM DiskBansExplained == Spec => []BannedOnDiskExplained
<1> DEFINE Inv == LostIsBlamed /\ BannedOnDiskExplained
<1> USE DEF LostIsBlamed, BannedOnDiskExplained, LoadedBanned, LoadAllPeers
<1>1. Init => Inv
  BY DEF Init, None
<1>2. TypeOK /\ Inv /\ [Next]_vars => Inv'
  <2> SUFFICES ASSUME TypeOK, Inv, [Next]_vars PROVE Inv'
    OBVIOUS
  <2>1. ASSUME UNCHANGED <<lost, rows, blame>> PROVE Inv'
    BY <2>1
  <2>2. ASSUME PrunePeers PROVE Inv'
    BY <2>2 DEF PrunePeers, tables
  <2>3. ASSUME NEW p \in Peers, MarkPeerOffline(p) PROVE Inv'
    BY <2>3 DEF MarkPeerOffline, TypeOK, None
  <2>4. ASSUME NEW p \in Peers, NEW b \in BOOLEAN, SavePeer(p, b) PROVE Inv'
    BY <2>4 DEF SavePeer, memory, TypeOK
  <2>5. ASSUME Crash PROVE Inv'
    BY <2>5 DEF Crash, tables
  <2> QED
    BY <2>1, <2>2, <2>3, <2>4, <2>5 DEF Next, Discovery, Sweep, Host, vars, memory, tables, Tick,
       HandleAdvertisement, HandleServiceResolved, ServiceResolved, SendDiscovered, ConsumeDiscovered,
       SearchStopped, BackgroundPruning, ReadCutoff, DeleteOld, DeleteFails, DeleteEnvelope,
       SaveEnvelope, SaveRelayProof, Start
<1> QED
  BY <1>1, <1>2, TypeInit, TypeStep, PTL DEF Spec

\* A relay proof that was accepted reads back as it was saved, after any
\* number of restarts.
THEOREM AcceptedReadsBack == Spec => []ProofsReadBack
<1> DEFINE Inv == /\ proofs \in [Transactions -> SUBSET Nat]
                  /\ accepted \in [Transactions -> SUBSET Nat]
                  /\ StoredIsAccepted
<1> USE DEF StoredIsAccepted
<1>1. Init => Inv
  BY DEF Init
<1>2. Inv /\ [Next]_vars => Inv'
  <2> SUFFICES ASSUME Inv, [Next]_vars PROVE Inv'
    OBVIOUS
  <2>1. ASSUME UNCHANGED <<proofs, accepted>> PROVE Inv'
    BY <2>1
  <2>2. ASSUME NEW t \in Transactions, NEW n \in Sequences64, SaveRelayProof(t, n) PROVE Inv'
    <3>1. n \in Nat
      BY DirectoryAssumption
    <3> QED
      BY <2>2, <3>1 DEF SaveRelayProof
  <2> QED
    BY <2>1, <2>2 DEF Next, Discovery, Sweep, Host, vars, memory, tables, Tick,
       HandleAdvertisement, HandleServiceResolved, ServiceResolved, SendDiscovered, ConsumeDiscovered,
       SearchStopped, BackgroundPruning, PrunePeers, MarkPeerOffline, ReadCutoff, DeleteOld, DeleteFails,
       SavePeer, DeleteEnvelope, SaveEnvelope, Crash, Start
<1>3. Inv => ProofsReadBack
  BY DEF ProofsReadBack, GetRelayProof
<1> QED
  BY <1>1, <1>2, <1>3, PTL DEF Spec

\* A message leaves pending_messages only when the host deletes it or when it
\* is too old, however long the deletion takes and wherever the process ends.
THEOREM PendingIsKept == Spec => PendingKept
<1> DEFINE Kept == \A m \in Messages :
                     m \in LoadPendingEnvelopes /\ m \notin LoadPendingEnvelopes' =>
                       DeleteEnvelope(m) \/ pending[m] > MSG_MAX_AGE
<1>1. TypeOK /\ [Next]_vars => [Kept]_vars
  <2> SUFFICES ASSUME TypeOK, [Next]_vars, NEW m \in Messages, pending[m] # Gone, pending'[m] = Gone,
                      ~DeleteEnvelope(m)
               PROVE  pending[m] > MSG_MAX_AGE
    BY DEF LoadPendingEnvelopes
  <2>1. ~Tick
    BY Ages DEF Tick, TypeOK
  <2>2. ASSUME NEW k \in Messages, DeleteEnvelope(k) PROVE FALSE
    BY <2>2 DEF DeleteEnvelope, TypeOK
  <2>3. ASSUME NEW k \in Messages, NEW age \in SavedAges, SaveEnvelope(k, age) PROVE FALSE
    BY <2>3 DEF SaveEnvelope, TypeOK
  <2>4. ASSUME DeleteOld PROVE pending[m] > MSG_MAX_AGE
    BY <2>4, Ages, DirectoryAssumption DEF DeleteOld, TypeOK
  <2> QED
    BY <2>1, <2>2, <2>3, <2>4 DEF Next, Discovery, Sweep, Host, vars, memory, tables,
       HandleAdvertisement, HandleServiceResolved, ServiceResolved, SendDiscovered, ConsumeDiscovered,
       SearchStopped, BackgroundPruning, PrunePeers, MarkPeerOffline, ReadCutoff, DeleteFails,
       SavePeer, SaveRelayProof, Crash, Start
<1> QED
  BY <1>1, TypeInit, TypeStep, PTL DEF Spec, PendingKept
=============================================================================
