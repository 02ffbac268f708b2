-------------------------- MODULE TransportManager --------------------------
(***************************************************************************)
(* The connection table, the listeners and the power saving of             *)
(* src/transport/unified.rs and src/transport/power.rs.                    *)
(*                                                                         *)
(* Callers hold the manager's mutex for a whole call (send_to, recv_any,   *)
(* power_tick), so one call is in progress at a time; it is split where it *)
(* flushes queued messages.  The two listener tasks run beside it: they    *)
(* read peer_count and fill a channel.  A caller may drop a call that      *)
(* takes too long; what that leaves behind is one of the ways it can fail. *)
(*                                                                         *)
(* Of time the manager needs two things: whether the clock is in the       *)
(* synchronized wake window, and whether it has been idle for              *)
(* IDLE_SLEEP_TIMEOUT.                                                     *)
(***************************************************************************)
EXTENDS Naturals, Sequences, FiniteSets

CONSTANTS Peers,
          max_peers,
          ChannelCapacity,    \* of the two channels of accepted connections
          MayFail,            \* may a connection fail?
          MaxSends            \* bound on the number of messages sent

ASSUME TransportAssumption ==
  /\ max_peers \in Nat \ {0} /\ ChannelCapacity \in Nat \ {0}
  /\ MayFail \in BOOLEAN
  /\ MaxSends \in Nat

Listeners == {"wifi", "ble"}

VARIABLES table,      \* active_connections and peer_count
          arriving,   \* the channels from the listeners to the manager
          holding,    \* the connections the listeners have accepted but not handed over
          stopped,    \* has shutdown been called?
          mode,       \* PowerManager.mode (state follows it)
          armed,      \* PowerManager.pending_outbound_transaction
          idle,       \* idle_for >= IDLE_SLEEP_TIMEOUT
          window,     \* is_awake_window
          pending,    \* pending_messages
          call,       \* the call in progress
          sends,      \* number of messages sent so far
          accepted,   \* history: transactions for which send_to returned Ok
          delivered,  \* history: messages handed to a connection
          dropped,    \* history: queued transactions that were thrown away
          aborted     \* history: has a flush ever failed?

vars == <<table, arriving, holding, stopped, mode, armed, idle, window, pending, call, sends,
          accepted, delivered, dropped, aborted>>

Free == [kind |-> "none", stage |-> "free", peer |-> "none", msg |-> 0, type |-> "none"]

Connected(t) == {p \in Peers : t.conns[p] # "none"}
-----------------------------------------------------------------------------
(* The connection table. *)

\* Faulty variant of Insert: a replaced connection is counted again.
InsertCounting(t, p, transport) == [conns |-> [t.conns EXCEPT ![p] = transport], count |-> t.count + 1]

\* active_connections.insert, counting a new slot
Insert(t, p, transport) ==
  [conns |-> [t.conns EXCEPT ![p] = transport],
   count |-> IF t.conns[p] = "none" THEN t.count + 1 ELSE t.count]

\* active_connections.remove, giving the slot back
Remove(t, p) ==
  [conns |-> [t.conns EXCEPT ![p] = "none"],
   count |-> IF t.conns[p] = "none" THEN t.count ELSE t.count - 1]

\* BrokenPipe: the connection is removed; ble_fallback succeeds or fails.
BleFallback(t, p) == {Insert(Remove(t, p), p, "ble"), Remove(t, p)}

\* send_now: the tables that may result, with the outcome of the send.
SendNow(t, p) ==
  IF p \notin Connected(t) THEN {[ok |-> FALSE, table |-> t]}
  ELSE {[ok |-> TRUE, table |-> t]}
         \cup IF MayFail
              THEN {[ok |-> FALSE, table |-> t]}
                     \cup {[ok |-> ok, table |-> Insert(Remove(t, p), p, "ble")] : ok \in BOOLEAN}
                     \cup {[ok |-> FALSE, table |-> Remove(t, p)]}
              ELSE {}

\* Connections in order of arrival enter the table.
RegisterAll(t, ps, transport) ==
  LET new == {ps[i] : i \in DOMAIN ps}
  IN  [conns |-> [p \in Peers |-> IF p \in new THEN transport ELSE t.conns[p]],
       count |-> t.count + Cardinality(new \ Connected(t))]

Queued == {pending[i].msg : i \in DOMAIN pending}

Asleep == mode = "SynchronizedLowPower" /\ ~window
-----------------------------------------------------------------------------
Init ==
  /\ table = [conns |-> [p \in Peers |-> "none"], count |-> 0]
  /\ arriving = [l \in Listeners |-> <<>>]
  /\ holding = [l \in Listeners |-> {}]
  /\ stopped = FALSE
  /\ mode = "HighPower"
  /\ armed = FALSE
  /\ idle = FALSE
  /\ window \in BOOLEAN
  /\ pending = <<>>
  /\ call = Free
  /\ sends = 0
  /\ accepted = {} /\ delivered = {} /\ dropped = {}
  /\ aborted = FALSE

history == <<sends, accepted, delivered, dropped, aborted>>

\* The wake window opens or closes; the idle timeout passes.  A call works
\* with the time at which it was made.
WindowChanges ==
  /\ call = Free
  /\ window' = ~window
  /\ UNCHANGED <<stopped, table, arriving, holding, mode, armed, idle, pending, call, history>>

BecomeIdle ==
  /\ call = Free
  /\ ~idle
  /\ idle' = TRUE
  /\ UNCHANGED <<stopped, table, arriving, holding, mode, armed, window, pending, call, history>>

\* The listeners' check, on the shared counter.
MayAccept == table.count < max_peers

\* A listener accepts a connection below the limit, whoever it is from: Wi-Fi
\* under a random name, BLE under the name given in the Handshake.
ListenerAccept(l, p) ==
  /\ ~stopped
  /\ holding[l] = {}
  /\ MayAccept
  /\ holding' = [holding EXCEPT ![l] = {p}]
  /\ UNCHANGED <<stopped, table, arriving, mode, armed, idle, window, pending, call, history>>

\* ... and hands it over, waiting while the channel is full.
ListenerSend(l) ==
  /\ Len(arriving[l]) < ChannelCapacity
  /\ \E p \in holding[l] : arriving' = [arriving EXCEPT ![l] = Append(@, p)]
  /\ holding' = [holding EXCEPT ![l] = {}]
  /\ UNCHANGED <<stopped, table, mode, armed, idle, window, pending, call, history>>

\* register_inbound, called by the daemon for each Wi-Fi connection.
RegisterInbound ==
  /\ call = Free
  /\ arriving["wifi"] # <<>>
  /\ table' = Insert(table, Head(arriving["wifi"]), "wifi")
  /\ arriving' = [arriving EXCEPT !["wifi"] = Tail(@)]
  /\ UNCHANGED <<stopped, holding, mode, armed, idle, window, pending, call, history>>

\* connect: no limit, and it replaces a connection to the same peer.
Connect(p) ==
  /\ call = Free
  /\ \E transport \in {"wifi", "ble"} : table' = Insert(table, p, transport)
  /\ UNCHANGED <<stopped, arriving, holding, mode, armed, idle, window, pending, call, history>>

\* disconnect_peer
DisconnectPeer(p) ==
  /\ call = Free
  /\ p \in Connected(table)
  /\ table' = Remove(table, p)
  /\ UNCHANGED <<stopped, arriving, holding, mode, armed, idle, window, pending, call, history>>

\* shutdown: the listeners stop accepting, the table and the queue are cleared.
\* What is still in a channel may be registered afterwards.
Shutdown ==
  /\ call = Free
  /\ ~stopped
  /\ stopped' = TRUE
  /\ table' = [conns |-> [p \in Peers |-> "none"], count |-> 0]
  /\ pending' = <<>>
  /\ dropped' = dropped \cup Queued
  /\ UNCHANGED <<arriving, holding, mode, armed, idle, window, call, sends, accepted, delivered, aborted>>

\* notify_mac_rotated: the BLE connections go, the others stay.
NotifyMacRotated ==
  /\ call = Free
  /\ LET ble == {p \in Peers : table.conns[p] = "ble"}
     IN  /\ ble # {}
         /\ table' = [conns |-> [p \in Peers |-> IF p \in ble THEN "none" ELSE table.conns[p]],
                      count |-> table.count - Cardinality(ble)]
  /\ UNCHANGED <<stopped, arriving, holding, mode, armed, idle, window, pending, call, history>>

\* Faulty variant of WakeNetwork: it wakes at once, not in the window.
WakeAnytime(m) == m = "SynchronizedLowPower" /\ armed

\* PowerManager::tick: falling asleep, and whether to wake.
FallAsleep == IF idle /\ mode = "HighPower" THEN "SynchronizedLowPower" ELSE mode

WakeNetwork(m) == m = "SynchronizedLowPower" /\ armed /\ window

\* power_tick_at, with which every call begins: BLE connections are
\* registered, the power manager ticks, a wake-up starts a flush.
Begin(c) ==
  /\ call = Free
  /\ table' = RegisterAll(table, arriving["ble"], "ble")
  /\ arriving' = [arriving EXCEPT !["ble"] = <<>>]
  /\ \/ /\ WakeNetwork(FallAsleep)
        /\ mode' = "HighPower"
        /\ armed' = FALSE
        /\ idle' = FALSE
        /\ call' = [c EXCEPT !.stage = "flush"]
     \/ /\ ~WakeNetwork(FallAsleep)
        /\ mode' = FallAsleep
        /\ call' = [c EXCEPT !.stage = "act"]
        /\ UNCHANGED <<armed, idle>>
  /\ UNCHANGED <<stopped, holding, window, pending, accepted, delivered, dropped, aborted>>

BeginSend(p, type) ==
  /\ sends < MaxSends
  /\ sends' = sends + 1
  /\ Begin([kind |-> "send", stage |-> "begin", peer |-> p, msg |-> sends + 1, type |-> type])

BeginRecv ==
  /\ Begin([kind |-> "recv", stage |-> "begin", peer |-> "none", msg |-> 0, type |-> "none"])
  /\ UNCHANGED sends

BeginTick ==
  /\ Begin([kind |-> "tick", stage |-> "begin", peer |-> "none", msg |-> 0, type |-> "none"])
  /\ UNCHANGED sends

\* One message is popped and sent.  An error ends the whole call; the message
\* is gone and the rest stays queued.
Flush(item, rest) ==
  /\ pending' = rest
  /\ \E out \in SendNow(table, item.peer) :
       /\ table' = out.table
       /\ \/ /\ out.ok
             /\ delivered' = delivered \cup {item.msg}
             /\ UNCHANGED <<call, dropped, aborted>>
          \/ /\ ~out.ok
             /\ dropped' = dropped \cup {item.msg}
             /\ aborted' = TRUE
             /\ call' = Free
             /\ UNCHANGED delivered
  /\ UNCHANGED <<stopped, arriving, holding, mode, armed, idle, window, sends, accepted>>

\* Faulty variant of FlushOne: a message stays queued when it was sent.
FlushOneKeeping ==
  /\ call.stage = "flush" /\ pending # <<>>
  /\ Flush(Head(pending), pending)

\* Faulty variant of FlushOne: the newest queued message is popped.
FlushNewest ==
  /\ call.stage = "flush" /\ pending # <<>>
  /\ Flush(pending[Len(pending)], SubSeq(pending, 1, Len(pending) - 1))

\* The flush: the next queued message.
FlushOne ==
  /\ call.stage = "flush" /\ pending # <<>>
  /\ Flush(Head(pending), Tail(pending))

FlushDone ==
  /\ call.stage = "flush" /\ pending = <<>>
  /\ call' = [call EXCEPT !.stage = "act"]
  /\ UNCHANGED <<stopped, table, arriving, holding, mode, armed, idle, window, pending, history>>

\* Faulty variant of ActQueue: the power manager is not told.
ActQueueUnarmed ==
  /\ call.kind = "send" /\ call.stage = "act"
  /\ call.type = "Transaction" /\ Asleep
  /\ pending' = Append(pending, [peer |-> call.peer, msg |-> call.msg])
  /\ accepted' = accepted \cup {call.msg}
  /\ call' = Free
  /\ UNCHANGED <<stopped, table, arriving, holding, mode, armed, idle, window, sends, delivered, dropped, aborted>>

\* send_to_at: a transaction that has to wait for the wake window.
ActQueue ==
  /\ call.kind = "send" /\ call.stage = "act"
  /\ call.type = "Transaction" /\ Asleep
  /\ armed' = TRUE
  /\ pending' = Append(pending, [peer |-> call.peer, msg |-> call.msg])
  /\ accepted' = accepted \cup {call.msg}
  /\ call' = Free
  /\ UNCHANGED <<stopped, table, arriving, holding, mode, idle, window, sends, delivered, dropped, aborted>>

\* send_to_at: any other message is sent at once.  record_outbound_transaction
\* wakes the node, or arms the next wake-up when the radios are off.
ActSend ==
  /\ call.kind = "send" /\ call.stage = "act"
  /\ ~(call.type = "Transaction" /\ Asleep)
  /\ \/ Asleep /\ armed' = TRUE /\ UNCHANGED <<mode, idle>>
     \/ ~Asleep /\ mode' = "HighPower" /\ idle' = FALSE /\ UNCHANGED armed
  /\ \E out \in SendNow(table, call.peer) :
       /\ table' = out.table
       /\ delivered' = IF out.ok THEN delivered \cup {call.msg} ELSE delivered
       /\ accepted' = IF out.ok /\ call.type = "Transaction" THEN accepted \cup {call.msg} ELSE accepted
  /\ call' = Free
  /\ UNCHANGED <<stopped, arriving, holding, window, pending, sends, dropped, aborted>>

\* recv_any_at polls the connections in turn: nothing for the power manager to
\* note has arrived (a message that is not a transaction included), or one of
\* them is broken, or one has a transaction.  Asleep it polls nothing.  Several
\* broken connections in one call have the effect of several calls.
ActRecv ==
  /\ call.kind = "recv" /\ call.stage = "act"
  /\ \/ UNCHANGED <<table, mode, armed, idle>>
     \/ /\ ~Asleep /\ MayFail
        /\ \E p \in Connected(table) : \E t \in BleFallback(table, p) : table' = t
        /\ UNCHANGED <<mode, armed, idle>>
     \/ /\ ~Asleep /\ Connected(table) # {}
        /\ mode' = "HighPower" /\ armed' = FALSE /\ idle' = FALSE   \* record_incoming_transaction
        /\ UNCHANGED table
  /\ call' = Free
  /\ UNCHANGED <<stopped, arriving, holding, window, pending, history>>

ActTick ==
  /\ call.kind = "tick" /\ call.stage = "act"
  /\ call' = Free
  /\ UNCHANGED <<stopped, table, arriving, holding, mode, armed, idle, window, pending, history>>

Next ==
  \/ WindowChanges \/ BecomeIdle
  \/ \E l \in Listeners : ListenerSend(l) \/ \E p \in Peers : ListenerAccept(l, p)
  \/ RegisterInbound
  \/ NotifyMacRotated \/ Shutdown
  \/ \E p \in Peers :
       \/ Connect(p) \/ DisconnectPeer(p)
       \/ \E type \in {"Transaction", "SyncRequest"} : BeginSend(p, type)
  \/ BeginRecv \/ BeginTick
  \/ FlushOne \/ FlushDone
  \/ ActQueue \/ ActSend \/ ActRecv \/ ActTick

Spec == Init /\ [][Next]_vars
-----------------------------------------------------------------------------
Calls ==
  [kind : {"none", "send", "recv", "tick"}, stage : {"free", "begin", "flush", "act"},
   peer : Peers \cup {"none"}, msg : 0..MaxSends, type : {"none", "Transaction", "SyncRequest"}]

TypeOK ==
  /\ table \in [conns : [Peers -> {"none", "wifi", "ble"}], count : Nat]
  /\ arriving \in [Listeners -> Seq(Peers)]
  /\ \A l \in Listeners : Len(arriving[l]) <= ChannelCapacity
  /\ stopped \in BOOLEAN
  /\ holding \in [Listeners -> SUBSET Peers]
  /\ mode \in {"HighPower", "SynchronizedLowPower"}
  /\ armed \in BOOLEAN /\ idle \in BOOLEAN /\ window \in BOOLEAN
  /\ pending \in Seq([peer : Peers, msg : 1..MaxSends])
  /\ call \in Calls
  /\ sends \in 0..MaxSends
  /\ accepted \in SUBSET (1..MaxSends)
  /\ delivered \in SUBSET (1..MaxSends)
  /\ dropped \in SUBSET (1..MaxSends)
  /\ aborted \in BOOLEAN

\* peer_count mirrors active_connections.len(), through replacements, BLE
\* fallbacks and batches of inbound connections.
CountMirrors == table.count = Cardinality(Connected(table))

\* A transaction that send_to took is delivered once, still queued, or thrown
\* away by a flush that failed; none of them twice.
Accounted ==
  /\ accepted = (accepted \cap delivered) \cup Queued \cup dropped
  /\ Queued \cap (delivered \cup dropped) = {}
  /\ delivered \cap dropped = {}
  /\ Cardinality(Queued) = Len(pending)

\* As long as no flush has failed, queued transactions have a wake-up armed
\* and the node waits for it in low power.
WakeUpArmed ==
  pending # <<>> /\ ~aborted /\ call.stage # "flush" => armed /\ mode = "SynchronizedLowPower"

\* Asleep outside the wake window the node stays asleep, whatever arrives or
\* waits, and sends no transaction.
SilentAsleep ==
  [][Asleep => /\ mode' = mode
               /\ delivered' # delivered => call.type = "SyncRequest"]_vars

\* As long as no flush has failed, no transaction is overtaken: what send_to
\* has queued goes out before any transaction it took later, whether that one
\* is queued behind it or sent at once in the wake window.
NotOvertaken ==
  ~aborted => \A q \in Queued, m \in accepted \cap delivered : m < q
=============================================================================
