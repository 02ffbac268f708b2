------------------------------- MODULE Links -------------------------------
(***************************************************************************)
(* The two connections of src/transport: WifiDirectConnection              *)
(* (wifi_transport.rs), frames with a length prefix on a TCP stream, and   *)
(* the BLE pair BleCentral and BlePeripheral (ble_transport.rs), whose     *)
(* frames the platform carries.  Side "a" dials (or is the Central), side  *)
(* "b" accepts (or is the Peripheral).                                     *)
(*                                                                         *)
(* A connection is used through &mut self, so one call at a time is in     *)
(* progress on each side.  The manager cancels calls: recv_any gives recv  *)
(* one millisecond, a gossip round gives send a timeout.  A Wi-Fi call is  *)
(* therefore split at every await.                                         *)
(*                                                                         *)
(* A TCP stream is a sequence of whole prefixes, whole bodies and          *)
(* fragments of either.  Reading anything but the expected prefix or body  *)
(* takes bytes for what they are not; from then on the reader is out of    *)
(* step.  What it reads fails a check of read_frame, recv or receive_chunk *)
(* or has it wait for bytes that do not come, and the model no longer      *)
(* keeps it.                                                               *)
(*                                                                         *)
(* send of the BLE classes encodes its frames and leaves the radio to the  *)
(* platform integration, which is not part of the library.  Here it brings *)
(* frames across in any order, more than once, or never.                   *)
(***************************************************************************)
EXTENDS Chunking, Sequences

CONSTANTS Lens,           \* lengths of the messages sent
          InboxCapacity,  \* of the channel between ingest and recv
          MaxSends,       \* bound on the number of messages
          MaxConnects     \* bound on connects after the first

ASSUME LinksAssumption ==
  /\ Lens \subseteq Nat
  /\ InboxCapacity \in Nat \ {0} /\ MaxSends \in Nat /\ MaxConnects \in Nat

Sides == {"a", "b"}
Other(s) == IF s = "a" THEN "b" ELSE "a"

VARIABLES kind,      \* TransportType: "wifi" or "ble"
          from,      \* the side whose host sends
          conn,      \* ConnectionState of each side ("Dropped": no longer there)
          op,        \* the call in progress on each side
          broken,    \* Wi-Fi: the TCP connection was lost
          wire,      \* Wi-Fi: what each side has still to read
          torn,      \* Wi-Fi: is this side's reader out of step?
          air,       \* BLE: the frames sent to each side
          buffers,   \* each side's MessageReassembler
          inbox,     \* BLE: the channel between ingest and recv
          sent,      \* number of messages sent
          connects,  \* number of connects after the first
          finished,  \* history: messages whose send returned Ok, frames and all
          got,       \* history: the messages each side's recv returned
          clash,     \* history: did a message get the id of one under way?
          upset      \* history: was the connection closed or lost?

linkVars == <<kind, from, conn, op, broken, wire, torn, air, buffers, inbox, sent, connects,
              finished, got, clash, upset>>

history == <<finished, got, clash, upset>>

\* half: a prefix was written or read, its body not yet; result: did the last
\* call, if a send over Wi-Fi, return Ok?
Idle(result) == [do |-> "idle", frames |-> <<>>, half |-> FALSE, result |-> result]

Prefix == [part |-> "prefix", frame |-> {}]
Body(f) == [part |-> "body", frame |-> {f}]
Fragment == [part |-> "fragment", frame |-> {}]

ToSet(s) == {s[i] : i \in DOMAIN s}

\* The frames under way to side s, in the model's view of both transports.
UnderWay(s) ==
  air[s] \cup ToSet(op[Other(s)].frames) \cup UNION {wire[s][i].frame : i \in DOMAIN wire[s]}

\* Message ids under way to side s or waiting in its reassembler, with the
\* lengths they stand for.
Known(s) ==
  {<<f.message_id, f.total_length>> : f \in UnderWay(s)}
    \cup {<<id, buffers[s][id].total>> : id \in {i \in Ids : buffers[s][i] # NoBuffer}}

\* random::<u32>(): an id that was drawn before, or another.  Ids are numbered
\* in the order in which they are first drawn.
Drawn == {id \in Ids : id <= sent + 1}

Clash(s, id, len) ==
  IF clash = "full" \/ <<id, len>> \in Known(s) THEN "full"
  ELSE IF \E k \in Known(s) : k[1] = id THEN "length" ELSE clash
-----------------------------------------------------------------------------
\* connect_to and accept_from or from_stream; or BleCentral::new and
\* BlePeripheral::new.
Init ==
  /\ kind \in {"wifi", "ble"} /\ from \in Sides
  /\ conn = [s \in Sides |-> IF kind = "wifi" THEN "Connected" ELSE "Disconnected"]
  /\ op = [s \in Sides |-> Idle("none")]
  /\ broken = FALSE
  /\ wire = [s \in Sides |-> <<>>] /\ torn = [s \in Sides |-> FALSE]
  /\ air = [s \in Sides |-> {}] /\ inbox = [s \in Sides |-> <<>>]
  /\ buffers = [s \in Sides |-> NewReassembler]
  /\ sent = 0 /\ connects = 0
  /\ finished = {} /\ got = [s \in Sides |-> <<>>] /\ clash = "no" /\ upset = FALSE

Ready(s, k) == kind = k /\ op[s].do = "idle" /\ conn[s] = "Connected"

\* Is the other end of the TCP connection gone?
Cut(s) == broken \/ conn[Other(s)] # "Connected"
-----------------------------------------------------------------------------
(* Wi-Fi *)

\* send: the message is chunked.  One without frames is sent with that.
WifiSend(s, len, id) ==
  /\ Ready(s, "wifi") /\ sent < MaxSends
  /\ sent' = sent + 1
  /\ LET frames == Chunk(sent + 1, len, id)
     IN  /\ op' = [op EXCEPT ![s] = IF frames = <<>> THEN Idle("ok")
                                    ELSE [do |-> "send", frames |-> frames, half |-> FALSE, result |-> "none"]]
         /\ clash' = IF frames = <<>> THEN clash ELSE Clash(Other(s), id, len)
  /\ UNCHANGED <<kind, from, conn, broken, wire, torn, air, buffers, inbox, connects, finished, got, upset>>

\* The stream to side s with more bytes at its end, unless they get nowhere.
Sent(s, bytes) == [wire EXCEPT ![s] = IF torn[s] \/ broken THEN @ ELSE Append(@, bytes)]

\* write_frame hands the length to the TCP stack, which takes it also when
\* the connection is lost ...
WriteLength(s) ==
  /\ op[s].do = "send" /\ ~op[s].half
  /\ wire' = Sent(Other(s), Prefix)
  /\ op' = [op EXCEPT ![s].half = TRUE]
  /\ UNCHANGED <<kind, from, conn, broken, torn, air, buffers, inbox, sent, connects, history>>

\* ... and the frame.
WriteBody(s) ==
  /\ op[s].do = "send" /\ op[s].half
  /\ wire' = Sent(Other(s), Body(Head(op[s].frames)))
  /\ \/ /\ Len(op[s].frames) > 1
        /\ op' = [op EXCEPT ![s].frames = Tail(@), ![s].half = FALSE]
        /\ UNCHANGED finished
     \/ /\ Len(op[s].frames) = 1
        /\ op' = [op EXCEPT ![s] = Idle("ok")]
        /\ finished' = finished \cup {Head(op[s].frames).source}
  /\ UNCHANGED <<kind, from, conn, broken, torn, air, buffers, inbox, sent, connects, got, clash, upset>>

\* write_all notices that the connection is gone.
WriteFails(s) ==
  /\ op[s].do = "send" /\ Cut(s)
  /\ op' = [op EXCEPT ![s] = Idle("none")]
  /\ UNCHANGED <<kind, from, conn, broken, wire, torn, air, buffers, inbox, sent, connects, history>>

\* The timeout around send_to: the call is dropped at an await, perhaps after
\* a part of what it was writing.
CancelSend(s) ==
  /\ op[s].do = "send"
  /\ op' = [op EXCEPT ![s] = Idle("none")]
  /\ \/ UNCHANGED wire
     \/ wire' = Sent(Other(s), Fragment)
  /\ UNCHANGED <<kind, from, conn, broken, torn, air, buffers, inbox, sent, connects, history>>

\* recv begins to wait for a frame.
StartRecv(s) ==
  /\ Ready(s, "wifi")
  /\ op' = [op EXCEPT ![s] = [do |-> "recv", frames |-> <<>>, half |-> FALSE, result |-> "none"]]
  /\ UNCHANGED <<kind, from, conn, broken, wire, torn, air, buffers, inbox, sent, connects, history>>

Reading(s) == op[s].do = "recv" /\ wire[s] # <<>>

\* read_frame: the length ...
ReadLength(s) ==
  /\ Reading(s) /\ ~op[s].half /\ Head(wire[s]) = Prefix
  /\ wire' = [wire EXCEPT ![s] = Tail(@)]
  /\ op' = [op EXCEPT ![s].half = TRUE]
  /\ UNCHANGED <<kind, from, conn, broken, torn, air, buffers, inbox, sent, connects, history>>

\* ... and the frame, which goes to the reassembler; recv returns a message
\* that is complete, and otherwise reads on.
ReadBody(s) ==
  /\ Reading(s) /\ op[s].half /\ Head(wire[s]).part = "body"
  /\ wire' = [wire EXCEPT ![s] = Tail(@)]
  /\ \E f \in Head(wire[s]).frame :
       LET r == ReceiveChunk(buffers[s], f)
       IN  /\ buffers' = [buffers EXCEPT ![s] = r.buffers]
           /\ IF r.complete = <<>>
              THEN op' = [op EXCEPT ![s].half = FALSE] /\ UNCHANGED got
              ELSE /\ op' = [op EXCEPT ![s] = Idle("none")]
                   /\ got' = [got EXCEPT ![s] = Append(@, Assembled(r.complete))]
  /\ UNCHANGED <<kind, from, conn, broken, torn, air, inbox, sent, connects, finished, clash, upset>>

\* The reader meets something else than it expects: it is out of step.  recv
\* fails with PayloadTooLarge or BrokenPipe, or goes on waiting.
ReadGarbage(s) ==
  /\ Reading(s)
  /\ Head(wire[s]).part # (IF op[s].half THEN "body" ELSE "prefix")
  /\ torn' = [torn EXCEPT ![s] = TRUE]
  /\ wire' = [wire EXCEPT ![s] = <<>>]
  /\ \/ op' = [op EXCEPT ![s] = Idle("none")]
     \/ op' = [op EXCEPT ![s].half = FALSE]
  /\ UNCHANGED <<kind, from, conn, broken, air, buffers, inbox, sent, connects, history>>

\* read_exact meets the end of the stream or a reset.  After a loss without a
\* word it never does: no read has a time limit and the socket no keepalive.
ReadFails(s) ==
  /\ op[s].do = "recv" /\ wire[s] = <<>> /\ Cut(s)
  /\ op' = [op EXCEPT ![s] = Idle("none")]
  /\ UNCHANGED <<kind, from, conn, broken, wire, torn, air, buffers, inbox, sent, connects, history>>

\* The timeout of recv_any: a prefix that was read is forgotten, and so is
\* the part of a prefix or body that had arrived.
CancelRecv(s) ==
  /\ op[s].do = "recv"
  /\ op' = [op EXCEPT ![s] = Idle("none")]
  /\ \/ UNCHANGED wire
     \/ wire[s] # <<>> /\ wire' = [wire EXCEPT ![s] = <<Fragment>> \o Tail(@)]
  /\ UNCHANGED <<kind, from, conn, broken, torn, air, buffers, inbox, sent, connects, history>>

\* The network loses the connection, and perhaps what is under way.  Neither
\* side need notice.
LinkBreaks ==
  /\ kind = "wifi" /\ ~broken
  /\ \E s \in Sides : conn[s] = "Connected"
  /\ broken' = TRUE /\ upset' = TRUE
  /\ \/ UNCHANGED wire
     \/ wire' = [s \in Sides |-> <<>>]
  /\ UNCHANGED <<kind, from, conn, op, torn, air, buffers, inbox, sent, connects, finished, got, clash>>

\* Faulty variant of Reconnect: the message sent last is sent once more.
ReconnectResending ==
  /\ kind = "wifi" /\ connects < MaxConnects
  /\ conn["a"] = "Disconnected" /\ op["a"].do = "idle"
  /\ conn' = [s \in Sides |-> "Connected"]
  /\ op' = [op EXCEPT !["b"] = Idle("none"),
                      !["a"] = IF from = "b" \/ sent = 0 THEN @
                               ELSE [do |-> "send", frames |-> Chunk(sent, 3, sent), half |-> FALSE, result |-> "none"]]
  /\ broken' = FALSE
  /\ wire' = [s \in Sides |-> <<>>] /\ torn' = [s \in Sides |-> FALSE]
  /\ buffers' = [buffers EXCEPT !["b"] = NewReassembler]
  /\ connects' = connects + 1
  /\ UNCHANGED <<kind, from, air, inbox, sent, history>>

\* connect on the side that knows the address: reconnect, if one of its
\* attempts succeeds.  The other side accepts a new connection; the dialling
\* side keeps its reassembler.  A side that is Connected, or was accepted, has
\* nothing to do or no address to do it with.
Reconnect ==
  /\ kind = "wifi" /\ connects < MaxConnects
  /\ conn["a"] = "Disconnected" /\ op["a"].do = "idle"
  /\ conn' = [s \in Sides |-> "Connected"]
  /\ op' = [op EXCEPT !["b"] = Idle("none")]
  /\ broken' = FALSE
  /\ wire' = [s \in Sides |-> <<>>] /\ torn' = [s \in Sides |-> FALSE]
  /\ buffers' = [buffers EXCEPT !["b"] = NewReassembler]
  /\ connects' = connects + 1
  /\ UNCHANGED <<kind, from, air, inbox, sent, history>>
-----------------------------------------------------------------------------
(* BLE *)

\* A message handed to the platform, frame by frame.
Emit(s, len, id) ==
  LET frames == Chunk(sent + 1, len, id)
  IN  /\ sent < MaxSends
      /\ sent' = sent + 1
      /\ air' = [air EXCEPT ![Other(s)] = @ \cup ToSet(frames)]
      /\ clash' = IF frames = <<>> THEN clash ELSE Clash(Other(s), id, len)

\* BleCentral::scan_and_connect, which sends a Handshake at once, or
\* BlePeripheral::start_advertising.
BleConnect(s, id) ==
  /\ kind = "ble" /\ op[s].do = "idle" /\ conn[s] # "Dropped"
  /\ connects < MaxConnects + 1
  /\ connects' = connects + 1
  /\ conn' = [conn EXCEPT ![s] = "Connected"]
  /\ \/ s = "a" /\ Emit(s, 1, id)
     \/ s = "b" /\ UNCHANGED <<sent, air, clash>>
  /\ UNCHANGED <<kind, from, op, broken, wire, torn, buffers, inbox, finished, got, upset>>

\* send
BleSend(s, len, id) ==
  /\ Ready(s, "ble")
  /\ Emit(s, len, id)
  /\ op' = [op EXCEPT ![s] = Idle("none")]
  /\ UNCHANGED <<kind, from, conn, broken, wire, torn, buffers, inbox, connects, finished, got, upset>>

\* ingest_chunk_bytes and ingest_notification_bytes, whatever the state of the
\* connection.  With the inbox full the call waits, and the connection is in
\* use meanwhile.
Ingest(s, f) ==
  LET r == ReceiveChunk(buffers[s], f)
  IN  /\ kind = "ble" /\ f \in air[s] /\ op[s].do = "idle"
      /\ buffers' = [buffers EXCEPT ![s] = r.buffers]
      /\ \/ r.complete = <<>> /\ UNCHANGED <<inbox, op>>
         \/ /\ r.complete # <<>> /\ Len(inbox[s]) < InboxCapacity
            /\ inbox' = [inbox EXCEPT ![s] = Append(@, Assembled(r.complete))]
            /\ UNCHANGED op
         \/ /\ r.complete # <<>> /\ Len(inbox[s]) = InboxCapacity
            /\ op' = [op EXCEPT ![s] = [Idle("none") EXCEPT !.do = "ingest"]]
            /\ UNCHANGED inbox
      /\ UNCHANGED <<kind, from, conn, broken, wire, torn, air, sent, connects, history>>

\* cleanup_stale_buffers: the reassembler of a Central belongs to the task
\* that listens for notifications.
CleanupStaleBuffers(id) ==
  /\ kind = "ble" /\ op["a"].do = "idle"
  /\ buffers["a"][id] # NoBuffer
  /\ buffers' = [buffers EXCEPT !["a"][id] = NoBuffer]
  /\ UNCHANGED <<kind, from, conn, op, broken, wire, torn, air, inbox, sent, connects, history>>

\* recv: the next message of the inbox.  On an empty inbox it waits until the
\* caller gives up.  The history keeps one of several copies.
BleRecv(s) ==
  /\ Ready(s, "ble") /\ inbox[s] # <<>>
  /\ inbox' = [inbox EXCEPT ![s] = Tail(@)]
  /\ got' = IF Head(inbox[s]) \in ToSet(got[s]) THEN got
            ELSE [got EXCEPT ![s] = Append(@, Head(inbox[s]))]
  /\ op' = [op EXCEPT ![s] = Idle("none")]
  /\ UNCHANGED <<kind, from, conn, broken, wire, torn, air, buffers, sent, connects, finished, clash, upset>>

\* disconnect, on either transport
Disconnect(s) ==
  /\ op[s].do = "idle" /\ conn[s] = "Connected"
  /\ conn' = [conn EXCEPT ![s] = "Disconnected"]
  /\ upset' = TRUE
  /\ UNCHANGED <<kind, from, op, broken, wire, torn, air, buffers, inbox, sent, connects, finished, got, clash>>
-----------------------------------------------------------------------------
\* What goes on once a call was made.
Progress ==
  \E s \in Sides :
    \/ WriteLength(s) \/ WriteBody(s)
    \/ ReadLength(s) \/ ReadBody(s) \/ ReadGarbage(s)

Environment ==
  \/ LinkBreaks
  \/ \E s \in Sides : WriteFails(s) \/ ReadFails(s)
  \/ \E s \in Sides, f \in air["a"] \cup air["b"] : Ingest(s, f)
  \/ \E id \in Ids : CleanupStaleBuffers(id)

\* The host: it sends on one side and receives on the other.
Host ==
  \/ \E len \in Lens, id \in Drawn : WifiSend(from, len, id) \/ BleSend(from, len, id)
  \/ StartRecv(Other(from)) \/ BleRecv(Other(from))
  \/ \E s \in Sides : CancelSend(s) \/ CancelRecv(s) \/ Disconnect(s) \/ \E id \in Drawn : BleConnect(s, id)
  \/ Reconnect
-----------------------------------------------------------------------------
Operations ==
  [do : {"idle", "send", "recv", "ingest"}, half : BOOLEAN, result : {"none", "ok"}]

LinksTypeOK ==
  /\ kind \in {"wifi", "ble"} /\ from \in Sides
  /\ conn \in [Sides -> {"Connected", "Disconnected", "Dropped"}]
  /\ \A s \in Sides :
       /\ [do |-> op[s].do, half |-> op[s].half, result |-> op[s].result] \in Operations
       /\ op[s].frames # <<>> <=> op[s].do = "send"
       /\ Len(inbox[s]) <= InboxCapacity
       /\ \A f \in UnderWay(s) : WellFormed(f)
       /\ \A id \in Ids : buffers[s][id] # NoBuffer =>
            /\ DOMAIN buffers[s][id].data = 1..buffers[s][id].total
            /\ Received(buffers[s][id]) \notin {{}, 1..buffers[s][id].total}
  /\ sent \in 0..MaxSends /\ connects \in 0..(MaxConnects + 1)
  /\ finished \subseteq 1..MaxSends
  /\ got \in [Sides -> Seq(0..sent)] /\ inbox \in [Sides -> Seq(0..sent)]
  /\ clash \in {"no", "length", "full"}

\* A message that recv returns consists of the bytes of one message that was
\* sent, and of all of them, whatever was lost, repeated, reordered, cancelled
\* or left over from an earlier connection; two messages are mixed only when
\* they were given the same random id and have the same length.
Intact == (\E s \in Sides : 0 \in ToSet(got[s]) \cup ToSet(inbox[s])) => clash = "full"

\* On a TCP stream messages arrive in the order in which they were sent, and
\* none twice, across cancelled calls and reconnects, unless two were mixed.
InOrder ==
  kind = "wifi" /\ clash # "full" =>
    \A s \in Sides : \A i, j \in DOMAIN got[s] : i < j => got[s][i] < got[s][j]
=============================================================================
