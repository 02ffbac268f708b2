------------------------------ MODULE Chunking ------------------------------
(***************************************************************************)
(* MessageChunker and MessageReassembler of src/transport/unified.rs.      *)
(*                                                                         *)
(* Bytes are cells.  A message is a number; its cells all bear that        *)
(* number, so that one sees of an assembled message whose bytes it is made *)
(* of.  Frames carry the message_id, which is drawn at random and may be   *)
(* that of another message that is under way.                              *)
(***************************************************************************)
EXTENDS Naturals, FiniteSets

CONSTANTS Ids,               \* message_id: numbers from 1 on
          payload_capacity,  \* cells per frame: the MTU less the header
          MAX_MESSAGE_SIZE   \* cells of the longest message that is chunked

ASSUME ChunkingAssumption ==
  payload_capacity \in Nat \ {0} /\ MAX_MESSAGE_SIZE \in Nat \ {0}

NoBuffer == [total |-> 0, data |-> <<>>]

\* A reassembler: message_id -> PartialMessageBuffer.
NewReassembler == [id \in Ids |-> NoBuffer]

Smaller(x, y) == IF x < y THEN x ELSE y

\* Faulty variant of Chunk: a last frame that is not full is forgotten.
ChunkFloor(n, len, id) ==
  IF len = 0 \/ len > MAX_MESSAGE_SIZE THEN <<>>
  ELSE [i \in 1..(len \div payload_capacity) |->
          [message_id |-> id, total_length |-> len, offset |-> (i - 1) * payload_capacity,
           payload_size |-> payload_capacity, source |-> n]]

\* MessageChunker::chunk of message n with len cells.  An empty message and
\* one that is too long give no frames at all.
Chunk(n, len, id) ==
  IF len = 0 \/ len > MAX_MESSAGE_SIZE THEN <<>>
  ELSE [i \in 1..((len + payload_capacity - 1) \div payload_capacity) |->
          LET offset == (i - 1) * payload_capacity
          IN  [message_id |-> id, total_length |-> len, offset |-> offset,
               payload_size |-> Smaller(payload_capacity, len - offset), source |-> n]]

\* receive_chunk looks at the frame before it touches any buffer.
WellFormed(f) ==
  /\ f.total_length \in 1..MAX_MESSAGE_SIZE
  /\ f.offset < f.total_length /\ f.offset + f.payload_size <= f.total_length

\* The cells of a buffer that have arrived (received_map).
Received(buffer) == {i \in DOMAIN buffer.data : buffer.data[i] # 0}

\* The buffer once the frame is written into it; 0 marks a missing cell.
Written(buffer, f) ==
  [buffer EXCEPT !.data = [i \in DOMAIN @ |->
     IF i \in f.offset + 1 .. f.offset + f.payload_size THEN f.source ELSE @[i]]]

\* Faulty variant of ReceiveChunk: cells that arrive again are counted again.
ReceiveChunkCounting(buffers, f) ==
  LET old == IF buffers[f.message_id] = NoBuffer
             THEN [total |-> f.total_length, data |-> [i \in 1..f.total_length |-> 0]]
             ELSE buffers[f.message_id]
      new == Written(old, f)
  IN  IF ~WellFormed(f) \/ old.total # f.total_length
      THEN [buffers |-> buffers, complete |-> <<>>]
      ELSE IF Cardinality(Received(old)) + f.payload_size >= new.total
           THEN [buffers |-> [buffers EXCEPT ![f.message_id] = NoBuffer], complete |-> new.data]
           ELSE [buffers |-> [buffers EXCEPT ![f.message_id] = new], complete |-> <<>>]

\* MessageReassembler::receive_chunk: the buffers afterwards, and the message
\* if the frame has completed it.
ReceiveChunk(buffers, f) ==
  LET old == IF buffers[f.message_id] = NoBuffer
             THEN [total |-> f.total_length, data |-> [i \in 1..f.total_length |-> 0]]
             ELSE buffers[f.message_id]
      new == Written(old, f)
  IN  IF ~WellFormed(f) \/ old.total # f.total_length
      THEN [buffers |-> buffers, complete |-> <<>>]
      ELSE IF Received(new) = 1..new.total
           THEN [buffers |-> [buffers EXCEPT ![f.message_id] = NoBuffer], complete |-> new.data]
           ELSE [buffers |-> [buffers EXCEPT ![f.message_id] = new], complete |-> <<>>]

\* The message that assembled cells belong to; 0 when they are of several.
Assembled(data) ==
  IF \E i \in DOMAIN data : \A j \in DOMAIN data : data[j] = data[i] THEN data[1] ELSE 0
=============================================================================
