----------------------------- MODULE BleAssembly -----------------------------
(***************************************************************************)
(* One direction of the BLE chunk layer of tilt/protocol.py: chunk_for_ble *)
(* splits frames into numbered chunks, BleMessageAssembler puts them       *)
(* together again.  The air between them is worse than in TiltLink: it     *)
(* loses, repeats and reorders chunks.                                     *)
(*                                                                         *)
(* A byte is named by its frame and its offset in it, so that frames put   *)
(* together from the wrong chunks are told apart from the right ones.      *)
(***************************************************************************)
EXTENDS TiltCodec, Sequences

CONSTANTS
    FrameLengths,  \* the lengths a frame can have
    MaxPayload,    \* _MAX_BLE_PAYLOAD
    LastSequence,  \* _MAX_SEQUENCE
    MaxChunks,     \* bound on the chunks of a session in this direction
    MaxDeliveries  \* bound on what the air delivers

ASSUME LengthAssumption == FrameLengths \subseteq Nat \ {0}
ASSUME PayloadAssumption == MaxPayload \in Nat \ {0}
ASSUME LastAssumption == LastSequence \in Nat \ {0}
\* A session has at most six requests and eight response chunks.
ASSUME ChunksAssumption == MaxChunks \in 1..(LastSequence - 1)
ASSUME DeliveriesAssumption == MaxDeliveries \in Nat

VARIABLES
    sent,        \* the frames sent, in order
    txSequence,  \* the sender's next sequence number
    air,         \* every chunk put on the air
    expected,    \* _expected_sequence
    buffer,      \* _buffer
    taken,       \* what add() gave the caller: frames and Refused errors
    deliveries   \* chunks handed to add() so far

vars == <<sent, txSequence, air, expected, buffer, taken, deliveries>>

Refused == <<"refused">>

FrameOf(number, length) == [offset \in 1..length |-> <<number, offset>>]

\* Faulty: a full last chunk is followed by an empty one.
ChunkCountTooMany(frame) == Len(frame) \div MaxPayload + 1

ChunkCount(frame) == (Len(frame) + MaxPayload - 1) \div MaxPayload

\* The sequence number k chunks after s.
SequenceAfter(s, k) == ((s - 1 + k) % LastSequence) + 1

ChunkForBle(frame, start) ==
    [k \in 1..ChunkCount(frame) |->
        [sequence |-> SequenceAfter(start, k - 1),
         end      |-> k = ChunkCount(frame),
         payload  |-> SubSeq(frame, (k - 1) * MaxPayload + 1,
                             IF k = ChunkCount(frame) THEN Len(frame)
                             ELSE k * MaxPayload)]]

Init ==
    /\ sent = <<>>
    /\ txSequence \in 1..LastSequence
    /\ air = <<>>
    /\ expected = txSequence
    /\ buffer = <<>>
    /\ taken = <<>>
    /\ deliveries = 0

SendFrame(length) ==
    LET frame == FrameOf(Len(sent) + 1, length) IN
    /\ Len(air) + ChunkCount(frame) <= MaxChunks
    /\ sent' = Append(sent, frame)
    /\ air' = air \o ChunkForBle(frame, txSequence)
    /\ txSequence' = SequenceAfter(txSequence, ChunkCount(frame))
    /\ UNCHANGED <<expected, buffer, taken, deliveries>>

\* Faulty: add() does not compare the sequence number.
DeliverUnchecked(k) ==
    /\ deliveries < MaxDeliveries
    /\ deliveries' = deliveries + 1
    /\ LET chunk == air[k]
           whole == buffer \o chunk.payload
       IN  /\ expected' = NextSequence(expected, LastSequence)
           /\ buffer' = IF chunk.end THEN <<>> ELSE whole
           /\ taken' = IF chunk.end THEN Append(taken, whole) ELSE taken
    /\ UNCHANGED <<sent, txSequence, air>>

\* add() of any chunk that was ever put on the air.
Deliver(k) ==
    /\ deliveries < MaxDeliveries
    /\ deliveries' = deliveries + 1
    /\ LET chunk == air[k]
           whole == buffer \o chunk.payload
       IN  IF chunk.sequence # expected
           THEN /\ buffer' = <<>>
                /\ taken' = Append(taken, Refused)
                /\ UNCHANGED expected
           ELSE /\ expected' = NextSequence(expected, LastSequence)
                /\ buffer' = IF chunk.end THEN <<>> ELSE whole
                /\ taken' = IF chunk.end THEN Append(taken, whole) ELSE taken
    /\ UNCHANGED <<sent, txSequence, air>>

Next ==
    \/ \E length \in FrameLengths : SendFrame(length)
    \/ \E k \in 1..Len(air) : Deliver(k)

Spec == Init /\ [][Next]_vars

-----------------------------------------------------------------------------
\* Type invariant of the sender and the assembler.
TypeOK ==
    /\ txSequence \in 1..LastSequence
    /\ expected \in 1..LastSequence
    /\ Len(air) <= MaxChunks
    /\ deliveries \in 0..MaxDeliveries

\* What is handed over before the first refused chunk is what was sent, in order,
\* whole and once, wherever the sequence numbers wrap (chunk_for_ble,
\* BleMessageAssembler.add).
WholeUntilRefused ==
    \A n \in 1..Len(taken) :
        (\A m \in 1..n : taken[m] # Refused) =>
            n <= Len(sent) /\ taken[n] = sent[n]

\* Every chunk of a frame but the last is full and none is empty, and they number
\* on where the sender's previous frame stopped (chunk_for_ble).
ChunksAreContiguous ==
    \A k \in 1..Len(air) :
        /\ Len(air[k].payload) \in 1..MaxPayload
        /\ ~air[k].end => Len(air[k].payload) = MaxPayload
        /\ k < Len(air) => air[k + 1].sequence = NextSequence(air[k].sequence, LastSequence)
=============================================================================
