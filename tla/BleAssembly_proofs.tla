------------------------ MODULE BleAssembly_proofs --------------------------
(***************************************************************************)
(* Proofs about BleAssembly: its types, the numbering and filling of the   *)
(* chunks, and that the assembler hands over whole frames in order, for    *)
(* any frame lengths, payload size, sequence range and air.                *)
(***************************************************************************)
EXTENDS BleAssembly, SequenceTheorems, TLAPS

USE LengthAssumption, PayloadAssumption, LastAssumption, ChunksAssumption,
    DeliveriesAssumption

\* Arithmetic of the chunk layer, for any positive modulus or chunk size.
LEMMA ModRange ==
  ASSUME NEW n \in Nat \ {0}, NEW x \in Nat PROVE x % n \in 0..(n - 1)
  OBVIOUS

LEMMA ModDivision ==
  ASSUME NEW n \in Nat \ {0}, NEW x \in Nat
  PROVE  x \div n \in Nat /\ x = n * (x \div n) + (x % n)
  OBVIOUS

LEMMA AtLeastOnce ==
  ASSUME NEW n \in Nat \ {0}, NEW d \in Int, d > 0 PROVE n * d >= n
  OBVIOUS

LEMMA ModSuccessor ==
  ASSUME NEW n \in Nat \ {0}, NEW x \in Nat
  PROVE  (x + 1) % n = IF x % n = n - 1 THEN 0 ELSE (x % n) + 1
<1> DEFINE q == x \div n
           r == x % n
           p == (x + 1) \div n
           s == (x + 1) % n
<1>1. /\ q \in Nat /\ p \in Nat /\ r \in 0..(n - 1) /\ s \in 0..(n - 1)
      /\ x = n * q + r /\ x + 1 = n * p + s
  <2>1. q \in Nat /\ r \in 0..(n - 1) /\ x = n * q + r
    BY ModRange, ModDivision
  <2>2. x + 1 \in Nat
    OBVIOUS
  <2>3. p \in Nat /\ s \in 0..(n - 1) /\ x + 1 = n * p + s
    BY <2>2, ModRange, ModDivision
  <2> QED
    BY <2>1, <2>3
<1> HIDE DEF q, r, p, s
<1>2. n * (p - q) = r + 1 - s
  BY <1>1
<1>3. ~(p - q > 1)
  <2> SUFFICES ASSUME p - q > 1 PROVE FALSE
    OBVIOUS
  <2>1. n * (p - q - 1) >= n
    BY <1>1, AtLeastOnce
  <2>2. n * (p - q) = n * (p - q - 1) + n
    BY <1>1
  <2> QED
    BY <1>1, <1>2, <2>1, <2>2
<1>4. ~(q - p > 0)
  <2> SUFFICES ASSUME q - p > 0 PROVE FALSE
    OBVIOUS
  <2>1. n * (q - p) >= n
    BY <1>1, AtLeastOnce
  <2>2. n * (p - q) = -(n * (q - p))
    BY <1>1
  <2> QED
    BY <1>1, <1>2, <2>1, <2>2
<1>5. p = q \/ p = q + 1
  BY <1>1, <1>3, <1>4
<1>6. CASE p = q
  BY <1>1, <1>2, <1>6 DEF r, s
<1>7. CASE p = q + 1
  BY <1>1, <1>2, <1>7 DEF r, s
<1> QED
  BY <1>5, <1>6, <1>7

LEMMA Pieces ==
  ASSUME NEW size \in Nat \ {0}, NEW length \in Nat \ {0}
  PROVE  LET count == (length + size - 1) \div size
         IN  count \in Nat \ {0} /\ (count - 1) * size < length /\ length <= count * size
  OBVIOUS

LEMMA FullPieces ==
  ASSUME NEW size \in Nat \ {0}, NEW count \in Nat, NEW k \in Nat, k < count
  PROVE  k * size \in Nat /\ k * size <= (count - 1) * size
  OBVIOUS

\* The number after the one k chunks on is that of k + 1 chunks on: the wrap of
\* chunk_for_ble is that of the assembler (next_sequence).
LEMMA SequenceStep ==
  ASSUME NEW start \in 1..LastSequence, NEW k \in Nat
  PROVE  /\ SequenceAfter(start, k) \in 1..LastSequence
         /\ SequenceAfter(start, k + 1) = NextSequence(SequenceAfter(start, k), LastSequence)
         /\ SequenceAfter(start, 0) = start
<1> DEFINE x == start - 1 + k
<1>1. x \in Nat /\ start - 1 + (k + 1) = x + 1
  OBVIOUS
<1>2. x % LastSequence \in 0..(LastSequence - 1)
  BY <1>1, ModRange
<1>3. (x + 1) % LastSequence =
         IF x % LastSequence = LastSequence - 1 THEN 0 ELSE (x % LastSequence) + 1
  BY <1>1, ModSuccessor
<1>4. /\ SequenceAfter(start, k) = (x % LastSequence) + 1
      /\ SequenceAfter(start, k + 1) = ((x + 1) % LastSequence) + 1
  BY <1>1 DEF SequenceAfter
<1>5. SequenceAfter(start, 0) = start
  BY DEF SequenceAfter
<1> HIDE DEF x
<1> QED
  BY <1>2, <1>3, <1>4, <1>5 DEF NextSequence

-----------------------------------------------------------------------------
\* Functions on an initial segment are sequences, and what \o does.
LEMMA FunctionIsSeq ==
  ASSUME NEW n \in Nat, NEW S, NEW f \in [1..n -> S]
  PROVE  f \in Seq(S) /\ Len(f) = n
  OBVIOUS

LEMMA ConcatFacts ==
  ASSUME NEW S, NEW s \in Seq(S), NEW t \in Seq(S)
  PROVE  /\ s \o t \in Seq(S) /\ Len(s \o t) = Len(s) + Len(t)
         /\ \A k \in 1..(Len(s) + Len(t)) :
               (s \o t)[k] = IF k <= Len(s) THEN s[k] ELSE t[k - Len(s)]
  OBVIOUS

\* A chunk that is well numbered and well filled.
Fit(chunk) ==
    /\ chunk.sequence \in 1..LastSequence
    /\ Len(chunk.payload) \in 1..MaxPayload
    /\ ~chunk.end => Len(chunk.payload) = MaxPayload

LEMMA FrameFacts ==
  ASSUME NEW number, NEW length \in Nat \ {0}
  PROVE  /\ FrameOf(number, length) \in Seq({<<number, i>> : i \in 1..length})
         /\ Len(FrameOf(number, length)) = length
  BY DEF FrameOf

LEMMA ChunkFacts ==
  ASSUME NEW S, NEW frame \in Seq(S), Len(frame) > 0, NEW start \in 1..LastSequence
  PROVE  LET chunks == ChunkForBle(frame, start)
             count  == ChunkCount(frame)
         IN  /\ count \in Nat \ {0}
             /\ \E T : chunks \in Seq(T)
             /\ Len(chunks) = count
             /\ chunks[1].sequence = start
             /\ \A k \in 1..count : Fit(chunks[k])
             /\ \A k \in 1..(count - 1) :
                   chunks[k + 1].sequence = NextSequence(chunks[k].sequence, LastSequence)
             /\ SequenceAfter(start, count) =
                   NextSequence(chunks[count].sequence, LastSequence)
<1> DEFINE chunks == ChunkForBle(frame, start)
           count  == ChunkCount(frame)
           number(k)  == SequenceAfter(start, k - 1)
           payload(k) == SubSeq(frame, (k - 1) * MaxPayload + 1,
                                IF k = count THEN Len(frame) ELSE k * MaxPayload)
           final(k)   == k = count
           chunk(k)   == [sequence |-> number(k), end |-> final(k), payload |-> payload(k)]
<1>1. /\ count \in Nat \ {0} /\ Len(frame) \in Nat \ {0}
      /\ (count - 1) * MaxPayload < Len(frame) /\ Len(frame) <= count * MaxPayload
  BY Pieces DEF ChunkCount
<1>2. chunks = [k \in 1..count |-> chunk(k)]
  BY DEF ChunkForBle
<1> HIDE DEF chunks, count
<1> HIDE DEF chunk
<1>3. /\ chunks \in Seq({chunk(k) : k \in 1..count}) /\ Len(chunks) = count
      /\ \A k \in 1..count : chunks[k] = chunk(k)
  <2>1. chunks \in [1..count -> {chunk(k) : k \in 1..count}]
    BY <1>2
  <2>2. \A k \in 1..count : chunks[k] = chunk(k)
    BY <1>2
  <2> QED
    BY <1>1, <2>1, <2>2, FunctionIsSeq
<1>4. ASSUME NEW k \in 1..count
      PROVE  /\ chunks[k].sequence = number(k)
             /\ chunks[k].end = final(k)
             /\ chunks[k].payload = payload(k)
  <2> HIDE DEF number, payload, final
  <2>1. chunks[k] = chunk(k)
    BY <1>3
  <2>2. chunks[k] = [sequence |-> number(k), end |-> final(k), payload |-> payload(k)]
    BY <2>1 DEF chunk
  <2> QED
    BY <2>2
<1>5. \A k \in 1..count : chunks[k].sequence = SequenceAfter(start, k - 1)
  BY <1>4
<1>6. ASSUME NEW k \in 1..count PROVE Fit(chunks[k])
  <2> DEFINE first == (k - 1) * MaxPayload + 1
             last  == IF k = count THEN Len(frame) ELSE k * MaxPayload
  <2>1. chunks[k].sequence \in 1..LastSequence
    <3>1. k - 1 \in Nat
      BY <1>1
    <3> QED
      BY <1>5, <3>1, SequenceStep
  <2>2. k - 1 \in Nat /\ (k - 1) * MaxPayload \in Nat
    BY <1>1
  <2>3. k * MaxPayload = (k - 1) * MaxPayload + MaxPayload
    BY <1>1
  <2>4. k # count => k * MaxPayload <= (count - 1) * MaxPayload
    BY <1>1, FullPieces
  <2>5. count * MaxPayload = (count - 1) * MaxPayload + MaxPayload
    BY <1>1
  <2>6. /\ first \in 1..Len(frame) /\ last \in 1..Len(frame)
        /\ last - first + 1 \in 1..MaxPayload
        /\ k # count => last - first + 1 = MaxPayload
    <3>1. CASE k = count
      BY <1>1, <2>2, <2>5, <3>1
    <3>2. CASE k # count
      BY <1>1, <2>2, <2>3, <2>4, <3>2
    <3> QED
      BY <3>1, <3>2
  <2> HIDE DEF first, last
  <2>7. Len(SubSeq(frame, first, last)) = last - first + 1
    BY <1>1, <2>6
  <2>8. chunks[k].payload = SubSeq(frame, first, last) /\ (chunks[k].end <=> k = count)
    BY <1>4 DEF first, last
  <2> QED
    BY <2>1, <2>6, <2>7, <2>8 DEF Fit
<1>7. ASSUME NEW k \in 1..(count - 1)
      PROVE  chunks[k + 1].sequence = NextSequence(chunks[k].sequence, LastSequence)
  <2>1. k \in 1..count /\ k + 1 \in 1..count /\ k - 1 \in Nat /\ (k - 1) + 1 = (k + 1) - 1
    BY <1>1
  <2>2. SequenceAfter(start, (k - 1) + 1) =
           NextSequence(SequenceAfter(start, k - 1), LastSequence)
    BY <2>1, SequenceStep
  <2>3. chunks[k].sequence = SequenceAfter(start, k - 1)
    BY <1>5, <2>1
  <2>4. chunks[k + 1].sequence = SequenceAfter(start, (k + 1) - 1)
    BY <1>5, <2>1
  <2> HIDE DEF number, payload, final
  <2> QED
    BY <2>1, <2>2, <2>3, <2>4
<1>8. SequenceAfter(start, count) = NextSequence(chunks[count].sequence, LastSequence)
  <2>1. count \in 1..count /\ count - 1 \in Nat /\ (count - 1) + 1 = count
    BY <1>1
  <2>2. SequenceAfter(start, (count - 1) + 1) =
           NextSequence(SequenceAfter(start, count - 1), LastSequence)
    BY <2>1, SequenceStep
  <2>3. chunks[count].sequence = SequenceAfter(start, count - 1)
    BY <1>5, <2>1
  <2> QED
    BY <2>1, <2>2, <2>3
<1>9. chunks[1].sequence = start
  <2>1. 1 \in 1..count /\ 1 - 1 = 0
    BY <1>1
  <2>2. chunks[1].sequence = SequenceAfter(start, 0)
    BY <1>5, <2>1
  <2> QED
    BY <2>2, SequenceStep
<1> QED
  BY <1>1, <1>3, <1>6, <1>7, <1>8, <1>9 DEF chunks, count

-----------------------------------------------------------------------------
\* The chunks on the air are fit and number on, and the sender is at the number
\* after the last.
IInv ==
    /\ TypeOK
    /\ \E T : air \in Seq(T)
    /\ \A k \in 1..Len(air) : Fit(air[k])
    /\ \A k \in 1..(Len(air) - 1) :
          air[k + 1].sequence = NextSequence(air[k].sequence, LastSequence)
    /\ Len(air) > 0 => txSequence = NextSequence(air[Len(air)].sequence, LastSequence)

LEMMA InitInv == Init => IInv
<1> SUFFICES ASSUME Init PROVE IInv
  OBVIOUS
<1>1. air \in Seq({}) /\ Len(air) = 0
  BY DEF Init
<1> QED
  BY <1>1 DEF Init, IInv, TypeOK

LEMMA NextInv == IInv /\ [Next]_vars => IInv'
<1> SUFFICES ASSUME IInv, [Next]_vars PROVE IInv'
  OBVIOUS
<1> USE DEF TypeOK
<1>1. ASSUME NEW length \in FrameLengths, SendFrame(length) PROVE IInv'
  <2> DEFINE frame  == FrameOf(Len(sent) + 1, length)
             chunks == ChunkForBle(frame, txSequence)
             count  == ChunkCount(frame)
  <2>1. /\ Len(air) + count <= MaxChunks
        /\ air' = air \o chunks
        /\ txSequence' = SequenceAfter(txSequence, count)
        /\ UNCHANGED <<expected, buffer, taken, deliveries>>
    BY <1>1 DEF SendFrame
  <2>2. PICK S : frame \in Seq(S) /\ Len(frame) > 0
    <3>1. length \in Nat \ {0}
      OBVIOUS
    <3>2. /\ frame \in Seq({<<Len(sent) + 1, i>> : i \in 1..length})
          /\ Len(frame) = length
      BY <3>1, FrameFacts
    <3> QED
      BY <3>1, <3>2
  <2> HIDE DEF frame
  <2>3. txSequence \in 1..LastSequence
    BY DEF IInv
  <2>4. /\ count \in Nat \ {0} /\ (\E T : chunks \in Seq(T)) /\ Len(chunks) = count
        /\ chunks[1].sequence = txSequence
        /\ \A k \in 1..count : Fit(chunks[k])
        /\ \A k \in 1..(count - 1) :
              chunks[k + 1].sequence = NextSequence(chunks[k].sequence, LastSequence)
        /\ txSequence' = NextSequence(chunks[count].sequence, LastSequence)
    BY <2>1, <2>2, <2>3, ChunkFacts
  <2> HIDE DEF chunks, count
  <2>5. PICK T, U : air \in Seq(T) /\ chunks \in Seq(U)
    BY <2>4 DEF IInv
  <2>6. air \in Seq(T \cup U) /\ chunks \in Seq(T \cup U) /\ Len(air) \in Nat
    BY <2>5
  <2>7. /\ air' \in Seq(T \cup U) /\ Len(air') = Len(air) + count
        /\ \A k \in 1..(Len(air) + count) :
              air'[k] = IF k <= Len(air) THEN air[k] ELSE chunks[k - Len(air)]
    BY <2>1, <2>4, <2>6, ConcatFacts
  <2>8. ASSUME NEW k \in 1..Len(air') PROVE Fit(air'[k])
    <3>1. CASE k <= Len(air)
      BY <2>6, <2>7, <3>1 DEF IInv
    <3>2. CASE k > Len(air)
      <4>1. k - Len(air) \in 1..count
        BY <2>4, <2>6, <2>7, <3>2
      <4> QED
        BY <2>4, <2>6, <2>7, <3>2, <4>1
    <3> QED
      BY <2>4, <2>6, <2>7, <3>1, <3>2
  <2>9. ASSUME NEW k \in 1..(Len(air') - 1)
        PROVE  air'[k + 1].sequence = NextSequence(air'[k].sequence, LastSequence)
    <3>1. CASE k < Len(air)
      <4>1. k \in 1..(Len(air) - 1) /\ air'[k] = air[k] /\ air'[k + 1] = air[k + 1]
        <5>1. k \in 1..(Len(air) + count) /\ k + 1 \in 1..(Len(air) + count)
          BY <2>4, <2>6, <2>7, <3>1
        <5>2. k <= Len(air) /\ k + 1 <= Len(air) /\ k \in 1..(Len(air) - 1)
          BY <2>4, <2>6, <2>7, <3>1
        <5> QED
          BY <2>7, <5>1, <5>2
      <4> QED
        BY <4>1 DEF IInv
    <3>2. CASE k = Len(air)
      <4>1. air'[k] = air[k] /\ air'[k + 1] = chunks[1] /\ Len(air) > 0
        BY <2>4, <2>6, <2>7, <3>2
      <4> QED
        BY <2>4, <3>2, <4>1 DEF IInv
    <3>3. CASE k > Len(air)
      <4> DEFINE j == k - Len(air)
      <4>1. j \in 1..(count - 1) /\ air'[k] = chunks[j] /\ air'[k + 1] = chunks[j + 1]
        BY <2>4, <2>6, <2>7, <3>3
      <4> HIDE DEF j
      <4> QED
        BY <2>4, <4>1
    <3> QED
      BY <2>4, <2>6, <2>7, <3>1, <3>2, <3>3
  <2>10. txSequence' = NextSequence(air'[Len(air')].sequence, LastSequence)
    BY <2>4, <2>6, <2>7
  <2>11. TypeOK'
    <3>1. count \in 1..count
      BY <2>4
    <3>2. chunks[count].sequence \in 1..LastSequence
      BY <2>4, <3>1 DEF Fit
    <3>3. txSequence' \in 1..LastSequence
      BY <2>4, <3>2 DEF NextSequence
    <3> QED
      BY <2>1, <2>7, <3>3 DEF IInv
  <2> QED
    BY <2>7, <2>8, <2>9, <2>10, <2>11 DEF IInv
<1>2. ASSUME NEW k \in 1..Len(air), Deliver(k) PROVE IInv'
  <2>1. UNCHANGED <<air, txSequence>> /\ deliveries' \in 0..MaxDeliveries
    BY <1>2 DEF Deliver, IInv
  <2>2. expected' \in {expected, NextSequence(expected, LastSequence)}
    BY <1>2 DEF Deliver
  <2>3. expected' \in 1..LastSequence
    BY <2>2 DEF IInv, NextSequence
  <2> QED
    BY <2>1, <2>3 DEF IInv, Fit
<1>3. CASE UNCHANGED vars
  BY <1>3 DEF vars, IInv, Fit
<1> QED
  BY <1>1, <1>2, <1>3 DEF Next

\* The types of the sender and the assembler (chunk_for_ble, add).
THEOREM TypeCorrect == Spec => []TypeOK
<1>1. IInv => TypeOK
  BY DEF IInv
<1> QED
  BY InitInv, NextInv, <1>1, PTL DEF Spec

\* Chunks are full but for the last of a frame, never empty, and number on over the
\* wrap and from frame to frame (chunk_for_ble).
THEOREM ContiguousTheorem == Spec => []ChunksAreContiguous
<1>1. IInv => ChunksAreContiguous
  <2> SUFFICES ASSUME IInv, NEW k \in 1..Len(air)
      PROVE  /\ Len(air[k].payload) \in 1..MaxPayload
             /\ ~air[k].end => Len(air[k].payload) = MaxPayload
             /\ k < Len(air) =>
                  air[k + 1].sequence = NextSequence(air[k].sequence, LastSequence)
    BY DEF ChunksAreContiguous
  <2>1. Len(air) \in Nat
    BY DEF IInv
  <2>2. Fit(air[k]) /\ (k < Len(air) => k \in 1..(Len(air) - 1))
    BY <2>1 DEF IInv
  <2>3. k < Len(air) =>
          air[k + 1].sequence = NextSequence(air[k].sequence, LastSequence)
    BY <2>2 DEF IInv
  <2> QED
    BY <2>2, <2>3 DEF Fit
<1> QED
  BY InitInv, NextInv, <1>1, PTL DEF Spec

-----------------------------------------------------------------------------
\* The invariant of the assembler.  Until a chunk is refused, it has taken the first n
\* chunks of the air in order, since no two numbers on the air are the same: there are
\* fewer chunks than numbers.

Byte == Nat \X Nat

\* The bytes from offset o of frame f on.
Run(s, f, o) == s \in Seq(Byte) /\ \A j \in 1..Len(s) : s[j] = <<f, o + j - 1>>

\* The byte the k-th chunk begins with, or will begin with.
At(k) == IF k <= Len(air) THEN air[k].payload[1] ELSE <<Len(sent) + 1, 1>>

\* The k-th chunk holds the bytes of frame f from offset o on.
Piece(k, f, o) ==
    /\ At(k) = <<f, o>> /\ f \in 1..Len(sent) /\ o \in Nat \ {0}
    /\ Run(air[k].payload, f, o)
    /\ o + Len(air[k].payload) - 1 <= Len(sent[f])
    /\ air[k].end <=> o + Len(air[k].payload) - 1 = Len(sent[f])
    /\ At(k + 1) = IF air[k].end THEN <<f + 1, 1>> ELSE <<f, o + Len(air[k].payload)>>

SentInv ==
    /\ \E T : sent \in Seq(T)
    /\ \A f \in 1..Len(sent) : Run(sent[f], f, 1) /\ Len(sent[f]) \in Nat \ {0}

PieceInv ==
    /\ At(1) = <<1, 1>>
    /\ \A k \in 1..Len(air) : \E f, o \in Nat : Piece(k, f, o)

\* The numbers on the air, the first of them being start.
Numbered(start) ==
    /\ \A k \in 1..Len(air) : air[k].sequence = SequenceAfter(start, k - 1)
    /\ txSequence = SequenceAfter(start, Len(air))

HasRefused == \E m \in 1..Len(taken) : taken[m] = Refused

\* The assembler has taken n chunks; o - 1 bytes of frame f are in its buffer.
Progress(n, f, o) ==
    /\ At(n + 1) = <<f, o>>
    /\ Run(buffer, f, 1) /\ Len(buffer) = o - 1
    /\ Len(taken) = f - 1 /\ \A i \in 1..(f - 1) : i <= Len(sent) /\ taken[i] = sent[i]

AssemblerInv ==
    /\ buffer \in Seq(Byte) /\ \E T : taken \in Seq(T)
    /\ \E start \in 1..LastSequence, n \in 0..Len(air) :
          /\ Numbered(start) /\ expected = SequenceAfter(start, n)
          /\ ~HasRefused => \E f, o \in Nat \ {0} : Progress(n, f, o)
    /\ WholeUntilRefused

WholeInv == SentInv /\ PieceInv /\ AssemblerInv


\* Chunks that are less than a round apart have different numbers.
LEMMA Injective ==
  ASSUME NEW start \in 1..LastSequence, NEW a \in 0..(LastSequence - 1),
         NEW b \in 0..(LastSequence - 1), SequenceAfter(start, a) = SequenceAfter(start, b)
  PROVE  a = b
<1> DEFINE x == start - 1 + a
           y == start - 1 + b
           q == x \div LastSequence
           p == y \div LastSequence
<1>1. x \in Nat /\ y \in Nat /\ x - y < LastSequence /\ y - x < LastSequence
  OBVIOUS
<1>2. /\ q \in Nat /\ p \in Nat
      /\ x = LastSequence * q + (x % LastSequence)
      /\ y = LastSequence * p + (y % LastSequence)
  BY <1>1, ModDivision
<1>3. x % LastSequence = y % LastSequence
  <2>1. x % LastSequence \in Int /\ y % LastSequence \in Int
    BY <1>1, ModRange
  <2>2. (x % LastSequence) + 1 = (y % LastSequence) + 1
    BY DEF SequenceAfter
  <2> HIDE DEF x, y
  <2> QED
    BY <2>1, <2>2
<1>4. x % LastSequence \in 0..(LastSequence - 1)
  BY <1>1, ModRange
<1>5. x = y => a = b
  OBVIOUS
<1> HIDE DEF x, y, q, p
<1>6. x - y = LastSequence * (q - p) /\ y - x = LastSequence * (p - q)
  BY <1>1, <1>2, <1>3, <1>4
<1>7. ~(q - p > 0) /\ ~(p - q > 0)
  BY <1>1, <1>2, <1>6, AtLeastOnce
<1>8. q = p
  BY <1>2, <1>7
<1> QED
  BY <1>1, <1>2, <1>3, <1>5, <1>8

LEMMA ModUnique ==
  ASSUME NEW n \in Nat \ {0}, NEW a \in Int, NEW b \in Int,
         NEW s \in 0..(n - 1), NEW t \in 0..(n - 1), n * a + s = n * b + t
  PROVE  s = t
<1>1. n * (a - b) = t - s /\ n * (b - a) = s - t
  OBVIOUS
<1>2. ~(a - b > 0) /\ ~(b - a > 0)
  BY <1>1, AtLeastOnce
<1>3. a = b
  BY <1>2
<1> QED
  BY <1>3

LEMMA ModSum ==
  ASSUME NEW n \in Nat \ {0}, NEW u \in Nat, NEW v \in Nat
  PROVE  ((u % n) + v) % n = (u + v) % n
<1> DEFINE r == u % n
           w == r + v
           z == u + v
<1>1. r \in 0..(n - 1) /\ u \div n \in Nat /\ u = n * (u \div n) + r
  BY ModRange, ModDivision
<1>2. w \in Nat /\ z \in Nat
  BY <1>1
<1>3. /\ w % n \in 0..(n - 1) /\ z % n \in 0..(n - 1) /\ w \div n \in Nat /\ z \div n \in Nat
      /\ w = n * (w \div n) + (w % n) /\ z = n * (z \div n) + (z % n)
  <2> HIDE DEF w, z
  <2> QED
    BY <1>2, ModRange, ModDivision
<1>4. z = n * (u \div n) + w
  BY <1>1, <1>2
<1> DEFINE a == u \div n + w \div n
           b == z \div n
           s == w % n
           t == z % n
<1>5. n * a + s = n * b + t /\ a \in Int /\ b \in Int /\ s \in 0..(n - 1) /\ t \in 0..(n - 1)
  <2>1. n * a = n * (u \div n) + n * (w \div n) /\ a \in Int
    BY <1>1, <1>3
  <2> QED
    BY <1>3, <1>4, <2>1
<1> HIDE DEF a, b, s, t
<1>6. s = t
  BY <1>5, ModUnique
<1> QED
  BY <1>6 DEF s, t

\* Counting on: k chunks after the one that is m after start.
LEMMA CountOn ==
  ASSUME NEW start \in 1..LastSequence, NEW m \in Nat, NEW k \in Nat
  PROVE  SequenceAfter(SequenceAfter(start, m), k) = SequenceAfter(start, m + k)
<1> DEFINE x == start - 1 + m
<1>1. x \in Nat /\ x + k \in Nat
  OBVIOUS
<1>3. ((x % LastSequence) + k) % LastSequence = (x + k) % LastSequence
  BY <1>1, ModSum
<1>4. x % LastSequence \in Int
  BY <1>1, ModRange
<1>5. /\ SequenceAfter(start, m) - 1 + k = (x % LastSequence) + k
      /\ start - 1 + (m + k) = x + k
  BY <1>4 DEF SequenceAfter
<1> HIDE DEF x
<1> QED
  BY <1>3, <1>5 DEF SequenceAfter

LEMMA RunsEqual ==
  ASSUME NEW s, NEW t, NEW f, NEW o, Run(s, f, o), Run(t, f, o), Len(s) = Len(t)
  PROVE  s = t
<1>1. /\ s \in Seq(Byte) /\ t \in Seq(Byte)
      /\ \A j \in 1..Len(s) : s[j] = t[j]
  BY DEF Run
<1> HIDE DEF Byte
<1> QED
  BY <1>1

LEMMA RunOn ==
  ASSUME NEW s, NEW t, NEW f \in Nat, Run(s, f, 1), Run(t, f, Len(s) + 1)
  PROVE  Run(s \o t, f, 1) /\ Len(s \o t) = Len(s) + Len(t)
<1>1. /\ s \in Seq(Byte) /\ t \in Seq(Byte) /\ Len(s) \in Nat /\ Len(t) \in Nat
      /\ \A j \in 1..Len(s) : s[j] = <<f, 1 + j - 1>>
      /\ \A j \in 1..Len(t) : t[j] = <<f, (Len(s) + 1) + j - 1>>
  BY DEF Run
<1> HIDE DEF Byte
<1>2. /\ s \o t \in Seq(Byte) /\ Len(s \o t) = Len(s) + Len(t)
      /\ \A k \in 1..(Len(s) + Len(t)) :
            (s \o t)[k] = IF k <= Len(s) THEN s[k] ELSE t[k - Len(s)]
  BY <1>1, ConcatFacts
<1>3. ASSUME NEW k \in 1..(Len(s) + Len(t)) PROVE (s \o t)[k] = <<f, 1 + k - 1>>
  <2>1. CASE k <= Len(s)
    BY <1>1, <1>2, <2>1
  <2>2. CASE k > Len(s)
    <3>1. k - Len(s) \in 1..Len(t) /\ (Len(s) + 1) + (k - Len(s)) - 1 = 1 + k - 1
      BY <1>1, <2>2
    <3>2. t[k - Len(s)] = <<f, (Len(s) + 1) + (k - Len(s)) - 1>>
      BY <1>1, <3>1
    <3>3. (s \o t)[k] = t[k - Len(s)]
      BY <1>1, <1>2, <2>2
    <3> QED
      BY <3>1, <3>2, <3>3
  <2> QED
    BY <1>1, <2>1, <2>2
<1> QED
  BY <1>2, <1>3 DEF Run

LEMMA ChunkFields ==
  ASSUME NEW frame, NEW start, NEW k \in 1..ChunkCount(frame)
  PROVE  /\ ChunkForBle(frame, start)[k].sequence = SequenceAfter(start, k - 1)
         /\ ChunkForBle(frame, start)[k].end <=> k = ChunkCount(frame)
         /\ ChunkForBle(frame, start)[k].payload =
               SubSeq(frame, (k - 1) * MaxPayload + 1,
                      IF k = ChunkCount(frame) THEN Len(frame) ELSE k * MaxPayload)
<1> DEFINE number(i)  == SequenceAfter(start, i - 1)
           payload(i) == SubSeq(frame, (i - 1) * MaxPayload + 1,
                                IF i = ChunkCount(frame) THEN Len(frame) ELSE i * MaxPayload)
           final(i)   == i = ChunkCount(frame)
<1>1. ChunkForBle(frame, start) =
         [i \in 1..ChunkCount(frame) |->
             [sequence |-> number(i), end |-> final(i), payload |-> payload(i)]]
  BY DEF ChunkForBle
<1> HIDE DEF number, payload, final
<1>2. ChunkForBle(frame, start)[k] =
         [sequence |-> number(k), end |-> final(k), payload |-> payload(k)]
  BY <1>1
<1>3. /\ ChunkForBle(frame, start)[k].sequence = number(k)
      /\ ChunkForBle(frame, start)[k].end = final(k)
      /\ ChunkForBle(frame, start)[k].payload = payload(k)
  BY <1>2
<1> QED
  BY <1>3 DEF number, payload, final

\* The k-th chunk of frame f holds its bytes from offset o on.
ChunkOfFrame(chunk, f, length, k, o) ==
    LET count == ChunkCount(FrameOf(f, length)) IN
    /\ o \in Nat \ {0}
    /\ Run(chunk.payload, f, o)
    /\ Len(chunk.payload) \in Nat \ {0}
    /\ chunk.payload[1] = <<f, o>>
    /\ chunk.end <=> k = count
    /\ k = count => o + Len(chunk.payload) - 1 = length
    /\ k # count => /\ o + Len(chunk.payload) - 1 < length
                    /\ o + Len(chunk.payload) = k * MaxPayload + 1

LEMMA ChunkBytes ==
  ASSUME NEW f \in Nat, NEW length \in Nat \ {0}, NEW start,
         NEW k \in 1..ChunkCount(FrameOf(f, length)),
         NEW chunk, chunk = ChunkForBle(FrameOf(f, length), start)[k],
         NEW o, o = (k - 1) * MaxPayload + 1
  PROVE  ChunkOfFrame(chunk, f, length, k, o)
<1> DEFINE frame == FrameOf(f, length)
           count == ChunkCount(frame)
           last  == IF k = count THEN length ELSE k * MaxPayload
<1>0. k \in 1..count /\ chunk = ChunkForBle(frame, start)[k]
  OBVIOUS
<1>1. frame \in Seq(Byte) /\ Len(frame) = length /\ \A i \in 1..length : frame[i] = <<f, i>>
  BY DEF FrameOf, Byte
<1> HIDE DEF frame
<1>2. /\ count \in Nat \ {0}
      /\ (count - 1) * MaxPayload < length /\ length <= count * MaxPayload
  BY <1>1, Pieces DEF ChunkCount
<1>3. (chunk.end <=> k = count) /\ chunk.payload = SubSeq(frame, o, last)
  <2>1. /\ chunk.end <=> k = count
        /\ chunk.payload = SubSeq(frame, (k - 1) * MaxPayload + 1,
                                  IF k = count THEN Len(frame) ELSE k * MaxPayload)
    <3>1. /\ ChunkForBle(frame, start)[k].end <=> k = count
          /\ ChunkForBle(frame, start)[k].payload =
                SubSeq(frame, (k - 1) * MaxPayload + 1,
                       IF k = count THEN Len(frame) ELSE k * MaxPayload)
      BY <1>0, ChunkFields, Zenon
    <3> QED
      BY <1>0, <3>1, Zenon
  <2> QED
    BY <1>1, <2>1
<1> HIDE DEF count
<1>4. /\ (k - 1) * MaxPayload \in Nat
      /\ k * MaxPayload = (k - 1) * MaxPayload + MaxPayload
      /\ k # count => k * MaxPayload <= (count - 1) * MaxPayload
      /\ count * MaxPayload = (count - 1) * MaxPayload + MaxPayload
  <2>1. k \in Nat \ {0} /\ (k # count => k < count)
    BY <1>0, <1>2
  <2>2. k # count => k * MaxPayload <= (count - 1) * MaxPayload
    BY <1>2, <2>1, FullPieces
  <2> QED
    BY <1>2, <2>1, <2>2
<1>5. /\ o \in 1..length /\ last \in o..length
      /\ k # count => last < length /\ last = k * MaxPayload
      /\ k = count => last = length
  <2>1. CASE k = count
    BY <1>2, <1>4, <2>1
  <2>2. CASE k # count
    BY <1>2, <1>4, <2>2
  <2> QED
    BY <2>1, <2>2
<1> HIDE DEF last, Byte
<1>6. /\ SubSeq(frame, o, last) \in Seq(Byte)
      /\ Len(SubSeq(frame, o, last)) = last - o + 1
      /\ \A j \in 1..(last - o + 1) : SubSeq(frame, o, last)[j] = frame[o + j - 1]
  <2>1. o \in Int /\ last \in Int /\ o <= last /\ \A i \in o..last : i \in 1..length
    BY <1>5
  <2>2. \A i \in o..last : frame[i] \in Byte
    <3>1. \A i \in 1..length : <<f, i>> \in Byte
      BY DEF Byte
    <3> QED
      BY <1>1, <2>1, <3>1
  <2> QED
    BY <2>1, <2>2, SubSeqProperties
<1>7. ASSUME NEW j \in 1..(last - o + 1)
      PROVE  chunk.payload[j] = <<f, o + j - 1>>
  <2>1. o + j - 1 \in 1..length
    BY <1>5
  <2> QED
    BY <1>1, <1>3, <1>6, <2>1
<1>8. Len(chunk.payload) = last - o + 1 /\ last - o + 1 \in Nat \ {0}
  BY <1>3, <1>5, <1>6
<1>9. Run(chunk.payload, f, o)
  BY <1>3, <1>6, <1>7, <1>8 DEF Run
<1>10. chunk.payload[1] = <<f, o>>
  <2>1. 1 \in 1..(last - o + 1) /\ o + 1 - 1 = o
    BY <1>5, <1>8
  <2> QED
    BY <1>7, <2>1
<1>11. k # count => o + Len(chunk.payload) = k * MaxPayload + 1
  BY <1>4, <1>5, <1>8
<1>12. o + Len(chunk.payload) - 1 = last
  BY <1>5, <1>8
<1>13. /\ o \in Nat \ {0} /\ Len(chunk.payload) \in Nat \ {0} /\ (chunk.end <=> k = count)
       /\ k = count => o + Len(chunk.payload) - 1 = length
       /\ k # count => o + Len(chunk.payload) - 1 < length
  <2>1. chunk.end <=> k = count
    BY <1>3
  <2> QED
    BY <1>5, <1>8, <1>12, <2>1
<1> QED
  BY <1>9, <1>10, <1>11, <1>13 DEF ChunkOfFrame, count, frame


LEMMA InitWhole == Init => WholeInv
<1> SUFFICES ASSUME Init PROVE WholeInv
  OBVIOUS
<1>1. /\ air = <<>> /\ Len(air) = 0 /\ sent = <<>> /\ Len(sent) = 0 /\ sent \in Seq({})
      /\ taken \in Seq({}) /\ Len(taken) = 0 /\ buffer = <<>> /\ Len(buffer) = 0
      /\ expected = txSequence /\ txSequence \in 1..LastSequence
  BY DEF Init
<1>2. At(1) = <<1, 1>>
  BY <1>1 DEF At
<1>3. SentInv /\ PieceInv
  BY <1>1, <1>2 DEF SentInv, PieceInv
<1>4. Numbered(txSequence) /\ expected = SequenceAfter(txSequence, 0)
  BY <1>1, SequenceStep DEF Numbered
<1>5. Progress(0, 1, 1)
  <2>1. buffer \in Seq(Byte)
    BY <1>1
  <2>2. Run(buffer, 1, 1)
    BY <1>1, <2>1 DEF Run
  <2>3. At(0 + 1) = <<1, 1>> /\ 1 - 1 = 0
    BY <1>2
  <2> QED
    BY <1>1, <2>2, <2>3 DEF Progress
<1>6. WholeUntilRefused
  BY <1>1 DEF WholeUntilRefused
<1>7. AssemblerInv
  <2>1. buffer \in Seq(Byte) /\ \E T : taken \in Seq(T)
    BY <1>1
  <2>2. 0 \in 0..Len(air)
    BY <1>1
  <2>3. \E f, o \in Nat \ {0} : Progress(0, f, o)
    BY <1>5
  <2> QED
    BY <1>1, <1>4, <1>6, <2>1, <2>2, <2>3 DEF AssemblerInv
<1> QED
  BY <1>3, <1>7 DEF WholeInv

\* What one more frame changes, and that it changes nothing of the earlier ones.
LEMMA SendFacts ==
  ASSUME IInv, WholeInv, NEW length \in FrameLengths, SendFrame(length)
  PROVE  LET frame  == FrameOf(Len(sent) + 1, length)
             chunks == ChunkForBle(frame, txSequence)
             count  == ChunkCount(frame)
         IN  /\ Len(sent) \in Nat /\ Len(air) \in Nat /\ count \in Nat \ {0}
             /\ (\E T : sent' \in Seq(T)) /\ Len(sent') = Len(sent) + 1
             /\ sent'[Len(sent) + 1] = frame
             /\ \A i \in 1..Len(sent) : sent'[i] = sent[i]
             /\ Len(air') = Len(air) + count
             /\ \A k \in 1..Len(air) : air'[k] = air[k]
             /\ \A k \in 1..count : air'[Len(air) + k] = chunks[k]
             /\ txSequence' = SequenceAfter(txSequence, count)
             /\ UNCHANGED <<expected, buffer, taken>>
<1> DEFINE frame  == FrameOf(Len(sent) + 1, length)
           chunks == ChunkForBle(frame, txSequence)
           count  == ChunkCount(frame)
<1>1. /\ sent' = Append(sent, frame) /\ air' = air \o chunks
      /\ txSequence' = SequenceAfter(txSequence, count)
      /\ UNCHANGED <<expected, buffer, taken>>
  BY DEF SendFrame
<1>2. PICK S : frame \in Seq(S) /\ Len(frame) > 0
  <2>1. length \in Nat \ {0}
    OBVIOUS
  <2>2. frame \in Seq({<<Len(sent) + 1, i>> : i \in 1..length}) /\ Len(frame) = length
    BY <2>1, FrameFacts
  <2> QED
    BY <2>1, <2>2
<1> HIDE DEF frame
<1>3. count \in Nat \ {0} /\ (\E T : chunks \in Seq(T)) /\ Len(chunks) = count
  <2>1. txSequence \in 1..LastSequence
    BY DEF IInv, TypeOK
  <2> QED
    BY <1>2, <2>1, ChunkFacts
<1> HIDE DEF chunks, count
<1>4. PICK T, U, V : air \in Seq(T) /\ chunks \in Seq(U) /\ sent \in Seq(V)
  BY <1>3 DEF IInv, WholeInv, SentInv
<1>5. air \in Seq(T \cup U) /\ chunks \in Seq(T \cup U) /\ sent \in Seq(V \cup {frame})
      /\ Len(air) \in Nat
  BY <1>4
<1>6. /\ sent' \in Seq(V \cup {frame}) /\ Len(sent') = Len(sent) + 1 /\ Len(sent) \in Nat
      /\ \A i \in 1..(Len(sent) + 1) : sent'[i] = IF i <= Len(sent) THEN sent[i] ELSE frame
  BY <1>1, <1>5
<1>7. /\ sent'[Len(sent) + 1] = frame
      /\ \A i \in 1..Len(sent) : sent'[i] = sent[i]
  BY <1>6
<1>8. /\ air' \in Seq(T \cup U) /\ Len(air') = Len(air) + count
      /\ \A k \in 1..(Len(air) + count) :
            air'[k] = IF k <= Len(air) THEN air[k] ELSE chunks[k - Len(air)]
  BY <1>1, <1>3, <1>5, ConcatFacts
<1>9. \A k \in 1..Len(air) : air'[k] = air[k]
  BY <1>3, <1>5, <1>8
<1>10. ASSUME NEW k \in 1..count PROVE air'[Len(air) + k] = chunks[k]
  <2>1. Len(air) + k \in 1..(Len(air) + count) /\ ~(Len(air) + k <= Len(air))
        /\ (Len(air) + k) - Len(air) = k
    BY <1>3, <1>5, <1>8
  <2> QED
    BY <1>8, <2>1
<1> QED
  BY <1>1, <1>3, <1>5, <1>6, <1>7, <1>8, <1>9, <1>10 DEF chunks, count, frame


LEMMA SendWhole ==
  ASSUME IInv, WholeInv, NEW length \in FrameLengths, SendFrame(length)
  PROVE  WholeInv'
<1> DEFINE f      == Len(sent) + 1
           frame  == FrameOf(f, length)
           chunks == ChunkForBle(frame, txSequence)
           count  == ChunkCount(frame)
           a      == Len(air)
<1>0. length \in Nat \ {0}
  OBVIOUS
<1>1. /\ Len(sent) \in Nat /\ a \in Nat /\ count \in Nat \ {0}
      /\ (\E T : sent' \in Seq(T)) /\ Len(sent') = f
      /\ sent'[f] = frame
      /\ \A i \in 1..Len(sent) : sent'[i] = sent[i]
      /\ Len(air') = a + count
      /\ \A k \in 1..a : air'[k] = air[k]
      /\ \A k \in 1..count : air'[a + k] = chunks[k]
      /\ txSequence' = SequenceAfter(txSequence, count)
      /\ UNCHANGED <<expected, buffer, taken>>
  BY SendFacts
<1>2. ASSUME NEW k \in 1..count
      PROVE  /\ (k - 1) * MaxPayload + 1 \in Nat \ {0}
             /\ Run(chunks[k].payload, f, (k - 1) * MaxPayload + 1)
             /\ Len(chunks[k].payload) \in Nat \ {0}
             /\ chunks[k].payload[1] = <<f, (k - 1) * MaxPayload + 1>>
             /\ chunks[k].end <=> k = count
             /\ k = count => ((k - 1) * MaxPayload + 1) + Len(chunks[k].payload) - 1 = length
             /\ k # count =>
                  /\ ((k - 1) * MaxPayload + 1) + Len(chunks[k].payload) - 1 < length
                  /\ ((k - 1) * MaxPayload + 1) + Len(chunks[k].payload) = k * MaxPayload + 1
             /\ chunks[k].sequence = SequenceAfter(txSequence, k - 1)
  <2>1. f \in Nat
    BY <1>1
  <2>2. chunks[k].sequence = SequenceAfter(txSequence, k - 1)
    BY ChunkFields
  <2>3. k \in 1..ChunkCount(FrameOf(f, length))
    OBVIOUS
  <2> HIDE DEF f
  <2>4. ChunkOfFrame(chunks[k], f, length, k, (k - 1) * MaxPayload + 1)
    BY <1>0, <2>1, <2>3, ChunkBytes
  <2> QED
    BY <2>2, <2>4, Zenon DEF ChunkOfFrame
<1>3. Run(frame, f, 1) /\ Len(frame) = length
  <2>1. frame \in Seq(Byte) /\ Len(frame) = length /\ \A i \in 1..length : frame[i] = <<f, i>>
    BY <1>0, <1>1 DEF FrameOf, Byte
  <2> HIDE DEF frame, f
  <2> QED
    BY <2>1 DEF Run
<1> HIDE DEF frame, chunks, count
<1>4. At(a + 1) = <<f, 1>> /\ air'[a + 1].payload[1] = <<f, 1>>
  <2>1. ~(a + 1 <= a) /\ 1 \in 1..count /\ (1 - 1) * MaxPayload + 1 = 1
    BY <1>1
  <2>2. chunks[1].payload[1] = <<f, (1 - 1) * MaxPayload + 1>>
    BY <1>2, <2>1
  <2> QED
    BY <1>1, <2>1, <2>2 DEF At
<1>5. \A k \in 1..(a + 1) : At(k)' = At(k)
  <2> SUFFICES ASSUME NEW k \in 1..(a + 1) PROVE At(k)' = At(k)
    OBVIOUS
  <2>1. k <= Len(air')
    BY <1>1
  <2>2. CASE k <= a
    BY <1>1, <2>1, <2>2 DEF At
  <2>3. CASE k = a + 1
    BY <1>4, <2>1, <2>3 DEF At
  <2> QED
    BY <1>1, <2>2, <2>3
<1>6. SentInv'
  <2> SUFFICES ASSUME NEW i \in 1..f PROVE Run(sent'[i], i, 1) /\ Len(sent'[i]) \in Nat \ {0}
    BY <1>1 DEF SentInv, Run, Byte
  <2>1. CASE i = f
    BY <1>0, <1>1, <1>3, <2>1
  <2>2. CASE i # f
    <3>1. i \in 1..Len(sent)
      BY <1>1, <2>2
    <3> QED
      BY <1>1, <3>1 DEF WholeInv, SentInv
  <2> QED
    BY <2>1, <2>2
<1>7. ASSUME NEW k \in 1..a PROVE \E g, o \in Nat : Piece(k, g, o)'
  <2>1. PICK g, o \in Nat : Piece(k, g, o)
    BY DEF WholeInv, PieceInv
  <2>2. /\ g \in 1..Len(sent) /\ g \in 1..f /\ sent'[g] = sent[g] /\ air'[k] = air[k]
        /\ Len(sent') = f
    BY <1>1, <2>1 DEF Piece
  <2>3. /\ k \in 1..(a + 1) /\ k + 1 \in 1..(a + 1)
    BY <1>1
  <2>4. At(k)' = At(k) /\ At(k + 1)' = At(k + 1)
    BY <1>5, <2>3
  <2> QED
    BY <2>1, <2>2, <2>4 DEF Piece, Run
<1>8. ASSUME NEW j \in 1..count, NEW k, k = a + j PROVE \E g, o \in Nat : Piece(k, g, o)'
  <2> DEFINE o == (j - 1) * MaxPayload + 1
             size == Len(chunks[j].payload)
  <2>1. /\ o \in Nat \ {0} /\ Run(chunks[j].payload, f, o) /\ size \in Nat \ {0}
        /\ chunks[j].payload[1] = <<f, o>>
        /\ chunks[j].end <=> j = count
        /\ j = count => o + size - 1 = length
        /\ j # count => o + size - 1 < length /\ o + size = j * MaxPayload + 1
    BY <1>2
  <2>2. air'[k] = chunks[j] /\ k \in 1..Len(air') /\ k <= Len(air')
    BY <1>1, <1>8
  <2>3. At(k)' = <<f, o>>
    BY <2>1, <2>2 DEF At
  <2>4. At(k + 1)' = IF chunks[j].end THEN <<f + 1, 1>> ELSE <<f, o + size>>
    <3>1. CASE j = count
      <4>1. ~(k + 1 <= Len(air'))
        BY <1>1, <1>8, <3>1
      <4>2. At(k + 1)' = <<Len(sent') + 1, 1>>
        BY <4>1 DEF At
      <4> QED
        BY <1>1, <2>1, <3>1, <4>2
    <3>2. CASE j # count
      <4>1. j + 1 \in 1..count /\ a + (j + 1) = k + 1 /\ k + 1 <= Len(air') /\ (j + 1) - 1 = j
        <5>1. a \in Nat /\ count \in Nat /\ j \in 1..count /\ j # count /\ k = a + j
              /\ Len(air') = a + count
          BY <1>1, <1>8, <3>2
        <5> HIDE DEF a
        <5> QED
          BY <5>1
      <4>2. air'[k + 1] = chunks[j + 1]
        BY <1>1, <4>1
      <4>3. chunks[j + 1].payload[1] = <<f, ((j + 1) - 1) * MaxPayload + 1>>
        BY <1>2, <4>1
      <4>4. At(k + 1)' = air'[k + 1].payload[1]
        BY <4>1 DEF At
      <4> QED
        BY <2>1, <3>2, <4>1, <4>2, <4>3, <4>4
    <3> QED
      BY <3>1, <3>2
  <2> HIDE DEF o, size
  <2>5. f \in 1..Len(sent') /\ Len(sent'[f]) = length /\ f \in Nat /\ o \in Nat
    BY <1>1, <1>3, <2>1
  <2>6. size = Len(air'[k].payload)
    BY <2>2 DEF size
  <2>7. o + size - 1 <= length /\ (chunks[j].end <=> o + size - 1 = length)
    BY <1>0, <2>1
  <2> HIDE DEF f
  <2>8. ASSUME NEW g, NEW p, g = f, p = o PROVE Piece(k, g, p)'
    BY <2>1, <2>2, <2>3, <2>4, <2>5, <2>6, <2>7, <2>8 DEF Piece, Run
  <2> QED
    BY <2>5, <2>8
<1>9. PieceInv'
  <2>1. At(1)' = <<1, 1>>
    BY <1>1, <1>5 DEF WholeInv, PieceInv
  <2>2. ASSUME NEW k \in 1..Len(air') PROVE \E g, o \in Nat : Piece(k, g, o)'
    <3>1. CASE k <= a
      BY <1>1, <1>7, <3>1
    <3>2. CASE k > a
      <4>1. k - a \in 1..count /\ k = a + (k - a)
        BY <1>1, <3>2
      <4> QED
        BY <1>8, <4>1
    <3> QED
      BY <1>1, <3>1, <3>2
  <2> QED
    BY <2>1, <2>2 DEF PieceInv
<1>10. PICK start \in 1..LastSequence, n \in 0..Len(air) :
          /\ Numbered(start) /\ expected = SequenceAfter(start, n)
          /\ ~HasRefused => \E g, o \in Nat \ {0} : Progress(n, g, o)
  BY DEF WholeInv, AssemblerInv
<1>11. Numbered(start)'
  <2>1. txSequence = SequenceAfter(start, a)
    BY <1>10 DEF Numbered
  <2>2. txSequence' = SequenceAfter(start, a + count)
    BY <1>1, <2>1, CountOn
  <2>3. ASSUME NEW k \in 1..Len(air') PROVE air'[k].sequence = SequenceAfter(start, k - 1)
    <3>1. CASE k <= a
      <4>1. k \in 1..a
        BY <1>1, <3>1
      <4> QED
        BY <1>1, <1>10, <4>1 DEF Numbered
    <3>2. CASE k > a
      <4> DEFINE j == k - a
      <4>1. j \in 1..count /\ a + j = k /\ j - 1 \in Nat /\ a + (j - 1) = k - 1
        BY <1>1, <3>2
      <4> HIDE DEF j
      <4>2. air'[k].sequence = SequenceAfter(txSequence, j - 1)
        BY <1>1, <1>2, <4>1
      <4>3. SequenceAfter(txSequence, j - 1) = SequenceAfter(start, a + (j - 1))
        BY <1>1, <2>1, <4>1, CountOn
      <4> QED
        BY <4>1, <4>2, <4>3
    <3> QED
      BY <1>1, <3>1, <3>2
  <2> QED
    BY <1>1, <2>2, <2>3 DEF Numbered
<1>12. AssemblerInv'
  <2>1. n \in 0..Len(air') /\ n + 1 \in 1..(a + 1)
    BY <1>1, <1>10
  <2>2. ASSUME NEW g \in Nat \ {0}, NEW o \in Nat \ {0}, Progress(n, g, o)
        PROVE  Progress(n, g, o)'
    <3>1. At(n + 1)' = At(n + 1)
      BY <1>5, <2>1
    <3>2. \A i \in 1..(g - 1) : i <= Len(sent) => i \in 1..Len(sent) /\ i <= Len(sent')
      BY <1>1
    <3> QED
      BY <1>1, <2>2, <3>1, <3>2 DEF Progress, Run
  <2>3. HasRefused' <=> HasRefused
    BY <1>1 DEF HasRefused
  <2>4. WholeUntilRefused'
    <3> SUFFICES ASSUME NEW m \in 1..Len(taken), \A i \in 1..m : taken[i] # Refused
                 PROVE  m <= Len(sent') /\ taken[m] = sent'[m]
      BY <1>1 DEF WholeUntilRefused
    <3>1. m <= Len(sent) /\ taken[m] = sent[m]
      BY DEF WholeInv, AssemblerInv, WholeUntilRefused
    <3>2. m \in 1..Len(sent) /\ m <= Len(sent')
      BY <1>1, <3>1
    <3> QED
      BY <1>1, <3>1, <3>2
  <2>5. /\ buffer' \in Seq(Byte) /\ \E T : taken' \in Seq(T)
        /\ expected' = SequenceAfter(start, n)
        /\ ~HasRefused' => \E g, o \in Nat \ {0} : Progress(n, g, o)'
    BY <1>1, <1>10, <2>2, <2>3 DEF WholeInv, AssemblerInv
  <2>6. Byte' = Byte
    BY DEF Byte
  <2> QED
    BY <1>11, <2>1, <2>4, <2>5, <2>6 DEF AssemblerInv
<1> QED
  BY <1>6, <1>9, <1>12 DEF WholeInv


\* A chunk whose number is not the expected one.
LEMMA RefuseWhole ==
  ASSUME IInv, WholeInv, NEW k \in 1..Len(air), Deliver(k), air[k].sequence # expected
  PROVE  AssemblerInv'
<1>1. /\ UNCHANGED <<sent, txSequence, air, expected>>
      /\ buffer' = <<>> /\ taken' = Append(taken, Refused)
  BY DEF Deliver
<1>2. PICK T : taken \in Seq(T)
  BY DEF WholeInv, AssemblerInv
<1>3. taken \in Seq(T \cup {Refused}) /\ Len(taken) \in Nat
  BY <1>2
<1>4. /\ taken' \in Seq(T \cup {Refused}) /\ Len(taken') = Len(taken) + 1
      /\ taken'[Len(taken) + 1] = Refused
      /\ \A i \in 1..Len(taken) : taken'[i] = taken[i]
  BY <1>1, <1>3
<1>5. HasRefused'
  BY <1>3, <1>4 DEF HasRefused
<1>6. WholeUntilRefused'
  <2> SUFFICES ASSUME NEW m \in 1..Len(taken'), \A i \in 1..m : taken'[i] # Refused
               PROVE  m <= Len(sent) /\ taken'[m] = sent[m]
    BY <1>1 DEF WholeUntilRefused
  <2>1. m # Len(taken) + 1 /\ m \in 1..Len(taken)
    BY <1>3, <1>4
  <2>2. \A i \in 1..m : taken[i] # Refused
    BY <1>3, <1>4, <2>1
  <2> QED
    BY <1>4, <2>1, <2>2 DEF WholeInv, AssemblerInv, WholeUntilRefused
<1>7. PICK start \in 1..LastSequence, n \in 0..Len(air) :
          Numbered(start) /\ expected = SequenceAfter(start, n)
  BY DEF WholeInv, AssemblerInv
<1>8. Numbered(start)' /\ expected' = SequenceAfter(start, n) /\ n \in 0..Len(air')
  BY <1>1, <1>7 DEF Numbered
<1>9. buffer' \in Seq(Byte) /\ \E U : taken' \in Seq(U)
  BY <1>1, <1>4
<1>10. Byte' = Byte
  BY DEF Byte
<1> QED
  BY <1>5, <1>6, <1>8, <1>9, <1>10 DEF AssemblerInv

\* The expected chunk: it is the one after those taken.
LEMMA TakeWhole ==
  ASSUME IInv, WholeInv, NEW k \in 1..Len(air), Deliver(k), air[k].sequence = expected
  PROVE  AssemblerInv'
<1> DEFINE chunk == air[k]
           whole == buffer \o chunk.payload
<1>1. /\ UNCHANGED <<sent, txSequence, air>>
      /\ expected' = NextSequence(expected, LastSequence)
      /\ buffer' = IF chunk.end THEN <<>> ELSE whole
      /\ taken' = IF chunk.end THEN Append(taken, whole) ELSE taken
  BY DEF Deliver
<1>2. PICK T : taken \in Seq(T)
  BY DEF WholeInv, AssemblerInv
<1>3. PICK start \in 1..LastSequence, n \in 0..Len(air) :
          /\ Numbered(start) /\ expected = SequenceAfter(start, n)
          /\ ~HasRefused => \E f, o \in Nat \ {0} : Progress(n, f, o)
  BY DEF WholeInv, AssemblerInv
<1>4. PICK f, o \in Nat : Piece(k, f, o)
  BY DEF WholeInv, PieceInv
<1>5. Len(air) \in Nat /\ Len(air) <= LastSequence - 1
  BY DEF IInv, TypeOK
<1>6. n = k - 1
  <2>1. SequenceAfter(start, n) = SequenceAfter(start, k - 1)
    BY <1>3 DEF Numbered
  <2>2. n \in 0..(LastSequence - 1) /\ k - 1 \in 0..(LastSequence - 1)
    BY <1>5
  <2> QED
    BY <2>1, <2>2, Injective
<1>7. /\ n + 1 = k /\ k \in 0..Len(air') /\ expected' = SequenceAfter(start, k)
      /\ Numbered(start)'
  <2>1. n + 1 = k /\ n \in Nat /\ k \in 0..Len(air')
    BY <1>1, <1>5, <1>6
  <2>2. SequenceAfter(start, n + 1) = NextSequence(SequenceAfter(start, n), LastSequence)
    BY <2>1, SequenceStep
  <2> QED
    BY <1>1, <1>3, <2>1, <2>2 DEF Numbered
<1>8. /\ Run(chunk.payload, f, o) /\ f \in 1..Len(sent) /\ o \in Nat \ {0} /\ f \in Nat \ {0}
      /\ At(k) = <<f, o>>
      /\ chunk.end <=> o + Len(chunk.payload) - 1 = Len(sent[f])
      /\ At(k + 1) = IF chunk.end THEN <<f + 1, 1>> ELSE <<f, o + Len(chunk.payload)>>
  <2>1. /\ Run(chunk.payload, f, o) /\ f \in 1..Len(sent) /\ o \in Nat \ {0}
        /\ At(k) = <<f, o>>
        /\ chunk.end <=> o + Len(chunk.payload) - 1 = Len(sent[f])
        /\ At(k + 1) = IF chunk.end THEN <<f + 1, 1>> ELSE <<f, o + Len(chunk.payload)>>
    BY <1>4 DEF Piece
  <2>2. f \in Nat \ {0}
    BY <1>4, <2>1
  <2> QED
    BY <2>1, <2>2
<1>9. buffer \in Seq(Byte) /\ chunk.payload \in Seq(Byte) /\ Len(chunk.payload) \in Nat
  BY <1>8 DEF WholeInv, AssemblerInv, Run
<1>10. whole \in Seq(Byte)
  <2> HIDE DEF Byte
  <2> QED
    BY <1>9
<1> HIDE DEF chunk, whole
<1>11. buffer' \in Seq(Byte)
  BY <1>1, <1>10
<1>12. /\ Len(taken) \in Nat /\ taken \in Seq(T \cup {whole})
       /\ \A i \in 1..Len(taken) : taken'[i] = taken[i]
       /\ chunk.end => Len(taken') = Len(taken) + 1 /\ taken'[Len(taken) + 1] = whole
       /\ ~chunk.end => Len(taken') = Len(taken)
       /\ taken' \in Seq(T \cup {whole})
  <2>1. Len(taken) \in Nat /\ taken \in Seq(T \cup {whole})
    BY <1>2
  <2>2. CASE chunk.end
    BY <1>1, <2>1, <2>2
  <2>3. CASE ~chunk.end
    BY <1>1, <2>1, <2>3
  <2> QED
    BY <2>1, <2>2, <2>3
<1>13. HasRefused => HasRefused'
  <2> SUFFICES ASSUME NEW m \in 1..Len(taken), taken[m] = Refused PROVE HasRefused'
    BY DEF HasRefused
  <2>1. m \in 1..Len(taken') /\ taken'[m] = Refused
    BY <1>12
  <2> QED
    BY <2>1 DEF HasRefused
<1>14. ASSUME ~HasRefused
       PROVE  /\ \E g, p \in Nat \ {0} : Progress(k, g, p)'
              /\ chunk.end => Len(taken) + 1 = f /\ whole = sent[f]
  <2>1. PICK g, p \in Nat \ {0} : Progress(n, g, p)
    BY <1>3, <1>14
  <2>2. g = f /\ p = o
    <3>1. At(n + 1) = <<g, p>>
      BY <2>1 DEF Progress
    <3>2. <<g, p>> = <<f, o>>
      BY <1>7, <1>8, <3>1
    <3> QED
      BY <3>2
  <2>3. /\ Run(buffer, f, 1) /\ Len(buffer) = o - 1 /\ Len(taken) = f - 1
        /\ \A i \in 1..(f - 1) : i <= Len(sent) /\ taken[i] = sent[i]
    BY <2>1, <2>2 DEF Progress
  <2>4. Run(whole, f, 1) /\ Len(whole) = o - 1 + Len(chunk.payload)
    <3>1. o = Len(buffer) + 1
      BY <1>8, <2>3
    <3>2. Run(chunk.payload, f, Len(buffer) + 1)
      BY <1>8, <3>1
    <3> QED
      BY <1>8, <2>3, <3>2, RunOn DEF whole
  <2>5. \A i \in 1..Len(sent) : Run(sent[i], i, 1)
    BY DEF WholeInv, SentInv
  <2>6. At(k + 1)' = At(k + 1)
    BY <1>1 DEF At
  <2>7. CASE chunk.end
    <3>1. whole = sent[f] /\ Len(taken) + 1 = f
      <4>1. Len(whole) = Len(sent[f])
        BY <1>8, <1>9, <2>4, <2>7
      <4>2. Run(sent[f], f, 1)
        BY <1>8, <2>5
      <4>3. whole = sent[f]
        BY <2>4, <4>1, <4>2, RunsEqual
      <4> QED
        BY <1>8, <2>3, <4>3
    <3>2. ASSUME NEW h, h = f + 1 PROVE Progress(k, h, 1)'
      <4>1. At(k + 1)' = <<h, 1>>
        BY <1>8, <2>6, <2>7, <3>2
      <4>2. Run(buffer', h, 1) /\ Len(buffer') = 1 - 1
        BY <1>1, <1>11, <2>7 DEF Run
      <4>3. Len(taken') = h - 1
        BY <1>8, <1>12, <2>7, <3>1, <3>2
      <4>4. ASSUME NEW i \in 1..(h - 1) PROVE i <= Len(sent') /\ taken'[i] = sent'[i]
        <5>1. CASE i = f
          BY <1>1, <1>8, <1>12, <2>7, <3>1, <5>1
        <5>2. CASE i # f
          <6>1. i \in 1..(f - 1) /\ i \in 1..Len(taken)
            BY <1>8, <2>3, <3>2, <5>2
          <6> QED
            BY <1>1, <1>12, <2>3, <6>1
        <5> QED
          BY <5>1, <5>2
      <4>5. Byte' = Byte
        BY DEF Byte
      <4> QED
        BY <4>1, <4>2, <4>3, <4>4, <4>5 DEF Progress, Run
    <3>3. f + 1 \in Nat \ {0} /\ 1 \in Nat \ {0}
      BY <1>8
    <3> QED
      BY <3>1, <3>2, <3>3
  <2>8. CASE ~chunk.end
    <3>1. ASSUME NEW q, q = o + Len(chunk.payload) PROVE Progress(k, f, q)'
      <4>1. At(k + 1)' = <<f, q>>
        BY <1>8, <2>6, <2>8, <3>1
      <4>2. Run(buffer', f, 1) /\ Len(buffer') = q - 1
        BY <1>1, <1>8, <1>9, <2>4, <2>8, <3>1
      <4>3. taken' = taken
        BY <1>1, <2>8
      <4>5. Byte' = Byte
        BY DEF Byte
      <4> QED
        BY <1>1, <2>3, <4>1, <4>2, <4>3, <4>5 DEF Progress, Run
    <3>2. o + Len(chunk.payload) \in Nat \ {0}
      BY <1>8, <1>9
    <3> QED
      BY <1>8, <2>8, <3>1, <3>2
  <2> QED
    BY <2>7, <2>8
<1>15. WholeUntilRefused'
  <2> SUFFICES ASSUME NEW m \in 1..Len(taken'), \A i \in 1..m : taken'[i] # Refused
               PROVE  m <= Len(sent) /\ taken'[m] = sent[m]
    BY <1>1 DEF WholeUntilRefused
  <2>1. m \in Nat
    BY <1>12
  <2>2. CASE m <= Len(taken)
    <3>1. m \in 1..Len(taken) /\ \A i \in 1..m : i \in 1..Len(taken)
      BY <1>12, <2>1, <2>2
    <3>2. \A i \in 1..m : taken[i] # Refused
      BY <1>12, <3>1
    <3> QED
      BY <1>12, <3>1, <3>2 DEF WholeInv, AssemblerInv, WholeUntilRefused
  <2>3. CASE m > Len(taken)
    <3>1. chunk.end /\ m = Len(taken) + 1
      BY <1>12, <2>1, <2>3
    <3>2. ~HasRefused
      <4>1. ASSUME NEW i \in 1..Len(taken) PROVE taken[i] # Refused
        <5>1. i \in 1..m
          BY <1>12, <3>1
        <5> QED
          BY <1>12, <5>1
      <4> QED
        BY <4>1 DEF HasRefused
    <3>3. m = f /\ whole = sent[f]
      BY <1>14, <3>1, <3>2
    <3> QED
      BY <1>8, <1>12, <3>1, <3>3
  <2> QED
    BY <1>12, <2>1, <2>2, <2>3
<1>16. Byte' = Byte
  BY DEF Byte
<1>17. ~HasRefused' => \E g, p \in Nat \ {0} : Progress(k, g, p)'
  BY <1>13, <1>14
<1>18. \E U : taken' \in Seq(U)
  BY <1>12
<1> QED
  BY <1>7, <1>11, <1>15, <1>16, <1>17, <1>18 DEF AssemblerInv

LEMMA NextWhole == IInv /\ WholeInv /\ [Next]_vars => WholeInv'
<1> SUFFICES ASSUME IInv, WholeInv, [Next]_vars PROVE WholeInv'
  OBVIOUS
<1>1. ASSUME NEW length \in FrameLengths, SendFrame(length) PROVE WholeInv'
  BY <1>1, SendWhole
<1>2. ASSUME UNCHANGED <<sent, air>> PROVE SentInv' /\ PieceInv'
  <2>1. SentInv'
    BY <1>2 DEF WholeInv, SentInv, Run, Byte
  <2>2. \A k : At(k)' = At(k)
    BY <1>2 DEF At
  <2>3. At(1)' = <<1, 1>>
    BY <2>2 DEF WholeInv, PieceInv
  <2>4. ASSUME NEW k \in 1..Len(air) PROVE \E f, o \in Nat : Piece(k, f, o)'
    <3>1. PICK f, o \in Nat : Piece(k, f, o)
      BY DEF WholeInv, PieceInv
    <3>2. At(k)' = At(k) /\ At(k + 1)' = At(k + 1)
      BY <2>2
    <3> QED
      BY <1>2, <3>1, <3>2 DEF Piece, Run, Byte
  <2> QED
    BY <1>2, <2>1, <2>3, <2>4 DEF PieceInv
<1>3. ASSUME NEW k \in 1..Len(air), Deliver(k) PROVE WholeInv'
  <2>1. UNCHANGED <<sent, air>>
    BY <1>3 DEF Deliver
  <2>2. AssemblerInv'
    BY <1>3, RefuseWhole, TakeWhole
  <2> QED
    BY <1>2, <2>1, <2>2 DEF WholeInv
<1>4. CASE UNCHANGED vars
  <2>1. UNCHANGED <<sent, txSequence, air, expected, buffer, taken>>
    BY <1>4 DEF vars
  <2>2. PICK start \in 1..LastSequence, n \in 0..Len(air) :
            /\ Numbered(start) /\ expected = SequenceAfter(start, n)
            /\ ~HasRefused => \E f, o \in Nat \ {0} : Progress(n, f, o)
    BY DEF WholeInv, AssemblerInv
  <2>3. Numbered(start)' /\ (HasRefused' <=> HasRefused) /\ WholeUntilRefused'
    BY <2>1, <2>2 DEF WholeInv, AssemblerInv, Numbered, HasRefused, WholeUntilRefused
  <2>4. ASSUME NEW f, NEW o, Progress(n, f, o) PROVE Progress(n, f, o)'
    <3>1. At(n + 1)' = At(n + 1)
      BY <2>1 DEF At
    <3> QED
      BY <2>1, <2>4, <3>1 DEF Progress, Run, Byte
  <2>5. buffer' \in Seq(Byte') /\ \E T : taken' \in Seq(T)
    BY <2>1 DEF WholeInv, AssemblerInv, Byte
  <2>6. AssemblerInv'
    BY <2>1, <2>2, <2>3, <2>4, <2>5 DEF AssemblerInv
  <2> QED
    BY <1>2, <2>1, <2>6 DEF WholeInv
<1> QED
  BY <1>1, <1>3, <1>4 DEF Next

\* What add() hands over before it first refuses a chunk is what was sent, in order, whole
\* and once, whatever is lost, repeated or reordered and wherever the numbers wrap
\* (chunk_for_ble, BleMessageAssembler.add).
THEOREM WholeTheorem == Spec => []WholeUntilRefused
<1>1. WholeInv => WholeUntilRefused
  BY DEF WholeInv, AssemblerInv
<1> QED
  BY InitInv, NextInv, InitWhole, NextWhole, <1>1, PTL DEF Spec
=============================================================================
