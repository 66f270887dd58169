-------------------------- MODULE TiltLink_proofs ---------------------------
(***************************************************************************)
(* Proofs about TiltLink: its types, that a position write is put on the   *)
(* air once, that the shade carries requests out in order and once, that   *)
(* an ACK is credited to the right chunk, that a readback settles a write  *)
(* that timed out, that the session implements Exchange, and that neither  *)
(* of its queues fills up, for any script, response lengths, sequence      *)
(* range and number of faults.                                             *)
(***************************************************************************)
EXTENDS TiltLink, FiniteSetTheorems, FunctionTheorems, TLAPS

IsSeq(s) == \E S : s \in Seq(S)
Elems(s) == {s[i] : i \in 1..Len(s)}

LEMMA EmptySeq == IsSeq(<<>>) /\ Elems(<<>>) = {}
<1>1. <<>> \in Seq({})
  OBVIOUS
<1> QED
  BY <1>1 DEF IsSeq, Elems

LEMMA AppendSeq ==
  ASSUME NEW s, IsSeq(s), NEW e
  PROVE  /\ IsSeq(Append(s, e)) /\ Elems(Append(s, e)) \subseteq Elems(s) \cup {e}
         /\ Append(s, e)[Len(Append(s, e))] = e
<1>1. PICK S : s \in Seq(S)
  BY DEF IsSeq
<1>2. s \in Seq(S \cup {e})
  BY <1>1
<1>3. /\ Append(s, e) \in Seq(S \cup {e}) /\ Len(Append(s, e)) = Len(s) + 1
      /\ \A i \in 1..(Len(s) + 1) :
            Append(s, e)[i] = IF i <= Len(s) THEN s[i] ELSE e
  BY <1>2
<1>4. Len(s) \in Nat
  BY <1>1
<1>5. \A i \in 1..Len(Append(s, e)) : Append(s, e)[i] \in Elems(s) \cup {e}
  BY <1>3, <1>4 DEF Elems
<1> QED
  BY <1>3, <1>4, <1>5 DEF IsSeq, Elems

LEMMA TailSeq ==
  ASSUME NEW s, IsSeq(s), s # <<>>
  PROVE  /\ IsSeq(Tail(s)) /\ Elems(Tail(s)) \subseteq Elems(s)
         /\ Head(s) \in Elems(s) /\ ~(Len(Tail(s)) > Len(s))
<1>1. PICK S : s \in Seq(S)
  BY DEF IsSeq
<1>2. /\ Tail(s) \in Seq(S) /\ Len(s) \in Nat \ {0} /\ Len(Tail(s)) = Len(s) - 1
      /\ \A i \in 1..(Len(s) - 1) : Tail(s)[i] = s[i + 1]
      /\ Head(s) = s[1]
  BY <1>1
<1>3. \A i \in 1..Len(Tail(s)) : Tail(s)[i] \in Elems(s)
  BY <1>2 DEF Elems
<1> QED
  BY <1>2, <1>3 DEF IsSeq, Elems

\* One message comes before another in a queue.
Precedes(s, x, y) == \E i, j \in 1..Len(s) : i < j /\ s[i] = x /\ s[j] = y

LEMMA AppendOrder ==
  ASSUME NEW s, IsSeq(s), NEW e, NEW x, NEW y, Precedes(Append(s, e), x, y)
  PROVE  Precedes(s, x, y) \/ (x \in Elems(s) /\ y = e)
<1>1. PICK S : s \in Seq(S)
  BY DEF IsSeq
<1>2. s \in Seq(S \cup {e})
  BY <1>1
<1>3. /\ Len(Append(s, e)) = Len(s) + 1 /\ Len(s) \in Nat
      /\ \A i \in 1..(Len(s) + 1) : Append(s, e)[i] = IF i <= Len(s) THEN s[i] ELSE e
  BY <1>2
<1>4. PICK i, j \in 1..(Len(s) + 1) : i < j /\ Append(s, e)[i] = x /\ Append(s, e)[j] = y
  BY <1>3 DEF Precedes
<1>5. i \in 1..Len(s) /\ s[i] = x
  BY <1>3, <1>4
<1>6. CASE j <= Len(s)
  <2>1. j \in 1..Len(s) /\ s[j] = y
    BY <1>3, <1>4, <1>6
  <2> QED
    BY <1>4, <1>5, <2>1 DEF Precedes
<1>7. CASE ~(j <= Len(s))
  <2>1. y = e
    BY <1>3, <1>4, <1>7
  <2> QED
    BY <1>5, <2>1 DEF Elems
<1> QED
  BY <1>6, <1>7

LEMMA TailOrder ==
  ASSUME NEW s, IsSeq(s), s # <<>>
  PROVE  /\ \A x, y : Precedes(Tail(s), x, y) => Precedes(s, x, y)
         /\ \A y \in Elems(Tail(s)) : Precedes(s, Head(s), y)
<1>1. PICK S : s \in Seq(S)
  BY DEF IsSeq
<1>2. /\ Len(s) \in Nat \ {0} /\ Len(Tail(s)) = Len(s) - 1
      /\ \A i \in 1..(Len(s) - 1) : Tail(s)[i] = s[i + 1]
      /\ Head(s) = s[1]
  BY <1>1
<1>3. ASSUME NEW x, NEW y, Precedes(Tail(s), x, y) PROVE Precedes(s, x, y)
  <2>1. PICK i, j \in 1..(Len(s) - 1) : i < j /\ Tail(s)[i] = x /\ Tail(s)[j] = y
    BY <1>2, <1>3 DEF Precedes
  <2>2. /\ i + 1 \in 1..Len(s) /\ j + 1 \in 1..Len(s) /\ i + 1 < j + 1
        /\ s[i + 1] = x /\ s[j + 1] = y
    BY <1>2, <2>1
  <2> QED
    BY <2>2 DEF Precedes
<1>4. ASSUME NEW y \in Elems(Tail(s)) PROVE Precedes(s, Head(s), y)
  <2>1. PICK i \in 1..(Len(s) - 1) : Tail(s)[i] = y
    BY <1>2 DEF Elems
  <2>2. /\ 1 \in 1..Len(s) /\ i + 1 \in 1..Len(s) /\ 1 < i + 1
        /\ s[1] = Head(s) /\ s[i + 1] = y
    BY <1>2, <2>1
  <2> QED
    BY <2>2 DEF Precedes
<1> QED
  BY <1>3, <1>4

LEMMA OrderedElems ==
  ASSUME NEW s, NEW x, NEW y, Precedes(s, x, y) PROVE x \in Elems(s) /\ y \in Elems(s)
  BY DEF Precedes, Elems

-----------------------------------------------------------------------------
Numbers == 1..MaxSequence

\* A request is transmitted for the first time from "ready" only.
TriesInv ==
    /\ phase = "ready" => tries = 0
    /\ phase = "ack" => tries >= 1
    /\ phase # "closed" => current \in Requests

\* What travels is numbered.
AirInv ==
    /\ IsSeq(up) /\ IsSeq(down)
    /\ \A m \in Elems(down) : m.type = "data" => m.seq \in Numbers
    /\ {"expected", "tx", "state", "frame"} \subseteq DOMAIN shade

IInv == TypeOK /\ TriesInv /\ AirInv

LEMMA Constants ==
  /\ Len(Script) \in Nat \ {0} /\ Script[Len(Script)] # "write"
  /\ MaxSequence \in Nat \ {0, 1} /\ MaxFaults \in Nat
<1>1. Len(Script) \in Nat \ {0}
  BY ScriptAssumption
<1>2. Len(Script) \in 1..Len(Script) /\ ~(Len(Script) < Len(Script))
  BY <1>1
<1> QED
  BY <1>1, <1>2, ScriptAssumption, SequenceAssumption, FaultAssumption

LEMMA NextNumber ==
  ASSUME NEW s \in Numbers PROVE NextSequence(s) \in Numbers /\ NextSequence(s) # s
  BY Constants DEF Numbers, NextSequence, Codec!NextSequence

LEMMA AttemptsRange ==
  /\ Attempts \in 1..2 /\ (Script[current] = "write" => Attempts = 1)
  BY DEF Attempts

LEMMA MessageFacts ==
  ASSUME NEW s, NEW part, NEW last
  PROVE  /\ Data(s, part, last).type = "data" /\ Data(s, part, last).seq = s
         /\ Data(s, part, last).part = part
         /\ Ack(s).type = "ack" /\ Ack(s).seq = s
  BY DEF Data, Ack

\* The chunk that the caller transmits, taken as a whole and by its part.
Chunk == Data(txSequence, <<current, 1>>, TRUE)

LEMMA ChunkFacts == Chunk.part[1] = current
<1>1. Chunk.part = <<current, 1>>
  BY DEF Chunk, Data
<1> QED
  BY <1>1

LEMMA TransmitFacts ==
  ASSUME IsSeq(up), Transmit
  PROVE  /\ IsSeq(up') /\ tries' = tries + 1 /\ waiter' = "pending"
         /\ writing' \in BOOLEAN
<1>1. up' = Append(up, Chunk)
  BY DEF Transmit, Chunk
<1>2. IsSeq(up')
  BY <1>1, AppendSeq
<1> QED
  BY <1>2 DEF Transmit

LEMMA InitInv == Init => IInv
<1> SUFFICES ASSUME Init PROVE IInv
  OBVIOUS
<1>1. /\ shade.expected = 1 /\ shade.tx = 1 /\ shade.state = Silent
      /\ {"expected", "tx", "state", "frame"} \subseteq DOMAIN shade
  BY DEF Init
<1>2. acking.seq = 0
  BY DEF Init, NoAck
<1>3. 1 \in 1..MaxSequence /\ 0 \in 0..MaxSequence /\ 0 \in 0..MaxFaults
      /\ 1 \in 1..(Len(Script) + 1) /\ 1 \in Requests
  BY Constants DEF Requests
<1>4. TypeOK
  <2>1. /\ current = 1 /\ phase = "ready" /\ tries = 0 /\ txSequence = 1 /\ expected = 1
        /\ waiter = "none" /\ outcome = [i \in Requests |-> "none"] /\ faults = 0
        /\ writing \in BOOLEAN
    BY DEF Init
  <2> QED
    BY <1>1, <1>2, <1>3, <2>1 DEF TypeOK, Outcomes
<1>5. TriesInv
  BY <1>3 DEF Init, TriesInv
<1>6. AirInv
  BY <1>1, EmptySeq DEF Init, AirInv
<1> QED
  BY <1>4, <1>5, <1>6 DEF IInv

\* What settling or timing out does to the types of the caller.
LEMMA SettleFacts ==
  ASSUME IInv, NEW result \in Outcomes, NEW place \in {"ready", "closed"},
         current \in Requests, Settle(result, place)
  PROVE  /\ outcome' \in [Requests -> Outcomes]
         /\ phase' = place /\ tries' = 0 /\ waiter' = "none" /\ writing' \in BOOLEAN
  BY DEF Settle, IInv, TypeOK

LEMMA AbortFacts ==
  ASSUME IInv, current \in Requests, Abort
  PROVE  /\ outcome' \in [Requests -> Outcomes]
         /\ phase' = "closed" /\ tries' = 0 /\ waiter' = "none" /\ writing' \in BOOLEAN
         /\ current' = current
  BY SettleFacts DEF Abort, Outcomes

LEMMA TimedOutFacts ==
  ASSUME IInv, NEW result \in Outcomes, current \in Requests, TimedOut(result)
  PROVE  /\ outcome' \in [Requests -> Outcomes]
         /\ tries' = 0 /\ waiter' = "none" /\ writing' \in BOOLEAN
         /\ \/ phase' = "closed" /\ current' = current
            \/ phase' = "ready" /\ current' = current + 1 /\ current + 1 \in Requests
<1>1. CASE Script[current] = "write"
  <2>1. Settle(result, "ready") /\ current' = current + 1
    BY <1>1 DEF TimedOut
  <2>2. current + 1 \in Requests
    BY <1>1, Constants DEF Requests
  <2> QED
    BY <2>1, <2>2, SettleFacts
<1>2. CASE Script[current] # "write"
  BY <1>2, AbortFacts DEF TimedOut
<1> QED
  BY <1>1, <1>2

\* A step of the caller that leaves worker, shade and faults alone keeps the
\* invariant, if its own variables stay well typed.
LEMMA CallerStep ==
  ASSUME IInv,
         outcome' \in [Requests -> Outcomes],
         phase' \in {"ready", "ack", "response", "closed"},
         tries' \in 0..2, txSequence' \in Numbers, writing' \in BOOLEAN,
         waiter' \in {"none", "pending", "acked", "failed", "expired"},
         phase' = "ready" => tries' = 0, phase' = "ack" => tries' >= 1,
         current' \in 1..(Len(Script) + 1),
         phase' # "closed" => current' \in Requests,
         IsSeq(up'), faults' \in 0..MaxFaults,
         UNCHANGED <<workerVars, down, shade>>
  PROVE  IInv'
  BY DEF IInv, TypeOK, TriesInv, AirInv, workerVars, Numbers

LEMMA TypedCurrent == ASSUME IInv PROVE current \in 1..(Len(Script) + 1)
  BY DEF IInv, TypeOK

LEMMA CallerInv == ASSUME IInv, Caller PROVE IInv'
<1>0. /\ txSequence \in Numbers /\ faults \in 0..MaxFaults /\ IsSeq(up)
      /\ outcome \in [Requests -> Outcomes] /\ tries \in 0..2 /\ writing \in BOOLEAN
      /\ waiter \in {"none", "pending", "acked", "failed", "expired"}
      /\ phase # "closed" => current \in Requests
      /\ phase = "ready" => tries = 0
      /\ phase = "ack" => tries >= 1
  BY DEF IInv, TypeOK, TriesInv, AirInv, Numbers
<1>1. Requests \subseteq 1..(Len(Script) + 1)
  BY Constants DEF Requests
<1>2. CASE RefuseStale
  BY <1>0, <1>1, <1>2, AbortFacts, CallerStep DEF RefuseStale, shadeVars
<1>3. CASE SendChunk
  <2>1. /\ IsSeq(up') /\ tries' = tries + 1 /\ waiter' = "pending"
        /\ writing' \in BOOLEAN /\ phase = "ready" /\ phase' = "ack"
        /\ UNCHANGED <<current, outcome, txSequence, workerVars, down, shade, faults>>
    BY <1>0, <1>3, TransmitFacts DEF SendChunk, shadeVars
  <2>2. tries' \in 1..2
    BY <1>0, <2>1
  <2>3. tries' \in 0..2 /\ tries' >= 1 /\ current' \in Requests
    BY <1>0, <2>1, <2>2
  <2>4. current' \in 1..(Len(Script) + 1) /\ outcome' \in [Requests -> Outcomes]
        /\ faults' \in 0..MaxFaults /\ txSequence' \in Numbers
    BY <1>0, <1>1, <2>1, <2>3
  <2> QED
    BY <2>1, <2>3, <2>4, CallerStep
<1>4. CASE SendFails
  <2>1. faults' \in 0..MaxFaults
    BY <1>0, <1>4, Constants DEF SendFails
  <2> QED
    BY <1>0, <1>1, <1>4, <2>1, AbortFacts, CallerStep DEF SendFails, shadeVars
<1>5. CASE Acknowledged
  <2>1. txSequence' \in Numbers
    BY <1>0, <1>5, NextNumber DEF Acknowledged
  <2> QED
    BY <1>0, <1>1, <1>5, <2>1, CallerStep DEF Acknowledged, shadeVars
<1>6. CASE AckFails
  BY <1>0, <1>1, <1>6, AbortFacts, CallerStep DEF AckFails, shadeVars
<1>7. CASE AckTimeout
  <2>1. phase = "ack" /\ UNCHANGED <<txSequence, workerVars, down, shade, faults>>
    BY <1>7 DEF AckTimeout, TimeoutRaised, shadeVars
  <2>2. CASE tries < Attempts
    <3>1. /\ IsSeq(up') /\ tries' = tries + 1 /\ waiter' = "pending"
          /\ writing' \in BOOLEAN /\ UNCHANGED <<current, outcome, phase>>
      BY <1>0, <1>7, <2>2, TransmitFacts DEF AckTimeout
    <3>2. tries' \in 1..2
      BY <1>0, <2>1, <2>2, <3>1, AttemptsRange
    <3>3. tries' \in 0..2 /\ tries' >= 1
      BY <3>2
    <3>4. phase' = "ack" /\ current' \in Requests /\ current' \in 1..(Len(Script) + 1)
      BY <1>0, <1>1, <2>1, <3>1
    <3> QED
      BY <1>0, <2>1, <3>1, <3>3, <3>4, CallerStep
  <2>3. CASE ~(tries < Attempts)
    <3>1. TimedOut("unacked") /\ up' = up /\ "unacked" \in Outcomes
      BY <1>7, <2>3 DEF AckTimeout, Outcomes
    <3>2. current \in Requests
      BY <1>0, <2>1
    <3> QED
      BY <1>0, <1>1, <2>1, <3>1, <3>2, TimedOutFacts, CallerStep
  <2> QED
    BY <2>2, <2>3
<1>8. CASE TakeResponse
  <2>1. /\ phase = "response" /\ current \in Requests
        /\ UNCHANGED <<txSequence, workerVars, up, down, shade, faults>>
    BY <1>0, <1>8 DEF TakeResponse, shadeVars
  <2>2. CASE /\ Settle("ok", IF current = Len(Script) THEN "closed" ELSE "ready")
             /\ current' = current + 1
    <3>1. "ok" \in Outcomes
      BY DEF Outcomes
    <3>2. /\ current + 1 \in 1..(Len(Script) + 1)
          /\ current # Len(Script) => current + 1 \in Requests
      BY <2>1, Constants DEF Requests
    <3> QED
      BY <1>0, <2>1, <2>2, <3>1, <3>2, SettleFacts, CallerStep
  <2>3. CASE Abort
    BY <1>0, <1>1, <2>1, <2>3, AbortFacts, CallerStep
  <2> QED
    BY <1>8, <2>2, <2>3 DEF TakeResponse
<1>9. CASE ResponseTimeout
  <2>1. /\ current \in Requests /\ "unanswered" \in Outcomes /\ TimedOut("unanswered")
        /\ UNCHANGED <<txSequence, workerVars, up, down, shade, faults>>
    BY <1>0, <1>9 DEF ResponseTimeout, Outcomes, shadeVars
  <2> QED
    BY <1>0, <1>1, <2>1, TimedOutFacts, CallerStep
<1>10. CASE WriteReturns
  BY <1>0, <1>1, <1>10, CallerStep DEF WriteReturns, shadeVars
<1> QED
  BY <1>2, <1>3, <1>4, <1>5, <1>6, <1>7, <1>8, <1>9, <1>10 DEF Caller

\* What a step of the worker may do: it takes and numbers chunks, gives errors and
\* frames to the caller, and never touches the caller's own variables.
LEMMA WorkerStep ==
  ASSUME IInv, UNCHANGED callerVars, UNCHANGED shade,
         waiter' \in {"none", "pending", "acked", "failed", "expired"},
         expected' \in Numbers, acking'.seq \in 0..MaxSequence,
         IsSeq(up'), IsSeq(down'), Elems(down') \subseteq Elems(down),
         faults' \in 0..MaxFaults
  PROVE  IInv'
  BY DEF IInv, TypeOK, TriesInv, AirInv, callerVars, Numbers

LEMMA WorkerInv == ASSUME IInv, Worker PROVE IInv'
<1>0. /\ IsSeq(up) /\ IsSeq(down) /\ expected \in Numbers
      /\ acking.seq \in 0..MaxSequence /\ faults \in 0..MaxFaults
      /\ waiter \in {"none", "pending", "acked", "failed", "expired"}
      /\ \A m \in Elems(down) : m.type = "data" => m.seq \in Numbers
  BY DEF IInv, TypeOK, AirInv, Numbers
<1>1. NoAck.seq \in 0..MaxSequence
  BY Constants DEF NoAck
<1>2. ASSUME Working, down' = Tail(down)
      PROVE  /\ IsSeq(down') /\ Elems(down') \subseteq Elems(down)
             /\ Head(down) \in Elems(down)
  BY <1>0, <1>2, TailSeq DEF Working
<1>3. ASSUME NEW kind, Fail(kind)
      PROVE  waiter' \in {"none", "pending", "acked", "failed", "expired"}
  BY <1>0, <1>3 DEF Fail
<1>4. CASE WorkerTakesAck
  BY <1>0, <1>2, <1>4, WorkerStep DEF WorkerTakesAck, workerVars, shadeVars
<1>5. CASE WorkerTakesChunk
  <2>1. expected' \in Numbers
    BY <1>0, <1>5, NextNumber DEF WorkerTakesChunk
  <2>2. acking'.seq = Head(down).seq
    BY <1>5 DEF WorkerTakesChunk
  <2>3. Head(down).seq \in 0..MaxSequence
    BY <1>0, <1>2, <1>5, Constants DEF WorkerTakesChunk, Numbers
  <2> QED
    BY <1>0, <1>2, <1>5, <2>1, <2>2, <2>3, WorkerStep DEF WorkerTakesChunk, shadeVars
<1>6. CASE WorkerRefusesChunk
  BY <1>0, <1>2, <1>3, <1>6, WorkerStep DEF WorkerRefusesChunk, shadeVars
<1>7. CASE WorkerAcks
  <2>1. IsSeq(up')
    BY <1>0, <1>7, AppendSeq DEF WorkerAcks
  <2>2. waiter' \in {"none", "pending", "acked", "failed", "expired"}
    BY <1>0, <1>3, <1>7 DEF WorkerAcks
  <2> QED
    BY <1>0, <1>1, <1>7, <2>1, <2>2, WorkerStep DEF WorkerAcks, shadeVars
<1>8. CASE WorkerAckFails
  <2>1. faults' \in 0..MaxFaults
    BY <1>0, <1>8, Constants DEF WorkerAckFails
  <2>2. IsSeq(up')
    <3>1. up' = up \/ up' = Append(up, Ack(acking.seq))
      BY <1>8 DEF WorkerAckFails
    <3>2. IsSeq(Append(up, Ack(acking.seq)))
      BY <1>0, AppendSeq
    <3> QED
      BY <1>0, <3>1, <3>2
  <2> QED
    BY <1>0, <1>1, <1>3, <1>8, <2>1, <2>2, WorkerStep DEF WorkerAckFails, shadeVars
<1> QED
  BY <1>4, <1>5, <1>6, <1>7, <1>8 DEF Worker

\* A step of the shade or of the air.
LEMMA AirStep ==
  ASSUME IInv, UNCHANGED <<callerVars, waiter, workerVars>>,
         shade'.expected \in Numbers, shade'.tx \in Numbers,
         shade'.state \in {Silent, Emits, Awaits}, DOMAIN shade' = DOMAIN shade,
         IsSeq(up'), IsSeq(down'),
         \A m \in Elems(down') : m.type = "data" => m.seq \in Numbers,
         faults' \in 0..MaxFaults
  PROVE  IInv'
  BY DEF IInv, TypeOK, TriesInv, AirInv, callerVars, workerVars, Numbers

LEMMA ShadeInv == ASSUME IInv, Shade \/ Lose PROVE IInv'
<1>0. /\ IsSeq(up) /\ IsSeq(down) /\ faults \in 0..MaxFaults
      /\ shade.expected \in Numbers /\ shade.tx \in Numbers
      /\ shade.state \in {Silent, Emits, Awaits}
      /\ {"expected", "tx", "state", "frame"} \subseteq DOMAIN shade
      /\ \A m \in Elems(down) : m.type = "data" => m.seq \in Numbers
  BY DEF IInv, TypeOK, AirInv, Numbers
<1>1. CASE ShadeTakesChunk
  <2>1. IsSeq(up') /\ faults' = faults /\ UNCHANGED <<callerVars, waiter, workerVars>>
    BY <1>0, <1>1, TailSeq DEF ShadeTakesChunk
  <2>2. IsSeq(down') /\ Elems(down') \subseteq Elems(down) \cup {Ack(Head(up).seq)}
    BY <1>0, <1>1, AppendSeq DEF ShadeTakesChunk
  <2>3. \A m \in Elems(down') : m.type = "data" => m.seq \in Numbers
    BY <1>0, <2>2, MessageFacts
  <2>4. /\ shade'.expected \in Numbers /\ shade'.tx \in Numbers
        /\ shade'.state \in {Silent, Emits, Awaits} /\ DOMAIN shade' = DOMAIN shade
    <3>1. CASE shade' = shade
      BY <1>0, <3>1
    <3>2. CASE shade' = [shade EXCEPT !.expected = NextSequence(@), !.state = Emits,
                                      !.frame = Frame(Head(up).part[1])]
      <4>1. NextSequence(shade.expected) \in Numbers
        BY <1>0, NextNumber
      <4> HIDE DEF Numbers
      <4> QED
        BY <1>0, <3>2, <4>1
    <3> QED
      BY <1>1, <3>1, <3>2 DEF ShadeTakesChunk, shadeVars
  <2> QED
    BY <1>0, <2>1, <2>2, <2>3, <2>4, AirStep
<1>2. CASE ShadeEmits
  <2>1. /\ UNCHANGED <<callerVars, waiter, workerVars, up, faults>>
        /\ shade' = [shade EXCEPT !.state = Awaits]
    BY <1>2 DEF ShadeEmits
  <2>2. PICK part, last : down' = Append(down, Data(shade.tx, part, last))
    BY <1>2 DEF ShadeEmits
  <2>3. IsSeq(down') /\ Elems(down') \subseteq Elems(down) \cup {Data(shade.tx, part, last)}
    BY <1>0, <2>2, AppendSeq
  <2>4. \A m \in Elems(down') : m.type = "data" => m.seq \in Numbers
    BY <1>0, <2>3, MessageFacts
  <2>5. /\ shade'.expected = shade.expected /\ shade'.tx = shade.tx
        /\ shade'.state = Awaits /\ DOMAIN shade' = DOMAIN shade
    BY <1>0, <2>1
  <2> QED
    BY <1>0, <2>1, <2>3, <2>4, <2>5, AirStep
<1>3. CASE ShadeTakesAck
  <2>1. IsSeq(up') /\ UNCHANGED <<callerVars, waiter, workerVars, down, faults>>
    BY <1>0, <1>3, TailSeq DEF ShadeTakesAck
  <2>2. /\ shade'.expected \in Numbers /\ shade'.tx \in Numbers
        /\ shade'.state \in {Silent, Emits, Awaits} /\ DOMAIN shade' = DOMAIN shade
    <3>1. CASE shade' = shade
      BY <1>0, <3>1
    <3>2. CASE shade' = [shade EXCEPT !.tx = NextSequence(@), !.frame = Tail(@),
                             !.state = IF Len(shade.frame) = 1 THEN Silent ELSE Emits]
      <4>1. NextSequence(shade.tx) \in Numbers
        BY <1>0, NextNumber
      <4> QED
        BY <1>0, <3>2, <4>1
    <3> QED
      BY <1>3, <3>1, <3>2 DEF ShadeTakesAck
  <2> QED
    BY <1>0, <2>1, <2>2, AirStep
<1>4. CASE ShadeGivesUp
  <2>1. /\ UNCHANGED <<callerVars, waiter, workerVars, up, down, faults>>
        /\ shade' = [shade EXCEPT !.state = Silent, !.frame = <<>>]
    BY <1>4 DEF ShadeGivesUp
  <2>2. /\ shade'.expected = shade.expected /\ shade'.tx = shade.tx
        /\ shade'.state = Silent /\ DOMAIN shade' = DOMAIN shade
    BY <1>0, <2>1
  <2> QED
    BY <1>0, <2>1, <2>2, AirStep
<1>5. CASE Lose
  <2>1. /\ IsSeq(up') /\ IsSeq(down') /\ Elems(down') \subseteq Elems(down)
        /\ UNCHANGED <<callerVars, waiter, workerVars, shade>>
    BY <1>0, <1>5, TailSeq DEF Lose, shadeVars
  <2>2. faults' \in 0..MaxFaults
    BY <1>0, <1>5, Constants DEF Lose
  <2> QED
    BY <1>0, <2>1, <2>2, AirStep
<1> QED
  BY <1>1, <1>2, <1>3, <1>4, <1>5 DEF Shade

LEMMA NextInv == IInv /\ [Next]_vars => IInv'
<1>1. ASSUME IInv, UNCHANGED vars PROVE IInv'
  BY <1>1 DEF vars, callerVars, workerVars, shadeVars, IInv, TypeOK, TriesInv, AirInv
<1> QED
  BY <1>1, CallerInv, WorkerInv, ShadeInv DEF Next

\* The types of the session and of the air (_send_frame, the notification worker).
THEOREM TypeCorrect == Spec => []TypeOK
<1>1. IInv => TypeOK
  BY DEF IInv
<1> QED
  BY InitInv, NextInv, <1>1, PTL DEF Spec

\* A position write is put on the air once, whatever is lost and however late the
\* answers are (retry_chunks=False of set_position).
THEOREM WriteOnceTheorem == Spec => WriteSentOnce
<1> DEFINE Once == \A i \in Requests :
          Script[i] = "write" /\ Len(up') > Len(up) /\ up'[Len(up')].type = "data"
          /\ up'[Len(up')].part[1] = i => current = i /\ tries = 0
<1>1. IInv /\ [Next]_vars => Once
  <2> SUFFICES ASSUME IInv, [Next]_vars, NEW i \in Requests, Script[i] = "write",
                      Len(up') > Len(up), up'[Len(up')].type = "data",
                      up'[Len(up')].part[1] = i
               PROVE  current = i /\ tries = 0
    OBVIOUS
  <2>0. /\ IsSeq(up) /\ tries \in 0..2 /\ (phase = "ready" => tries = 0)
        /\ phase = "ack" => tries >= 1
    BY DEF IInv, TypeOK, TriesInv, AirInv
  <2>1. ~(up' = up) /\ ~(up # <<>> /\ up' = Tail(up))
    <3>1. \A S : up \in Seq(S) => Len(up) \in Nat
      OBVIOUS
    <3>2. Len(up) \in Nat
      BY <2>0, <3>1 DEF IsSeq
    <3> QED
      BY <2>0, <3>2, TailSeq
  <2>2. ASSUME NEW s PROVE up' # Append(up, Ack(s))
    <3> SUFFICES ASSUME up' = Append(up, Ack(s)) PROVE FALSE
      OBVIOUS
    <3>1. up'[Len(up')] = Ack(s)
      BY <2>0, AppendSeq
    <3> QED
      BY <3>1, MessageFacts
  <2>3. ASSUME up' = Append(up, Chunk) PROVE current = i
    <3>1. up'[Len(up')] = Chunk
      BY <2>0, <2>3, AppendSeq
    <3>2. up'[Len(up')].part[1] = current
      BY <3>1, ChunkFacts, Zenon
    <3> QED
      BY <3>2
  <2>4. ASSUME phase = "ack", tries < Attempts, current = i PROVE FALSE
    BY <2>0, <2>4, AttemptsRange
  <2>5. CASE SendChunk
    BY <2>0, <2>3, <2>5 DEF SendChunk, Transmit, Chunk
  <2>6. CASE WriteReturns \/ SendFails
    BY <2>1, <2>6 DEF WriteReturns, SendFails
  <2>7. CASE AckTimeout
    BY <2>1, <2>3, <2>4, <2>7 DEF AckTimeout, TimeoutRaised, Transmit, Chunk
  <2>8. CASE WorkerAcks \/ WorkerAckFails
    BY <2>1, <2>2, <2>8 DEF WorkerAcks, WorkerAckFails
  <2>9. CASE RefuseStale \/ Acknowledged \/ AckFails \/ TakeResponse \/ ResponseTimeout
    BY <2>1, <2>9 DEF RefuseStale, Acknowledged, AckFails, TakeResponse, ResponseTimeout
  <2>10. CASE WorkerTakesAck \/ WorkerTakesChunk \/ WorkerRefusesChunk
    BY <2>1, <2>10 DEF WorkerTakesAck, WorkerTakesChunk, WorkerRefusesChunk
  <2>11. CASE Shade \/ Lose \/ UNCHANGED vars
    BY <2>1, <2>11 DEF Shade, ShadeTakesChunk, ShadeEmits, ShadeTakesAck, ShadeGivesUp,
       Lose, vars
  <2> QED
    BY <2>5, <2>6, <2>7, <2>8, <2>9, <2>10, <2>11 DEF Next, Caller, Worker
<1>2. IInv /\ [Next]_vars => [Once]_vars
  BY <1>1
<1> QED
  BY InitInv, NextInv, <1>2, PTL DEF Spec, WriteSentOnce

-----------------------------------------------------------------------------
\* The invariant of the air.  A chunk is known by its sequence number alone, so the
\* proof is about which numbers can be under way: the current one and the one before,
\* the older ahead of the newer, in the chunks and in their ACKs.

IsData(m) == m.type = "data"
Id(m)     == m.part[1]
Fresh(m)  == m.seq = txSequence

Open    == phase \in {"ready", "ack"}
Untaken == shade.expected = txSequence  \* no chunk of this number was carried out

\* The write before the current request was given up unacknowledged, and the current
\* request has its number.
Shared == current > 1 /\ outcome[current - 1] = "unacked"

\* Every chunk under way has the current number.
OnlyFresh == \A m \in Elems(up) : IsData(m) => Fresh(m)

\* Request r comes after all that was carried out, and the write that it shares its
\* number with was not.
Due(r) == \A e \in Done : e < r /\ (e + 1 = r => outcome[e] # "unacked")

ChunkInv ==
    \A m \in Elems(up) : IsData(m) =>
        /\ Id(m) \in Requests /\ Id(m) <= current
        /\ Fresh(m) \/ NextSequence(m.seq) = txSequence
        /\ \A e \in Done : e <= Id(m)
        /\ Fresh(m) =>
              /\ phase # "response"
              /\ Id(m) = current \/ (Id(m) + 1 = current /\ outcome[Id(m)] = "unacked")
              /\ Untaken => Due(Id(m))
        /\ ~Fresh(m) => Untaken

AckInv ==
    \A m \in Elems(down) : ~IsData(m) =>
        /\ Fresh(m) \/ NextSequence(m.seq) = txSequence
        /\ Fresh(m) => ~Untaken /\ OnlyFresh

OrderInv ==
    /\ \A x, y \in Elems(up) : Precedes(up, x, y) /\ IsData(x) /\ IsData(y) =>
          Id(x) <= Id(y) /\ (Fresh(x) => Fresh(y))
    /\ \A x, y \in Elems(down) : Precedes(down, x, y) /\ ~IsData(x) /\ ~IsData(y) =>
          (Fresh(x) => Fresh(y))

\* What the shade carried out, by where the caller stands.
NumberInv ==
    /\ Untaken \/ shade.expected = NextSequence(txSequence)
    /\ Done \subseteq Requests /\ \A e \in Done : e <= current
    /\ phase = "response" => Untaken /\ (current \in Done \/ Shared)
    /\ Open /\ Untaken => Due(current)
    /\ Open /\ ~Untaken => current \in Done \/ (Shared /\ current - 1 \in Done)
    /\ waiter # "none" => phase = "ack"
    /\ waiter = "acked" => /\ ~Untaken /\ OnlyFresh
                           /\ \A m \in Elems(down) : ~IsData(m) => Fresh(m)

\* What the outcomes tell of the shade.
OutcomeInv ==
    \A i \in Requests :
        /\ outcome[i] \in {"unacked", "unanswered"} => Script[i] = "write"
        /\ outcome[i] \in {"ok", "unanswered"} => i \in Done
        /\ outcome[i] = "unacked" /\ i + 1 \in Done => i \notin Done
        /\ outcome[i] = "error" => phase = "closed"

\* Whatever the shade sent, and the worker made of it, answers a request that was
\* carried out.
Answers(frame) == IsSeq(frame) /\ \A p \in Elems(frame) : p[1] \in Done

PartInv ==
    /\ Answers(shade.frame) /\ Answers(buffer) /\ Answers(acking.frame)
    /\ shade.state # Silent => shade.frame # <<>>
    /\ \A m \in Elems(down) : IsData(m) => Id(m) \in Done
    /\ IsSeq(responses)
    /\ \A r \in Elems(responses) : "frame" \in DOMAIN r => Answers(r.frame)

LinkInv ==
    /\ ChunkInv /\ AckInv /\ OrderInv /\ NumberInv /\ OutcomeInv
    /\ IsSeq(executed) /\ ExecutedInOrder

LEMMA InitLinkInv == Init => LinkInv /\ PartInv
<1> SUFFICES ASSUME Init PROVE LinkInv /\ PartInv
  OBVIOUS
<1>1. Elems(up) = {} /\ Elems(down) = {} /\ Elems(responses) = {} /\ IsSeq(responses)
  BY EmptySeq DEF Init
<1>2. executed = <<>> /\ Len(executed) = 0 /\ IsSeq(executed)
  BY EmptySeq DEF Init
<1>3. Done = {}
  BY <1>2 DEF Done
<1>4. Untaken /\ phase = "ready" /\ waiter = "none"
  BY DEF Init, Untaken
<1>5. ChunkInv /\ AckInv /\ OrderInv
  BY <1>1 DEF ChunkInv, AckInv, OrderInv
<1>6. NumberInv
  BY <1>1, <1>3, <1>4 DEF NumberInv, Due
<1>7. OutcomeInv
  BY DEF Init, OutcomeInv
<1>8. ExecutedInOrder
  BY <1>2 DEF ExecutedInOrder
<1>9. PartInv
  <2>1. shade.frame = <<>> /\ buffer = <<>> /\ acking.frame = <<>> /\ shade.state = Silent
    BY DEF Init, NoAck
  <2> QED
    BY <1>1, <2>1, EmptySeq DEF PartInv, Answers
<1> QED
  BY <1>2, <1>5, <1>6, <1>7, <1>8, <1>9 DEF LinkInv

\* A step that puts no chunk on the air and takes what it takes from the front.
LEMMA QuietStep ==
  ASSUME LinkInv, UNCHANGED <<current, outcome, phase, txSequence, executed>>,
         shade'.expected = shade.expected,
         waiter' # "none" => waiter # "none",
         \/ waiter' \in {waiter, "none", "failed", "expired"}
         \/ ~Untaken /\ OnlyFresh /\ \A m \in Elems(down') : ~IsData(m) => Fresh(m),
         \A m \in Elems(up') : IsData(m) => m \in Elems(up),
         \A m \in Elems(down') : ~IsData(m) => m \in Elems(down),
         \A x, y : Precedes(up', x, y) /\ IsData(x) /\ IsData(y) => Precedes(up, x, y),
         \A x, y : Precedes(down', x, y) /\ ~IsData(x) /\ ~IsData(y) => Precedes(down, x, y)
  PROVE  LinkInv'
<1>1. Done' = Done
  BY DEF Done
<1>2. /\ Untaken' <=> Untaken
      /\ \A m : Fresh(m)' <=> Fresh(m)
      /\ \A r : Due(r)' <=> Due(r)
      /\ Open' <=> Open
      /\ Shared' <=> Shared
      /\ OnlyFresh => OnlyFresh'
  BY <1>1 DEF Untaken, Fresh, Due, Open, Shared, OnlyFresh
<1>3. ChunkInv'
  BY <1>1, <1>2 DEF LinkInv, ChunkInv
<1>4. AckInv'
  BY <1>1, <1>2 DEF LinkInv, AckInv
<1>5. OrderInv'
  BY <1>1, <1>2, OrderedElems DEF LinkInv, OrderInv
<1>6. NumberInv'
  BY <1>1, <1>2 DEF LinkInv, NumberInv
<1>7. OutcomeInv'
  BY <1>1 DEF LinkInv, OutcomeInv
<1>8. IsSeq(executed)' /\ ExecutedInOrder'
  BY DEF LinkInv, ExecutedInOrder
<1> QED
  BY <1>3, <1>4, <1>5, <1>6, <1>7, <1>8 DEF LinkInv

\* What an outcome of the current request changes.
LEMMA OutcomeFacts ==
  ASSUME IInv, current \in Requests, NEW result \in Outcomes,
         outcome' = [outcome EXCEPT ![current] = result]
  PROVE  /\ outcome'[current] = result
         /\ \A i \in Requests : i # current => outcome'[i] = outcome[i]
  BY DEF IInv, TypeOK

\* The chunk of the current request goes out, and its caller awaits the ACK or fails.
LEMMA SendStep ==
  ASSUME IInv, LinkInv, Open, current \in Requests, up' = Append(up, Chunk), down' = down,
         UNCHANGED <<current, txSequence, executed>>, shade'.expected = shade.expected,
         \/ phase' = "ack" /\ waiter' = "pending" /\ outcome' = outcome
         \/ phase' = "closed" /\ waiter' = "none"
            /\ outcome' = [outcome EXCEPT ![current] = "error"]
  PROVE  LinkInv'
<1>1. Done' = Done /\ (Untaken' <=> Untaken)
  BY DEF Done, Untaken
<1>2. /\ \A i \in Requests : i # current => outcome'[i] = outcome[i]
      /\ \A i \in Requests : outcome'[i] = outcome[i] \/ (outcome'[i] = "error" /\ phase' = "closed")
  BY OutcomeFacts DEF Outcomes
<1>3. \A m : Fresh(m)' <=> Fresh(m)
  BY DEF Fresh
<1>4. IsData(Chunk) /\ Fresh(Chunk) /\ Id(Chunk) = current
  <2>1. Chunk.type = "data" /\ Chunk.seq = txSequence
    BY DEF Chunk, Data
  <2> QED
    BY <2>1, ChunkFacts, Zenon DEF IsData, Fresh, Id
<1>5. /\ Elems(up') \subseteq Elems(up) \cup {Chunk}
      /\ \A x, y : Precedes(up', x, y) => Precedes(up, x, y) \/ (x \in Elems(up) /\ y = Chunk)
  BY AppendSeq, AppendOrder DEF IInv, AirInv
<1>6. Done \subseteq Requests /\ (\A e \in Done : e <= current) /\ (Untaken => Due(current))
  BY DEF LinkInv, NumberInv
<1>7. \A r : Due(r) => Due(r)'
  BY <1>1, <1>2, <1>6 DEF Due
<1>8. OnlyFresh => OnlyFresh'
  BY <1>3, <1>4, <1>5 DEF OnlyFresh
<1>9. ChunkInv'
  <2> SUFFICES ASSUME NEW m \in Elems(up'), IsData(m)
      PROVE  /\ Id(m) \in Requests /\ Id(m) <= current
             /\ Fresh(m) \/ NextSequence(m.seq) = txSequence
             /\ \A e \in Done : e <= Id(m)
             /\ Fresh(m) =>
                   /\ phase' # "response"
                   /\ Id(m) = current \/ (Id(m) + 1 = current /\ outcome'[Id(m)] = "unacked")
                   /\ Untaken => Due(Id(m))'
             /\ ~Fresh(m) => Untaken
    BY <1>1, <1>3 DEF ChunkInv
  <2>1. CASE m = Chunk
    BY <1>4, <1>6, <1>7, <2>1 DEF Requests
  <2>2. CASE m \in Elems(up)
    <3>1. Id(m) + 1 = current => Id(m) # current
      BY DEF Requests
    <3> QED
      BY <1>2, <1>7, <2>2, <3>1 DEF LinkInv, ChunkInv
  <2> QED
    BY <1>5, <2>1, <2>2
<1>10. AckInv'
  BY <1>1, <1>3, <1>8 DEF LinkInv, AckInv
<1>11. OrderInv'
  <2>1. ASSUME NEW x, NEW y, Precedes(up', x, y), IsData(x), IsData(y)
        PROVE  Id(x) <= Id(y) /\ (Fresh(x) => Fresh(y))
    <3>1. CASE Precedes(up, x, y)
      BY <2>1, <3>1, OrderedElems DEF LinkInv, OrderInv
    <3>2. CASE x \in Elems(up) /\ y = Chunk
      BY <1>4, <2>1, <3>2 DEF LinkInv, ChunkInv
    <3> QED
      BY <1>5, <2>1, <3>1, <3>2
  <2> QED
    BY <1>3, <2>1 DEF LinkInv, OrderInv
<1>12. NumberInv'
  <2>1. phase' # "response" /\ (Open' => outcome' = outcome)
    BY DEF Open
  <2>2. Shared /\ Open' => Shared'
    BY <2>1 DEF Shared
  <2> QED
    BY <1>1, <1>7, <2>1, <2>2 DEF LinkInv, NumberInv
<1>13. OutcomeInv'
  <2>1. phase # "closed"
    BY DEF Open
  <2> QED
    BY <1>1, <1>2, <2>1 DEF LinkInv, OutcomeInv
<1>14. IsSeq(executed)' /\ ExecutedInOrder'
  BY DEF LinkInv, ExecutedInOrder
<1> QED
  BY <1>9, <1>10, <1>11, <1>12, <1>13, <1>14 DEF LinkInv

\* The session ends with an error of the current request.
LEMMA AbortStep ==
  ASSUME IInv, LinkInv, current \in Requests, Abort,
         UNCHANGED <<txSequence, executed, up, down>>, shade'.expected = shade.expected
  PROVE  LinkInv'
<1>1. /\ Done' = Done /\ (Untaken' <=> Untaken)
      /\ \A m : Fresh(m)' <=> Fresh(m)
      /\ OnlyFresh' <=> OnlyFresh
  BY DEF Done, Untaken, Fresh, OnlyFresh
<1>2. /\ current' = current /\ phase' = "closed" /\ waiter' = "none"
      /\ outcome' = [outcome EXCEPT ![current] = "error"]
  BY DEF Abort, Settle
<1>3. outcome'[current] = "error" /\ \A i \in Requests : i # current => outcome'[i] = outcome[i]
  BY <1>2, OutcomeFacts DEF Outcomes
<1>4. Done \subseteq Requests
  BY DEF LinkInv, NumberInv
<1>5. \A r : Due(r) => Due(r)'
  BY <1>1, <1>3, <1>4 DEF Due
<1>6. ChunkInv'
  <2>1. ASSUME NEW m, Id(m) + 1 = current PROVE Id(m) # current
    BY <2>1 DEF Requests
  <2> QED
    BY <1>1, <1>2, <1>3, <1>5, <2>1 DEF LinkInv, ChunkInv
<1>7. AckInv' /\ OrderInv'
  BY <1>1 DEF LinkInv, AckInv, OrderInv
<1>8. NumberInv'
  BY <1>1, <1>2 DEF LinkInv, NumberInv, Open
<1>9. OutcomeInv'
  BY <1>1, <1>2, <1>3 DEF LinkInv, OutcomeInv
<1>10. IsSeq(executed)' /\ ExecutedInOrder'
  BY DEF LinkInv, ExecutedInOrder
<1> QED
  BY <1>6, <1>7, <1>8, <1>9, <1>10 DEF LinkInv

\* A write never has the number of another one: a readback is between them.
LEMMA WriteUnshared ==
  ASSUME LinkInv, current \in Requests, Script[current] = "write" PROVE ~Shared
<1> SUFFICES ASSUME Shared PROVE FALSE
  OBVIOUS
<1>1. current - 1 \in Requests /\ (current - 1) + 1 = current
  BY Constants DEF Shared, Requests
<1>2. Script[current - 1] = "write"
  BY <1>1 DEF LinkInv, OutcomeInv, Shared
<1>3. Script[(current - 1) + 1] = "read"
  BY <1>1, <1>2, ScriptAssumption DEF Requests
<1> QED
  BY <1>1, <1>3

\* The current request is settled and the next one begins, or the session is over.
LEMMA SettleStep ==
  ASSUME IInv, LinkInv, current \in Requests, NEW result \in {"ok", "unacked", "unanswered"},
         outcome' = [outcome EXCEPT ![current] = result], current' = current + 1,
         waiter' = "none", phase' \in {"ready", "closed"},
         UNCHANGED <<txSequence, executed, up, down>>, shade'.expected = shade.expected,
         result \in {"unacked", "unanswered"} => Script[current] = "write",
         result \in {"ok", "unanswered"} => phase = "response" /\ current \in Done,
         result = "unacked" => phase = "ack"
  PROVE  LinkInv'
<1>1. /\ Done' = Done /\ (Untaken' <=> Untaken)
      /\ \A m : Fresh(m)' <=> Fresh(m)
      /\ OnlyFresh' <=> OnlyFresh
  BY DEF Done, Untaken, Fresh, OnlyFresh
<1>2. outcome'[current] = result /\ \A i \in Requests : i # current => outcome'[i] = outcome[i]
  BY OutcomeFacts DEF Outcomes
<1>3. /\ Done \subseteq Requests /\ Requests \subseteq Nat /\ current \in Nat
      /\ \A e \in Done : e <= current
  BY DEF LinkInv, NumberInv, Requests
<1>4. result = "unacked" => ~Shared /\ Open
  BY WriteUnshared DEF Open
<1>5. \A r \in Requests : r <= current /\ Due(r) => Due(r)'
  BY <1>1, <1>2, <1>3 DEF Due
<1>6. ChunkInv'
  <2> SUFFICES ASSUME NEW m \in Elems(up), IsData(m)
      PROVE  /\ Id(m) \in Requests /\ Id(m) <= current + 1
             /\ Fresh(m) \/ NextSequence(m.seq) = txSequence
             /\ \A e \in Done : e <= Id(m)
             /\ Fresh(m) =>
                   /\ Id(m) = current + 1
                      \/ (Id(m) + 1 = current + 1 /\ outcome'[Id(m)] = "unacked")
                   /\ Untaken => Due(Id(m))'
             /\ ~Fresh(m) => Untaken
    BY <1>1 DEF ChunkInv
  <2>1. /\ Id(m) \in Requests /\ Id(m) <= current
        /\ Fresh(m) \/ NextSequence(m.seq) = txSequence
        /\ \A e \in Done : e <= Id(m)
        /\ Fresh(m) =>
              /\ phase # "response"
              /\ Id(m) = current \/ (Id(m) + 1 = current /\ outcome[Id(m)] = "unacked")
              /\ Untaken => Due(Id(m))
        /\ ~Fresh(m) => Untaken
    BY DEF LinkInv, ChunkInv
  <2>2. Id(m) <= current + 1
    <3>1. ASSUME NEW a \in Nat, a <= current PROVE a <= current + 1
      BY <1>3, <3>1
    <3> QED
      BY <1>3, <2>1, <3>1
  <2>3. CASE ~Fresh(m)
    BY <2>1, <2>2, <2>3
  <2>4. CASE Fresh(m)
    <3>1. result = "unacked"
      BY <2>1, <2>4
    <3>2. ~(Id(m) + 1 = current /\ outcome[Id(m)] = "unacked")
      <4> SUFFICES ASSUME Id(m) + 1 = current, outcome[Id(m)] = "unacked" PROVE FALSE
        OBVIOUS
      <4>1. Id(m) = current - 1 /\ current > 1
        BY <1>3, <2>1 DEF Requests
      <4> QED
        BY <1>4, <3>1, <4>1 DEF Shared
    <3> QED
      BY <1>2, <1>5, <2>1, <2>2, <2>4, <3>1, <3>2
  <2> QED
    BY <2>3, <2>4
<1>7. AckInv' /\ OrderInv'
  BY <1>1 DEF LinkInv, AckInv, OrderInv
<1>8. NumberInv'
  <2>1. Untaken => Due(current)'
    <3> SUFFICES ASSUME Untaken, NEW e \in Done
                 PROVE  e < current + 1 /\ (e + 1 = current + 1 => outcome'[e] # "unacked")
      BY <1>1 DEF Due
    <3>1. e < current + 1 /\ (e + 1 = current + 1 => e = current)
      BY <1>3
    <3>2. result = "unacked" => Due(current)
      BY <1>4 DEF LinkInv, NumberInv
    <3>3. result = "unacked" => e # current
      BY <1>3, <3>2 DEF Due
    <3> QED
      BY <1>2, <3>1, <3>3
  <2>2. ~Untaken => Shared' /\ current \in Done
    <3> SUFFICES ASSUME ~Untaken PROVE Shared' /\ current \in Done
      OBVIOUS
    <3>1. result = "unacked"
      BY DEF LinkInv, NumberInv
    <3>2. current \in Done
      BY <1>4, <3>1 DEF LinkInv, NumberInv
    <3>3. current + 1 > 1 /\ (current + 1) - 1 = current
      BY <1>3 DEF Requests
    <3> QED
      BY <1>2, <3>1, <3>2, <3>3 DEF Shared
  <2>3. (current + 1) - 1 = current /\ \A e \in Done : e <= current + 1
    BY <1>3
  <2> QED
    BY <1>1, <1>3, <2>1, <2>2, <2>3 DEF LinkInv, NumberInv
<1>9. OutcomeInv'
  <2> SUFFICES ASSUME NEW i \in Requests
      PROVE  /\ outcome'[i] \in {"unacked", "unanswered"} => Script[i] = "write"
             /\ outcome'[i] \in {"ok", "unanswered"} => i \in Done
             /\ outcome'[i] = "unacked" /\ i + 1 \in Done => i \notin Done
             /\ outcome'[i] = "error" => phase' = "closed"
    BY <1>1 DEF OutcomeInv
  <2>1. CASE i = current
    <3>1. current + 1 \notin Done
      BY <1>3
    <3> QED
      BY <1>2, <2>1, <3>1
  <2>2. CASE i # current
    BY <1>2, <2>2 DEF LinkInv, OutcomeInv
  <2> QED
    BY <2>1, <2>2
<1>10. IsSeq(executed)' /\ ExecutedInOrder'
  BY DEF LinkInv, ExecutedInOrder
<1> QED
  BY <1>6, <1>7, <1>8, <1>9, <1>10 DEF LinkInv

\* The ACK was credited: the number goes on, and nothing that has the new one is
\* under way.
LEMMA AcknowledgedStep ==
  ASSUME IInv, LinkInv, Acknowledged PROVE LinkInv'
<1>0. /\ phase = "ack" /\ waiter = "acked" /\ phase' = "response" /\ waiter' = "none"
      /\ txSequence' = NextSequence(txSequence)
      /\ UNCHANGED <<current, outcome, executed, shade, up, down>>
  BY DEF Acknowledged, shadeVars
<1>1. NextSequence(txSequence) # txSequence
  BY NextNumber DEF IInv, TypeOK, Numbers
<1>2. /\ ~Untaken /\ OnlyFresh /\ shade.expected = NextSequence(txSequence)
      /\ \A m \in Elems(down) : ~IsData(m) => Fresh(m)
      /\ current \in Done \/ Shared
  BY <1>0 DEF LinkInv, NumberInv, Open
<1>3. Done' = Done /\ Untaken' /\ (Shared' <=> Shared)
  BY <1>0, <1>2 DEF Done, Untaken, Shared
<1>4. \A m : Fresh(m) => ~Fresh(m)' /\ NextSequence(m.seq) = txSequence'
  BY <1>0, <1>1 DEF Fresh
<1>5. ChunkInv'
  BY <1>0, <1>2, <1>3, <1>4 DEF LinkInv, ChunkInv, OnlyFresh
<1>6. AckInv'
  BY <1>0, <1>2, <1>4 DEF AckInv
<1>7. OrderInv'
  BY <1>0, <1>2, <1>4 DEF LinkInv, OrderInv, OnlyFresh
<1>8. NumberInv'
  BY <1>0, <1>2, <1>3 DEF LinkInv, NumberInv, Open
<1>9. OutcomeInv'
  BY <1>0, <1>3 DEF LinkInv, OutcomeInv
<1>10. IsSeq(executed)' /\ ExecutedInOrder'
  BY <1>0 DEF LinkInv, ExecutedInOrder
<1> QED
  BY <1>5, <1>6, <1>7, <1>8, <1>9, <1>10 DEF LinkInv

\* What taking the next chunk from the air does, carried out or not: its ACK goes out,
\* and the chunks behind it are no older.
LEMMA TakenFacts ==
  ASSUME IInv, LinkInv, ShadeTakesChunk
  PROVE  /\ Head(up) \in Elems(up) /\ IsData(Head(up))
         /\ IsData(Ack(Head(up).seq)) = FALSE
         /\ Fresh(Ack(Head(up).seq)) <=> Fresh(Head(up))
         /\ Elems(up') \subseteq Elems(up)
         /\ \A x, y : Precedes(up', x, y) => Precedes(up, x, y)
         /\ Elems(down') \subseteq Elems(down) \cup {Ack(Head(up).seq)}
         /\ \A x, y : Precedes(down', x, y) =>
               Precedes(down, x, y) \/ (x \in Elems(down) /\ y = Ack(Head(up).seq))
         /\ Fresh(Head(up)) => \A m \in Elems(up') : IsData(m) => Fresh(m)
         /\ \A m \in Elems(up') : IsData(m) => Id(Head(up)) <= Id(m)
<1>0. /\ up # <<>> /\ Head(up).type = "data" /\ up' = Tail(up) /\ IsSeq(up) /\ IsSeq(down)
      /\ down' = Append(down, Ack(Head(up).seq))
  BY DEF ShadeTakesChunk, IInv, AirInv
<1>1. /\ Head(up) \in Elems(up) /\ Elems(up') \subseteq Elems(up)
      /\ \A x, y : Precedes(up', x, y) => Precedes(up, x, y)
      /\ \A y \in Elems(up') : Precedes(up, Head(up), y)
  BY <1>0, TailSeq, TailOrder
<1>2. /\ IsData(Head(up)) /\ IsData(Ack(Head(up).seq)) = FALSE
      /\ Fresh(Ack(Head(up).seq)) <=> Fresh(Head(up))
  BY <1>0 DEF IsData, Fresh, Ack
<1>3. /\ Elems(down') \subseteq Elems(down) \cup {Ack(Head(up).seq)}
      /\ \A x, y : Precedes(down', x, y) =>
            Precedes(down, x, y) \/ (x \in Elems(down) /\ y = Ack(Head(up).seq))
  BY <1>0, AppendSeq, AppendOrder
<1>4. /\ Fresh(Head(up)) => \A m \in Elems(up') : IsData(m) => Fresh(m)
      /\ \A m \in Elems(up') : IsData(m) => Id(Head(up)) <= Id(m)
  BY <1>1, <1>2 DEF LinkInv, OrderInv
<1> QED
  BY <1>1, <1>2, <1>3, <1>4

\* The chunk has another number than the expected one: it is only acknowledged.
LEMMA RepeatStep ==
  ASSUME IInv, LinkInv, ShadeTakesChunk, Head(up).seq # shade.expected PROVE LinkInv'
<1> DEFINE head == Head(up)
           ack  == Ack(Head(up).seq)
<1>0. /\ UNCHANGED <<current, outcome, phase, txSequence, executed, waiter, shade>>
      /\ IsData(head) /\ head \in Elems(up) /\ IsData(ack) = FALSE
      /\ Fresh(ack) <=> Fresh(head)
      /\ Elems(up') \subseteq Elems(up)
      /\ \A x, y : Precedes(up', x, y) => Precedes(up, x, y)
      /\ Elems(down') \subseteq Elems(down) \cup {ack}
      /\ \A x, y : Precedes(down', x, y) =>
            Precedes(down, x, y) \/ (x \in Elems(down) /\ y = ack)
      /\ Fresh(head) => \A m \in Elems(up') : IsData(m) => Fresh(m)
      /\ ack.seq = head.seq
  <2>1. ack.seq = head.seq
    BY DEF Ack
  <2> QED
    BY <2>1, TakenFacts DEF ShadeTakesChunk, callerVars, shadeVars
<1> HIDE DEF head, ack
<1>1. /\ Done' = Done /\ (Untaken' <=> Untaken)
      /\ \A m : Fresh(m)' <=> Fresh(m)
      /\ \A r : Due(r)' <=> Due(r)
      /\ Open' <=> Open
      /\ Shared' <=> Shared
      /\ OnlyFresh => OnlyFresh'
  BY <1>0 DEF Done, Untaken, Fresh, Due, Open, Shared, OnlyFresh
<1>2. Fresh(head) => ~Untaken /\ OnlyFresh'
  BY <1>0, <1>1 DEF Untaken, Fresh, OnlyFresh, head
<1>3. Fresh(head) \/ NextSequence(head.seq) = txSequence
  BY <1>0 DEF LinkInv, ChunkInv
<1>4. OnlyFresh => Fresh(ack)
  BY <1>0 DEF OnlyFresh
<1>5. ChunkInv'
  BY <1>0, <1>1 DEF LinkInv, ChunkInv
<1>6. AckInv'
  BY <1>0, <1>1, <1>2, <1>3 DEF LinkInv, AckInv
<1>7. OrderInv'
  <2>1. ASSUME NEW x, NEW y, Precedes(down', x, y), ~IsData(x), ~IsData(y), Fresh(x)
        PROVE  Fresh(y)
    <3>1. CASE Precedes(down, x, y)
      BY <2>1, <3>1, OrderedElems DEF LinkInv, OrderInv
    <3>2. CASE x \in Elems(down) /\ y = ack
      BY <1>4, <2>1, <3>2 DEF LinkInv, AckInv
    <3> QED
      BY <1>0, <2>1, <3>1, <3>2
  <2> QED
    BY <1>0, <1>1, <2>1 DEF LinkInv, OrderInv
<1>8. NumberInv'
  BY <1>0, <1>1, <1>4 DEF LinkInv, NumberInv
<1>9. OutcomeInv'
  BY <1>0, <1>1 DEF LinkInv, OutcomeInv
<1>10. IsSeq(executed)' /\ ExecutedInOrder'
  BY <1>0 DEF LinkInv, ExecutedInOrder
<1> QED
  BY <1>5, <1>6, <1>7, <1>8, <1>9, <1>10 DEF LinkInv

\* Appending to what was carried out.
LEMMA ExecuteFacts ==
  ASSUME IsSeq(executed), ExecutedInOrder, NEW r, executed' = Append(executed, r),
         \A e \in Done : e < r
  PROVE  Done' = Done \cup {r} /\ IsSeq(executed)' /\ ExecutedInOrder'
<1>1. PICK S : executed \in Seq(S)
  BY DEF IsSeq
<1>2. executed \in Seq(S \cup {r})
  BY <1>1
<1>3. /\ executed' \in Seq(S \cup {r}) /\ Len(executed') = Len(executed) + 1
      /\ Len(executed) \in Nat
      /\ \A i \in 1..(Len(executed) + 1) :
            executed'[i] = IF i <= Len(executed) THEN executed[i] ELSE r
  BY <1>2
<1>4. /\ \A i \in 1..Len(executed) : i \in 1..Len(executed') /\ executed'[i] = executed[i]
      /\ Len(executed') \in 1..Len(executed') /\ executed'[Len(executed')] = r
      /\ \A i \in 1..Len(executed') : i \in 1..Len(executed) \/ i = Len(executed')
  BY <1>3
<1>5. Done' = Done \cup {r}
  BY <1>4 DEF Done
<1>6. ExecutedInOrder'
  <2> SUFFICES ASSUME NEW k \in 1..Len(executed'), NEW m \in 1..Len(executed'), k < m
               PROVE  executed'[k] < executed'[m]
    BY DEF ExecutedInOrder
  <2>1. k \in 1..Len(executed) /\ executed'[k] = executed[k]
    BY <1>3
  <2>2. CASE m \in 1..Len(executed)
    BY <1>4, <2>1, <2>2 DEF ExecutedInOrder
  <2>3. CASE m = Len(executed')
    <3>1. executed[k] \in Done
      BY <2>1 DEF Done
    <3> QED
      BY <1>4, <2>1, <2>3, <3>1
  <2> QED
    BY <1>4, <2>2, <2>3
<1> QED
  BY <1>3, <1>5, <1>6 DEF IsSeq

\* The shade carries a request out: its number is the current one and was not used.
LEMMA ExecuteStep ==
  ASSUME IInv, LinkInv, ShadeTakesChunk, Head(up).seq = shade.expected
  PROVE  /\ LinkInv' /\ Untaken /\ Due(Id(Head(up))) /\ phase # "response"
         /\ Fresh(Head(up)) /\ Done' = Done \cup {Id(Head(up))}
<1> DEFINE head == Head(up)
           ack  == Ack(Head(up).seq)
<1>0. /\ UNCHANGED <<current, outcome, phase, txSequence, waiter>>
      /\ executed' = Append(executed, Id(head))
      /\ head.seq = shade.expected
      /\ shade' = [shade EXCEPT !.expected = NextSequence(@), !.state = Emits,
                                !.frame = Frame(Id(head))]
  BY DEF ShadeTakesChunk, callerVars, Id
<1>1. /\ IsData(head) /\ head \in Elems(up) /\ IsData(ack) = FALSE
      /\ Fresh(ack) <=> Fresh(head)
      /\ Elems(up') \subseteq Elems(up)
      /\ \A x, y : Precedes(up', x, y) => Precedes(up, x, y)
      /\ Elems(down') \subseteq Elems(down) \cup {ack}
      /\ \A x, y : Precedes(down', x, y) =>
            Precedes(down, x, y) \/ (x \in Elems(down) /\ y = ack)
      /\ Fresh(head) => \A m \in Elems(up') : IsData(m) => Fresh(m)
      /\ \A m \in Elems(up') : IsData(m) => Id(head) <= Id(m)
  BY TakenFacts
<1>2. shade'.expected = NextSequence(shade.expected)
  BY <1>0 DEF IInv, AirInv
<1> HIDE DEF head, ack
<1>3. Fresh(head) /\ Untaken
  <2>1. ~Fresh(head) => Untaken
    BY <1>1 DEF LinkInv, ChunkInv
  <2> QED
    BY <1>0, <2>1 DEF Untaken, Fresh
<1>4. /\ Id(head) \in Requests /\ Id(head) <= current /\ phase # "response"
      /\ Id(head) = current \/ (Id(head) + 1 = current /\ outcome[Id(head)] = "unacked")
      /\ Due(Id(head))
  BY <1>1, <1>3 DEF LinkInv, ChunkInv
<1>5. /\ Done' = Done \cup {Id(head)} /\ IsSeq(executed)' /\ ExecutedInOrder'
  BY <1>0, <1>4, ExecuteFacts DEF LinkInv, Due
<1>6. /\ \A m : Fresh(m)' <=> Fresh(m)
      /\ ~Untaken' /\ shade'.expected = NextSequence(txSequence)'
  <2>1. NextSequence(txSequence) # txSequence
    BY NextNumber DEF IInv, TypeOK, Numbers
  <2> QED
    BY <1>0, <1>2, <1>3, <2>1 DEF Fresh, Untaken
<1>7. \A m \in Elems(down) : ~IsData(m) => ~Fresh(m)
  BY <1>3 DEF LinkInv, AckInv
<1>8. OnlyFresh'
  BY <1>1, <1>3, <1>6 DEF OnlyFresh
<1>9. ChunkInv'
  BY <1>0, <1>1, <1>3, <1>5, <1>6 DEF LinkInv, ChunkInv
<1>10. AckInv'
  BY <1>0, <1>1, <1>3, <1>6, <1>7, <1>8 DEF LinkInv, AckInv
<1>11. OrderInv'
  <2>1. ASSUME NEW x, NEW y, Precedes(down', x, y), ~IsData(x) PROVE ~Fresh(x)
    BY <1>1, <1>7, <2>1, OrderedElems
  <2> QED
    BY <1>1, <1>6, <2>1 DEF LinkInv, OrderInv
<1>12. NumberInv'
  <2>1. Id(head) + 1 = current => Id(head) = current - 1 /\ current > 1
    BY <1>4 DEF Requests
  <2>2. current \in Done' \/ (Shared' /\ current - 1 \in Done')
    BY <1>0, <1>4, <1>5, <2>1 DEF Shared
  <2>3. waiter # "acked"
    BY <1>3 DEF LinkInv, NumberInv
  <2> QED
    BY <1>0, <1>4, <1>5, <1>6, <2>2, <2>3 DEF LinkInv, NumberInv
<1>13. OutcomeInv'
  <2> SUFFICES ASSUME NEW i \in Requests, outcome[i] = "unacked", i + 1 \in Done', i \in Done'
               PROVE  FALSE
    BY <1>0, <1>5 DEF LinkInv, OutcomeInv
  <2>1. i # i + 1 /\ ~(i + 1 < i) /\ Id(head) \in Nat
    BY <1>4 DEF Requests
  <2>2. CASE i + 1 = Id(head)
    BY <1>4, <1>5, <2>1, <2>2 DEF Due
  <2>3. CASE i + 1 \in Done /\ i = Id(head)
    BY <1>4, <2>1, <2>3 DEF Due
  <2>4. CASE i + 1 \in Done /\ i \in Done
    BY <2>4 DEF LinkInv, OutcomeInv
  <2> QED
    BY <1>5, <2>2, <2>3, <2>4
<1> QED
  BY <1>3, <1>4, <1>5, <1>9, <1>10, <1>11, <1>12, <1>13 DEF LinkInv, head

-----------------------------------------------------------------------------
\* What the worker collects comes from requests that were carried out.

LEMMA FrameFacts ==
  ASSUME NEW r \in Requests
  PROVE  /\ IsSeq(Frame(r)) /\ Frame(r) # <<>>
         /\ \A p \in Elems(Frame(r)) : p[1] = r
         /\ \E p \in Elems(Frame(r)) : p[1] = r
<1> DEFINE n == Chunks[Script[r]]
<1>1. n \in Nat \ {0}
  BY ScriptAssumption, ChunkAssumption DEF Requests
<1>2. Frame(r) = [part \in 1..n |-> <<r, part>>]
  BY DEF Frame
<1> HIDE DEF n
<1>3. Frame(r) \in Seq({<<r, part>> : part \in Nat}) /\ Len(Frame(r)) = n
  BY <1>1, <1>2
<1>4. \A k \in 1..n : Frame(r)[k] = <<r, k>> /\ Frame(r)[k][1] = r
  BY <1>2
<1>5. 1 \in 1..n
  BY <1>1
<1> QED
  BY <1>1, <1>3, <1>4, <1>5 DEF IsSeq, Elems

LEMMA ResponseFacts ==
  ASSUME NEW kind, NEW frame
  PROVE  /\ "frame" \notin DOMAIN Error(kind)
         /\ "frame" \in DOMAIN Message(frame) /\ Message(frame).frame = frame
  BY DEF Error, Message

LEMMA MoreAnswers ==
  ASSUME NEW frame, Answers(frame), NEW p, p[1] \in Done
  PROVE  Answers(Append(frame, p))
  BY AppendSeq DEF Answers

LEMMA RestAnswers ==
  ASSUME NEW frame, Answers(frame), frame # <<>>
  PROVE  Answers(Tail(frame)) /\ Head(frame)[1] \in Done
  BY TailSeq DEF Answers

\* The response queue, whatever is put into it or taken out.
LEMMA QueueStep ==
  ASSUME PartInv,
         \/ responses' = responses
         \/ responses # <<>> /\ responses' = Tail(responses)
         \/ \E kind : responses' = Append(responses, Error(kind))
         \/ \E frame : Answers(frame) /\ responses' = Append(responses, Message(frame))
  PROVE  IsSeq(responses') /\ \A r \in Elems(responses') : "frame" \in DOMAIN r => Answers(r.frame)
<1>0. IsSeq(responses) /\ \A r \in Elems(responses) : "frame" \in DOMAIN r => Answers(r.frame)
  BY DEF PartInv
<1>1. CASE responses' = responses
  BY <1>0, <1>1
<1>2. CASE responses # <<>> /\ responses' = Tail(responses)
  BY <1>0, <1>2, TailSeq
<1>3. ASSUME NEW kind, responses' = Append(responses, Error(kind))
      PROVE  IsSeq(responses') /\ \A r \in Elems(responses') : "frame" \in DOMAIN r => Answers(r.frame)
  <2>1. IsSeq(responses') /\ Elems(responses') \subseteq Elems(responses) \cup {Error(kind)}
    BY <1>0, <1>3, AppendSeq
  <2> QED
    BY <1>0, <2>1, ResponseFacts
<1>4. ASSUME NEW frame, Answers(frame), responses' = Append(responses, Message(frame))
      PROVE  IsSeq(responses') /\ \A r \in Elems(responses') : "frame" \in DOMAIN r => Answers(r.frame)
  <2>1. IsSeq(responses') /\ Elems(responses') \subseteq Elems(responses) \cup {Message(frame)}
    BY <1>0, <1>4, AppendSeq
  <2> QED
    BY <1>0, <1>4, <2>1, ResponseFacts
<1> QED
  BY <1>1, <1>2, <1>3, <1>4

LEMMA FailQueue ==
  ASSUME NEW kind, Fail(kind)
  PROVE  /\ responses' = responses \/ \E k : responses' = Append(responses, Error(k))
         /\ waiter' \in {waiter, "failed", "expired"} /\ (waiter' # "none" => waiter # "none")
  BY DEF Fail

\* A step that carries nothing out.
LEMMA PartStep ==
  ASSUME PartInv, executed' = executed,
         Answers(shade'.frame), Answers(buffer'), Answers(acking'.frame),
         shade'.state # Silent => shade'.frame # <<>>,
         \A m \in Elems(down') : IsData(m) => Id(m) \in Done,
         \/ responses' = responses
         \/ responses # <<>> /\ responses' = Tail(responses)
         \/ \E kind : responses' = Append(responses, Error(kind))
         \/ \E frame : Answers(frame) /\ responses' = Append(responses, Message(frame))
  PROVE  PartInv'
<1>1. Done' = Done
  BY DEF Done
<1>2. \A frame : Answers(frame) => Answers(frame)'
  BY <1>1 DEF Answers
<1>3. IsSeq(responses') /\ \A r \in Elems(responses') : "frame" \in DOMAIN r => Answers(r.frame)
  BY QueueStep
<1> HIDE DEF Silent
<1>4. Answers(shade.frame)' /\ Answers(buffer)' /\ Answers(acking.frame)'
  BY <1>1 DEF Answers
<1> QED
  BY <1>1, <1>2, <1>3, <1>4 DEF PartInv

LEMMA CallerPart == ASSUME PartInv, Caller PROVE PartInv'
<1>1. /\ UNCHANGED <<workerVars, down, shadeVars>>
      /\ responses' = responses \/ (responses # <<>> /\ responses' = Tail(responses))
  BY DEF Caller, RefuseStale, SendChunk, WriteReturns, SendFails, Acknowledged, AckFails,
     AckTimeout, TakeResponse, ResponseTimeout
<1>2. /\ Answers(shade.frame) /\ Answers(buffer) /\ Answers(acking.frame)
      /\ shade.state # Silent => shade.frame # <<>>
      /\ \A m \in Elems(down) : IsData(m) => Id(m) \in Done
  BY DEF PartInv
<1>3. UNCHANGED <<executed, shade, buffer, acking, down>>
  BY <1>1 DEF workerVars, shadeVars
<1> QED
  BY <1>1, <1>2, <1>3, PartStep

LEMMA WorkerPart == ASSUME IInv, PartInv, Worker PROVE PartInv'
<1>0. /\ Answers(shade.frame) /\ Answers(buffer) /\ Answers(acking.frame)
      /\ shade.state # Silent => shade.frame # <<>>
      /\ \A m \in Elems(down) : IsData(m) => Id(m) \in Done
      /\ IsSeq(down)
  BY DEF PartInv, IInv, AirInv
<1>1. Answers(<<>>) /\ NoAck.frame = <<>>
  BY EmptySeq DEF Answers, NoAck
<1>2. ASSUME Working, down' = Tail(down)
      PROVE  Elems(down') \subseteq Elems(down) /\ Head(down) \in Elems(down)
  BY <1>0, <1>2, TailSeq DEF Working
<1>3. CASE WorkerTakesAck
  BY <1>0, <1>2, <1>3, PartStep DEF WorkerTakesAck, workerVars, shadeVars
<1>4. CASE WorkerTakesChunk
  <2>1. /\ Working /\ down' = Tail(down) /\ IsData(Head(down))
        /\ UNCHANGED <<responses, shade, executed>>
    BY <1>4 DEF WorkerTakesChunk, IsData, shadeVars
  <2>2. Head(down).part[1] \in Done
    BY <1>0, <1>2, <2>1 DEF Id
  <2>3. Answers(Append(buffer, Head(down).part))
    BY <1>0, <2>2, MoreAnswers
  <2>4. /\ buffer' = <<>> \/ buffer' = Append(buffer, Head(down).part)
        /\ acking'.frame = <<>> \/ acking'.frame = Append(buffer, Head(down).part)
    BY <1>4 DEF WorkerTakesChunk
  <2> QED
    BY <1>0, <1>1, <1>2, <2>1, <2>3, <2>4, PartStep
<1>5. CASE WorkerRefusesChunk
  BY <1>0, <1>1, <1>2, <1>5, FailQueue, PartStep DEF WorkerRefusesChunk, shadeVars
<1>6. CASE WorkerAcks
  <2>1. acking' = NoAck /\ UNCHANGED <<buffer, down, shade, executed>>
    BY <1>6 DEF WorkerAcks, shadeVars
  <2>2. \/ responses' = responses
        \/ \E kind : responses' = Append(responses, Error(kind))
        \/ responses' = Append(responses, Message(acking.frame))
    BY <1>6, FailQueue DEF WorkerAcks
  <2> QED
    BY <1>0, <1>1, <2>1, <2>2, PartStep
<1>7. CASE WorkerAckFails
  BY <1>0, <1>1, <1>7, FailQueue, PartStep DEF WorkerAckFails, shadeVars
<1> QED
  BY <1>3, <1>4, <1>5, <1>6, <1>7 DEF Worker

LEMMA ShadePart == ASSUME IInv, LinkInv, PartInv, Shade \/ Lose PROVE PartInv'
<1>0. /\ Answers(shade.frame) /\ Answers(buffer) /\ Answers(acking.frame)
      /\ shade.state # Silent => shade.frame # <<>>
      /\ \A m \in Elems(down) : IsData(m) => Id(m) \in Done
      /\ {"expected", "tx", "state", "frame"} \subseteq DOMAIN shade
      /\ IsSeq(up) /\ IsSeq(down)
  BY DEF PartInv, IInv, AirInv
<1>1. CASE ShadeTakesChunk
  <2>1. /\ UNCHANGED <<responses, buffer, acking>>
        /\ \A m \in Elems(down') : IsData(m) => m \in Elems(down)
    BY <1>1, TakenFacts DEF ShadeTakesChunk, workerVars
  <2>2. CASE Head(up).seq # shade.expected
    BY <1>0, <1>1, <2>1, <2>2, PartStep DEF ShadeTakesChunk, shadeVars
  <2>3. CASE Head(up).seq = shade.expected
    <3>1. Done' = Done \cup {Id(Head(up))} /\ Id(Head(up)) \in Requests
      BY <1>1, <2>3, ExecuteStep, TakenFacts DEF LinkInv, ChunkInv
    <3>2. shade' = [shade EXCEPT !.expected = NextSequence(@), !.state = Emits,
                                 !.frame = Frame(Id(Head(up)))]
      BY <1>1, <2>3 DEF ShadeTakesChunk, Id
    <3>3. shade'.frame = Frame(Id(Head(up)))
      BY <1>0, <3>2
    <3>4. /\ IsSeq(shade'.frame) /\ shade'.frame # <<>>
          /\ \A p \in Elems(shade'.frame) : p[1] \in Done'
      BY <3>1, <3>3, FrameFacts
    <3>5. \A frame : Answers(frame) => Answers(frame)'
      BY <3>1 DEF Answers
    <3>6. Answers(shade.frame)' /\ Answers(buffer)' /\ Answers(acking.frame)'
      BY <1>0, <2>1, <3>1, <3>4 DEF Answers
    <3>7. IsSeq(responses)' /\ \A r \in Elems(responses)' : "frame" \in DOMAIN r => Answers(r.frame)'
      BY <2>1, <3>5 DEF PartInv
    <3> QED
      BY <1>0, <2>1, <3>1, <3>4, <3>6, <3>7 DEF PartInv
  <2> QED
    BY <2>2, <2>3
<1>2. CASE ShadeEmits
  <2>1. /\ UNCHANGED <<responses, buffer, acking, executed>>
        /\ shade' = [shade EXCEPT !.state = Awaits] /\ shade.state # Silent
    BY <1>2 DEF ShadeEmits, workerVars, Silent, Emits
  <2>2. shade'.frame = shade.frame
    BY <1>0, <2>1
  <2>3. PICK last : down' = Append(down, Data(shade.tx, Head(shade.frame), last))
    BY <1>2 DEF ShadeEmits
  <2>4. Elems(down') \subseteq Elems(down) \cup {Data(shade.tx, Head(shade.frame), last)}
    BY <1>0, <2>3, AppendSeq
  <2>5. Head(shade.frame)[1] \in Done
    BY <1>0, <2>1, RestAnswers
  <2>6. Data(shade.tx, Head(shade.frame), last).part = Head(shade.frame)
    BY MessageFacts
  <2>7. Id(Data(shade.tx, Head(shade.frame), last)) \in Done
    BY <2>5, <2>6, Zenon DEF Id
  <2> QED
    BY <1>0, <2>1, <2>2, <2>4, <2>7, PartStep
<1>3. CASE ShadeTakesAck
  <2>1. UNCHANGED <<responses, buffer, acking, executed, down>>
    BY <1>3 DEF ShadeTakesAck, workerVars
  <2>2. Answers(shade'.frame) /\ (shade'.state # Silent => shade'.frame # <<>>)
    <3>1. CASE shade' = shade
      BY <1>0, <3>1
    <3>2. CASE /\ shade.state = Awaits
               /\ shade' = [shade EXCEPT !.tx = NextSequence(@), !.frame = Tail(@),
                             !.state = IF Len(shade.frame) = 1 THEN Silent ELSE Emits]
      <4>1. /\ shade'.frame = Tail(shade.frame)
            /\ shade'.state = IF Len(shade.frame) = 1 THEN Silent ELSE Emits
        BY <1>0, <3>2
      <4>2. shade.frame # <<>>
        BY <1>0, <3>2 DEF Awaits, Silent
      <4>3. Len(shade.frame) # 1 => Tail(shade.frame) # <<>>
        <5>1. PICK S : shade.frame \in Seq(S)
          BY <1>0 DEF Answers, IsSeq
        <5>2. Len(Tail(shade.frame)) = Len(shade.frame) - 1 /\ Len(shade.frame) \in Nat \ {0}
          BY <4>2, <5>1
        <5>3. Len(<<>>) = 0
          OBVIOUS
        <5> SUFFICES ASSUME Tail(shade.frame) = <<>> PROVE Len(shade.frame) = 1
          OBVIOUS
        <5>4. Len(Tail(shade.frame)) = 0
          BY <5>3
        <5> QED
          BY <5>2, <5>4
      <4> QED
        BY <1>0, <4>1, <4>2, <4>3, RestAnswers
    <3> QED
      BY <1>3, <3>1, <3>2 DEF ShadeTakesAck
  <2> QED
    BY <1>0, <2>1, <2>2, PartStep
<1>4. CASE ShadeGivesUp
  <2>1. /\ UNCHANGED <<responses, buffer, acking, executed, down>>
        /\ shade' = [shade EXCEPT !.state = Silent, !.frame = <<>>]
    BY <1>4 DEF ShadeGivesUp, workerVars
  <2>2. shade'.frame = <<>> /\ shade'.state = Silent /\ Answers(<<>>)
    BY <1>0, <2>1, EmptySeq DEF Answers
  <2> QED
    BY <1>0, <2>1, <2>2, PartStep
<1>5. CASE Lose
  <2>1. UNCHANGED <<responses, buffer, acking, executed, shade>> /\ Elems(down') \subseteq Elems(down)
    BY <1>0, <1>5, TailSeq DEF Lose, workerVars, shadeVars
  <2> QED
    BY <1>0, <2>1, PartStep
<1> QED
  BY <1>1, <1>2, <1>3, <1>4, <1>5 DEF Shade

\* An accepted response is the answer to a request that was carried out.
LEMMA AcceptedDone ==
  ASSUME PartInv, current \in Requests, responses # <<>>, Accepted(Head(responses))
  PROVE  current \in Done
<1>1. Head(responses) \in Elems(responses) /\ Head(responses) = Message(Frame(current))
  BY TailSeq DEF PartInv, Accepted
<1>2. Answers(Frame(current))
  BY <1>1, ResponseFacts DEF PartInv
<1>3. PICK p \in Elems(Frame(current)) : p[1] = current
  BY FrameFacts
<1> QED
  BY <1>2, <1>3 DEF Answers

\* How a request can time out.
LEMMA TimedOutStep ==
  ASSUME IInv, LinkInv, current \in Requests, NEW result, TimedOut(result),
         UNCHANGED <<txSequence, executed, up, down>>, shade'.expected = shade.expected,
         \/ result = "unacked" /\ phase = "ack"
         \/ result = "unanswered" /\ phase = "response"
  PROVE  LinkInv'
<1>1. CASE Script[current] = "write"
  <2>1. /\ outcome' = [outcome EXCEPT ![current] = result] /\ current' = current + 1
        /\ waiter' = "none" /\ phase' = "ready"
    BY <1>1 DEF TimedOut, Settle
  <2>2. ~Shared
    BY <1>1, WriteUnshared
  <2>3. result = "unanswered" => current \in Done
    BY <2>2 DEF LinkInv, NumberInv
  <2> QED
    BY <1>1, <2>1, <2>3, SettleStep
<1>2. CASE Script[current] # "write"
  BY <1>2, AbortStep DEF TimedOut
<1> QED
  BY <1>1, <1>2

LEMMA CallerLink == ASSUME IInv, LinkInv, PartInv, Caller PROVE LinkInv'
<1>0. phase # "closed" => current \in Requests
  BY DEF IInv, TriesInv
<1>1. CASE RefuseStale
  <2>1. /\ current \in Requests /\ Abort /\ shade'.expected = shade.expected
        /\ UNCHANGED <<txSequence, executed, up, down>>
    BY <1>0, <1>1 DEF RefuseStale, shadeVars
  <2> QED
    BY <2>1, AbortStep
<1>2. CASE SendChunk
  <2>1. /\ Open /\ current \in Requests /\ up' = Append(up, Chunk) /\ down' = down
        /\ UNCHANGED <<current, txSequence, executed>> /\ shade'.expected = shade.expected
        /\ phase' = "ack" /\ waiter' = "pending" /\ outcome' = outcome
    BY <1>0, <1>2 DEF SendChunk, Transmit, Chunk, Open, shadeVars
  <2> QED
    BY <2>1, SendStep
<1>3. CASE SendFails \/ AckFails
  <2>1. /\ current \in Requests /\ Abort /\ shade'.expected = shade.expected
        /\ UNCHANGED <<txSequence, executed, up, down>>
    BY <1>0, <1>3 DEF SendFails, AckFails, shadeVars
  <2> QED
    BY <2>1, AbortStep
<1>4. CASE WriteReturns
  BY <1>4, QuietStep DEF WriteReturns, shadeVars
<1>5. CASE AckTimeout
  <2>1. /\ current \in Requests /\ phase = "ack" /\ shade'.expected = shade.expected
        /\ UNCHANGED <<txSequence, executed, down>>
    BY <1>0, <1>5 DEF AckTimeout, TimeoutRaised, shadeVars
  <2>2. CASE Transmit /\ UNCHANGED <<current, outcome, phase>>
    BY <2>1, <2>2, SendStep DEF Transmit, Chunk, Open
  <2>3. CASE TimedOut("unacked") /\ up' = up
    BY <2>1, <2>3, TimedOutStep
  <2> QED
    BY <1>5, <2>2, <2>3 DEF AckTimeout
<1>6. CASE TakeResponse
  <2>1. /\ current \in Requests /\ phase = "response" /\ shade'.expected = shade.expected
        /\ UNCHANGED <<txSequence, executed, up, down>> /\ responses # <<>>
    BY <1>0, <1>6 DEF TakeResponse, shadeVars
  <2>2. CASE Abort
    BY <2>1, <2>2, AbortStep
  <2>3. CASE /\ Accepted(Head(responses))
             /\ Settle("ok", IF current = Len(Script) THEN "closed" ELSE "ready")
             /\ current' = current + 1
    <3>1. /\ current \in Done /\ phase' \in {"ready", "closed"} /\ waiter' = "none"
          /\ outcome' = [outcome EXCEPT ![current] = "ok"]
      BY <2>1, <2>3, AcceptedDone DEF Settle
    <3> QED
      BY <2>1, <2>3, <3>1, SettleStep
  <2> QED
    BY <1>6, <2>2, <2>3 DEF TakeResponse
<1>7. CASE ResponseTimeout
  <2>1. /\ current \in Requests /\ phase = "response" /\ shade'.expected = shade.expected
        /\ UNCHANGED <<txSequence, executed, up, down>> /\ TimedOut("unanswered")
    BY <1>0, <1>7 DEF ResponseTimeout, shadeVars
  <2> QED
    BY <2>1, TimedOutStep
<1> QED
  BY <1>1, <1>2, <1>3, <1>4, <1>5, <1>6, <1>7, AcknowledgedStep DEF Caller

LEMMA WorkerLink == ASSUME IInv, LinkInv, Worker PROVE LinkInv'
<1>0. IsSeq(up) /\ IsSeq(down)
  BY DEF IInv, AirInv
<1>1. ASSUME Working, down' = Tail(down)
      PROVE  /\ Elems(down') \subseteq Elems(down) /\ Head(down) \in Elems(down)
             /\ \A x, y : Precedes(down', x, y) => Precedes(down, x, y)
             /\ \A y \in Elems(down') : Precedes(down, Head(down), y)
  BY <1>0, <1>1, TailSeq, TailOrder DEF Working
<1>2. CASE WorkerTakesAck
  <2>1. /\ Working /\ down' = Tail(down) /\ Head(down).type = "ack"
        /\ UNCHANGED <<current, outcome, phase, txSequence, executed, up, shade>>
        /\ waiter' = waiter
           \/ (waiter = "pending" /\ waiter' = "acked" /\ Head(down).seq = txSequence)
    BY <1>2 DEF WorkerTakesAck, callerVars, shadeVars
  <2>2. CASE waiter' = waiter
    BY <1>1, <2>1, <2>2, QuietStep
  <2>3. CASE waiter = "pending" /\ waiter' = "acked" /\ Head(down).seq = txSequence
    <3>1. ~IsData(Head(down)) /\ Fresh(Head(down))
      BY <2>1, <2>3 DEF IsData, Fresh
    <3>2. ~Untaken /\ OnlyFresh
      BY <1>1, <2>1, <3>1 DEF LinkInv, AckInv
    <3>3. \A m \in Elems(down') : ~IsData(m) => Fresh(m)
      BY <1>1, <2>1, <3>1 DEF LinkInv, OrderInv
    <3> QED
      BY <1>1, <2>1, <2>3, <3>2, <3>3, QuietStep
  <2> QED
    BY <2>1, <2>2, <2>3
<1>3. CASE WorkerTakesChunk
  BY <1>1, <1>3, QuietStep DEF WorkerTakesChunk, callerVars, shadeVars
<1>4. CASE WorkerRefusesChunk
  BY <1>1, <1>4, FailQueue, QuietStep DEF WorkerRefusesChunk, callerVars, shadeVars
<1>5. CASE WorkerAcks \/ WorkerAckFails
  <2>1. /\ UNCHANGED <<current, outcome, phase, txSequence, executed, down, shade>>
        /\ waiter' \in {waiter, "failed", "expired"} /\ (waiter' # "none" => waiter # "none")
        /\ up' = up \/ up' = Append(up, Ack(acking.seq))
    BY <1>5, FailQueue DEF WorkerAcks, WorkerAckFails, callerVars, shadeVars
  <2>2. ~IsData(Ack(acking.seq))
    BY DEF IsData, Ack
  <2>3. /\ Elems(up') \subseteq Elems(up) \cup {Ack(acking.seq)}
        /\ \A x, y : Precedes(up', x, y) => Precedes(up, x, y) \/ y = Ack(acking.seq)
    <3>1. CASE up' = up
      BY <3>1
    <3>2. CASE up' = Append(up, Ack(acking.seq))
      BY <1>0, <3>2, AppendSeq, AppendOrder
    <3> QED
      BY <2>1, <3>1, <3>2
  <2> QED
    BY <2>1, <2>2, <2>3, QuietStep
<1> QED
  BY <1>2, <1>3, <1>4, <1>5 DEF Worker

LEMMA ShadeLink == ASSUME IInv, LinkInv, Shade \/ Lose PROVE LinkInv'
<1>0. /\ IsSeq(up) /\ IsSeq(down)
      /\ {"expected", "tx", "state", "frame"} \subseteq DOMAIN shade
  BY DEF IInv, AirInv
<1>1. CASE ShadeTakesChunk
  BY <1>1, RepeatStep, ExecuteStep
<1>2. CASE ShadeEmits
  <2>1. /\ UNCHANGED <<current, outcome, phase, txSequence, executed, up, waiter>>
        /\ shade' = [shade EXCEPT !.state = Awaits]
    BY <1>2 DEF ShadeEmits, callerVars
  <2>2. shade'.expected = shade.expected
    BY <1>0, <2>1
  <2>3. PICK m : down' = Append(down, m) /\ IsData(m)
    <3>1. PICK part, last : down' = Append(down, Data(shade.tx, part, last))
      BY <1>2 DEF ShadeEmits
    <3> QED
      BY <3>1, MessageFacts DEF IsData
  <2>4. /\ Elems(down') \subseteq Elems(down) \cup {m}
        /\ \A x, y : Precedes(down', x, y) => Precedes(down, x, y) \/ y = m
    BY <1>0, <2>3, AppendSeq, AppendOrder
  <2> QED
    BY <2>1, <2>2, <2>3, <2>4, QuietStep
<1>3. CASE ShadeTakesAck
  <2>1. /\ UNCHANGED <<current, outcome, phase, txSequence, executed, down, waiter>>
        /\ up # <<>> /\ up' = Tail(up)
    BY <1>3 DEF ShadeTakesAck, callerVars
  <2>2. shade'.expected = shade.expected
    BY <1>0, <1>3 DEF ShadeTakesAck
  <2>3. /\ Elems(up') \subseteq Elems(up)
        /\ \A x, y : Precedes(up', x, y) => Precedes(up, x, y)
    BY <1>0, <2>1, TailSeq, TailOrder
  <2> QED
    BY <2>1, <2>2, <2>3, QuietStep
<1>4. CASE ShadeGivesUp
  <2>1. /\ UNCHANGED <<current, outcome, phase, txSequence, executed, up, down, waiter>>
        /\ shade' = [shade EXCEPT !.state = Silent, !.frame = <<>>]
    BY <1>4 DEF ShadeGivesUp, callerVars
  <2>2. shade'.expected = shade.expected
    BY <1>0, <2>1
  <2> QED
    BY <2>1, <2>2, QuietStep
<1>5. CASE Lose
  <2>1. /\ UNCHANGED <<current, outcome, phase, txSequence, executed, shade, waiter>>
        /\ up' = up \/ (up # <<>> /\ up' = Tail(up))
        /\ down' = down \/ (down # <<>> /\ down' = Tail(down))
    BY <1>5 DEF Lose, callerVars, shadeVars
  <2>2. /\ Elems(up') \subseteq Elems(up)
        /\ \A x, y : Precedes(up', x, y) => Precedes(up, x, y)
    BY <1>0, <2>1, TailSeq, TailOrder
  <2>3. /\ Elems(down') \subseteq Elems(down)
        /\ \A x, y : Precedes(down', x, y) => Precedes(down, x, y)
    BY <1>0, <2>1, TailSeq, TailOrder
  <2> QED
    BY <2>1, <2>2, <2>3, QuietStep
<1> QED
  BY <1>1, <1>2, <1>3, <1>4, <1>5 DEF Shade

FullInv == IInv /\ LinkInv /\ PartInv

LEMMA InitFull == Init => FullInv
  BY InitInv, InitLinkInv DEF FullInv

LEMMA NextFull == FullInv /\ [Next]_vars => FullInv'
<1>1. ASSUME FullInv, UNCHANGED vars PROVE FullInv'
  <2>1. IInv'
    BY <1>1, NextInv DEF FullInv
  <2>2. LinkInv'
    BY <1>1, QuietStep DEF FullInv, vars, callerVars, shadeVars
  <2>3. PartInv'
    BY <1>1, PartStep DEF FullInv, vars, workerVars, shadeVars, PartInv
  <2> QED
    BY <2>1, <2>2, <2>3 DEF FullInv
<1>2. ASSUME FullInv, Next PROVE FullInv'
  BY <1>2, NextInv, CallerLink, WorkerLink, ShadeLink, CallerPart, WorkerPart, ShadePart
     DEF FullInv, Next
<1> QED
  BY <1>1, <1>2

LEMMA FullInvariant == Spec => []FullInv
  BY InitFull, NextFull, PTL DEF Spec

\* The shade carries out the requests of a session in order and none of them twice,
\* whatever is lost, late or transmitted again (_send_frame's sequence numbers).
THEOREM OrderTheorem == Spec => []ExecutedInOrder
<1>1. FullInv => ExecutedInOrder
  BY DEF FullInv, LinkInv
<1> QED
  BY FullInvariant, <1>1, PTL

\* An ACK is credited to a chunk that the shade took, or to the readback that reuses
\* the number of an unacknowledged write (_ack_waiters is keyed by sequence).
THEOREM AckTheorem == Spec => []AckMeansTaken
<1>1. FullInv => AckMeansTaken
  BY DEF FullInv, LinkInv, NumberInv, Shared, AckMeansTaken
<1> QED
  BY FullInvariant, <1>1, PTL

\* A readback that is accepted settles the write before it, which has timed out
\* (set_position_and_read_status).
THEOREM ReadbackTheorem == Spec => []ReadbackSettlesWrite
<1>1. FullInv => ReadbackSettlesWrite
  <2> SUFFICES ASSUME FullInv, NEW i \in Requests, outcome[i] \in {"unacked", "unanswered"},
                      outcome[i + 1] = "ok"
               PROVE  /\ i \in Done <=> outcome[i] = "unanswered"
                      /\ \A k \in 1..Len(up) : up[k].type = "data" => up[k].part[1] # i
    BY DEF ReadbackSettlesWrite
  <2>1. Script[i] = "write"
    BY DEF FullInv, LinkInv, OutcomeInv
  <2>2. i + 1 \in Requests
    BY <2>1, ScriptAssumption DEF Requests
  <2>3. i + 1 \in Done
    BY <2>2 DEF FullInv, LinkInv, OutcomeInv
  <2>4. i \in Done <=> outcome[i] = "unanswered"
    BY <2>3 DEF FullInv, LinkInv, OutcomeInv
  <2>5. ASSUME NEW k \in 1..Len(up), up[k].type = "data", up[k].part[1] = i PROVE FALSE
    <3>1. up[k] \in Elems(up) /\ IsData(up[k]) /\ Id(up[k]) = i
      BY <2>5 DEF Elems, IsData, Id
    <3>2. i + 1 <= i
      BY <2>3, <3>1 DEF FullInv, LinkInv, ChunkInv
    <3> QED
      BY <3>2 DEF Requests
  <2> QED
    BY <2>4, <2>5
<1> QED
  BY FullInvariant, <1>1, PTL

-----------------------------------------------------------------------------
\* The session implements Exchange.

\* What the caller is told of each request: both timeouts are one exception.
Told == [i \in Requests |-> IF outcome[i] \in {"unacked", "unanswered"} THEN "timeout"
                            ELSE outcome[i]]

LEMMA ToldStep ==
  ASSUME IInv, current \in Requests, NEW result \in Outcomes,
         outcome' = [outcome EXCEPT ![current] = result]
  PROVE  Told' = [Told EXCEPT ![current] =
                     IF result \in {"unacked", "unanswered"} THEN "timeout" ELSE result]
<1>1. outcome'[current] = result /\ \A i \in Requests : i # current => outcome'[i] = outcome[i]
  BY OutcomeFacts
<1> QED
  BY <1>1 DEF Told

LEMMA NotFailed ==
  ASSUME FullInv, phase # "closed" PROVE ~E!Failed /\ current \in E!Requests
<1>1. \A i \in Requests : outcome[i] # "error"
  BY DEF FullInv, LinkInv, OutcomeInv
<1>2. \A i \in Requests : Told[i] # "error"
  BY <1>1 DEF Told
<1>3. current \in Requests
  BY DEF FullInv, IInv, TriesInv
<1> QED
  BY <1>2, <1>3 DEF E!Failed, E!Requests, Requests, Told

LEMMA AbortMaps ==
  ASSUME FullInv, phase # "closed", Abort, executed' = executed PROVE E!Abort
<1>1. current \in Requests /\ IInv /\ "error" \in Outcomes
  BY DEF FullInv, IInv, TriesInv, Outcomes
<1>2. current' = current /\ outcome' = [outcome EXCEPT ![current] = "error"] /\ Done' = Done
  BY DEF Abort, Settle, Done
<1>3. Told' = [Told EXCEPT ![current] = "error"]
  BY <1>1, <1>2, ToldStep
<1> QED
  BY <1>2, <1>3, NotFailed DEF E!Abort, E!Settle, Told

LEMMA TimeOutMaps ==
  ASSUME FullInv, phase # "closed", NEW result \in {"unacked", "unanswered"},
         TimedOut(result), executed' = executed
  PROVE  E!TimeOut \/ E!Abort
<1>1. current \in Requests /\ IInv /\ result \in Outcomes
  BY DEF FullInv, IInv, TriesInv, Outcomes
<1>2. CASE Script[current] = "write"
  <2>1. current' = current + 1 /\ outcome' = [outcome EXCEPT ![current] = result] /\ Done' = Done
    BY <1>2 DEF TimedOut, Settle, Done
  <2>2. Told' = [Told EXCEPT ![current] = "timeout"]
    BY <1>1, <2>1, ToldStep
  <2> QED
    BY <1>1, <1>2, <2>1, <2>2, NotFailed DEF E!TimeOut, E!Settle, Told
<1>3. CASE Script[current] # "write"
  BY <1>3, AbortMaps DEF TimedOut
<1> QED
  BY <1>2, <1>3

LEMMA StepMaps ==
  ASSUME FullInv, Next PROVE E!Next \/ UNCHANGED E!vars
<1>0. ASSUME UNCHANGED <<current, outcome, executed>> PROVE UNCHANGED E!vars
  BY <1>0 DEF E!vars, Done
<1>1. CASE \/ RefuseStale \/ SendFails \/ AckFails
  <2>1. phase # "closed" /\ Abort /\ executed' = executed
    BY <1>1 DEF RefuseStale, SendFails, AckFails, shadeVars
  <2> QED
    BY <2>1, AbortMaps DEF E!Next
<1>2. CASE SendChunk \/ WriteReturns \/ Acknowledged
  BY <1>0, <1>2 DEF SendChunk, WriteReturns, Acknowledged, shadeVars
<1>3. CASE AckTimeout
  <2>1. /\ phase # "closed" /\ executed' = executed
        /\ TimedOut("unacked") \/ UNCHANGED <<current, outcome>>
    BY <1>3 DEF AckTimeout, TimeoutRaised, shadeVars
  <2> QED
    BY <1>0, <2>1, TimeOutMaps DEF E!Next
<1>4. CASE ResponseTimeout
  <2>1. phase # "closed" /\ executed' = executed /\ TimedOut("unanswered")
    BY <1>4 DEF ResponseTimeout, shadeVars
  <2> QED
    BY <2>1, TimeOutMaps DEF E!Next
<1>5. CASE TakeResponse
  <2>1. phase # "closed" /\ executed' = executed /\ responses # <<>> /\ current \in Requests
    BY <1>5 DEF TakeResponse, shadeVars, FullInv, IInv, TriesInv
  <2>2. CASE Abort
    BY <2>1, <2>2, AbortMaps DEF E!Next
  <2>3. CASE /\ Accepted(Head(responses)) /\ current' = current + 1
             /\ outcome' = [outcome EXCEPT ![current] = "ok"]
    <3>1. current \in Done /\ Done' = Done
      BY <2>1, <2>3, AcceptedDone DEF FullInv, Done
    <3>2. Told' = [Told EXCEPT ![current] = "ok"]
      BY <2>1, <2>3, ToldStep DEF FullInv, Outcomes
    <3>3. E!Answer
      BY <2>1, <2>3, <3>1, <3>2, NotFailed DEF E!Answer, E!Settle, Told
    <3> QED
      BY <3>3 DEF E!Next
  <2> QED
    BY <1>5, <2>2, <2>3 DEF TakeResponse, Settle
<1>6. CASE Worker
  BY <1>0, <1>6 DEF Worker, WorkerTakesAck, WorkerTakesChunk, WorkerRefusesChunk, WorkerAcks,
     WorkerAckFails, callerVars, shadeVars
<1>7. CASE ShadeTakesChunk
  <2>1. UNCHANGED <<current, outcome>>
    BY <1>7 DEF ShadeTakesChunk, callerVars
  <2>2. CASE Head(up).seq # shade.expected
    BY <1>0, <1>7, <2>1, <2>2 DEF ShadeTakesChunk, shadeVars
  <2>3. CASE Head(up).seq = shade.expected
    <3> DEFINE r == Id(Head(up))
    <3>1. Due(r) /\ Done' = Done \cup {r} /\ Fresh(Head(up))
      BY <1>7, <2>3, ExecuteStep DEF FullInv
    <3>2. /\ r \in Requests /\ r <= current
          /\ r = current \/ (r + 1 = current /\ outcome[r] = "unacked")
      BY <1>7, <3>1, TakenFacts DEF FullInv, LinkInv, ChunkInv
    <3> HIDE DEF r
    <3>3. r < current => Told[r] = "timeout"
      BY <3>2 DEF Told, Requests
    <3>4. E!Execute(r)
      BY <2>1, <3>1, <3>2, <3>3 DEF E!Execute, Due, Told
    <3> QED
      BY <3>2, <3>4 DEF E!Next, E!Requests, Requests
  <2> QED
    BY <2>2, <2>3
<1>8. CASE ShadeEmits \/ ShadeTakesAck \/ ShadeGivesUp \/ Lose
  BY <1>0, <1>8 DEF ShadeEmits, ShadeTakesAck, ShadeGivesUp, Lose, callerVars, shadeVars
<1> QED
  BY <1>1, <1>2, <1>3, <1>4, <1>5, <1>6, <1>7, <1>8 DEF Next, Caller, Shade

\* A session implements Exchange: the requests are put and carried out one after the
\* other, an answer comes from the shade and belongs to its request, and nothing
\* follows an error.
THEOREM RefinementTheorem == Spec => ImplementsExchange
<1>1. Init => E!Init
  <2> SUFFICES ASSUME Init PROVE E!Init
    OBVIOUS
  <2>1. current = 1 /\ Done = {} /\ \A i \in Requests : outcome[i] = "none"
    <3>1. Len(executed) = 0
      BY DEF Init
    <3> QED
      BY <3>1 DEF Init, Done
  <2>2. Told = [i \in Requests |-> "none"]
    BY <2>1 DEF Told
  <2> QED
    BY <2>1, <2>2 DEF E!Init, E!Requests, Requests, Told
<1>2. FullInv /\ [Next]_vars => [E!Next]_(E!vars)
  <2>1. UNCHANGED vars => UNCHANGED E!vars
    BY DEF vars, callerVars, shadeVars, E!vars, Done
  <2> QED
    BY <2>1, StepMaps
<1> QED
  BY FullInvariant, <1>1, <1>2, PTL DEF Spec, ImplementsExchange, E!Spec

-----------------------------------------------------------------------------
\* Counting the messages of a queue.

\* A kind of message: response or request chunks, the last chunk of a frame, ACKs, the
\* chunks of one request, and chunks and ACKs with one number or with the others.
AllChunks     == <<"chunk">>
LastChunks    == <<"last">>
AllAcks       == <<"ack">>
ChunksOf(r)   == <<"of", r>>
ChunksWith(q) == <<"chunk with", q>>
ChunksBut(q)  == <<"chunk but", q>>
AcksWith(q)   == <<"ack with", q>>
AcksBut(q)    == <<"ack but", q>>

IsLast(m) == IsData(m) /\ m.last

Is(m, kind) ==
    \/ kind[1] = "chunk"      /\ IsData(m)
    \/ kind[1] = "last"       /\ IsLast(m)
    \/ kind[1] = "ack"        /\ ~IsData(m)
    \/ kind[1] = "of"         /\ IsData(m) /\ Id(m) = kind[2]
    \/ kind[1] = "chunk with" /\ IsData(m) /\ m.seq = kind[2]
    \/ kind[1] = "chunk but"  /\ IsData(m) /\ m.seq # kind[2]
    \/ kind[1] = "ack with"   /\ ~IsData(m) /\ m.seq = kind[2]
    \/ kind[1] = "ack but"    /\ ~IsData(m) /\ m.seq # kind[2]

PlacesOf(s, kind) == {i \in 1..Len(s) : Is(s[i], kind)}
Count(s, kind)    == Cardinality(PlacesOf(s, kind))
One(p)            == IF p THEN 1 ELSE 0

LEMMA KindFacts ==
  ASSUME NEW m, NEW x
  PROVE  /\ Is(m, AllChunks) <=> IsData(m)
         /\ Is(m, LastChunks) <=> IsLast(m)
         /\ Is(m, AllAcks) <=> ~IsData(m)
         /\ Is(m, ChunksOf(x)) <=> IsData(m) /\ Id(m) = x
         /\ Is(m, ChunksWith(x)) <=> IsData(m) /\ m.seq = x
         /\ Is(m, ChunksBut(x)) <=> IsData(m) /\ m.seq # x
         /\ Is(m, AcksWith(x)) <=> ~IsData(m) /\ m.seq = x
         /\ Is(m, AcksBut(x)) <=> ~IsData(m) /\ m.seq # x
<1>1. Is(m, AllChunks) <=> IsData(m)
  BY DEF Is, AllChunks
<1>2. Is(m, LastChunks) <=> IsLast(m)
  BY DEF Is, LastChunks
<1>3. Is(m, AllAcks) <=> ~IsData(m)
  BY DEF Is, AllAcks
<1>4. Is(m, ChunksOf(x)) <=> IsData(m) /\ Id(m) = x
  BY DEF Is, ChunksOf
<1>5. Is(m, ChunksWith(x)) <=> IsData(m) /\ m.seq = x
  BY DEF Is, ChunksWith
<1>6. Is(m, ChunksBut(x)) <=> IsData(m) /\ m.seq # x
  BY DEF Is, ChunksBut
<1>7. Is(m, AcksWith(x)) <=> ~IsData(m) /\ m.seq = x
  BY DEF Is, AcksWith
<1>8. Is(m, AcksBut(x)) <=> ~IsData(m) /\ m.seq # x
  BY DEF Is, AcksBut
<1> QED
  BY <1>1, <1>2, <1>3, <1>4, <1>5, <1>6, <1>7, <1>8

LEMMA PlacesFinite ==
  ASSUME NEW n \in Nat, NEW X, X \subseteq 1..n
  PROVE  IsFiniteSet(X) /\ Cardinality(X) \in Nat /\ Cardinality(X) <= n
<1>1. IsFiniteSet(1..n) /\ Cardinality(1..n) = n
  BY FS_Interval
<1> QED
  BY <1>1, FS_Subset, FS_CardinalityType

\* The places after the first, counted from one.
LEMMA ShiftedPlaces ==
  ASSUME NEW n \in Nat, NEW X, X \subseteq 1..(n + 1), NEW Y, Y = {i \in 1..n : i + 1 \in X}
  PROVE  Cardinality(X) = Cardinality(Y) + One(1 \in X)
<1> DEFINE f == [i \in Y |-> i + 1]
           Z == X \ {1}
<1>1. IsFiniteSet(X) /\ Cardinality(X) \in Nat /\ IsFiniteSet(Y) /\ Cardinality(Y) \in Nat
  <2>1. n + 1 \in Nat /\ Y \subseteq 1..n
    OBVIOUS
  <2>2. IsFiniteSet(X) /\ Cardinality(X) \in Nat
    BY <2>1, PlacesFinite
  <2>3. IsFiniteSet(Y) /\ Cardinality(Y) \in Nat
    BY <2>1, PlacesFinite
  <2> QED
    BY <2>2, <2>3
<1>2. f \in Bijection(Y, Z)
  <2>1. f \in [Y -> Z]
    OBVIOUS
  <2>2. \A a, b \in Y : f[a] = f[b] => a = b
    OBVIOUS
  <2>3. \A z \in Z : \E i \in Y : f[i] = z
    <3> SUFFICES ASSUME NEW z \in Z PROVE \E i \in Y : f[i] = z
      OBVIOUS
    <3>1. z - 1 \in Y /\ (z - 1) + 1 = z
      OBVIOUS
    <3> QED
      BY <3>1
  <2> QED
    BY <2>1, <2>2, <2>3, Fun_IsBij
<1>3. Cardinality(Z) = Cardinality(Y)
  BY <1>1, <1>2, FS_Bijection DEF ExistsBijection
<1>4. Cardinality(Z) = IF 1 \in X THEN Cardinality(X) - 1 ELSE Cardinality(X)
  BY <1>1, FS_RemoveElement
<1> HIDE DEF Z, f
<1> QED
  BY <1>1, <1>3, <1>4 DEF One

LEMMA CountNat ==
  ASSUME NEW s, IsSeq(s), NEW kind
  PROVE  /\ Count(s, kind) \in Nat /\ Len(s) \in Nat
         /\ PlacesOf(s, kind) \subseteq 1..Len(s) /\ IsFiniteSet(PlacesOf(s, kind))
<1>1. Len(s) \in Nat /\ PlacesOf(s, kind) \subseteq 1..Len(s)
  BY DEF IsSeq, PlacesOf
<1> QED
  BY <1>1, PlacesFinite DEF Count

LEMMA CountEmpty == ASSUME NEW kind PROVE Count(<<>>, kind) = 0
<1>1. PlacesOf(<<>>, kind) = {}
  BY DEF PlacesOf
<1> QED
  BY <1>1, FS_EmptySet DEF Count

LEMMA CountAppend ==
  ASSUME NEW s, IsSeq(s), NEW e, NEW kind
  PROVE  /\ Is(e, kind) => Count(Append(s, e), kind) = Count(s, kind) + 1
         /\ ~Is(e, kind) => Count(Append(s, e), kind) = Count(s, kind)
<1>1. PICK S : s \in Seq(S)
  BY DEF IsSeq
<1>2. s \in Seq(S \cup {e})
  BY <1>1
<1>3. /\ Len(Append(s, e)) = Len(s) + 1 /\ Len(s) \in Nat
      /\ \A i \in 1..(Len(s) + 1) : Append(s, e)[i] = IF i <= Len(s) THEN s[i] ELSE e
  BY <1>2
<1>4. PlacesOf(Append(s, e), kind) =
         IF Is(e, kind) THEN PlacesOf(s, kind) \cup {Len(s) + 1} ELSE PlacesOf(s, kind)
  BY <1>3 DEF PlacesOf
<1>5. IsFiniteSet(PlacesOf(s, kind)) /\ Len(s) + 1 \notin PlacesOf(s, kind)
  BY <1>3, CountNat
<1> QED
  BY <1>4, <1>5, FS_AddElement DEF Count

LEMMA CountTail ==
  ASSUME NEW s, IsSeq(s), s # <<>>, NEW kind
  PROVE  /\ Is(Head(s), kind) => Count(s, kind) = Count(Tail(s), kind) + 1
         /\ ~Is(Head(s), kind) => Count(s, kind) = Count(Tail(s), kind)
<1>1. PICK S : s \in Seq(S)
  BY DEF IsSeq
<1>2. /\ Len(s) \in Nat \ {0} /\ Len(Tail(s)) = Len(s) - 1
      /\ \A i \in 1..(Len(s) - 1) : Tail(s)[i] = s[i + 1]
      /\ Head(s) = s[1]
  BY <1>1
<1> DEFINE n == Len(s) - 1
           X == PlacesOf(s, kind)
           Y == PlacesOf(Tail(s), kind)
<1>3. n \in Nat /\ X \subseteq 1..(n + 1) /\ (1 \in X <=> Is(Head(s), kind))
  BY <1>2 DEF PlacesOf
<1>4. Y = {i \in 1..n : i + 1 \in X}
  BY <1>2 DEF PlacesOf
<1>5. IsSeq(Tail(s))
  BY TailSeq
<1>6. Cardinality(X) \in Nat /\ Cardinality(Y) \in Nat
  BY <1>5, CountNat DEF Count
<1> HIDE DEF X, Y, n
<1>7. Cardinality(X) = Cardinality(Y) + One(1 \in X)
  BY <1>3, <1>4, ShiftedPlaces
<1> QED
  BY <1>3, <1>6, <1>7 DEF Count, One, X, Y

LEMMA CountSome ==
  ASSUME NEW s, IsSeq(s), NEW kind
  PROVE  Count(s, kind) = 0 <=> \A m \in Elems(s) : ~Is(m, kind)
<1>1. Count(s, kind) = 0 <=> PlacesOf(s, kind) = {}
  BY CountNat, FS_EmptySet DEF Count
<1>2. PlacesOf(s, kind) = {} <=> \A m \in Elems(s) : ~Is(m, kind)
  BY DEF PlacesOf, Elems
<1> QED
  BY <1>1, <1>2

\* Kinds that cover another one count for no less.
LEMMA CountCover ==
  ASSUME NEW s, IsSeq(s), NEW kind, NEW other,
         \A m \in Elems(s) : Is(m, kind) => Is(m, other)
  PROVE  Count(s, kind) <= Count(s, other)
<1>1. PlacesOf(s, kind) \subseteq PlacesOf(s, other)
  BY DEF PlacesOf, Elems
<1> QED
  BY <1>1, CountNat, FS_Subset DEF Count

\* A queue consists of chunks, ACKs with a number and ACKs with another one.
LEMMA CountLength ==
  ASSUME NEW s, IsSeq(s), NEW q
  PROVE  Len(s) = Count(s, AllChunks) + Count(s, AcksWith(q)) + Count(s, AcksBut(q))
<1> DEFINE X == PlacesOf(s, AllChunks)
           Y == PlacesOf(s, AcksWith(q))
           Z == PlacesOf(s, AcksBut(q))
<1>1. /\ IsFiniteSet(X) /\ IsFiniteSet(Y) /\ IsFiniteSet(Z) /\ Len(s) \in Nat
      /\ Count(s, AllChunks) \in Nat /\ Count(s, AcksWith(q)) \in Nat
      /\ Count(s, AcksBut(q)) \in Nat
  BY CountNat
<1>2. /\ X \cup Y \cup Z = 1..Len(s) /\ X \cap Y = {} /\ (X \cup Y) \cap Z = {}
  BY KindFacts DEF PlacesOf
<1> HIDE DEF X, Y, Z
<1>3. /\ IsFiniteSet(X \cup Y)
      /\ Cardinality(X \cup Y) = Cardinality(X) + Cardinality(Y) - Cardinality(X \cap Y)
  BY <1>1, FS_Union
<1>4. Cardinality((X \cup Y) \cup Z) =
         Cardinality(X \cup Y) + Cardinality(Z) - Cardinality((X \cup Y) \cap Z)
  BY <1>1, <1>3, FS_Union
<1>5. Cardinality(1..Len(s)) = Len(s) /\ Cardinality({}) = 0
  <2>1. 1 \in Int /\ Len(s) \in Int
    BY <1>1
  <2>2. Cardinality(1..Len(s)) = IF 1 > Len(s) THEN 0 ELSE Len(s) - 1 + 1
    BY <2>1, FS_Interval
  <2>3. Cardinality(1..Len(s)) = Len(s)
    BY <1>1, <2>2
  <2> QED
    BY <2>3, FS_EmptySet
<1>6. Cardinality(X \cap Y) = 0 /\ Cardinality((X \cup Y) \cap Z) = 0
  BY <1>2, <1>5
<1>7. Len(s) = Cardinality(X) + Cardinality(Y) + Cardinality(Z)
  <2>1. Cardinality(X) \in Nat /\ Cardinality(Y) \in Nat /\ Cardinality(Z) \in Nat
    BY <1>1 DEF Count, X, Y, Z
  <2>2. Cardinality((X \cup Y) \cup Z) = Len(s)
    BY <1>2, <1>5
  <2> QED
    BY <1>1, <1>3, <1>4, <1>6, <2>1, <2>2
<1> QED
  BY <1>7 DEF Count, X, Y, Z

\* A queue that stays as it is or loses its first message.
LEMMA ShorterFacts ==
  ASSUME NEW s, IsSeq(s), NEW t, t = s \/ (s # <<>> /\ t = Tail(s))
  PROVE  /\ IsSeq(t) /\ Elems(t) \subseteq Elems(s)
         /\ \A x, y : Precedes(t, x, y) => Precedes(s, x, y)
         /\ \A kind : Count(t, kind) \in Nat /\ Count(s, kind) \in Nat
                       /\ Count(t, kind) <= Count(s, kind)
<1>1. CASE t = s
  BY <1>1, CountNat
<1>2. CASE s # <<>> /\ t = Tail(s)
  <2>1. /\ IsSeq(t) /\ Elems(t) \subseteq Elems(s)
        /\ \A x, y : Precedes(t, x, y) => Precedes(s, x, y)
    BY <1>2, TailSeq, TailOrder
  <2>2. ASSUME NEW kind
        PROVE  Count(t, kind) \in Nat /\ Count(s, kind) \in Nat /\ Count(t, kind) <= Count(s, kind)
    <3>1. Count(t, kind) \in Nat /\ Count(s, kind) \in Nat
      BY <2>1, CountNat
    <3>2. Count(s, kind) = Count(t, kind) + 1 \/ Count(s, kind) = Count(t, kind)
      BY <1>2, CountTail
    <3> QED
      BY <3>1, <3>2
  <2> QED
    BY <2>1, <2>2
<1> QED
  BY <1>1, <1>2

-----------------------------------------------------------------------------
\* The numbers of the shade's chunks and the worker's ACKs: either everything that was
\* sent was acknowledged, or one chunk was taken and at most its ACK is under way.
InStep == expected = shade.tx /\ acking = NoAck /\ \A m \in Elems(up) : IsData(m)

OneAhead ==
    /\ expected = NextSequence(shade.tx)
    /\ Count(up, AllAcks) + One(acking # NoAck) <= 1
    /\ \A m \in Elems(up) : ~IsData(m) => m.seq = shade.tx
    /\ acking # NoAck => acking.seq = shade.tx

Latest(m) == IsData(m) /\ m.seq = shade.tx

SyncInv ==
    /\ InStep \/ OneAhead
    /\ \A m \in Elems(down) : IsData(m) =>
          Latest(m) \/ (NextSequence(m.seq) = shade.tx /\ expected = shade.tx)
    /\ \A x, y : Precedes(down, x, y) /\ Latest(x) /\ IsData(y) => Latest(y)

LEMMA InitSync == Init => SyncInv
<1> SUFFICES ASSUME Init PROVE SyncInv
  OBVIOUS
<1>1. Elems(up) = {} /\ Elems(down) = {} /\ expected = shade.tx /\ acking = NoAck
  BY EmptySeq DEF Init
<1> QED
  BY <1>1, OrderedElems DEF SyncInv, InStep

\* Only what is under way changes, and there is no more of it.
LEMMA SyncStep ==
  ASSUME SyncInv, IsSeq(up), expected' = expected, shade'.tx = shade.tx,
         acking' \in {acking, NoAck},
         \A m \in Elems(up') : ~IsData(m) => m \in Elems(up) \/ m.seq = acking.seq,
         \A m \in Elems(up') : ~IsData(m) => m \in Elems(up) \/ acking # NoAck,
         Count(up', AllAcks) + One(acking' # NoAck) <= Count(up, AllAcks) + One(acking # NoAck),
         Count(up', AllAcks) \in Nat,
         \A m \in Elems(down') : IsData(m) => m \in Elems(down) \/ m.seq = shade.tx,
         \A x, y : Precedes(down', x, y) /\ IsData(x) /\ IsData(y) =>
             Precedes(down, x, y) \/ y.seq = shade.tx
  PROVE  SyncInv'
<1>1. \A m : Latest(m)' <=> Latest(m)
  BY DEF Latest
<1>2. InStep => InStep'
  BY DEF InStep
<1>3. OneAhead => OneAhead'
  <2> SUFFICES ASSUME OneAhead PROVE OneAhead'
    OBVIOUS
  <2>1. Count(up', AllAcks) + One(acking' # NoAck) <= 1
    <3>1. Count(up, AllAcks) \in Nat
      BY CountNat
    <3> QED
      BY <3>1 DEF OneAhead, One
  <2>2. \A m \in Elems(up') : ~IsData(m) => m.seq = shade.tx
    BY DEF OneAhead
  <2> QED
    BY <2>1, <2>2 DEF OneAhead
<1>4. \A x, y : Precedes(down', x, y) /\ Latest(x) /\ IsData(y) => Latest(y)
  BY DEF SyncInv, Latest
<1> QED
  BY <1>1, <1>2, <1>3, <1>4 DEF SyncInv, Latest

LEMMA AckKind == ASSUME NEW q PROVE ~IsData(Ack(q)) /\ Is(Ack(q), AllAcks)
<1>1. ~IsData(Ack(q))
  BY DEF IsData, Ack
<1> QED
  BY <1>1, KindFacts

LEMMA DataKind ==
  ASSUME NEW q, NEW part, NEW last
  PROVE  /\ IsData(Data(q, part, last)) /\ Data(q, part, last).seq = q
         /\ Data(q, part, last).part = part /\ (IsLast(Data(q, part, last)) <=> last)
<1>1. IsData(Data(q, part, last))
  BY DEF IsData, Data
<1>2. Data(q, part, last).last = last
  BY DEF Data
<1>3. Data(q, part, last).seq = q /\ Data(q, part, last).part = part
  BY DEF Data
<1> QED
  BY <1>1, <1>2, <1>3, Zenon DEF IsLast

\* Appending a chunk or an ACK, seen by what is counted.
LEMMA AppendFacts ==
  ASSUME NEW s, IsSeq(s), NEW e
  PROVE  /\ IsSeq(Append(s, e)) /\ Elems(Append(s, e)) \subseteq Elems(s) \cup {e}
         /\ \A x, y : Precedes(Append(s, e), x, y) =>
               Precedes(s, x, y) \/ (x \in Elems(s) /\ y = e)
         /\ \A kind : /\ Count(s, kind) \in Nat
                      /\ Is(e, kind) => Count(Append(s, e), kind) = Count(s, kind) + 1
                      /\ ~Is(e, kind) => Count(Append(s, e), kind) = Count(s, kind)
  BY AppendSeq, AppendOrder, CountAppend, CountNat

LEMMA SyncTakes ==
  ASSUME IInv, SyncInv, WorkerTakesChunk
  PROVE  /\ SyncInv' /\ acking' # NoAck /\ InStep /\ Latest(Head(down))
         /\ \A m \in Elems(down') : IsData(m) => Latest(m)
<1> DEFINE head == Head(down)
<1>0. /\ acking = NoAck /\ down # <<>> /\ IsData(head) /\ head.seq = expected
      /\ down' = Tail(down) /\ expected' = NextSequence(expected) /\ acking'.seq = head.seq
      /\ up' = up /\ shade' = shade /\ IsSeq(down) /\ IsSeq(up)
  BY DEF WorkerTakesChunk, Working, IsData, IInv, AirInv, shadeVars
<1>1. /\ head \in Elems(down) /\ Elems(down') \subseteq Elems(down)
      /\ \A x, y : Precedes(down', x, y) => Precedes(down, x, y)
      /\ \A y \in Elems(down') : Precedes(down, head, y)
  BY <1>0, TailSeq, TailOrder
<1>2. expected \in Numbers /\ shade.tx \in Numbers /\ head.seq \in Numbers
  BY <1>0 DEF IInv, TypeOK, Numbers
<1>3. /\ NextSequence(expected) # expected /\ NextSequence(shade.tx) # shade.tx
  BY <1>2, NextNumber
<1>4. acking' # NoAck
  BY <1>0, <1>2, Constants DEF NoAck, Numbers
<1> HIDE DEF head
<1>5. Latest(head) /\ expected = shade.tx
  <2>1. Latest(head) \/ (NextSequence(head.seq) = shade.tx /\ expected = shade.tx)
    BY <1>0, <1>1 DEF SyncInv
  <2>2. expected = shade.tx
    BY <1>0, <2>1 DEF Latest
  <2> QED
    BY <1>0, <1>3, <2>1, <2>2
<1>6. InStep
  BY <1>3, <1>5 DEF SyncInv, OneAhead
<1>7. \A m \in Elems(down') : IsData(m) => Latest(m)
  BY <1>0, <1>1, <1>5 DEF SyncInv
<1>8. Count(up, AllAcks) = 0
  BY <1>0, <1>6, CountSome, KindFacts DEF InStep
<1>9. OneAhead'
  <2>1. Count(up', AllAcks) + One(acking' # NoAck) <= 1
    BY <1>0, <1>8 DEF One
  <2> QED
    BY <1>0, <1>5, <1>6, <2>1 DEF InStep, OneAhead
<1>10. \A m : Latest(m)' <=> Latest(m)
  BY <1>0 DEF Latest
<1> QED
  BY <1>1, <1>4, <1>5, <1>6, <1>7, <1>9, <1>10, OrderedElems DEF SyncInv, head

\* The ACK of the shade's last chunk arrives.
LEMMA SyncAcked ==
  ASSUME IInv, SyncInv, ShadeTakesAck
  PROVE  /\ SyncInv' /\ OneAhead /\ acking = NoAck /\ Head(up).seq = shade.tx
         /\ Count(up, AllAcks) = 1 /\ Count(up', AllAcks) = 0
         /\ shade.state = Awaits => \A m \in Elems(down') : ~Latest(m)'
<1> DEFINE head == Head(up)
<1>0. /\ up # <<>> /\ ~IsData(head) /\ up' = Tail(up) /\ down' = down
      /\ expected' = expected /\ acking' = acking /\ IsSeq(up)
  BY DEF ShadeTakesAck, IsData, workerVars, IInv, AirInv
<1>1. /\ head \in Elems(up) /\ Elems(up') \subseteq Elems(up) /\ IsSeq(up')
  BY <1>0, TailSeq
<1>2. /\ Count(up, AllAcks) = Count(up', AllAcks) + 1
      /\ Count(up, AllAcks) \in Nat /\ Count(up', AllAcks) \in Nat
  BY <1>0, <1>1, CountTail, CountNat, KindFacts
<1>3. OneAhead
  BY <1>0, <1>1 DEF SyncInv, InStep
<1>4. acking = NoAck /\ head.seq = shade.tx /\ Count(up, AllAcks) = 1 /\ Count(up', AllAcks) = 0
  BY <1>0, <1>1, <1>2, <1>3 DEF OneAhead, One
<1>5. \A m \in Elems(up') : IsData(m)
  BY <1>1, <1>4, CountSome, KindFacts
<1>6. shade.tx \in Numbers /\ NextSequence(shade.tx) # shade.tx
  BY NextNumber DEF IInv, TypeOK, Numbers
<1>7. \A m \in Elems(down) : IsData(m) => m.seq = shade.tx
  BY <1>3, <1>6 DEF SyncInv, OneAhead, Latest
<1>8. CASE shade.state = Awaits
  <2>1. shade'.tx = NextSequence(shade.tx)
    BY <1>4, <1>8 DEF ShadeTakesAck, IInv, AirInv
  <2>2. InStep'
    BY <1>0, <1>3, <1>4, <1>5, <2>1 DEF OneAhead, InStep
  <2>3. \A m \in Elems(down') : ~Latest(m)'
    BY <1>0, <1>6, <1>7, <2>1 DEF Latest
  <2>4. \A m \in Elems(down') : IsData(m) =>
            NextSequence(m.seq) = shade'.tx /\ expected' = shade'.tx
    BY <1>0, <1>3, <1>7, <2>1 DEF OneAhead
  <2>5. \A x, y : Precedes(down', x, y) => x \in Elems(down')
    BY OrderedElems
  <2> QED
    BY <1>3, <1>4, <2>2, <2>3, <2>4, <2>5 DEF SyncInv, head
<1>9. CASE shade.state # Awaits
  <2>1. shade' = shade
    BY <1>9 DEF ShadeTakesAck
  <2>2. \A m : Latest(m)' <=> Latest(m)
    BY <2>1 DEF Latest
  <2>3. OneAhead'
    BY <1>0, <1>1, <1>3, <1>4, <2>1 DEF OneAhead, One
  <2> QED
    BY <1>0, <1>3, <1>4, <1>9, <2>1, <2>2, <2>3 DEF SyncInv, head
<1> QED
  BY <1>8, <1>9

LEMMA NextSync == ASSUME IInv, SyncInv, [Next]_vars PROVE SyncInv'
<1>0. /\ IsSeq(up) /\ IsSeq(down) /\ Count(up, AllAcks) \in Nat
      /\ {"expected", "tx", "state", "frame"} \subseteq DOMAIN shade
  BY CountNat DEF IInv, AirInv
<1>1. ASSUME NEW q, NEW part, NEW last, up' = Append(up, Data(q, part, last))
      PROVE  /\ \A m \in Elems(up') : ~IsData(m) => m \in Elems(up)
             /\ Count(up', AllAcks) = Count(up, AllAcks)
  <2> DEFINE new == Data(q, part, last)
  <2>1. IsData(new) /\ ~Is(new, AllAcks)
    BY DataKind, KindFacts
  <2> HIDE DEF new
  <2>2. up' = Append(up, new)
    BY <1>1 DEF new
  <2> QED
    BY <1>0, <2>1, <2>2, AppendFacts
<1>2. ASSUME up' = up \/ (up # <<>> /\ up' = Tail(up))
      PROVE  /\ Elems(up') \subseteq Elems(up) /\ Count(up', AllAcks) \in Nat
             /\ Count(up', AllAcks) <= Count(up, AllAcks)
  BY <1>0, <1>2, ShorterFacts
<1>3. ASSUME down' = down \/ (down # <<>> /\ down' = Tail(down))
      PROVE  /\ Elems(down') \subseteq Elems(down)
             /\ \A x, y : Precedes(down', x, y) => Precedes(down, x, y)
  BY <1>0, <1>3, ShorterFacts
<1>4. ASSUME UNCHANGED <<expected, acking, shade>>,
             down' = down \/ (down # <<>> /\ down' = Tail(down)),
             \/ up' = up \/ (up # <<>> /\ up' = Tail(up))
             \/ \E q, part, last : up' = Append(up, Data(q, part, last))
      PROVE  SyncInv'
  <2>1. /\ \A m \in Elems(up') : ~IsData(m) => m \in Elems(up)
        /\ Count(up', AllAcks) \in Nat /\ Count(up', AllAcks) <= Count(up, AllAcks)
    BY <1>0, <1>1, <1>2, <1>4
  <2>2. Count(up', AllAcks) + One(acking' # NoAck) <= Count(up, AllAcks) + One(acking # NoAck)
    BY <1>0, <1>4, <2>1 DEF One
  <2>3. acking' \in {acking, NoAck} /\ expected' = expected /\ shade'.tx = shade.tx
    BY <1>4
  <2> QED
    BY <1>0, <1>3, <1>4, <2>1, <2>2, <2>3, SyncStep
<1>5. CASE Caller
  <2>1. UNCHANGED <<expected, acking, shade, down>>
    BY <1>5 DEF Caller, RefuseStale, SendChunk, WriteReturns, SendFails, Acknowledged, AckFails,
       AckTimeout, TakeResponse, ResponseTimeout, workerVars, shadeVars
  <2>2. up' = up \/ up' = Append(up, Data(txSequence, <<current, 1>>, TRUE))
    BY <1>5 DEF Caller, RefuseStale, SendChunk, WriteReturns, SendFails, Acknowledged, AckFails,
       AckTimeout, TakeResponse, ResponseTimeout, Transmit
  <2> QED
    BY <1>4, <2>1, <2>2
<1>6. CASE WorkerTakesAck
  BY <1>4, <1>6 DEF WorkerTakesAck, Working, workerVars, shadeVars
<1>7. CASE WorkerTakesChunk
  BY <1>7, SyncTakes
<1>8. CASE WorkerRefusesChunk
  BY <1>4, <1>8 DEF WorkerRefusesChunk, Working, shadeVars
<1>9. CASE WorkerAcks \/ WorkerAckFails
  <2>1. /\ UNCHANGED <<expected, shade, down>> /\ acking # NoAck /\ acking' = NoAck
        /\ up' = up \/ up' = Append(up, Ack(acking.seq))
    BY <1>9 DEF WorkerAcks, WorkerAckFails, shadeVars
  <2>2. ~IsData(Ack(acking.seq)) /\ Ack(acking.seq).seq = acking.seq /\ Is(Ack(acking.seq), AllAcks)
    BY AckKind DEF Ack
  <2>3. /\ \A m \in Elems(up') : m \in Elems(up) \/ m.seq = acking.seq
        /\ Count(up', AllAcks) \in Nat /\ Count(up', AllAcks) <= Count(up, AllAcks) + 1
    <3>1. CASE up' = up
      BY <1>0, <3>1
    <3>2. CASE up' = Append(up, Ack(acking.seq))
      <4>1. /\ Elems(up') \subseteq Elems(up) \cup {Ack(acking.seq)}
            /\ Count(up', AllAcks) = Count(up, AllAcks) + 1
        BY <1>0, <2>2, <3>2, AppendFacts
      <4> QED
        BY <1>0, <2>2, <4>1
    <3> QED
      BY <2>1, <3>1, <3>2
  <2>4. Count(up', AllAcks) + One(acking' # NoAck) <= Count(up, AllAcks) + One(acking # NoAck)
    BY <1>0, <2>1, <2>3 DEF One
  <2> QED
    BY <1>0, <2>1, <2>3, <2>4, SyncStep
<1>10. CASE ShadeTakesChunk
  <2>1. /\ UNCHANGED <<expected, acking>> /\ up # <<>> /\ up' = Tail(up)
        /\ down' = Append(down, Ack(Head(up).seq))
    BY <1>10 DEF ShadeTakesChunk, workerVars
  <2>2. shade'.tx = shade.tx
    BY <1>0, <1>10 DEF ShadeTakesChunk, shadeVars
  <2>3. /\ Elems(down') \subseteq Elems(down) \cup {Ack(Head(up).seq)}
        /\ \A x, y : Precedes(down', x, y) =>
              Precedes(down, x, y) \/ (x \in Elems(down) /\ y = Ack(Head(up).seq))
    BY <1>0, <2>1, AppendFacts
  <2>4. Count(up', AllAcks) + One(acking' # NoAck) <= Count(up, AllAcks) + One(acking # NoAck)
    BY <1>0, <1>2, <2>1 DEF One
  <2> QED
    BY <1>0, <1>2, <2>1, <2>2, <2>3, <2>4, AckKind, SyncStep
<1>11. CASE ShadeEmits
  <2> DEFINE new == Data(shade.tx, Head(shade.frame), Len(shade.frame) = 1)
  <2>1. /\ UNCHANGED <<expected, acking, up>> /\ down' = Append(down, new)
        /\ shade'.tx = shade.tx /\ new.seq = shade.tx
    BY <1>0, <1>11, DataKind DEF ShadeEmits, workerVars
  <2>2. /\ Elems(down') \subseteq Elems(down) \cup {new}
        /\ \A x, y : Precedes(down', x, y) => Precedes(down, x, y) \/ (x \in Elems(down) /\ y = new)
    BY <1>0, <2>1, AppendFacts
  <2>3. Count(up', AllAcks) + One(acking' # NoAck) <= Count(up, AllAcks) + One(acking # NoAck)
    BY <1>0, <2>1 DEF One
  <2> QED
    BY <1>0, <2>1, <2>2, <2>3, SyncStep
<1>12. CASE ShadeTakesAck
  BY <1>12, SyncAcked
<1>13. CASE ShadeGivesUp
  <2>1. UNCHANGED <<expected, acking, up, down>> /\ shade'.tx = shade.tx
    BY <1>0, <1>13 DEF ShadeGivesUp, workerVars
  <2>2. Count(up', AllAcks) + One(acking' # NoAck) <= Count(up, AllAcks) + One(acking # NoAck)
    BY <1>0, <2>1 DEF One
  <2> QED
    BY <1>0, <2>1, <2>2, SyncStep
<1>14. CASE Lose
  BY <1>4, <1>14 DEF Lose, workerVars, shadeVars
<1>15. CASE UNCHANGED vars
  BY <1>4, <1>15 DEF vars, workerVars, shadeVars
<1> QED
  BY <1>5, <1>6, <1>7, <1>8, <1>9, <1>10, <1>11, <1>12, <1>13, <1>14, <1>15
     DEF Next, Worker, Shade

-----------------------------------------------------------------------------
\* The copies of the caller's chunks: on the way to the shade, or turned into an ACK on
\* the way back, with the current number or with the one before.
FreshCopies == Count(up, ChunksWith(txSequence)) + Count(down, AcksWith(txSequence))
StaleCopies == Count(up, ChunksBut(txSequence)) + Count(down, AcksBut(txSequence))
OwnChunks   == Count(up, ChunksOf(current))

\* The write before the current request was acknowledged, and its response never came.
Late == current > 1 /\ outcome[current - 1] = "unanswered"

\* The ACK of the write before may be taken for one of the current request.
Ambiguous == Shared /\ current \notin Done

TokenInv ==
    /\ phase = "closed" => /\ StaleCopies + FreshCopies <= 4
                           /\ Late => StaleCopies + FreshCopies <= 2
    /\ phase # "closed" => \/ StaleCopies <= 1
                           \/ phase = "response" /\ Ambiguous /\ StaleCopies <= 2
    /\ phase = "ready" => FreshCopies <= One(Shared) /\ OwnChunks = 0 /\ current \notin Done
    /\ phase = "ack" => /\ FreshCopies + One(waiter = "acked") <= tries + One(Ambiguous)
                        /\ OwnChunks <= tries /\ tries <= Attempts
    /\ phase = "response" => FreshCopies = 0
    /\ Open /\ Late => StaleCopies = 0
    /\ phase = "response" /\ Script[current] = "write" => StaleCopies = 0

LEMMA TokenNat ==
  ASSUME IInv
  PROVE  FreshCopies \in Nat /\ StaleCopies \in Nat /\ OwnChunks \in Nat /\ tries \in 0..2
<1>1. IsSeq(up) /\ IsSeq(down)
  BY DEF IInv, AirInv
<1>2. \A kind : Count(up, kind) \in Nat /\ Count(down, kind) \in Nat
  BY <1>1, CountNat
<1>3. tries \in 0..2
  BY DEF IInv, TypeOK
<1> QED
  BY <1>2, <1>3 DEF FreshCopies, StaleCopies, OwnChunks

LEMMA InitToken == Init => TokenInv
<1> SUFFICES ASSUME Init PROVE TokenInv
  OBVIOUS
<1>1. up = <<>> /\ down = <<>> /\ phase = "ready" /\ current = 1
  BY DEF Init
<1>2. FreshCopies = 0 /\ StaleCopies = 0 /\ OwnChunks = 0
  BY <1>1, CountEmpty DEF FreshCopies, StaleCopies, OwnChunks
<1>3. current \notin Done
  <2>1. Len(executed) = 0
    BY DEF Init
  <2> QED
    BY <2>1 DEF Done
<1> QED
  BY <1>1, <1>2, <1>3 DEF TokenInv, One

\* A step that leaves the caller alone and makes no copy.
LEMMA TokenStep ==
  ASSUME IInv, IInv', TokenInv, UNCHANGED callerVars, Done' = Done,
         StaleCopies' <= StaleCopies, OwnChunks' <= OwnChunks, FreshCopies' <= FreshCopies,
         FreshCopies' + One(waiter' = "acked") <= FreshCopies + One(waiter = "acked")
  PROVE  TokenInv'
<1>1. /\ FreshCopies \in Nat /\ StaleCopies \in Nat /\ OwnChunks \in Nat /\ tries \in 0..2
      /\ FreshCopies' \in Nat /\ StaleCopies' \in Nat /\ OwnChunks' \in Nat
  <2>1. IsSeq(up') /\ IsSeq(down')
    BY DEF IInv, AirInv
  <2>2. \A kind : Count(up', kind) \in Nat /\ Count(down', kind) \in Nat
    BY <2>1, CountNat
  <2>3. FreshCopies' \in Nat /\ StaleCopies' \in Nat /\ OwnChunks' \in Nat
    BY <2>2 DEF FreshCopies, StaleCopies, OwnChunks
  <2> QED
    BY <2>3, TokenNat
<1>2. /\ UNCHANGED <<phase, current, tries>>
      /\ Late' <=> Late
      /\ Ambiguous' <=> Ambiguous
      /\ Shared' <=> Shared
      /\ Open' <=> Open
      /\ Attempts' = Attempts /\ Attempts \in 1..2
  BY AttemptsRange DEF callerVars, Late, Ambiguous, Shared, Open, Attempts
<1>3. One(waiter = "acked") \in 0..1 /\ One(waiter' = "acked") \in 0..1
      /\ One(Ambiguous) \in 0..1 /\ One(Shared) \in 0..1
      /\ One(Ambiguous') = One(Ambiguous) /\ One(Shared') = One(Shared)
  BY <1>2 DEF One
<1>4. phase = "closed" => /\ StaleCopies' + FreshCopies' <= 4
                          /\ Late => StaleCopies' + FreshCopies' <= 2
  <2>1. ASSUME NEW a \in Nat, NEW b \in Nat, NEW c \in Nat, NEW d \in Nat, NEW n \in Nat,
               a <= c, b <= d, c + d <= n
        PROVE  a + b <= n
    BY <2>1
  <2>2. ASSUME NEW n \in Nat, StaleCopies + FreshCopies <= n PROVE StaleCopies' + FreshCopies' <= n
    BY <1>1, <2>1, <2>2, Zenon
  <2>3. 4 \in Nat /\ 2 \in Nat
    OBVIOUS
  <2> QED
    BY <2>2, <2>3, Zenon DEF TokenInv
<1>5. phase # "closed" => \/ StaleCopies' <= 1
                          \/ phase = "response" /\ Ambiguous /\ StaleCopies' <= 2
  BY <1>1 DEF TokenInv
<1>6. phase = "ready" => FreshCopies' <= One(Shared) /\ OwnChunks' = 0 /\ current \notin Done
  BY <1>1, <1>3 DEF TokenInv
<1>7. phase = "ack" => /\ FreshCopies' + One(waiter' = "acked") <= tries + One(Ambiguous)
                       /\ OwnChunks' <= tries /\ tries <= Attempts
  BY <1>1, <1>2, <1>3 DEF TokenInv
<1>8. /\ phase = "response" => FreshCopies' = 0
      /\ Open /\ Late => StaleCopies' = 0
      /\ phase = "response" /\ Script[current] = "write" => StaleCopies' = 0
  BY <1>1 DEF TokenInv
<1> QED
  BY <1>2, <1>3, <1>4, <1>5, <1>6, <1>7, <1>8 DEF TokenInv

\* The caller transmits.
LEMMA CopyFacts ==
  ASSUME IInv, up' = Append(up, Chunk), down' = down, UNCHANGED <<current, txSequence>>
  PROVE  /\ FreshCopies' = FreshCopies + 1 /\ StaleCopies' = StaleCopies
         /\ OwnChunks' = OwnChunks + 1
<1>1. IsData(Chunk) /\ Chunk.seq = txSequence /\ Id(Chunk) = current
  BY DataKind, ChunkFacts, Zenon DEF Chunk, Id
<1>2. Is(Chunk, ChunksWith(txSequence)) /\ ~Is(Chunk, ChunksBut(txSequence))
      /\ Is(Chunk, ChunksOf(current))
  BY <1>1, KindFacts
<1>3. IsSeq(up) /\ IsSeq(down)
  BY DEF IInv, AirInv
<1>4. /\ Count(up', ChunksWith(txSequence)) = Count(up, ChunksWith(txSequence)) + 1
      /\ Count(up', ChunksBut(txSequence)) = Count(up, ChunksBut(txSequence))
      /\ Count(up', ChunksOf(current)) = Count(up, ChunksOf(current)) + 1
  BY <1>2, <1>3, AppendFacts
<1>5. \A kind : Count(up, kind) \in Nat /\ Count(down, kind) \in Nat
  BY <1>3, CountNat
<1> QED
  BY <1>4, <1>5 DEF FreshCopies, StaleCopies, OwnChunks

\* How many copies an open session leaves behind.
LEMMA EndBound ==
  ASSUME IInv, TokenInv, phase # "closed"
  PROVE  StaleCopies + FreshCopies <= 4 /\ (Late => StaleCopies + FreshCopies <= 2)
<1>1. FreshCopies \in Nat /\ StaleCopies \in Nat /\ tries \in 0..2 /\ Attempts \in 1..2
  BY TokenNat, AttemptsRange
<1>2. Late => ~Shared /\ ~Ambiguous
  BY DEF Late, Shared, Ambiguous
<1>3. /\ One(Shared) \in 0..1 /\ One(Ambiguous) \in 0..1 /\ One(waiter = "acked") \in 0..1
      /\ Late => One(Shared) = 0 /\ One(Ambiguous) = 0
  BY <1>2 DEF One
<1>4. phase \in {"ready", "ack", "response"} /\ StaleCopies <= 2
      /\ (Open => StaleCopies <= 1) /\ (Late => StaleCopies <= 1)
  BY <1>1, <1>2 DEF IInv, TypeOK, TokenInv, Open
<1>5. CASE phase = "ready"
  <2>1. FreshCopies <= One(Shared) /\ StaleCopies <= 1 /\ (Late => StaleCopies = 0)
    BY <1>4, <1>5 DEF TokenInv, Open
  <2> QED
    BY <1>1, <1>3, <1>5, <2>1
<1>6. CASE phase = "ack"
  <2>1. /\ FreshCopies + One(waiter = "acked") <= tries + One(Ambiguous) /\ tries <= Attempts
        /\ StaleCopies <= 1 /\ (Late => StaleCopies = 0)
    BY <1>4, <1>6 DEF TokenInv, Open
  <2> QED
    BY <1>1, <1>3, <1>6, <2>1
<1>7. CASE phase = "response"
  <2>1. FreshCopies = 0
    BY <1>7 DEF TokenInv
  <2> QED
    BY <1>1, <1>4, <1>7, <2>1
<1> QED
  BY <1>4, <1>5, <1>6, <1>7

LEMMA TokenAbort ==
  ASSUME IInv, current \in Requests, Abort,
         StaleCopies' + FreshCopies' <= 4, Late => StaleCopies' + FreshCopies' <= 2
  PROVE  TokenInv'
<1>1. phase' = "closed" /\ current' = current
  BY AbortFacts
<1>2. Late' => Late
  <2>1. outcome' = [outcome EXCEPT ![current] = "error"]
    BY DEF Abort, Settle
  <2>2. \A i \in Requests : i # current => outcome'[i] = outcome[i]
    BY <2>1, OutcomeFacts DEF Outcomes
  <2>3. current > 1 => current - 1 \in Requests /\ current - 1 # current
    BY Constants DEF Requests
  <2> QED
    BY <1>1, <2>2, <2>3 DEF Late
<1> QED
  BY <1>1, <1>2 DEF TokenInv, Open

\* The next request begins with the copies that its predecessor left.
LEMMA TokenSettle ==
  ASSUME IInv, LinkInv, TokenInv, current \in Requests,
         NEW result \in {"ok", "unacked", "unanswered"}, NEW place \in {"ready", "closed"},
         Settle(result, place), current' = current + 1,
         UNCHANGED <<txSequence, up, down, executed>>,
         result = "ok" => phase = "response" /\ current \in Done,
         result = "unacked" => phase = "ack" /\ Script[current] = "write",
         result = "unanswered" => phase = "response" /\ Script[current] = "write"
  PROVE  TokenInv'
<1>1. /\ phase' = place
      /\ outcome' = [outcome EXCEPT ![current] = result]
  BY DEF Settle
<1>2. outcome'[current] = result /\ result \in Outcomes
  BY <1>1, OutcomeFacts DEF Outcomes
<1>3. (current + 1) - 1 = current /\ current + 1 > 1 /\ current \in Nat
  BY Constants DEF Requests
<1>4. (Shared' <=> result = "unacked") /\ (Late' <=> result = "unanswered")
  BY <1>2, <1>3 DEF Shared, Late
<1>5. FreshCopies' = FreshCopies /\ StaleCopies' = StaleCopies
  BY DEF FreshCopies, StaleCopies
<1>6. FreshCopies \in Nat /\ StaleCopies \in Nat /\ tries \in 0..2
  BY TokenNat
<1>7. Done' = Done /\ current + 1 \notin Done
  <2>1. \A e \in Done : e \in Nat /\ e <= current
    BY DEF LinkInv, NumberInv, Requests
  <2>2. current + 1 \notin Done
    BY <1>3, <2>1
  <2> QED
    BY <2>2 DEF Done
<1>8. OwnChunks' = 0
  <2>1. IsSeq(up)
    BY DEF IInv, AirInv
  <2>2. \A m \in Elems(up) : IsData(m) => Id(m) \in Nat /\ Id(m) <= current
    BY DEF LinkInv, ChunkInv, Requests
  <2>3. \A m \in Elems(up) : ~Is(m, ChunksOf(current + 1))
    BY <1>3, <2>2, KindFacts
  <2> QED
    BY <2>1, <2>3, CountSome DEF OwnChunks
<1>9. CASE result = "ok"
  <2>1. FreshCopies = 0 /\ StaleCopies <= 1
    BY <1>9 DEF TokenInv, Ambiguous
  <2> QED
    BY <1>1, <1>4, <1>5, <1>6, <1>7, <1>8, <1>9, <2>1 DEF TokenInv, One, Open
<1>10. CASE result = "unanswered"
  <2>1. FreshCopies = 0 /\ StaleCopies = 0
    BY <1>10 DEF TokenInv
  <2> QED
    BY <1>1, <1>4, <1>5, <1>6, <1>7, <1>8, <1>10, <2>1 DEF TokenInv, One, Open
<1>11. CASE result = "unacked"
  <2>1. ~Ambiguous /\ Attempts = 1
    BY <1>11, WriteUnshared, AttemptsRange DEF Ambiguous
  <2>2. One(Ambiguous) = 0 /\ One(waiter = "acked") \in 0..1
    BY <2>1 DEF One
  <2>3. FreshCopies + One(waiter = "acked") <= tries + One(Ambiguous) /\ tries <= Attempts
        /\ StaleCopies <= 1
    BY <1>11 DEF TokenInv
  <2>4. FreshCopies <= 1
    BY <1>6, <2>1, <2>2, <2>3
  <2> QED
    BY <1>1, <1>4, <1>5, <1>6, <1>7, <1>8, <1>11, <2>3, <2>4 DEF TokenInv, One, Open
<1> QED
  BY <1>9, <1>10, <1>11

LEMMA TokenTimedOut ==
  ASSUME IInv, LinkInv, TokenInv, current \in Requests, NEW result, TimedOut(result),
         UNCHANGED <<txSequence, up, down, executed>>,
         \/ result = "unacked" /\ phase = "ack"
         \/ result = "unanswered" /\ phase = "response"
  PROVE  TokenInv'
<1>1. CASE Script[current] = "write"
  <2>1. Settle(result, "ready") /\ current' = current + 1
    BY <1>1 DEF TimedOut
  <2> QED
    BY <1>1, <2>1, TokenSettle
<1>2. CASE Script[current] # "write"
  <2>1. Abort
    BY <1>2 DEF TimedOut
  <2>2. current' = current /\ FreshCopies' = FreshCopies /\ StaleCopies' = StaleCopies
    BY <2>1 DEF Abort, FreshCopies, StaleCopies
  <2>3. StaleCopies' + FreshCopies' <= 4 /\ (Late => StaleCopies' + FreshCopies' <= 2)
    BY <2>2, EndBound
  <2> QED
    BY <2>1, <2>3, TokenAbort
<1> QED
  BY <1>1, <1>2

\* The ACK is credited: what was current is now left over, less the copy that was
\* acknowledged.
LEMMA TokenAcknowledged == ASSUME IInv, LinkInv, TokenInv, Acknowledged PROVE TokenInv'
<1>0. /\ phase = "ack" /\ waiter = "acked" /\ phase' = "response"
      /\ txSequence' = NextSequence(txSequence)
      /\ UNCHANGED <<current, outcome, executed, up, down>> /\ current \in Requests
  BY DEF Acknowledged, shadeVars, IInv, TriesInv
<1>1. NextSequence(txSequence) # txSequence
  BY NextNumber DEF IInv, TypeOK, Numbers
<1>2. /\ \A m \in Elems(up) : IsData(m) => m.seq = txSequence
      /\ \A m \in Elems(down) : ~IsData(m) => m.seq = txSequence
  BY <1>0 DEF LinkInv, NumberInv, OnlyFresh, Fresh
<1>3. IsSeq(up) /\ IsSeq(down)
  BY DEF IInv, AirInv
<1>4. Count(up, ChunksWith(txSequence')) = 0 /\ Count(down, AcksWith(txSequence')) = 0
  <2>1. \A m \in Elems(up) : ~Is(m, ChunksWith(txSequence'))
    BY <1>0, <1>1, <1>2, KindFacts
  <2>2. \A m \in Elems(down) : ~Is(m, AcksWith(txSequence'))
    BY <1>0, <1>1, <1>2, KindFacts
  <2> QED
    BY <1>3, <2>1, <2>2, CountSome
<1>5. /\ Count(up, ChunksBut(txSequence')) <= Count(up, ChunksWith(txSequence))
      /\ Count(down, AcksBut(txSequence')) <= Count(down, AcksWith(txSequence))
  <2>1. \A m \in Elems(up) : Is(m, ChunksBut(txSequence')) => Is(m, ChunksWith(txSequence))
    BY <1>2, KindFacts
  <2>2. \A m \in Elems(down) : Is(m, AcksBut(txSequence')) => Is(m, AcksWith(txSequence))
    BY <1>2, KindFacts
  <2> QED
    BY <1>3, <2>1, <2>2, CountCover
<1>6. \A kind : Count(up, kind) \in Nat /\ Count(down, kind) \in Nat
  BY <1>3, CountNat
<1>7. FreshCopies' = 0 /\ StaleCopies' <= FreshCopies /\ StaleCopies' \in Nat
  BY <1>0, <1>4, <1>5, <1>6 DEF FreshCopies, StaleCopies
<1>8. Ambiguous' <=> Ambiguous
  BY <1>0 DEF Ambiguous, Shared, Done
<1>9. /\ FreshCopies + 1 <= tries + One(Ambiguous) /\ tries <= Attempts
  BY <1>0 DEF TokenInv, One
<1>10. /\ One(Ambiguous) \in 0..1 /\ Attempts \in 1..2
       /\ ~Ambiguous => One(Ambiguous) = 0
       /\ Script[current] = "write" => Attempts = 1 /\ One(Ambiguous) = 0
  BY <1>0, AttemptsRange, WriteUnshared DEF One, Ambiguous
<1>11. FreshCopies \in Nat /\ tries \in 0..2
  BY TokenNat
<1>12. /\ StaleCopies' <= 1 \/ (Ambiguous /\ StaleCopies' <= 2)
       /\ Script[current] = "write" => StaleCopies' = 0
  BY <1>7, <1>9, <1>10, <1>11
<1> QED
  BY <1>0, <1>7, <1>8, <1>12 DEF TokenInv, Open

LEMMA CallerToken == ASSUME IInv, LinkInv, PartInv, TokenInv, Caller PROVE TokenInv'
<1>0. /\ phase # "closed" => current \in Requests
      /\ phase = "ready" => tries = 0
      /\ tries \in 0..2 /\ FreshCopies \in Nat /\ OwnChunks \in Nat /\ StaleCopies \in Nat
      /\ Attempts \in 1..2
  BY TokenNat, AttemptsRange DEF IInv, TriesInv
<1>1. ASSUME phase # "closed", Abort, UNCHANGED <<txSequence, up, down>> PROVE TokenInv'
  <2>1. current' = current /\ current \in Requests
    BY <1>0, <1>1 DEF Abort
  <2>2. FreshCopies' = FreshCopies /\ StaleCopies' = StaleCopies
    BY <1>1 DEF FreshCopies, StaleCopies
  <2>3. StaleCopies' + FreshCopies' <= 4 /\ (Late => StaleCopies' + FreshCopies' <= 2)
    BY <1>1, <2>2, EndBound
  <2> QED
    BY <1>1, <2>1, <2>3, TokenAbort
<1>2. ASSUME Open, up' = Append(up, Chunk), phase' = "ack", waiter' = "pending",
             tries' = tries + 1, tries + 1 <= Attempts,
             UNCHANGED <<current, outcome, txSequence, executed, down>>
      PROVE  TokenInv'
  <2>1. /\ FreshCopies' = FreshCopies + 1 /\ StaleCopies' = StaleCopies
        /\ OwnChunks' = OwnChunks + 1
    BY <1>2, CopyFacts
  <2>2. /\ Ambiguous' <=> Ambiguous
        /\ Late' <=> Late
        /\ Attempts' = Attempts
    BY <1>2 DEF Ambiguous, Shared, Done, Late, Attempts
  <2>3. /\ One(Ambiguous') = One(Ambiguous) /\ One(Ambiguous) \in 0..1 /\ One(FALSE) = 0
        /\ current \notin Done => One(Ambiguous) = One(Shared)
    BY <2>2 DEF One, Ambiguous
  <2>4. FreshCopies <= tries + One(Ambiguous) /\ OwnChunks <= tries
    <3>1. CASE phase = "ready"
      <4>1. FreshCopies <= One(Shared) /\ OwnChunks = 0 /\ current \notin Done
        BY <3>1 DEF TokenInv
      <4> QED
        BY <1>0, <2>3, <3>1, <4>1
    <3>2. CASE phase = "ack"
      <4>1. FreshCopies + One(waiter = "acked") <= tries + One(Ambiguous) /\ OwnChunks <= tries
        BY <3>2 DEF TokenInv
      <4>2. One(waiter = "acked") \in 0..1
        BY DEF One
      <4> QED
        BY <1>0, <2>3, <4>1, <4>2
    <3> QED
      BY <1>2, <3>1, <3>2 DEF Open
  <2>5. FreshCopies' + One(waiter' = "acked") <= tries' + One(Ambiguous')
        /\ OwnChunks' <= tries' /\ tries' <= Attempts'
    <3>1. One(waiter' = "acked") = 0
      BY <1>2 DEF One
    <3> QED
      BY <1>0, <1>2, <2>1, <2>2, <2>3, <2>4, <3>1
  <2>6. StaleCopies <= 1 /\ (Late => StaleCopies = 0)
    BY <1>2 DEF TokenInv, Open
  <2> QED
    BY <1>2, <2>1, <2>2, <2>5, <2>6 DEF TokenInv
<1>3. CASE RefuseStale
  BY <1>1, <1>3 DEF RefuseStale
<1>4. CASE SendChunk
  <2>1. tries = 0 /\ phase = "ready" /\ Open
    BY <1>0, <1>4 DEF SendChunk, Open
  <2>2. tries + 1 <= Attempts
    BY <1>0, <2>1
  <2> QED
    BY <1>2, <1>4, <2>1, <2>2 DEF SendChunk, Transmit, Chunk, shadeVars
<1>5. CASE SendFails
  BY <1>1, <1>5 DEF SendFails
<1>6. CASE Acknowledged
  BY <1>6, TokenAcknowledged
<1>7. CASE AckFails
  BY <1>1, <1>7 DEF AckFails
<1>8. CASE AckTimeout
  <2>1. phase = "ack" /\ current \in Requests /\ UNCHANGED <<txSequence, down, executed>>
    BY <1>0, <1>8 DEF AckTimeout, TimeoutRaised, shadeVars
  <2>2. CASE tries < Attempts
    <3>1. Transmit /\ UNCHANGED <<current, outcome, phase>>
      BY <1>8, <2>2 DEF AckTimeout
    <3>2. tries + 1 <= Attempts
      BY <1>0, <2>2
    <3> QED
      BY <1>2, <2>1, <3>1, <3>2 DEF Transmit, Chunk, Open
  <2>3. CASE ~(tries < Attempts)
    <3>1. TimedOut("unacked") /\ up' = up
      BY <1>8, <2>3 DEF AckTimeout
    <3> QED
      BY <2>1, <3>1, TokenTimedOut
  <2> QED
    BY <2>2, <2>3
<1>9. CASE TakeResponse
  <2>1. /\ phase = "response" /\ responses # <<>> /\ current \in Requests
        /\ UNCHANGED <<txSequence, up, down, executed>>
    BY <1>0, <1>9 DEF TakeResponse, shadeVars
  <2>2. CASE Abort
    BY <1>1, <2>1, <2>2
  <2>3. CASE /\ Accepted(Head(responses)) /\ current' = current + 1
             /\ Settle("ok", IF current = Len(Script) THEN "closed" ELSE "ready")
    <3>1. current \in Done
      BY <2>1, <2>3, AcceptedDone
    <3>2. PICK place \in {"ready", "closed"} : Settle("ok", place)
      BY <2>3
    <3> QED
      BY <2>1, <2>3, <3>1, <3>2, TokenSettle
  <2> QED
    BY <1>9, <2>2, <2>3 DEF TakeResponse
<1>10. CASE ResponseTimeout
  <2>1. /\ phase = "response" /\ current \in Requests /\ TimedOut("unanswered")
        /\ UNCHANGED <<txSequence, up, down, executed>>
    BY <1>0, <1>10 DEF ResponseTimeout, shadeVars
  <2> QED
    BY <2>1, TokenTimedOut
<1>11. CASE WriteReturns
  <2>1. UNCHANGED <<current, outcome, phase, tries, txSequence, waiter, up, down, executed>>
    BY <1>11 DEF WriteReturns, shadeVars
  <2> QED
    BY <2>1 DEF TokenInv, FreshCopies, StaleCopies, OwnChunks, Late, Ambiguous, Shared, Done,
       Open, Attempts
<1> QED
  BY <1>3, <1>4, <1>5, <1>6, <1>7, <1>8, <1>9, <1>10, <1>11 DEF Caller

\* A queue loses its first message, or gets one that is no copy.
LEMMA FewerCopies ==
  ASSUME IInv, UNCHANGED callerVars,
         \/ up' = up \/ (up # <<>> /\ up' = Tail(up))
         \/ \E q : up' = Append(up, Ack(q)),
         \/ down' = down \/ (down # <<>> /\ down' = Tail(down))
         \/ \E q, part, last : down' = Append(down, Data(q, part, last))
  PROVE  /\ StaleCopies' <= StaleCopies /\ OwnChunks' <= OwnChunks
         /\ FreshCopies' <= FreshCopies
<1>0. IsSeq(up) /\ IsSeq(down) /\ txSequence' = txSequence /\ current' = current
  BY DEF IInv, AirInv, callerVars
<1>1. ASSUME NEW kind, \A q : ~Is(Ack(q), kind)
      PROVE  Count(up, kind) \in Nat /\ Count(up', kind) \in Nat
             /\ Count(up', kind) <= Count(up, kind)
  <2>1. CASE up' = up \/ (up # <<>> /\ up' = Tail(up))
    BY <1>0, <2>1, ShorterFacts
  <2>2. CASE \E q : up' = Append(up, Ack(q))
    <3>1. Count(up, kind) \in Nat /\ Count(up', kind) = Count(up, kind)
      BY <1>0, <1>1, <2>2, AppendFacts
    <3> QED
      BY <3>1
  <2> QED
    BY <2>1, <2>2
<1>2. ASSUME NEW kind, \A q, part, last : ~Is(Data(q, part, last), kind)
      PROVE  Count(down, kind) \in Nat /\ Count(down', kind) \in Nat
             /\ Count(down', kind) <= Count(down, kind)
  <2>1. CASE down' = down \/ (down # <<>> /\ down' = Tail(down))
    BY <1>0, <2>1, ShorterFacts
  <2>2. CASE \E q, part, last : down' = Append(down, Data(q, part, last))
    <3>1. Count(down, kind) \in Nat /\ Count(down', kind) = Count(down, kind)
      BY <1>0, <1>2, <2>2, AppendFacts
    <3> QED
      BY <3>1
  <2> QED
    BY <2>1, <2>2
<1>3. ASSUME NEW q
      PROVE  /\ ~Is(Ack(q), ChunksWith(txSequence)) /\ ~Is(Ack(q), ChunksBut(txSequence))
             /\ ~Is(Ack(q), ChunksOf(current))
  BY AckKind, KindFacts
<1>4. ASSUME NEW q, NEW part, NEW last
      PROVE  /\ ~Is(Data(q, part, last), AcksWith(txSequence))
             /\ ~Is(Data(q, part, last), AcksBut(txSequence))
  BY DataKind, KindFacts
<1>5. /\ Count(up', ChunksWith(txSequence)) <= Count(up, ChunksWith(txSequence))
      /\ Count(up', ChunksBut(txSequence)) <= Count(up, ChunksBut(txSequence))
      /\ Count(up', ChunksOf(current)) <= Count(up, ChunksOf(current))
      /\ Count(down', AcksWith(txSequence)) <= Count(down, AcksWith(txSequence))
      /\ Count(down', AcksBut(txSequence)) <= Count(down, AcksBut(txSequence))
  BY <1>1, <1>2, <1>3, <1>4
<1>6. /\ Count(up', ChunksWith(txSequence)) \in Nat /\ Count(up, ChunksWith(txSequence)) \in Nat
      /\ Count(up', ChunksBut(txSequence)) \in Nat /\ Count(up, ChunksBut(txSequence)) \in Nat
      /\ Count(down', AcksWith(txSequence)) \in Nat /\ Count(down, AcksWith(txSequence)) \in Nat
      /\ Count(down', AcksBut(txSequence)) \in Nat /\ Count(down, AcksBut(txSequence)) \in Nat
  BY <1>1, <1>2, <1>3, <1>4
<1> QED
  BY <1>0, <1>5, <1>6 DEF StaleCopies, FreshCopies, OwnChunks

LEMMA WorkerToken == ASSUME IInv, IInv', TokenInv, Worker PROVE TokenInv'
<1>0. /\ IsSeq(down) /\ UNCHANGED callerVars /\ Done' = Done /\ FreshCopies \in Nat
      /\ FreshCopies' \in Nat
  <2>1. UNCHANGED callerVars /\ UNCHANGED executed
    BY DEF Worker, WorkerTakesAck, WorkerTakesChunk, WorkerRefusesChunk, WorkerAcks,
       WorkerAckFails, shadeVars
  <2>2. IsSeq(down) /\ IsSeq(up') /\ IsSeq(down')
    BY DEF IInv, AirInv
  <2>3. \A kind : Count(up', kind) \in Nat /\ Count(down', kind) \in Nat
    BY <2>2, CountNat
  <2> QED
    BY <2>1, <2>2, <2>3, TokenNat DEF Done, FreshCopies
<1>1. ASSUME waiter' = waiter \/ waiter' # "acked",
             \/ up' = up
             \/ \E q : up' = Append(up, Ack(q)),
             down' = down \/ (down # <<>> /\ down' = Tail(down))
      PROVE  TokenInv'
  <2>1. /\ StaleCopies' <= StaleCopies /\ OwnChunks' <= OwnChunks
        /\ FreshCopies' <= FreshCopies
    BY <1>0, <1>1, FewerCopies
  <2>2. /\ One(waiter' = "acked") \in 0..1 /\ One(waiter = "acked") \in 0..1
        /\ One(waiter' = "acked") <= One(waiter = "acked")
    BY <1>1 DEF One
  <2>3. FreshCopies' + One(waiter' = "acked") <= FreshCopies + One(waiter = "acked")
    BY <1>0, <2>1, <2>2
  <2> QED
    BY <1>0, <2>1, <2>3, TokenStep
<1>2. CASE WorkerTakesAck
  <2>1. /\ down # <<>> /\ down' = Tail(down) /\ up' = up /\ ~IsData(Head(down))
    BY <1>2 DEF WorkerTakesAck, Working, IsData
  <2>2. CASE waiter' = waiter
    BY <1>1, <2>1, <2>2
  <2>3. CASE waiter' # waiter
    <3>1. waiter = "pending" /\ waiter' = "acked" /\ Head(down).seq = txSequence
      BY <1>2, <2>3 DEF WorkerTakesAck
    <3>2. Count(down, AcksWith(txSequence)) = Count(down', AcksWith(txSequence)) + 1
      BY <1>0, <2>1, <3>1, CountTail, KindFacts
    <3>3. txSequence' = txSequence
      BY <1>0 DEF callerVars
    <3>4. \A kind : Count(up, kind) \in Nat /\ Count(down', kind) \in Nat
      <4>1. IsSeq(up) /\ IsSeq(down')
        BY DEF IInv, AirInv
      <4> QED
        BY <4>1, CountNat
    <3>5. FreshCopies' + 1 = FreshCopies
      BY <2>1, <3>2, <3>3, <3>4 DEF FreshCopies
    <3>6. One(waiter' = "acked") = 1 /\ One(waiter = "acked") = 0
      BY <3>1 DEF One
    <3>7. FreshCopies' + One(waiter' = "acked") <= FreshCopies + One(waiter = "acked")
      <4>1. ASSUME NEW a \in Nat, NEW b \in Nat, a + 1 = b PROVE a + 1 <= b + 0
        BY <4>1
      <4> QED
        BY <1>0, <3>5, <3>6, <4>1, Zenon
    <3>8. /\ StaleCopies' <= StaleCopies /\ OwnChunks' <= OwnChunks
          /\ FreshCopies' <= FreshCopies
      BY <1>0, <2>1, FewerCopies
    <3> QED
      BY <1>0, <3>7, <3>8, TokenStep
  <2> QED
    BY <2>2, <2>3
<1>3. CASE WorkerTakesChunk
  BY <1>1, <1>3 DEF WorkerTakesChunk, Working
<1>4. CASE WorkerRefusesChunk
  BY <1>1, <1>4 DEF WorkerRefusesChunk, Working, Fail
<1>5. CASE WorkerAcks
  BY <1>1, <1>5 DEF WorkerAcks, Fail
<1>6. CASE WorkerAckFails
  BY <1>1, <1>6 DEF WorkerAckFails, Fail
<1> QED
  BY <1>2, <1>3, <1>4, <1>5, <1>6 DEF Worker

\* A chunk that the shade takes turns into its ACK.
LEMMA TakenCopies ==
  ASSUME IInv, ShadeTakesChunk
  PROVE  /\ FreshCopies' = FreshCopies /\ StaleCopies' = StaleCopies /\ OwnChunks' <= OwnChunks
<1> DEFINE head == Head(up)
           ack  == Ack(Head(up).seq)
<1>0. /\ up # <<>> /\ IsData(head) /\ up' = Tail(up) /\ down' = Append(down, ack)
      /\ txSequence' = txSequence /\ current' = current /\ IsSeq(up) /\ IsSeq(down)
  BY DEF ShadeTakesChunk, callerVars, IsData, IInv, AirInv
<1>1. ~IsData(ack) /\ ack.seq = head.seq
  BY AckKind DEF Ack
<1>2. /\ Is(head, ChunksWith(txSequence)) <=> Is(ack, AcksWith(txSequence))
      /\ Is(head, ChunksBut(txSequence)) <=> Is(ack, AcksBut(txSequence))
  BY <1>0, <1>1, KindFacts
<1>3. /\ \A kind : Count(up, kind) \in Nat /\ Count(down, kind) \in Nat /\ Count(up', kind) \in Nat
                   /\ Count(up', kind) <= Count(up, kind)
  BY <1>0, ShorterFacts, CountNat
<1> HIDE DEF head, ack
<1>4. ASSUME NEW kind, NEW other, Is(head, kind) <=> Is(ack, other)
      PROVE  Count(up', kind) + Count(down', other) = Count(up, kind) + Count(down, other)
  <2>1. /\ Is(head, kind) => Count(up, kind) = Count(up', kind) + 1
        /\ ~Is(head, kind) => Count(up, kind) = Count(up', kind)
    BY <1>0, CountTail DEF head
  <2>2. /\ Is(ack, other) => Count(down', other) = Count(down, other) + 1
        /\ ~Is(ack, other) => Count(down', other) = Count(down, other)
    BY <1>0, CountAppend
  <2>3. Count(up, kind) \in Nat /\ Count(up', kind) \in Nat /\ Count(down, other) \in Nat
    BY <1>3
  <2> QED
    BY <1>4, <2>1, <2>2, <2>3
<1>5. FreshCopies' = FreshCopies /\ StaleCopies' = StaleCopies
  BY <1>0, <1>2, <1>4 DEF FreshCopies, StaleCopies
<1> QED
  BY <1>0, <1>3, <1>5 DEF OwnChunks

\* The shade carries out the current request although the write before has the same
\* number: everything under way belongs to the current one then.
LEMMA OwnCopies ==
  ASSUME IInv, LinkInv, TokenInv, phase = "ack", ShadeTakesChunk,
         Head(up).seq = shade.expected, Id(Head(up)) = current
  PROVE  FreshCopies <= tries /\ waiter # "acked"
<1>0. IsSeq(up) /\ IsSeq(down) /\ current \in Requests /\ Untaken
  BY ExecuteStep DEF IInv, AirInv, TriesInv
<1>1. /\ \A m \in Elems(down) : ~IsData(m) => ~Fresh(m)
      /\ waiter # "acked"
  BY <1>0 DEF LinkInv, AckInv, NumberInv
<1>2. Count(down, AcksWith(txSequence)) = 0
  <2>1. \A m \in Elems(down) : ~Is(m, AcksWith(txSequence))
    BY <1>1, KindFacts DEF Fresh
  <2> QED
    BY <1>0, <2>1, CountSome
<1>3. \A m \in Elems(up) : IsData(m) => Id(m) = current
  <2> SUFFICES ASSUME NEW m \in Elems(up), IsData(m) PROVE Id(m) = current
    OBVIOUS
  <2>1. Id(m) \in Nat /\ Id(m) <= current /\ current \in Nat
    BY <1>0 DEF LinkInv, ChunkInv, Requests
  <2>2. m = Head(up) \/ m \in Elems(up')
    <3>1. PICK S : up \in Seq(S)
      BY <1>0 DEF IsSeq
    <3>2. up # <<>> /\ up' = Tail(up)
      BY DEF ShadeTakesChunk
    <3>3. /\ Len(up) \in Nat \ {0} /\ Len(up') = Len(up) - 1 /\ Head(up) = up[1]
          /\ \A i \in 1..(Len(up) - 1) : up'[i] = up[i + 1]
      BY <3>1, <3>2
    <3>4. PICK i \in 1..Len(up) : m = up[i]
      BY DEF Elems
    <3>5. i # 1 => i - 1 \in 1..Len(up') /\ (i - 1) + 1 = i /\ up'[i - 1] = up[(i - 1) + 1]
      BY <3>3
    <3> QED
      BY <3>3, <3>4, <3>5 DEF Elems
  <2>3. m \in Elems(up') => current <= Id(m)
    BY TakenFacts
  <2> QED
    BY <2>1, <2>2, <2>3
<1>4. Count(up, ChunksWith(txSequence)) <= OwnChunks
  <2>1. \A m \in Elems(up) : Is(m, ChunksWith(txSequence)) => Is(m, ChunksOf(current))
    BY <1>3, KindFacts
  <2> QED
    BY <1>0, <2>1, CountCover DEF OwnChunks
<1>5. OwnChunks <= tries /\ OwnChunks \in Nat /\ tries \in 0..2
      /\ Count(up, ChunksWith(txSequence)) \in Nat
  BY <1>0, TokenNat, CountNat DEF TokenInv
<1> QED
  BY <1>1, <1>2, <1>4, <1>5 DEF FreshCopies

LEMMA TokenExecute ==
  ASSUME IInv, LinkInv, TokenInv, ShadeTakesChunk, Head(up).seq = shade.expected
  PROVE  TokenInv'
<1> DEFINE r == Id(Head(up))
<1>0. /\ UNCHANGED <<current, outcome, phase, tries, waiter>> /\ phase # "response"
      /\ Done' = Done \cup {r} /\ Head(up) \in Elems(up) /\ IsData(Head(up)) /\ IsSeq(up)
      /\ phase # "closed" => current \in Requests
  BY ExecuteStep, TakenFacts DEF ShadeTakesChunk, callerVars, IInv, AirInv, TriesInv
<1>1. /\ FreshCopies' = FreshCopies /\ StaleCopies' = StaleCopies /\ OwnChunks' <= OwnChunks
      /\ OwnChunks \in Nat /\ OwnChunks' \in Nat /\ FreshCopies \in Nat /\ StaleCopies \in Nat
      /\ tries \in 0..2
  <2>1. IsSeq(up')
    BY <1>0, TailSeq DEF ShadeTakesChunk
  <2> QED
    BY <2>1, TakenCopies, TokenNat, CountNat DEF OwnChunks
<1> HIDE DEF r
<1>2. (Shared' <=> Shared) /\ (Late' <=> Late) /\ Attempts' = Attempts
  BY <1>0 DEF Shared, Late, Attempts
<1>3. phase = "ready" => r # current
  <2>1. OwnChunks = 0 => ~Is(Head(up), ChunksOf(current))
    BY <1>0, CountSome DEF OwnChunks
  <2> QED
    BY <1>0, <2>1, KindFacts DEF TokenInv, r
<1>4. CASE phase = "closed"
  BY <1>0, <1>1, <1>2, <1>4 DEF TokenInv, Open
<1>5. CASE phase = "ready"
  <2>1. FreshCopies <= One(Shared) /\ OwnChunks = 0 /\ current \notin Done'
        /\ StaleCopies <= 1 /\ (Late => StaleCopies = 0)
    BY <1>0, <1>3, <1>5 DEF TokenInv, Open
  <2>2. One(Shared') = One(Shared) /\ OwnChunks' = 0
    BY <1>1, <1>2, <2>1 DEF One
  <2> QED
    BY <1>0, <1>1, <1>2, <1>5, <2>1, <2>2 DEF TokenInv
<1>6. CASE phase = "ack"
  <2>1. /\ FreshCopies + One(waiter = "acked") <= tries + One(Ambiguous)
        /\ OwnChunks <= tries /\ tries <= Attempts
        /\ StaleCopies <= 1 /\ (Late => StaleCopies = 0)
    BY <1>6 DEF TokenInv, Open
  <2>2. OwnChunks' <= tries
    BY <1>1, <2>1
  <2>3. FreshCopies + One(waiter = "acked") <= tries + One(Ambiguous')
    <3>1. CASE r = current
      <4>1. FreshCopies <= tries /\ waiter # "acked"
        BY <1>6, <3>1, OwnCopies DEF r
      <4>2. One(waiter = "acked") = 0 /\ One(Ambiguous') \in 0..1
        BY <4>1 DEF One
      <4> QED
        BY <1>1, <4>1, <4>2
    <3>2. CASE r # current
      <4>1. Ambiguous' <=> Ambiguous
        BY <1>0, <1>2, <3>2 DEF Ambiguous
      <4>2. One(Ambiguous') = One(Ambiguous)
        BY <4>1 DEF One
      <4> QED
        BY <2>1, <4>2
    <3> QED
      BY <3>1, <3>2
  <2> QED
    BY <1>0, <1>1, <1>2, <1>6, <2>1, <2>2, <2>3 DEF TokenInv
<1> QED
  BY <1>0, <1>4, <1>5, <1>6 DEF IInv, TypeOK

LEMMA NextToken ==
  ASSUME IInv, IInv', LinkInv, PartInv, TokenInv, [Next]_vars PROVE TokenInv'
<1>1. CASE Caller
  BY <1>1, CallerToken
<1>2. CASE Worker
  BY <1>2, WorkerToken
<1>3. ASSUME UNCHANGED callerVars, waiter' = waiter, executed' = executed,
             StaleCopies' <= StaleCopies, OwnChunks' <= OwnChunks, FreshCopies' <= FreshCopies
      PROVE  TokenInv'
  <2>1. Done' = Done
    BY <1>3 DEF Done
  <2>2. FreshCopies \in Nat /\ FreshCopies' \in Nat
    <3>1. IsSeq(up') /\ IsSeq(down')
      BY DEF IInv, AirInv
    <3>2. \A kind : Count(up', kind) \in Nat /\ Count(down', kind) \in Nat
      BY <3>1, CountNat
    <3> QED
      BY <3>2, TokenNat DEF FreshCopies
  <2>3. One(waiter' = "acked") = One(waiter = "acked") /\ One(waiter = "acked") \in 0..1
    BY <1>3 DEF One
  <2>4. FreshCopies' + One(waiter' = "acked") <= FreshCopies + One(waiter = "acked")
    BY <1>3, <2>2, <2>3
  <2> QED
    BY <1>3, <2>1, <2>4, TokenStep
<1>4. CASE ShadeTakesChunk
  <2>1. CASE Head(up).seq = shade.expected
    BY <1>4, <2>1, TokenExecute
  <2>2. CASE Head(up).seq # shade.expected
    <3>1. UNCHANGED callerVars /\ waiter' = waiter /\ executed' = executed
      BY <1>4, <2>2 DEF ShadeTakesChunk, shadeVars
    <3>2. FreshCopies \in Nat /\ StaleCopies \in Nat
      BY TokenNat
    <3> QED
      BY <1>3, <1>4, <3>1, <3>2, TakenCopies
  <2> QED
    BY <2>1, <2>2
<1>5. CASE ShadeEmits
  BY <1>3, <1>5, FewerCopies DEF ShadeEmits
<1>6. CASE ShadeTakesAck
  BY <1>3, <1>6, FewerCopies DEF ShadeTakesAck
<1>7. CASE ShadeGivesUp
  BY <1>3, <1>7, FewerCopies DEF ShadeGivesUp
<1>8. CASE Lose
  BY <1>3, <1>8, FewerCopies DEF Lose, shadeVars
<1>9. CASE UNCHANGED vars
  BY <1>3, <1>9, FewerCopies DEF vars, shadeVars
<1> QED
  BY <1>1, <1>2, <1>4, <1>5, <1>6, <1>7, <1>8, <1>9 DEF Next, Shade

-----------------------------------------------------------------------------
\* The chunks of responses, from the shade's emission to the response queue.

\* The chunks that the shade has still to send of the response under way.
Rest ==
    IF shade.state = Emits THEN Len(shade.frame)
    ELSE IF shade.state = Awaits THEN Len(shade.frame) - 1 ELSE 0

\* The caller would find a frame, and no error.
Whole == phase # "closed" /\ responses # <<>> /\ "frame" \in DOMAIN Head(responses)

\* What is under way: frames and errors for the caller, and whether a frame comes first;
\* response chunks, and those that end their frame; whether a chunk is being
\* acknowledged, and one that ends its frame; ACKs for the shade; whether the shade
\* emits, and what it has still to send.
Tally ==
    [waiting  |-> Len(responses),
     whole    |-> One(Whole),
     flying   |-> Count(down, AllChunks),
     ending   |-> Count(down, LastChunks),
     held     |-> One(acking # NoAck),
     closing  |-> One(acking.frame # <<>>),
     acking   |-> Count(up, AllAcks),
     emitting |-> One(shade.state = Emits),
     rest     |-> Rest]

Tallies ==
    {t \in [waiting : Nat, whole : 0..1, flying : Nat, ending : Nat, held : 0..1,
            closing : 0..1, acking : 0..1, emitting : 0..1, rest : Nat] :
        /\ t.acking + t.held <= 1 /\ t.closing <= t.held /\ t.whole <= t.waiting
        /\ t.ending <= t.flying /\ t.emitting <= t.rest}

\* The places in the response queue that are taken or can still be asked for: a chunk
\* ends as a frame, as part of one or as an error.
Load(t) == t.waiting + t.flying + t.held + t.rest

\* Where a next chunk can come from.
Threads(t) == t.emitting + t.flying + t.held + t.acking

\* One response is under way, one chunk after the other; nothing follows its last one.
SingleSum(t) ==
    /\ Threads(t) <= 1
    /\ t.ending + t.closing > 0 => t.rest = 0
    /\ t.whole = 1 => Load(t) <= 1

DoubleSum(t) == Threads(t) <= 2

Kept(s, t) ==
    /\ Load(t) <= Load(s)
    /\ SingleSum(s) => SingleSum(t)
    /\ DoubleSum(s) => DoubleSum(t)

NoMore(b, a) == b = a \/ b <= a

LEMMA LoadNat == ASSUME NEW t \in Tallies PROVE Load(t) \in Nat
  BY DEF Tallies, Load

LEMMA EmptyLoad ==
  ASSUME NEW t \in Tallies, Load(t) = 0 PROVE t.waiting = 0 /\ t.flying = 0 /\ t.held = 0
<1>1. ASSUME NEW a \in Nat, NEW b \in Nat, NEW c \in Nat, NEW d \in Nat, a + b + c + d = 0
      PROVE  a = 0 /\ b = 0 /\ c = 0
  BY <1>1
<1>2. t.waiting \in Nat /\ t.flying \in Nat /\ t.held \in Nat /\ t.rest \in Nat
  BY DEF Tallies
<1>3. t.waiting + t.flying + t.held + t.rest = 0
  BY DEF Load
<1> QED
  BY <1>1, <1>2, <1>3, Zenon

LEMMA Transitive ==
  ASSUME NEW a \in Nat, NEW b \in Nat, NEW c \in Nat, a <= b, b <= c PROVE a <= c
  OBVIOUS

\* What the steps do to these sums.  Nothing is added:
LEMMA LessSum ==
  ASSUME NEW s \in Tallies, NEW t \in Tallies,
         NoMore(t.waiting, s.waiting), NoMore(t.whole, s.whole),
         NoMore(t.flying, s.flying), NoMore(t.ending, s.ending),
         NoMore(t.acking, s.acking), NoMore(t.emitting, s.emitting), NoMore(t.rest, s.rest),
         t.held = s.held, t.closing = s.closing
  PROVE  Kept(s, t)
<1>1. /\ t.waiting <= s.waiting /\ t.emitting <= s.emitting /\ t.flying <= s.flying
      /\ t.ending <= s.ending /\ t.acking <= s.acking /\ t.rest <= s.rest
      /\ t.whole <= s.whole
  BY DEF NoMore, Tallies
<1>2. Load(t) <= Load(s) /\ Threads(t) <= Threads(s) /\ Load(s) \in Nat /\ Load(t) \in Nat
      /\ Threads(s) \in Nat /\ Threads(t) \in Nat
  BY <1>1 DEF Tallies, Load, Threads
<1>3. t.ending + t.closing > 0 => s.ending + s.closing > 0
  BY <1>1 DEF Tallies
<1>4. (s.rest = 0 => t.rest = 0) /\ (t.whole = 1 => s.whole = 1)
  BY <1>1 DEF Tallies
<1>5. SingleSum(s) => SingleSum(t)
  BY <1>2, <1>3, <1>4 DEF SingleSum
<1>6. DoubleSum(s) => DoubleSum(t)
  BY <1>2 DEF DoubleSum
<1> QED
  BY <1>2, <1>5, <1>6 DEF Kept

\* The worker takes a chunk and acknowledges it.
LEMMA TakeSum ==
  ASSUME NEW s \in Tallies, NEW t \in Tallies,
         t.waiting = s.waiting, t.whole = s.whole, t.acking = s.acking,
         t.emitting = s.emitting, t.rest = s.rest,
         s.held = 0, t.held = 1, s.flying = t.flying + 1,
         \/ s.ending = t.ending + 1 /\ t.closing = 1
         \/ s.ending = t.ending /\ t.closing = 0
  PROVE  /\ Kept(s, t) /\ Load(s) # 0
         /\ t.whole = 0 /\ t.emitting = 0 /\ t.flying = 0 /\ (t.closing = 0 \/ t.rest = 0) =>
               SingleSum(t)
  BY DEF Tallies, Kept, SingleSum, DoubleSum, Load, Threads

\* A chunk is refused or its ACK fails: an error may take its place.
LEMMA DropSum ==
  ASSUME NEW s \in Tallies, NEW t \in Tallies,
         t.waiting = s.waiting \/ t.waiting = s.waiting + 1, t.whole = s.whole,
         t.emitting = s.emitting, t.rest = s.rest,
         \/ /\ s.flying = t.flying + 1 /\ s.held = t.held /\ s.closing = t.closing
            /\ s.ending = t.ending \/ s.ending = t.ending + 1
            /\ t.acking = s.acking
         \/ /\ s.flying = t.flying /\ s.ending = t.ending /\ t.closing = 0
            /\ s.held = 1 /\ t.held = 0
            /\ t.acking = s.acking \/ t.acking = s.acking + 1
  PROVE  Kept(s, t) /\ Load(s) # 0
  BY DEF Tallies, Kept, SingleSum, DoubleSum, Load, Threads

\* The worker's ACK goes out, and a complete frame into the queue.
LEMMA AckSum ==
  ASSUME NEW s \in Tallies, NEW t \in Tallies,
         t.emitting = s.emitting, t.flying = s.flying, t.ending = s.ending,
         t.rest = s.rest, s.held = 1, t.held = 0, t.closing = 0, t.acking = s.acking + 1,
         \/ s.closing = 1 /\ t.waiting = s.waiting + 1
         \/ s.closing = 0 /\ t.waiting = s.waiting,
         t.whole = s.whole \/ (s.closing = 1 /\ s.waiting = 0)
  PROVE  Kept(s, t) /\ Load(s) # 0
  BY DEF Tallies, Kept, SingleSum, DoubleSum, Load, Threads

\* The shade begins a response.
LEMMA ExecuteSum ==
  ASSUME NEW s \in Tallies, NEW t \in Tallies, NEW n \in Nat,
         t.waiting = s.waiting, t.whole = s.whole, t.flying = s.flying, t.ending = s.ending,
         t.held = s.held, t.closing = s.closing, t.acking = s.acking, t.emitting = 1,
         t.rest = n
  PROVE  /\ Load(t) <= Load(s) + n
         /\ SingleSum(s) => DoubleSum(t)
         /\ Load(s) = 0 /\ s.acking = 0 => SingleSum(t)
<1>1. Load(t) <= Load(s) + n
  BY DEF Tallies, Load
<1>2. ASSUME SingleSum(s) PROVE DoubleSum(t)
  BY <1>2 DEF Tallies, SingleSum, DoubleSum, Threads
<1>3. ASSUME Load(s) = 0, s.acking = 0 PROVE SingleSum(t)
  <2>1. s.waiting = 0 /\ s.flying = 0 /\ s.held = 0
    BY <1>3, EmptyLoad
  <2>2. /\ t.whole = 0 /\ t.flying = 0 /\ t.held = 0 /\ t.acking = 0
        /\ t.ending = 0 /\ t.closing = 0
    BY <1>3, <2>1 DEF Tallies
  <2> QED
    BY <2>2 DEF SingleSum, Threads
<1> QED
  BY <1>1, <1>2, <1>3

LEMMA EmitSum ==
  ASSUME NEW s \in Tallies, NEW t \in Tallies,
         t.waiting = s.waiting, t.whole = s.whole, t.held = s.held, t.closing = s.closing,
         t.acking = s.acking, s.emitting = 1, t.emitting = 0, t.flying = s.flying + 1,
         s.rest = t.rest + 1,
         \/ t.ending = s.ending + 1 /\ t.rest = 0
         \/ t.ending = s.ending
  PROVE  Kept(s, t) /\ Load(s) # 0
  BY DEF Tallies, Kept, SingleSum, DoubleSum, Load, Threads

\* The shade's chunk is acknowledged, and the next one is due, if there is one.
LEMMA NextSum ==
  ASSUME NEW s \in Tallies, NEW t \in Tallies,
         t.waiting = s.waiting, t.whole = s.whole, t.flying = s.flying, t.ending = s.ending,
         t.held = s.held, t.closing = s.closing, t.rest = s.rest, s.emitting = 0,
         s.acking = 1, t.acking = 0
  PROVE  Kept(s, t)
  BY DEF Tallies, Kept, SingleSum, DoubleSum, Load, Threads

\* The caller accepts the one response there is.
LEMMA AcceptSum ==
  ASSUME NEW s \in Tallies, NEW t \in Tallies, SingleSum(s), s.whole = 1,
         s.waiting = t.waiting + 1, t.flying = s.flying, t.held = s.held, t.rest = s.rest
  PROVE  Load(t) = 0
  BY DEF Tallies, SingleSum, Load

\* No ACK is behind a chunk with the current number.
Orderly == \A x, y : Precedes(up, x, y) /\ IsData(x) /\ Fresh(x) => IsData(y)

\* One response is under way.
Single == SingleSum(Tally)

First == <<current, 1>>  \* the first chunk of the current request's response

NoFirst ==
    /\ First \notin Elems(buffer) /\ First \notin Elems(acking.frame)
    /\ \A r \in Elems(responses) : "frame" \in DOMAIN r => First \notin Elems(r.frame)

Unacceptable == NoFirst \/ (responses # <<>> /\ ~Accepted(Head(responses)))

\* The first chunk, sent in its turn, is the last that the shade sent.
FirstInv ==
    \A m \in Elems(down) : Latest(m) /\ m.part = First =>
        /\ shade.state # Emits /\ (IsLast(m) => Rest = 0)
        /\ \A y : Precedes(down, m, y) => ~IsData(y)

\* The response of a write that came too late and that of its readback.
Double ==
    /\ Late /\ current \in Done
    /\ DoubleSum(Tally)
    /\ phase # "closed" => Unacceptable
    /\ FirstInv

\* The write before the current request timed out, and the shade carried it out.
After ==
    /\ current > 1 /\ current - 1 \in Done
    /\ outcome[current - 1] \in {"unacked", "unanswered"}

\* There is a response that the caller could still hear of.
Born == current \in Done \/ After

\* The chunks of these responses.
Budget ==
    (IF current \in Done THEN Chunks[Script[current]] ELSE 0)
    + (IF After THEN Chunks[Script[current - 1]] ELSE 0)

ThreadInv ==
    /\ Load(Tally) <= Budget
    /\ ~Born => Orderly
    /\ Born => Single \/ Double

LEMMA BudgetFacts ==
  ASSUME LinkInv, current \in Nat
  PROVE  Budget \in Nat /\ Budget <= 3 /\ (~Born => Budget = 0)
<1> DEFINE a == IF current \in Done THEN Chunks[Script[current]] ELSE 0
           b == IF After THEN Chunks[Script[current - 1]] ELSE 0
<1>1. \A i \in Requests : Chunks[Script[i]] \in Nat /\ Chunks[Script[i]] <= 3
  BY ScriptAssumption, ChunkAssumption, ResponseAssumption DEF Requests
<1>2. Done \subseteq Requests
  BY DEF LinkInv, NumberInv
<1>3. a \in Nat /\ a <= 3 /\ b \in Nat /\ b <= 3
  BY <1>1, <1>2 DEF After
<1>4. ASSUME current \in Done, After PROVE a + b <= 3
  <2>1. current - 1 \in Requests /\ (current - 1) + 1 = current
    BY <1>2, <1>4 DEF After
  <2>2. Script[current - 1] = "write"
    BY <1>4, <2>1 DEF After, LinkInv, OutcomeInv
  <2>3. Script[current] = "read"
    BY <2>1, <2>2, ScriptAssumption DEF Requests
  <2>4. a = Chunks["read"] /\ b = Chunks["write"]
    BY <1>4, <2>2, <2>3
  <2>5. Chunks["read"] \in Nat /\ Chunks["write"] \in Nat /\ Chunks["write"] + Chunks["read"] <= 3
    BY ChunkAssumption, ResponseAssumption DEF Kinds
  <2> HIDE DEF a, b
  <2> QED
    BY <2>4, <2>5
<1>5. (~(current \in Done) => a = 0) /\ (~After => b = 0)
  OBVIOUS
<1>6. Budget = a + b
  BY DEF Budget
<1> HIDE DEF a, b
<1> QED
  BY <1>3, <1>4, <1>5, <1>6 DEF Born

LEMMA TallyFields ==
  /\ Tally.waiting = Len(responses) /\ Tally.whole = One(Whole)
  /\ Tally.flying = Count(down, AllChunks) /\ Tally.ending = Count(down, LastChunks)
  /\ Tally.held = One(acking # NoAck) /\ Tally.closing = One(acking.frame # <<>>)
  /\ Tally.acking = Count(up, AllAcks) /\ Tally.emitting = One(shade.state = Emits)
  /\ Tally.rest = Rest
  BY DEF Tally

LEMMA TallyType == IInv /\ PartInv /\ SyncInv => Tally \in Tallies
<1> SUFFICES ASSUME IInv, PartInv, SyncInv PROVE Tally \in Tallies
  OBVIOUS
<1>1. IsSeq(up) /\ IsSeq(down) /\ IsSeq(responses)
  BY DEF IInv, AirInv, PartInv
<1>2. /\ Len(responses) \in Nat /\ Count(down, AllChunks) \in Nat
      /\ Count(down, LastChunks) \in Nat /\ Count(up, AllAcks) \in Nat
  BY <1>1, CountNat
<1>3. \A p : One(p) \in 0..1
  BY DEF One
<1>4. Rest \in Nat /\ One(shade.state = Emits) <= Rest
  <2>1. shade.state # Silent => Len(shade.frame) \in Nat \ {0}
    BY DEF PartInv, Answers, IsSeq
  <2>2. shade.state \in {Silent, Emits, Awaits}
    BY DEF IInv, TypeOK
  <2> QED
    BY <2>1, <2>2 DEF Rest, One, Silent, Emits, Awaits
<1>5. One(acking.frame # <<>>) <= One(acking # NoAck)
  <2>1. NoAck.frame = <<>>
    BY DEF NoAck
  <2> QED
    BY <2>1 DEF One
<1>6. Count(down, LastChunks) <= Count(down, AllChunks)
  <2>1. \A m \in Elems(down) : Is(m, LastChunks) => Is(m, AllChunks)
    BY KindFacts DEF IsLast
  <2> QED
    BY <1>1, <2>1, CountCover
<1>7. Count(up, AllAcks) + One(acking # NoAck) <= 1
  <2>1. CASE InStep
    <3>1. Count(up, AllAcks) = 0
      BY <1>1, <2>1, CountSome, KindFacts DEF InStep
    <3> QED
      BY <2>1, <3>1 DEF One, InStep
  <2>2. CASE OneAhead
    BY <2>2 DEF OneAhead
  <2> QED
    BY <2>1, <2>2 DEF SyncInv
<1>8. Count(up, AllAcks) \in 0..1
  BY <1>2, <1>3, <1>7
<1>9. One(Whole) <= Len(responses)
  <2>1. responses # <<>> => Len(responses) \in Nat \ {0}
    BY <1>1 DEF IsSeq
  <2> QED
    BY <1>2, <2>1 DEF One, Whole
<1> QED
  BY <1>2, <1>3, <1>4, <1>5, <1>6, <1>7, <1>8, <1>9 DEF Tallies, Tally

LEMMA InitThread == Init => ThreadInv
<1> SUFFICES ASSUME Init PROVE ThreadInv
  OBVIOUS
<1>1. /\ up = <<>> /\ down = <<>> /\ responses = <<>> /\ acking = NoAck /\ current = 1
      /\ shade.state = Silent /\ executed = <<>>
  BY DEF Init
<1>2. Tally.waiting = 0 /\ Tally.flying = 0 /\ Tally.held = 0 /\ Tally.rest = 0
  <2>1. Count(down, AllChunks) = 0 /\ Len(responses) = 0
    BY <1>1, CountEmpty
  <2>2. Rest = 0 /\ One(acking # NoAck) = 0
    BY <1>1 DEF One, Rest, Silent, Emits, Awaits
  <2> QED
    BY <2>1, <2>2, TallyFields
<1>3. Orderly
  BY <1>1, EmptySeq, OrderedElems DEF Orderly
<1>4. ~(current \in Done) /\ ~After
  <2>1. Len(executed) = 0
    BY <1>1
  <2> QED
    BY <1>1, <2>1 DEF After, Done
<1>5. Budget = 0 /\ Load(Tally) = 0
  BY <1>2, <1>4 DEF Budget, Load
<1> QED
  BY <1>3, <1>4, <1>5 DEF ThreadInv, Born

\* Nothing is under way that the caller could not hear of.
LEMMA QuietLoad == ASSUME FullInv, ThreadInv, Tally \in Tallies, ~Born PROVE Load(Tally) = 0
<1>1. Budget = 0
  BY BudgetFacts DEF FullInv, IInv, TypeOK
<1>2. Load(Tally) \in Nat
  BY LoadNat
<1> QED
  BY <1>1, <1>2 DEF ThreadInv

LEMMA BudgetKept ==
  ASSUME FullInv, ThreadInv, Tally \in Tallies, Tally' \in Tallies, Budget' = Budget,
         Load(Tally') <= Load(Tally)
  PROVE  Load(Tally') <= Budget'
<1>1. Budget \in Nat
  BY BudgetFacts DEF FullInv, IInv, TypeOK
<1>2. Load(Tally) \in Nat /\ Load(Tally') \in Nat
  BY LoadNat
<1>3. Load(Tally') <= Budget
  BY <1>1, <1>2, Transitive, Zenon DEF ThreadInv
<1> QED
  BY <1>3

\* A step that adds nothing and settles no request.
LEMMA ThreadStep ==
  ASSUME FullInv, Tally \in Tallies, Tally' \in Tallies, ThreadInv,
         Born' <=> Born, Budget' = Budget, Late => Late',
         current \in Done => current' \in Done',
         phase = "closed" => phase' = "closed",
         phase' # "closed" /\ Unacceptable => Unacceptable',
         NoMore(Tally'.waiting, Tally.waiting), NoMore(Tally'.whole, Tally.whole),
         NoMore(Tally'.flying, Tally.flying), NoMore(Tally'.ending, Tally.ending),
         NoMore(Tally'.acking, Tally.acking), NoMore(Tally'.emitting, Tally.emitting),
         NoMore(Tally'.rest, Tally.rest),
         Tally'.held = Tally.held, Tally'.closing = Tally.closing,
         ~Born /\ Orderly => Orderly', FirstInv => FirstInv'
  PROVE  ThreadInv'
<1>1. /\ Load(Tally') <= Load(Tally)
      /\ SingleSum(Tally) => SingleSum(Tally')
      /\ DoubleSum(Tally) => DoubleSum(Tally')
  BY LessSum DEF Kept
<1>2. Load(Tally') <= Budget'
  BY <1>1, BudgetKept
<1>3. ASSUME Single PROVE Single'
  BY <1>1, <1>3 DEF Single
<1>4. ASSUME Double PROVE Double'
  BY <1>1, <1>4 DEF Double
<1> QED
  BY <1>2, <1>3, <1>4 DEF ThreadInv

LEMMA FirstStep ==
  ASSUME current' = current, shade'.tx = shade.tx,
         shade'.state = Emits => shade.state = Emits, Rest = 0 => Rest' = 0,
         \A m \in Elems(down') : IsData(m) => m \in Elems(down),
         \A x, y : Precedes(down', x, y) /\ IsData(x) /\ IsData(y) => Precedes(down, x, y)
  PROVE  FirstInv => FirstInv'
<1>1. First' = First /\ \A m : Latest(m)' <=> Latest(m)
  BY DEF First, Latest
<1>2. ASSUME FirstInv, NEW m \in Elems(down'), Latest(m), m.part = First
      PROVE  /\ shade'.state # Emits /\ (IsLast(m) => Rest' = 0)
             /\ \A y : Precedes(down', m, y) => ~IsData(y)
  <2>1. m \in Elems(down) /\ IsData(m)
    BY <1>2 DEF Latest
  <2> QED
    BY <1>2, <2>1 DEF FirstInv
<1> QED
  BY <1>1, <1>2 DEF FirstInv

\* What tells the threads apart stays as it is while no request is settled.
LEMMA StayFacts ==
  ASSUME IInv, current' = current, executed' = executed,
         \/ outcome' = outcome
         \/ current \in Requests /\ outcome' = [outcome EXCEPT ![current] = "error"]
  PROVE  (Born' <=> Born) /\ Budget' = Budget /\ (Late' <=> Late) /\ Done' = Done
<1>1. current > 1 => outcome'[current - 1] = outcome[current - 1]
  <2>1. CASE outcome' = outcome
    BY <2>1
  <2>2. CASE current \in Requests /\ outcome' = [outcome EXCEPT ![current] = "error"]
    <3>1. \A i \in Requests : i # current => outcome'[i] = outcome[i]
      BY <2>2, OutcomeFacts DEF Outcomes
    <3>2. current > 1 => current - 1 \in Requests /\ current - 1 # current
      BY <2>2, Constants DEF Requests
    <3> QED
      BY <3>1, <3>2
  <2> QED
    BY <2>1, <2>2
<1>2. Done' = Done
  BY DEF Done
<1>3. After' <=> After
  BY <1>1, <1>2 DEF After
<1> QED
  BY <1>1, <1>2, <1>3 DEF Born, Budget, Late

\* A write is preceded by no request that timed out.
LEMMA WriteAlone ==
  ASSUME LinkInv, current \in Requests, Script[current] = "write", current > 1
  PROVE  outcome[current - 1] \notin {"unacked", "unanswered"}
<1> SUFFICES ASSUME outcome[current - 1] \in {"unacked", "unanswered"} PROVE FALSE
  OBVIOUS
<1>1. current - 1 \in Requests /\ (current - 1) + 1 = current
  BY Constants DEF Requests
<1>2. Script[current - 1] = "write"
  BY <1>1 DEF LinkInv, OutcomeInv
<1>3. Script[(current - 1) + 1] = "read"
  BY <1>1, <1>2, ScriptAssumption DEF Requests
<1> QED
  BY <1>1, <1>3

\* A write times out: what was under way stays under way.
LEMMA ThreadTimedOut ==
  ASSUME FullInv, ThreadInv, current \in Requests, Script[current] = "write",
         NEW result \in {"unacked", "unanswered"}, current' = current + 1,
         phase # "closed", phase' # "closed",
         outcome' = [outcome EXCEPT ![current] = result],
         UNCHANGED <<txSequence, responses, acking, up, down, shade, executed>>
  PROVE  ThreadInv'
<1>1. Tally' = Tally /\ (Orderly' <=> Orderly) /\ Done' = Done
  <2>1. (Whole' <=> Whole) /\ Rest' = Rest
    BY DEF Whole, Rest
  <2>2. One(Whole') = One(Whole)
    BY <2>1 DEF One
  <2> QED
    BY <2>1, <2>2 DEF Tally, Orderly, Fresh, Done
<1>2. ~Late /\ ~After
  <2>1. current > 1 => outcome[current - 1] \notin {"unacked", "unanswered"}
    BY WriteAlone DEF FullInv
  <2> QED
    BY <2>1 DEF Late, After
<1>3. (current + 1) - 1 = current /\ current + 1 > 1 /\ current \in Nat
  BY Constants DEF Requests
<1>4. (After' <=> current \in Done) /\ ~(current' \in Done')
  <2>1. outcome'[current] = result
    BY OutcomeFacts DEF Outcomes, FullInv
  <2>2. \A e \in Done : e \in Nat /\ e <= current
    BY DEF FullInv, LinkInv, NumberInv, Requests
  <2>3. current + 1 \notin Done
    BY <1>3, <2>2
  <2> QED
    BY <1>1, <1>3, <2>1, <2>3 DEF After
<1>5. Budget' = Budget
  <2> DEFINE n == IF current \in Done THEN Chunks[Script[current]] ELSE 0
  <2>1. n \in Nat
    BY ScriptAssumption, ChunkAssumption DEF Requests
  <2>2. Budget = n + 0 /\ Budget' = 0 + n
    BY <1>2, <1>3, <1>4 DEF Budget
  <2> HIDE DEF n
  <2> QED
    BY <2>1, <2>2
<1>6. Born' <=> Born
  BY <1>2, <1>4 DEF Born
<1>7. Single' <=> Single
  BY <1>1 DEF Single
<1> QED
  BY <1>1, <1>2, <1>5, <1>6, <1>7 DEF ThreadInv, Double

LEMMA FrameFirst == ASSUME NEW r \in Requests PROVE <<r, 1>> \in Elems(Frame(r))
<1> DEFINE n == Chunks[Script[r]]
<1>1. n \in Nat \ {0}
  BY ScriptAssumption, ChunkAssumption DEF Requests
<1>2. Frame(r) = [part \in 1..n |-> <<r, part>>]
  BY DEF Frame
<1> HIDE DEF n
<1>3. Frame(r) \in Seq({<<r, part>> : part \in Nat}) /\ Len(Frame(r)) = n
  BY <1>1, <1>2
<1>4. 1 \in 1..n /\ Frame(r)[1] = <<r, 1>>
  BY <1>1, <1>2
<1> QED
  BY <1>3, <1>4 DEF Elems

LEMMA FirstRefused ==
  ASSUME PartInv, current \in Requests, responses # <<>>, Unacceptable
  PROVE  ~Accepted(Head(responses))
<1> SUFFICES ASSUME Accepted(Head(responses)), NoFirst PROVE FALSE
  BY DEF Unacceptable
<1>1. Head(responses) \in Elems(responses) /\ Head(responses) = Message(Frame(current))
  BY TailSeq DEF PartInv, Accepted
<1>2. First \notin Elems(Frame(current))
  BY <1>1, ResponseFacts DEF NoFirst
<1> QED
  BY <1>2, FrameFirst DEF First

\* The response is accepted: it was the only one, and nothing is under way behind it.
LEMMA ThreadAccepted ==
  ASSUME FullInv, ThreadInv, Tally \in Tallies, Tally' \in Tallies,
         phase = "response", current \in Requests, responses # <<>>, Accepted(Head(responses)),
         responses' = Tail(responses), current' = current + 1,
         outcome' = [outcome EXCEPT ![current] = "ok"],
         UNCHANGED <<txSequence, acking, up, down, shade, executed>>
  PROVE  ThreadInv'
<1>1. current \in Done
  BY AcceptedDone DEF FullInv
<1>2. ~Double
  BY FirstRefused DEF Double, FullInv
<1>3. SingleSum(Tally) /\ Tally.whole = 1
  <2>1. "frame" \in DOMAIN Head(responses)
    BY ResponseFacts DEF Accepted
  <2>2. One(Whole) = 1
    BY <2>1 DEF Whole, One
  <2> QED
    BY <1>1, <1>2, <2>2, TallyFields DEF ThreadInv, Born, Single
<1>4. Len(responses) = Len(responses') + 1
  <2>1. PICK S : responses \in Seq(S)
    BY DEF FullInv, PartInv, IsSeq
  <2>2. Len(responses) \in Nat \ {0} /\ Len(Tail(responses)) = Len(responses) - 1
    BY <2>1
  <2> QED
    BY <2>2
<1>5. /\ Tally.waiting = Tally'.waiting + 1 /\ Tally'.flying = Tally.flying
      /\ Tally'.held = Tally.held /\ Tally'.rest = Tally.rest
  BY <1>4 DEF Tally, Rest
<1>6. Load(Tally') = 0
  BY <1>3, <1>5, AcceptSum
<1>7. Orderly'
  <2>1. \A m \in Elems(up) : IsData(m) => ~Fresh(m)
    BY DEF FullInv, LinkInv, ChunkInv
  <2>2. \A m : Fresh(m)' <=> Fresh(m)
    BY DEF Fresh
  <2> QED
    BY <2>1, <2>2, OrderedElems DEF Orderly
<1>8. ~Born' /\ Budget' = 0
  <2>1. outcome'[current] = "ok"
    BY OutcomeFacts DEF Outcomes, FullInv
  <2>2. (current + 1) - 1 = current /\ current \in Nat
    BY Constants DEF Requests
  <2>3. \A e \in Done : e \in Nat /\ e <= current
    BY DEF FullInv, LinkInv, NumberInv, Requests
  <2>4. current + 1 \notin Done
    BY <2>2, <2>3
  <2>5. Done' = Done
    BY DEF Done
  <2>6. ~After' /\ ~(current' \in Done')
    BY <2>1, <2>2, <2>4, <2>5 DEF After
  <2> QED
    BY <2>6 DEF Born, Budget
<1> QED
  BY <1>6, <1>7, <1>8 DEF ThreadInv

\* Any other step of the caller.
LEMMA ThreadStays ==
  ASSUME FullInv, ThreadInv, Tally \in Tallies, Tally' \in Tallies, current \in Requests,
         current' = current,
         outcome' = outcome \/ outcome' = [outcome EXCEPT ![current] = "error"],
         phase # "closed", UNCHANGED <<buffer, acking, down, shade, executed>>,
         \/ responses' = responses
         \/ phase' = "closed" /\ responses # <<>> /\ responses' = Tail(responses),
         up' = up \/ up' = Append(up, Chunk),
         txSequence' = txSequence \/ Born
  PROVE  ThreadInv'
<1>1. (Born' <=> Born) /\ Budget' = Budget /\ (Late' <=> Late) /\ Done' = Done
  BY StayFacts DEF FullInv
<1>2. phase' # "closed" /\ Unacceptable => Unacceptable'
  <2> SUFFICES ASSUME phase' # "closed", Unacceptable PROVE Unacceptable'
    OBVIOUS
  <2>1. UNCHANGED <<responses, buffer, acking, current>>
    OBVIOUS
  <2> QED
    BY <2>1 DEF Unacceptable, NoFirst, First, Accepted
<1>3. /\ Tally'.emitting = Tally.emitting /\ Tally'.flying = Tally.flying
      /\ Tally'.ending = Tally.ending /\ Tally'.held = Tally.held
      /\ Tally'.closing = Tally.closing /\ Tally'.rest = Tally.rest
  BY DEF Tally, Rest
<1>4. IsSeq(up) /\ IsSeq(responses)
  BY DEF FullInv, IInv, AirInv, PartInv
<1>5. IsData(Chunk) /\ ~Is(Chunk, AllAcks)
  BY DataKind, KindFacts DEF Chunk
<1>6. Tally'.acking = Tally.acking
  <2>1. up' = Append(up, Chunk) => Count(up', AllAcks) = Count(up, AllAcks)
    BY <1>4, <1>5, CountAppend
  <2>2. Count(up', AllAcks) = Count(up, AllAcks)
    BY <2>1
  <2> QED
    BY <2>2 DEF Tally
<1>7. NoMore(Tally'.waiting, Tally.waiting)
  <2>1. Len(responses') = Len(responses) \/ Len(responses') <= Len(responses)
    <3>1. CASE responses' = responses
      BY <3>1
    <3>2. CASE responses # <<>> /\ responses' = Tail(responses)
      <4>1. PICK S : responses \in Seq(S)
        BY <1>4 DEF IsSeq
      <4>2. Len(responses) \in Nat \ {0} /\ Len(Tail(responses)) = Len(responses) - 1
        BY <3>2, <4>1
      <4>3. Len(Tail(responses)) <= Len(responses)
        BY <4>2
      <4> QED
        BY <3>2, <4>3
    <3> QED
      BY <3>1, <3>2
  <2> QED
    BY <2>1 DEF NoMore, Tally
<1>8. ~Born /\ Orderly => Orderly'
  <2> SUFFICES ASSUME ~Born, Orderly, NEW x, NEW y, Precedes(up', x, y), IsData(x), Fresh(x)'
               PROVE  IsData(y)
    BY DEF Orderly
  <2>1. Fresh(x)
    BY DEF Fresh
  <2>2. Precedes(up, x, y) \/ y = Chunk
    BY <1>4, AppendOrder
  <2> QED
    BY <1>5, <2>1, <2>2 DEF Orderly
<1>9. FirstInv => FirstInv'
  BY FirstStep DEF Rest
<1>10. /\ NoMore(Tally'.emitting, Tally.emitting) /\ NoMore(Tally'.flying, Tally.flying)
       /\ NoMore(Tally'.ending, Tally.ending) /\ NoMore(Tally'.acking, Tally.acking)
       /\ NoMore(Tally'.rest, Tally.rest)
  BY <1>3, <1>6 DEF NoMore
<1>11. NoMore(Tally'.whole, Tally.whole)
  <2>1. Whole' => Whole
    BY DEF Whole
  <2>2. One(Whole') <= One(Whole)
    BY <2>1 DEF One
  <2> QED
    BY <2>2 DEF NoMore, Tally
<1> QED
  BY <1>1, <1>2, <1>3, <1>7, <1>8, <1>9, <1>10, <1>11, ThreadStep

LEMMA CallerThread ==
  ASSUME FullInv, ThreadInv, Tally \in Tallies, Tally' \in Tallies, Caller PROVE ThreadInv'
<1>0. phase # "closed" => current \in Requests
  BY DEF FullInv, IInv, TriesInv
<1>1. UNCHANGED <<buffer, acking, down, shade, executed>>
  BY DEF Caller, RefuseStale, SendChunk, WriteReturns, SendFails, Acknowledged, AckFails,
     AckTimeout, TakeResponse, ResponseTimeout, workerVars, shadeVars
<1>2. ASSUME Abort, phase # "closed", txSequence' = txSequence,
             responses' = responses \/ (responses # <<>> /\ responses' = Tail(responses)),
             up' = up
      PROVE  ThreadInv'
  <2>1. /\ current' = current /\ phase' = "closed"
        /\ outcome' = [outcome EXCEPT ![current] = "error"]
    BY <1>2 DEF Abort, Settle
  <2> QED
    BY <1>0, <1>1, <1>2, <2>1, ThreadStays
<1>3. ASSUME NEW result \in {"unacked", "unanswered"}, TimedOut(result), phase # "closed",
             UNCHANGED <<txSequence, responses, up>>
      PROVE  ThreadInv'
  <2>1. CASE Script[current] = "write"
    <3>1. /\ current' = current + 1 /\ outcome' = [outcome EXCEPT ![current] = result]
          /\ phase' # "closed"
      BY <1>3, <2>1 DEF TimedOut, Settle
    <3> QED
      BY <1>0, <1>1, <1>3, <2>1, <3>1, ThreadTimedOut
  <2>2. CASE Script[current] # "write"
    BY <1>2, <1>3, <2>2 DEF TimedOut
  <2> QED
    BY <2>1, <2>2
<1>4. CASE RefuseStale
  BY <1>2, <1>4 DEF RefuseStale
<1>5. CASE SendChunk
  <2>1. /\ phase = "ready" /\ up' = Append(up, Chunk)
        /\ UNCHANGED <<current, outcome, txSequence, responses>>
    BY <1>5 DEF SendChunk, Transmit, Chunk
  <2> QED
    BY <1>0, <1>1, <2>1, ThreadStays
<1>6. CASE SendFails
  BY <1>2, <1>6 DEF SendFails
<1>7. CASE Acknowledged
  <2>1. /\ phase = "ack" /\ waiter = "acked" /\ current \in Requests
        /\ UNCHANGED <<current, outcome, responses, up>>
    BY <1>0, <1>7 DEF Acknowledged
  <2>2. Born
    <3>1. current \in Done \/ (Shared /\ current - 1 \in Done)
      BY <2>1 DEF FullInv, LinkInv, NumberInv, Open
    <3> QED
      BY <3>1 DEF Born, After, Shared
  <2> QED
    BY <1>1, <2>1, <2>2, ThreadStays
<1>8. CASE AckFails
  BY <1>2, <1>8 DEF AckFails
<1>9. CASE AckTimeout
  <2>1. phase = "ack" /\ UNCHANGED <<txSequence, responses>>
    BY <1>9 DEF AckTimeout, TimeoutRaised
  <2>2. CASE tries < Attempts
    <3>1. up' = Append(up, Chunk) /\ UNCHANGED <<current, outcome, phase>>
      BY <1>9, <2>2 DEF AckTimeout, Transmit, Chunk
    <3> QED
      BY <1>0, <1>1, <2>1, <3>1, ThreadStays
  <2>3. CASE ~(tries < Attempts)
    BY <1>3, <1>9, <2>1, <2>3 DEF AckTimeout
  <2> QED
    BY <2>2, <2>3
<1>10. CASE TakeResponse
  <2>1. /\ phase = "response" /\ responses # <<>> /\ responses' = Tail(responses)
        /\ UNCHANGED <<txSequence, up>> /\ current \in Requests
    BY <1>0, <1>10 DEF TakeResponse
  <2>2. CASE Abort
    BY <1>2, <2>1, <2>2
  <2>3. CASE /\ Accepted(Head(responses)) /\ current' = current + 1
             /\ Settle("ok", IF current = Len(Script) THEN "closed" ELSE "ready")
    <3>1. outcome' = [outcome EXCEPT ![current] = "ok"]
      BY <2>3 DEF Settle
    <3> QED
      BY <1>1, <2>1, <2>3, <3>1, ThreadAccepted
  <2> QED
    BY <1>10, <2>2, <2>3 DEF TakeResponse
<1>11. CASE ResponseTimeout
  BY <1>3, <1>11 DEF ResponseTimeout
<1>12. CASE WriteReturns
  <2>1. phase = "ack" /\ UNCHANGED <<current, outcome, txSequence, responses, up>>
    BY <1>12 DEF WriteReturns
  <2> QED
    BY <1>0, <1>1, <2>1, ThreadStays
<1> QED
  BY <1>4, <1>5, <1>6, <1>7, <1>8, <1>9, <1>10, <1>11, <1>12 DEF Caller

\* A step of the worker, of the shade or of the air that adds nothing to what is counted.
LEMMA ThreadPassive ==
  ASSUME FullInv, ThreadInv, Tally \in Tallies, Tally' \in Tallies,
         UNCHANGED callerVars, UNCHANGED <<responses, buffer, acking, executed>>,
         shade'.tx = shade.tx, shade'.state = Emits => shade.state = Emits,
         Rest' = Rest \/ Rest' = 0,
         up' = up \/ (up # <<>> /\ up' = Tail(up)),
         \/ down' = down \/ (down # <<>> /\ down' = Tail(down))
         \/ \E q : down' = Append(down, Ack(q))
  PROVE  ThreadInv'
<1>0. IsSeq(up) /\ IsSeq(down) /\ UNCHANGED <<current, outcome, phase, txSequence>>
  BY DEF FullInv, IInv, AirInv, callerVars
<1>1. (Born' <=> Born) /\ Budget' = Budget /\ (Late' <=> Late) /\ Done' = Done
  BY <1>0, StayFacts DEF FullInv
<1>2. Unacceptable => Unacceptable'
  BY <1>0 DEF Unacceptable, NoFirst, First, Accepted
<1>3. /\ Tally'.waiting = Tally.waiting /\ Tally'.held = Tally.held
      /\ Tally'.closing = Tally.closing /\ Tally'.whole = Tally.whole
  BY <1>0 DEF Tally, Whole
<1>4. NoMore(Tally'.emitting, Tally.emitting) /\ NoMore(Tally'.rest, Tally.rest)
  <2>1. One(shade'.state = Emits) <= One(shade.state = Emits)
    BY DEF One
  <2>2. Rest' = Rest \/ Rest' <= Rest
    <3>1. Rest \in Nat
      BY TallyFields DEF Tallies
    <3>2. 0 <= Rest
      BY <3>1
    <3> QED
      BY <3>2
  <2> QED
    BY <2>1, <2>2 DEF NoMore, Tally
<1>5. /\ NoMore(Tally'.acking, Tally.acking)
      /\ \A x, y : Precedes(up', x, y) => Precedes(up, x, y)
  <2>1. Count(up', AllAcks) <= Count(up, AllAcks)
        /\ \A x, y : Precedes(up', x, y) => Precedes(up, x, y)
    BY <1>0, ShorterFacts
  <2> QED
    BY <2>1 DEF NoMore, Tally
<1>6. /\ NoMore(Tally'.flying, Tally.flying) /\ NoMore(Tally'.ending, Tally.ending)
      /\ \A m \in Elems(down') : IsData(m) => m \in Elems(down)
      /\ \A x, y : Precedes(down', x, y) /\ IsData(x) /\ IsData(y) => Precedes(down, x, y)
  <2>1. CASE down' = down \/ (down # <<>> /\ down' = Tail(down))
    <3>1. /\ Elems(down') \subseteq Elems(down)
          /\ \A x, y : Precedes(down', x, y) => Precedes(down, x, y)
          /\ Count(down', AllChunks) <= Count(down, AllChunks)
          /\ Count(down', LastChunks) <= Count(down, LastChunks)
      BY <1>0, <2>1, ShorterFacts
    <3> QED
      BY <3>1 DEF NoMore, Tally
  <2>2. CASE \E q : down' = Append(down, Ack(q))
    <3>1. PICK q : down' = Append(down, Ack(q))
      BY <2>2
    <3>2. ~IsData(Ack(q)) /\ ~Is(Ack(q), AllChunks) /\ ~Is(Ack(q), LastChunks)
      BY AckKind, KindFacts DEF IsLast
    <3>3. /\ Elems(down') \subseteq Elems(down) \cup {Ack(q)}
          /\ \A x, y : Precedes(down', x, y) => Precedes(down, x, y) \/ y = Ack(q)
          /\ Count(down', AllChunks) = Count(down, AllChunks)
          /\ Count(down', LastChunks) = Count(down, LastChunks)
      BY <1>0, <3>1, <3>2, AppendFacts
    <3> QED
      BY <3>2, <3>3 DEF NoMore, Tally
  <2> QED
    BY <2>1, <2>2
<1>7. Orderly => Orderly'
  BY <1>0, <1>5 DEF Orderly, Fresh
<1>8. FirstInv => FirstInv'
  BY <1>0, <1>6, FirstStep
<1>9. NoMore(Tally'.waiting, Tally.waiting) /\ NoMore(Tally'.whole, Tally.whole)
  BY <1>3 DEF NoMore
<1> QED
  BY <1>0, <1>1, <1>2, <1>3, <1>4, <1>5, <1>6, <1>7, <1>8, <1>9, ThreadStep

\* The head of the queue that was not acceptable stays at the head.
LEMMA UnacceptableStep ==
  ASSUME IsSeq(responses), Unacceptable, current' = current,
         Elems(buffer') \subseteq Elems(buffer), Elems(acking'.frame) = {},
         \/ responses' = responses
         \/ \E k : responses' = Append(responses, Error(k))
         \/ responses' = Append(responses, Message(acking.frame))
  PROVE  Unacceptable'
<1>1. First' = First /\ \A r : Accepted(r)' <=> Accepted(r)
  BY DEF First, Accepted
<1>2. CASE responses # <<>> /\ ~Accepted(Head(responses))
  <2>1. PICK S : responses \in Seq(S)
    BY DEF IsSeq
  <2>2. ASSUME NEW e PROVE Append(responses, e) # <<>> /\ Head(Append(responses, e)) = Head(responses)
    <3>1. responses \in Seq(S \cup {e}) /\ e \in S \cup {e}
      BY <2>1
    <3>2. Append(responses, e) \in Seq(S \cup {e}) /\ Len(Append(responses, e)) = Len(responses) + 1
          /\ Len(responses) \in Nat \ {0} /\ Append(responses, e)[1] = responses[1]
      BY <1>2, <3>1
    <3> QED
      BY <1>2, <3>1, <3>2
  <2>3. responses' # <<>> /\ Head(responses') = Head(responses)
    BY <1>2, <2>2
  <2> QED
    BY <1>1, <1>2, <2>3 DEF Unacceptable
<1>3. CASE NoFirst
  <2>1. \A r \in Elems(responses') : "frame" \in DOMAIN r => First \notin Elems(r.frame)
    <3> SUFFICES ASSUME NEW r \in Elems(responses'), "frame" \in DOMAIN r
                 PROVE  First \notin Elems(r.frame)
      OBVIOUS
    <3>1. r \in Elems(responses) \/ (\E k : r = Error(k)) \/ r = Message(acking.frame)
      <4>1. \A e : Elems(Append(responses, e)) \subseteq Elems(responses) \cup {e}
        BY AppendSeq
      <4>2. CASE responses' = responses
        BY <4>2
      <4>3. CASE \E k : responses' = Append(responses, Error(k))
        BY <4>1, <4>3
      <4>4. CASE responses' = Append(responses, Message(acking.frame))
        BY <4>1, <4>4
      <4> QED
        BY <4>2, <4>3, <4>4
    <3> QED
      BY <1>3, <3>1, ResponseFacts DEF NoFirst
  <2> QED
    BY <1>1, <1>3, <2>1 DEF NoFirst, Unacceptable
<1> QED
  BY <1>2, <1>3 DEF Unacceptable

\* A step that only moves what is under way.
LEMMA ThreadMoves ==
  ASSUME FullInv, ThreadInv, Tally \in Tallies, Tally' \in Tallies,
         Born' <=> Born, Budget' = Budget, Load(Tally) # 0, Load(Tally') <= Load(Tally),
         Single => Single', Double => Double' \/ Single'
  PROVE  ThreadInv'
<1>1. Born
  BY QuietLoad
<1>2. Load(Tally') <= Budget'
  BY BudgetKept
<1> QED
  BY <1>1, <1>2 DEF ThreadInv

\* There is room in the response queue.
LEMMA WaitingBound ==
  ASSUME FullInv, ThreadInv, Tally \in Tallies PROVE Len(responses) <= 3
<1>1. Tally.waiting \in Nat /\ Tally.waiting <= Load(Tally) /\ Load(Tally) \in Nat
  BY DEF Tallies, Load
<1>2. Budget \in Nat /\ Budget <= 3
  BY BudgetFacts DEF FullInv, IInv, TypeOK
<1>3. Tally.waiting <= 3
  BY <1>1, <1>2 DEF ThreadInv
<1> QED
  BY <1>3, TallyFields

\* How the first chunk of the queue counts.
LEMMA HeadCounts ==
  ASSUME IsSeq(down), down # <<>>, down' = Tail(down), IsData(Head(down))
  PROVE  /\ Tally.flying = Tally'.flying + 1
         /\ IsLast(Head(down)) => Tally.ending = Tally'.ending + 1
         /\ ~IsLast(Head(down)) => Tally.ending = Tally'.ending
         /\ Elems(down') \subseteq Elems(down)
         /\ \A x, y : Precedes(down', x, y) => Precedes(down, x, y)
<1>1. /\ Is(Head(down), AllChunks)
      /\ Is(Head(down), LastChunks) <=> IsLast(Head(down))
  BY KindFacts
<1>2. /\ Count(down, AllChunks) = Count(down', AllChunks) + 1
      /\ IsLast(Head(down)) => Count(down, LastChunks) = Count(down', LastChunks) + 1
      /\ ~IsLast(Head(down)) => Count(down, LastChunks) = Count(down', LastChunks)
  BY <1>1, CountTail
<1>3. /\ Elems(down') \subseteq Elems(down)
      /\ \A x, y : Precedes(down', x, y) => Precedes(down, x, y)
  BY ShorterFacts
<1> QED
  BY <1>2, <1>3 DEF Tally

LEMMA ThreadTakes ==
  ASSUME FullInv, SyncInv, ThreadInv, Tally \in Tallies, Tally' \in Tallies, WorkerTakesChunk
  PROVE  ThreadInv'
<1> DEFINE head == Head(down)
<1>0. /\ down # <<>> /\ acking = NoAck /\ phase # "closed" /\ IsData(head)
      /\ down' = Tail(down) /\ UNCHANGED <<current, outcome, phase, responses, up, shade, executed>>
      /\ IsSeq(down) /\ IsSeq(up) /\ IsSeq(buffer) /\ current \in Requests
  BY DEF WorkerTakesChunk, Working, IsData, callerVars, shadeVars, FullInv, IInv, AirInv,
     TriesInv, PartInv, Answers
<1>1. acking' # NoAck /\ InStep /\ Latest(head)
  BY SyncTakes DEF FullInv
<1>2. /\ IsLast(head) => acking'.frame = Append(buffer, head.part) /\ buffer' = <<>>
      /\ ~IsLast(head) => acking'.frame = <<>> /\ buffer' = Append(buffer, head.part)
  <2>1. /\ acking'.frame = IF head.last THEN Append(buffer, head.part) ELSE <<>>
        /\ buffer' = IF head.last THEN <<>> ELSE Append(buffer, head.part)
    BY DEF WorkerTakesChunk
  <2>2. IsLast(head) <=> head.last
    BY <1>0 DEF IsLast
  <2> QED
    BY <2>1, <2>2, Zenon
<1>3. Append(buffer, head.part) # <<>>
  <2>1. PICK S : buffer \in Seq(S)
    BY <1>0 DEF IsSeq
  <2>2. buffer \in Seq(S \cup {head.part})
    BY <2>1
  <2>3. Len(Append(buffer, head.part)) = Len(buffer) + 1 /\ Len(buffer) \in Nat
    BY <2>2
  <2> QED
    BY <2>3
<1>4. /\ Tally'.waiting = Tally.waiting /\ Tally'.emitting = Tally.emitting
      /\ Tally'.acking = Tally.acking /\ Tally'.rest = Tally.rest
      /\ Tally'.whole = Tally.whole
  BY <1>0 DEF Tally, Rest, Whole
<1>5. Tally.held = 0 /\ Tally'.held = 1 /\ Tally.acking = 0
  <2>1. One(acking # NoAck) = 0 /\ One(acking' # NoAck) = 1
    BY <1>0, <1>1 DEF One
  <2>2. Count(up, AllAcks) = 0
    BY <1>0, <1>1, CountSome, KindFacts DEF InStep
  <2> QED
    BY <2>1, <2>2 DEF Tally
<1>6. /\ IsLast(head) => Tally'.closing = 1
      /\ ~IsLast(head) => Tally'.closing = 0
  <2>1. /\ IsLast(head) => One(acking'.frame # <<>>) = 1
        /\ ~IsLast(head) => One(acking'.frame # <<>>) = 0
    BY <1>2, <1>3 DEF One
  <2> QED
    BY <2>1 DEF Tally
<1>7. /\ Tally.flying = Tally'.flying + 1
      /\ IsLast(head) => Tally.ending = Tally'.ending + 1
      /\ ~IsLast(head) => Tally.ending = Tally'.ending
      /\ Elems(down') \subseteq Elems(down)
      /\ \A x, y : Precedes(down', x, y) => Precedes(down, x, y)
  BY <1>0, HeadCounts
<1>8. /\ Load(Tally) # 0 /\ Kept(Tally, Tally')
      /\ Tally'.whole = 0 /\ Tally'.emitting = 0 /\ Tally'.flying = 0
         /\ (Tally'.closing = 0 \/ Tally'.rest = 0) => SingleSum(Tally')
  <2>1. \/ Tally.ending = Tally'.ending + 1 /\ Tally'.closing = 1
        \/ Tally.ending = Tally'.ending /\ Tally'.closing = 0
    BY <1>6, <1>7
  <2> HIDE DEF head
  <2> QED
    BY <1>4, <1>5, <1>7, <2>1, TakeSum
<1>9. (Born' <=> Born) /\ Budget' = Budget /\ (Late' <=> Late) /\ Done' = Done
  BY <1>0, StayFacts DEF FullInv
<1> HIDE DEF head
<1>10. ASSUME Double, head.part = First, responses = <<>> PROVE Single'
  <2>1. /\ shade.state # Emits /\ (IsLast(head) => Rest = 0)
        /\ \A y : Precedes(down, head, y) => ~IsData(y)
    <3>1. head \in Elems(down)
      BY <1>0, TailSeq DEF head
    <3> QED
      BY <1>1, <1>10, <3>1 DEF Double, FirstInv
  <2>2. Tally'.emitting = 0 /\ (IsLast(head) => Tally'.rest = 0)
    <3>1. One(shade.state = Emits) = 0
      BY <2>1 DEF One
    <3> QED
      BY <1>4, <2>1, <3>1, TallyFields
  <2>3. Tally'.flying = 0
    <3>1. IsSeq(down') /\ \A y \in Elems(down') : Precedes(down, head, y)
      BY <1>0, TailSeq, TailOrder DEF head
    <3>2. \A m \in Elems(down') : ~Is(m, AllChunks)
      BY <2>1, <3>1, KindFacts
    <3>3. Count(down', AllChunks) = 0
      BY <3>1, <3>2, CountSome
    <3> QED
      BY <3>3 DEF Tally
  <2>4. Tally'.whole = 0
    <3>1. One(Whole) = 0
      BY <1>10 DEF One, Whole
    <3> QED
      BY <1>4, <3>1, TallyFields
  <2> QED
    BY <1>6, <1>8, <2>2, <2>3, <2>4 DEF Single
<1>11. ASSUME Double, head.part # First \/ responses # <<>> PROVE Double'
  <2>1. DoubleSum(Tally') /\ Late' /\ current' \in Done'
    BY <1>0, <1>8, <1>9, <1>11 DEF Double, Kept
  <2>2. Unacceptable'
    <3>0. Unacceptable /\ First' = First
      BY <1>0, <1>11 DEF Double, First
    <3>1. CASE responses # <<>>
      <4>1. ~Accepted(Head(responses))
        BY <1>0, <3>0, <3>1, FirstRefused DEF FullInv
      <4> QED
        BY <1>0, <3>1, <4>1 DEF Unacceptable, Accepted
    <3>2. CASE responses = <<>> /\ head.part # First
      <4>1. NoFirst
        BY <3>0, <3>2 DEF Unacceptable
      <4>2. First \notin Elems(Append(buffer, head.part)) /\ First \notin Elems(<<>>)
        BY <1>0, <3>2, <4>1, AppendSeq, EmptySeq DEF NoFirst
      <4>3. First \notin Elems(buffer') /\ First \notin Elems(acking'.frame)
        BY <1>2, <4>2
      <4> QED
        BY <1>0, <3>0, <4>1, <4>3 DEF NoFirst, Unacceptable
    <3> QED
      BY <1>11, <3>1, <3>2
  <2>3. FirstInv'
    <3>1. Rest' = Rest
      BY <1>0 DEF Rest
    <3>2. FirstInv => FirstInv'
      BY <1>0, <1>7, <3>1, FirstStep
    <3> QED
      BY <1>11, <3>2 DEF Double
  <2> QED
    BY <2>1, <2>2, <2>3 DEF Double
<1> QED
  BY <1>8, <1>9, <1>10, <1>11, ThreadMoves DEF Single, Kept

LEMMA AppendedResponse ==
  ASSUME IsSeq(responses), NEW e
  PROVE  /\ Len(Append(responses, e)) = Len(responses) + 1 /\ Append(responses, e) # <<>>
         /\ responses # <<>> => Head(Append(responses, e)) = Head(responses)
         /\ responses = <<>> => Head(Append(responses, e)) = e
<1>1. PICK S : responses \in Seq(S)
  BY DEF IsSeq
<1>2. responses \in Seq(S \cup {e}) /\ e \in S \cup {e}
  BY <1>1
<1>3. /\ Append(responses, e) \in Seq(S \cup {e}) /\ Len(responses) \in Nat
      /\ Len(Append(responses, e)) = Len(responses) + 1
      /\ \A i \in 1..(Len(responses) + 1) :
            Append(responses, e)[i] = IF i <= Len(responses) THEN responses[i] ELSE e
  BY <1>2
<1>4. Append(responses, e) # <<>> /\ Head(Append(responses, e)) = Append(responses, e)[1]
  BY <1>3
<1>5. responses # <<>> => Len(responses) \in Nat \ {0} /\ Head(responses) = responses[1]
  BY <1>1
<1> QED
  BY <1>3, <1>4, <1>5

LEMMA ErrorCounts ==
  ASSUME IsSeq(responses), phase' = phase, NEW kind, Fail(kind)
  PROVE  /\ Tally'.waiting = Tally.waiting \/ Tally'.waiting = Tally.waiting + 1
         /\ Tally'.whole = Tally.whole
<1>1. responses' = responses \/ responses' = Append(responses, Error(kind))
  BY DEF Fail
<1>2. Len(responses') = Len(responses) \/ Len(responses') = Len(responses) + 1
  BY <1>1, AppendedResponse
<1>3. Whole' <=> Whole
  BY <1>1, AppendedResponse, ResponseFacts DEF Whole
<1>4. One(Whole') = One(Whole)
  BY <1>3 DEF One
<1> QED
  BY <1>2, <1>4 DEF Tally

\* A chunk is refused, or its ACK fails, and an error goes into the queue instead.
LEMMA ThreadDrops ==
  ASSUME FullInv, ThreadInv, Tally \in Tallies, Tally' \in Tallies,
         WorkerRefusesChunk \/ WorkerAckFails
  PROVE  ThreadInv'
<1>0. /\ UNCHANGED <<current, outcome, phase, shade, executed>> /\ phase # "closed"
      /\ IsSeq(responses) /\ IsSeq(down) /\ IsSeq(up) /\ acking' = NoAck
      /\ buffer' = buffer \/ buffer' = <<>>
      /\ \E kind : Fail(kind)
      /\ down' = down \/ (down # <<>> /\ down' = Tail(down))
  BY DEF WorkerRefusesChunk, WorkerAckFails, Working, callerVars, shadeVars, FullInv, IInv,
     AirInv, PartInv
<1>1. /\ Tally'.waiting = Tally.waiting \/ Tally'.waiting = Tally.waiting + 1
      /\ Tally'.whole = Tally.whole
  BY <1>0, ErrorCounts
<1>2. Tally'.emitting = Tally.emitting /\ Tally'.rest = Tally.rest
  BY <1>0 DEF Tally, Rest
<1>3. Tally'.held = 0 /\ Tally'.closing = 0
  <2>1. One(acking' # NoAck) = 0 /\ One(acking'.frame # <<>>) = 0
    BY <1>0 DEF One, NoAck
  <2> QED
    BY <2>1 DEF Tally
<1>4. \/ /\ Tally.flying = Tally'.flying + 1 /\ Tally.held = Tally'.held
         /\ Tally.closing = Tally'.closing
         /\ Tally.ending = Tally'.ending \/ Tally.ending = Tally'.ending + 1
         /\ Tally'.acking = Tally.acking
      \/ /\ Tally.flying = Tally'.flying /\ Tally.ending = Tally'.ending
         /\ Tally'.closing = 0 /\ Tally.held = 1 /\ Tally'.held = 0
         /\ Tally'.acking = Tally.acking \/ Tally'.acking = Tally.acking + 1
  <2>1. CASE WorkerRefusesChunk
    <3>1. /\ down # <<>> /\ down' = Tail(down) /\ IsData(Head(down)) /\ acking' = acking
          /\ up' = up
      BY <2>1 DEF WorkerRefusesChunk, Working, IsData
    <3>2. /\ Tally'.held = Tally.held /\ Tally'.closing = Tally.closing
          /\ Tally'.acking = Tally.acking
      BY <3>1 DEF Tally
    <3>3. /\ Tally.flying = Tally'.flying + 1
          /\ Tally.ending = Tally'.ending \/ Tally.ending = Tally'.ending + 1
      BY <1>0, <3>1, HeadCounts
    <3> QED
      BY <3>2, <3>3
  <2>2. CASE WorkerAckFails
    <3>1. /\ acking # NoAck /\ down' = down
          /\ up' = up \/ up' = Append(up, Ack(acking.seq))
      BY <2>2 DEF WorkerAckFails
    <3>2. Tally'.flying = Tally.flying /\ Tally'.ending = Tally.ending
      BY <3>1 DEF Tally
    <3>3. Tally.held = 1
      <4>1. One(acking # NoAck) = 1
        BY <3>1 DEF One
      <4> QED
        BY <4>1, TallyFields
    <3>4. Tally'.acking = Tally.acking \/ Tally'.acking = Tally.acking + 1
      <4>1. Is(Ack(acking.seq), AllAcks)
        BY AckKind
      <4>2. Count(Append(up, Ack(acking.seq)), AllAcks) = Count(up, AllAcks) + 1
        BY <1>0, <4>1, CountAppend
      <4>3. Count(up', AllAcks) = Count(up, AllAcks) \/ Count(up', AllAcks) = Count(up, AllAcks) + 1
        BY <3>1, <4>2
      <4> QED
        BY <4>3 DEF Tally
    <3> QED
      BY <1>3, <3>2, <3>3, <3>4
  <2> QED
    BY <2>1, <2>2
<1>5. Load(Tally) # 0 /\ Kept(Tally, Tally')
  BY <1>1, <1>2, <1>4, DropSum
<1>6. (Born' <=> Born) /\ Budget' = Budget /\ (Late' <=> Late) /\ Done' = Done
  BY <1>0, StayFacts DEF FullInv
<1>7. ASSUME Double PROVE Double'
  <2>1. DoubleSum(Tally') /\ Late' /\ current' \in Done'
    BY <1>0, <1>5, <1>6, <1>7 DEF Double, Kept
  <2>2. /\ Elems(down') \subseteq Elems(down)
        /\ \A x, y : Precedes(down', x, y) => Precedes(down, x, y)
    BY <1>0, ShorterFacts
  <2>3. Unacceptable'
    <3>1. Elems(buffer') \subseteq Elems(buffer) /\ Elems(acking'.frame) = {}
      BY <1>0, EmptySeq DEF NoAck
    <3>2. responses' = responses \/ \E k : responses' = Append(responses, Error(k))
      BY <1>0, FailQueue
    <3> QED
      BY <1>0, <1>7, <3>1, <3>2, UnacceptableStep DEF Double
  <2>4. FirstInv'
    <3>1. Rest' = Rest
      BY <1>0 DEF Rest
    <3>2. FirstInv => FirstInv'
      BY <1>0, <2>2, <3>1, FirstStep
    <3> QED
      BY <1>7, <3>2 DEF Double
  <2> QED
    BY <2>1, <2>3, <2>4 DEF Double
<1> QED
  BY <1>5, <1>6, <1>7, ThreadMoves DEF Single, Kept

LEMMA ThreadAcks ==
  ASSUME FullInv, ThreadInv, Tally \in Tallies, Tally' \in Tallies, WorkerAcks
  PROVE  ThreadInv'
<1>0. /\ UNCHANGED <<current, outcome, phase, buffer, down, shade, executed>>
      /\ acking # NoAck /\ acking' = NoAck /\ up' = Append(up, Ack(acking.seq))
      /\ IsSeq(responses) /\ IsSeq(up) /\ Len(responses) < QueueSize
  <2>1. Len(responses) <= 3 /\ Len(responses) \in Nat
    BY WaitingBound, TallyFields DEF Tallies
  <2>2. Len(responses) < QueueSize
    BY <2>1 DEF QueueSize
  <2> QED
    BY <2>2 DEF WorkerAcks, callerVars, shadeVars, FullInv, IInv, AirInv, PartInv
<1>1. /\ acking.frame = <<>> => responses' = responses
      /\ acking.frame # <<>> => responses' = Append(responses, Message(acking.frame))
  BY <1>0 DEF WorkerAcks
<1>2. /\ Tally'.emitting = Tally.emitting /\ Tally'.flying = Tally.flying
      /\ Tally'.ending = Tally.ending /\ Tally'.rest = Tally.rest
  BY <1>0 DEF Tally, Rest
<1>3. Tally.held = 1 /\ Tally'.held = 0 /\ Tally'.closing = 0
  <2>1. One(acking # NoAck) = 1 /\ One(acking' # NoAck) = 0 /\ One(acking'.frame # <<>>) = 0
    BY <1>0 DEF One, NoAck
  <2> QED
    BY <2>1 DEF Tally
<1>4. Tally'.acking = Tally.acking + 1
  <2>1. Count(up', AllAcks) = Count(up, AllAcks) + 1
    BY <1>0, AckKind, CountAppend
  <2> QED
    BY <2>1 DEF Tally
<1>5. \/ Tally.closing = 1 /\ Tally'.waiting = Tally.waiting + 1
      \/ Tally.closing = 0 /\ Tally'.waiting = Tally.waiting
  <2>1. CASE acking.frame = <<>>
    <3>1. One(acking.frame # <<>>) = 0 /\ Len(responses') = Len(responses)
      BY <1>1, <2>1 DEF One
    <3> QED
      BY <3>1 DEF Tally
  <2>2. CASE acking.frame # <<>>
    <3>1. One(acking.frame # <<>>) = 1 /\ Len(responses') = Len(responses) + 1
      BY <1>0, <1>1, <2>2, AppendedResponse DEF One
    <3> QED
      BY <3>1 DEF Tally
  <2> QED
    BY <2>1, <2>2
<1>6. Tally'.whole = Tally.whole \/ (Tally.closing = 1 /\ Tally.waiting = 0)
  <2>1. CASE acking.frame = <<>> \/ responses # <<>>
    <3>1. Whole' <=> Whole
      BY <1>0, <1>1, <2>1, AppendedResponse DEF Whole
    <3>2. One(Whole') = One(Whole)
      BY <3>1 DEF One
    <3> QED
      BY <3>2 DEF Tally
  <2>2. CASE acking.frame # <<>> /\ responses = <<>>
    <3>1. One(acking.frame # <<>>) = 1 /\ Len(responses) = 0
      BY <2>2 DEF One
    <3> QED
      BY <3>1, TallyFields
  <2> QED
    BY <2>1, <2>2
<1>7. Load(Tally) # 0 /\ Kept(Tally, Tally')
  BY <1>2, <1>3, <1>4, <1>5, <1>6, AckSum
<1>8. (Born' <=> Born) /\ Budget' = Budget /\ (Late' <=> Late) /\ Done' = Done
  BY <1>0, StayFacts DEF FullInv
<1>9. ASSUME Double PROVE Double'
  <2>1. DoubleSum(Tally') /\ Late' /\ current' \in Done'
    BY <1>0, <1>7, <1>8, <1>9 DEF Double, Kept
  <2>2. phase' # "closed" => Unacceptable'
    <3>1. Elems(buffer') \subseteq Elems(buffer) /\ Elems(acking'.frame) = {}
      BY <1>0, EmptySeq DEF NoAck
    <3> QED
      BY <1>0, <1>1, <1>9, <3>1, UnacceptableStep DEF Double
  <2>3. FirstInv'
    <3>1. Rest' = Rest
      BY <1>0 DEF Rest
    <3>2. FirstInv => FirstInv'
      BY <1>0, <3>1, FirstStep
    <3> QED
      BY <1>9, <3>2 DEF Double
  <2> QED
    BY <2>1, <2>2, <2>3 DEF Double
<1> QED
  BY <1>7, <1>8, <1>9, ThreadMoves DEF Single, Kept

\* The shade carries a request out and begins its response.
LEMMA ThreadExecute ==
  ASSUME FullInv, ThreadInv, Tally \in Tallies, Tally' \in Tallies,
         ShadeTakesChunk, Head(up).seq = shade.expected
  PROVE  ThreadInv'
<1> DEFINE head == Head(up)
           r    == Id(Head(up))
<1>0. /\ UNCHANGED <<current, outcome, phase, responses, buffer, acking>>
      /\ up # <<>> /\ up' = Tail(up) /\ down' = Append(down, Ack(head.seq))
      /\ IsSeq(up) /\ IsSeq(down) /\ current \in Nat
  BY DEF ShadeTakesChunk, callerVars, workerVars, FullInv, IInv, AirInv, TypeOK
<1>1. /\ Due(r) /\ Fresh(head) /\ Done' = Done \cup {r}
      /\ IsData(head) /\ head \in Elems(up)
      /\ \A m \in Elems(down') : IsData(m) => m \in Elems(down)
  BY ExecuteStep, TakenFacts DEF FullInv
<1>2. /\ r \in Requests
      /\ r = current \/ (r + 1 = current /\ outcome[r] = "unacked")
  BY <1>1 DEF FullInv, LinkInv, ChunkInv
<1>3. /\ shade'.state = Emits /\ shade'.frame = Frame(r)
  BY DEF ShadeTakesChunk, FullInv, IInv, AirInv, Id
<1> HIDE DEF head, r
<1> DEFINE n == Chunks[Script[r]]
<1>4. n \in Nat /\ Len(Frame(r)) = n
  <2>1. n \in Nat \ {0} /\ Frame(r) = [part \in 1..n |-> <<r, part>>]
    BY <1>2, ScriptAssumption, ChunkAssumption DEF Requests, Frame
  <2> HIDE DEF n
  <2>2. Frame(r) \in Seq({<<r, part>> : part \in Nat}) /\ Len(Frame(r)) = n
    BY <2>1
  <2> QED
    BY <2>1, <2>2
<1> HIDE DEF n
<1>5. Tally'.emitting = 1 /\ Tally'.rest = n
  <2>1. One(shade'.state = Emits) = 1 /\ Rest' = n
    BY <1>3, <1>4 DEF One, Rest
  <2> QED
    BY <2>1 DEF Tally
<1>6. /\ Tally'.waiting = Tally.waiting /\ Tally'.held = Tally.held
      /\ Tally'.closing = Tally.closing /\ Tally'.whole = Tally.whole
  BY <1>0 DEF Tally, Whole
<1>7. Tally'.flying = Tally.flying /\ Tally'.ending = Tally.ending
  <2>1. ~Is(Ack(head.seq), AllChunks) /\ ~Is(Ack(head.seq), LastChunks)
    BY AckKind, KindFacts DEF IsLast
  <2>2. Count(down', AllChunks) = Count(down, AllChunks)
        /\ Count(down', LastChunks) = Count(down, LastChunks)
    BY <1>0, <2>1, AppendFacts
  <2> QED
    BY <2>2 DEF Tally
<1>8. Tally'.acking = Tally.acking
  <2>1. ~Is(head, AllAcks)
    BY <1>1, KindFacts
  <2>2. Count(up', AllAcks) = Count(up, AllAcks)
    BY <1>0, <2>1, CountTail DEF head
  <2> QED
    BY <2>2 DEF Tally
<1>9. /\ Load(Tally') <= Load(Tally) + n
      /\ SingleSum(Tally) => DoubleSum(Tally')
      /\ Load(Tally) = 0 /\ Tally.acking = 0 => SingleSum(Tally')
  BY <1>4, <1>5, <1>6, <1>7, <1>8, ExecuteSum
<1>10. Orderly => Tally.acking = 0
  <2> SUFFICES ASSUME Orderly PROVE Tally.acking = 0
    OBVIOUS
  <2>1. IsSeq(up') /\ \A y \in Elems(up') : Precedes(up, head, y)
    BY <1>0, TailSeq, TailOrder DEF head
  <2>2. \A y \in Elems(up') : ~Is(y, AllAcks)
    BY <1>1, <2>1, KindFacts DEF Orderly
  <2>3. Count(up', AllAcks) = 0
    BY <2>1, <2>2, CountSome
  <2>4. Tally'.acking = 0
    BY <2>3 DEF Tally
  <2> QED
    BY <1>8, <2>4
<1>11. ~Born => Single'
  BY <1>9, <1>10, QuietLoad DEF ThreadInv, Single
<1>12. ASSUME Budget' = Budget + n PROVE Load(Tally') <= Budget'
  <2>1. Budget \in Nat
    BY BudgetFacts DEF FullInv, IInv, TypeOK
  <2>2. Load(Tally) \in Nat /\ Load(Tally') \in Nat
    BY LoadNat
  <2>3. ASSUME NEW a \in Nat, NEW b \in Nat, NEW c \in Nat, a <= b + n, b <= c PROVE a <= c + n
    BY <1>4, <2>3
  <2>4. Load(Tally) <= Budget
    BY DEF ThreadInv
  <2>5. Load(Tally') <= Budget + n
    BY <1>9, <2>1, <2>2, <2>3, <2>4, Zenon
  <2> QED
    BY <1>12, <2>5
<1>13. CASE r = current
  <2>1. current \in Done' /\ current' \in Done' /\ current \notin Done
    BY <1>0, <1>1, <1>13 DEF Due
  <2>2. Born'
    BY <2>1 DEF Born
  <2>3. After' <=> After
    <3>1. current > 1 => current - 1 # current
      BY <1>0
    <3> QED
      BY <1>0, <1>1, <1>13, <3>1 DEF After
  <2>4. Budget' = Budget + n
    <3> DEFINE b == IF After THEN Chunks[Script[current - 1]] ELSE 0
    <3>1. b \in Nat
      <4>1. After => current - 1 \in Requests
        BY DEF After, FullInv, LinkInv, NumberInv
      <4> QED
        BY <4>1, ScriptAssumption, ChunkAssumption DEF Requests
    <3>2. Budget = 0 + b /\ Budget' = n + b
      BY <1>0, <1>13, <2>1, <2>3 DEF Budget, n
    <3> HIDE DEF b
    <3> QED
      BY <1>4, <3>1, <3>2
  <2>5. Load(Tally') <= Budget'
    BY <1>12, <2>4
  <2>6. CASE ~Born
    BY <1>11, <2>2, <2>5, <2>6 DEF ThreadInv
  <2>7. CASE Born
    <3>1. After
      BY <2>1, <2>7 DEF Born
    <3>2. (current - 1) + 1 = current
      BY <1>0
    <3>3. Late
      BY <1>1, <1>13, <3>1, <3>2 DEF Due, Late, After
    <3>4. Late'
      BY <1>0, <3>3 DEF Late
    <3>5. DoubleSum(Tally')
      BY <1>9, <2>1, <2>7 DEF ThreadInv, Single, Double
    <3>6. First[1] \notin Done /\ First' = First
      BY <1>0, <2>1 DEF First
    <3>7. Unacceptable'
      <4>1. NoFirst
        BY <3>6 DEF NoFirst, FullInv, PartInv, Answers
      <4> QED
        BY <1>0, <3>6, <4>1 DEF NoFirst, Unacceptable
    <3>8. FirstInv'
      <4>1. \A m \in Elems(down') : IsData(m) => m.part # First
        BY <1>1, <3>6 DEF FullInv, PartInv, Id
      <4> QED
        BY <3>6, <4>1 DEF FirstInv, Latest
    <3> QED
      BY <2>1, <2>2, <2>5, <3>4, <3>5, <3>7, <3>8 DEF ThreadInv, Double
  <2> QED
    BY <2>6, <2>7
<1>14. CASE r + 1 = current /\ outcome[r] = "unacked"
  <2>1. r = current - 1 /\ current > 1 /\ r # current /\ ~(current < r) /\ ~(r < r) /\ r \in Nat
    BY <1>0, <1>2, <1>14, Constants DEF Requests
  <2>2. current \notin Done /\ current - 1 \notin Done
    BY <1>1, <2>1 DEF Due
  <2>3. ~After /\ After' /\ ~(current' \in Done')
    BY <1>0, <1>1, <1>14, <2>1, <2>2 DEF After
  <2>4. ~Born /\ Born'
    BY <2>2, <2>3 DEF Born
  <2>5. Budget' = Budget + n
    <3>1. Budget = 0 + 0 /\ Budget' = 0 + n
      BY <1>0, <2>1, <2>2, <2>3 DEF Budget, n
    <3> QED
      BY <1>4, <3>1
  <2> QED
    BY <1>11, <1>12, <2>4, <2>5 DEF ThreadInv
<1> QED
  BY <1>2, <1>13, <1>14

\* The shade sends the next chunk of its response.
LEMMA ThreadEmits ==
  ASSUME FullInv, ThreadInv, Tally \in Tallies, Tally' \in Tallies, ShadeEmits
  PROVE  ThreadInv'
<1> DEFINE ended == Len(shade.frame) = 1
           chunk == Data(shade.tx, Head(shade.frame), ended)
<1>0. /\ UNCHANGED <<current, outcome, phase, responses, buffer, acking, up, executed>>
      /\ shade.state = Emits /\ down' = Append(down, chunk) /\ IsSeq(down)
      /\ shade' = [shade EXCEPT !.state = Awaits]
      /\ {"expected", "tx", "state", "frame"} \subseteq DOMAIN shade
  BY DEF ShadeEmits, callerVars, workerVars, FullInv, IInv, AirInv
<1>1. shade'.state = Awaits /\ shade'.tx = shade.tx /\ shade'.frame = shade.frame
  BY <1>0
<1>2. Len(shade.frame) \in Nat \ {0}
  <2>1. IsSeq(shade.frame) /\ shade.frame # <<>>
    BY <1>0 DEF FullInv, PartInv, Answers, Emits, Silent
  <2> QED
    BY <2>1 DEF IsSeq
<1>3. IsData(chunk) /\ (IsLast(chunk) <=> ended)
  BY DataKind
<1>4. /\ Rest = Len(shade.frame) /\ Rest' = Len(shade.frame) - 1 /\ Rest = Rest' + 1
      /\ ended => Rest' = 0
  <2>1. Rest = Len(shade.frame)
    BY <1>0 DEF Rest
  <2>2. Rest' = Len(shade.frame) - 1
    BY <1>1 DEF Rest, Emits, Awaits
  <2> QED
    BY <1>2, <2>1, <2>2
<1> HIDE DEF ended, chunk
<1>5. /\ Tally'.waiting = Tally.waiting /\ Tally'.held = Tally.held
      /\ Tally'.closing = Tally.closing /\ Tally'.acking = Tally.acking
      /\ Tally'.whole = Tally.whole
  BY <1>0 DEF Tally, Whole
<1>6. Tally.emitting = 1 /\ Tally'.emitting = 0 /\ Tally.rest = Tally'.rest + 1
  <2>1. One(shade.state = Emits) = 1 /\ One(shade'.state = Emits) = 0
    BY <1>0, <1>1 DEF One, Emits, Awaits
  <2> QED
    BY <1>4, <2>1 DEF Tally
<1>7. Tally'.flying = Tally.flying + 1
      /\ \/ Tally'.ending = Tally.ending + 1 /\ Tally'.rest = 0
         \/ Tally'.ending = Tally.ending
  <2>1. Is(chunk, AllChunks) /\ (Is(chunk, LastChunks) <=> ended)
    BY <1>3, KindFacts
  <2>2. /\ Count(down', AllChunks) = Count(down, AllChunks) + 1
        /\ ended => Count(down', LastChunks) = Count(down, LastChunks) + 1
        /\ ~ended => Count(down', LastChunks) = Count(down, LastChunks)
    BY <1>0, <2>1, CountAppend
  <2> QED
    BY <1>4, <2>2 DEF Tally
<1>8. Load(Tally) # 0 /\ Kept(Tally, Tally')
  BY <1>5, <1>6, <1>7, EmitSum
<1>9. (Born' <=> Born) /\ Budget' = Budget /\ (Late' <=> Late) /\ Done' = Done
  BY <1>0, StayFacts DEF FullInv
<1>10. ASSUME Double PROVE Double'
  <2>1. DoubleSum(Tally') /\ Late' /\ current' \in Done'
    BY <1>0, <1>8, <1>9, <1>10 DEF Double, Kept
  <2>2. phase' # "closed" => Unacceptable'
    BY <1>0, <1>10 DEF Double, Unacceptable, NoFirst, First, Accepted
  <2>3. FirstInv'
    <3>1. First' = First /\ \A m : Latest(m)' <=> Latest(m)
      BY <1>0, <1>1 DEF First, Latest
    <3>2. /\ Elems(down') \subseteq Elems(down) \cup {chunk}
          /\ \A x, y : Precedes(down', x, y) => x \in Elems(down)
      BY <1>0, AppendFacts, OrderedElems
    <3>3. \A m \in Elems(down) : ~(Latest(m) /\ m.part = First)
      BY <1>0, <1>10 DEF Double, FirstInv
    <3>4. IsLast(chunk) => Rest' = 0
      BY <1>3, <1>4
    <3>5. shade'.state # Emits
      BY <1>1 DEF Emits, Awaits
    <3> QED
      BY <3>1, <3>2, <3>3, <3>4, <3>5 DEF FirstInv
  <2> QED
    BY <2>1, <2>2, <2>3 DEF Double
<1> QED
  BY <1>8, <1>9, <1>10, ThreadMoves DEF Single, Kept

\* The shade's chunk is acknowledged: it goes on to the next one, or is done.
LEMMA ThreadNext ==
  ASSUME FullInv, SyncInv, ThreadInv, Tally \in Tallies, Tally' \in Tallies,
         ShadeTakesAck, shade.state = Awaits
  PROVE  ThreadInv'
<1>0. /\ UNCHANGED <<current, outcome, phase, txSequence, responses, buffer, acking, down, executed>>
      /\ up # <<>> /\ up' = Tail(up) /\ IsSeq(up)
      /\ {"expected", "tx", "state", "frame"} \subseteq DOMAIN shade
  BY DEF ShadeTakesAck, callerVars, workerVars, FullInv, IInv, AirInv
<1>1. /\ Head(up).seq = shade.tx /\ Count(up, AllAcks) = 1 /\ Count(up', AllAcks) = 0
      /\ \A m \in Elems(down') : ~Latest(m)'
  BY SyncAcked DEF FullInv
<1>2. /\ shade'.state = IF Len(shade.frame) = 1 THEN Silent ELSE Emits
      /\ shade'.frame = Tail(shade.frame)
  BY <1>0, <1>1 DEF ShadeTakesAck
<1>3. Len(shade.frame) \in Nat \ {0} /\ Len(Tail(shade.frame)) = Len(shade.frame) - 1
  <2>1. IsSeq(shade.frame) /\ shade.frame # <<>>
    BY DEF FullInv, PartInv, Answers, Awaits, Silent
  <2> QED
    BY <2>1 DEF IsSeq
<1>4. Rest' = Rest
  <2>1. Rest = Len(shade.frame) - 1
    BY DEF Rest, Emits, Awaits
  <2>2. CASE Len(shade.frame) = 1
    <3>1. Rest' = 0
      BY <1>2, <2>2 DEF Rest, Emits, Awaits, Silent
    <3> QED
      BY <2>1, <2>2, <3>1
  <2>3. CASE Len(shade.frame) # 1
    BY <1>2, <1>3, <2>1, <2>3 DEF Rest
  <2> QED
    BY <2>2, <2>3
<1>5. /\ Tally'.waiting = Tally.waiting /\ Tally'.held = Tally.held
      /\ Tally'.closing = Tally.closing /\ Tally'.flying = Tally.flying
      /\ Tally'.ending = Tally.ending /\ Tally'.whole = Tally.whole
  BY <1>0 DEF Tally, Whole
<1>6. /\ Tally.emitting = 0 /\ Tally'.rest = Tally.rest
      /\ Tally.acking = 1 /\ Tally'.acking = 0
  <2>1. One(shade.state = Emits) = 0
    BY DEF One, Emits, Awaits
  <2> QED
    BY <1>1, <1>4, <2>1 DEF Tally
<1>7. Kept(Tally, Tally')
  BY <1>5, <1>6, NextSum
<1>8. (Born' <=> Born) /\ Budget' = Budget /\ (Late' <=> Late) /\ Done' = Done
  BY <1>0, StayFacts DEF FullInv
<1>9. Orderly => Orderly'
  BY <1>0, TailOrder DEF Orderly, Fresh
<1>10. ASSUME Double PROVE Double'
  <2>1. DoubleSum(Tally') /\ Late' /\ current' \in Done'
    BY <1>0, <1>7, <1>8, <1>10 DEF Double, Kept
  <2>2. phase' # "closed" => Unacceptable'
    BY <1>0, <1>10 DEF Double, Unacceptable, NoFirst, First, Accepted
  <2>3. FirstInv'
    BY <1>1 DEF FirstInv
  <2> QED
    BY <2>1, <2>2, <2>3 DEF Double
<1>11. Load(Tally') <= Budget'
  BY <1>7, <1>8, BudgetKept DEF Kept
<1>12. Single => Single'
  BY <1>7 DEF Single, Kept
<1> QED
  BY <1>8, <1>9, <1>10, <1>11, <1>12 DEF ThreadInv

LEMMA NextThread ==
  ASSUME FullInv, FullInv', SyncInv, SyncInv', ThreadInv, [Next]_vars PROVE ThreadInv'
<1>1. Tally \in Tallies
  BY TallyType DEF FullInv
<1>2. Tally' \in Tallies
  <2>1. (IInv /\ PartInv /\ SyncInv)'
    BY DEF FullInv
  <2>2. (Tally \in Tallies)'
    BY <2>1, TallyType, PTL
  <2> QED
    BY <2>2
<1>3. ASSUME UNCHANGED shade PROVE Rest' = Rest
  BY <1>3 DEF Rest
<1>4. CASE Caller
  BY <1>1, <1>2, <1>4, CallerThread
<1>5. CASE WorkerTakesAck
  BY <1>1, <1>2, <1>3, <1>5, ThreadPassive DEF WorkerTakesAck, Working, workerVars, shadeVars
<1>6. CASE WorkerTakesChunk
  BY <1>1, <1>2, <1>6, ThreadTakes
<1>7. CASE WorkerRefusesChunk \/ WorkerAckFails
  BY <1>1, <1>2, <1>7, ThreadDrops
<1>8. CASE WorkerAcks
  BY <1>1, <1>2, <1>8, ThreadAcks
<1>9. CASE ShadeTakesChunk
  <2>1. CASE Head(up).seq = shade.expected
    BY <1>1, <1>2, <1>9, <2>1, ThreadExecute
  <2>2. CASE Head(up).seq # shade.expected
    BY <1>1, <1>2, <1>3, <1>9, <2>2, ThreadPassive DEF ShadeTakesChunk, workerVars, shadeVars
  <2> QED
    BY <2>1, <2>2
<1>10. CASE ShadeEmits
  BY <1>1, <1>2, <1>10, ThreadEmits
<1>11. CASE ShadeTakesAck
  <2>1. CASE shade.state = Awaits
    BY <1>1, <1>2, <1>11, <2>1, ThreadNext
  <2>2. CASE shade.state # Awaits
    BY <1>1, <1>2, <1>3, <1>11, <2>2, ThreadPassive DEF ShadeTakesAck, workerVars
  <2> QED
    BY <2>1, <2>2
<1>12. CASE ShadeGivesUp
  <2>1. /\ UNCHANGED callerVars /\ UNCHANGED <<responses, buffer, acking, executed, up, down>>
        /\ shade' = [shade EXCEPT !.state = Silent, !.frame = <<>>]
    BY <1>12 DEF ShadeGivesUp, workerVars
  <2>2. shade'.tx = shade.tx /\ shade'.state = Silent
    BY <2>1 DEF FullInv, IInv, AirInv
  <2>3. Rest' = 0 /\ shade'.state # Emits
    BY <2>2 DEF Rest, Silent, Emits, Awaits
  <2> QED
    BY <1>1, <1>2, <2>1, <2>2, <2>3, ThreadPassive
<1>13. CASE Lose
  BY <1>1, <1>2, <1>3, <1>13, ThreadPassive DEF Lose, workerVars, shadeVars
<1>14. CASE UNCHANGED vars
  BY <1>1, <1>2, <1>3, <1>14, ThreadPassive DEF vars, workerVars, shadeVars
<1> QED
  BY <1>4, <1>5, <1>6, <1>7, <1>8, <1>9, <1>10, <1>11, <1>12, <1>13, <1>14
     DEF Next, Worker, Shade

-----------------------------------------------------------------------------
\* What is under way, all together.
TrafficInv == SyncInv /\ TokenInv /\ ThreadInv

LEMMA InitTraffic == Init => TrafficInv
  BY InitSync, InitToken, InitThread DEF TrafficInv

LEMMA NextTraffic == FullInv /\ TrafficInv /\ [Next]_vars => FullInv' /\ TrafficInv'
<1> SUFFICES ASSUME FullInv, TrafficInv, [Next]_vars PROVE FullInv' /\ TrafficInv'
  OBVIOUS
<1>1. FullInv'
  BY NextFull
<1>2. SyncInv'
  BY NextSync DEF FullInv, TrafficInv
<1>3. TokenInv'
  BY <1>1, NextToken DEF FullInv, TrafficInv
<1>4. ThreadInv'
  BY <1>1, <1>2, NextThread DEF TrafficInv
<1> QED
  BY <1>1, <1>2, <1>3, <1>4 DEF TrafficInv

\* At most four copies of the caller's chunks are under way, of which ACKs can come, and
\* one response chunk; the two chunks of a late write and its readback leave room for two.
LEMMA TrafficBound == FullInv /\ TrafficInv => QueuesFit
<1> SUFFICES ASSUME FullInv, TrafficInv PROVE QueuesFit
  OBVIOUS
<1>1. Tally \in Tallies /\ IsSeq(down) /\ IsSeq(up) /\ IsSeq(responses)
  BY TallyType DEF FullInv, TrafficInv, IInv, AirInv, PartInv
<1>2. Len(responses) < QueueSize
  <2>1. Len(responses) <= 3 /\ Len(responses) \in Nat
    BY <1>1, WaitingBound, CountNat DEF TrafficInv
  <2> QED
    BY <2>1 DEF QueueSize
<1> DEFINE a == Count(down, AcksWith(txSequence))
           b == Count(down, AcksBut(txSequence))
           c == Count(down, AllChunks)
<1>3. Len(down) = c + a + b /\ a \in Nat /\ b \in Nat /\ c \in Nat
  BY <1>1, CountLength, CountNat
<1>4. /\ StaleCopies + FreshCopies <= 4 /\ (Late => StaleCopies + FreshCopies <= 2)
      /\ StaleCopies \in Nat /\ FreshCopies \in Nat
  BY EndBound, TokenNat DEF FullInv, TrafficInv, TokenInv
<1>5. a <= FreshCopies /\ b <= StaleCopies
  <2>1. Count(up, ChunksWith(txSequence)) \in Nat /\ Count(up, ChunksBut(txSequence)) \in Nat
    BY <1>1, CountNat
  <2> QED
    BY <1>3, <2>1 DEF FreshCopies, StaleCopies
<1>6. c <= 1 \/ (c <= 2 /\ Late)
  <2>1. Tally.flying = c
    BY TallyFields
  <2>2. /\ Load(Tally) = 0 => Tally.flying <= 1
        /\ SingleSum(Tally) => Tally.flying <= 1
        /\ DoubleSum(Tally) => Tally.flying <= 2
    BY <1>1 DEF Tallies, SingleSum, DoubleSum, Load, Threads
  <2> QED
    BY <1>1, <2>1, <2>2, QuietLoad DEF TrafficInv, ThreadInv, Single, Double
<1> HIDE DEF a, b, c
<1>7. Len(down) <= 5
  BY <1>3, <1>4, <1>5, <1>6
<1> QED
  BY <1>2, <1>7 DEF QueuesFit

\* Neither queue fills up, whatever is lost, late or transmitted again: a response is
\* never dropped for want of room (put_nowait of _response_queue), and at most five
\* notifications wait, far below the 128 that _notification_queue holds.
THEOREM QueuesTheorem == Spec => []QueuesFit
<1>1. Init => FullInv /\ TrafficInv
  BY InitFull, InitTraffic
<1> QED
  BY <1>1, NextTraffic, TrafficBound, PTL DEF Spec

=============================================================================
