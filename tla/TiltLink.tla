------------------------------ MODULE TiltLink ------------------------------
(***************************************************************************)
(* The transport of one BLE session: _TiltBleSession._send_frame, which    *)
(* puts a request on the air and awaits the BLE-layer ACK and then the     *)
(* response; the notification worker, which takes what the shade sends,    *)
(* reassembles it and acknowledges it; and the shade, as the FakeShade-    *)
(* Client of the tests plays it.  Either direction of the air is FIFO and  *)
(* may lose what it carries.                                               *)
(*                                                                         *)
(* A request is its place in the session's script.  A request fits in one  *)
(* chunk (the longest has 11 bytes, a chunk 18); the chunks of a response  *)
(* are numbered.  A frame is the sequence of the chunks it was put         *)
(* together from.  Any timer may expire before the message it waits for    *)
(* arrives, so delay needs no action of its own.                           *)
(***************************************************************************)
EXTENDS Naturals, Sequences

Codec == INSTANCE TiltCodec

CONSTANTS
    Script,      \* the kinds of the session's requests, in order
    Chunks,      \* per kind, the number of chunks of its response
    MaxSequence, \* the last BLE sequence number before they wrap to 1
    MaxFaults    \* bound on lost messages and failing ACK writes

Kinds == {"versions", "selection", "nonce", "read", "write"}

\* set_position_and_read_status reads back after its write.
ASSUME ScriptAssumption ==
    /\ Script \in Seq(Kinds) /\ Script # <<>>
    /\ \A i \in 1..Len(Script) :
          Script[i] = "write" => i < Len(Script) /\ Script[i + 1] = "read"
ASSUME ChunkAssumption == Chunks \in [Kinds -> Nat \ {0}]
\* The longest response, the nonce's, has 49 bytes; those of a read and of a write fit
\* in one chunk of 18.
ASSUME ResponseAssumption ==
    /\ \A kind \in Kinds : Chunks[kind] <= 3
    /\ Chunks["write"] + Chunks["read"] <= 3
ASSUME SequenceAssumption == MaxSequence \in Nat \ {0, 1}
ASSUME FaultAssumption == MaxFaults \in Nat

VARIABLES
    \* the caller's task
    current,   \* the request being put
    outcome,   \* how each request ended
    phase,     \* where _send_frame stands
    tries,     \* chunk transmissions of the current request
    txSequence,\* _tx_sequence
    waiter,    \* the future in _ack_waiters for txSequence
    writing,   \* the write_gatt_char of the chunk has not returned
    \* the notification worker
    responses, \* _response_queue: frames and errors
    expected,  \* _assembler._expected_sequence
    buffer,    \* _assembler._buffer
    acking,    \* the ACK being written and the frame it completes
    \* the air and the shade
    up,        \* central to shade
    down,      \* shade to central
    shade,     \* the shade's transport state
    executed,  \* the requests the shade carried out, in order
    faults     \* faults so far

callerVars == <<current, outcome, phase, tries, txSequence, writing>>
workerVars == <<expected, buffer, acking>>
shadeVars  == <<shade, executed>>
vars == <<callerVars, waiter, responses, workerVars, up, down, shadeVars, faults>>

Requests == 1..Len(Script)
ShortQueue == 2                     \* Faulty: room for less than can be waiting
QueueSize == 4                      \* maxsize of _response_queue

Frame(request) == [part \in 1..Chunks[Script[request]] |-> <<request, part>>]
Error(kind)    == [error |-> kind]  \* an exception in the response queue
Message(frame) == [frame |-> frame]

Ack(s)  == [type |-> "ack", seq |-> s]
Data(s, part, last) == [type |-> "data", seq |-> s, part |-> part, last |-> last]

NextSequence(s) == Codec!NextSequence(s, MaxSequence)

NoAck  == [seq |-> 0, frame |-> <<>>]
Silent == "silent"  \* the shade has no response under way
Emits  == "emits"   \* its next chunk is due
Awaits == "awaits"  \* it awaits the ACK of a chunk

Init ==
    /\ current = 1
    /\ outcome = [i \in Requests |-> "none"]
    /\ phase = "ready"
    /\ tries = 0
    /\ txSequence = 1
    /\ waiter = "none" /\ writing = FALSE
    /\ responses = <<>>
    /\ expected = 1
    /\ buffer = <<>>
    /\ acking = NoAck
    /\ up = <<>>
    /\ down = <<>>
    /\ shade = [expected |-> 1, tx |-> 1, state |-> Silent, frame |-> <<>>]
    /\ executed = <<>>
    /\ faults = 0

-----------------------------------------------------------------------------
\* _send_frame, called for one request after the other.

\* Faulty: a position write is transmitted again like every other request.
AttemptsOfAll == 2

\* Faulty: one retransmission too many.
AttemptsOffByOne == IF Script[current] = "write" THEN 1 ELSE 3

Attempts == IF Script[current] = "write" THEN 1 ELSE 2

Settle(result, place) ==
    /\ outcome' = [outcome EXCEPT ![current] = result]
    /\ phase' = place
    /\ tries' = 0
    /\ waiter' = "none" /\ writing' = FALSE

\* An exception of the current request ends the session.
Abort == Settle("error", "closed") /\ UNCHANGED current

\* TiltBleTimeout: only a position write is followed by a readback.
TimedOut(result) ==
    IF Script[current] = "write"
    THEN Settle(result, "ready") /\ current' = current + 1
    ELSE Abort

\* The waiter is registered and the write begins.
Transmit ==
    /\ up' = Append(up, Data(txSequence, <<current, 1>>, TRUE))
    /\ waiter' = "pending" /\ writing' = TRUE
    /\ tries' = tries + 1

\* "Unexpected stale Tilt response before request."
RefuseStale ==
    /\ phase = "ready" /\ responses # <<>>
    /\ Abort
    /\ UNCHANGED <<txSequence, responses, workerVars, up, down, shadeVars, faults>>

SendChunk ==
    /\ phase = "ready" /\ responses = <<>>
    /\ Transmit
    /\ phase' = "ack"
    /\ UNCHANGED <<current, outcome, txSequence, responses, workerVars, down,
                   shadeVars, faults>>

\* write_gatt_char has no timeout; what it was given goes out meanwhile, and the ACK
\* may overtake its return.
WriteReturns ==
    /\ phase = "ack" /\ writing
    /\ writing' = FALSE
    /\ UNCHANGED <<current, outcome, phase, tries, txSequence, waiter, responses,
                   workerVars, up, down, shadeVars, faults>>

\* It raises something else than TimeoutError; a chunk that was not sent is one that
\* is lost.
SendFails ==
    /\ phase = "ack" /\ writing /\ faults < MaxFaults
    /\ faults' = faults + 1
    /\ Abort
    /\ UNCHANGED <<txSequence, responses, workerVars, up, down, shadeVars>>

Acknowledged ==
    /\ phase = "ack" /\ ~writing /\ waiter = "acked"
    /\ phase' = "response"
    /\ waiter' = "none"
    /\ txSequence' = NextSequence(txSequence)
    /\ UNCHANGED <<current, outcome, tries, writing, responses, workerVars, up, down,
                   shadeVars, faults>>

\* The waiter got an exception from the worker (_fail).
AckFails ==
    /\ phase = "ack" /\ ~writing /\ waiter = "failed"
    /\ Abort
    /\ UNCHANGED <<txSequence, responses, workerVars, up, down, shadeVars, faults>>

\* A TimeoutError: of the write, of the ACK timer or, from the worker, of an ACK
\* write of its own.
TimeoutRaised ==
    phase = "ack" /\ (writing \/ waiter \in {"pending", "expired"})

\* Faulty: every transmission takes a sequence number, acknowledged or not.
AckTimeoutAdvances ==
    /\ TimeoutRaised
    /\ IF tries < Attempts
       THEN /\ up' = Append(up, Data(NextSequence(txSequence), <<current, 1>>, TRUE))
            /\ waiter' = "pending" /\ writing' = TRUE
            /\ tries' = tries + 1
            /\ UNCHANGED <<current, outcome, phase>>
       ELSE TimedOut("unacked") /\ UNCHANGED up
    /\ txSequence' = NextSequence(txSequence)
    /\ UNCHANGED <<responses, workerVars, down, shadeVars, faults>>

AckTimeout ==
    /\ TimeoutRaised
    /\ IF tries < Attempts
       THEN Transmit /\ UNCHANGED <<current, outcome, phase>>
       ELSE TimedOut("unacked") /\ UNCHANGED up
    /\ UNCHANGED <<txSequence, responses, workerVars, down, shadeVars, faults>>

\* Parsing accepts the complete response to this very request only: header,
\* counter, message id and command are checked.
Accepted(response) == response = Message(Frame(current))

\* Faulty: counter, message id and command of the response are not compared.
TakeAnyResponse ==
    /\ phase = "response" /\ responses # <<>>
    /\ responses' = Tail(responses)
    /\ \/ /\ "frame" \in DOMAIN Head(responses)
          /\ Settle("ok", IF current = Len(Script) THEN "closed" ELSE "ready")
          /\ current' = current + 1
       \/ Abort
    /\ UNCHANGED <<txSequence, workerVars, up, down, shadeVars, faults>>

\* What an accepted response says may still be refused.
TakeResponse ==
    /\ phase = "response" /\ responses # <<>>
    /\ responses' = Tail(responses)
    /\ \/ /\ Accepted(Head(responses))
          /\ Settle("ok", IF current = Len(Script) THEN "closed" ELSE "ready")
          /\ current' = current + 1
       \/ Abort
    /\ UNCHANGED <<txSequence, workerVars, up, down, shadeVars, faults>>

\* Faulty: the response is awaited without a timeout.
AwaitForever == phase = "response" /\ responses = <<>> /\ UNCHANGED vars

ResponseTimeout ==
    /\ phase = "response" /\ responses = <<>>
    /\ TimedOut("unanswered")
    /\ UNCHANGED <<txSequence, responses, workerVars, up, down, shadeVars, faults>>

-----------------------------------------------------------------------------
\* The notification worker.

\* _fail: the error goes to the waiting caller and into the response queue.
Fail(kind) ==
    /\ waiter' = IF waiter # "pending" THEN waiter
                 ELSE IF kind = "timeout" THEN "expired" ELSE "failed"
    /\ responses' = IF Len(responses) < QueueSize
                    THEN Append(responses, Error(kind)) ELSE responses

Working == acking = NoAck /\ down # <<>> /\ phase # "closed"

\* Faulty: any ACK is taken for the one awaited.
WorkerTakesAnyAck ==
    /\ Working /\ Head(down).type = "ack"
    /\ down' = Tail(down)
    /\ waiter' = IF waiter = "pending" THEN "acked" ELSE waiter
    /\ UNCHANGED <<callerVars, responses, workerVars, up, shadeVars, faults>>

WorkerTakesAck ==
    /\ Working /\ Head(down).type = "ack"
    /\ down' = Tail(down)
    /\ waiter' = IF waiter = "pending" /\ Head(down).seq = txSequence
                 THEN "acked" ELSE waiter
    /\ UNCHANGED <<callerVars, responses, workerVars, up, shadeVars, faults>>

\* BleMessageAssembler.add of the next chunk, then the ACK write begins.
WorkerTakesChunk ==
    LET chunk == Head(down) IN
    /\ Working /\ chunk.type = "data" /\ chunk.seq = expected
    /\ down' = Tail(down)
    /\ expected' = NextSequence(expected)
    /\ buffer' = IF chunk.last THEN <<>> ELSE Append(buffer, chunk.part)
    /\ acking' = [seq |-> chunk.seq,
                  frame |-> IF chunk.last THEN Append(buffer, chunk.part) ELSE <<>>]
    /\ UNCHANGED <<callerVars, waiter, responses, up, shadeVars, faults>>

\* "Received a non-contiguous BLE sequence."
WorkerRefusesChunk ==
    /\ Working /\ Head(down).type = "data" /\ Head(down).seq # expected
    /\ down' = Tail(down)
    /\ buffer' = <<>>
    /\ Fail("protocol")
    /\ UNCHANGED <<callerVars, expected, acking, up, shadeVars, faults>>

WorkerAcks ==
    /\ acking # NoAck /\ phase # "closed"
    /\ up' = Append(up, Ack(acking.seq))
    /\ acking' = NoAck
    /\ IF acking.frame = <<>>
       THEN UNCHANGED <<waiter, responses>>
       ELSE IF Len(responses) < QueueSize
       THEN responses' = Append(responses, Message(acking.frame)) /\ UNCHANGED waiter
       ELSE Fail("full")
    /\ UNCHANGED <<callerVars, expected, buffer, down, shadeVars, faults>>

\* The ACK write raises, with the ACK sent or not: the frame it completed is lost.
WorkerAckFails ==
    /\ acking # NoAck /\ phase # "closed" /\ faults < MaxFaults
    /\ faults' = faults + 1
    /\ acking' = NoAck
    /\ up' \in {up, Append(up, Ack(acking.seq))}
    /\ \E kind \in {"timeout", "ble"} : Fail(kind)
    /\ UNCHANGED <<callerVars, expected, buffer, down, shadeVars>>

-----------------------------------------------------------------------------
\* The shade.

\* Every data chunk is acknowledged; only the expected one is carried out.
ShadeTakesChunk ==
    LET chunk == Head(up) IN
    /\ up # <<>> /\ chunk.type = "data"
    /\ up' = Tail(up)
    /\ down' = Append(down, Ack(chunk.seq))
    /\ IF chunk.seq = shade.expected
       THEN /\ executed' = Append(executed, chunk.part[1])
            /\ shade' = [shade EXCEPT !.expected = NextSequence(@), !.state = Emits,
                                      !.frame = Frame(chunk.part[1])]
       ELSE UNCHANGED shadeVars
    /\ UNCHANGED <<callerVars, waiter, responses, workerVars, faults>>

ShadeEmits ==
    /\ shade.state = Emits
    /\ down' = Append(down, Data(shade.tx, Head(shade.frame), Len(shade.frame) = 1))
    /\ shade' = [shade EXCEPT !.state = Awaits]
    /\ UNCHANGED <<callerVars, waiter, responses, workerVars, up, executed, faults>>

ShadeTakesAck ==
    /\ up # <<>> /\ Head(up).type = "ack"
    /\ up' = Tail(up)
    /\ shade' = IF shade.state = Awaits /\ Head(up).seq = shade.tx
                THEN [shade EXCEPT !.tx = NextSequence(@), !.frame = Tail(@),
                                   !.state = IF Len(shade.frame) = 1 THEN Silent ELSE Emits]
                ELSE shade
    /\ UNCHANGED <<callerVars, waiter, responses, workerVars, down, executed, faults>>

\* The ACK of a chunk does not come: the rest of the response is dropped.
ShadeGivesUp ==
    /\ shade.state = Awaits
    /\ shade' = [shade EXCEPT !.state = Silent, !.frame = <<>>]
    /\ UNCHANGED <<callerVars, waiter, responses, workerVars, up, down, executed, faults>>

Lose ==
    /\ faults < MaxFaults
    /\ faults' = faults + 1
    /\ \/ up # <<>> /\ up' = Tail(up) /\ UNCHANGED down
       \/ down # <<>> /\ down' = Tail(down) /\ UNCHANGED up
    /\ UNCHANGED <<callerVars, waiter, responses, workerVars, shadeVars>>

-----------------------------------------------------------------------------
Caller == \/ RefuseStale \/ SendChunk \/ WriteReturns \/ SendFails \/ Acknowledged
          \/ AckFails \/ AckTimeout \/ TakeResponse \/ ResponseTimeout
Worker == \/ WorkerTakesAck \/ WorkerTakesChunk \/ WorkerRefusesChunk
          \/ WorkerAcks \/ WorkerAckFails
Shade  == ShadeTakesChunk \/ ShadeEmits \/ ShadeTakesAck \/ ShadeGivesUp

Next == Caller \/ Worker \/ Shade \/ Lose

Spec == Init /\ [][Next]_vars

\* The caller's timers expire and its task runs.  Nothing else need happen: a write
\* that does not return holds the caller for good.
FairSpec == Spec /\ WF_vars(~writing /\ Caller)

-----------------------------------------------------------------------------
Outcomes == {"none", "ok", "unacked", "unanswered", "error"}

\* Type invariant of the session and of the air.
TypeOK ==
    /\ current \in 1..(Len(Script) + 1)
    /\ outcome \in [Requests -> Outcomes]
    /\ phase \in {"ready", "ack", "response", "closed"}
    /\ tries \in 0..2
    /\ {txSequence, expected, shade.expected, shade.tx} \subseteq 1..MaxSequence
    /\ waiter \in {"none", "pending", "acked", "failed", "expired"}
    /\ writing \in BOOLEAN
    /\ shade.state \in {Silent, Emits, Awaits}
    /\ acking.seq \in 0..MaxSequence
    /\ faults \in 0..MaxFaults

Done == {executed[k] : k \in 1..Len(executed)}

\* The shade carries out the requests of a session in order and none of them
\* twice, although their chunks are transmitted again and the readback of a
\* write that timed out reuses its sequence number (_send_frame).
ExecutedInOrder ==
    \A k, m \in 1..Len(executed) : k < m => executed[k] < executed[m]

\* A position write is put on the air once: no timeout, and no error of the
\* worker, transmits its chunk again (retry_chunks=False of set_position).
WriteSentOnce ==
    [][\A i \in Requests :
          Script[i] = "write" /\ Len(up') > Len(up) /\ up'[Len(up')].type = "data"
          /\ up'[Len(up')].part[1] = i => current = i /\ tries = 0]_vars

\* An ACK is credited to the chunk the shade took.  The exception is the readback
\* of an unacknowledged write, whose sequence number a late ACK of the write also
\* carries (_ack_waiters is keyed by sequence).
AckMeansTaken ==
    phase = "response" =>
        \/ current \in Done
        \/ current > 1 /\ outcome[current - 1] = "unacked"

\* A readback that is accepted after a write timed out settles the write: it was
\* carried out if its ACK had come, and it never was, nor will be, if it had not
\* (set_position_and_read_status relies on the readback alone).
ReadbackSettlesWrite ==
    \A i \in Requests :
        outcome[i] \in {"unacked", "unanswered"} /\ outcome[i + 1] = "ok" =>
            /\ i \in Done <=> outcome[i] = "unanswered"
            /\ \A k \in 1..Len(up) : up[k].type = "data" => up[k].part[1] # i

\* Neither queue of the session fills up: no frame is dropped for want of room in
\* _response_queue (put_nowait in the worker), and never more than five notifications
\* are on their way or in _notification_queue (maxsize=128), since the shade sends a
\* chunk only when its last one was acknowledged.
QueuesFit == Len(responses) < QueueSize /\ Len(down) <= 5

\* An answer comes from the shade and belongs to its request, and nothing follows
\* an error: the session implements Exchange.
E == INSTANCE Exchange
     WITH N <- Len(Script),
          Writes <- {i \in Requests : Script[i] = "write"},
          executed <- Done,
          outcome <- [i \in Requests |->
                         IF outcome[i] \in {"unacked", "unanswered"} THEN "timeout"
                         ELSE outcome[i]]

ImplementsExchange == E!Spec

\* Every session ends, whatever is lost and whatever the shade leaves out, if each
\* write_gatt_char returns or raises: the other two waits of _send_frame have a
\* timeout, that one has none.
SessionEnds == []<>~writing => <>(phase = "closed")
=============================================================================
