----------------------------- MODULE SmartBlind -----------------------------
(***************************************************************************)
(* The legacy driver of one motor: SmartBlind of blind.py.  Calls of       *)
(* set_tilt, set_tilt_percent and keyscan share the object's key and       *)
(* tracked position without a lock; each write opens a link of its own.    *)
(*                                                                         *)
(* The motor is external.  It obeys a link on which its key was written;   *)
(* on any other it refuses the position with an error, or lets it pass     *)
(* unheeded (const.py: unverified on current firmware).                    *)
(* A key is its first byte.                                                *)
(***************************************************************************)
EXTENDS Integers

CONSTANTS
    Calls,      \* the calls made on one SmartBlind
    LastKey,    \* KEY_SCAN_LAST; KEY_SCAN_FIRST is 0
    MotorKey,   \* the key of the motor
    Targets,    \* the positions set_tilt is asked for
    Percents    \* the percents set_tilt_percent is asked for

PositionMax == 200

ASSUME KeyAssumption == LastKey \in Nat /\ MotorKey \in 0..LastKey
ASSUME TargetAssumption == Targets \subseteq Int /\ Percents \subseteq Int

VARIABLES
    key,        \* _key
    position,   \* the tracked position
    call,       \* the state of each call
    tilt,       \* where the motor is
    inStep      \* history: the last write that reached the motor is of a call that
                \* ran alone and recorded it

vars == <<key, position, call, tilt, inStep>>

Keys == 0..LastKey
Places == {"idle", "connect", "key", "tilt", "disconnect", "done"}

NotBegun ==
    [pc |-> "idle", kind |-> "tilt", target |-> 0, candidate |-> 0,
     alone |-> TRUE,     \* no other call was in flight with it
     solo |-> TRUE,      \* no other scan was
     reached |-> FALSE,  \* it was given a client
     linked |-> FALSE,   \* its link is up
     wrote |-> -1,       \* the key that was written on this link
     found |-> -1,       \* the key that the scan returned
     obeyed |-> FALSE,   \* the motor took its position
     raised |-> "none",  \* the exception the finally clause holds
     broken |-> FALSE,   \* its disconnect raised or was cancelled
     result |-> "none"]

Init ==
    /\ key \in Keys
    /\ position = 0
    /\ tilt \in {0, 100}
    /\ call = [c \in Calls |-> NotBegun]
    /\ inStep = FALSE

InFlight == {c \in Calls : call[c].pc \notin {"idle", "done"}}
Scans    == {c \in InFlight : call[c].kind = "scan"}

\* round(clamped percent / 100 * POSITION_MAX); a whole percent is a whole tilt.
TiltOfPercent(percent) ==
    2 * (IF percent < 0 THEN 0 ELSE IF percent > 100 THEN 100 ELSE percent)

-----------------------------------------------------------------------------
\* How a call begins and ends.

\* The calls, once c has begun as described by first.
Begun(c, first) ==
    [d \in Calls |->
        IF d = c THEN [first EXCEPT !.alone = (InFlight = {}), !.solo = (Scans = {})]
        ELSE IF d \in InFlight
        THEN [call[d] EXCEPT !.alone = FALSE, !.solo = @ /\ first.kind # "scan"]
        ELSE call[d]]

\* Faulty: the tracked position is assigned before the write.
SetTiltEarly(c, target) ==
    /\ call[c].pc = "idle" /\ target \in 0..PositionMax
    /\ call' = Begun(c, [NotBegun EXCEPT !.pc = "connect", !.target = target])
    /\ position' = target
    /\ UNCHANGED <<key, tilt, inStep>>

\* Faulty: the object's key is the first one again.
SetTiltFirstKey(c, target) ==
    /\ call[c].pc = "idle" /\ target \in 0..PositionMax
    /\ key' = 0
    /\ call' = Begun(c, [NotBegun EXCEPT !.pc = "connect", !.target = target])
    /\ UNCHANGED <<position, tilt, inStep>>

SetTilt(c, target) ==
    /\ call[c].pc = "idle" /\ target \in 0..PositionMax
    /\ call' = Begun(c, [NotBegun EXCEPT !.pc = "connect", !.target = target])
    /\ UNCHANGED <<key, position, tilt, inStep>>

\* InvalidPosition, before anything is awaited.
SetTiltRefused(c, target) ==
    /\ call[c].pc = "idle" /\ target \notin 0..PositionMax
    /\ call' = [call EXCEPT ![c].pc = "done", ![c].target = target,
                            ![c].result = "invalid"]
    /\ UNCHANGED <<key, position, tilt, inStep>>

Keyscan(c) ==
    /\ call[c].pc = "idle"
    /\ key' = 0
    /\ call' = Begun(c, [NotBegun EXCEPT !.pc = "connect", !.kind = "scan",
                                         !.target = PositionMax])
    /\ UNCHANGED <<position, tilt, inStep>>

\* Call c ends by raising; what it left of its link is in state.
Raise(c, state, error) ==
    /\ call' = [call EXCEPT ![c] = [state EXCEPT !.pc = "done", !.result = error]]
    /\ UNCHANGED <<key, position, inStep>>

-----------------------------------------------------------------------------
\* _write, with what set_tilt and keyscan do with its end.

\* Faulty: the scan starts over when the keys are exhausted.
ConnectFailsForever(c) ==
    LET next == (call[c].candidate + 1) % (LastKey + 1) IN
    /\ call[c].pc = "connect" /\ call[c].kind = "scan"
    /\ key' = next
    /\ call' = [call EXCEPT ![c].candidate = next]
    /\ UNCHANGED <<position, tilt, inStep>>

\* Faulty: the scan is one candidate too long.
ConnectFailsPastTheLast(c) ==
    LET self == call[c] IN
    /\ self.pc = "connect"
    /\ IF self.kind = "scan" /\ self.candidate <= LastKey
       THEN /\ key' = self.candidate + 1
            /\ call' = [call EXCEPT ![c].candidate = @ + 1]
            /\ UNCHANGED <<position, inStep>>
       ELSE Raise(c, self, IF self.kind = "scan" THEN "notfound" ELSE "connection")
    /\ UNCHANGED tilt

\* ConnectionFailed ends set_tilt; the scan goes on to the next candidate.
ConnectFails(c) ==
    LET self == call[c] IN
    /\ self.pc = "connect"
    /\ IF self.kind = "scan" /\ self.candidate < LastKey
       THEN /\ key' = self.candidate + 1
            /\ call' = [call EXCEPT ![c].candidate = @ + 1]
            /\ UNCHANGED <<position, inStep>>
       ELSE Raise(c, self, IF self.kind = "scan" THEN "notfound" ELSE "connection")
    /\ UNCHANGED tilt

Connected(c) ==
    /\ call[c].pc = "connect"
    /\ call' = [call EXCEPT ![c].pc = "key", ![c].reached = TRUE, ![c].linked = TRUE]
    /\ UNCHANGED <<key, position, tilt, inStep>>

\* The key is the object's at the time of the write, whoever put it there.
WriteKey(c) ==
    /\ call[c].pc = "key"
    /\ call' = [call EXCEPT ![c].pc = "tilt", ![c].wrote = key]
    /\ UNCHANGED <<key, position, tilt, inStep>>

\* What the motor does with the position that c writes.
Opened(c)     == call[c].wrote = MotorKey
MotorTakes(c) == Opened(c) /\ tilt' = call[c].target /\ inStep' = FALSE
MotorLeaves   == UNCHANGED <<tilt, inStep>>

WriteTilt(c) ==
    /\ call[c].pc = "tilt"
    /\ IF Opened(c) THEN MotorTakes(c) ELSE MotorLeaves
    /\ \E error \in {"none", "ble"} :
          /\ Opened(c) => error = "none"
          /\ call' = [call EXCEPT ![c].pc = "disconnect", ![c].obeyed = Opened(c),
                                  ![c].raised = error]
    /\ UNCHANGED <<key, position>>

\* Faulty: an exception in a write leaves the link up.
WriteFailsUnclosed(c) ==
    /\ call[c].pc \in {"key", "tilt"}
    /\ MotorLeaves
    /\ call' = [call EXCEPT ![c].pc = "done", ![c].result = "ble"]
    /\ UNCHANGED <<key, position>>

\* A write raises, or its call is cancelled in it; the motor may have taken it.
WriteFails(c) ==
    /\ call[c].pc \in {"key", "tilt"}
    /\ \/ MotorLeaves
       \/ call[c].pc = "tilt" /\ MotorTakes(c)
    /\ \E error \in {"ble", "cancelled"} :
          call' = [call EXCEPT ![c].pc = "disconnect", ![c].raised = error]
    /\ UNCHANGED <<key, position>>

\* set_tilt records the position; keyscan returns the object's key of the moment.
Succeed(c, state) ==
    /\ position' = state.target
    /\ inStep' = (state.alone /\ state.obeyed)
    /\ call' = [call EXCEPT ![c] = [state EXCEPT !.pc = "done", !.result = "ok",
                                                 !.found = key]]
    /\ UNCHANGED key

Disconnect(c) ==
    LET state == [call[c] EXCEPT !.linked = FALSE] IN
    /\ call[c].pc = "disconnect"
    /\ IF state.raised = "none" THEN Succeed(c, state) ELSE Raise(c, state, state.raised)
    /\ UNCHANGED tilt

\* disconnect() raises or is cancelled: its exception replaces the one held.
DisconnectFails(c) ==
    /\ call[c].pc = "disconnect"
    /\ \E linked \in BOOLEAN, error \in {"ble", "cancelled"} :
          Raise(c, [call[c] EXCEPT !.linked = linked, !.broken = TRUE], error)
    /\ UNCHANGED tilt

\* establish_connection is awaited ahead of the try: a link it brought up stays up.
CancelConnect(c) ==
    /\ call[c].pc = "connect"
    /\ \E linked \in BOOLEAN : Raise(c, [call[c] EXCEPT !.linked = linked], "cancelled")
    /\ UNCHANGED tilt

-----------------------------------------------------------------------------
Begin(c) == \/ \E target \in Targets : SetTilt(c, target) \/ SetTiltRefused(c, target)
            \/ \E percent \in Percents : SetTilt(c, TiltOfPercent(percent))
            \/ Keyscan(c)

Step(c) == \/ ConnectFails(c) \/ Connected(c) \/ WriteKey(c) \/ WriteTilt(c)
           \/ WriteFails(c) \/ Disconnect(c) \/ DisconnectFails(c) \/ CancelConnect(c)

Next == \E c \in Calls : Begin(c) \/ Step(c)

\* A call that awaits is resumed: the timeouts are those of the BLE backend.
Spec == Init /\ [][Next]_vars /\ \A c \in Calls : WF_vars(Step(c))

-----------------------------------------------------------------------------
Results == {"none", "ok", "invalid", "connection", "ble", "cancelled", "notfound"}

\* Type invariant of the object, its calls and the motor.
TypeOK ==
    /\ key \in Keys
    /\ {position, tilt} \subseteq 0..PositionMax
    /\ \A c \in Calls :
          /\ call[c].pc \in Places /\ call[c].result \in Results
          /\ call[c].candidate \in Keys
          /\ call[c].pc = "done" <=> call[c].result # "none"

\* The tracked position is the motor's, once a call that ran alone was obeyed and
\* until another write reaches the motor: calls that fail before their write
\* leave it alone (set_tilt assigns after _write returned).
PositionKeptInStep == inStep => position = tilt

\* The key that keyscan returns is the candidate it wrote on the link of its successful
\* write, whatever calls of set_tilt run meanwhile, unless another scan did: the key is
\* the object's, read at the write and read again at the return.
ScanReturnsItsKey ==
    \A c \in Calls :
        call[c].kind = "scan" /\ call[c].result = "ok" /\ call[c].solo =>
            call[c].found = call[c].candidate /\ call[c].wrote = call[c].candidate

\* A call that has ended leaves a link up in two cases only: its disconnect raised or
\* was cancelled, or it was cancelled while the link was being established, which the
\* finally clause of _write does not cover.
LinksAreClosed ==
    \A c \in Calls : call[c].pc = "done" /\ call[c].linked =>
        call[c].broken \/ (call[c].result = "cancelled" /\ ~call[c].reached)

\* A write that does not succeed makes the scan try the next key: "Brute-force the
\* first key byte (0x00..0xFF) until a write succeeds.  [...] Raises KeyNotFound if
\* exhausted."  The error of a disconnect is left aside.
ScanSurvivesRefusal ==
    \A c \in Calls :
        call[c].kind = "scan" /\ call[c].result = "ble" => call[c].broken

\* Every call ends, a scan after at most LastKey + 1 links (keyscan).
EveryCallEnds == \A c \in Calls : call[c].pc = "connect" ~> call[c].pc = "done"
=============================================================================
