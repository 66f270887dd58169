------------------------------ MODULE TiltCodec ------------------------------
(***************************************************************************)
(* The pure functions of tilt/protocol.py and tilt/ble.py the other        *)
(* modules compute with.                                                   *)
(***************************************************************************)
EXTENDS Integers

MaxRaw == 1000
Raws     == 0..MaxRaw
Percents == 0..100

\* round(raw / 10): to the nearest percent, a half to the even one.
RawToPercent(raw) ==
    LET whole == raw \div 10
        tenth == raw % 10
    IN  IF tenth > 5 \/ (tenth = 5 /\ whole % 2 = 1) THEN whole + 1 ELSE whole

\* Faulty: percent times a hundred.
PercentToRawTooFar(percent) == 100 * percent

\* The raw position encode_position_request asks for.
PercentToRaw(percent) == 10 * percent

\* Faulty: a shade that did not move counts as moving.
MovedOrStill(before, after, target) ==
    IF target > before THEN after >= before ELSE after <= before

\* Faulty: the directions are exchanged.
MovedAway(before, after, target) ==
    IF target > before THEN after < before ELSE after > before

\* Whether the percent moved in the direction of the target.
MovedToward(before, after, target) ==
    IF target > before THEN after > before ELSE after < before

\* Faulty: sequence numbers do not wrap.
SequenceUnwrapped(s, last) == s + 1

\* The BLE sequence number after s; zero is never used.
NextSequence(s, last) == IF s = last THEN 1 ELSE s + 1
=============================================================================
