------------------------------ MODULE Exchange ------------------------------
(***************************************************************************)
(* What one BLE session promises its caller (tilt/ble.py): the requests of *)
(* the session are put to the shade one after the other, in order; each is *)
(* carried out at most once, and never after a later one; a request is     *)
(* answered only after the shade carried it out; after an error no further *)
(* request is put, except that the caller of a position write that timed   *)
(* out goes on to read the position back.                                  *)
(***************************************************************************)
EXTENDS Naturals

CONSTANTS
    N,       \* the number of requests the session may put
    Writes   \* those that are position writes; the last request is none

VARIABLES
    current,  \* the request being put; N + 1 when all are settled
    outcome,  \* how each request ended for the caller
    executed  \* the requests the shade carried out

vars == <<current, outcome, executed>>

Requests == 1..N
Outcomes == {"none", "ok", "timeout", "error"}

Init ==
    /\ current = 1
    /\ outcome = [i \in Requests |-> "none"]
    /\ executed = {}

Failed == \E i \in Requests : outcome[i] = "error"

Settle(result) ==
    /\ current \in Requests /\ ~Failed
    /\ outcome' = [outcome EXCEPT ![current] = result]

\* The shade carries out a request, at the latest one whose caller gave up on it.
Execute(i) ==
    /\ i <= current
    /\ \A j \in executed : j < i
    /\ i < current => outcome[i] = "timeout"
    /\ executed' = executed \cup {i}
    /\ UNCHANGED <<current, outcome>>

Answer ==
    /\ current \in executed
    /\ Settle("ok")
    /\ current' = current + 1
    /\ UNCHANGED executed

\* TiltBleTimeout of set_position: the readback follows in the same session.
TimeOut ==
    /\ current \in Writes
    /\ Settle("timeout")
    /\ current' = current + 1
    /\ UNCHANGED executed

\* Any other error ends the session.
Abort == Settle("error") /\ UNCHANGED <<current, executed>>

Next == (\E i \in Requests : Execute(i)) \/ Answer \/ TimeOut \/ Abort

Spec == Init /\ [][Next]_vars
=============================================================================
