---------------------------- MODULE MCTiltClient ----------------------------
\* TLC instance of TiltClient: a few calls on one event loop.
EXTENDS TiltClient

CONSTANTS c1, c2, l1

OneLoop == [c \in Calls |-> l1]
=============================================================================
