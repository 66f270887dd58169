--------------------------- MODULE MCTiltMessages ---------------------------
\* TLC instance of TiltMessages: the session of set_position_and_read_status.
EXTENDS TiltMessages

SetPosition == Handshake \o <<"read", "write", "read">>
VersionSets == {{1}, {2}, {1, 2}, {2, 3}, {3}, {}}
=============================================================================
