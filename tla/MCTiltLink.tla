----------------------------- MODULE MCTiltLink -----------------------------
\* TLC instance of TiltLink: a session that moves the shade, handshake included.
EXTENDS TiltLink

SetPosition == <<"versions", "selection", "nonce", "read", "write", "read">>
NonceInThree == [kind \in Kinds |-> IF kind = "nonce" THEN 3 ELSE 1]
=============================================================================
