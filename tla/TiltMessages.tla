---------------------------- MODULE TiltMessages ----------------------------
(***************************************************************************)
(* What the messages of one BLE session say and how they are judged: the   *)
(* handshake of _TiltBleSession.authenticate, the encrypted requests that  *)
(* follow it, and the decoding of the answers in protocol.py.              *)
(*                                                                         *)
(* The transport is taken at its weakest: each answer of the shade may be  *)
(* lost, late, doubled or corrupted; none overtakes another.  The shade    *)
(* may hold another key, offer other versions and acknowledge instead of   *)
(* answering.  Encryption and checksums are modelled by what they tell     *)
(* apart: a frame is legible to the holder of its key unless it was        *)
(* corrupted.  "of" is the request a frame answers; no parser reads it.    *)
(***************************************************************************)
EXTENDS Naturals, Sequences

CONSTANTS
    Script,      \* the requests of the session, the handshake first
    Key,         \* the configured pairing key
    ShadeKeys,   \* the keys a shade in range may have
    Offers,      \* the sets of versions a shade may offer
    LastCounter, \* _MAX_COUNTER
    LastId,      \* the last message id before they wrap to 1
    MaxDoubles   \* bound on the answers the shade gives twice

Supported == {1, 2}           \* SUPPORTED_CRYPTO_PROTOCOLS, the greater preferred
Handshake == <<"versions", "select", "nonce">>

ASSUME ScriptAssumption ==
    /\ Script \in Seq({"versions", "select", "nonce", "read", "write"})
    /\ Len(Script) > 3 /\ SubSeq(Script, 1, 3) = Handshake
    /\ \A i \in 4..Len(Script) : Script[i] \in {"read", "write"}
    /\ Script[Len(Script)] = "read"
ASSUME KeyAssumption == Key \in ShadeKeys
ASSUME WidthAssumption == LastCounter \in Nat \ {0} /\ LastId \in Nat \ {0}
\* A session has at most three encrypted requests: the counter does not come round.
ASSUME LengthAssumption == Len(Script) - 3 <= LastCounter
ASSUME BoundAssumption == MaxDoubles \in Nat

VARIABLES
    step,      \* the request being put, or the one after the last
    phase,     \* "ready", "await" or "ended"
    outcome,   \* how the session ended
    ids,       \* _counter and _message_id, and those of the request being put
    chosen,    \* the version the client selected, 0 before
    responses, \* _response_queue
    taken,     \* history: which request the answer taken for each one answers
    shade,     \* its key, its offer and the version it has settled on
    up, down,  \* the air
    doubles    \* answers given twice so far

clientVars == <<step, phase, outcome, ids, chosen, responses, taken>>
vars == <<clientVars, shade, up, down, doubles>>

Init ==
    /\ step = 1 /\ phase = "ready" /\ outcome = "none"
    /\ ids = [counter |-> 1, id |-> 1, sent |-> <<0, 0>>]
    /\ chosen = 0
    /\ responses = <<>> /\ taken = <<>>
    /\ shade \in [key : ShadeKeys, offer : Offers, version : {0}]
    /\ up = <<>> /\ down = <<>> /\ doubles = 0

-----------------------------------------------------------------------------
\* Frames.

Crypto(i, command, value) ==
    [layer |-> "crypto", command |-> command, value |-> value, intact |-> TRUE, of |-> i]
Application(i, command, value, key, id) ==
    [layer |-> "application", command |-> command, value |-> value, key |-> key,
     ids |-> id, intact |-> TRUE, of |-> i]

Handshaking == step <= 3

\* encode_protocol_versions_request, encode_protocol_selection,
\* encode_nonce_request, encode_read_request, encode_position_request.
Request ==
    IF Handshaking THEN Crypto(step, Script[step], chosen)
    ELSE Application(step, Script[step], 0, Key, <<ids.counter, ids.id>>)

-----------------------------------------------------------------------------
\* The verdicts on a response: a set, since what a corrupted frame seems to say
\* decides whether its checksum or something else is found wrong.

Corrupted == {"auth", "protocol"}

\* parse_crypto_response, then the checks of the caller on an intact response.
CryptoVerdict(r, sound) ==
    IF r.layer # "crypto" THEN {"protocol"}
    ELSE IF ~r.intact THEN Corrupted
    ELSE {IF sound THEN "ok" ELSE "protocol"}

Common(r) == r.value \cap Supported
Best(versions) == CHOOSE v \in versions : \A w \in versions : w <= v

VersionsVerdict(r) ==
    CryptoVerdict(r, r.command = "versions" /\ Common(r) # {})

\* Faulty: which version the shade says it selected is not looked at.
SelectionVerdictOfAny(r) ==
    CryptoVerdict(r, r.command = "select" \/ (r.command = "ack" /\ r.value = "select"))

SelectionVerdict(r) ==
    CryptoVerdict(r, \/ r.command = "select" /\ r.value = chosen
                     \/ r.command = "ack" /\ r.value = "select")

\* Faulty: the proof of the pairing key is not checked.
NonceVerdictUnproved(r) == CryptoVerdict(r, r.command = "nonce")

\* pairing_key_matches_proof comes after the parsing.
NonceVerdict(r) ==
    IF r.layer = "crypto" /\ r.intact /\ r.command = "nonce" /\ r.value # Key
    THEN {"auth"} ELSE CryptoVerdict(r, r.command = "nonce")

\* Faulty: a response is known by its message id alone.
ApplicationVerdictById(r) ==
    IF r.layer # "application" THEN {"protocol"}
    ELSE IF ~r.intact THEN Corrupted
    ELSE IF r.key # Key THEN {"auth"}
    ELSE {IF r.ids[2] = ids.sent[2] /\ r.command = Script[step] THEN "ok" ELSE "protocol"}

\* decode_application_response, and parse_status after a read: an ACK of the very
\* command is decoded, but it is no status.  A crypto command read as an
\* application frame fails on the layer flag.
ApplicationVerdict(r) ==
    IF r.layer # "application" THEN {"protocol"}
    ELSE IF ~r.intact THEN Corrupted
    ELSE IF r.ids[1] # ids.sent[1] THEN {"protocol"}
    ELSE IF r.key # Key THEN {"auth"}
    ELSE {IF /\ r.ids[2] = ids.sent[2]
             /\ \/ r.command = Script[step]
                \/ r.command = "ack" /\ r.value = "write" /\ Script[step] = "write"
          THEN "ok" ELSE "protocol"}

Verdicts(r) ==
    CASE Script[step] = "versions" -> VersionsVerdict(r)
      [] Script[step] = "select"   -> SelectionVerdict(r)
      [] Script[step] = "nonce"    -> NonceVerdict(r)
      [] OTHER                     -> ApplicationVerdict(r)

-----------------------------------------------------------------------------
\* The client.

End(result) == phase' = "ended" /\ outcome' = result /\ UNCHANGED step

Advance ==
    /\ step' = step + 1
    /\ phase' = IF step = Len(Script) THEN "ended" ELSE "ready"
    /\ outcome' = IF step = Len(Script) THEN "ok" ELSE "none"

\* Faulty: message ids do not wrap.
TakeIdsUnwrapped ==
    ids' = [counter |-> IF ids.counter = LastCounter THEN 1 ELSE ids.counter + 1,
            id |-> ids.id + 1,
            sent |-> <<ids.counter, ids.id>>]

\* _take_application_ids
TakeIds ==
    ids' = [counter |-> IF ids.counter = LastCounter THEN 1 ELSE ids.counter + 1,
            id |-> IF ids.id = LastId THEN 1 ELSE ids.id + 1,
            sent |-> <<ids.counter, ids.id>>]

Send ==
    /\ phase = "ready" /\ responses = <<>>
    /\ up' = Append(up, Request)
    /\ phase' = "await"
    /\ IF Handshaking THEN UNCHANGED ids ELSE TakeIds
    /\ UNCHANGED <<step, outcome, chosen, responses, taken, shade, down, doubles>>

\* "Unexpected stale Tilt response before request."
RefuseStale ==
    /\ phase = "ready" /\ responses # <<>>
    /\ End("ble")
    /\ UNCHANGED <<ids, chosen, responses, taken, shade, up, down, doubles>>

Receive ==
    LET r == Head(responses) IN
    /\ phase = "await" /\ responses # <<>>
    /\ responses' = Tail(responses)
    /\ \E verdict \in Verdicts(r) :
          IF verdict = "ok"
          THEN /\ Advance
               /\ taken' = Append(taken, r.of)
               /\ chosen' = IF step = 1 THEN Best(Common(r)) ELSE chosen
          ELSE End(verdict) /\ UNCHANGED <<taken, chosen>>
    /\ UNCHANGED <<ids, shade, up, down, doubles>>

\* TiltBleTimeout ends the session, unless the readback of a write follows.
TimeOut ==
    /\ phase = "await" /\ responses = <<>>
    /\ IF Script[step] = "write"
       THEN Advance /\ taken' = Append(taken, step)
       ELSE End("timeout") /\ UNCHANGED taken
    /\ UNCHANGED <<ids, chosen, responses, shade, up, down, doubles>>

-----------------------------------------------------------------------------
\* The shade and the air.

\* What a shade says in the handshake, besides an ACK.
Values(command) ==
    CASE command = "versions" -> {shade.offer}
      [] command = "select"   -> shade.offer
      [] command = "nonce"    -> {shade.key}

\* What a shade may answer to a request.  A request in another key it ignores.
Answers(q) ==
    IF q.layer = "crypto"
    THEN {Crypto(q.of, "ack", q.command)}
            \cup {Crypto(q.of, q.command, v) : v \in Values(q.command)}
    ELSE {a \in {Application(q.of, q.command, 0, q.key, q.ids),
                 Application(q.of, "ack", q.command, q.key, q.ids)} : q.key = shade.key}

\* The version a shade has settled on once it gave answer a to request q.
Settled(q, a) ==
    IF q.command # "select" THEN shade.version
    ELSE IF a.command = "select" THEN a.value ELSE q.value

Answer ==
    /\ up # <<>>
    /\ up' = Tail(up)
    /\ \E a \in Answers(Head(up)), twice \in BOOLEAN :
          /\ twice => doubles < MaxDoubles
          /\ doubles' = IF twice THEN doubles + 1 ELSE doubles
          /\ down' = IF twice THEN down \o <<a, a>> ELSE Append(down, a)
          /\ shade' = [shade EXCEPT !.version = Settled(Head(up), a)]
    /\ UNCHANGED clientVars

\* The shade does not get a request, or does not answer it.
Ignore ==
    /\ up # <<>>
    /\ up' = Tail(up)
    /\ UNCHANGED <<clientVars, shade, down, doubles>>

\* An answer arrives, whole or not, at any time before the session is over.
Deliver ==
    /\ down # <<>> /\ phase # "ended"
    /\ down' = Tail(down)
    /\ \E intact \in BOOLEAN :
          responses' = Append(responses, [Head(down) EXCEPT !.intact = intact])
    /\ UNCHANGED <<step, phase, outcome, ids, chosen, taken, shade, up, doubles>>

Lose ==
    /\ down # <<>>
    /\ down' = Tail(down)
    /\ UNCHANGED <<clientVars, shade, up, doubles>>

-----------------------------------------------------------------------------
Next == Send \/ RefuseStale \/ Receive \/ TimeOut \/ Answer \/ Ignore \/ Deliver \/ Lose

Spec == Init /\ [][Next]_vars

-----------------------------------------------------------------------------
\* Type invariant of the session.
TypeOK ==
    /\ step \in 1..(Len(Script) + 1)
    /\ phase \in {"ready", "await", "ended"}
    /\ outcome \in {"none", "ok", "auth", "protocol", "ble", "timeout"}
    /\ phase = "ended" <=> outcome # "none"
    /\ ids.counter \in 1..LastCounter /\ ids.id \in 1..LastId
    /\ chosen \in Supported \cup {0}
    /\ doubles \in 0..MaxDoubles

\* A response is taken for the request it answers: neither an answer of the first
\* read that comes twice or late passes for the read-back, nor one of the
\* handshake for the next step of it (decode_application_response).
OwnAnswer == \A i \in 1..Len(taken) : taken[i] = i

\* A shade with another key is never sent an encrypted request, let alone a
\* position: the proof of the key is checked first (authenticate).
StrangerNotAsked ==
    \A i \in 1..Len(up) : up[i].layer = "application" => shade.key = Key

\* Past the selection, client and shade use the same version, the best both know
\* (the choice in authenticate and the check of the selection response).
VersionAgreed ==
    step > 2 => chosen = shade.version /\ chosen = Best(shade.offer \cap Supported)
=============================================================================
