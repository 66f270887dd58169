# A verification project for smartblinds-ble

TLA+ models of the Tilt BLE client of this repository, of its legacy driver and of the
tools that save and try the pairing keys, TLC instances that check them, and TLAPS
proofs of their safety properties. Paths below are relative to the repository's
package, `src/smartblinds_ble/`, unless they say otherwise.

## 1. The system

| Component | State | Operations | Hard because |
|---|---|---|---|
| Client session lifecycle, `tilt/ble.py` `TiltShadeClient` | one `asyncio.Lock` per event loop; the bleak client of the current session | `read_status` (retried once), `set_position_and_read_status`, `_run_session`, `_close_ble_client` | tasks interleave, callers are cancelled at any await, the cleanup outlives its caller |
| BLE session transport, `tilt/ble.py` `_TiltBleSession` | `_tx_sequence`, `_ack_waiters`, `_response_queue`, the worker task, the assembler | `_send_frame`, `_notification_worker`, `_fail` | messages are lost or late, chunks are retransmitted, two tasks share the waiters and the queue |
| Position command, `set_position_and_read_status` | two readings and a target | read, write, read back, judge | the shade moves by itself, the write may be lost or late, percents are rounded |
| BLE chunk layer, `tilt/protocol.py` | sequence numbers modulo 63, the reassembly buffer | `chunk_for_ble`, `BleMessageAssembler.add` | wrap-around, lost and repeated chunks |
| Handshake, `_TiltBleSession.authenticate` | the negotiated version, the nonce | three requests | what a confused or wrong shade answers |
| Message codec, `tilt/protocol.py` | counter and message id (kept by the session) | encoders and parsers, CRC-16, AES-CTR, HMAC | late and doubled answers, ids that wrap, field ranges |
| Legacy driver, `blind.py` | the key, an optimistic position | `set_tilt`, `set_tilt_percent`, `keyscan` | concurrent calls without a lock, partial failure |
| Gate, `contrib/gate_auth_mac.py` | the problems counted so far | loops over shades and keys | which errors end which loop |
| Key export, `tilt_cloud.py`, `cloud.py`, `tools/import_*.py` | the exported key file | log in, fetch, extract, write JSON | failures and crashes around the write, an account that changes |
| Key finder, `tools/find_key.py` | none | `keyscan` on one device after the other | - |
| `scanner.py`, `contrib/parse_pklg.py`, `contrib/mitm_tilt_addon.py`, `const.py`, `exceptions.py` | none | pure I/O, constants | - |

How they interact: `TiltShadeClient` takes the lock of its loop, asks a factory
for a bleak client, and makes a `_TiltBleSession` on it. `start()` registers the
notification callback and starts the worker; `authenticate()` and the operation
put requests through `_send_frame`, which waits first for the ACK future that the
worker resolves and then for the response queue that the worker fills. The
session is closed by a separate cleanup task behind `asyncio.shield`, and only
then is the lock released. The gate calls `read_status` and sees only how it ends. The
legacy driver shares nothing with the Tilt client, and the importers share only the
key files with the rest.

What makes each part correct: sessions of a loop exclude each other and always
end closed; a call writes at most once; a cancelled call stays cancelled; requests
are obeyed in order and at most once; an answer belongs to its request; the
verdict of a position command agrees with what the shade did; a message is
reassembled whole; a shade of another key is never asked anything; the tracked
position is the motor's, and the key a scan returns is one it wrote; PASS and NO MATCH
mean what they say; an export that was saved survives a later run that fails before it
opens the file, and every run once the account has nothing left to export. The hazards
are listed, each at its line, in `PROJECT.json`.

## 2. The modules

| Module | Models | State and actions |
|---|---|---|
| `TiltClient` | the life of a call | `pc` is the await at which the call's task stands; `holder` and `queue` are the FIFO lock; `close` is the cleanup task. One action per return or failure of an await, one `Cancel...` action per place a cancellation can land |
| `Exchange` | what a session promises (abstract) | `current`, `outcome`, `executed`: the shade `Execute`s, the caller gets an `Answer`, a `TimeOut` (writes only) or an `Abort` |
| `TiltLink` | `_send_frame`, the worker, the shade, the air | `phase`, `writing`, `waiter`, `responses` are the caller's side; `expected`, `buffer`, `acking` the worker's; `up` and `down` the FIFO air, from which `Lose` takes. `ImplementsExchange` is the refinement mapping |
| `TiltPosition` | `set_position_and_read_status` | uses the actions of `Exchange` for its three requests, so it is checked against every session `TiltLink` allows; `raw` and `goal` are the shade |
| `BleAssembly` | the chunk layer alone | `air` keeps every chunk ever sent and `Deliver` hands any of them over |
| `TiltMessages` | `authenticate`, the application ids, the verdict on each response | `ids`, `chosen` and `responses` are the session's; `shade` has a key, an offer of versions and the one it settled on; `Answer`, `Ignore`, `Deliver` and `Lose` are a transport that loses, delays, doubles and corrupts |
| `SmartBlind` | the legacy driver and its motor | `key` and `position` are the object's, `call` the place of each concurrent call; one action per return or failure of an await |
| `AuthGate` | the gate | `phase` and `probe` are the nested loops, `verdict` what was printed of each shade |
| `KeyExport` | both importers with their cloud clients | `run` is the run under way, `file` the output file; `Crash` anywhere, `AccountChanges` at any time |
| `TiltCodec` | pure functions | rounding, scaling, `_moved_toward`, `next_sequence` |
| `*_proofs` | | the theorems, one module per component |
| `MC*` | | values of the constants for TLC |

`TiltLink` implements `Exchange`, and `TiltPosition` is built on `Exchange`: the two
compose without a joint state space. `TiltMessages` looks at the same session with a
weaker transport, so what it shows holds over every transport `TiltLink` allows.
`TiltClient` abstracts all of them to the ways a session can end: an
`AuthenticationError`, a transient error (the classes that `read_status` catches), any
other error, or success. `AuthGate` is built on the ways a `read_status` can end.

The definitions called *Faulty* (`LeaveLocked`, `AwaitForever`, ...) are not part of
the specification. Each is a plausible bug of the definition that follows it, and
`PROJECT.json` pairs it with the property that finds it.

Abstractions worth knowing:

- In `TiltLink` a request is its place in the session's script, and CRC, encryption,
  counters and message ids become "the response to this very request": `Accepted`.
  `TiltMessages` opens that box: frames have a layer, a command, a value, a key, ids
  and a bit that says whether they were corrupted, and the verdict is reached from
  those alone. A corrupted frame is found wrong by its checksum or by whatever it now
  seems to say, so its verdict is either error; it is never accepted.
- Requests fit in one chunk (the longest has 11 bytes, a chunk carries 18); the
  nonce response takes three.
- Delay has no action: a timer may expire before the message it waits for arrives.
- A `write_gatt_char` of `_send_frame` begins with `SendChunk` or a retransmission and is
  under way while `writing`; its chunk is on the air from the start, and may be lost.
  It returns (`WriteReturns`), raises `TimeoutError`, which the code handles like that of
  the ACK timer (`TimeoutRaised`), raises anything else (`SendFails`), or does none of
  these. The ACK may come before the write returns. The worker's write of an ACK may
  raise with the ACK sent or not (`WorkerAckFails`).
- The shade of `TiltLink` is the fake shade of `tests/tilt_helpers.py`, with one
  difference: a retransmitted chunk is acknowledged again and otherwise ignored,
  where the fake's assembler raises in the writer's call. A real shade cannot
  raise there.
- `TiltPosition` lets the shade travel to any position on its way in one step.
- A legacy key is its first byte, the only one `keyscan` varies. A motor refuses a
  position under another key with an error or lets it pass unheeded: `const.py` says
  that neither is verified, so both are allowed. A call that is cancelled while
  `establish_connection` is awaited leaves a link up or not: the code has no client yet.
- In `AuthGate` the dict order of the keys and the signal order of the shades are any
  order. A `read_status` is its two attempts; `AuthenticationError` is a wrong key or a
  corrupted frame, and a history variable tells the two apart.
- In `KeyExport` an account entry is an id, whether it is an extra (a bridge, a deleted
  shade) and what it lists as key. Neither tool looks whether a key can be used; they
  differ in what they let pass. `parse_store` takes any text but the empty one as it is,
  and skips an entry without it. `b64decode` of `fetch_blinds` turns the empty text into
  an empty key, which is exported, and raises on text that it cannot decode or that is
  missing, which ends the run. An address that is empty or missing has the same effect
  as such a key. A reply that is no JSON document fails the fetch.

## 3. The runs

| Run | Instance | Shows |
|---|---|---|
| `client` | two calls on one loop, any mix of reads and writes, two cancellations each | six safety properties, `RetryOnlyAfterClose` and `EveryCallEnds` (448,766 states) |
| `link` | the session of `set_position_and_read_status`: three handshake requests, read, write, read back; up to six faults | `ExecutedInOrder`, `AckMeansTaken`, `ReadbackSettlesWrite`, `QueuesFit`, `WriteSentOnce`, `ImplementsExchange`, `SessionEnds` (76,488 states) |
| `messages` | the same session, shades with the configured or another key and every interesting offer of versions, two doubled answers | `OwnAnswer`, `StrangerNotAsked`, `VersionAgreed` (15,096 states) |
| `position` | eleven raw positions at the rounding edges, eight targets in and out of range, one foreign goal | `MovedIsReal`, `PendingMeansWithinOnePercent`, `JudgedMeansSettled` (677,736 states) |
| `assembly` | frames of 1, 18, 19, 36 and 49 bytes, every first sequence number, four chunks, four deliveries | `WholeUntilRefused`, `ChunksAreContiguous` (129,465 states) |
| `smart_blind` | two calls on one object, each a move or a scan of three keys, positions in and out of range | `PositionKeptInStep`, `ScanReturnsItsKey`, `LinksAreClosed`, `EveryCallEnds` (293,223 states) |
| `gate` | two shades, two keys, two names, every JSON file and directory of them | `PassIsHonest`, `NoMatchIsExplained` (271,936 states) |
| `export` | an account of a shade, an extra, a shade with an empty key and one whose key is no base64, that changes; any number of runs | `FileIsLastExport`, `ExportIsComplete`, `KeysOutliveTheCloud` (166,528 states) |
| `position_ambiguous`, `position_responded`, `keyscan`, `gate_timeout` | as above, smaller | the places where a docstring says more than the code does; see section 6 |

Bounds. Two calls suffice for one to hold the lock while the other waits, gets it or
is cancelled in the queue; two cancellations suffice for the first to reach the
caller and the second the cleanup task. Six faults are enough to lose both
transmissions of a chunk in one exchange and still fail in later ones. `MaxSequence`
is the code's 63, which no session reaches: the wrap is the business of `assembly`,
which starts at every number. Four chunks hold a frame of three chunks and another
frame, and four deliveries let a repeated or missing chunk fall anywhere in them.
`LastId` is 2 in `messages`, where the code has 15, so that the ids wrap within the
three encrypted requests of the session; two doubled answers suffice to leave one over
in each half of it. Three keys in `smart_blind` let the motor's be the first, the
middle or the last candidate left; a call overlaps with one other, which is all that
`alone` and `solo` tell apart. Two shades and two keys let the gate fail on either and go on;
the number of runs of `export` is not bounded. Its four entries leave out a key that is
missing, which fails or is skipped as the other two do, and one that is garbage, which is
exported like a usable one; the theorems include both.

Deadlock is checked for `TiltClient` and `AuthGate`, whose only rest is `Finished`, and
for `KeyExport`, which never rests. The other modules model one session, one command, a
given number of calls or a bounded air, which do stop.

Fairness. `TiltClient` assumes that a task which can run eventually does, and
that every await of a session returns or raises. The waits for an ACK and for a
response have timeouts, and `connect` is given one. `write_gatt_char()`,
`start_notify()`, `stop_notify()` and `disconnect()` have none in this code; that they
end is up to the backend of bleak. If one hung, the lock of that loop would be held for
ever, and `EveryCallEnds` says nothing about that case. Calls and cancellations need not
happen. `TiltLink` is fair to the caller only, and not while one of its writes is under
way: `SessionEnds` has the premise that no write stays so for ever, and holds even if the
worker and the shade never move. `SmartBlind` is fair to the steps of each call: none of
its awaits is given a timeout (`blind.py:71-81`), so `EveryCallEnds` rests on those of
`establish_connection` and of the backend. `TiltMessages`, `TiltPosition`, `AuthGate` and
`KeyExport` state no liveness and assume no fairness.

## 4. The proofs

Each theorem holds for every value of the constants.

| Module | Theorems | Properties |
|---|---|---|
| `TiltClient_proofs` | `TypeCorrect`, `SafetyHolds` | `TypeOK`, the inductive invariant `SafetyInv` |
| | `SerializationTheorem`, `LinkTheorem`, `OneCancelTheorem`, `WorkerTheorem` | `SerializedPerLoop`, `LinkOnlyUnderLock`, `OneCancelIsSafe`, `NoOrphanWorker` |
| | `WriteTheorem`, `CancelTheorem`, `RetryTheorem` | `WriteAtMostOnce`, `CancelIsNotLost`, the action property `RetryOnlyAfterClose` |
| `TiltPosition_proofs` | `TypeCorrect`, `CallInvHolds` | `TypeOK`, the inductive invariant `CallInv` |
| | `MovedTheorem`, `PendingTheorem`, `JudgedTheorem` | `MovedIsReal`, `PendingMeansWithinOnePercent`, the action property `JudgedMeansSettled` |
| `TiltLink_proofs` | `TypeCorrect`, `WriteOnceTheorem` | `TypeOK`, the action property `WriteSentOnce` |
| | `OrderTheorem`, `AckTheorem`, `ReadbackTheorem` | `ExecutedInOrder`, `AckMeansTaken`, `ReadbackSettlesWrite` |
| | `RefinementTheorem` | `ImplementsExchange`: the session refines `Exchange` |
| | `QueuesTheorem` | `QueuesFit` |
| `BleAssembly_proofs` | `TypeCorrect`, `ContiguousTheorem`, `WholeTheorem` | `TypeOK`, `ChunksAreContiguous`, `WholeUntilRefused` |
| `TiltMessages_proofs` | `TypeCorrect`, `StrangerTheorem`, `VersionTheorem`, `OwnAnswerTheorem` | `TypeOK`, `StrangerNotAsked`, `VersionAgreed`, `OwnAnswer` |
| `SmartBlind_proofs` | `TypeCorrect`, `PositionTheorem`, `ScanTheorem`, `LinksTheorem` | `TypeOK`, `PositionKeptInStep`, `ScanReturnsItsKey`, `LinksAreClosed` |
| `AuthGate_proofs` | `TypeCorrect`, `PassTheorem`, `NoMatchTheorem` | `TypeOK`, `PassIsHonest`, `NoMatchIsExplained` |
| `KeyExport_proofs` | `TypeCorrect`, `LastExportTheorem`, `CompleteTheorem`, `OutliveTheorem` | `TypeOK`, `FileIsLastExport`, `ExportIsComplete`, the temporal property `KeysOutliveTheCloud` |

Assumptions: the typing of the constants, named in the module that declares them, and
seven that say more.

- In a session's script every write is followed by a read (`ScriptAssumption` of
  `TiltLink`; in `TiltMessages` the script ends with one), since
  `set_position_and_read_status` always reads back. Two writes in a row would break
  `ReadbackSettlesWrite`: the second would take the number of the first.
- The script begins with the handshake (`TiltMessages`).
- A response has at most three chunks, and those of a write and its readback together no
  more (`ResponseAssumption` of `TiltLink`): the longest, the nonce's, has 49 bytes, the
  two others fit in one chunk each. Only `QueuesTheorem` needs it: an ACK write
  that raises after the ACK went out puts an error into the queue for a chunk that need
  not end its frame, so longer responses could fill it.
- There are at least two sequence numbers (`SequenceAssumption`; the code has 63), so
  that the number before the current one is another.
- A session's encrypted requests do not use up the counter (`LengthAssumption` of
  `TiltMessages`): there are at most three, and the counter runs to 0x7FFF.
- The configured key is one a shade may have.
- `MaxChunks` is less than `LastSequence`, which no message of a session reaches.

*TiltClient.* The safety properties are not inductive. Mutual exclusion needs that
exactly the call at a locked place is the holder (`HolderInv`); that no link is up
outside the lock needs how far the cleanup is at each place (`LinkInv`,
`CleanupInv`); that one cancellation is safe needs that the cleanup task can be
interrupted only from `cancelwait`, which already took one (`CancelInv`).
`CallInv` is their conjunction for one call. Every action changes the state of one
call and the lock of its loop, so each proof step shows `CallInv` for that call and
that the others keep theirs. `client` runs one loop; the theorems hold for calls spread
over any number of them.

*TiltPosition.* A verdict compares percents, the properties speak of raw positions.
`PercentIsMonotone` and `PercentIsNear` are the two facts about the half-even
rounding that carry one over to the other; `CallInv` keeps the two readings
positions of the shade and ties the place of the call to the request of `Exchange`.

*TiltLink.* `WriteSentOnce` needs that a request leaves "ready" with no transmission
behind it and that "ack" has at least one (`TriesInv`): a write has no second, and only
the caller puts data chunks on the air. `AirInv` keeps the types of what travels, the
numbers of the response chunks above all, which the worker acknowledges.

The shade knows a chunk by its sequence number only, and the readback of an
unacknowledged write has the number of the write. The invariant `LinkInv` is therefore
about numbers: a chunk or an ACK under way has the current number or the one before
(`ChunkInv`, `AckInv`), the older ahead of the newer (`OrderInv`); the shade expects the
current number exactly as long as no chunk of it was carried out (`NumberInv`); and a
write and its readback are never both carried out under one number (`OutcomeInv`).
FIFO order carries the argument: an ACK of the current number reaches the worker only
when every older chunk has left the air. `ExecutedInOrder`, `AckMeansTaken` and
`ReadbackSettlesWrite` follow. For the refinement, `PartInv` follows every part of a
response from the shade through the air, the assembler and the queue, and says that its
request was carried out; a response that is accepted is then an answer in the sense of
`Exchange`, and each of the other steps maps to a step of it or a stutter.

`QueuesFit` is about how much is under way, so its invariant `TrafficInv` counts. The
number of messages of a kind in a queue is a cardinality (`Count`), and the first lemmas
say what `Append` and `Tail` do to it. Three parts follow.

- `SyncInv`, numbers: the worker expects the number of the shade's last chunk, and then
  no ACK is under way, or the one after it, and then at most one ACK is.
- `TokenInv`, requests: a chunk that the shade takes turns into one ACK, so the copies of
  a request, chunks to the shade and ACKs from it, grow by transmission only. Two
  transmissions, one copy of an unacknowledged write with the same number and one with
  the number before make four; there are at most two when a write went unanswered.
- `ThreadInv`, responses: `Tally` counts what a response is at any moment, the chunks the
  shade has still to send, those in the air, the one being acknowledged, its ACK, what is
  in the queue. Each chunk ends as a frame, as part of one or as an error, so the places
  in the queue that are taken or can still be asked for are at most the chunks in all
  these places (`Load`), and these at most the chunks of the responses that the caller
  can still hear of (`Budget`): its request's own, and that of a write before it that
  timed out. `ResponseAssumption` makes that three. Normally one thread of chunks exists
  (`Single`), because the shade waits for each ACK. The hard case (`Double`) is a write
  whose response is late: it meets the response of its own readback, which is not
  accepted while the other one is ahead of it or mixed with it (`Unacceptable`,
  `FirstInv`), so that no third request joins them.

Four copies and one chunk, or two and two, give the bound of five on `down`; three in
`_response_queue` leave one of its four places free.

*BleAssembly.* The chunks of a frame are numbered by `(first + i - 1) % LastSequence +
1`; the lemmas about division carry the successor over every wrap, within a frame and
from the last chunk of one to the first of the next. For `WholeUntilRefused` every chunk
on the air is a run of bytes of one frame and the next chunk goes on where it ends
(`PieceInv`). The assembler has taken the first n chunks (`AssemblerInv`): since fewer
chunks are sent than there are numbers, the expected number is that of chunk n + 1 only
(`Injective`), whichever chunks the air delivers, and its bytes are those that follow
the ones in the buffer.

*TiltMessages.* `KeyInv` says that an encrypted request is on the air, or the handshake
is over, only if the shade has the configured key. It is kept because an intact nonce
response carries the key of the shade that made it, which in turn needs that every
answer on its way or in the queue was made by this shade. `MessageInv` describes the
requests and the answers under way by the request they belong to (`UpInv`, `DownInv`),
ties the counter to the step (`CounterInv`), and says which version either side has at
each step (`VersionInv`). An answer that passes the checks of the parser has the command
or the counter of the current request, hence is its own (`AcceptedIsOwn`).
The verdict operators of `TiltMessages` are written with `IF ... ELSE`, in the order of
the checks in the code: their conditions overlap, and `CASE` with overlapping arms would
leave the choice open.

*SmartBlind.* `PositionKeptInStep` speaks of a call that was alone. `AloneInv` says that
a call in flight that is still marked so is the only one in flight; hence the motor
took nothing since that call's own write when it records its position. `SoloInv` does
the same for scans: as long as a scan is the only one, the object's key is its candidate,
whatever moves begin and end beside it. `CallInv` ties the link, the reached flag and the
key that was written to the place of each call.

*AuthGate.* `VerdictInv` ties the count of problems to what was said of each shade, and
`ProbeInv` says that the names already tried belong to other keys or to a corrupted
frame; `PassIsHonest` and `NoMatchIsExplained` follow at the end of each loop.

*KeyExport.* `ExportInv` says what the devices to be written are at each place between
the fetch and the end of the run. `KeysOutliveTheCloud` is proved from an invariant that
holds once its premise does (`Safe`): no run is past the parsing, and one that has fetched
has nothing to write.

Every safety property that a passing run checks has a theorem. Model-checked only:
liveness (`EveryCallEnds` of both modules, `SessionEnds`), since the prover has no
support for fairness.

## 5. Not modelled

- `tools/find_key.py`: it calls `keyscan` on one device after the other and prints; it
  keeps nothing between devices. What can go wrong in it is what goes wrong in `keyscan`.
- `scanner.py`: one call of `BleakScanner` and a filter on its result.
- `contrib/parse_pklg.py`, `contrib/mitm_tilt_addon.py`: offline parsing of captures, and a
  proxy add-on that prints what passes. Neither holds state of the system.
- `const.py`, `exceptions.py`, the re-exports of `__init__.py`.
- Cryptography and byte layouts: CRC-16, AES-CTR and HMAC are what they tell apart.
- `GET_NAME`, `GET_VERSION` and `GET_BATTERY` frames: no session of this client asks for
  them.

A shutdown of the event loop, which cancels the cleanup task directly, has no action of
its own in `TiltClient`: it is `CancelShield` followed by `CancelCleanup`, the same two
steps as a second cancellation of the caller. The overflow of the notification queue
has none either: `QueuesFit` shows that a shade which awaits the ACK of each chunk never
has more than five notifications out.

A command that finds the shade at its target writes nothing. `TiltPosition` includes
this case, but no property speaks of where such a shade goes afterwards: the docstring
says that `moved = False` means that no write was issued.

## 6. Where the documentation and the code differ

Shown by a run:

1. `position_ambiguous`: a read-back that fails after an answered write raises the
   transport's error, not `AmbiguousPositionWrite`.
2. `position_responded`: a shade that was already travelling makes a lost write
   return `moved = True`.
3. `keyscan`: a motor that refuses a wrong key ends the scan at the first candidate,
   since only `ConnectionFailed` makes it go on.
4. `gate_timeout`: `TiltBleTimeout` is a `TiltBleError`, which the gate does not catch: a
   shade that does not answer ends it in a traceback, and the shades behind it are not
   probed. It does not pass (`PassIsHonest`).

Visible in the modules, without a run of their own:

- A call cancelled while its cleanup fails raises `CancelledError`; the cleanup error is
  only logged (`CancelledCleanupReturns`).
- Sessions are serialized per event loop, not globally (`SerializedPerLoop`).
- `PositionVerificationPending` also comes for a shade that moved by up to one percent
  (`PendingMeansWithinOnePercent`).
- After a repeated chunk the assembler returns the tail of a message as a message. In a
  session the error queued first ends the session.
- `blind.py` does not enforce that a motor has one connection at a time. Of two calls that
  overlap, the one that returns last decides the tracked position, whichever the motor
  took last; and a move writes the candidate of a scan that runs beside it (`WriteKey`).
- A scan that fails leaves the last candidate it tried in the object. Two scans that
  overlap may return each other's candidates (`ScanReturnsItsKey` exempts them).
- A call of `blind.py` that is cancelled while it connects may leave its link up
  (`CancelConnect`): only what follows the connect is covered by the `finally` clause.
- A new export overwrites the file with what the account lists now: the key of a shade
  that was removed from the account goes as long as another is exported. A failure while
  the file is written leaves it truncated (`OpenFile`, `DumpFails`).
- The legacy tool exports an empty passkey, or one that decodes to anything, without a
  word (`cloud.py:138`); the Tilt tool exports any text (`tilt_cloud.py:188`). Either
  overwrites the usable key that an earlier export had saved (`Exportable`).

## 7. Plan

Done: every module of the plan, and proofs of every safety property, action property and
refinement of the passing runs. An extension would start with what section 5 lists.
