----------------------------- MODULE TiltClient -----------------------------
(***************************************************************************)
(* The life of a call on TiltShadeClient (tilt/ble.py): read_status and    *)
(* set_position_and_read_status, each of which runs its operation in one   *)
(* BLE session (_run_session) under a FIFO lock shared by every client of  *)
(* the event loop, and closes the session in a cleanup task that survives  *)
(* the cancellation of the caller.                                         *)
(*                                                                         *)
(* An element of Calls is one call, made by one asyncio task.  What the    *)
(* handshake and the requests put on the air is the business of the other  *)
(* modules: here they end in one of the ways _run_session and the retry of *)
(* read_status tell apart.                                                 *)
(***************************************************************************)
EXTENDS Naturals, Sequences

CONSTANTS
    Calls,       \* the calls made on the clients of the process
    Loops,       \* the event loops they run on
    LoopOf,      \* the loop of each call
    NoCall,      \* no call holds the lock
    MaxCancels   \* bound: how often one call's task is cancelled

ASSUME LoopAssumption == LoopOf \in [Calls -> Loops]
ASSUME NoCallAssumption == NoCall \notin Calls
ASSUME CancelAssumption == MaxCancels \in Nat

VARIABLES
    holder,      \* per loop, the call inside `async with _global_ble_lock()`
    queue,       \* per loop, the calls waiting for the lock, oldest first
    pc,          \* where the call's task stands
    kind,        \* which of the two public operations it is
    attempt,     \* 1, or 2 after read_status caught a transient error
    link,        \* client.is_connected of the call's current client
    worker,      \* the notification worker task runs
    close,       \* where the cleanup task _close_ble_client stands
    interrupted, \* a CancelledError is pending inside the cleanup task
    body,        \* how the try block of _run_session ended
    outcome,     \* how the call ended
    cancels,     \* how often the task was cancelled
    wrote        \* how often the call put its position write on the air

lockVars    == <<holder, queue>>
sessionVars == <<link, worker, close, interrupted, body>>
vars == <<holder, queue, pc, kind, attempt, link, worker, close, interrupted,
          body, outcome, cancels, wrote>>

Trying  == {"connect", "notify", "auth", "op", "verify"} \* inside the try block
Closing == {"shield", "cancelwait"}                      \* awaiting the cleanup
Locked  == {"factory"} \cup Trying \cup Closing          \* holding the lock
Places  == {"idle", "queued", "backoff", "done"} \cup Locked

\* Exceptions by who catches them: AuthenticationError; BleakError, TiltBleError,
\* TiltProtocolError or TimeoutError; any other Exception.
Failures == {"auth", "transient", "other"}
Results  == {"ok", "cancelled"} \cup Failures

CleanupSteps == {"none", "worker", "notify", "disconnect"}
CleanupEnds  == {"ok", "failed", "cancelled"}

Init ==
    /\ holder = [l \in Loops |-> NoCall]
    /\ queue = [l \in Loops |-> <<>>]
    /\ pc = [c \in Calls |-> "idle"]
    /\ kind \in [Calls -> {"read", "write"}]
    /\ attempt = [c \in Calls |-> 1]
    /\ link = [c \in Calls |-> FALSE]
    /\ worker = [c \in Calls |-> FALSE]
    /\ close = [c \in Calls |-> "none"]
    /\ interrupted = [c \in Calls |-> FALSE]
    /\ body = [c \in Calls |-> "none"]
    /\ outcome = [c \in Calls |-> "none"]
    /\ cancels = [c \in Calls |-> 0]
    /\ wrote = [c \in Calls |-> 0]

-----------------------------------------------------------------------------
\* Steps shared by several actions.

Goto(c, place) == pc' = [pc EXCEPT ![c] = place]

\* Faulty: a position write is tried again like a read.
RetriedWrites(c, result) == result = "transient" /\ attempt[c] = 1

\* Faulty: TiltBleCleanupError is caught too, as if it were a TiltBleError.
RetriedUnclosed(c, result) ==
    result \in {"transient", "cleanup"} /\ kind[c] = "read" /\ attempt[c] = 1

\* Whether read_status catches what its session raised and tries once more.
Retried(c, result) ==
    result = "transient" /\ kind[c] = "read" /\ attempt[c] = 1

\* Faulty: a cancelled call keeps the lock.
LeaveLocked(c, result) ==
    /\ IF result = "cancelled" THEN UNCHANGED holder
       ELSE holder' = [holder EXCEPT ![LoopOf[c]] = NoCall]
    /\ Goto(c, IF Retried(c, result) THEN "backoff" ELSE "done")
    /\ outcome' = [outcome EXCEPT ![c] = IF Retried(c, result) THEN @ ELSE result]
    /\ UNCHANGED <<queue, kind, attempt, worker, interrupted, body, wrote>>

\* Leave `async with _global_ble_lock()` with a result or an exception.
Leave(c, result) ==
    /\ holder' = [holder EXCEPT ![LoopOf[c]] = NoCall]
    /\ IF Retried(c, result)
       THEN Goto(c, "backoff") /\ UNCHANGED outcome
       ELSE Goto(c, "done") /\ outcome' = [outcome EXCEPT ![c] = result]
    /\ UNCHANGED <<queue, kind, attempt, worker, interrupted, body, wrote>>

\* Faulty: stop() does not cancel the worker.
FirstCleanupStepNoWorker(c) == IF pc[c] = "connect" THEN "disconnect" ELSE "notify"

\* Faulty: the cleanup starts at the step the task was at.
FirstCleanupStepAsIs(c) == IF pc[c] = "connect" THEN "disconnect" ELSE pc[c]

\* The try block ends; the finally clause starts the cleanup task, whose first
\* await depends on how much of the session exists.
FirstCleanupStep(c) ==
    IF pc[c] = "connect" THEN "disconnect"
    ELSE IF worker[c] THEN "worker" ELSE "notify"

EndTry(c, result) ==
    /\ Goto(c, "shield")
    /\ body' = [body EXCEPT ![c] = result]
    /\ close' = [close EXCEPT ![c] = FirstCleanupStep(c)]
    /\ UNCHANGED <<lockVars, kind, attempt, worker, interrupted, outcome, wrote>>

-----------------------------------------------------------------------------
\* A call asks for the lock and gets it in FIFO order.

Call(c) ==
    /\ pc[c] = "idle"
    /\ Goto(c, "queued")
    /\ queue' = [queue EXCEPT ![LoopOf[c]] = Append(@, c)]
    /\ UNCHANGED <<holder, kind, attempt, sessionVars, outcome, cancels, wrote>>

\* Faulty: the lock is entered without waiting for its holder.
AcquireUnlocked(c) ==
    LET l == LoopOf[c] IN
    /\ pc[c] = "queued"
    /\ queue[l] # <<>> /\ Head(queue[l]) = c
    /\ holder' = [holder EXCEPT ![l] = c]
    /\ queue' = [queue EXCEPT ![l] = Tail(@)]
    /\ Goto(c, "factory")
    /\ UNCHANGED <<kind, attempt, sessionVars, outcome, cancels, wrote>>

Acquire(c) ==
    LET l == LoopOf[c] IN
    /\ pc[c] = "queued"
    /\ holder[l] = NoCall
    /\ queue[l] # <<>> /\ Head(queue[l]) = c
    /\ holder' = [holder EXCEPT ![l] = c]
    /\ queue' = [queue EXCEPT ![l] = Tail(@)]
    /\ Goto(c, "factory")
    /\ UNCHANGED <<kind, attempt, sessionVars, outcome, cancels, wrote>>

\* The second attempt of read_status is a new session of the same call.
Retry(c) ==
    /\ pc[c] = "backoff"
    /\ Goto(c, "queued")
    /\ queue' = [queue EXCEPT ![LoopOf[c]] = Append(@, c)]
    /\ attempt' = [attempt EXCEPT ![c] = 2]
    /\ close' = [close EXCEPT ![c] = "none"]
    /\ body' = [body EXCEPT ![c] = "none"]
    /\ UNCHANGED <<holder, kind, link, worker, interrupted, outcome, cancels, wrote>>

-----------------------------------------------------------------------------
\* The session.

\* The factory may hand over an already connected client; connect() is then skipped.
FactoryReturns(c) ==
    /\ pc[c] = "factory"
    /\ \E up \in BOOLEAN :
          /\ link' = [link EXCEPT ![c] = up]
          /\ Goto(c, IF up THEN "notify" ELSE "connect")
    /\ UNCHANGED <<lockVars, kind, attempt, worker, close, interrupted, body,
                   outcome, cancels, wrote>>

\* Before the try block: there is no client and nothing to clean up.
FactoryFails(c) ==
    /\ pc[c] = "factory"
    /\ \E result \in {"transient", "other"} : Leave(c, result)
    /\ UNCHANGED <<link, close, cancels>>

ConnectReturns(c) ==
    /\ pc[c] = "connect"
    /\ link' = [link EXCEPT ![c] = TRUE]
    /\ Goto(c, "notify")
    /\ UNCHANGED <<lockVars, kind, attempt, worker, close, interrupted, body,
                   outcome, cancels, wrote>>

\* connect() raises, with the link up or down, or returns without a link.
ConnectFails(c) ==
    /\ pc[c] = "connect"
    /\ \E up \in BOOLEAN : link' = [link EXCEPT ![c] = up]
    /\ \E result \in {"transient", "other"} : EndTry(c, result)
    /\ UNCHANGED cancels

Start(c) ==
    /\ pc[c] = "notify"
    /\ worker' = [worker EXCEPT ![c] = TRUE]
    /\ Goto(c, "auth")
    /\ UNCHANGED <<lockVars, kind, attempt, link, close, interrupted, body,
                   outcome, cancels, wrote>>

StartFails(c) ==
    /\ pc[c] = "notify"
    /\ \E result \in {"transient", "other"} : EndTry(c, result)
    /\ UNCHANGED <<link, cancels>>

Authenticate(c) ==
    /\ pc[c] = "auth"
    /\ Goto(c, "op")
    /\ UNCHANGED <<lockVars, kind, attempt, sessionVars, outcome, cancels, wrote>>

AuthenticateFails(c) ==
    /\ pc[c] = "auth"
    /\ \E result \in Failures : EndTry(c, result)
    /\ UNCHANGED <<link, cancels>>

\* set_position: the position write goes out; what follows verifies it.
WritePosition(c) ==
    /\ pc[c] = "op" /\ kind[c] = "write"
    /\ wrote' = [wrote EXCEPT ![c] = @ + 1]
    /\ Goto(c, "verify")
    /\ UNCHANGED <<lockVars, kind, attempt, sessionVars, outcome, cancels>>

\* The operation returns or raises: at its (first) status read, the target
\* already reached included, or after the position write.
OperationEnds(c) ==
    /\ pc[c] \in {"op", "verify"}
    /\ \E result \in {"ok"} \cup Failures : EndTry(c, result)
    /\ UNCHANGED <<link, cancels>>

\* The shade or the radio closes the link; no await of the session notices.
LinkDrops(c) ==
    /\ link[c]
    /\ link' = [link EXCEPT ![c] = FALSE]
    /\ UNCHANGED <<lockVars, pc, kind, attempt, worker, close, interrupted, body,
                   outcome, cancels, wrote>>

-----------------------------------------------------------------------------
\* The cleanup task: session.stop(), then client.disconnect().

StopWorker(c) ==
    /\ close[c] = "worker"
    /\ worker' = [worker EXCEPT ![c] = FALSE]
    /\ close' = [close EXCEPT ![c] = "notify"]
    /\ UNCHANGED <<lockVars, pc, kind, attempt, link, interrupted, body, outcome,
                   cancels, wrote>>

\* stop_notify() returns, or raises an Exception that stop() drops.
StopNotify(c) ==
    /\ close[c] = "notify"
    /\ close' = [close EXCEPT ![c] = "disconnect"]
    /\ UNCHANGED <<lockVars, pc, kind, attempt, link, worker, interrupted, body,
                   outcome, cancels, wrote>>

\* How the cleanup task ends once disconnect() returned or raised: the check
\* after the finally clause is skipped while a CancelledError is pending.
DisconnectVerdict(stillUp, raised, pending) ==
    IF stillUp /\ (raised \/ ~pending) THEN "failed"
    ELSE IF pending THEN "cancelled" ELSE "ok"

Disconnect(c) ==
    /\ close[c] = "disconnect"
    /\ \E stillUp \in {FALSE, link[c]}, raised \in BOOLEAN :
          /\ link' = [link EXCEPT ![c] = stillUp]
          /\ close' = [close EXCEPT ![c] =
                          DisconnectVerdict(stillUp, raised, interrupted[c])]
    /\ UNCHANGED <<lockVars, pc, kind, attempt, worker, interrupted, body, outcome,
                   cancels, wrote>>

\* Faulty: the cleanup task is started but not awaited.
CleanupNotAwaited(c) ==
    /\ pc[c] = "shield"
    /\ Leave(c, IF close[c] = "failed" THEN "cleanup" ELSE body[c])
    /\ UNCHANGED <<link, close, cancels>>

\* asyncio.shield(cleanup_task) returns, or raises the cleanup error in place of
\* whatever the try block returned or raised.
CleanupReturns(c) ==
    /\ pc[c] = "shield" /\ close[c] \in CleanupEnds
    /\ Leave(c, IF close[c] = "failed" THEN "cleanup" ELSE body[c])
    /\ UNCHANGED <<link, close, cancels>>

\* Faulty: the CancelledError is not raised again after the cleanup.
CancelledCleanupSwallows(c) ==
    /\ pc[c] = "cancelwait" /\ close[c] \in CleanupEnds
    /\ Leave(c, body[c])
    /\ UNCHANGED <<link, close, cancels>>

\* `await cleanup_task` ends after a cancellation: its error is only logged.
CancelledCleanupReturns(c) ==
    /\ pc[c] = "cancelwait" /\ close[c] \in CleanupEnds
    /\ Leave(c, "cancelled")
    /\ UNCHANGED <<link, close, cancels>>

-----------------------------------------------------------------------------
\* Cancellation of the call's task, by what the task is awaiting.

Cancelling(c) ==
    /\ cancels[c] < MaxCancels
    /\ cancels' = [cancels EXCEPT ![c] = @ + 1]

\* In lock.acquire(): the call gives up its place in the queue.
CancelQueued(c) ==
    LET q == queue[LoopOf[c]] IN
    /\ pc[c] = "queued"
    /\ Cancelling(c)
    /\ Goto(c, "done")
    /\ outcome' = [outcome EXCEPT ![c] = "cancelled"]
    /\ \E i \in 1..Len(q) :
          /\ q[i] = c
          /\ queue' = [queue EXCEPT ![LoopOf[c]] =
                           SubSeq(q, 1, i - 1) \o SubSeq(q, i + 1, Len(q))]
    /\ UNCHANGED <<holder, kind, attempt, sessionVars, wrote>>

\* In the asyncio.sleep() between the attempts of read_status.
CancelBackoff(c) ==
    /\ pc[c] = "backoff"
    /\ Cancelling(c)
    /\ Goto(c, "done")
    /\ outcome' = [outcome EXCEPT ![c] = "cancelled"]
    /\ UNCHANGED <<lockVars, kind, attempt, sessionVars, wrote>>

\* In `await client`, ahead of the try block: a client the factory had already
\* connected is lost with its link up.
CancelFactory(c) ==
    /\ pc[c] = "factory"
    /\ Cancelling(c)
    /\ \E up \in BOOLEAN : link' = [link EXCEPT ![c] = up]
    /\ Leave(c, "cancelled")
    /\ UNCHANGED close

CancelTry(c) ==
    /\ pc[c] \in Trying
    /\ Cancelling(c)
    /\ \E up \in BOOLEAN :
          /\ pc[c] # "connect" => up = link[c]
          /\ link' = [link EXCEPT ![c] = up]
    /\ EndTry(c, "cancelled")

\* Faulty: without a shield the cancellation goes into the cleanup task.
CancelUnshielded(c) ==
    /\ pc[c] = "shield"
    /\ Cancelling(c)
    /\ Goto(c, "cancelwait")
    /\ close' = [close EXCEPT ![c] = "cancelled"]
    /\ UNCHANGED <<lockVars, kind, attempt, link, worker, interrupted, body,
                   outcome, wrote>>

\* The shield keeps the cleanup task running; the caller awaits it directly.
CancelShield(c) ==
    /\ pc[c] = "shield"
    /\ Cancelling(c)
    /\ Goto(c, "cancelwait")
    /\ UNCHANGED <<lockVars, kind, attempt, sessionVars, outcome, wrote>>

\* From here on a cancellation reaches the cleanup task itself: swallowed while
\* it awaits the worker, kept pending through disconnect() while it awaits
\* stop_notify(), fatal to disconnect() itself.
CancelCleanup(c) ==
    /\ pc[c] = "cancelwait" /\ close[c] \in CleanupSteps
    /\ Cancelling(c)
    /\ \/ /\ close[c] = "worker"
          /\ UNCHANGED <<link, close, interrupted>>
       \/ /\ close[c] = "notify"
          /\ interrupted' = [interrupted EXCEPT ![c] = TRUE]
          /\ close' = [close EXCEPT ![c] = "disconnect"]
          /\ UNCHANGED link
       \/ /\ close[c] = "disconnect"
          /\ \E stillUp \in {FALSE, link[c]} : link' = [link EXCEPT ![c] = stillUp]
          /\ close' = [close EXCEPT ![c] = "cancelled"]
          /\ UNCHANGED interrupted
    /\ UNCHANGED <<lockVars, pc, kind, attempt, worker, body, outcome, wrote>>

-----------------------------------------------------------------------------
\* What the task does by itself, given that everything it awaits ends.
Progress(c) ==
    \/ Acquire(c) \/ Retry(c)
    \/ FactoryReturns(c) \/ FactoryFails(c)
    \/ ConnectReturns(c) \/ ConnectFails(c)
    \/ Start(c) \/ StartFails(c)
    \/ Authenticate(c) \/ AuthenticateFails(c)
    \/ WritePosition(c) \/ OperationEnds(c)
    \/ StopWorker(c) \/ StopNotify(c) \/ Disconnect(c)
    \/ CleanupReturns(c) \/ CancelledCleanupReturns(c)

Cancel(c) ==
    \/ CancelQueued(c) \/ CancelBackoff(c) \/ CancelFactory(c)
    \/ CancelTry(c) \/ CancelShield(c) \/ CancelCleanup(c)

Finished == (\A c \in Calls : pc[c] = "done") /\ UNCHANGED vars

Next ==
    \/ \E c \in Calls : Call(c) \/ Progress(c) \/ Cancel(c) \/ LinkDrops(c)
    \/ Finished

Spec == Init /\ [][Next]_vars

\* Every await of a session is bounded by a timeout of the code or of the BLE
\* stack, so a task that can run eventually does.
FairSpec == Spec /\ \A c \in Calls : WF_vars(Progress(c))

-----------------------------------------------------------------------------
\* Type invariant: the values the tasks, the lock and the clients can take.
TypeOK ==
    /\ holder \in [Loops -> Calls \cup {NoCall}]
    /\ queue \in [Loops -> Seq(Calls)]
    /\ pc \in [Calls -> Places]
    /\ kind \in [Calls -> {"read", "write"}]
    /\ attempt \in [Calls -> {1, 2}]
    /\ link \in [Calls -> BOOLEAN]
    /\ worker \in [Calls -> BOOLEAN]
    /\ close \in [Calls -> CleanupSteps \cup CleanupEnds]
    /\ interrupted \in [Calls -> BOOLEAN]
    /\ body \in [Calls -> Results \cup {"none"}]
    /\ outcome \in [Calls -> Results \cup {"cleanup", "none"}]
    /\ cancels \in [Calls -> 0..MaxCancels]
    /\ wrote \in [Calls -> Nat]

\* A shade is never left connected behind the lock's back: outside the lock the
\* link of a call is down, unless the call reported the cleanup error or was
\* cancelled (_run_session releases the lock only after the cleanup).
LinkOnlyUnderLock ==
    \A c \in Calls :
        link[c] => \/ holder[LoopOf[c]] = c
                   \/ pc[c] = "done" /\ outcome[c] \in {"cleanup", "cancelled"}

\* Cancelling a call once, anywhere past the factory, never cuts its cleanup
\* short: when it leaves the lock, disconnect() has run to its end and any link
\* still up is one that disconnect() failed to close
\* (_await_cancellation_safe_cleanup).
OneCancelIsSafe ==
    \A c \in Calls :
        pc[c] = "done" /\ cancels[c] <= 1 /\ body[c] # "none"
            => /\ close[c] \in {"ok", "failed"}
               /\ link[c] => close[c] = "failed"

\* No notification worker outlives its session, however the session ended and
\* however often the caller was cancelled (_TiltBleSession.stop).
NoOrphanWorker ==
    \A c \in Calls : worker[c] => pc[c] \in Locked

\* A position write goes out at most once per call, whatever fails afterwards
\* ("Set one bounded target once", set_position_and_read_status).
WriteAtMostOnce ==
    \A c \in Calls : wrote[c] <= IF kind[c] = "write" THEN 1 ELSE 0

\* A cancelled task ends cancelled, or with the error of a cleanup that failed
\* (the finally clause of _run_session replaces the CancelledError).
CancelIsNotLost ==
    \A c \in Calls :
        pc[c] = "done" /\ cancels[c] > 0
            => \/ outcome[c] = "cancelled"
               \/ outcome[c] = "cleanup" /\ close[c] = "failed"

\* A new session of a call starts only after its previous one is proven closed:
\* the cleanup ended, the link went down, and nobody cancelled the call
\* (read_status retries a transient error of a read, once).
RetryOnlyAfterClose ==
    [][\A c \in Calls : attempt'[c] # attempt[c] =>
          /\ attempt[c] = 1 /\ kind[c] = "read"
          /\ body[c] \in {"transient", "none"} /\ close[c] \in {"ok", "none"}
          /\ ~link[c] /\ ~worker[c] /\ cancels[c] = 0]_vars

\* Every call that asked for the lock ends, so no failure, cancellation or
\* broken session keeps the lock from the calls behind it (_run_session).
EveryCallEnds == \A c \in Calls : pc[c] = "queued" ~> pc[c] = "done"

\* What _global_ble_lock gives: calls of one event loop are serialized, a call
\* whose cleanup is still running included.
SerializedPerLoop ==
    \A c, d \in Calls :
        LoopOf[c] = LoopOf[d] /\ pc[c] \in Locked /\ pc[d] \in Locked => c = d

-----------------------------------------------------------------------------
\* The inductive strengthening of the safety properties, one call at a time.

\* The lock is held by exactly the calls that are between its two ends.
HolderInv(c) == pc[c] \in Locked <=> holder[LoopOf[c]] = c

\* Only a session, or a call that ended badly, has a link.
LinkInv(c) ==
    /\ link[c] => \/ pc[c] \in Trying \cup Closing
                  \/ pc[c] = "done" /\ outcome[c] \in {"cleanup", "cancelled"}
    /\ link[c] => close[c] # "ok"

\* How far the cleanup is, by where the task stands.
CleanupInv(c) ==
    /\ pc[c] \in {"idle", "queued", "factory"} \cup Trying
          => close[c] = "none" /\ body[c] = "none"
    /\ pc[c] = "backoff" => \/ close[c] = "none" /\ body[c] = "none"
                            \/ close[c] = "ok" /\ body[c] = "transient"
    /\ pc[c] \in Closing => body[c] # "none" /\ close[c] # "none"
    /\ pc[c] = "done" /\ body[c] # "none" => close[c] \in CleanupEnds
    /\ pc[c] = "done" /\ body[c] = "none" => close[c] = "none"
    /\ worker[c] => \/ pc[c] \in {"auth", "op", "verify"}
                    \/ pc[c] \in Closing /\ close[c] = "worker"

\* Where a cancelled task can be, and how often it takes to reach the cleanup.
CancelInv(c) ==
    /\ cancels[c] > 0 => pc[c] \in Closing \cup {"done"}
    /\ pc[c] = "shield" /\ cancels[c] > 0 => body[c] = "cancelled"
    /\ pc[c] = "cancelwait" => cancels[c] > 0
    /\ interrupted[c] \/ close[c] = "cancelled"
          => cancels[c] > 1 /\ pc[c] \in {"cancelwait", "done"}
    /\ pc[c] = "done" /\ cancels[c] > 0
          => \/ outcome[c] = "cancelled"
             \/ outcome[c] = "cleanup" /\ close[c] = "failed"

\* Only a write call writes, once, and it never sees a second attempt.
WriteInv(c) ==
    /\ wrote[c] <= 1
    /\ wrote[c] > 0 => kind[c] = "write" /\ pc[c] \in {"verify", "done"} \cup Closing
    /\ pc[c] = "backoff" => kind[c] = "read" /\ attempt[c] = 1

CallInv(c) ==
    HolderInv(c) /\ LinkInv(c) /\ CleanupInv(c) /\ CancelInv(c) /\ WriteInv(c)

SafetyInv == TypeOK /\ \A c \in Calls : CallInv(c)
=============================================================================
