------------------------- MODULE TiltClient_proofs -------------------------
(***************************************************************************)
(* Proofs about TiltClient: its type invariant, and the safety of the lock *)
(* and of the cleanup for any set of calls, any assignment of calls to     *)
(* event loops and any number of cancellations.                            *)
(***************************************************************************)
EXTENDS TiltClient, SequenceTheorems, TLAPS

\* Leaving the lock and entering the cleanup keep the types (helpers of several
\* actions, proved once).
LEMMA LeaveType ==
  ASSUME TypeOK, NEW c \in Calls, NEW result \in Results \cup {"cleanup", "none"},
         Leave(c, result)
  PROVE  /\ holder' \in [Loops -> Calls \cup {NoCall}]
         /\ pc' \in [Calls -> Places]
         /\ outcome' \in [Calls -> Results \cup {"cleanup", "none"}]
         /\ UNCHANGED <<queue, kind, attempt, worker, interrupted, body, wrote>>
<1>1. /\ LoopOf[c] \in Loops /\ holder \in [Loops -> Calls \cup {NoCall}]
      /\ pc \in [Calls -> Places]
      /\ outcome \in [Calls -> Results \cup {"cleanup", "none"}]
  BY LoopAssumption DEF TypeOK
<1>2. holder' = [holder EXCEPT ![LoopOf[c]] = NoCall]
  BY DEF Leave
<1>3. UNCHANGED <<queue, kind, attempt, worker, interrupted, body, wrote>>
  BY DEF Leave
<1>4. pc' = [pc EXCEPT ![c] = "backoff"] \/ pc' = [pc EXCEPT ![c] = "done"]
  BY DEF Leave, Goto
<1>5. outcome' = outcome \/ outcome' = [outcome EXCEPT ![c] = result]
  BY DEF Leave
<1>6. "backoff" \in Places /\ "done" \in Places
  BY DEF Places
<1>7. pc' \in [Calls -> Places]
  BY <1>1, <1>4, <1>6
<1>8. outcome' \in [Calls -> Results \cup {"cleanup", "none"}]
  BY <1>1, <1>5
<1> QED
  BY <1>1, <1>2, <1>3, <1>7, <1>8

LEMMA EndTryType ==
  ASSUME TypeOK, NEW c \in Calls, NEW result \in Results, EndTry(c, result)
  PROVE  /\ pc' \in [Calls -> Places]
         /\ body' \in [Calls -> Results \cup {"none"}]
         /\ close' \in [Calls -> CleanupSteps \cup CleanupEnds]
         /\ UNCHANGED <<holder, queue, kind, attempt, worker, interrupted,
                        outcome, wrote>>
  BY DEF TypeOK, EndTry, FirstCleanupStep, Goto, Places, Locked, Closing,
         CleanupSteps, lockVars

\* Type correctness of every variable (the state _run_session keeps).
THEOREM TypeCorrect == Spec => []TypeOK
<1>1. Init => TypeOK
  BY CancelAssumption DEF Init, TypeOK, Places, CleanupSteps
<1>2. TypeOK /\ [Next]_vars => TypeOK'
  <2> SUFFICES ASSUME TypeOK, [Next]_vars PROVE TypeOK'
    OBVIOUS
  <2> USE LoopAssumption, CancelAssumption DEF TypeOK
  <2>1. ASSUME NEW c \in Calls, Call(c) PROVE TypeOK'
    BY <2>1 DEF Call, Goto, lockVars, sessionVars, Places, Locked, Trying,
         Closing
  <2>2. ASSUME NEW c \in Calls, Acquire(c) PROVE TypeOK'
    <3>1. queue[LoopOf[c]] \in Seq(Calls) /\ queue[LoopOf[c]] # <<>>
      BY <2>2 DEF Acquire
    <3>2. Tail(queue[LoopOf[c]]) \in Seq(Calls)
      BY <3>1
    <3>3. queue' \in [Loops -> Seq(Calls)] /\ holder' \in [Loops -> Calls \cup {NoCall}]
      BY <2>2, <3>2 DEF Acquire
    <3>4. pc' \in [Calls -> Places]
      BY <2>2 DEF Acquire, Goto, Places, Locked, Trying
    <3> QED
      BY <2>2, <3>3, <3>4 DEF Acquire, sessionVars
  <2>3. ASSUME NEW c \in Calls, Retry(c) PROVE TypeOK'
    BY <2>3 DEF Retry, Goto, lockVars, sessionVars, Places, Locked, Trying,
         Closing, CleanupSteps, CleanupEnds
  <2>4. ASSUME NEW c \in Calls, FactoryReturns(c) PROVE TypeOK'
    BY <2>4 DEF FactoryReturns, Goto, lockVars, sessionVars, Places, Locked,
         Trying, Closing
  <2>5. ASSUME NEW c \in Calls, FactoryFails(c) PROVE TypeOK'
    <3>1. PICK result \in {"transient", "other"} : Leave(c, result)
      BY <2>5 DEF FactoryFails
    <3>2. result \in Results \cup {"cleanup", "none"}
      BY DEF Results, Failures
    <3> QED
      BY <2>5, <3>1, <3>2, LeaveType DEF FactoryFails
  <2>6. ASSUME NEW c \in Calls, ConnectReturns(c) PROVE TypeOK'
    BY <2>6 DEF ConnectReturns, Goto, lockVars, sessionVars, Places, Locked,
         Trying, Closing
  <2>7. ASSUME NEW c \in Calls, ConnectFails(c) PROVE TypeOK'
    BY <2>7, EndTryType DEF ConnectFails, Results, Failures
  <2>8. ASSUME NEW c \in Calls, Start(c) PROVE TypeOK'
    BY <2>8 DEF Start, Goto, lockVars, sessionVars, Places, Locked, Trying,
         Closing
  <2>9. ASSUME NEW c \in Calls, StartFails(c) PROVE TypeOK'
    BY <2>9, EndTryType DEF StartFails, Results, Failures
  <2>10. ASSUME NEW c \in Calls, Authenticate(c) PROVE TypeOK'
    BY <2>10 DEF Authenticate, Goto, lockVars, sessionVars, Places, Locked,
         Trying, Closing
  <2>11. ASSUME NEW c \in Calls, AuthenticateFails(c) PROVE TypeOK'
    BY <2>11, EndTryType DEF AuthenticateFails, Results, Failures
  <2>12. ASSUME NEW c \in Calls, WritePosition(c) PROVE TypeOK'
    BY <2>12 DEF WritePosition, Goto, lockVars, sessionVars, Places, Locked,
         Trying, Closing
  <2>13. ASSUME NEW c \in Calls, OperationEnds(c) PROVE TypeOK'
    BY <2>13, EndTryType DEF OperationEnds, Results, Failures
  <2>14. ASSUME NEW c \in Calls, StopWorker(c) PROVE TypeOK'
    BY <2>14 DEF StopWorker, Goto, lockVars, sessionVars, CleanupSteps,
         CleanupEnds
  <2>15. ASSUME NEW c \in Calls, StopNotify(c) PROVE TypeOK'
    BY <2>15 DEF StopNotify, Goto, lockVars, sessionVars, CleanupSteps,
         CleanupEnds
  <2>16. ASSUME NEW c \in Calls, Disconnect(c) PROVE TypeOK'
    <3>1. PICK stillUp \in {FALSE, link[c]}, raised \in BOOLEAN :
            /\ link' = [link EXCEPT ![c] = stillUp]
            /\ close' = [close EXCEPT ![c] =
                            DisconnectVerdict(stillUp, raised, interrupted[c])]
      BY <2>16 DEF Disconnect
    <3>2. stillUp \in BOOLEAN /\ link' \in [Calls -> BOOLEAN]
      BY <3>1, Zenon
    <3>3. DisconnectVerdict(stillUp, raised, interrupted[c]) \in CleanupEnds
      BY DEF DisconnectVerdict, CleanupEnds
    <3>4. close' \in [Calls -> CleanupSteps \cup CleanupEnds]
      BY <3>1, <3>3
    <3> QED
      BY <2>16, <3>2, <3>4 DEF Disconnect, lockVars
  <2>17. ASSUME NEW c \in Calls, CleanupReturns(c) PROVE TypeOK'
    <3> DEFINE result == IF close[c] = "failed" THEN "cleanup" ELSE body[c]
    <3>1. Leave(c, result)
      BY <2>17 DEF CleanupReturns
    <3>2. result \in Results \cup {"cleanup", "none"}
      OBVIOUS
    <3> HIDE DEF result
    <3> QED
      BY <2>17, <3>1, <3>2, LeaveType DEF CleanupReturns
  <2>18. ASSUME NEW c \in Calls, CancelledCleanupReturns(c) PROVE TypeOK'
    BY <2>18, LeaveType DEF CancelledCleanupReturns, Results
  <2>19. ASSUME NEW c \in Calls, CancelQueued(c) PROVE TypeOK'
    <3> DEFINE l == LoopOf[c]
    <3>1. PICK i \in 1..Len(queue[l]) :
            queue' = [queue EXCEPT ![l] = SubSeq(queue[l], 1, i - 1)
                                          \o SubSeq(queue[l], i + 1, Len(queue[l]))]
      BY <2>19 DEF CancelQueued
    <3>2. queue[l] \in Seq(Calls)
      OBVIOUS
    <3>3. SubSeq(queue[l], 1, i - 1) \in Seq(Calls)
      BY <3>2, SubSeqProperties
    <3>4. SubSeq(queue[l], i + 1, Len(queue[l])) \in Seq(Calls)
      BY <3>2, SubSeqProperties
    <3>5. queue' \in [Loops -> Seq(Calls)]
      BY <3>1, <3>3, <3>4, ConcatProperties
    <3>6. cancels' \in [Calls -> 0..MaxCancels]
      <4>1. Cancelling(c)
        BY <2>19 DEF CancelQueued
      <4> QED
        BY <4>1 DEF Cancelling
    <3>7. pc' \in [Calls -> Places] /\ outcome' \in [Calls -> Results \cup {"cleanup", "none"}]
      BY <2>19, Zenon DEF CancelQueued, Goto, Places, Results
    <3>8. UNCHANGED <<holder, kind, attempt, sessionVars, wrote>>
      BY <2>19, Zenon DEF CancelQueued
    <3> QED
      BY <3>5, <3>6, <3>7, <3>8 DEF sessionVars
  <2>20. ASSUME NEW c \in Calls, CancelBackoff(c) PROVE TypeOK'
    BY <2>20 DEF CancelBackoff, Goto, lockVars, sessionVars, Places, Locked,
         Trying, Closing, Cancelling, Results
  <2>21. ASSUME NEW c \in Calls, CancelFactory(c) PROVE TypeOK'
    BY <2>21, LeaveType DEF CancelFactory, Results, Cancelling
  <2>22. ASSUME NEW c \in Calls, CancelTry(c) PROVE TypeOK'
    BY <2>22, EndTryType DEF CancelTry, Results, Cancelling
  <2>23. ASSUME NEW c \in Calls, CancelShield(c) PROVE TypeOK'
    BY <2>23 DEF CancelShield, Goto, lockVars, sessionVars, Cancelling, Places,
         Locked, Trying, Closing
  <2>24. ASSUME NEW c \in Calls, CancelCleanup(c) PROVE TypeOK'
    <3>1. link' \in [Calls -> BOOLEAN]
      <4>1. CASE UNCHANGED link
        BY <4>1
      <4>2. CASE \E stillUp \in {FALSE, link[c]} :
                   link' = [link EXCEPT ![c] = stillUp]
        BY <4>2, Zenon
      <4> QED
        BY <2>24, <4>1, <4>2, Zenon DEF CancelCleanup
    <3>2. close' \in [Calls -> CleanupSteps \cup CleanupEnds]
      BY <2>24 DEF CancelCleanup, CleanupSteps, CleanupEnds
    <3>3. interrupted' \in [Calls -> BOOLEAN]
      BY <2>24 DEF CancelCleanup
    <3>4. cancels' \in [Calls -> 0..MaxCancels]
      BY <2>24 DEF CancelCleanup, Cancelling
    <3>5. UNCHANGED <<lockVars, pc, kind, attempt, worker, body, outcome, wrote>>
      BY <2>24 DEF CancelCleanup
    <3> QED
      BY <3>1, <3>2, <3>3, <3>4, <3>5 DEF lockVars
  <2>25. ASSUME NEW c \in Calls, LinkDrops(c) PROVE TypeOK'
    BY <2>25 DEF LinkDrops, Goto, lockVars, sessionVars
  <2>26. CASE UNCHANGED vars
    BY <2>26 DEF vars
  <2> QED
    BY <2>1, <2>2, <2>3, <2>4, <2>5, <2>6, <2>7, <2>8, <2>9, <2>10,
       <2>11, <2>12, <2>13, <2>14, <2>15, <2>16, <2>17, <2>18, <2>19, <2>20,
       <2>21, <2>22, <2>23, <2>24, <2>25, <2>26
       DEF Next, Progress, Cancel, Finished
<1> QED BY <1>1, <1>2, PTL DEF Spec

\* The inductive invariant behind every safety property of the module.
THEOREM SafetyHolds == Spec => []SafetyInv
<1>1. Init => SafetyInv
  <2> SUFFICES ASSUME Init PROVE SafetyInv
    OBVIOUS
  <2>1. TypeOK
    BY CancelAssumption DEF Init, TypeOK, Places, CleanupSteps
  <2>2. ASSUME NEW c \in Calls PROVE CallInv(c)
    BY LoopAssumption, NoCallAssumption DEF Init, CallInv, HolderInv, LinkInv,
       CleanupInv, CancelInv, WriteInv, Locked, Trying, Closing
  <2> QED
    BY <2>1, <2>2 DEF SafetyInv
<1>2. SafetyInv /\ TypeOK' /\ [Next]_vars => SafetyInv'
  <2> SUFFICES ASSUME SafetyInv, TypeOK', [Next]_vars, NEW d \in Calls
               PROVE  CallInv(d)'
    BY DEF SafetyInv
  <2>0. TypeOK /\ CallInv(d)
    BY DEF SafetyInv
  <2>h. \A c \in Calls : HolderInv(c)
    BY DEF SafetyInv, CallInv
  <2> USE LoopAssumption, NoCallAssumption
  <2> USE DEF CallInv, HolderInv, LinkInv, CleanupInv, CancelInv, WriteInv, TypeOK,
              Places, Locked, Trying, Closing
  <2>1. ASSUME NEW c \in Calls, Call(c) PROVE CallInv(d)'
    BY <2>0, <2>1 DEF Call, Goto, lockVars, sessionVars, CleanupSteps,
         CleanupEnds
  <2>2. ASSUME NEW c \in Calls, Acquire(c) PROVE CallInv(d)'
    BY <2>0, <2>2 DEF Acquire, Goto, lockVars, sessionVars, CleanupSteps,
         CleanupEnds
  <2>3. ASSUME NEW c \in Calls, Retry(c) PROVE CallInv(d)'
    BY <2>0, <2>3 DEF Retry, Goto, lockVars, sessionVars, CleanupSteps,
         CleanupEnds
  <2>4. ASSUME NEW c \in Calls, FactoryReturns(c) PROVE CallInv(d)'
    BY <2>0, <2>4 DEF FactoryReturns, Goto, lockVars, sessionVars,
         CleanupSteps, CleanupEnds
  <2>5. ASSUME NEW c \in Calls, FactoryFails(c) PROVE CallInv(d)'
    <3>1. PICK result \in {"transient", "other"} : Leave(c, result)
      BY <2>5 DEF FactoryFails
    <3>2. pc[c] = "factory" /\ UNCHANGED <<link, close, cancels>>
      BY <2>5 DEF FactoryFails
    <3>3. CASE Retried(c, result)
      BY <2>0, <2>h, <3>1, <3>2, <3>3 DEF Leave, Goto, Retried
    <3>4. CASE ~Retried(c, result)
      BY <2>0, <2>h, <3>1, <3>2, <3>4 DEF Leave, Goto
    <3> QED
      BY <3>3, <3>4
  <2>6. ASSUME NEW c \in Calls, ConnectReturns(c) PROVE CallInv(d)'
    BY <2>0, <2>6 DEF ConnectReturns, Goto, lockVars, sessionVars,
         CleanupSteps, CleanupEnds
  <2>7. ASSUME NEW c \in Calls, ConnectFails(c) PROVE CallInv(d)'
    BY <2>0, <2>7 DEF ConnectFails, EndTry, FirstCleanupStep, Goto, lockVars,
         Failures, CleanupSteps, CleanupEnds
  <2>8. ASSUME NEW c \in Calls, Start(c) PROVE CallInv(d)'
    BY <2>0, <2>8 DEF Start, Goto, lockVars, sessionVars, CleanupSteps,
         CleanupEnds
  <2>9. ASSUME NEW c \in Calls, StartFails(c) PROVE CallInv(d)'
    BY <2>0, <2>9 DEF StartFails, EndTry, FirstCleanupStep, Goto, lockVars,
         Failures, CleanupSteps, CleanupEnds
  <2>10. ASSUME NEW c \in Calls, Authenticate(c) PROVE CallInv(d)'
    BY <2>0, <2>10 DEF Authenticate, Goto, lockVars, sessionVars, CleanupSteps,
         CleanupEnds
  <2>11. ASSUME NEW c \in Calls, AuthenticateFails(c) PROVE CallInv(d)'
    BY <2>0, <2>11 DEF AuthenticateFails, EndTry, FirstCleanupStep, Goto,
         lockVars, Failures, CleanupSteps, CleanupEnds
  <2>12. ASSUME NEW c \in Calls, WritePosition(c) PROVE CallInv(d)'
    BY <2>0, <2>12 DEF WritePosition, Goto, lockVars, sessionVars,
         CleanupSteps, CleanupEnds
  <2>13. ASSUME NEW c \in Calls, OperationEnds(c) PROVE CallInv(d)'
    BY <2>0, <2>13 DEF OperationEnds, EndTry, FirstCleanupStep, Goto, lockVars,
         Failures, CleanupSteps, CleanupEnds
  <2>14. ASSUME NEW c \in Calls, StopWorker(c) PROVE CallInv(d)'
    BY <2>0, <2>14 DEF StopWorker, Goto, lockVars, sessionVars, CleanupSteps,
         CleanupEnds
  <2>15. ASSUME NEW c \in Calls, StopNotify(c) PROVE CallInv(d)'
    BY <2>0, <2>15 DEF StopNotify, Goto, lockVars, sessionVars, CleanupSteps,
         CleanupEnds
  <2>16. ASSUME NEW c \in Calls, Disconnect(c) PROVE CallInv(d)'
    BY <2>0, <2>16 DEF Disconnect, Goto, lockVars, sessionVars,
         DisconnectVerdict, CleanupSteps, CleanupEnds
  <2>17. ASSUME NEW c \in Calls, CleanupReturns(c) PROVE CallInv(d)'
    <3> DEFINE result == IF close[c] = "failed" THEN "cleanup" ELSE body[c]
    <3>1. Leave(c, result)
      BY <2>17 DEF CleanupReturns
    <3>2. pc[c] = "shield" /\ close[c] \in CleanupEnds /\ UNCHANGED <<link, close, cancels>>
      BY <2>17 DEF CleanupReturns
    <3>3. CASE Retried(c, result)
      BY <2>0, <2>h, <3>1, <3>2, <3>3 DEF Leave, Goto, Retried, CleanupEnds
    <3>4. CASE ~Retried(c, result)
      BY <2>0, <2>h, <3>1, <3>2, <3>4 DEF Leave, Goto, CleanupEnds
    <3> QED
      BY <3>3, <3>4
  <2>18. ASSUME NEW c \in Calls, CancelledCleanupReturns(c) PROVE CallInv(d)'
    <3>1. Leave(c, "cancelled") /\ ~Retried(c, "cancelled")
      BY <2>18 DEF CancelledCleanupReturns, Retried
    <3>2. pc[c] = "cancelwait" /\ close[c] \in CleanupEnds /\ UNCHANGED <<link, close, cancels>>
      BY <2>18 DEF CancelledCleanupReturns
    <3> QED
      BY <2>0, <2>h, <3>1, <3>2 DEF Leave, Goto, CleanupEnds
  <2>19. ASSUME NEW c \in Calls, CancelQueued(c) PROVE CallInv(d)'
    <3>1. pc[c] = "queued" /\ Cancelling(c) /\ Goto(c, "done")
      BY <2>19 DEF CancelQueued
    <3>2. outcome' = [outcome EXCEPT ![c] = "cancelled"]
      BY <2>19 DEF CancelQueued
    <3>3. UNCHANGED <<holder, kind, attempt, sessionVars, wrote>>
      BY <2>19, Zenon DEF CancelQueued
    <3> QED
      BY <2>0, <2>h, <3>1, <3>2, <3>3 DEF Goto, Cancelling, sessionVars
  <2>20. ASSUME NEW c \in Calls, CancelBackoff(c) PROVE CallInv(d)'
    BY <2>0, <2>20 DEF CancelBackoff, Goto, lockVars, sessionVars, Cancelling,
         CleanupSteps, CleanupEnds
  <2>21. ASSUME NEW c \in Calls, CancelFactory(c) PROVE CallInv(d)'
    <3>1. Leave(c, "cancelled") /\ ~Retried(c, "cancelled")
      BY <2>21 DEF CancelFactory, Retried
    <3>2. pc[c] = "factory" /\ Cancelling(c) /\ UNCHANGED close
      BY <2>21 DEF CancelFactory
    <3>3. PICK up \in BOOLEAN : link' = [link EXCEPT ![c] = up]
      BY <2>21 DEF CancelFactory
    <3>4. CASE d = c
      BY <2>0, <2>h, <3>1, <3>2, <3>3, <3>4 DEF Leave, Goto, Cancelling
    <3>5. CASE d # c
      BY <2>0, <2>h, <3>1, <3>2, <3>3, <3>5 DEF Leave, Goto, Cancelling
    <3> QED
      BY <3>4, <3>5
  <2>22. ASSUME NEW c \in Calls, CancelTry(c) PROVE CallInv(d)'
    BY <2>0, <2>22 DEF CancelTry, EndTry, FirstCleanupStep, Goto, lockVars,
         Failures, Cancelling, CleanupSteps, CleanupEnds
  <2>23. ASSUME NEW c \in Calls, CancelShield(c) PROVE CallInv(d)'
    BY <2>0, <2>23 DEF CancelShield, Goto, lockVars, sessionVars, Cancelling,
         CleanupSteps, CleanupEnds
  <2>24. ASSUME NEW c \in Calls, CancelCleanup(c) PROVE CallInv(d)'
    BY <2>0, <2>24 DEF CancelCleanup, Goto, lockVars, sessionVars, Cancelling,
         CleanupSteps, CleanupEnds
  <2>25. ASSUME NEW c \in Calls, LinkDrops(c) PROVE CallInv(d)'
    BY <2>0, <2>25 DEF LinkDrops, Goto, lockVars, sessionVars, CleanupSteps,
         CleanupEnds
  <2>26. CASE UNCHANGED vars
    BY <2>0, <2>26 DEF vars
  <2> QED
    BY <2>1, <2>2, <2>3, <2>4, <2>5, <2>6, <2>7, <2>8, <2>9, <2>10,
       <2>11, <2>12, <2>13, <2>14, <2>15, <2>16, <2>17, <2>18, <2>19, <2>20,
       <2>21, <2>22, <2>23, <2>24, <2>25, <2>26
       DEF Next, Progress, Cancel, Finished
<1> QED BY <1>1, <1>2, TypeCorrect, PTL DEF Spec

-----------------------------------------------------------------------------
\* What follows from the inductive invariant.

\* No link outside the lock without a cleanup error or a cancelled call
\* (_run_session).
THEOREM LinkTheorem == Spec => []LinkOnlyUnderLock
<1>1. SafetyInv => LinkOnlyUnderLock
  BY DEF SafetyInv, CallInv, HolderInv, LinkInv, LinkOnlyUnderLock, Locked
<1> QED BY <1>1, SafetyHolds, PTL

\* One cancellation never cuts a cleanup short (_await_cancellation_safe_cleanup).
THEOREM OneCancelTheorem == Spec => []OneCancelIsSafe
<1>1. SafetyInv => OneCancelIsSafe
  BY DEF SafetyInv, TypeOK, CallInv, LinkInv, CleanupInv, CancelInv, CleanupEnds,
         OneCancelIsSafe
<1> QED BY <1>1, SafetyHolds, PTL

\* Every notification worker is stopped with its session (_TiltBleSession.stop).
THEOREM WorkerTheorem == Spec => []NoOrphanWorker
<1>1. SafetyInv => NoOrphanWorker
  BY DEF SafetyInv, CallInv, CleanupInv, NoOrphanWorker, Locked, Trying
<1> QED BY <1>1, SafetyHolds, PTL

\* A call puts at most one position write on the air
\* (set_position_and_read_status, read_status).
THEOREM WriteTheorem == Spec => []WriteAtMostOnce
<1>1. SafetyInv => WriteAtMostOnce
  <2> SUFFICES ASSUME SafetyInv, NEW c \in Calls
               PROVE  wrote[c] <= IF kind[c] = "write" THEN 1 ELSE 0
    BY DEF WriteAtMostOnce
  <2>1. wrote[c] \in Nat /\ WriteInv(c)
    BY DEF SafetyInv, TypeOK, CallInv
  <2> QED
    BY <2>1 DEF WriteInv
<1> QED BY <1>1, SafetyHolds, PTL

\* A cancellation shows in how the call ends (_run_session).
THEOREM CancelTheorem == Spec => []CancelIsNotLost
<1>1. SafetyInv => CancelIsNotLost
  BY DEF SafetyInv, CallInv, CancelInv, CancelIsNotLost
<1> QED BY <1>1, SafetyHolds, PTL

\* The sessions of one event loop exclude each other (_global_ble_lock).
THEOREM SerializationTheorem == Spec => []SerializedPerLoop
<1>1. SafetyInv => SerializedPerLoop
  BY DEF SafetyInv, CallInv, HolderInv, SerializedPerLoop
<1> QED BY <1>1, SafetyHolds, PTL

\* A second session of a call follows only a closed first one (read_status).
THEOREM RetryTheorem == Spec => RetryOnlyAfterClose
<1> DEFINE Step == \A c \in Calls : attempt'[c] # attempt[c] =>
                      /\ attempt[c] = 1 /\ kind[c] = "read"
                      /\ body[c] \in {"transient", "none"} /\ close[c] \in {"ok", "none"}
                      /\ ~link[c] /\ ~worker[c] /\ cancels[c] = 0
<1>1. SafetyInv /\ [Next]_vars => [Step]_vars
  <2> SUFFICES ASSUME SafetyInv, Next PROVE Step
    BY DEF vars
  <2>1. ASSUME NEW c \in Calls, Retry(c) PROVE Step
    <3>1. attempt' = [attempt EXCEPT ![c] = 2] /\ pc[c] = "backoff"
      BY <2>1 DEF Retry
    <3>2. attempt \in [Calls -> {1, 2}]
      BY DEF SafetyInv, TypeOK
    <3>3. kind[c] = "read" /\ attempt[c] = 1
      BY <3>1 DEF SafetyInv, CallInv, WriteInv
    <3>4. body[c] \in {"transient", "none"} /\ close[c] \in {"ok", "none"} /\ ~worker[c]
      BY <3>1 DEF SafetyInv, CallInv, CleanupInv, Closing
    <3>5. ~link[c]
      BY <3>1 DEF SafetyInv, CallInv, LinkInv, Trying, Closing
    <3>6. cancels[c] = 0
      <4>1. cancels[c] \in 0..MaxCancels
        BY DEF SafetyInv, TypeOK
      <4>2. ~(cancels[c] > 0)
        BY <3>1 DEF SafetyInv, CallInv, CancelInv, Closing
      <4> QED
        BY <4>1, <4>2, CancelAssumption
    <3> QED
      BY <3>1, <3>2, <3>3, <3>4, <3>5, <3>6
  <2>2. CASE UNCHANGED attempt
    BY <2>2
  <2>3. ASSUME NEW c \in Calls, Progress(c), ~Retry(c) PROVE UNCHANGED attempt
    BY <2>3, Zenon DEF Progress, Acquire, FactoryReturns, FactoryFails, Leave,
       ConnectReturns, ConnectFails, Start, StartFails, Authenticate,
       AuthenticateFails, WritePosition, OperationEnds, EndTry, StopWorker,
       StopNotify, Disconnect, CleanupReturns, CancelledCleanupReturns
  <2>4. ASSUME NEW c \in Calls, Cancel(c) PROVE UNCHANGED attempt
    BY <2>4, Zenon DEF Cancel, CancelQueued, CancelBackoff, CancelFactory, Leave,
       CancelTry, EndTry, CancelShield, CancelCleanup
  <2>5. ASSUME NEW c \in Calls, Call(c) \/ LinkDrops(c) PROVE UNCHANGED attempt
    BY <2>5, Zenon DEF Call, LinkDrops
  <2>6. Finished => UNCHANGED attempt
    BY DEF Finished, vars
  <2> QED
    BY <2>1, <2>2, <2>3, <2>4, <2>5, <2>6 DEF Next
<1> QED BY <1>1, SafetyHolds, PTL DEF Spec, RetryOnlyAfterClose
=============================================================================
