------------------------ MODULE TiltPosition_proofs ------------------------
(***************************************************************************)
(* Proofs about TiltPosition: what its results say about the shade, for    *)
(* all raw positions from 0 to 1000 and all targets.                       *)
(***************************************************************************)
EXTENDS TiltPosition, TLAPS

-----------------------------------------------------------------------------
\* Rounding (raw_position_to_percent).

\* A raw position rounds to a percent at most five raw units away.
LEMMA PercentIsNear ==
  ASSUME NEW r \in Nat
  PROVE  /\ RawToPercent(r) \in Nat
         /\ 10 * RawToPercent(r) - 5 <= r /\ r <= 10 * RawToPercent(r) + 5
<1> DEFINE q == r \div 10  t == r % 10
<1>1. q \in Nat /\ t \in 0..9 /\ r = 10 * q + t
  OBVIOUS
<1>2. RawToPercent(r) = IF t > 5 \/ (t = 5 /\ q % 2 = 1) THEN q + 1 ELSE q
  BY DEF RawToPercent
<1> HIDE DEF q, t
<1> QED BY <1>1, <1>2

\* Rounding keeps the order of positions.
LEMMA PercentIsMonotone ==
  ASSUME NEW r \in Nat, NEW s \in Nat, r <= s
  PROVE  RawToPercent(r) <= RawToPercent(s)
<1> DEFINE q == r \div 10  t == r % 10  u == s \div 10  v == s % 10
<1>1. /\ q \in Nat /\ t \in 0..9 /\ r = 10 * q + t
      /\ u \in Nat /\ v \in 0..9 /\ s = 10 * u + v
  OBVIOUS
<1>2. RawToPercent(r) \in {q, q + 1} /\ RawToPercent(s) \in {u, u + 1}
  BY DEF RawToPercent
<1>3. CASE q < u
  BY <1>1, <1>2, <1>3
<1>4. CASE q = u
  <2>1. t <= v
    BY <1>1, <1>4
  <2>2. RawToPercent(r) = IF t > 5 \/ (t = 5 /\ q % 2 = 1) THEN q + 1 ELSE q
    BY DEF RawToPercent
  <2>3. RawToPercent(s) = IF v > 5 \/ (v = 5 /\ q % 2 = 1) THEN q + 1 ELSE q
    BY <1>4 DEF RawToPercent
  <2> HIDE DEF q, t, v
  <2> QED
    BY <1>1, <2>1, <2>2, <2>3
<1>5. q <= u
  <2> HIDE DEF q, t, u, v
  <2> QED BY <1>1
<1> HIDE DEF q, u
<1> QED BY <1>1, <1>3, <1>4, <1>5

\* What a verdict on two readings says about the raw positions.
LEMMA MovedVerdict ==
  ASSUME NEW b \in Nat, NEW a \in Nat, target \in Int,
         RawToPercent(b) # target, Verdict(b, a) = "moved"
  PROVE  IF target > RawToPercent(b) THEN a > b ELSE a < b
<1> DEFINE pb == RawToPercent(b)  pa == RawToPercent(a)
<1>1. pb \in Nat /\ pa \in Nat
  BY PercentIsNear
<1>2. pa = target \/ MovedToward(pb, pa, target)
  BY DEF Verdict
<1>3. CASE target > pb
  <2>1. pa > pb
    BY <1>1, <1>2, <1>3 DEF MovedToward
  <2> QED
    BY <1>1, <1>3, <2>1, PercentIsMonotone
<1>4. CASE ~(target > pb)
  <2>1. pa < pb
    BY <1>1, <1>2, <1>4 DEF MovedToward
  <2> QED
    BY <1>1, <1>4, <2>1, PercentIsMonotone
<1> QED BY <1>3, <1>4

LEMMA PendingVerdict ==
  ASSUME NEW b \in Nat, NEW a \in Nat, target \in Int,
         Verdict(b, a) = "pending"
  PROVE  IF target > RawToPercent(b) THEN a - b <= 10 ELSE b - a <= 10
<1> DEFINE pb == RawToPercent(b)  pa == RawToPercent(a)
<1>1. /\ pb \in Nat /\ 10 * pb - 5 <= b /\ b <= 10 * pb + 5
      /\ pa \in Nat /\ 10 * pa - 5 <= a /\ a <= 10 * pa + 5
  BY PercentIsNear
<1>2. ~MovedToward(pb, pa, target)
  BY DEF Verdict
<1>3. IF target > pb THEN pa <= pb ELSE pa >= pb
  BY <1>1, <1>2 DEF MovedToward
<1> HIDE DEF pa, pb
<1>4. IF target > pb THEN a - b <= 10 ELSE b - a <= 10
  BY <1>1, <1>3
<1> QED BY <1>4 DEF pb

-----------------------------------------------------------------------------
\* The invariant.

\* The inductive invariant of the call and of the shade
\* (set_position_and_read_status).
THEOREM CallInvHolds == Spec => []CallInv
<1> USE PositionAssumption, TargetAssumption, GoalAssumption
<1> USE DEF Session!Requests, Session!Outcomes, ReadBefore, Write, ReadAfter
<1>1. Init => CallInv
  BY DEF Init, Session!Init, CallInv, TypeOK, PlaceInv, ReadingInv, VerdictInv, Raws
<1>2. CallInv /\ [Next]_vars => CallInv'
  <2> SUFFICES ASSUME CallInv, [Next]_vars PROVE CallInv'
    OBVIOUS
  <2> USE DEF CallInv, TypeOK, PlaceInv, ReadingInv, VerdictInv
  <2>1. CASE Refuse
    BY <2>1 DEF Refuse, End, sessionVars, shadeVars
  <2>2. CASE Begin
    BY <2>2 DEF Begin, sessionVars, shadeVars
  <2>3. CASE TakeBefore
    <3>1. Session!Answer /\ pc = "before" /\ before' = sampled
      BY <2>3 DEF TakeBefore
    <3>2. /\ current' = Write /\ UNCHANGED executed
          /\ outcome' \in [1..3 -> Session!Outcomes] /\ sampled \in Positions
      BY <3>1 DEF Session!Answer, Session!Settle
    <3>3. CASE RawToPercent(sampled) = target
      BY <2>3, <3>1, <3>2, <3>3 DEF TakeBefore, End, shadeVars
    <3>4. CASE RawToPercent(sampled) # target
      BY <2>3, <3>1, <3>2, <3>4 DEF TakeBefore, shadeVars
    <3> QED
      BY <3>3, <3>4
  <2>4. CASE WriteAnswered
    BY <2>4 DEF WriteAnswered, Session!Answer, Session!Settle, shadeVars
  <2>5. CASE WriteTimesOut
    BY <2>5 DEF WriteTimesOut, Session!TimeOut, Session!Settle, shadeVars
  <2>6. CASE TakeAfter
    <3>1. Session!Answer /\ pc \in {"verify", "readback"} /\ after' = sampled
          /\ End(Verdict(before, sampled))
          /\ UNCHANGED <<target, allowed, before, shadeVars>>
      BY <2>6 DEF TakeAfter
    <3>2. /\ current' = 4 /\ UNCHANGED executed /\ ReadAfter \in executed
          /\ outcome' \in [1..3 -> Session!Outcomes] /\ sampled \in Positions
      BY <3>1 DEF Session!Answer, Session!Settle
    <3>3. Verdict(before, sampled) \in {"moved", "pending"}
      BY DEF Verdict
    <3>4. result' = Verdict(before, after)'
      BY <3>1 DEF End, Verdict
    <3> QED
      BY <3>1, <3>2, <3>3, <3>4 DEF End, shadeVars
  <2>7. CASE RequestFails
    <3>1. UNCHANGED <<current, executed>> /\ outcome' \in [1..3 -> Session!Outcomes]
      BY <2>7 DEF RequestFails, Session!Abort, Session!Settle
    <3> QED
      BY <2>7, <3>1 DEF RequestFails, End, shadeVars
  <2>8. CASE ReportPosition
    <3>1. PICK i \in {ReadBefore, ReadAfter} : Session!Execute(i)
      BY <2>8 DEF ReportPosition
    <3>2. executed' = executed \cup {i} /\ UNCHANGED <<current, outcome>>
      BY <3>1 DEF Session!Execute
    <3>3. sampled' = raw /\ UNCHANGED <<callVars, raw, goal, goals>>
      BY <2>8 DEF ReportPosition
    <3> QED
      BY <3>2, <3>3 DEF callVars, Verdict
  <2>9. CASE TakeGoal
    <3>1. executed' = executed \cup {Write} /\ UNCHANGED <<current, outcome>>
      BY <2>9 DEF TakeGoal, Session!Execute
    <3>2. goal' \in Raws
      BY <2>9 DEF TakeGoal, Asked, PercentToRaw, Percents, Raws, MaxRaw
    <3>3. UNCHANGED <<callVars, sampled, raw, goals>>
      BY <2>9 DEF TakeGoal
    <3> QED
      BY <3>1, <3>2, <3>3 DEF callVars, Verdict
  <2>10. CASE Travel
    BY <2>10 DEF Travel, sessionVars, callVars, Verdict
  <2>11. CASE OtherGoal
    BY <2>11 DEF OtherGoal, sessionVars, callVars, Verdict
  <2>12. CASE UNCHANGED vars
    BY <2>12 DEF vars, sessionVars, callVars, shadeVars, Verdict
  <2> QED
    BY <2>1, <2>2, <2>3, <2>4, <2>5, <2>6, <2>7, <2>8, <2>9, <2>10, <2>11, <2>12
       DEF Next, Client
<1> QED BY <1>1, <1>2, PTL DEF Spec

\* The types of a position command and of the shade (set_position_and_read_status).
THEOREM TypeCorrect == Spec => []TypeOK
<1>1. CallInv => TypeOK
  BY DEF CallInv
<1> QED BY <1>1, CallInvHolds, PTL

\* moved = True means the shade really went the target's way (_moved_toward), for
\* every pair of raw positions and every target.
THEOREM MovedTheorem == Spec => []MovedIsReal
<1>1. CallInv => MovedIsReal
  <2> SUFFICES ASSUME CallInv, result = "moved"
               PROVE  IF target > RawToPercent(before) THEN after > before
                                                       ELSE after < before
    BY DEF MovedIsReal
  <2>1. before \in Nat /\ after \in Nat /\ target \in Int
    <3>1. target \in Int
      BY TargetAssumption DEF CallInv, TypeOK
    <3>2. before \in Positions /\ after \in Positions
      BY DEF CallInv, VerdictInv
    <3> QED
      BY <3>1, <3>2, PositionAssumption DEF Raws, MaxRaw
  <2>2. RawToPercent(before) # target /\ Verdict(before, after) = "moved"
    BY DEF CallInv, VerdictInv
  <2> QED
    BY <2>1, <2>2, MovedVerdict
<1> QED BY <1>1, CallInvHolds, PTL

\* PositionVerificationPending hides a movement of at most one percent.
THEOREM PendingTheorem == Spec => []PendingMeansWithinOnePercent
<1>1. CallInv => PendingMeansWithinOnePercent
  <2> SUFFICES ASSUME CallInv, result = "pending"
               PROVE  IF target > RawToPercent(before) THEN after - before <= 10
                                                       ELSE before - after <= 10
    BY DEF PendingMeansWithinOnePercent
  <2>1. before \in Nat /\ after \in Nat /\ target \in Int
    <3>1. target \in Int
      BY TargetAssumption DEF CallInv, TypeOK
    <3>2. before \in Positions /\ after \in Positions
      BY DEF CallInv, VerdictInv
    <3> QED
      BY <3>1, <3>2, PositionAssumption DEF Raws, MaxRaw
  <2>2. Verdict(before, after) = "pending"
    BY DEF CallInv, VerdictInv
  <2> QED
    BY <2>1, <2>2, PendingVerdict
<1> QED BY <1>1, CallInvHolds, PTL

\* No write starts after the readback that was judged (Exchange keeps the order).
THEOREM JudgedTheorem == Spec => JudgedMeansSettled
<1>1. CallInv /\ [Next]_vars => [result \notin {"moved", "pending"}]_executed
  <2> SUFFICES ASSUME CallInv, [Next]_vars, result \in {"moved", "pending"}
               PROVE  UNCHANGED executed
    OBVIOUS
  <2>1. ReadAfter \in executed /\ pc = "done"
    BY DEF CallInv, VerdictInv, PlaceInv
  <2>2. ASSUME NEW i \in 1..3, Session!Execute(i) PROVE UNCHANGED executed
    BY <2>1, <2>2 DEF Session!Execute, ReadAfter
  <2>3. CASE ReportPosition \/ TakeGoal
    BY <2>2, <2>3 DEF ReportPosition, TakeGoal, ReadBefore, Write, ReadAfter
  <2>4. CASE Client
    BY <2>1, <2>4 DEF Client, Refuse, Begin, TakeBefore, WriteAnswered, WriteTimesOut,
       TakeAfter, RequestFails
  <2>5. CASE Travel \/ OtherGoal
    BY <2>5 DEF Travel, OtherGoal, sessionVars
  <2>6. CASE UNCHANGED vars
    BY <2>6 DEF vars, sessionVars
  <2> QED
    BY <2>3, <2>4, <2>5, <2>6 DEF Next
<1> QED BY <1>1, CallInvHolds, PTL DEF Spec, JudgedMeansSettled
============================================================================
