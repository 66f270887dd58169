---------------------------- MODULE TiltPosition ----------------------------
(***************************************************************************)
(* TiltShadeClient.set_position_and_read_status: read the position, put    *)
(* one position write, read the position back and judge from the two       *)
(* readings whether the shade responded.  The three requests go through a  *)
(* session that promises what Exchange says (TiltLink implements it).  The *)
(* shade travels towards its latest goal at its own pace, and others can   *)
(* give it goals too: a remote, the app, a call made before this one.      *)
(***************************************************************************)
EXTENDS TiltCodec

CONSTANTS
    Positions, \* the raw positions the shade can be in
    Targets,   \* the targets a caller asks for
    MaxGoals   \* bound on the goals others give the shade

ASSUME PositionAssumption == Positions \subseteq Raws
ASSUME TargetAssumption == Targets \subseteq Int
ASSUME GoalAssumption == MaxGoals \in Nat

VARIABLES
    current, outcome, executed, \* the session, as in Exchange
    target,  \* the percent asked for
    allowed, \* allow_position_writes
    pc,      \* where the call stands
    before,  \* the raw position the first read found, -1 until it is known
    after,   \* the raw position of the last read
    result,  \* how the call ended
    sampled, \* the position the shade put in its latest read response
    raw,     \* where the shade is
    goal,    \* where it is going
    goals    \* goals given by others so far

sessionVars == <<current, outcome, executed>>
callVars    == <<target, allowed, pc, before, after, result>>
shadeVars   == <<sampled, raw, goal, goals>>
vars == <<sessionVars, callVars, shadeVars>>

Session == INSTANCE Exchange WITH N <- 3, Writes <- {2}
ReadBefore == 1
Write      == 2
ReadAfter  == 3

Unknown == -1

Init ==
    /\ Session!Init
    /\ target \in Targets
    /\ allowed \in BOOLEAN
    /\ pc = "start"
    /\ before = Unknown /\ after = Unknown
    /\ result = "none"
    /\ sampled = Unknown
    /\ raw \in Positions /\ goal \in Positions
    /\ goals = 0

-----------------------------------------------------------------------------
\* The call.

End(r) == pc' = "done" /\ result' = r

Refuse ==
    /\ pc = "start"
    /\ ~allowed \/ target \notin Percents
    /\ End("refused")
    /\ UNCHANGED <<sessionVars, target, allowed, before, after, shadeVars>>

Begin ==
    /\ pc = "start"
    /\ allowed /\ target \in Percents
    /\ pc' = "before"
    /\ UNCHANGED <<sessionVars, target, allowed, before, after, result, shadeVars>>

\* `before` is read; a shade at the target is left alone.
TakeBefore ==
    /\ pc = "before"
    /\ Session!Answer
    /\ before' = sampled
    /\ IF RawToPercent(sampled) = target
       THEN End("noop") ELSE pc' = "write" /\ UNCHANGED result
    /\ UNCHANGED <<target, allowed, after, shadeVars>>

WriteAnswered ==
    /\ pc = "write"
    /\ Session!Answer
    /\ pc' = "verify"
    /\ UNCHANGED <<target, allowed, before, after, result, shadeVars>>

\* TiltBleTimeout of set_position: the readback under `except`.
WriteTimesOut ==
    /\ pc = "write"
    /\ Session!TimeOut
    /\ pc' = "readback"
    /\ UNCHANGED <<target, allowed, before, after, result, shadeVars>>

\* The same verdict on either readback.
Verdict(first, last) ==
    IF \/ RawToPercent(last) = target
       \/ MovedToward(RawToPercent(first), RawToPercent(last), target)
    THEN "moved" ELSE "pending"

\* Faulty: the verdict is given on a readback that failed.
TakeAfterUnanswered ==
    /\ pc \in {"verify", "readback"}
    /\ Session!Abort
    /\ after' = sampled
    /\ End(Verdict(before, sampled))
    /\ UNCHANGED <<target, allowed, before, shadeVars>>

TakeAfter ==
    /\ pc \in {"verify", "readback"}
    /\ Session!Answer
    /\ after' = sampled
    /\ End(Verdict(before, sampled))
    /\ UNCHANGED <<target, allowed, before, shadeVars>>

\* Any other exception: the readback under `except` turns it into an
\* AmbiguousPositionWrite, everywhere else it is raised as it is.
RequestFails ==
    /\ pc \in {"before", "write", "verify", "readback"}
    /\ Session!Abort
    /\ End(IF pc = "readback" THEN "ambiguous" ELSE "error")
    /\ UNCHANGED <<target, allowed, before, after, shadeVars>>

-----------------------------------------------------------------------------
\* The shade.

Asked == pc # "start" /\ result \notin {"refused", "noop"}

ReportPosition ==
    /\ Asked
    /\ \E i \in {ReadBefore, ReadAfter} : Session!Execute(i)
    /\ sampled' = raw
    /\ UNCHANGED <<callVars, raw, goal, goals>>

TakeGoal ==
    /\ Asked
    /\ Session!Execute(Write)
    /\ goal' = PercentToRaw(target)
    /\ UNCHANGED <<callVars, sampled, raw, goals>>

\* Towards the goal, but not beyond it.
Travel ==
    /\ \E next \in Positions :
          /\ \/ raw < next /\ next <= goal
             \/ goal <= next /\ next < raw
          /\ raw' = next
    /\ UNCHANGED <<sessionVars, callVars, sampled, goal, goals>>

OtherGoal ==
    /\ goals < MaxGoals
    /\ goals' = goals + 1
    /\ goal' \in Positions \ {goal}
    /\ UNCHANGED <<sessionVars, callVars, sampled, raw>>

-----------------------------------------------------------------------------
Client == \/ Refuse \/ Begin \/ TakeBefore \/ WriteAnswered \/ WriteTimesOut
          \/ TakeAfter \/ RequestFails

Next == Client \/ ReportPosition \/ TakeGoal \/ Travel \/ OtherGoal

Spec == Init /\ [][Next]_vars

-----------------------------------------------------------------------------
\* Type invariant of the call and of the shade.
TypeOK ==
    /\ current \in 1..4
    /\ outcome \in [1..3 -> Session!Outcomes]
    /\ executed \subseteq 1..3
    /\ target \in Targets
    /\ allowed \in BOOLEAN
    /\ pc \in {"start", "before", "write", "verify", "readback", "done"}
    /\ {before, after, sampled} \subseteq Positions \cup {Unknown}
    /\ result \in {"none", "refused", "noop", "moved", "pending", "ambiguous", "error"}
    /\ raw \in Positions
    /\ goal \in Raws
    /\ goals \in 0..MaxGoals

\* A call that returns moved = True found the shade strictly nearer the side of
\* the target than the first read had: the rounding to percents never makes a
\* resting or receding shade look like a moving one (_moved_toward).
MovedIsReal ==
    result = "moved" =>
        IF target > RawToPercent(before) THEN after > before ELSE after < before

\* A call that raises PositionVerificationPending although the shade did move
\* toward the target saw it travel at most one percent (rounding, _moved_toward).
PendingMeansWithinOnePercent ==
    result = "pending" =>
        IF target > RawToPercent(before) THEN after - before <= 10
                                         ELSE before - after <= 10

\* When the call has judged a readback, the fate of its write is settled: the
\* shade cannot start on the write after the position it reported.
JudgedMeansSettled ==
    [][result \notin {"moved", "pending"}]_executed

\* AmbiguousPositionWrite, "raised when a position write cannot be confirmed by
\* readback": a call whose readback failed after a write ends with that error.
FailedReadbackIsAmbiguous ==
    result = "error" => outcome[ReadAfter] # "error"

\* "The read-back is used to prove the shade responded to the command"
\* (set_position_and_read_status): moved = True means the shade took the write.
MovedMeansResponded == result = "moved" => Write \in executed

-----------------------------------------------------------------------------
\* The inductive strengthening of MovedIsReal, PendingMeansWithinOnePercent and
\* JudgedMeansSettled.

\* Which request of the session the call is at.
PlaceInv ==
    /\ pc \in {"start", "before"} => current = ReadBefore
    /\ pc = "write" => current = Write
    /\ pc \in {"verify", "readback"} => current = ReadAfter
    /\ pc # "done" => result = "none"
    /\ pc # "start" /\ result # "refused" => target \in Percents

\* A reading that was answered is a position the shade was in.
ReadingInv ==
    /\ ReadBefore \in executed \/ ReadAfter \in executed => sampled \in Positions
    /\ pc \in {"write", "verify", "readback"} =>
          before \in Positions /\ RawToPercent(before) # target

\* A verdict is the verdict on two readings, and the second read was carried out.
VerdictInv ==
    result \in {"moved", "pending"} =>
        /\ {before, after} \subseteq Positions
        /\ RawToPercent(before) # target
        /\ result = Verdict(before, after)
        /\ ReadAfter \in executed

CallInv == TypeOK /\ PlaceInv /\ ReadingInv /\ VerdictInv

=============================================================================
