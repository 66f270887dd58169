------------------------- MODULE SmartBlind_proofs --------------------------
(***************************************************************************)
(* Proofs about SmartBlind: the safety of concurrent calls on one driver   *)
(* object, for any number of calls, keys and targets.                      *)
(***************************************************************************)
EXTENDS SmartBlind, TLAPS

CallType ==
    [pc : Places, kind : {"tilt", "scan"}, target : Int, candidate : Keys,
     alone : BOOLEAN, solo : BOOLEAN, reached : BOOLEAN, linked : BOOLEAN,
     wrote : Int, found : Int, obeyed : BOOLEAN,
     raised : {"none", "ble", "cancelled"}, broken : BOOLEAN, result : Results]

Typed ==
    /\ key \in Keys
    /\ position \in 0..PositionMax /\ tilt \in 0..PositionMax
    /\ inStep \in BOOLEAN
    /\ call \in [Calls -> CallType]

Running(s) == s.pc \notin {"idle", "done"}

\* A scan that no other scan overlapped.
Solo(s) == s.kind = "scan" /\ s.solo

\* What holds of the state s of one call, wherever the others stand.
CallInv(s) ==
    /\ s.pc = "done" <=> s.result # "none"
    /\ Running(s) => s.target \in 0..PositionMax
    /\ s.pc = "connect" => ~s.reached
    /\ s.pc \in {"idle", "connect"} => ~s.linked
    /\ s.pc = "done" /\ s.linked => s.broken \/ (s.result = "cancelled" /\ ~s.reached)
    /\ Solo(s) /\ (s.pc = "tilt" \/ (s.pc = "disconnect" /\ s.raised = "none")) =>
          s.wrote = s.candidate
    /\ Solo(s) /\ s.result = "ok" => s.found = s.candidate /\ s.wrote = s.candidate
    /\ Running(s) /\ s.pc # "disconnect" => ~s.obeyed

\* A call that runs alone is the only one, and what it made the motor do is not
\* undone before it ends.
AloneInv ==
    \A c \in Calls :
        Running(call[c]) /\ call[c].alone =>
            /\ \A d \in Calls \ {c} : ~Running(call[d])
            /\ call[c].obeyed => tilt = call[c].target

\* The object's key is the candidate of the only scan.
SoloInv ==
    \A c \in Calls :
        Running(call[c]) /\ Solo(call[c]) =>
            /\ key = call[c].candidate
            /\ \A d \in Calls \ {c} : Running(call[d]) => call[d].kind # "scan"

IInv == /\ Typed /\ (\A c \in Calls : CallInv(call[c]))
        /\ AloneInv /\ SoloInv /\ PositionKeptInStep

USE KeyAssumption, TargetAssumption DEF PositionMax

LEMMA NotBegunType == NotBegun \in CallType
  BY DEF NotBegun, CallType, Places, Keys, Results

LEMMA InitInv == Init => IInv
<1> SUFFICES ASSUME Init PROVE IInv
  OBVIOUS
<1>1. call = [c \in Calls |-> NotBegun]
  BY DEF Init
<1>2. Typed
  <2>1. call \in [Calls -> CallType]
    BY <1>1, NotBegunType
  <2>2. key \in Keys /\ inStep \in BOOLEAN
    BY DEF Init
  <2>3. position \in 0..PositionMax /\ tilt \in 0..PositionMax
    BY DEF Init
  <2> QED
    BY <2>1, <2>2, <2>3 DEF Typed
<1>3. ~Running(NotBegun) /\ CallInv(NotBegun)
  BY DEF NotBegun, Running, CallInv, Solo
<1>4. \A c \in Calls : CallInv(call[c])
  BY <1>1, <1>3
<1>5. AloneInv /\ SoloInv
  BY <1>1, <1>3 DEF AloneInv, SoloInv
<1> QED
  BY <1>2, <1>4, <1>5 DEF Init, IInv, PositionKeptInStep

\* A call that begins is alone if no other runs, and no other is alone any more.
LEMMA BegunInv ==
  ASSUME IInv, NEW c \in Calls, call[c].pc = "idle", NEW first \in CallType,
         call' = Begun(c, first), first.pc = "connect", CallInv(first),
         key' \in Keys, IF first.kind = "scan" THEN key' = first.candidate ELSE key' = key,
         UNCHANGED <<position, tilt, inStep>>
  PROVE  IInv'
<1> DEFINE New(d) ==
      IF d = c THEN [first EXCEPT !.alone = (InFlight = {}), !.solo = (Scans = {})]
      ELSE IF d \in InFlight
      THEN [call[d] EXCEPT !.alone = FALSE, !.solo = @ /\ first.kind # "scan"]
      ELSE call[d]
<1>1. call' = [d \in Calls |-> New(d)] /\ \A d \in Calls : call'[d] = New(d)
  BY DEF Begun
<1>2. \A d \in Calls :
        /\ New(d) \in CallType
        /\ \A s \in {IF d = c THEN first ELSE call[d]} :
             /\ New(d).pc = s.pc /\ New(d).target = s.target
             /\ New(d).reached = s.reached /\ New(d).linked = s.linked
             /\ New(d).obeyed = s.obeyed /\ New(d).broken = s.broken
             /\ New(d).result = s.result /\ New(d).kind = s.kind
             /\ New(d).candidate = s.candidate /\ New(d).raised = s.raised
             /\ New(d).wrote = s.wrote /\ New(d).found = s.found
        /\ New(d).alone => IF d = c THEN InFlight = {} ELSE d \notin InFlight
        /\ New(d).solo => \/ d = c /\ Scans = {}
                          \/ d # c /\ call[d].solo
                             /\ (d \in InFlight => first.kind # "scan")
  <2> TAKE d \in Calls
  <2>1. ASSUME NEW s \in CallType, NEW alone \in BOOLEAN, NEW solo \in BOOLEAN,
               New(d) = [s EXCEPT !.alone = alone, !.solo = solo]
        PROVE  /\ New(d) \in CallType /\ New(d).alone = alone /\ New(d).solo = solo
               /\ New(d).pc = s.pc /\ New(d).target = s.target
               /\ New(d).reached = s.reached /\ New(d).linked = s.linked
               /\ New(d).obeyed = s.obeyed /\ New(d).broken = s.broken
               /\ New(d).result = s.result /\ New(d).kind = s.kind
               /\ New(d).candidate = s.candidate /\ New(d).raised = s.raised
               /\ New(d).wrote = s.wrote /\ New(d).found = s.found
    <3> HIDE DEF New
    <3> QED
      BY <2>1 DEF CallType
  <2>2. call[d] \in CallType
    BY DEF IInv, Typed
  <2>3. CASE d = c
    <3>1. New(d) = [first EXCEPT !.alone = (InFlight = {}), !.solo = (Scans = {})]
      BY <2>3
    <3>2. (InFlight = {}) \in BOOLEAN /\ (Scans = {}) \in BOOLEAN
      OBVIOUS
    <3> HIDE DEF New
    <3>3. /\ New(d) \in CallType /\ New(d).alone = (InFlight = {})
          /\ New(d).solo = (Scans = {})
      BY <2>1, <3>1, <3>2
    <3>4. /\ New(d).pc = first.pc /\ New(d).target = first.target
          /\ New(d).reached = first.reached /\ New(d).linked = first.linked
          /\ New(d).obeyed = first.obeyed /\ New(d).broken = first.broken
          /\ New(d).result = first.result /\ New(d).kind = first.kind
          /\ New(d).candidate = first.candidate /\ New(d).raised = first.raised
          /\ New(d).wrote = first.wrote /\ New(d).found = first.found
      BY <2>1, <3>1, <3>2
    <3> QED
      BY <2>3, <3>3, <3>4
  <2>4. CASE d # c /\ d \in InFlight
    <3> DEFINE solo == call[d].solo /\ first.kind # "scan"
    <3>1. New(d) = [call[d] EXCEPT !.alone = FALSE, !.solo = solo]
      BY <2>4
    <3>2. solo \in BOOLEAN
      OBVIOUS
    <3> HIDE DEF New
    <3>3. New(d) \in CallType /\ New(d).alone = FALSE /\ New(d).solo = solo
      BY <2>1, <2>2, <3>1, <3>2
    <3> QED
      BY <2>1, <2>2, <2>4, <3>1, <3>2, <3>3
  <2>5. CASE d # c /\ d \notin InFlight
    BY <2>2, <2>5
  <2> QED
    BY <2>3, <2>4, <2>5
<1> HIDE DEF New
<1>3. Typed'
  BY <1>1, <1>2 DEF IInv, Typed
<1>4. \A d \in Calls : CallInv(call'[d])
  <2> SUFFICES ASSUME NEW d \in Calls PROVE CallInv(New(d))
    BY <1>1
  <2>1. CASE d = c
    BY <1>2, <2>1 DEF CallInv, Running, Solo
  <2>2. CASE d # c
    <3>1. CallInv(call[d]) /\ (New(d).solo => call[d].solo)
      BY <1>2, <2>2 DEF IInv
    <3> QED
      BY <1>2, <2>2, <3>1 DEF CallInv, Running, Solo
  <2> QED
    BY <2>1, <2>2
<1>5. AloneInv'
  <2> SUFFICES ASSUME NEW d \in Calls, Running(call'[d]), call'[d].alone
               PROVE  /\ \A e \in Calls \ {d} : ~Running(call'[e])
                      /\ call'[d].obeyed => tilt' = call'[d].target
    BY DEF AloneInv
  <2>1. d = c /\ InFlight = {}
    BY <1>1, <1>2 DEF Running, InFlight
  <2>2. ~call'[d].obeyed
    BY <1>1, <1>2, <2>1 DEF CallInv, Running
  <2> QED
    BY <1>1, <1>2, <2>1, <2>2 DEF Running, InFlight
<1>6. SoloInv'
  <2> SUFFICES ASSUME NEW d \in Calls, Running(New(d)), Solo(New(d))
               PROVE  /\ key' = New(d).candidate
                      /\ \A e \in Calls \ {d} : Running(New(e)) => New(e).kind # "scan"
    BY <1>1 DEF SoloInv
  <2>1. \A e \in Calls \ {c} : Running(New(e)) => e \in InFlight /\ New(e).kind = call[e].kind
    BY <1>2 DEF Running, InFlight
  <2>2. CASE d = c
    <3>1. Scans = {} /\ first.kind = "scan" /\ New(d).candidate = first.candidate
      BY <1>2, <2>2 DEF Solo
    <3> QED
      BY <2>1, <2>2, <3>1 DEF Scans
  <2>3. CASE d # c
    <3>1. /\ d \in InFlight /\ Running(call[d]) /\ Solo(call[d]) /\ first.kind # "scan"
          /\ New(d).candidate = call[d].candidate /\ New(c).kind = first.kind
      BY <1>2, <2>1, <2>3 DEF Solo, Running, InFlight
    <3>2. /\ key = call[d].candidate
          /\ \A e \in Calls \ {d} : Running(call[e]) => call[e].kind # "scan"
      BY <3>1 DEF IInv, SoloInv
    <3> QED
      BY <2>1, <2>3, <3>1, <3>2 DEF Running, InFlight
  <2> QED
    BY <2>2, <2>3
<1> QED
  BY <1>3, <1>4, <1>5, <1>6 DEF IInv, PositionKeptInStep

\* A step that takes call c from one state to the next and disturbs neither the
\* motor nor the record keeps the invariant, if the next state is good.
LEMMA QuietInv ==
  ASSUME IInv, NEW c \in Calls, Running(call[c]), NEW next \in CallType,
         call' = [call EXCEPT ![c] = next], CallInv(next),
         next.alone = call[c].alone,
         next.target = call[c].target, next.obeyed => call[c].obeyed,
         next.kind = call[c].kind, next.solo = call[c].solo,
         key' \in Keys, UNCHANGED <<position, tilt, inStep>>,
         \/ key' = key /\ next.candidate = call[c].candidate
         \/ next.kind = "scan" /\ key' = next.candidate
  PROVE  IInv'
<1>1. call'[c] = next /\ \A d \in Calls \ {c} : call'[d] = call[d]
  BY DEF IInv, Typed
<1>2. Typed'
  BY DEF IInv, Typed
<1>3. \A d \in Calls : CallInv(call'[d])
  BY <1>1 DEF IInv
<1>4. AloneInv'
  BY <1>1 DEF IInv, AloneInv
<1>5. SoloInv'
  BY <1>1 DEF IInv, SoloInv, Solo
<1> QED
  BY <1>2, <1>3, <1>4, <1>5 DEF IInv, PositionKeptInStep

\* The motor takes the position of c.
LEMMA TakenInv ==
  ASSUME IInv, NEW c \in Calls, Running(call[c]), NEW next \in CallType,
         call' = [call EXCEPT ![c] = next], CallInv(next),
         next.alone = call[c].alone, next.target = call[c].target,
         next.kind = call[c].kind, next.solo = call[c].solo,
         next.candidate = call[c].candidate,
         tilt' = call[c].target, inStep' = FALSE, UNCHANGED <<key, position>>
  PROVE  IInv'
<1>1. call'[c] = next /\ \A d \in Calls \ {c} : call'[d] = call[d]
  BY DEF IInv, Typed
<1>2. Typed'
  BY DEF IInv, Typed, CallInv
<1>3. \A d \in Calls : CallInv(call'[d])
  BY <1>1 DEF IInv
<1>4. AloneInv'
  BY <1>1 DEF IInv, AloneInv
<1>5. SoloInv'
  BY <1>1 DEF IInv, SoloInv, Solo
<1> QED
  BY <1>2, <1>3, <1>4, <1>5 DEF IInv, PositionKeptInStep

\* A call that raises from a running state.
LEMMA RaiseInv ==
  ASSUME IInv, NEW c \in Calls, Running(call[c]), UNCHANGED tilt,
         NEW linked \in BOOLEAN, NEW broken \in BOOLEAN, NEW error \in Results \ {"none", "ok"},
         linked => broken \/ (error = "cancelled" /\ ~call[c].reached),
         Raise(c, [call[c] EXCEPT !.linked = linked, !.broken = broken], error)
  PROVE  IInv'
<1> DEFINE next == [[call[c] EXCEPT !.linked = linked, !.broken = broken]
                       EXCEPT !.pc = "done", !.result = error]
<1>1. call[c] \in CallType
  BY DEF IInv, Typed
<1>2. /\ next \in CallType /\ next.pc = "done" /\ next.result = error
      /\ next.linked = linked /\ next.broken = broken
      /\ next.reached = call[c].reached /\ next.alone = call[c].alone
      /\ next.target = call[c].target /\ next.obeyed = call[c].obeyed
      /\ next.kind = call[c].kind /\ next.solo = call[c].solo
      /\ next.candidate = call[c].candidate
  BY <1>1 DEF CallType, Places
<1>3. call' = [call EXCEPT ![c] = next] /\ UNCHANGED <<key, position, inStep>>
  BY DEF Raise
<1> HIDE DEF next
<1>4. CallInv(next)
  BY <1>2 DEF CallInv, Running
<1>5. key' \in Keys
  BY <1>3 DEF IInv, Typed
<1> QED
  BY <1>2, <1>3, <1>4, <1>5, QuietInv

LEMMA BeginInv == ASSUME IInv, NEW c \in Calls, Begin(c) PROVE IInv'
<1>0. call[c] \in CallType /\ key \in Keys /\ 0 \in Keys
  BY DEF IInv, Typed, Keys
<1>1. ASSUME NEW target \in Int, SetTilt(c, target) PROVE IInv'
  <2> DEFINE first == [NotBegun EXCEPT !.pc = "connect", !.target = target]
  <2>1. call' = Begun(c, first) /\ call[c].pc = "idle"
    BY <1>1 DEF SetTilt
  <2>2. first \in CallType
    BY NotBegunType DEF CallType, Places
  <2>3. first.pc = "connect" /\ first.kind = "tilt" /\ CallInv(first)
    BY <1>1 DEF SetTilt, NotBegun, CallInv, Running, Solo
  <2> HIDE DEF first
  <2> QED
    BY <1>0, <1>1, <2>1, <2>2, <2>3, BegunInv DEF SetTilt
<1>2. ASSUME NEW target \in Int, SetTiltRefused(c, target) PROVE IInv'
  <2> DEFINE next == [[[call[c] EXCEPT !.pc = "done"] EXCEPT !.target = target]
                         EXCEPT !.result = "invalid"]
  <2>1. /\ next \in CallType /\ next.pc = "done" /\ next.result = "invalid"
        /\ next.linked = call[c].linked
    BY <1>0 DEF CallType, Places, Results
  <2>2. /\ call' = [call EXCEPT ![c] = next] /\ call[c].pc = "idle"
        /\ UNCHANGED <<key, position, tilt, inStep>>
    BY <1>2, <1>0 DEF SetTiltRefused, IInv, Typed
  <2> HIDE DEF next
  <2>3. call'[c] = next /\ \A d \in Calls \ {c} : call'[d] = call[d]
    BY <2>2 DEF IInv, Typed
  <2>4. CallInv(next) /\ ~Running(next) /\ ~Running(call[c])
    BY <2>1, <2>2 DEF IInv, CallInv, Running
  <2>5. Typed'
    BY <2>1, <2>2 DEF IInv, Typed
  <2>6. \A d \in Calls : CallInv(call'[d])
    BY <2>3, <2>4 DEF IInv
  <2>7. AloneInv' /\ SoloInv'
    BY <2>2, <2>3, <2>4 DEF IInv, AloneInv, SoloInv
  <2> QED
    BY <2>2, <2>5, <2>6, <2>7 DEF IInv, PositionKeptInStep
<1>3. ASSUME Keyscan(c) PROVE IInv'
  <2> DEFINE first == [NotBegun EXCEPT !.pc = "connect", !.kind = "scan",
                                       !.target = PositionMax]
  <2>1. call' = Begun(c, first) /\ call[c].pc = "idle"
    BY <1>3 DEF Keyscan
  <2>2. first \in CallType
    <3>1. ASSUME NEW s \in CallType
          PROVE  /\ [s EXCEPT !.pc = "connect"] \in CallType
                 /\ [s EXCEPT !.kind = "scan"] \in CallType
                 /\ [s EXCEPT !.target = PositionMax] \in CallType
      BY <3>1 DEF CallType, Places
    <3> QED
      BY <3>1, NotBegunType
  <2>3. first.pc = "connect" /\ first.kind = "scan" /\ first.candidate = 0 /\ CallInv(first)
    <3>1. /\ first.pc = "connect" /\ first.target = PositionMax
          /\ first.kind = "scan" /\ first.candidate = 0
          /\ ~first.reached /\ ~first.linked /\ ~first.obeyed /\ first.result = "none"
      BY DEF NotBegun
    <3> HIDE DEF first
    <3> QED
      BY <3>1 DEF CallInv, Running
  <2> HIDE DEF first
  <2> QED
    BY <1>0, <1>3, <2>1, <2>2, <2>3, BegunInv DEF Keyscan
<1>4. \A percent \in Percents : TiltOfPercent(percent) \in Int
  BY DEF TiltOfPercent
<1> QED
  BY <1>1, <1>2, <1>3, <1>4 DEF Begin

LEMMA StepInv == ASSUME IInv, NEW c \in Calls, Step(c) PROVE IInv'
<1>0. call[c] \in CallType /\ key \in Keys /\ key \in Int /\ CallInv(call[c])
  BY DEF IInv, Typed, Keys
<1>1. CASE ConnectFails(c)
  <2>1. CASE call[c].kind = "scan" /\ call[c].candidate < LastKey
    <3> DEFINE next == [call[c] EXCEPT !.candidate = @ + 1]
    <3>1. call[c].candidate + 1 \in Keys
      BY <1>0, <2>1 DEF CallType, Keys
    <3>2. /\ next \in CallType /\ CallInv(next) /\ Running(call[c])
          /\ next.alone = call[c].alone /\ next.target = call[c].target
          /\ next.obeyed = call[c].obeyed
          /\ next.kind = call[c].kind /\ next.solo = call[c].solo
          /\ next.candidate = call[c].candidate + 1
      BY <1>0, <1>1, <3>1 DEF ConnectFails, CallType, CallInv, Running, Solo
    <3>3. call' = [call EXCEPT ![c] = next]
      BY <1>1, <2>1 DEF ConnectFails
    <3> HIDE DEF next
    <3> QED
      BY <1>1, <2>1, <3>1, <3>2, <3>3, QuietInv DEF ConnectFails
  <2>2. CASE ~(call[c].kind = "scan" /\ call[c].candidate < LastKey)
    <3>1. PICK error \in {"notfound", "connection"} : Raise(c, call[c], error)
      BY <1>1, <2>2 DEF ConnectFails
    <3>2. /\ Running(call[c]) /\ ~call[c].reached /\ ~call[c].linked /\ tilt' = tilt
      BY <1>0, <1>1 DEF ConnectFails, CallInv, Running
    <3>3. call[c] = [call[c] EXCEPT !.linked = FALSE, !.broken = call[c].broken]
      BY <1>0, <3>2 DEF CallType
    <3>4. error \in Results \ {"none", "ok"} /\ call[c].broken \in BOOLEAN
      BY <1>0 DEF Results, CallType
    <3>5. Raise(c, [call[c] EXCEPT !.linked = FALSE, !.broken = call[c].broken], error)
      BY <3>1, <3>3, Zenon
    <3> QED
      BY <3>2, <3>4, <3>5, RaiseInv
  <2> QED
    BY <2>1, <2>2
<1>2. CASE Connected(c)
  <2> DEFINE next == [[[call[c] EXCEPT !.pc = "key"] EXCEPT !.reached = TRUE]
                         EXCEPT !.linked = TRUE]
  <2>1. /\ next \in CallType /\ CallInv(next) /\ Running(call[c])
        /\ next.alone = call[c].alone /\ next.target = call[c].target
        /\ next.obeyed = call[c].obeyed
        /\ next.kind = call[c].kind /\ next.solo = call[c].solo
        /\ next.candidate = call[c].candidate
    BY <1>0, <1>2 DEF Connected, CallType, CallInv, Running, Places, Solo
  <2>2. call' = [call EXCEPT ![c] = next]
    BY <1>2 DEF Connected, IInv, Typed
  <2> HIDE DEF next
  <2> QED
    BY <1>0, <1>2, <2>1, <2>2, QuietInv DEF Connected
<1>3. CASE WriteKey(c)
  <2> DEFINE next == [[call[c] EXCEPT !.pc = "tilt"] EXCEPT !.wrote = key]
  <2>0. Solo(call[c]) => key = call[c].candidate
    BY <1>3 DEF WriteKey, IInv, SoloInv, Running
  <2>1. /\ next \in CallType /\ CallInv(next) /\ Running(call[c])
        /\ next.alone = call[c].alone /\ next.target = call[c].target
        /\ next.obeyed = call[c].obeyed
        /\ next.kind = call[c].kind /\ next.solo = call[c].solo
        /\ next.candidate = call[c].candidate
    <3>1. /\ next \in CallType /\ next.wrote = key /\ next.pc = "tilt"
      BY <1>0 DEF CallType, Places
    <3> QED
      BY <1>0, <1>3, <2>0, <3>1 DEF WriteKey, CallType, CallInv, Running, Solo
  <2>2. call' = [call EXCEPT ![c] = next]
    BY <1>3 DEF WriteKey, IInv, Typed
  <2> HIDE DEF next
  <2> QED
    BY <1>0, <1>3, <2>1, <2>2, QuietInv DEF WriteKey
<1>4. CASE WriteTilt(c)
  <2>1. PICK error \in {"none", "ble"} :
          call' = [call EXCEPT ![c].pc = "disconnect", ![c].obeyed = Opened(c),
                               ![c].raised = error]
    BY <1>4 DEF WriteTilt
  <2> DEFINE next == [[[call[c] EXCEPT !.pc = "disconnect"]
                          EXCEPT !.obeyed = Opened(c)] EXCEPT !.raised = error]
  <2>2. /\ next \in CallType /\ CallInv(next) /\ Running(call[c])
        /\ next.alone = call[c].alone /\ next.target = call[c].target
        /\ next.obeyed = Opened(c)
        /\ next.kind = call[c].kind /\ next.solo = call[c].solo
        /\ next.candidate = call[c].candidate
    <3>0. Opened(c) \in BOOLEAN
      BY DEF Opened
    <3> QED
      BY <1>0, <1>4, <3>0 DEF WriteTilt, CallType, CallInv, Running, Places, Solo
  <2>3. call' = [call EXCEPT ![c] = next]
    BY <2>1 DEF IInv, Typed
  <2> HIDE DEF next
  <2>4. CASE Opened(c)
    BY <1>4, <2>2, <2>3, <2>4, TakenInv DEF WriteTilt, MotorTakes
  <2>5. CASE ~Opened(c)
    BY <1>0, <1>4, <2>2, <2>3, <2>5, QuietInv DEF WriteTilt, MotorLeaves
  <2> QED
    BY <2>4, <2>5
<1>5. CASE WriteFails(c)
  <2>1. PICK error \in {"ble", "cancelled"} :
          call' = [call EXCEPT ![c].pc = "disconnect", ![c].raised = error]
    BY <1>5 DEF WriteFails
  <2> DEFINE next == [[call[c] EXCEPT !.pc = "disconnect"] EXCEPT !.raised = error]
  <2>2. /\ next \in CallType /\ CallInv(next) /\ Running(call[c])
        /\ next.alone = call[c].alone /\ next.target = call[c].target
        /\ next.obeyed = call[c].obeyed
        /\ next.kind = call[c].kind /\ next.solo = call[c].solo
        /\ next.candidate = call[c].candidate
    BY <1>0, <1>5 DEF WriteFails, CallType, CallInv, Running, Places, Solo
  <2>3. call' = [call EXCEPT ![c] = next]
    BY <2>1 DEF IInv, Typed
  <2> HIDE DEF next
  <2>4. CASE MotorLeaves
    BY <1>0, <1>5, <2>2, <2>3, <2>4, QuietInv DEF WriteFails, MotorLeaves
  <2>5. CASE MotorTakes(c)
    BY <1>5, <2>2, <2>3, <2>5, TakenInv DEF WriteFails, MotorTakes
  <2> QED
    BY <1>5, <2>4, <2>5 DEF WriteFails
<1>6. CASE Disconnect(c)
  <2> DEFINE state == [call[c] EXCEPT !.linked = FALSE]
  <2>1. Running(call[c]) /\ tilt' = tilt
    BY <1>6 DEF Disconnect, Running
  <2>2. CASE Succeed(c, state) /\ call[c].raised = "none"
    <3> DEFINE next == [state EXCEPT !.pc = "done", !.result = "ok", !.found = key]
    <3>0. Solo(call[c]) => call[c].candidate = key /\ call[c].wrote = key
      BY <1>0, <1>6, <2>1, <2>2 DEF IInv, SoloInv, CallInv, Disconnect
    <3>1. /\ next \in CallType
          /\ state.target = call[c].target /\ state.alone = call[c].alone
          /\ state.obeyed = call[c].obeyed
      BY <1>0 DEF CallType, Places, Results
    <3>2. /\ next.pc = "done" /\ next.result = "ok" /\ next.linked = FALSE
          /\ next.found = key /\ next.wrote = call[c].wrote
          /\ next.candidate = call[c].candidate
          /\ next.kind = call[c].kind /\ next.solo = call[c].solo
      BY <1>0 DEF CallType
    <3>3. CallInv(next) /\ ~Running(next)
      <4> HIDE DEF next
      <4> QED
        BY <3>0, <3>2 DEF CallInv, Running, Solo
    <3>4. /\ call' = [call EXCEPT ![c] = next] /\ key' = key
          /\ position' = state.target /\ inStep' = (state.alone /\ state.obeyed)
      BY <2>2 DEF Succeed
    <3> HIDE DEF next, state
    <3>5. call'[c] = next /\ \A d \in Calls \ {c} : call'[d] = call[d]
      BY <3>4 DEF IInv, Typed
    <3>6. Typed'
      <4>1. position' \in 0..PositionMax
        BY <1>0, <2>1, <3>1, <3>3, <3>4 DEF CallInv
      <4>2. inStep' \in BOOLEAN
        BY <3>4, Zenon
      <4>3. call' \in [Calls -> CallType]
        BY <3>1, <3>3, <3>4 DEF IInv, Typed
      <4> QED
        BY <2>1, <3>4, <4>1, <4>2, <4>3 DEF IInv, Typed
    <3>7. \A d \in Calls : CallInv(call'[d])
      BY <3>1, <3>3, <3>5 DEF IInv
    <3>8. AloneInv' /\ SoloInv'
      BY <2>1, <3>1, <3>3, <3>4, <3>5 DEF IInv, AloneInv, SoloInv
    <3>9. PositionKeptInStep'
      BY <2>1, <3>1, <3>3, <3>4 DEF IInv, AloneInv, PositionKeptInStep
    <3> QED
      BY <3>6, <3>7, <3>8, <3>9 DEF IInv
  <2>3. CASE Raise(c, state, call[c].raised) /\ call[c].raised # "none"
    <3>1. state = [call[c] EXCEPT !.linked = FALSE, !.broken = call[c].broken]
      BY <1>0 DEF CallType
    <3>2. call[c].raised \in Results \ {"none", "ok"} /\ call[c].broken \in BOOLEAN
      BY <1>0, <2>3 DEF CallType, Results
    <3> QED
      BY <2>1, <2>3, <3>1, <3>2, RaiseInv
  <2>4. state.raised = call[c].raised
    BY <1>0 DEF CallType
  <2> QED
    BY <1>6, <2>2, <2>3, <2>4 DEF Disconnect
<1>7. CASE DisconnectFails(c)
  <2>1. PICK linked \in BOOLEAN, error \in {"ble", "cancelled"} :
          Raise(c, [call[c] EXCEPT !.linked = linked, !.broken = TRUE], error)
    BY <1>7 DEF DisconnectFails
  <2>2. Running(call[c]) /\ tilt' = tilt /\ error \in Results \ {"none", "ok"}
    BY <1>7 DEF DisconnectFails, Running, Results
  <2> QED
    BY <2>1, <2>2, RaiseInv
<1>8. CASE CancelConnect(c)
  <2>1. PICK linked \in BOOLEAN : Raise(c, [call[c] EXCEPT !.linked = linked], "cancelled")
    BY <1>8 DEF CancelConnect
  <2>2. Running(call[c]) /\ ~call[c].reached /\ tilt' = tilt
    BY <1>0, <1>8 DEF CancelConnect, CallInv, Running
  <2>3. [call[c] EXCEPT !.linked = linked] =
          [call[c] EXCEPT !.linked = linked, !.broken = call[c].broken]
    BY <1>0 DEF CallType
  <2>4. "cancelled" \in Results \ {"none", "ok"} /\ call[c].broken \in BOOLEAN
    BY <1>0 DEF Results, CallType
  <2>5. Raise(c, [call[c] EXCEPT !.linked = linked, !.broken = call[c].broken], "cancelled")
    BY <2>1, <2>3, Zenon
  <2> QED
    BY <2>2, <2>4, <2>5, RaiseInv
<1> QED
  BY <1>1, <1>2, <1>3, <1>4, <1>5, <1>6, <1>7, <1>8 DEF Step

LEMMA NextInv == IInv /\ [Next]_vars => IInv'
<1>1. ASSUME IInv, UNCHANGED vars PROVE IInv'
  BY <1>1 DEF vars, IInv, Typed, AloneInv, SoloInv, PositionKeptInStep
<1> QED
  BY <1>1, BeginInv, StepInv DEF Next

\* The types of the object and its calls (set_tilt, keyscan).
THEOREM TypeCorrect == Spec => []TypeOK
<1>1. IInv => TypeOK
  BY DEF IInv, Typed, TypeOK, CallType, CallInv
<1> QED
  BY InitInv, NextInv, <1>1, PTL DEF Spec

\* The tracked position is the motor's after a call that ran alone and was obeyed,
\* until another write reaches the motor (set_tilt).
THEOREM PositionTheorem == Spec => []PositionKeptInStep
<1>1. IInv => PositionKeptInStep
  BY DEF IInv
<1> QED
  BY InitInv, NextInv, <1>1, PTL DEF Spec

\* The key that keyscan returns is the one it wrote on the link of its successful write,
\* whatever calls of set_tilt run meanwhile, if no other scan did (keyscan).
THEOREM ScanTheorem == Spec => []ScanReturnsItsKey
<1>1. IInv => ScanReturnsItsKey
  BY DEF IInv, CallInv, Solo, ScanReturnsItsKey
<1> QED
  BY InitInv, NextInv, <1>1, PTL DEF Spec

\* A call that has ended leaves a link up only if its disconnect failed or was cancelled,
\* or it was cancelled while the link was being established (_write).
THEOREM LinksTheorem == Spec => []LinksAreClosed
<1>1. IInv => LinksAreClosed
  BY DEF IInv, CallInv, LinksAreClosed
<1> QED
  BY InitInv, NextInv, <1>1, PTL DEF Spec
=============================================================================
