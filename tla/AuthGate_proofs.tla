-------------------------- MODULE AuthGate_proofs ---------------------------
(***************************************************************************)
(* Proofs about AuthGate: what its verdicts are worth, for any shades,     *)
(* keys, key files and errors of the sessions.                             *)
(***************************************************************************)
EXTENDS AuthGate, TLAPS

Probing == phase \in {"probe", "try", "retry"}

\* The names that were tried and passed over.
Tried ==
    DOMAIN keys \ (IF phase = "probe" THEN probe.names
                   ELSE probe.names \cup {probe.name})

\* The shade being probed has no verdict yet, and each key tried on it was another's
\* unless a frame was corrupted.
ProbeInv ==
    /\ Probing => /\ probe.shade \in DOMAIN verdict
                  /\ verdict[probe.shade] = Unprobed
                  /\ \/ probe.shade \in corrupted
                     \/ \A name \in Tried : keys[name] # keyOf[probe.shade]
    /\ InSession => probe.name \in DOMAIN keys
    /\ phase = "load" => probe.names = {}

\* What the verdicts given so far say, and that problems counts the bad ones.
VerdictInv ==
    /\ phase \in {"load", "scan"} => DOMAIN verdict = {}
    /\ phase = "next" \/ Probing => DOMAIN verdict # {}
    /\ \A s \in DOMAIN verdict :
          /\ verdict[s].result = "none" => verdict[s] = Unprobed
          /\ verdict[s].result = "authenticated" => keys[verdict[s].name] = keyOf[s]
          /\ problems = 0 /\ phase # "done" =>
                verdict[s].result \in {"none", "authenticated"}

InputInv == json \in Files /\ dir \in Files

IInv == TypeOK /\ InputInv /\ ProbeInv /\ VerdictInv /\ NoMatchIsExplained /\ PassIsHonest

LEMMA InitInv == Init => IInv
<1> SUFFICES ASSUME Init PROVE IInv
  OBVIOUS
<1>1. DOMAIN keys = {} /\ DOMAIN verdict = {}
  BY DEF Init
<1> QED
  BY <1>1 DEF Init, Idle, IInv, TypeOK, InputInv, ProbeInv, VerdictInv,
       NoMatchIsExplained, PassIsHonest, Probing, InSession, WellFormed

LEMMA UnprobedResult == Unprobed.result = "none"
  BY DEF Unprobed

\* Saying something of a shade leaves what was said of the others, and all it says
\* must be true for the verdicts to stay so.
LEMMA SayKeeps ==
  ASSUME IInv, NEW result, probe.shade \in DOMAIN verdict, Say(result),
         UNCHANGED <<inputs, keys, probe>>,
         result.result \in Results \ {"none"},
         result.result = "authenticated" => keys[result.name] = keyOf[probe.shade],
         corrupted' = corrupted, problems' \in Nat,
         phase' # "done" /\ problems' = 0
            => problems = 0 /\ phase # "done" /\ result.result = "authenticated",
         phase' \in {"next", "done"},
         result.result = "no match"
            => \/ probe.shade \in corrupted
               \/ \A name \in DOMAIN keys : keys[name] # keyOf[probe.shade]
  PROVE  /\ DOMAIN verdict' = DOMAIN verdict
         /\ \A s \in DOMAIN verdict' : verdict'[s].result \in Results
         /\ VerdictInv' /\ NoMatchIsExplained'
<1>1. /\ DOMAIN verdict' = DOMAIN verdict
      /\ verdict'[probe.shade] = result
      /\ \A s \in DOMAIN verdict : s # probe.shade => verdict'[s] = verdict[s]
  BY DEF Say
<1>2. keys' = keys /\ keyOf' = keyOf /\ corrupted' = corrupted
  BY DEF inputs
<1>3. \A s \in DOMAIN verdict' : verdict'[s].result \in Results
  BY <1>1 DEF IInv, TypeOK
<1>4. VerdictInv'
  <2>1. DOMAIN verdict # {} /\ phase' \notin {"load", "scan"}
    OBVIOUS
  <2> SUFFICES ASSUME NEW s \in DOMAIN verdict
               PROVE /\ verdict'[s].result = "none" => verdict'[s] = Unprobed
                     /\ verdict'[s].result = "authenticated" =>
                           keys[verdict'[s].name] = keyOf[s]
                     /\ problems' = 0 /\ phase' # "done" =>
                           verdict'[s].result \in {"none", "authenticated"}
    BY <1>1, <1>2, <2>1 DEF VerdictInv, Unprobed
  <2>2. CASE s = probe.shade
    BY <1>1, <2>2
  <2>3. CASE s # probe.shade
    BY <1>1, <2>3 DEF IInv, VerdictInv
  <2> QED
    BY <2>2, <2>3
<1>5. NoMatchIsExplained'
  <2> SUFFICES ASSUME NEW s \in DOMAIN verdict, verdict'[s].result = "no match"
               PROVE s \in corrupted \/ \A name \in DOMAIN keys : keys[name] # keyOf[s]
    BY <1>1, <1>2 DEF NoMatchIsExplained
  <2>1. CASE s = probe.shade
    BY <1>1, <2>1
  <2>2. CASE s # probe.shade
    BY <1>1, <2>2 DEF IInv, NoMatchIsExplained
  <2> QED
    BY <2>1, <2>2
<1> QED
  BY <1>1, <1>3, <1>4, <1>5

LEMMA StepInv == IInv /\ [Next]_vars => IInv'
<1> SUFFICES ASSUME IInv, [Next]_vars PROVE IInv'
  OBVIOUS
<1> USE DEF IInv, TypeOK, InputInv, ProbeInv, VerdictInv, NoMatchIsExplained,
            PassIsHonest, Probing, InSession, inputs
<1>0. problems \in Nat /\ problems + 1 \in Nat /\ problems + 1 # 0
  <2>1. problems \in Nat
    OBVIOUS
  <2> HIDE DEF IInv
  <2> QED
    BY <2>1
<1>1. CASE LoadKeys
  <2>1. DOMAIN json \subseteq Names /\ DOMAIN dir \subseteq Names
    <3>1. json \in Files /\ dir \in Files
      OBVIOUS
    <3> HIDE DEF IInv
    <3> QED
      BY <3>1 DEF Files
  <2>2. DOMAIN Loaded \subseteq Names
    BY <2>1 DEF Loaded
  <2>3. WellFormed(json) /\ WellFormed(dir) => WellFormed(Loaded)
    BY DEF WellFormed, Loaded
  <2>4. DOMAIN verdict = {}
    BY <1>1 DEF LoadKeys
  <2>5. /\ verdict' = verdict /\ json' = json /\ dir' = dir /\ probe' = probe
        /\ problems' = problems /\ phase = "load"
    BY <1>1 DEF LoadKeys
  <2>6. CASE /\ WellFormed(json) /\ WellFormed(dir)
             /\ keys' = Loaded /\ phase' = "scan" /\ exit' = exit
    BY <2>2, <2>3, <2>4, <2>5, <2>6 DEF WellFormed
  <2>7. CASE Exit("no keys") /\ keys' = keys
    BY <2>4, <2>5, <2>7 DEF Exit, WellFormed
  <2> QED
    BY <1>1, <2>6, <2>7 DEF LoadKeys
<1>2. CASE Scan
  <2>1. PICK found \in SUBSET Shades :
          /\ verdict' = [s \in found |-> Unprobed]
          /\ IF found = {} THEN Exit("no shades") ELSE phase' = "next" /\ UNCHANGED exit
    BY <1>2 DEF Scan
  <2>2. DOMAIN verdict' = found /\ \A s \in found : verdict'[s] = Unprobed
    BY <2>1
  <2>3. \A s \in found : verdict'[s].result = "none"
    BY <2>2, UnprobedResult
  <2> QED
    BY <1>2, <2>1, <2>2, <2>3 DEF Scan, Exit, WellFormed, Results
<1>2a. CASE ScanFails
  <2>1. /\ phase = "scan" /\ phase' = "done" /\ exit' = "traceback"
        /\ UNCHANGED <<inputs, keys, verdict, probe, problems, corrupted>>
    BY <1>2a DEF ScanFails, Exit
  <2> QED
    BY <2>1 DEF WellFormed
<1>3. CASE ProbeNext
  <2>1. PICK s \in Left : probe' = [shade |-> s, names |-> DOMAIN keys]
    BY <1>3 DEF ProbeNext
  <2>2. probe'.shade = s /\ probe'.names = DOMAIN keys
    BY <2>1
  <2>3. Tried' = {}
    BY <1>3, <2>2 DEF ProbeNext, Tried
  <2> QED
    BY <1>3, <2>2, <2>3 DEF ProbeNext, Left, WellFormed
<1>4. CASE TryKey
  <2>1. PICK name \in probe.names :
          probe' = [shade |-> probe.shade, names |-> probe.names \ {name}, name |-> name]
    BY <1>4 DEF TryKey
  <2>2. /\ probe'.shade = probe.shade /\ probe'.names = probe.names \ {name}
        /\ probe'.name = name
    BY <2>1
  <2>3. Tried' = Tried
    BY <1>4, <2>2 DEF TryKey, Tried
  <2> QED
    BY <1>4, <2>2, <2>3 DEF TryKey, WellFormed
<1>5. CASE NoMatch
  <2> DEFINE said == [result |-> "no match"]
  <2>1. Tried = DOMAIN keys
    BY <1>5 DEF NoMatch, Tried
  <2>2. /\ phase = "probe" /\ phase' = "next" /\ exit' = exit /\ Say(said)
        /\ problems' = problems + 1 /\ corrupted' = corrupted
        /\ UNCHANGED <<inputs, keys, probe>>
    BY <1>5 DEF NoMatch
  <2>3. said.result = "no match" /\ "no match" \in Results \ {"none"}
    BY DEF Results
  <2> HIDE DEF said
  <2>4. problems' \in Nat /\ problems' # 0
    BY <1>0, <2>2
  <2>5. /\ probe.shade \in DOMAIN verdict
        /\ \/ probe.shade \in corrupted
           \/ \A name \in DOMAIN keys : keys[name] # keyOf[probe.shade]
    BY <2>1, <2>2
  <2>6. /\ DOMAIN verdict' = DOMAIN verdict
        /\ \A s \in DOMAIN verdict' : verdict'[s].result \in Results
        /\ VerdictInv' /\ NoMatchIsExplained'
    BY <2>2, <2>3, <2>4, <2>5, SayKeeps
  <2> HIDE DEF VerdictInv, NoMatchIsExplained
  <2> QED
    BY <2>2, <2>4, <2>6 DEF WellFormed
<1>6. CASE Authenticated
  <2> DEFINE said == [result |-> "authenticated", name |-> probe.name]
  <2>1. /\ phase \in {"try", "retry"} /\ phase' = "next" /\ exit' = exit /\ Say(said)
        /\ problems' = problems /\ corrupted' = corrupted
        /\ UNCHANGED <<inputs, keys, probe>>
        /\ keys[probe.name] = keyOf[probe.shade]
    BY <1>6 DEF Authenticated, KeyFits
  <2>2. /\ said.result = "authenticated" /\ said.name = probe.name
        /\ "authenticated" \in Results \ {"none"}
    BY DEF Results
  <2> HIDE DEF said
  <2>3. /\ DOMAIN verdict' = DOMAIN verdict
        /\ \A s \in DOMAIN verdict' : verdict'[s].result \in Results
        /\ VerdictInv' /\ NoMatchIsExplained'
    BY <2>1, <2>2, SayKeeps
  <2> HIDE DEF VerdictInv, NoMatchIsExplained
  <2> QED
    BY <2>1, <2>3 DEF WellFormed
<1>7. CASE PassedOver
  <2>1. probe.shade \in corrupted' \/ keys[probe.name] # keyOf[probe.shade]
    BY <1>7 DEF PassedOver, KeyFits
  <2>2. Tried' \subseteq Tried \cup {probe.name} /\ corrupted \subseteq corrupted'
    BY <1>7 DEF PassedOver, Tried
  <2> QED
    BY <1>7, <2>1, <2>2 DEF PassedOver, WellFormed
<1>8. CASE RetryOnce
  BY <1>8 DEF RetryOnce, Tried, WellFormed
<1>9. CASE SessionFails
  <2>1. PICK error \in Errors : Failed(error)
    BY <1>9 DEF SessionFails
  <2> DEFINE said == [result |-> error]
  <2>2. /\ phase \in {"try", "retry"} /\ Say(said)
        /\ UNCHANGED <<inputs, keys, probe>> /\ corrupted' = corrupted
        /\ \/ phase' = "next" /\ problems' = problems + 1 /\ exit' = exit
           \/ phase' = "done" /\ problems' = problems /\ exit' = "traceback"
    BY <1>9, <2>1 DEF SessionFails, Failed, Exit
  <2>3. said.result = error
    OBVIOUS
  <2>4. error \in Results \ {"none"} /\ error \notin {"authenticated", "no match"}
    BY <2>1 DEF Results, Errors, Transient
  <2> HIDE DEF said
  <2>5. /\ problems' \in Nat /\ probe.shade \in DOMAIN verdict
        /\ phase' = "next" => problems' # 0
    BY <1>0, <2>2
  <2>6. /\ DOMAIN verdict' = DOMAIN verdict
        /\ \A s \in DOMAIN verdict' : verdict'[s].result \in Results
        /\ VerdictInv' /\ NoMatchIsExplained'
    <3> HIDE DEF IInv
    <3> QED
      BY <2>2, <2>3, <2>4, <2>5, SayKeeps
  <2> HIDE DEF VerdictInv, NoMatchIsExplained
  <2>7. TypeOK'
    BY <2>2, <2>5, <2>6 DEF WellFormed
  <2> QED
    BY <2>2, <2>6, <2>7 DEF WellFormed
<1>10. CASE Conclude
  <2>1. \A s \in DOMAIN verdict : verdict[s].result # "none"
    BY <1>10 DEF Conclude, Left
  <2> QED
    BY <1>10, <2>1 DEF Conclude, Exit, WellFormed
<1>11. CASE Finished \/ UNCHANGED vars
  BY <1>11 DEF Finished, vars, Tried, WellFormed
<1> QED
  BY <1>1, <1>2, <1>2a, <1>3, <1>4, <1>5, <1>6, <1>7, <1>8, <1>9, <1>10, <1>11 DEF Next

\* The types of the gate's state (_run and _probe).
THEOREM TypeCorrect == Spec => []TypeOK
<1>1. IInv => TypeOK
  BY DEF IInv
<1> QED
  BY InitInv, StepInv, <1>1, PTL DEF Spec

\* PASS means that each shade found was authenticated with its own key (_run).
THEOREM PassTheorem == Spec => []PassIsHonest
<1>1. IInv => PassIsHonest
  BY DEF IInv
<1> QED
  BY InitInv, StepInv, <1>1, PTL DEF Spec

\* "NO rescued key matched" means just that, or that a frame was corrupted (_probe).
THEOREM NoMatchTheorem == Spec => []NoMatchIsExplained
<1>1. IInv => NoMatchIsExplained
  BY DEF IInv
<1> QED
  BY InitInv, StepInv, <1>1, PTL DEF Spec
=============================================================================
