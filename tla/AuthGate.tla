------------------------------ MODULE AuthGate ------------------------------
(***************************************************************************)
(* The gate check contrib/gate_auth_mac.py: it loads the rescued keys,     *)
(* scans for shades and tries the keys on each until one authenticates,    *)
(* with TiltShadeClient.read_status and its one retry.                     *)
(*                                                                         *)
(* A session ends in one of the ways the client lets it end: it reads the  *)
(* status only with the key of the shade, and AuthenticationError stands   *)
(* for a wrong key or for a corrupted frame.  The shades are probed in the *)
(* order of their signal, the keys tried in that of a dict: any order.     *)
(***************************************************************************)
EXTENDS Naturals

CONSTANTS
    Shades,     \* the shades that may be in range
    Keys,       \* pairing keys
    Names,      \* the names keys are stored under
    Malformed   \* the content of a key file that is not 64 hex digits

ASSUME MalformedAssumption == Malformed \notin Keys

VARIABLES
    json, dir,  \* the keys of --keys-json and of --key-dir, by name
    keyOf,      \* the key of each shade
    phase,      \* where _run stands
    keys,       \* the loaded keys, by name
    verdict,    \* what was said of each shade the scan found
    probe,      \* the shade being probed, the names left and the one being tried
    problems,
    corrupted,  \* history: shades of which a frame was corrupted
    exit        \* how the gate ended

inputs == <<json, dir, keyOf>>
vars == <<inputs, phase, keys, verdict, probe, problems, corrupted, exit>>

Files == UNION {[names -> Keys \cup {Malformed}] : names \in SUBSET Names}

Transient == {"BleakError", "TiltBleError", "TiltProtocolError", "TimeoutError"}
Errors    == Transient \cup {"TiltBleCleanupError"}

Unprobed  == [result |-> "none"]
Idle      == [names |-> {}]

Init ==
    /\ json \in Files /\ dir \in Files
    /\ keyOf \in [Shades -> Keys]
    /\ phase = "load" /\ exit = "none"
    /\ keys = <<>>
    /\ verdict = <<>>
    /\ probe = Idle
    /\ problems = 0
    /\ corrupted = {}

Exit(how) == phase' = "done" /\ exit' = how

-----------------------------------------------------------------------------
\* _load_keys: a name in the directory replaces the one in the JSON file.
Loaded ==
    [name \in DOMAIN json \cup DOMAIN dir |->
        IF name \in DOMAIN dir THEN dir[name] ELSE json[name]]

WellFormed(file) == \A name \in DOMAIN file : file[name] \in Keys

\* Faulty: the keys are not checked to be 64 hex digits.
LoadUnchecked ==
    /\ phase = "load"
    /\ IF DOMAIN Loaded # {}
       THEN keys' = Loaded /\ phase' = "scan" /\ UNCHANGED exit
       ELSE Exit("no keys") /\ UNCHANGED keys
    /\ UNCHANGED <<inputs, verdict, probe, problems, corrupted>>

LoadKeys ==
    /\ phase = "load"
    /\ IF WellFormed(json) /\ WellFormed(dir) /\ DOMAIN Loaded # {}
       THEN keys' = Loaded /\ phase' = "scan" /\ UNCHANGED exit
       ELSE Exit("no keys") /\ UNCHANGED keys
    /\ UNCHANGED <<inputs, verdict, probe, problems, corrupted>>

Scan ==
    /\ phase = "scan"
    /\ \E found \in SUBSET Shades :
          /\ verdict' = [s \in found |-> Unprobed]
          /\ IF found = {} THEN Exit("no shades")
                           ELSE phase' = "next" /\ UNCHANGED exit
    /\ UNCHANGED <<inputs, keys, probe, problems, corrupted>>

\* BleakScanner.discover raises, which nothing catches.
ScanFails ==
    /\ phase = "scan"
    /\ Exit("traceback")
    /\ UNCHANGED <<inputs, keys, verdict, probe, problems, corrupted>>

\* The shades that were not probed yet.
Left == {s \in DOMAIN verdict : verdict[s] = Unprobed}

ProbeNext ==
    /\ phase = "next"
    /\ \E s \in Left : probe' = [shade |-> s, names |-> DOMAIN keys]
    /\ phase' = "probe"
    /\ UNCHANGED <<inputs, keys, verdict, problems, corrupted, exit>>

\* What is said of the shade being probed.
Say(result) == verdict' = [verdict EXCEPT ![probe.shade] = result]

\* Faulty: a session that cannot be completed is no problem.
FailedUncounted(error) ==
    /\ Say([result |-> error])
    /\ IF error \in {"BleakError", "TiltProtocolError", "TimeoutError"}
       THEN phase' = "next" /\ UNCHANGED <<problems, exit>>
       ELSE Exit("traceback") /\ UNCHANGED problems

\* The errors _run catches around _probe; the others end the gate.
Failed(error) ==
    /\ Say([result |-> error])
    /\ IF error \in {"BleakError", "TiltProtocolError", "TimeoutError"}
       THEN problems' = problems + 1 /\ phase' = "next" /\ UNCHANGED exit
       ELSE Exit("traceback") /\ UNCHANGED problems

\* _probe takes the next key.
TryKey ==
    /\ phase = "probe"
    /\ \E name \in probe.names :
          probe' = [shade |-> probe.shade, names |-> probe.names \ {name}, name |-> name]
    /\ phase' = "try"
    /\ UNCHANGED <<inputs, keys, verdict, problems, corrupted, exit>>

\* "reached, but NO rescued key matched"
NoMatch ==
    /\ phase = "probe" /\ probe.names = {}
    /\ Say([result |-> "no match"])
    /\ problems' = problems + 1
    /\ phase' = "next"
    /\ UNCHANGED <<inputs, keys, probe, corrupted, exit>>

InSession == phase \in {"try", "retry"}
KeyFits   == keys[probe.name] = keyOf[probe.shade]

Authenticated ==
    /\ InSession /\ KeyFits
    /\ Say([result |-> "authenticated", name |-> probe.name])
    /\ phase' = "next"
    /\ UNCHANGED <<inputs, keys, probe, problems, corrupted, exit>>

\* AuthenticationError, in either attempt: the key is passed over.
PassedOver ==
    /\ InSession
    /\ corrupted' = IF KeyFits THEN corrupted \cup {probe.shade} ELSE corrupted
    /\ phase' = "probe"
    /\ UNCHANGED <<inputs, keys, verdict, probe, problems, exit>>

\* Faulty: after a transient error the next key is tried, not the same again.
RetryWithNextKey ==
    /\ phase = "try"
    /\ phase' = "probe"
    /\ UNCHANGED <<inputs, keys, verdict, probe, problems, corrupted, exit>>

\* read_status makes one more attempt after a transient error.
RetryOnce ==
    /\ phase = "try"
    /\ phase' = "retry"
    /\ UNCHANGED <<inputs, keys, verdict, probe, problems, corrupted, exit>>

\* Any error of the second attempt but AuthenticationError leaves read_status;
\* TiltBleCleanupError leaves it at once.
SessionFails ==
    /\ InSession
    /\ \E error \in IF phase = "retry" THEN Errors ELSE Errors \ Transient : Failed(error)
    /\ UNCHANGED <<inputs, keys, probe, corrupted>>

Conclude ==
    /\ phase = "next" /\ Left = {}
    /\ Exit(IF problems = 0 THEN "pass" ELSE "failed")
    /\ UNCHANGED <<inputs, keys, verdict, probe, problems, corrupted>>

-----------------------------------------------------------------------------
Finished == phase = "done" /\ UNCHANGED vars

Next == \/ LoadKeys \/ Scan \/ ScanFails \/ ProbeNext \/ TryKey \/ NoMatch
        \/ Authenticated \/ PassedOver \/ RetryOnce \/ SessionFails \/ Conclude
        \/ Finished

Spec == Init /\ [][Next]_vars

-----------------------------------------------------------------------------
Results == {"none", "authenticated", "no match"} \cup Errors

\* Type invariant of the gate.
TypeOK ==
    /\ phase \in {"load", "scan", "next", "probe", "try", "retry", "done"}
    /\ WellFormed(keys) /\ DOMAIN keys \subseteq Names
    /\ DOMAIN verdict \subseteq Shades
    /\ \A s \in DOMAIN verdict : verdict[s].result \in Results
    /\ probe.names \subseteq DOMAIN keys
    /\ problems \in Nat
    /\ exit \in {"none", "no keys", "no shades", "pass", "failed", "traceback"}
    /\ phase = "done" <=> exit # "none"

\* PASS means that there was a shade and that each one found was authenticated by a
\* loaded key that is its own (_run: "every shade in range authenticated with a
\* rescued key").
PassIsHonest ==
    exit = "pass" =>
        /\ DOMAIN verdict # {}
        /\ \A s \in DOMAIN verdict :
              /\ verdict[s].result = "authenticated"
              /\ keys[verdict[s].name] = keyOf[s]

\* "NO rescued key matched" means just that, unless a frame of the shade was
\* corrupted: AuthenticationError alone passes over a key (_probe).
NoMatchIsExplained ==
    \A s \in DOMAIN verdict :
        verdict[s].result = "no match" =>
            \/ s \in corrupted
            \/ \A name \in DOMAIN keys : keys[name] # keyOf[s]

\* A shade whose sessions time out is reported and the rest are probed: the gate
\* "opens the real encrypted session to each, and reports which rescued pairing key
\* authenticates it".  (TiltBleTimeout is a TiltBleError, no TimeoutError.)
TimeoutIsReported ==
    \A s \in DOMAIN verdict :
        verdict[s].result = "TiltBleError" => exit # "traceback"
=============================================================================
