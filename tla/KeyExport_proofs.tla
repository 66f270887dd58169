-------------------------- MODULE KeyExport_proofs --------------------------
(***************************************************************************)
(* Proofs about KeyExport: what becomes of the saved keys, for any set of  *)
(* entries an account may list and any number of runs.                     *)
(***************************************************************************)
EXTENDS KeyExport, TLAPS

\* What a run carries from the parsing to the report: an export of at least one
\* device, which is the account's as it was fetched.
ExportInv ==
    /\ run.pc \in {"open", "dump", "say"} => run.devices # {} /\ run.devices = Keyed
    /\ At("say") => file = Whole(run.devices)
    /\ ~At("idle") => run.exit = "none"

IInv == TypeOK /\ FileIsLastExport /\ ExportInv

USE EntryAssumption

LEMMA InitInv == Init => IInv
<1> SUFFICES ASSUME Init PROVE IInv
  OBVIOUS
<1>1. TypeOK
  <2>1. NoRun \in [pc : Places, debug : BOOLEAN, extras : BOOLEAN,
                   fetched : SUBSET Entries, devices : SUBSET Entries, exit : Exits]
    BY DEF NoRun, Places, Exits
  <2>2. Absent \in [state : {"absent", "cut", "whole"}, devices : SUBSET Entries]
    BY DEF Absent
  <2> QED
    BY <2>1, <2>2 DEF Init, TypeOK
<1>2. run.pc = "idle" /\ run.exit = "none" /\ file = saved
  BY DEF Init, NoRun
<1> QED
  BY <1>1, <1>2 DEF IInv, FileIsLastExport, ExportInv, At

\* A run that ends is idle again and has touched no file: what it leaves behind is
\* well typed.
LEMMA ExitType ==
  ASSUME NEW how \in Exits, Exit(how)
  PROVE  /\ run' \in [pc : Places, debug : BOOLEAN, extras : BOOLEAN,
                      fetched : SUBSET Entries, devices : SUBSET Entries, exit : Exits]
         /\ run'.pc = "idle" /\ run'.exit = how /\ run'.devices = {}
  BY DEF Exit, NoRun, Places

LEMMA StepInv == IInv /\ [Next]_vars => IInv'
<1> SUFFICES ASSUME IInv, [Next]_vars PROVE IInv'
  OBVIOUS
<1> USE DEF IInv, TypeOK, FileIsLastExport, ExportInv, At, Go
<1>1. CASE Start
  BY <1>1 DEF Start, NoRun, Places, Exits
<1>2. CASE Login
  BY <1>2 DEF Login, Places, Exits
<1>3. CASE CloudFails
  <2>1. PICK how \in {"error", "traceback", "printed"} : Exit(how)
    BY <1>3 DEF CloudFails
  <2> QED
    BY <1>3, <2>1, ExitType DEF CloudFails, Exits
<1>4. CASE Diagnose
  BY <1>4, ExitType DEF Diagnose, Exits
<1>5. CASE Fetch
  BY <1>5 DEF Fetch, Places, Exits
<1>6. CASE Parse
  <2>1. CASE Exit("error")
    BY <1>6, <2>1, ExitType DEF Parse, Exits
  <2>2. CASE Keyed # {} /\ run' = [run EXCEPT !.pc = "open", !.devices = Keyed]
    <3>1. Keyed' = Keyed /\ Keyed \subseteq Entries
      BY <1>6, <2>2 DEF Parse, Keyed, Asked, Exportable
    <3> QED
      BY <1>6, <2>2, <3>1 DEF Parse, Places, Exits
  <2> QED
    BY <1>6, <2>1, <2>2 DEF Parse
<1>7. CASE OpenFile
  <2>1. Keyed' = Keyed
    BY <1>7 DEF OpenFile, Keyed, Asked, Exportable
  <2> QED
    BY <1>7, <2>1 DEF OpenFile, Cut, Places, Exits
<1>8. CASE OpenFails
  BY <1>8, ExitType DEF OpenFails, Exits
<1>9. CASE DumpAndClose
  <2>1. Keyed' = Keyed
    BY <1>9 DEF DumpAndClose, Keyed, Asked, Exportable
  <2> QED
    BY <1>9, <2>1 DEF DumpAndClose, Whole, Places, Exits
<1>10. CASE DumpFails
  BY <1>10, ExitType DEF DumpFails, Exits
<1>11. CASE SaySaved
  <2>1. file.state = "whole" /\ file.devices # {}
    BY <1>11 DEF SaySaved, Whole
  <2> QED
    BY <1>11, <2>1, ExitType DEF SaySaved, Exits
<1>12. CASE Crash
  BY <1>12, ExitType DEF Crash, Exits
<1>13. CASE AccountChanges
  BY <1>13 DEF AccountChanges, Keyed, Asked, Exportable
<1>14. CASE UNCHANGED vars
  BY <1>14 DEF vars, Keyed, Asked, Exportable
<1> QED
  BY <1>1, <1>2, <1>3, <1>4, <1>5, <1>6, <1>7, <1>8, <1>9, <1>10, <1>11, <1>12,
     <1>13, <1>14 DEF Next

\* The types of the accounts, the runs and the files (main of both importers).
THEOREM TypeCorrect == Spec => []TypeOK
<1>1. IInv => TypeOK
  BY DEF IInv
<1> QED
  BY InitInv, StepInv, <1>1, PTL DEF Spec

\* Outside a write the file is the export last reported as saved, unless a write was
\* cut short since (main of both importers).
THEOREM LastExportTheorem == Spec => []FileIsLastExport
<1>1. IInv => FileIsLastExport
  BY DEF IInv
<1> QED
  BY InitInv, StepInv, <1>1, PTL DEF Spec

\* A saved file holds every usable key that was fetched and asked for, and no device
\* that was not (parse_store, fetch_blinds).
THEOREM CompleteTheorem == Spec => []ExportIsComplete
<1>1. IInv => ExportIsComplete
  <2> SUFFICES ASSUME IInv, At("say") PROVE ExportIsComplete
    BY DEF ExportIsComplete
  <2>1. run.fetched \subseteq Entries /\ run.extras \in BOOLEAN
    BY DEF IInv, TypeOK
  <2>2. file.devices = Keyed
    BY DEF IInv, ExportInv, At, Whole
  <2> QED
    BY <2>1, <2>2 DEF ExportIsComplete, Keyed, Asked, Exportable
<1> QED
  BY InitInv, StepInv, <1>1, PTL DEF Spec

\* The account lists nothing that the tool exports.
Nothing == \A l \in listed : l.key \notin Exportable

\* No run has anything to write, and e is in the file.
Safe(e) ==
    /\ e \in file.devices
    /\ run.pc \in {"idle", "login", "fetch", "parse"}
    /\ At("parse") => Keyed = {}

LEMMA SafeStep ==
  ASSUME NEW e \in Entries
  PROVE  IInv /\ Nothing /\ Safe(e) /\ [Next]_vars => Safe(e)'
<1> SUFFICES ASSUME IInv, Nothing, Safe(e), [Next]_vars PROVE Safe(e)'
  OBVIOUS
<1> USE DEF Safe, At, Go, Exit, NoRun
<1>0. run \in [pc : Places, debug : BOOLEAN, extras : BOOLEAN,
               fetched : SUBSET Entries, devices : SUBSET Entries, exit : Exits]
  BY DEF IInv, TypeOK
<1>1. CASE Start \/ Login \/ CloudFails \/ Diagnose \/ Crash
  BY <1>0, <1>1 DEF Start, Login, CloudFails, Diagnose, Crash
<1>2. CASE Fetch
  <2>1. run'.pc = "parse" /\ run'.fetched = listed /\ UNCHANGED <<tool, file>>
    BY <1>0, <1>2 DEF Fetch
  <2>2. Keyed' = {}
    BY <2>1 DEF Nothing, Keyed, Asked, Exportable
  <2> QED
    BY <2>1, <2>2
<1>3. CASE Parse
  BY <1>3 DEF Parse
<1>4. CASE OpenFile \/ OpenFails \/ DumpAndClose \/ DumpFails \/ SaySaved
  BY <1>4 DEF OpenFile, OpenFails, DumpAndClose, DumpFails, SaySaved
<1>5. CASE AccountChanges \/ UNCHANGED vars
  BY <1>5 DEF AccountChanges, vars, Keyed, Asked, Exportable
<1> QED
  BY <1>1, <1>2, <1>3, <1>4, <1>5 DEF Next

\* Once the account lists nothing that the tool exports, a key in the file stays there
\* ("if not devices: sys.exit" ahead of the open of main).
THEOREM OutliveTheorem == Spec => KeysOutliveTheCloud
<1> DEFINE Stays(e) == [](At("idle") /\ e \in file.devices /\ []Nothing
                            => [](e \in file.devices))
<1>1. ASSUME NEW e \in Entries PROVE Spec => Stays(e)
  <2>1. At("idle") /\ e \in file.devices => Safe(e)
    BY DEF Safe, At
  <2>2. Safe(e) => e \in file.devices
    BY DEF Safe
  <2>3. IInv /\ Nothing /\ Safe(e) /\ [Next]_vars => Safe(e)'
    BY SafeStep
  <2> QED
    BY InitInv, StepInv, <2>1, <2>2, <2>3, PTL DEF Spec
<1>2. Spec => \A e \in Entries : Stays(e)
  <2> HIDE DEF Stays
  <2> QED
    BY <1>1
<1> QED
  BY <1>2 DEF KeysOutliveTheCloud, Nothing
=============================================================================
