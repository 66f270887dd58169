----------------------------- MODULE KeyExport -----------------------------
(***************************************************************************)
(* The two importers that save the pairing keys before the vendor's clouds *)
(* go: tools/import_tilt.py with tilt_cloud.py, and tools/import_cloud.py  *)
(* with cloud.py.  Each logs in, fetches what the account lists, extracts  *)
(* the devices and overwrites its output file.                             *)
(*                                                                         *)
(* The clouds, the file system and the end of a process at any point are   *)
(* external.  What an account lists may change at any time.  A device is a *)
(* shade, or an extra that is exported only when asked for: a bridge in    *)
(* the Tilt store, a deleted shade in the legacy account.  What it lists   *)
(* as key (and address) is usable, some other text that the tools take for *)
(* a key, text that is no base64, the empty text, or missing.              *)
(***************************************************************************)
CONSTANT
    Entries     \* what an account may list: [id, extra, key]

KeyTexts == {"usable", "garbage", "undecodable", "empty", "missing"}

ASSUME EntryAssumption ==
    \A e \in Entries : e.extra \in BOOLEAN /\ e.key \in KeyTexts

VARIABLES
    tool,       \* the importer at hand, "tilt" or "cloud"
    listed,     \* what the account lists
    run,        \* the run under way and how the last one ended
    file,       \* the output file
    saved,      \* history: the file as it was last reported as saved
    spoilt      \* history: a write was cut short, or not reported, since

vars == <<tool, listed, run, file, saved, spoilt>>

NoRun == [pc |-> "idle", debug |-> FALSE, extras |-> FALSE, fetched |-> {},
          devices |-> {}, exit |-> "none"]

Absent         == [state |-> "absent", devices |-> {}]
Cut            == [state |-> "cut", devices |-> {}]
Whole(devices) == [state |-> "whole", devices |-> devices]

Init ==
    /\ tool \in {"tilt", "cloud"}
    /\ listed \in SUBSET Entries
    /\ run = NoRun
    /\ file = Absent /\ saved = Absent /\ spoilt = FALSE

At(place) == run.pc = place
Go(place) == run' = [run EXCEPT !.pc = place]
Exit(how) == run' = [NoRun EXCEPT !.exit = how]

-----------------------------------------------------------------------------
\* main up to the parsing.  An access token of the Tilt cloud saves the login.
Start ==
    /\ At("idle")
    /\ \E debug, extras \in BOOLEAN, place \in {"login", "fetch"} :
          /\ place = "fetch" => tool = "tilt"
          /\ run' = [NoRun EXCEPT !.pc = place, !.debug = debug, !.extras = extras]
    /\ UNCHANGED <<tool, listed, file, saved, spoilt>>

Login ==
    /\ At("login")
    /\ Go("fetch")
    /\ UNCHANGED <<tool, listed, file, saved, spoilt>>

\* import_tilt handles TiltCloudError, not a read timeout or a reply that is no JSON;
\* under --debug a login without token (import_tilt), or a request that fails
\* (import_cloud), is part of the report.
CloudFails ==
    /\ At("login") \/ At("fetch")
    /\ \/ Exit("error")
       \/ tool = "tilt" /\ Exit("traceback")
       \/ run.debug /\ At(IF tool = "tilt" THEN "login" ELSE "fetch") /\ Exit("printed")
    /\ UNCHANGED <<tool, listed, file, saved, spoilt>>

Diagnose ==
    /\ At("fetch") /\ run.debug
    /\ Exit("printed")
    /\ UNCHANGED <<tool, listed, file, saved, spoilt>>

\* Faulty: the file is opened before the account is read.
FetchIntoOpenFile ==
    /\ At("fetch") /\ ~run.debug
    /\ run' = [run EXCEPT !.pc = "parse", !.fetched = listed]
    /\ file' = Cut
    /\ UNCHANGED <<tool, listed, saved, spoilt>>

\* Faulty: a reply that is no document is taken for one.
FetchAnything ==
    /\ At("fetch") /\ ~run.debug
    /\ \E reply \in {listed, {[id |-> "null", extra |-> FALSE, key |-> "missing"]}} :
          run' = [run EXCEPT !.pc = "parse", !.fetched = reply]
    /\ UNCHANGED <<tool, listed, file, saved, spoilt>>

Fetch ==
    /\ At("fetch") /\ ~run.debug
    /\ run' = [run EXCEPT !.pc = "parse", !.fetched = listed]
    /\ UNCHANGED <<tool, listed, file, saved, spoilt>>

\* The key texts a tool exports: parse_store takes any but the empty one as it is,
\* b64decode of fetch_blinds lets the empty one pass.
Exportable ==
    {"usable", "garbage"} \cup {IF tool = "tilt" THEN "undecodable" ELSE "empty"}

\* The devices asked for, and those of them that can be exported.
Asked == {e \in run.fetched : e.extra => run.extras}
Keyed == {e \in Asked : e.key \in Exportable}

\* Faulty: what comes after a device that cannot be exported is left out.
ParseUpToKeyless ==
    /\ At("parse")
    /\ \E devices \in SUBSET Keyed \ {{}} :
          /\ devices = Keyed \/ Asked # Keyed
          /\ run' = [run EXCEPT !.pc = "open", !.devices = devices]
    /\ UNCHANGED <<tool, listed, file, saved, spoilt>>

\* Faulty: an account that lists nothing is exported like any other.
ParseNothing ==
    /\ At("parse")
    /\ run' = [run EXCEPT !.pc = "open", !.devices = Keyed]
    /\ UNCHANGED <<tool, listed, file, saved, spoilt>>

\* parse_store skips a device that it cannot export, fetch_blinds raises.  An export
\* of nothing is refused.
Parse ==
    /\ At("parse")
    /\ IF Keyed = {} \/ (tool = "cloud" /\ Keyed # Asked)
       THEN Exit("error")
       ELSE run' = [run EXCEPT !.pc = "open", !.devices = Keyed]
    /\ UNCHANGED <<tool, listed, file, saved, spoilt>>

-----------------------------------------------------------------------------
\* Writing: "w" truncates the file; it is whole once it is closed.
OpenFile ==
    /\ At("open")
    /\ file' = Cut
    /\ Go("dump")
    /\ UNCHANGED <<tool, listed, saved, spoilt>>

OpenFails ==
    /\ At("open")
    /\ Exit("traceback")
    /\ UNCHANGED <<tool, listed, file, saved, spoilt>>

DumpAndClose ==
    /\ At("dump")
    /\ file' = Whole(run.devices)
    /\ Go("say")
    /\ UNCHANGED <<tool, listed, saved, spoilt>>

\* The disk is full.
DumpFails ==
    /\ At("dump")
    /\ Exit("traceback")
    /\ spoilt' = TRUE
    /\ UNCHANGED <<tool, listed, file, saved>>

SaySaved ==
    /\ At("say")
    /\ Exit("saved")
    /\ saved' = file
    /\ spoilt' = FALSE
    /\ UNCHANGED <<tool, listed, file>>

\* The process is interrupted or dies.
Crash ==
    /\ ~At("idle")
    /\ Exit("killed")
    /\ spoilt' = (spoilt \/ At("dump") \/ At("say"))
    /\ UNCHANGED <<tool, listed, file, saved>>

\* The account changes, or is shut down and lists nothing.
AccountChanges ==
    /\ listed' \in SUBSET Entries
    /\ UNCHANGED <<tool, run, file, saved, spoilt>>

-----------------------------------------------------------------------------
Next ==
    \/ Start \/ Login \/ CloudFails \/ Diagnose \/ Fetch \/ Parse
    \/ OpenFile \/ OpenFails \/ DumpAndClose \/ DumpFails \/ SaySaved
    \/ Crash \/ AccountChanges

Spec == Init /\ [][Next]_vars

-----------------------------------------------------------------------------
Places == {"idle", "login", "fetch", "parse", "open", "dump", "say"}
Exits  == {"none", "error", "traceback", "printed", "saved", "killed"}

\* Type invariant of the accounts, the runs and the files.
TypeOK ==
    /\ tool \in {"tilt", "cloud"}
    /\ listed \subseteq Entries
    /\ run \in [pc : Places, debug : BOOLEAN, extras : BOOLEAN,
                fetched : SUBSET Entries, devices : SUBSET Entries, exit : Exits]
    /\ {file, saved} \subseteq
          [state : {"absent", "cut", "whole"}, devices : SUBSET Entries]
    /\ spoilt \in BOOLEAN

\* Outside a write the file is the export last reported as saved, unless a write was
\* cut short since: a run that fails before it opens the file does no harm.  After a
\* run that reports success it is whole and not empty (main).
FileIsLastExport ==
    /\ file = saved \/ At("dump") \/ At("say") \/ spoilt
    /\ run.exit = "saved" => file.state = "whole" /\ file.devices # {}

\* A file that was saved holds every shade whose usable key the account listed when it
\* was fetched, the extras too if they were asked for, whatever is wrong with the other
\* entries; and nothing but what was listed and asked for (parse_store, fetch_blinds).
ExportIsComplete ==
    At("say") =>
        /\ \A e \in run.fetched :
              e.key = "usable" /\ (e.extra => run.extras) => e \in file.devices
        /\ \A e \in file.devices : e \in run.fetched /\ (e.extra => run.extras)

\* Once the account lists nothing that the tool exports, for good, and no run is under
\* way, a key that is in the file stays there: no later run truncates the file, however
\* often one is started, fails or is killed (main opens it only for a device to write).
KeysOutliveTheCloud ==
    \A e \in Entries :
        [](At("idle") /\ e \in file.devices /\ [](\A l \in listed : l.key \notin Exportable)
             => [](e \in file.devices))
=============================================================================
