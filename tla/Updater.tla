-------------------------------- MODULE Updater --------------------------------
(***************************************************************************)
(* The updater of core/auto_updater.py: an update is staged (downloaded,   *)
(* then recorded as "ready"), started when the program has ended (recorded *)
(* as "launched"), and cleared when the program finds itself updated.  The *)
(* record and the staging directories survive the program; their owner is  *)
(* the one window of UpdateWindow.                                         *)
(***************************************************************************)
EXTENDS Naturals

CONSTANTS
    MaxVersion, \* the releases are 1 .. MaxVersion; the first is the one installed
    MaxFaults   \* crashes, failing file operations, downloads and installers

ASSUME BoundsAreNumbers == MaxVersion \in Nat \ {0} /\ MaxFaults \in Nat

VARIABLES
    installed, \* the FileVersion of the installed program
    release,   \* the latest release
    record,    \* pending-update.json
    staged,    \* the versions whose installer lies in the staging directory
    installer, \* the version a running installer brings, 0 when none runs
    app,       \* the program: not running, in its main loop, or past it
    clear,     \* how far _clear_update_state is
    worker,    \* how far stage_update is, or its event the window has not handled yet
    target,    \* the release it stages
    previous,  \* the record it has read
    faults     \* faults so far

recordVars == <<record, staged>>
stageVars  == <<worker, target, previous>>
worldVars  == <<installed, release, installer>>
updaterVars == <<recordVars, stageVars, worldVars, app, clear, faults>>

Versions == 1 .. MaxVersion
None     == [phase |-> "none", version |-> 0]
Records  == {None} \cup [phase : {"ready", "launched"}, version : Versions]
Ready(version) == [phase |-> "ready", version |-> version]

UpdaterTypeOK ==
    /\ installed \in Versions /\ release \in Versions
    /\ record \in Records
    /\ staged \subseteq Versions
    /\ installer \in {0} \cup Versions
    /\ app \in {"off", "open", "exiting", "launching", "spawned"}
    /\ clear \in {"no", "directory", "state"}
    /\ worker \in {"none", "reads", "downloads", "writes", "tidies", "finished", "failed"}
    /\ target \in {0} \cup Versions /\ (target = 0 <=> worker = "none")
    /\ previous \in Records
    /\ faults \in 0 .. MaxFaults

UpdaterInit ==
    /\ installed = 1 /\ release = 1 /\ record = None /\ staged = {} /\ installer = 0
    /\ app = "off" /\ clear = "no"
    /\ worker = "none" /\ target = 0 /\ previous = None
    /\ faults = 0

Fault  == faults < MaxFaults /\ faults' = faults + 1
Smooth == UNCHANGED faults

-----------------------------------------------------------------------------
(* check_for_update and stage_update, each on a thread of its own.         *)

FindsUpdate == release > installed

StagingAt(step) == app \in {"open", "exiting"} /\ worker = step

StageReads ==
    /\ StagingAt("reads")
    /\ \/ /\ previous' = record /\ Smooth
          /\ worker' = IF record.phase = "launched" THEN "failed" ELSE "downloads"
       \/ record # None /\ worker' = "failed" /\ UNCHANGED previous /\ Fault
    /\ UNCHANGED recordVars

DownloadsRecorded ==
    /\ StagingAt("downloads")
    /\ record' = Ready(target)
    /\ \/ staged' = staged \cup {target} /\ worker' = "writes" /\ Smooth
       \/ UNCHANGED staged /\ worker' = "failed" /\ Fault
    /\ UNCHANGED previous

\* The installer replaces one of the same version only when it is complete and verified.
StageDownloads ==
    /\ StagingAt("downloads")
    /\ \/ staged' = staged \cup {target} /\ worker' = "writes" /\ Smooth
       \/ UNCHANGED staged /\ worker' = "failed" /\ Fault
    /\ UNCHANGED <<record, previous>>

\* What was downloaded for a record that cannot be written is removed, if that works.
StageWrites ==
    /\ StagingAt("writes")
    /\ \/ record' = Ready(target) /\ worker' = "tidies" /\ Smooth /\ UNCHANGED staged
       \/ /\ Fault /\ worker' = "failed" /\ UNCHANGED record
          /\ \/ UNCHANGED staged
             \/ previous.version # target /\ staged' = staged \ {target}
    /\ UNCHANGED previous

\* _remove_superseded_ready_stage
StageTidies ==
    /\ StagingAt("tidies")
    /\ worker' = "finished"
    /\ \/ /\ previous.phase = "ready" /\ previous.version # target /\ record = Ready(target)
          /\ \/ staged' = staged \ {previous.version} /\ Smooth
             \/ UNCHANGED staged /\ Fault
       \/ /\ ~(previous.phase = "ready" /\ previous.version # target /\ record = Ready(target))
          /\ UNCHANGED staged /\ Smooth
    /\ UNCHANGED <<record, previous>>

Stages ==
    /\ StageReads \/ StageDownloads \/ StageWrites \/ StageTidies
    /\ UNCHANGED <<worldVars, app, clear, target>>

-----------------------------------------------------------------------------
(* inspect_startup_update and _clear_update_state.                         *)

AppliedWhenLaunched == record.phase = "launched"

Applied == record.phase = "launched" /\ record.version = installed

ClearsDirectoryThere ==
    /\ clear = "directory"
    /\ \/ record.version \in staged /\ staged' = staged \ {record.version}
          /\ clear' = "state" /\ Smooth
       \/ record.version \notin staged /\ UNCHANGED staged /\ clear' = "no" /\ Smooth
       \/ UNCHANGED staged /\ clear' = "no" /\ Fault
    /\ UNCHANGED record

\* A directory that is gone already counts as removed.
ClearsDirectory ==
    /\ clear = "directory"
    /\ \/ staged' = staged \ {record.version} /\ clear' = "state" /\ Smooth
       \/ UNCHANGED staged /\ clear' = "no" /\ Fault
    /\ UNCHANGED record

ClearsRecord ==
    /\ clear = "state" /\ clear' = "no"
    /\ (record' = None /\ Smooth) \/ (UNCHANGED record /\ Fault)
    /\ UNCHANGED staged

-----------------------------------------------------------------------------
(* launch_staged_installer_update, on the main thread after the main loop. *)

\* mark_installer_launch_failure
MarksFailure ==
    record' = IF record.phase = "launched" THEN Ready(record.version) ELSE record

\* validate_staged_update: there is a record, and its installer is there.
Validates == record # None /\ record.version \in staged

LaunchBegins ==
    /\ Validates
    /\ record' = Ready(record.version)
    /\ app' = "launching"

\* The launch fails before the installer runs; what is left can be launched again.
LaunchFails ==
    \/ app = "exiting" /\ ~Validates /\ MarksFailure /\ Smooth
    \/ app = "exiting" /\ Fault /\ (MarksFailure \/ UNCHANGED record)
    \/ app = "launching" /\ Fault /\ MarksFailure

\* (An installer started before has ended by now: it does not outlast the program that
\* runs again, whose processes make it abort.)
LaunchSpawns ==
    /\ installer = 0
    /\ installer' = record.version
    /\ app' = "spawned"

LaunchRecords ==
    \/ record' = [record EXCEPT !.phase = "launched"] /\ Smooth
    \/ UNCHANGED record /\ Fault

-----------------------------------------------------------------------------
(* The installer (LOLManager.iss) and the releases.                        *)

\* PrepareToInstall: the program has ended, and no other instance of it runs.
Installs(other) ==
    /\ installer # 0 /\ app = "off" /\ ~other
    /\ installed' = installer
    /\ installer' = 0
    /\ UNCHANGED release /\ Smooth

InstallerAborts(other) ==
    /\ installer # 0
    /\ installer' = 0
    /\ ((app # "off" \/ other) /\ Smooth) \/ Fault
    /\ UNCHANGED <<installed, release>>

Publishes ==
    /\ release < MaxVersion
    /\ release' = release + 1
    /\ UNCHANGED <<installed, installer>> /\ Smooth
=============================================================================
