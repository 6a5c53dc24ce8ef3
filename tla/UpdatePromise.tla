---------------------------- MODULE UpdatePromise ----------------------------
(***************************************************************************)
(* What the program promises of its own update: it records an update, and  *)
(* starts its installer, only with the user's agreement to that version,   *)
(* given in the same run of the program; "launched" is recorded only of an *)
(* installer that was started, and stays until the version is installed or *)
(* the user wants it launched again.                                       *)
(***************************************************************************)
EXTENDS Naturals

CONSTANT MaxVersion

VARIABLES
    installed, \* the installed version
    installer, \* the version a running installer brings, 0 when none runs
    record,    \* the update on record
    program,   \* "off", "runs", or "leaves" with its installer started
    agreed     \* the versions the user has agreed to in this run

vars == <<installed, installer, record, program, agreed>>

Versions == 1 .. MaxVersion
None == [phase |-> "none", version |-> 0]
Ready(version)    == [phase |-> "ready", version |-> version]
Launched(version) == [phase |-> "launched", version |-> version]

Init ==
    /\ installed = 1 /\ installer = 0 /\ record = None
    /\ program = "off" /\ agreed = {}

Opens ==
    /\ program = "off" /\ program' = "runs"
    /\ UNCHANGED <<installed, installer, record, agreed>>

Agrees(version) ==
    /\ program = "runs"
    /\ agreed' = agreed \cup {version}
    /\ UNCHANGED <<installed, installer, record, program>>

\* A new update takes the place of one that waits, not of one that is being installed.
Stages(version) ==
    /\ program = "runs" /\ version \in agreed /\ record.phase # "launched"
    /\ record' = Ready(version)
    /\ UNCHANGED <<installed, installer, program, agreed>>

\* What is about to be launched, or could not be, is ready.
Readies == record.version \in agreed /\ record' = Ready(record.version)

Prepares ==
    /\ program = "runs" /\ Readies
    /\ UNCHANGED <<installed, installer, program, agreed>>

Launches ==
    /\ program = "runs" /\ program' = "leaves"
    /\ record.phase = "ready" /\ record.version \in agreed
    /\ installer = 0 /\ installer' = record.version
    /\ UNCHANGED <<installed, record, agreed>>

\* The program ends, or dies; only one that has started the installer records that.
Ends ==
    /\ program # "off" /\ program' = "off" /\ agreed' = {}
    /\ \/ UNCHANGED record
       \/ program = "runs" /\ Readies
       \/ program = "leaves" /\ record' = Launched(record.version)
    /\ UNCHANGED <<installed, installer>>

Clears ==
    /\ program = "runs"
    /\ record = Launched(installed) /\ record' = None
    /\ UNCHANGED <<installed, installer, program, agreed>>

Installs ==
    /\ program = "off" /\ installer # 0
    /\ installed' = installer /\ installer' = 0
    /\ UNCHANGED <<record, program, agreed>>

Aborts ==
    /\ installer # 0 /\ installer' = 0
    /\ UNCHANGED <<installed, record, program, agreed>>

Next ==
    \/ Opens \/ Prepares \/ Launches \/ Ends \/ Clears \/ Installs \/ Aborts
    \/ \E v \in Versions : Agrees(v) \/ Stages(v)

Spec == Init /\ [][Next]_vars
===============================================================================
