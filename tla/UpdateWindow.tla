----------------------------- MODULE UpdateWindow -----------------------------
(***************************************************************************)
(* The update lifecycle of the window (gui/app_gui.py) over the updater:   *)
(* the inspection at start-up, the check for a release, the dialogs, the   *)
(* staging, and the end of the program that starts the installer when the  *)
(* user has agreed and nothing else runs.                                  *)
(***************************************************************************)
EXTENDS Updater

VARIABLES
    pending,    \* _pending_update: its version, 0 for None
    failed,     \* _update_pending_failed
    candidate,  \* _update_candidate: its version, 0 for None
    button,     \* the update button is visible and can be clicked
    checking,   \* the check for a release: due, running or over
    dialog,     \* the question on the screen
    authorized, \* _update_apply_authorized
    requested,  \* _update_apply_requested
    retry,      \* _update_cleanup_retry_scheduled
    unread,     \* history: in this run of the program an inspection could not read the record
    activity,   \* a game or the automation runs, as far as the window knows
    other,      \* another instance of the program runs
    agreed      \* the versions the user has agreed to since the program started

windowVars == <<pending, failed, candidate, button, checking, dialog, authorized,
                requested, retry, unread, activity, agreed>>
vars == <<updaterVars, windowVars, other>>

NoDialog == [asks |-> "nothing", version |-> 0]
Dialogs  == {NoDialog} \cup [asks : {"stage", "apply"}, version : Versions]

TypeOK ==
    /\ UpdaterTypeOK
    /\ {pending, candidate} \subseteq {0} \cup Versions
    /\ {failed, button, authorized, requested, retry, unread, other} \subseteq BOOLEAN
    /\ checking \in {"due", "running", "over"}
    /\ dialog \in Dialogs
    /\ activity \in {"unknown", "idle", "busy"}
    /\ agreed \subseteq Versions

Init ==
    /\ UpdaterInit
    /\ pending = 0 /\ candidate = 0 /\ checking = "due" /\ dialog = NoDialog
    /\ failed = FALSE /\ button = FALSE /\ authorized = FALSE /\ requested = FALSE
    /\ retry = FALSE /\ unread = FALSE /\ activity = "unknown" /\ other = FALSE /\ agreed = {}

\* The process ends, with its threads and what the window knew.
Ends ==
    /\ app' = "off" /\ clear' = "no"
    /\ worker' = "none" /\ target' = 0 /\ previous' = None
    /\ pending' = 0 /\ candidate' = 0 /\ checking' = "due" /\ dialog' = NoDialog
    /\ failed' = FALSE /\ button' = FALSE /\ authorized' = FALSE /\ requested' = FALSE
    /\ retry' = FALSE /\ unread' = FALSE /\ activity' = "unknown" /\ agreed' = {}
    /\ UNCHANGED other

updaterKept == <<recordVars, stageVars, worldVars, faults>>

-----------------------------------------------------------------------------
(* Start-up and clean-up.                                                  *)

\* An inspection whose load_pending_update raises.
CannotInspect == Fault /\ unread' = TRUE

Inspects == Smooth /\ UNCHANGED unread

\* _handle_startup_update_status: of a record that cannot be read it knows nothing.
Starts ==
    /\ app = "off" /\ app' = "open"
    /\ \/ Applied /\ Inspects /\ clear' = "directory" /\ UNCHANGED <<pending, failed, button>>
       \/ /\ record # None /\ ~Applied /\ Inspects
          /\ pending' = record.version
          /\ failed' = (record.phase = "launched")
          /\ button' = TRUE
          /\ UNCHANGED clear
       \/ /\ (record = None /\ Inspects) \/ (record # None /\ CannotInspect)
          /\ UNCHANGED <<clear, pending, failed, button>>
    /\ UNCHANGED <<recordVars, stageVars, worldVars, candidate, checking, dialog, authorized,
                   requested, retry, activity, agreed, other>>

\* A clean-up that failed is tried again later (_schedule_applied_update_cleanup).
Clears ==
    /\ app = "open"
    /\ ClearsDirectory \/ ClearsRecord
    /\ retry' = (clear' = "no" /\ record'.phase # "none")
    /\ UNCHANGED <<stageVars, worldVars, app, pending, failed, candidate, button, checking,
                   dialog, authorized, requested, unread, activity, agreed, other>>

\* The thread of the window is not in a clean-up, nor past its main loop.
WindowFree == app = "open" /\ clear = "no"

RetriesClear ==
    /\ WindowFree /\ retry
    /\ retry' = FALSE
    /\ \/ Inspects /\ clear' = IF Applied THEN "directory" ELSE "no"
       \/ CannotInspect /\ UNCHANGED clear
    /\ UNCHANGED <<recordVars, stageVars, worldVars, app, pending, failed, candidate, button,
                   checking, dialog, authorized, requested, activity, agreed, other>>

-----------------------------------------------------------------------------
(* The check for a release.                                                *)

CheckBegins ==
    /\ WindowFree /\ checking = "due"
    /\ checking' = "running"
    /\ button' = FALSE
    /\ UNCHANGED <<updaterKept, app, clear, pending, failed, candidate, dialog,
                   authorized, requested, retry, unread, activity, agreed, other>>

\* _restore_pending_update_action; without a pending update the button stays away.
RestoresAction == button' = (pending # 0)

\* check_for_update, and its event in _poll_update_events: a newer release, or none and the
\* action for what is staged is restored.
CheckEnds ==
    /\ WindowFree /\ checking = "running"
    /\ checking' = "over"
    /\ \/ FindsUpdate /\ candidate' = release /\ button' = TRUE
       \/ UNCHANGED candidate /\ RestoresAction
    /\ UNCHANGED <<updaterKept, app, clear, pending, failed, dialog, authorized,
                   requested, retry, unread, activity, agreed, other>>

-----------------------------------------------------------------------------
(* The user's decisions.                                                   *)

PrefersUnlessPending == pending = 0 \/ failed \/ candidate > pending

\* should_prefer_release_candidate
PrefersCandidate ==
    /\ candidate # 0
    /\ pending = 0 \/ failed \/ candidate > pending

\* _on_update_clicked up to its question.
Clicks ==
    /\ WindowFree /\ button /\ dialog = NoDialog /\ ~requested
    /\ \/ PrefersCandidate /\ worker = "none"
          /\ dialog' = [asks |-> "stage", version |-> candidate] /\ UNCHANGED button
       \/ ~PrefersCandidate /\ pending # 0
          /\ dialog' = [asks |-> "apply", version |-> pending] /\ UNCHANGED button
       \/ ~PrefersCandidate /\ pending = 0 /\ button' = FALSE /\ UNCHANGED dialog
    /\ UNCHANGED <<updaterKept, app, clear, pending, failed, candidate, checking,
                   authorized, requested, retry, unread, activity, agreed, other>>

\* _staged_update_is_idle
Idle == activity = "idle" /\ ~other

\* The rest of _on_update_clicked.  (A requested close takes the question away.)
Agrees ==
    /\ WindowFree /\ dialog # NoDialog /\ ~requested
    /\ dialog' = NoDialog /\ button' = FALSE
    /\ authorized' = TRUE
    /\ agreed' = agreed \cup {dialog.version}
    /\ \/ /\ dialog.asks = "stage"
          /\ worker' = "reads" /\ target' = dialog.version
          /\ UNCHANGED requested
       \/ /\ dialog.asks = "apply"
          /\ requested' = (requested \/ (pending # 0 /\ worker = "none" /\ Idle))
          /\ UNCHANGED <<worker, target>>
    /\ UNCHANGED <<recordVars, previous, worldVars, faults, app, clear, pending, failed,
                   candidate, checking, retry, unread, activity, other>>

Declines ==
    /\ WindowFree /\ dialog # NoDialog
    /\ dialog' = NoDialog
    /\ UNCHANGED <<updaterKept, app, clear, pending, failed, candidate, button, checking,
                   authorized, requested, retry, unread, activity, agreed, other>>

-----------------------------------------------------------------------------
(* The events of the staging thread (_poll_update_events).                 *)

StageFinished ==
    /\ WindowFree /\ worker = "finished"
    /\ pending' = target /\ candidate' = 0 /\ failed' = FALSE /\ button' = FALSE
    /\ requested' = (requested \/ (authorized /\ Idle))
    /\ UNCHANGED authorized

StageFailedStillAuthorized ==
    /\ WindowFree /\ worker = "failed"
    /\ button' = (candidate # 0)
    /\ UNCHANGED <<pending, candidate, failed, requested, authorized>>

StageFailed ==
    /\ WindowFree /\ worker = "failed"
    /\ authorized' = FALSE
    /\ button' = (candidate # 0)
    /\ UNCHANGED <<pending, candidate, failed, requested>>

StageEnds ==
    /\ StageFinished \/ StageFailed
    /\ worker' = "none" /\ target' = 0 /\ previous' = None
    /\ UNCHANGED <<recordVars, worldVars, faults, app, clear, checking, dialog, retry, unread,
                   activity, agreed, other>>

-----------------------------------------------------------------------------
(* Applying the update.                                                    *)

\* _maybe_apply_staged_update, from the external sync and at the automation's exit.
AppliesWhenIdle ==
    /\ WindowFree /\ authorized /\ pending # 0 /\ worker = "none" /\ Idle
    /\ requested' = TRUE
    /\ UNCHANGED <<updaterKept, app, clear, pending, failed, candidate, button, checking,
                   dialog, authorized, retry, unread, activity, agreed, other>>

\* _on_close: by the user, for a requested update, or because the client has exited; an open
\* question goes with the window.
Closes ==
    /\ WindowFree
    /\ app' = "exiting"
    /\ requested' = (requested
                       \/ (authorized /\ worker = "none" /\ pending # 0 /\ ~other))
    /\ dialog' = NoDialog
    /\ UNCHANGED <<updaterKept, clear, pending, failed, candidate, button, checking,
                   authorized, retry, unread, activity, agreed, other>>

\* launch_staged_update_after_mainloop
Leaves ==
    \/ app = "exiting" /\ ~requested /\ Ends /\ UNCHANGED <<recordVars, worldVars, faults>>
    \/ app = "exiting" /\ requested /\ LaunchBegins
         /\ UNCHANGED <<staged, stageVars, worldVars, faults, clear, windowVars, other>>
    \/ app \in {"exiting", "launching"} /\ requested /\ LaunchFails /\ Ends
         /\ UNCHANGED <<staged, worldVars>>
    \/ app = "launching" /\ LaunchSpawns
         /\ UNCHANGED <<recordVars, stageVars, installed, release, faults, clear,
                        windowVars, other>>
    \/ app = "spawned" /\ LaunchRecords /\ Ends /\ UNCHANGED <<staged, worldVars>>

Crashes == app # "off" /\ Fault /\ Ends /\ UNCHANGED <<recordVars, worldVars>>

-----------------------------------------------------------------------------
(* The surroundings.                                                       *)

ActivityChanges ==
    /\ app = "open"
    /\ activity' \in {"idle", "busy"}
    /\ UNCHANGED <<updaterVars, pending, failed, candidate, button, checking, dialog,
                   authorized, requested, retry, unread, agreed, other>>

OtherComesOrGoes == other' = ~other /\ UNCHANGED <<updaterVars, windowVars>>

World ==
    /\ Installs(other) \/ InstallerAborts(other) \/ Publishes
    /\ UNCHANGED <<recordVars, stageVars, app, clear, windowVars, other>>

StagesOn == Stages /\ UNCHANGED <<windowVars, other>>

Next ==
    \/ Starts \/ Clears \/ RetriesClear
    \/ CheckBegins \/ CheckEnds \/ Clicks \/ Agrees \/ Declines
    \/ StagesOn \/ StageEnds
    \/ AppliesWhenIdle \/ Closes \/ Leaves \/ Crashes
    \/ ActivityChanges \/ OtherComesOrGoes \/ World

Spec == Init /\ [][Next]_vars

\* The program goes on when it can, and the user or the installer starts it again.
Fairness == WF_vars(Starts) /\ WF_vars(Clears) /\ WF_vars(RetriesClear) /\ WF_vars(Leaves)

FairSpec == Spec /\ Fairness

-----------------------------------------------------------------------------
(* Properties.                                                             *)

\* An update that is offered as ready can be applied: its installer is there, whatever
\* step of the staging, the launch or the clean-up the program died in (stage_update).
ReadyHasInstaller == record.phase = "ready" => record.version \in staged

\* The record of an update goes only when the update is installed and nothing of it is
\* left to be removed (_clear_update_state, inspect_startup_update).
UpdateIsNotForgotten ==
    [][(record # None /\ record' = None) =>
         (record.phase = "launched" /\ record.version = installed
            /\ record.version \notin staged)]_vars

\* An installer is started only for a version the user has agreed to since the program
\* was started: neither a failed staging nor a newer release, nor a restart, hands the
\* agreement on to another version (_update_apply_authorized).
LaunchIsAgreed == [][(installer' # installer /\ installer' # 0) => installer' \in agreed]_vars

\* What the promise knows of the program: whether it runs, and whether it has started the
\* installer and only has to end.
ProgramOf ==
    CASE app = "off" -> "off"
      [] app = "spawned" -> "leaves"
      [] OTHER -> "runs"

Promise == INSTANCE UpdatePromise WITH program <- ProgramOf

\* The whole life of an update keeps the promise: what is recorded, launched and started
\* was agreed to in this run of the program, a launched update is neither replaced nor
\* forgotten while it is not installed (stage_update, launch_staged_installer_update).
PromiseIsKept == Promise!Spec

\* The record and the directory of an update that is installed are eventually removed,
\* crashes and failed removals notwithstanding; a run of the program in which an inspection
\* could not read what is there leaves that to the next one (_retry_applied_update_cleanup).
AppliedIsCleared == Applied ~> (record = None \/ unread)

\* A release that is offered in place of an update that failed can be staged
\* (should_prefer_release_candidate; README, the installed application's updates).
FailedUpdateCanBeStagedAgain ==
    [][(worker = "reads" /\ installer = 0 /\ faults' = faults) => worker' # "failed"]_vars
=============================================================================
