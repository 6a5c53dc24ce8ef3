------------------------------ MODULE GuiProcess ------------------------------
(***************************************************************************)
(* The window as the keeper of the automation process: the Start and Stop  *)
(* buttons, the restart after a change of the configuration, the recovery  *)
(* of a process that has crashed, and the end of the window when the       *)
(* League client has exited.  src/src/lolmanager/gui/app_gui.py.           *)
(*                                                                         *)
(* One action is a callback of the GUI thread.  The threads that read the  *)
(* output of a process or look at the outside world put into queues, which *)
(* _poll_log_queue and _sync_external_state empty.                         *)
(***************************************************************************)
EXTENDS ChildProcess, ExitGuard

CONSTANTS
    Worlds,        \* what may happen in one behaviour: sets of "edits" (the configuration
                   \* is changed), "exits" (the client comes and goes, unseen at times),
                   \* "games" (over the client), "closes" (by the user) and "faults" (starts
                   \* that fail, processes that linger or survive the grace)
    RestartLimit   \* CLI_UNEXPECTED_RESTART_LIMIT

ASSUME LimitAssumption == RestartLimit \in Nat

VARIABLES
    app,           \* "open" or "closed" (root.destroy)
    proc,          \* self.proc
    stopAt,        \* _stop_requested_at: "none", "waiting", or "due" after STOP_GRACE_SEC
    restartAfter,  \* _restart_after_exit
    recoveries,    \* _unexpected_cli_restart_count
    autoStart,     \* _auto_start_pending
    due,           \* the start callbacks that root.after has: "start", "recover"; a second
                   \* of a kind is the first one over again
    dialog,        \* _check_config_ready shows a message box, inside a call of start
    startOn,       \* btn_start can be clicked
    stopOn         \* btn_stop can be clicked

startVars == <<autoStart, due, dialog>>
runVars   == <<proc, stopAt, restartAfter, recoveries, startOn, stopOn>>

VARIABLES
    world,         \* the member of Worlds that this behaviour is of
    ready,         \* the configuration on the disk is good for a start
    edited,        \* its mtime is not _last_config_mtime_ns
    applyAt,       \* _pending_config_apply_at, "due" after CONFIG_APPLY_DEBOUNCE_SEC
    snapshots,     \* league_running of what _external_sync_q holds, at most one
    confirmed,     \* _last_confirmed_league_running; "none" until there is a snapshot
    seenOnce,      \* _client_seen_once
    closedAt,      \* _client_closed_at, "due" after AUTO_EXIT_AFTER_CLIENT_CLOSED_SEC
    deadline       \* _client_close_cleanup_deadline

configVars == <<world, ready, edited, applyAt>>
closeVars  == <<confirmed, seenOnce, closedAt, deadline>>

VARIABLES
    wish,          \* history: "start" or "stop", the click of the user that took effect last
    odd            \* history: an output ended before its process did, or a start came
                   \* between the end of a process and the notice of it

historyVars == <<wish, odd>>
vars == <<childVars, guardVars, app, runVars, startVars, configVars, snapshots,
          closeVars, historyVars>>

(* A time that is not set, set, or past by as much as the code asks for.   *)
None  == "none"
Times == {None, "waiting", "due"}

TypeOK ==
    /\ ChildTypeOK
    /\ GuardTypeOK
    /\ app \in {"open", "closed"}
    /\ proc \in Children \cup {NoChild}
    /\ recoveries \in 0 .. RestartLimit
    /\ due \subseteq {"start", "recover"}
    /\ {stopAt, applyAt, closedAt, deadline} \subseteq Times
    /\ {restartAfter, autoStart, startOn, stopOn} \subseteq BOOLEAN
    /\ {dialog, ready, edited, seenOnce, odd} \subseteq BOOLEAN
    /\ world \in Worlds
    /\ snapshots \subseteq Answers
    /\ confirmed \in Answers \cup {None}
    /\ wish \in {"start", "stop"}

Init ==
    /\ ChildInit /\ GuardInit
    /\ app = "open" /\ proc = NoChild
    /\ stopAt = None /\ restartAfter = FALSE /\ recoveries = 0
    /\ autoStart = FALSE       \* should_schedule_initial_auto_start
    /\ due = {}
    /\ dialog = FALSE
    /\ startOn = TRUE /\ stopOn = FALSE
    /\ world \in Worlds /\ ("exits" \notin world => league)
    /\ ready \in BOOLEAN /\ edited = FALSE /\ applyAt = None
    /\ snapshots = {} /\ confirmed = None
    /\ seenOnce = FALSE /\ closedAt = None /\ deadline = None
    /\ wish = "stop" /\ odd = FALSE

--------------------------------------------------------------------------------
(* start.  A process that is gone counts as none, also if the window has   *)
(* not noticed its end yet.                                                *)

StartBlocked ==
    /\ Alive(proc)
    /\ UNCHANGED <<childVars, runVars, autoStart, dialog>>

\* The message box runs the event loop; the call goes on in DialogCloses.
StartUnready ==
    /\ ~ Alive(proc) /\ ~ ready
    /\ ~ dialog /\ dialog' = TRUE
    /\ UNCHANGED <<childVars, runVars, autoStart>>

CountAfresh(recover) == 0
CountAfterStart(recover) == IF recover THEN recoveries ELSE 0

StartLaunchesAnyway(recover) ==
    /\ ready
    /\ Launches /\ proc' = FreeChild
    /\ recoveries' = CountAfterStart(recover)
    /\ stopAt' = None /\ restartAfter' = FALSE /\ autoStart' = FALSE
    /\ startOn' = FALSE /\ stopOn' = TRUE
    /\ UNCHANGED <<logQ, dialog>>

StartLaunches(recover) ==
    /\ ~ Alive(proc) /\ ready
    /\ Launches /\ proc' = FreeChild
    /\ recoveries' = CountAfterStart(recover)
    /\ stopAt' = None /\ restartAfter' = FALSE /\ autoStart' = FALSE
    /\ startOn' = FALSE /\ stopOn' = TRUE
    /\ UNCHANGED <<logQ, dialog>>

\* Popen raises.
StartFails(recover) ==
    /\ ~ Alive(proc) /\ ready
    /\ "faults" \in world
    /\ proc' = NoChild
    /\ recoveries' = CountAfterStart(recover)
    /\ UNCHANGED <<child, reading, logQ, stopAt, restartAfter, startOn, stopOn,
                   autoStart, dialog>>

Start(recover) ==
    \/ StartBlocked
    \/ StartUnready
    \/ StartLaunches(recover)
    \/ StartFails(recover)

\* The end of self.proc is still in the queue, or on the way to it.
Overtakes == proc # NoChild /\ ~ Alive(proc) /\ proc' # proc

(* stop, which does nothing to a process that is gone.                     *)
Stop ==
    IF Alive(proc)
    THEN child' = Struck(proc) /\ stopAt' = "waiting" /\ stopOn' = FALSE
    ELSE UNCHANGED <<child, stopAt, stopOn>>

--------------------------------------------------------------------------------
(* The user.  A message box keeps the user from the window.                *)

UserActs == app = "open" /\ ~ dialog

ClickStart ==
    /\ UserActs /\ startOn
    /\ Start(FALSE)
    /\ wish' = "start"
    /\ odd' = (odd \/ Overtakes)
    /\ UNCHANGED <<guardVars, app, due, configVars, snapshots, closeVars>>

ClickStop ==
    /\ UserActs /\ stopOn
    /\ Stop
    /\ wish' = IF Alive(proc) THEN "stop" ELSE wish
    /\ UNCHANGED <<reading, logQ, guardVars, app, proc, restartAfter, recoveries,
                   startOn, startVars, configVars, snapshots, closeVars, odd>>

\* OK in the message box: start opens the settings and returns.
DialogCloses ==
    /\ app = "open"
    /\ dialog /\ dialog' = FALSE
    /\ autoStart' = TRUE
    /\ UNCHANGED <<childVars, guardVars, app, runVars, due, configVars, snapshots,
                   closeVars, historyVars>>

\* The settings window is a process of its own.
EditsConfig ==
    /\ app = "open" /\ "edits" \in world /\ applyAt = None
    /\ ready' \in BOOLEAN /\ edited' = TRUE
    /\ UNCHANGED <<childVars, guardVars, app, runVars, startVars, world, applyAt, snapshots,
                   closeVars, historyVars>>

--------------------------------------------------------------------------------
(* Callbacks that were given to root.after.                                *)

StartIsDue(kind) ==
    /\ app = "open"
    /\ kind \in due /\ due' = due \ {kind}
    /\ Start(kind = "recover")
    /\ odd' = (odd \/ Overtakes)
    /\ UNCHANGED <<guardVars, app, configVars, snapshots, closeVars, wish>>

Schedules(kind) == due' = due \cup {kind}

RecoversStopped(stopRequested, running) ==
    ~ restartAfter /\ running /\ recoveries < RestartLimit

RecoversOnceMore(stopRequested, running) ==
    ~ restartAfter /\ ~ stopRequested /\ running /\ recoveries <= RestartLimit

(* should_recover_cli_exit.  There is no exit code of a process that is    *)
(* not gone, or not there any more; that is not 0 either.                  *)
ShouldRecover(stopRequested, running) ==
    /\ ~ restartAfter /\ ~ stopRequested
    /\ proc # NoChild => child[proc] # "ended"
    /\ running
    /\ recoveries < RestartLimit

FinalizeStopped(st, running) ==
    LET recovers == ShouldRecover(st # None, running) IN
    /\ proc' = NoChild
    /\ stopAt' = None /\ restartAfter' = FALSE
    /\ stopOn' = FALSE /\ startOn' = ~ (restartAfter \/ recovers \/ st # None)
    /\ recoveries' = IF recovers THEN recoveries + 1 ELSE recoveries
    /\ IF restartAfter THEN Schedules("start")
       ELSE IF recovers THEN Schedules("recover")
       ELSE UNCHANGED due

(* _finalize_process; st is _stop_requested_at when it is called.          *)
Finalize(st, running) ==
    LET recovers == ShouldRecover(st # None, running) IN
    /\ proc' = NoChild
    /\ stopAt' = None /\ restartAfter' = FALSE
    /\ stopOn' = FALSE /\ startOn' = ~ (restartAfter \/ recovers)
    /\ recoveries' = IF recovers THEN recoveries + 1 ELSE recoveries
    /\ IF restartAfter THEN Schedules("start")
       ELSE IF recovers THEN Schedules("recover")
       ELSE UNCHANGED due

\* An inspection may be incomplete where the client comes and goes.
Looks == IF "exits" \in world THEN Inspections ELSE {Conclusive}

(* _poll_log_queue.  The kill hits a process that has been struck before,  *)
(* so that only the request is forgotten.                                  *)
Overdue == stopAt = "due" /\ Alive(proc)

PollLogQueue ==
    /\ app = "open"
    /\ Overdue \/ logQ # <<>>
    /\ LET st == IF Overdue THEN None ELSE stopAt IN
       IF logQ = <<>>
       THEN /\ stopAt' = st
            /\ UNCHANGED <<child, logQ, proc, restartAfter, recoveries, startOn, stopOn, due>>
       ELSE /\ logQ' = Tail(logQ) /\ child' = Dropped(Head(logQ))
            /\ \E i \in Looks : Finalize(st, PollIsRunning(i) # "no")
    /\ UNCHANGED <<reading, guardVars, app, autoStart, dialog, configVars, snapshots,
                   closeVars, historyVars>>

--------------------------------------------------------------------------------
(* The worker thread: _collect_external_sync_snapshot, then the queue of   *)
(* one place, whose content is replaced.                                   *)

Publishes(i) ==
    /\ app = "open"
    /\ snapshots' = {PollIsRunning(i)}
    /\ Misses(i)
    /\ UNCHANGED <<childVars, league, app, runVars, startVars, configVars, closeVars,
                   historyVars>>

(* _sync_external_state goes on with the newest snapshot, or with the last *)
(* one again.                                                              *)
Running == IF snapshots \subseteq {Unknown}
           THEN IF confirmed = None THEN Unknown ELSE confirmed
           ELSE CHOOSE a \in snapshots : TRUE

Changed == edited /\ snapshots # {}
Applies == applyAt = "due" /\ ~ Changed

\* A change is applied by a restart, or starts what could not be started before.
SyncConfig ==
    /\ edited' = (edited /\ ~ Changed)
    /\ applyAt' = IF Changed THEN "waiting" ELSE IF Applies THEN None ELSE applyAt
    /\ restartAfter' = (restartAfter \/ (Applies /\ Alive(proc)))
    /\ IF Applies /\ ~ Alive(proc) /\ autoStart THEN Schedules("start") ELSE UNCHANGED due

\* The client is known to have exited, and long enough ago.
ExitIsOld == Running = "no" /\ seenOnce /\ closedAt = "due"

ClosesWithoutProcess == ExitIsOld /\ ~ Alive(proc)

\* The process gets the time to end by itself, and to close OP.GG before.
Closes == ExitIsOld /\ (Alive(proc) => deadline = "due")

\* A client that runs has been seen, unless there is a game over it.
SyncClient ==
    /\ confirmed' = Running
    /\ \E inGame \in {FALSE, "games" \in world} :
          seenOnce' = (seenOnce \/ (Running # "no" /\ ~ inGame))
    /\ closedAt' = IF Running # "no" \/ ~ seenOnce THEN None
                   ELSE IF closedAt = None THEN "waiting" ELSE closedAt
    /\ deadline' = IF ~ ExitIsOld THEN None
                   ELSE IF deadline = None /\ Alive(proc) THEN "waiting" ELSE deadline

SyncExternalState ==
    /\ app = "open"
    /\ snapshots # {} \/ confirmed # None
    /\ SyncConfig /\ SyncClient
    /\ IF Applies THEN Stop
       ELSE child' = (IF Closes /\ Alive(proc) THEN Struck(proc) ELSE child)
            /\ UNCHANGED <<stopAt, stopOn>>
    /\ app' = IF Closes THEN "closed" ELSE app
    /\ snapshots' = {}
    /\ IF snapshots = {"yes"} THEN Told ELSE UNCHANGED sight
    /\ UNCHANGED <<reading, logQ, league, proc, recoveries, startOn, autoStart,
                   dialog, world, ready, historyVars>>

TakesConclusive == snapshots \in {{"yes"}, {"no"}} /\ SyncExternalState

\* The user closes the window.  _on_close strikes the process, and kills it if need be.
UserCloses ==
    /\ UserActs /\ "closes" \in world
    /\ app' = "closed"
    /\ child' = IF Alive(proc) THEN Struck(proc) ELSE child
    /\ UNCHANGED <<reading, logQ, guardVars, runVars, startVars, configVars,
                   snapshots, closeVars, historyVars>>

--------------------------------------------------------------------------------
(* Time.  A process that was struck is gone before STOP_GRACE_SEC, or else *)
(* that counts as unusual.                                                 *)

Passes(time) == time = "waiting" /\ time' = "due"

GraceElapses ==
    /\ app = "open" /\ Alive(proc)
    /\ Passes(stopAt) /\ "faults" \in world
    /\ UNCHANGED <<child, reading, logQ, guardVars, app, proc, restartAfter, recoveries,
                   startOn, stopOn, startVars, configVars, snapshots, closeVars, historyVars>>

DebounceElapses ==
    /\ app = "open"
    /\ Passes(applyAt)
    /\ UNCHANGED <<childVars, guardVars, app, runVars, startVars, world, ready, edited,
                   snapshots, closeVars, historyVars>>

ExitGetsOld ==
    /\ app = "open"
    /\ Passes(closedAt)
    /\ UNCHANGED <<childVars, guardVars, app, runVars, startVars, configVars, snapshots,
                   confirmed, seenOnce, deadline, historyVars>>

CleanupTimesOut ==
    /\ app = "open"
    /\ Passes(deadline)
    /\ UNCHANGED <<childVars, guardVars, app, runVars, startVars, configVars, snapshots,
                   confirmed, seenOnce, closedAt, historyVars>>

--------------------------------------------------------------------------------
(* The surroundings.                                                       *)
guiVars == <<app, runVars, startVars, configVars, snapshots, closeVars>>

ChildSteps(c) ==
    /\ Ends(c) \/ ("faults" \in world /\ Lingers(c)) \/ (app = "open" /\ ReadsEnd(c))
    /\ odd' = (odd \/ child'[c] = "mute")
    /\ UNCHANGED <<guardVars, guiVars, wish>>

ClientSteps ==
    /\ "exits" \in world /\ app = "open"
    /\ ClientStarts \/ ClientExits
    /\ UNCHANGED <<childVars, guiVars, historyVars>>

Next ==
    \/ ClickStart \/ ClickStop \/ UserCloses \/ EditsConfig \/ DialogCloses
    \/ PollLogQueue \/ SyncExternalState
    \/ \E kind \in {"start", "recover"} : StartIsDue(kind)
    \/ \E i \in Looks : Publishes(i)
    \/ GraceElapses \/ DebounceElapses \/ ExitGetsOld \/ CleanupTimesOut
    \/ \E c \in Children : ChildSteps(c)
    \/ ClientSteps

Spec == Init /\ [][Next]_vars

(* The GUI thread and the other threads run, time passes, what was struck  *)
(* ends, and the list of processes is read completely time and again.      *)
Fairness ==
    /\ WF_vars(PollLogQueue) /\ WF_vars(SyncExternalState) /\ SF_vars(TakesConclusive)
    /\ WF_vars(Publishes(Conclusive))
    /\ WF_vars(ExitGetsOld) /\ WF_vars(CleanupTimesOut)
    /\ \A c \in Children :
          /\ WF_vars(ReadsEnd(c) /\ ChildSteps(c))
          /\ WF_vars(child[c] \in {"dying", "mute"} /\ Ends(c) /\ ChildSteps(c))

FairSpec == Spec /\ Fairness

--------------------------------------------------------------------------------
(* Safety.                                                                 *)

\* A process that runs is the one that the window knows, so that Stop and the end of the
\* window reach it, there is one at most, and a window that has closed leaves none behind
\* that has not been struck: unless an output ended before its process did, or a start
\* overtook the notice of an end.  (start, _finalize_process, _on_close)
NoOrphan ==
    ~ odd => \A c \in AliveChildren : c = proc /\ (app = "closed" => child[c] # "running")

\* With nothing running and nothing on its way, Start can be clicked, or the next change
\* of the configuration starts the process, whatever order the restarts, recoveries,
\* dialogs and stops came in, as long as Popen succeeds.  (_finalize_process disables Start)
Idle == app = "open" /\ proc = NoChild /\ ~ dialog /\ due = {}
NeverStuck == Idle /\ "faults" \notin world => startOn \/ autoStart

Begins == \E c \in Children : child[c] = "free" /\ child'[c] = "running"

\* A Stop that reaches a running process stands until the user clicks Start: no recovery
\* brings the process back, although its exit code says that it crashed.  This is so when
\* the configuration stays as it is and the process is gone in time: a change applied
\* meanwhile asks for a restart, and the kill after the grace forgets the request.
\* (_finalize_process_exit, _maybe_apply_config_change, stop)
StopStands == [][Begins /\ world \cap {"edits", "faults"} = {} => wish' = "start"]_vars

SelfClose == app = "open" /\ Closes /\ SyncExternalState

\* A window that has been told once that the client runs closes by itself only when the
\* client has really exited since it was told so last, or an inspection has passed over it
\* because Windows did not name it.  Neither a list of processes that cannot be read nor a
\* file that is refused, nor an answer that is out of date or replaced, can close it over a
\* running client; an inspection without a result counts as having been told.
\* (poll_is_running, _sync_external_state)
ClosesAfterExitOnceTold == [][SelfClose => sight' # "there"]_vars

--------------------------------------------------------------------------------
(* Liveness.                                                               *)

\* "Stopping..." comes to an end: what was asked to stop is noticed to have stopped.
StopEnds == (stopAt # None) ~> (stopAt = None \/ app = "closed")

\* The window does not start processes for ever by itself: recoveries, planned restarts
\* and starts after a change of the configuration run out unless the user does something.
UserSteps == ClickStart \/ EditsConfig \/ DialogCloses
RestartsNeedTheUser == []<><<Begins>>_vars => []<><<UserSteps>>_vars

\* When the client that was seen stays away, the window closes, whether or not the process
\* ends by itself to let it.  (CLI_CLIENT_CLOSE_CLEANUP_GRACE_SEC)
ExitClosesWindow == <>[](~ league /\ seenOnce) => <>(app = "closed")
================================================================================
