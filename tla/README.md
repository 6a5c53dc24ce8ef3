# A TLA+ model of lol-manager

lol-manager automates the way from a League of Legends lobby to the game and
back: it starts the search, accepts the ready check, bans and picks, waits for
the game, watches it, and goes from the score board back to the queue or stops.
The paths below are relative to `src/src/lolmanager/` unless they start with `src/`.

## 1. The system

Two processes. The GUI (`gui/app_gui.py`, Tk) starts the automation
(`cli/entrypoint.py`, one thread) as a child process, reads its log lines, and
runs updater, auto-ban refresh and external-application supervision in
background threads. They meet in files (configuration, preferences, match
records, update state) and in the standard output of the child. The automation
meets the League client over its local HTTP API (the LCU), and over
screenshots and clicks when the LCU does not answer.

| Component | State it keeps | Operations | What makes it correct |
|---|---|---|---|
| Queue controller, `cli/matchmaking.py` | entry or watch loop, what it knows of the search, the pending start | poll, accept, start (request, then button), confirm champion select | a request is neither repeated nor forgotten; only a search that ended stops the run; an accepted check is no champion select yet |
| Main loop, `cli/entrypoint.py` `cli_main` | first cycle or later | read the phase, resume a game or a score board, else queue, select, wait | every start happens where the user wants one |
| Postgame, `cli/postgame.py`, `entrypoint.py` 1900-2600, 2770-3040 | play-again and dismiss flags, given or live preference | wait for the game, watch it, way back to the queue | one-game mode ends the run; the preference counts when it is needed |
| Runtime state, `cli/runtime_state.py`, `core/client_state.py` | shown client state, match timer, pending start | phase to state, timing hook | the timer spans a queue and never a game |
| LCU client, `core/lcu_client.py` | session, phase cache | classified reads and writes | an outcome means the same to every reader |
| Champion selection, `cli/champion_selection.py`, `entrypoint.py` 367-432, 908-1187, 3043-3304, 3659-4649, `lcu_client.py` 478-570, 1759-2433 | candidates, session identity, own actions | pre-pick, ban, pick, completion with confirmation | nothing is done to a replaced session; done means the client says so |
| Auto-ban refresh, `core/auto_ban_refresh.py` | generation, targets, keys in flight | start, refresh, finish, close | each configured target has exactly one chain of refreshes |
| Updater, `core/auto_updater.py`; its lifecycle in `gui/app_gui.py` 819-1170, 3129-3190; `src/installer/LOLManager.iss` | update-state file (ready, launched), staged installers; in the window the pending update, the candidate, the user's agreement | check, stage, inspect at start-up, clear, launch, mark failure | a ready record has its installer; a record is not lost before its update is installed; nothing is installed that was not agreed to |
| Process control, `gui/app_gui.py` 2020-2900 | child process, stop and restart requests, start callbacks, log queue, snapshots of the outside world | start, stop, kill, reader thread, finalize, recover, apply a change of the configuration, close | never two automations; a wanted stop is not recovered; the automation can always be started again; the window closes when the client has exited, and not before |
| File storage, `platform/file_storage.py`, and its users `core/champion_config.py`, `core/gui_preferences.py`, `core/match_timing.py`, `core/opgg_counter_recommendations.py` | the file, thread lock, sidecar lock, what each user has read | transaction, atomic replace, merge | no update is lost, no half file is read or left, nobody waits for ever |
| External applications, `platform/external_apps.py` | owned processes, what was last known of the client | launch, terminate tree, watch the client's exit | an unreadable process list is not a client that exited |
| Champion data, `core/champion_*`, `core/opgg_*`, `core/role_setting_data.py` | caches | scrape, merge, format | sequential data work |
| Image search, `core/image_search.py`, `platform/resolution_detector.py` | region cache | find a template | heuristic |
| Settings window, `gui/config_gui.py` | the fields it shows | edit, save by itself, reload | a save changes what its user has changed |
| Theme, logs | widgets | show | presentation |

What is hard here: the user and the client act between any two requests of the
automation; every phase read may be a cached one; a request may be carried out
although its answer is lost; an accepted start is reflected only later; the GUI
flips preferences at run time; refresh and update threads race with the GUI
thread; and several processes write the same files. `PROJECT.json` lists the
hazards at their lines.

## 2. The modules

| Module | Models |
|---|---|
| `LeagueClient` | the client, the user and the link, with the phase cache of `LcuClient` and its write requests |
| `RuntimeState` | the run's memory: shown state, timer, pending start, preference, `_poll_lcu_phase_attempt`, the start and accept attempts |
| `Matchmaking` | `MatchmakingController.run` |
| `Postgame` | `_wait_for_game_start_and_monitor`, `monitor_ingame_and_postgame`, `process_postgame`, `PostgameController` |
| `AutomationCycle` | the main loop; composes all of the above with the surroundings, and holds the properties |
| `OneGamePromise` | the abstract promise of the continue-after-game setting |
| `AutoBanRefresh` | `AutoBanRefreshCoordinator` with the GUI thread and the refresh threads |
| `RefreshDuty` | the abstract promise of the coordinator: what refresh it owes to each target, and when |
| `ChampSelectSession` | the champion select of one game as the client runs it: stages, other players, the user, writes that take effect later |
| `ChampionAction` | `LcuClient.select_champ_select_champion_decision` with its completion, confirmation and fallback |
| `ChampSelect` | the champion selection of `cli_main`: role, prepick, ban, pick, reserves, screen fallbacks |
| `Updater` | `auto_updater.py`: record and staging directories, staging, clean-up, launch; the installer |
| `UpdateWindow` | the update lifecycle of the window over `Updater`, with the end of the program |
| `UpdatePromise` | the abstract promise of the update: what may be recorded, installed and cleared, and on whose word |
| `ChildProcess` | the processes that the window starts, their reader threads and the queue of their ends |
| `ExitGuard` | `LeagueClientExitGuard`: what a look at the list of processes says of the client |
| `GuiProcess` | Start, Stop, recovery, restart after a change, and the end of the window, over the two above |
| `AtomicStore` | the abstract promise of the stored files |
| `FileStorage` | `file_transaction` and `atomic_write_text` with the saves that use them, and the settings window |
| `MCAutomationCycle`, `MCAutoBanRefresh`, `MCChampSelect`, `MCUpdateWindow`, `MCGuiProcess`, `MCFileStorage` | the instances that TLC checks |
| `AutomationCycle_proofs`, `StartRequest_proofs`, `HealthyLink_proofs`, `AutoBanRefresh_proofs`, `ChampSelect_proofs`, `UpdateWindow_proofs`, `GuiProcess_proofs`, `FileStorage_proofs` | theorems |

### The automation cycle

The automation has one thread; `pc` is the call it has reached (`"poll"`,
`"confirm"`, `"postStart"`, ...) and one action is the code between two
requests to the client, because only there anybody else can interfere. An
exchange with the client (a request with its answer) is one step with one of
three results, the loop actions of the code: `ACT_LCU`, `WAIT_AUTHORITATIVE`,
`FALLBACK_IMAGE`. A phase read takes its answer from the cache or from the
client and caches it, failures included, as `get_gameflow_phase_decision` does.
When the link is down, a read fails and a write fails *or has been carried out
all the same*. The image fallback sees a template only where it is on the
screen, and may miss it there.

Sleeps, log lines, notifications and the window's position are left out.
`Reconnect` and `WatchInProgress` are handled like `InProgress` in every branch
of the code and are merged into it. A poll that depends on a window
that may not be visible is a nondeterministic choice.

Time appears in three places. `pending` is the age of an unconfirmed start
request, `"fresh"` or `"old"`, on either side of the one second of
`MATCHMAKING_START_CONFIRM_GRACE_SEC`; `GraceElapses` assumes what the constant
assumes, that the client reflects an accepted request and that a cached phase
expires within that second. The 0.8 s guard against a second accept is a result
without a request while the same check is accepted: a new check takes longer to
come. And a game, or a champion select that leads to one, lasts long enough to
be polled once over a working link (`Noticed`). These are the only places where
the surroundings are kept from being faster than the program.

Champion selection is coarse in this module (`SelectGoesOn`, `SelectLeaves`): the
steps that matter to the cycle, not the bans and picks. `ChampSelect` models those.

### The champion selection

`ChampSelectSession` is external: the draft of one game seen through what the
code reads of it. `stage` says whose turn it is (the last fifteen seconds
of the ban, `BAN_COMMIT_WINDOW_SEC`, are the stage `"ban"`, the time before that `"banEarly"`), `hover` and `done` are the
`championId` and `completed` of the local actions, `taken` the champions of
`completed_champ_select_champion_ids`, `refused` those the client refuses for a
reason no snapshot shows. A write that was accepted waits in `sent` until it takes
effect; that is what the code's waits for the assignment and for the completion
are about. A fault is a request without an answer (carried out or not), a
read that fails, a wait that ends too early, or an accepted write that is dropped.

`ChampionAction` is one call of `select_champ_select_champion_decision`, one request per
step, because the session goes on in between. Its four results are what
`_champ_select_action_attempt_via_lcu` tells apart: done, rejected, wait, and
image, for an answer that never came.

`ChampSelect` is the part of `cli_main` from the role to the wait for the game. `pc`
is the place in it: `prepare`, `prepick`, the ban loop (`ban`, `rehover`,
`banDecide`, `commit`, `banTry`), the pick loop (`pick`, `try`, `reserve`), the
screen (`prepickImage`, `banImage`, `image`, `imageReserve`), `won` for the wait
for the game, `outer` for the rest of the program. `index`, `known`, `watched`
and `trial` are `pick_index`, `availability_candidate_ids`, `session_identity` and
`next_idx`; `seen` is the snapshot that a pass of the ban loop decides by.

Assumed of the surroundings: the client applies accepted writes in their order,
and refuses a write exactly when the champion is taken or refused, or the action
cannot be completed yet. The user chooses freely before the own turn and may
complete the pick by hand. The screen shows a field or a button only in its
stage, and a click on a pick or ban button that can be clicked takes effect. What is typed
into the prepick may come to nothing, and the ban loop of the screen may also be left because
the client has no visible window (`BansOnScreen`). Candidates are
known to the client by name. The planning stage outlasts a ban that was begun in
the session before (`Advances`). Between two champion selects there is a queue and a
ready check, long enough for one pass of a waiting loop to see that the session
is gone even if the passes before it got no answer (`PassesPerGap`, `missed`).
A session may open sooner all the same; then `swift` is set, and the properties
that rest on the assumption say nothing of what follows. `BanBelongsToSession`
does not rest on it, because the ban loop compares the identity of the session.

### The auto-ban refresh

One action is what a thread does under the state lock or between two holds of
it. The GUI thread runs a call to its end (`GuiFree`) before the next; the
refresh threads interleave with it and with each other. `start()` hands the
targets to the timer one by one after it has let go of the lock. `_finish_refresh`
is three steps: the critical section, the check in `_schedule_target`, and the
timer call made without the lock. A thread that cannot be started is finished on
the GUI thread, as the code does. Pending timer callbacks are counted by key,
generation and delay; a long delay may end at any time. The timer is assumed to
accept every call (`root.after` inside the main loop).

### The updates

`Updater` keeps what outlives the program: `record` is `pending-update.json`
(its phase and version), `staged` the versions whose verified installer lies in
the staging directory. Releases are numbered, because the code only compares them.
One action is what cannot be interrupted half-way: `stage_update` is
`StageReads`, `StageDownloads`, `StageWrites`, `StageTidies`; the clean-up is
`ClearsDirectory` and `ClearsRecord`; the launch `LaunchBegins`, `LaunchSpawns`,
`LaunchRecords`. A crash may come between any two. A fault is a
crash, a download, file operation or process start that fails, or an installer that
aborts although it need not, or a record that cannot be read.

In `UpdateWindow` one action is a callback of the GUI thread, except that the questions
to the user run the event loop: `Clicks` opens one, `Agrees` and `Declines` answer it,
and anything may come between. `pending`, `candidate`, `failed`, `authorized`,
`requested` and `retry` are the attributes `_pending_update`, `_update_candidate`,
`_update_pending_failed`, `_update_apply_authorized`, `_update_apply_requested` and
`_update_cleanup_retry_scheduled`; `agreed` is what the user has said yes to, which
the code does not keep. `app` is the process: in the main loop (`"open"`), past it
(`"exiting"`), inside the launch (`"launching"`, `"spawned"`), or gone. `worker` is
the staging thread with its event; it is a daemon and dies with the process. The
thread of the check and its event are one step. The lock of the service is never
contended, as a release to stage comes only from the one check, which has ended then.
A record that cannot be read (`CannotInspect`) leaves the window without knowledge of the
update for this run of the program, without a further retry of the clean-up (`unread`), and makes
a staging fail. The `FileVersion` of the program is assumed to be readable: the constructor reads
the same one to decide whether there are updates at all (`is_installer_managed_build`).

Assumed: another instance leaves the files of the updater alone (two windows would
share them without a lock; the hazard is listed). It can keep the installer from
running, and defers the update while the window sees it. The installer waits for the end of the program, and has ended
before the program that was started in between gets to another launch, since it
aborts when it finds it running. A close takes an open question away. There are fewer failed
removals in one run of the program than `UPDATE_CLEANUP_RETRY_ATTEMPTS` (30).

### The window and its process

`GuiProcess` is the other side of the automation: the window that starts it. `proc`,
`stopAt`, `restartAfter`, `recoveries`, `autoStart`, `closedAt`, `deadline`, `seenOnce`
and `confirmed` are the attributes `proc`, `_stop_requested_at`, `_restart_after_exit`,
`_unexpected_cli_restart_count`, `_auto_start_pending`, `_client_closed_at`,
`_client_close_cleanup_deadline`, `_client_seen_once` and
`_last_confirmed_league_running`. One action is one callback of the GUI thread, of which
`SyncExternalState` (a change of the configuration, then the client) and `PollLogQueue`
(the overdue kill, then one end of an output with `_finalize_process`) are the large ones.
`start` may open a message box in its middle, which runs the event loop: `dialog`, closed
by `DialogCloses`. The callbacks that wait in `root.after` are the set `due`; a second one of
a kind finds the process running and returns. The times the code compares are "not set",
"waiting" and "due".

`ChildProcess` keeps what makes the end of a process hard: the process is gone at once
for `poll()`, while the window notices it by a `None` that the reader thread posts when the output
has ended. A process may also close its output long before it is gone (`"mute"`). The
variable `odd` records the two histories in which the window loses track of a process:
this one, when it takes longer than the 0.2 s the reader waits, and a start that comes
between the end of a process and the notice of it.

`ExitGuard` is one look at the list of processes. Windows may refuse the list, or the file of a
process; both make the inspection incomplete. It may also refuse the name of a process, which
`psutil` then gives as `None`, or give an empty file; the loop passes such a client over without
noticing (`PassesOver`) and answers that there is none. The history `sight` records whether the
client that the window was told of is there, has exited, or was passed over by an inspection since
(`"missed"`).

`Worlds` are the sets of things that happen together in one behaviour: `"edits"` (the
configuration changes, for the better or worse), `"exits"` (the client comes and goes and
inspections may be incomplete), `"games"` (a game over the client), `"closes"` (the user
closes the window), `"faults"` (`Popen` raises, outputs end early, a struck process
survives the grace). A configuration changes again only when the change before has been
applied. The lines of the output, the log view, the terminals, the taskbar and the
preferences are left out. `terminate()` and `kill()` succeed.

### The stored files

`FileStorage` is one file and those who change it. `rlock` is `_WRITE_LOCK` of
each process, `sidecar` the lock on the `.lock` file (`msvcrt.locking`, which gives
up after its attempts: `GivesUp`). The transaction is `TakesThreadLock`,
`TakesSidecar`, `Reads`, `Writes` (`mkstemp` and the write of the temporary file), `Replaces`,
`Releases`. A write that fails may have its temporary file already (`CannotWrite`); that one, and the
one of a replacement that fails (`CannotReplace`), is removed by the `finally` (`Cleans`), unless
that fails too (`CannotClean`). A reader that has the file open keeps Windows from replacing
it. A crash of a process ends its threads and gives its locks back, and leaves the temporary file of
a thread that had one: `temps` counts those on the disk, the history `left` those that
a crash or a failed removal has left for good.

A `"lenient"` file (preferences, match durations, recommendation cache) counts as empty
when it cannot be read, and the next save begins it anew. The `"strict"` one is the champion
configuration: the error is reported and nothing is written. A save of it is the
difference between what a window shows (`shown`) and what the `ChampionConfig` has read or
saved last (`base`), merged into what the file holds by then. Entries and values are
model values; nested tables are flattened to their entries, as `_merge_changed_data` does.

`AtomicStore` is what the users of a file are promised: a change is one whole edit,
applied at once to what the file holds at that moment; only a lenient file is ever
begun anew. The mapping is the identity on `kind`, `store`, `edit` and `unread`: `Replaces` is
the commit, everything else is asking, dropping (at the error, before the `finally`), or a
stutter.

## 3. What is checked

`CHECK_DEADLOCK FALSE` except for the updates and the files: the automation stops
(`"stopped"`), a closed coordinator whose threads have ended has nothing to do, after the
last session that the bound allows no champion select opens, and a closed window does
nothing.

| Run | Bounds | Shows |
|---|---|---|
| `cycle` | no link fault, fairness | type invariant; a start request under way is remembered; no timer over a score board; the run is stopped only for an ended search; champion select is entered only when confirmed; the watch loop does not repeat a start; ready checks are accepted, a search that is gone ends the run, one-game mode ends after the game |
| `faulty` | one link fault | the program implements `OneGamePromise` also when answers are lost, unreadable, or belong to requests that were carried out |
| `cancel_ends` | no link fault | a disagreement with `src/README.md:68`, below |
| `autoban` | 2 targets, 1 slot, 2 generations, fairness | no target is dropped or doubled, one refresh per target at a time; the coordinator implements `RefreshDuty`: with a new configuration every refresh is due at once, one that is at work is repeated when it ends, and the long wait only follows a refresh with the newest one; that one is used for each of its targets |
| `rematch` | 2 candidates, 2 sessions, 1 fault | the ban stays in the session that was watched, even if sessions follow each other at once; if they do not, the program waits for the game only over a completed pick, and completes no candidate of an old role in the next session; while requests are answered, a reserve is completed only if nothing before it can be had, and a result is not taken for another candidate's |
| `turns` | 2 candidates, 1 fault, fairness | an unanswered request does not cost the pick, unless it was one of the ban; the late ban is made |
| `ban_fallback` | 1 candidate, 1 fault, fairness | a disagreement with `src/README.md:14`, below |
| `update` | 3 releases, 2 faults, fairness | a ready record has its installer; a record goes only with an installed update that is cleared; the window implements `UpdatePromise`: only what was agreed to, in the same run of the program, is recorded or installed, and what has been launched is not replaced; an installed update is eventually cleared, unless its record could not be read |
| `restage` | 2 releases, 1 fault | a disagreement within the program and with `src/README.md:249`, below |
| `window` | 2 processes, 1 recovery, 3 worlds, fairness | a process that runs is known to the window and ends with it; Start never stays disabled; a Stop stands; the window closes only for a client that has exited or was passed over by an inspection, and for one that has exited always; "Stopping…" ends; restarts run out |
| `storage` | 3 threads of 2 processes, 2 entries, 1 reader, 1 fault, 2 edits of the settings, fairness | the file implements `AtomicStore`; a save leaves no temporary file, also when the write or the replacement fails, except by a crash or a failed removal of that very file; every save ends |
| `lost_edit` | as `storage`, 3 edits | a disagreement with `core/champion_config.py:54`, below |

The cycle has no sets of nodes or values to bound: its phases and program points
are those of the code, and behaviours are unbounded (games follow games). The only
bound is the number of link faults: each may be of either kind, last for any
time and cover any number of requests, so one shows every single outage. The
type theorem and the promise theorem hold for any number. `cycleCount` is
counted to 2, because the code only asks whether it is 1.

For the refresh, two keys and one slot are the least in which refreshes wait for
each other; the code has two slots and more keys. With two generations a worker of the
first one may finish, or reach any point between two holds of the lock, in the second or after
the closing; the theorems hold for any number of them.

For the champion selection, two candidates are the least with which a result can be
attributed wrongly, a reserve tried or a candidate skipped; the client may refuse the first
for a reason of its own (`Refusable`), and the draft may take either; the theorems hold for any. The configuration allows three; the second
reserve runs through the same loop as the first. One fault is one
answer lost, one accepted write dropped or one read that fails, at every place in turn. Two
sessions are the least in which something of an old one can meet a new one. The
ban is one champion outside the pool that others may ban or pick as well.

For the updates, three releases are the least in which an update that is staged is
superseded by another; two faults let a crash meet a failed operation, or the clean-up
fail twice. The theorems hold for any number of both.

For the window, the second process is the one that should not be there beside
the first. `RestartLimit` is 1 as in the code. The three worlds put together what
meets in the code: the client's exit with closing and games; failing starts and lingering
processes with closing; changes of the configuration. `StopStands` and `NeverStuck` name
the worlds they speak of. The safety theorems hold for any processes, limit and worlds.

For the files, a second thread of a process and a second process are what the two locks are
for; with two entries an edit can undo another one without touching its own. `lost_edit`
needs three edits: one saved by a window, one by another, and the next of the first. The
theorems hold for any number of threads, entries, faults and edits.

### Fairness

The automation's thread keeps running (`WF` on the whole program, not on any
branch of it, so no favourable choice is assumed), cached phases expire and the
grace passes because time does. `SF` on `CycleRunsMatchmaking` says that a popup
over the lobby, once closed, does not reappear for ever. For the refresh, threads
run (`WF` for the steps of each target), the semaphore and the timer queue
serve their waiters in turn (`SF` for each key, for callbacks that are due at once);
nothing is assumed of long delays or the user. In the champion selection the
program's thread runs, except that nothing is assumed while it waits on the screen for a ban stage
that is over (`WaitsForBanStage`), because only the loss of the client's window would get it
out; accepted writes take effect, and `SF` on `PrepickTimesOut` is the three
seconds of the prepick. The stages end when they like, also before the program's next
step; a ban that was not made in time is over then, an own pick over a champion is
completed by the client, and over none it ends the session (`StageEnds`). So
`PickSurvivesLostAnswer`, `PickHappens` and `BanHappens` say that the program gets to the pick and the ban in
finitely many steps, however long the turn has to be for that, and never gets stuck. The client and the players are
under no fairness at all: the liveness properties end when they act. Of the updates
`AppliedIsCleared` needs the program to be started again at some time, to go on with a clean-up
it has begun or scheduled, and to end when its main loop has (`Leaves`); nothing
is assumed of the user, the installer or the releases.

In the window the two periodic callbacks and the reader threads run, what was struck ends, times
pass, and the worker thread keeps publishing complete inspections, which the GUI thread takes
time and again (`SF` on `TakesConclusive`: a queue of one place, whose content may be
replaced by an incomplete one). Nothing is assumed of a start callback, the user, or the debounce of a change.
For the files, threads run inside of their transaction, an attempt at the lock of the file
succeeds or gives up, and a thread lock that is free again and again is had at last (`SF`).

### Disagreements that runs show

*A cancellation that is not final.* After an accepted ready check the controller
leaves its watch loop for the wait for champion select. If another player
declines, the search goes on; if the user then cancels it in the lobby, the
wait answers `RETRY` (`cli/matchmaking.py:226`) and the main loop queues again.
`src/README.md:68` promises that a manual cancellation ends the run.

*A ban that costs the pick.* When a request of the ban gets no answer, the program
looks for the search field of the ban stage on the screen (`cli/entrypoint.py:3991`).
When the stage is over there is none, and the loop ends only with the champion
select, or when the client has no visible window: the own pick turn passes. The wait for the ban over the LCU does have the
exit (`superseded_by_pick`, line 1080). `src/README.md:14` promises pick and ban.

*A retry that cannot be staged.* An installation that failed leaves the record
`"launched"`; the next start calls it a failure that can be retried, as
`src/README.md:249` promises. Once the check has found the release, the button asks to download it
(`should_prefer_release_candidate`: "re-stage a pending installer that failed
validation", `gui/app_gui.py:197`). But `stage_update` refuses every record in the
phase `"launched"` (`core/auto_updater.py:958`), which is the phase of every update that
failed, so the download the user agreed to always ends in an error. Only a
retry agreed to before the check has ended starts the staged installer again.

*An edit of another window set back.* `ChampionConfig.save` promises to merge "this
instance's edits while preserving unrelated concurrent edits"
(`core/champion_config.py:54`). After a save it takes the merged content as its new base
(line 227), but the settings window (`gui/config_gui.py:1277`, `1325`) goes on showing its old
fields. Its next save counts every entry that another window has saved in between as an edit
of its own, and sets it back.

### Disagreements that shape the properties

These were met as counterexamples while modelling. No run keeps them; the properties name
the case they leave out.

*A requeue without opt-in.* `cli/postgame.py:16` calls the opt-in "the only way to
requeue after a match". The entry loop has no branch for a game
(`cli/matchmaking.py:244`): entered on a phase read just before the game
starts, it polls through game and score board and starts a search at the next
lobby without consulting the setting. `OneGamePromise` states what does hold:
every game boundary that the *watch over a game* sees is decided by the setting.

*A reserve for a pick that was not blocked.* When a request of the pick gets no
answer, the same pass goes on to the screen. No champion stands on the own action
yet, so the Ready button is grey in the own turn; `cli/entrypoint.py:4426` takes
that for a banned champion and completes the reserve over the LCU, which answers
again. `src/README.md:144` has reserves for a main pick that is blocked.
`ReserveOnlyWhenBlocked` therefore speaks of behaviours without faults.

*A Stop that is not final.* `gui/app_gui.py:122` and `src/README.md:18` have a requested stop
excluded from recovery. The kill after `STOP_GRACE_SEC` clears `_stop_requested_at`
(lines 2523-2535) before the end of the process is finalized, which then looks like a crash and is
recovered. And a change of the configuration that is applied while the window says
"Stopping…" asks for a restart. `StopStands` holds in the worlds without either.

*A client that was never seen.* The first inspection, when it is incomplete, counts as a client
that runs (`gui/app_gui.py:2796`), so that the window may close for the exit of a client
that never ran. `ClosesAfterExitOnceTold` counts such an inspection as having been told.

*A client without a name.* A poll of the process list that cannot see everything is
meant to be inconclusive (`inspection_incomplete`). But `process_iter` does not raise for a
name it may not read, it puts `None` into `proc.info`, so that the `except` around
`proc.info.get` (`platform/external_apps.py:944`, `975`) never runs. The loop takes the
process for another one (lines 951, 982; so does line 962 with an empty file) and answers
that no client runs, which may close the window over one that does. The test
`test_league_exit_guard_treats_incomplete_process_scan_as_unknown` only refuses the file.
`ClosesAfterExitOnceTold` exempts a client that an inspection has passed over.

*A start that fails in a restart.* When `Popen` raises in a planned restart or a recovery,
Start stays disabled (lines 2282-2298), because the finalization before has left it so.
`NeverStuck` excludes behaviours in which `Popen` fails.

*A process that lingers.* A process that has closed its output and is there more than 0.2 s
later (lines 2203-2208) has no exit code yet, is taken for a crash, and runs on unknown to the
window, beside its successor. `NoOrphan` exempts it as `odd`.

## 4. What is proved

TLAPS proves the following for every value of the constants.

* `TypeIsKept` (`AutomationCycle_proofs`): the type invariant of the composed
  program, any number of link faults.
* `PromiseIsKept`: `Spec => KeepsPromise`, the refinement of `OneGamePromise` under
  the mapping of `pc` to queue, game, board or over. Besides the types it needs one
  invariant, that `forced` is set only on a score board, because the way the promise
  treats a board depends on it.
* `StartRequestIsRemembered` (`StartRequest_proofs`): over a healthy link a request not
  yet reflected is `pending = "fresh"`. The property is far from inductive: the
  tracker forgets a pending start when it polls `Matchmaking` or later, so one
  must know that no such phase can be *read* while a request is outstanding, also not
  from the cache. `RequestInv` says so: a request exists only in a lobby or on the home
  screen (`WithinReach`); on a healthy link no read is a failure and the image
  fallback is never reached (`NoFallback`); where a start is about to be sent,
  or is outstanding, the cached and the held phases are the lobby's
  (`Remembered`).
* `SelectsAreConfirmed`, `TimerStops`, `WatchIsPatient`, `StopsAreDeserved`
  (`HealthyLink_proofs`): what else a healthy link gives, from `RequestInv`, which
  excludes the image fallback. `TimerRules` says that a game that has been seen has ended
  the timer, and that what is cached from then on is the game or its score board, so that nothing
  read or shown can start the timer again. `WatchInv` says that
  the watch loop reaches a check or a start only with nothing pending, and that outside
  of the controller the stage is that of its entry. `SearchRules` is the longest: what the
  tracker knows of, a search it has seen or a start it has asked for, is still going on at
  the client or has ended in the lobby (`Ongoing`); it cannot become a champion select behind the
  tracker's back, because only the program accepts a ready check, and it forgets the search
  when it does.
* `CancelledSearchesEnd` (`HealthyLink_proofs`, `CancelsAreMissedOnlyInConfirm`) is about the
  first disagreement below and holds over any link. When the watch loop is left with a
  cancelled search of its own that the program has read, the run ends or the program is
  where it waits for champion select after it has accepted a ready check. So that
  wait (`confirm`) is the only place in which such a cancel is missed.
* `SelectHasTypes`, `BansBelong`, `PicksBelong`, `ReservesAreNeeded`, `PicksAreConfirmed`
  (`ChampSelect_proofs`): any pool, sessions and faults. `BanInv` says that without faults a ban is completed only by the call
  of the ban loop, in the session that the loop watches: a session that replaces it
  begins with its planning stage, which outlasts the call. `GapInv` says how late the
  main thread can be: every pass it makes over a closed session costs a fault, and
  there are fewer faults than `PassesPerGap`, so that the thread is back in the outer loop when
  the next session opens, unless that one follows too swiftly to be seen (`swift`). That a reconciliation finds the least
  preferred candidate at all rests on the well-foundedness of `<` (`HasLeast`). `PickInv`
  says, while requests are answered, that a champion which is on the own action, or on its way
  there, and can still be had is the candidate the program is at (`StandsFor`): every
  candidate before it is taken, a reserve is tried only when the client has refused
  those before it, and a completion is under way only during the call that waits for it.
  From it follows that what is completed is that candidate, and that the program goes on
  with it. `ConfirmInv` is the part of that which no fault disturbs.
* `CoordinatorKeepsDuties`, `TargetsAreNotDropped`, `TargetsAreNotDoubled`,
  `RefreshesAreSingle`, `ChangesAreTakenUpAtOnce`, `CoordinatorHasTypes`
  (`AutoBanRefresh_proofs`): any keys, any number of generations and slots. The
  invariant `RefreshInv` adds to the properties, which need each other, that
  nothing belongs to a future generation, that `_in_flight` is exactly the keys of
  the threads between `_begin_refresh` and `_finish_refresh`, that a closed
  coordinator has no targets, and that a worker of the current generation is the
  last begun for its key. `CoordinatorKeepsDuties` is the refinement of `RefreshDuty`
  (`DutyIsKept`): the duty to a key is where its one refresh is, in the timer, in a hand-over,
  with a waiting thread or at work. The mapping needs that everything which still
  stands for a target of an older generation changes nothing when it is discarded, and
  that a call that hands over the new targets one by one owes them from its critical
  section on (`DutyInv`). `ChangesAreTakenUpAtOnce`, that no long wait stands for a target the
  newest configuration has not reached, is now part of that promise and has no run of its own.
* `UpdatesKeepThePromise`, `ReadyInstallersAreThere`, `UpdatesAreNotForgotten`,
  `LaunchesAreAgreed`, `LaunchedIsNotReplaced`, `TypesAreKept` (`UpdateWindow_proofs`): any number of releases and faults. The
  invariant `IInv` ties the window to the files: how far the staging thread is says what
  it has left on the disk (`WorkerInv`); the window knows the record until a staged
  update replaces it (`PendingInv`); a clean-up is for an installed
  update that the window does not offer (`ClearInv`); while the thread works there is
  no question, no button and no launch (`StagingInv`), so that the agreement is always
  for the version the window would launch (`AgreedInv`). `LaunchedInv` says that an
  installer under way is that of the launched record, and that a launched record
  without its installer is an installed one; without it a launch that
  failed could make a record ready whose installer has been removed. With `IInv` every
  step is one of `UpdatePromise` or a stutter (`UpdatesKeepThePromise`). The promise maps the
  program to off, running or leaving, and the files to the record alone: neither the downloads nor the
  questions to the user show in it. `LaunchesAreAgreed` and `LaunchedIsNotReplaced` say two
  of its consequences in the terms of the window; the second is why the window cannot stage what
  it offers instead of a failed update, which the run `restage` shows.
* `NoProcessIsLost`, `WindowIsNeverStuck`, `StopsStand`, `ExitsAreReal`, `WindowHasTypes`
  (`GuiProcess_proofs`): any processes, recoveries and worlds. `Accounted` says, unless the
  history is `odd`, that the one process that may be alive is `proc`, and that the end of a
  process that is on its way to the window is the end of `proc`; it is what makes the end that is
  finalized the end of the process that is forgotten. `Unstuck` ties the two buttons to
  what is on its way: with Start disabled there is a process, a start callback or a
  dialog whose closing arms the next change. `Calm` says for worlds
  without changes and faults that no restart is planned, that a start callback is a
  recovery and of a process nobody has stopped, and that after a Stop the process is
  gone or the request still stands. `StartsAreBudgeted` is the argument behind the liveness
  property `RestartsNeedTheUser`: an allowance, made of the recoveries left and of what is
  due, armed and under way, never rises without the user, and every start lowers it; it is at most
  `5 * (RestartLimit + 1)`. `ToldTruly` says that while the client the window
  was told of is there and no inspection has passed it over, no snapshot or confirmation the
window holds says that it is not.
* `PromiseIsKept`, `OneIsInside`, `NothingIsLeft`, `StorageHasTypes` (`FileStorage_proofs`):
  `Spec => KeepsPromise`, the refinement of `AtomicStore`, for any threads, processes,
  entries and values, faults and edits. The invariant `IInv` adds to the types
  that whoever reads, merges or writes holds the lock of the file (`HoldsSidecar`); that what
  is about to be written is still the edit applied to what the file holds now
  (`IsCurrent`), which needs the first; that a file is only begun anew inside of a
  transaction (`UnreadInside`); and that the temporary files on the disk are those left behind and
  the one of the thread that is writing, of which the first makes it at most one (`TempInv`).
* `LocksAreInUse`: a lock that is held has a live holder inside of the transaction, whatever
  fails, ends or crashes before; so no end of a thread or process leaves a lock behind.
* `WindowsWriteTheirDifferences`, `ForeignNeedsMerging`, `AloneSavesOwnEdits`: what a settings
  window saves is exactly the entries that differ from what it read or merged last. An
  entry its user has not set comes into a save only after an earlier save of the same window
  has merged it from another window, so the first save after a load undoes nothing, and
  with one window there is no disagreement `lost_edit`.

Assumptions on constants: `MaxFaults`, `MaxGeneration`, `MaxEdits`, `RestartLimit` are natural
numbers, as is `MaxGames`; `Slots`, `PoolSize` and `MaxVersion` are positive ones; `Refusable` and
`WithBan` are candidates of the pool; `NoChild` is no process, `Nobody` no thread; `Absent`
is a value, `Home` gives each thread a process, settings windows are threads.

`AloneSavesOwnEdits` is about settings windows only (`Kinds = {"strict"}`), and one of them; the runs
have two. The other theorems add no assumption to those of the modules.

Only model-checked: the disagreements and liveness, `ReadyCheckIsAccepted`, `CancelIsNoticed`,
`OneGameEndsTheRun`, `NewestIsRefreshed`, `PickSurvivesLostAnswer`, `BanHappens`,
`AppliedIsCleared`, `StopEnds`, `RestartsNeedTheUser`, `ExitClosesWindow` and `SavesEnd`. The prover
has no rules for fairness and `ENABLED`; also the last step from `StartsAreBudgeted` to
`RestartsNeedTheUser`, that a number that never rises falls only finitely often, is an
induction over behaviours that it cannot make. Every invariant and every safety property of steps
of the passing runs is proved, and so are the four refinements.

## 5. The plan

1. `ChampSelect`, continued: the ARAM bench (`core/aram.py`, `_monitor_aram`), roles without
   a champion, a champion name the grid does not know, and the composition with
   `AutomationCycle` in place of its coarse steps.
2. `UpdateWindow`, continued: two windows over one `Updater`, whose clean-up and staging meet.
3. The composition of `GuiProcess` with `UpdateWindow`, which defers an update while the
   automation runs.
4. Proofs: an allowance like that of `StartsAreBudgeted` for `NewestIsRefreshed`
   (how far a refresh with the newest configuration still has to go), and what remains true
   of the confirmed picks and bans when answers are lost.

## 6. What is not modelled, and why

Scraping, caching and formatting of champion data, image matching, widgets, themes and
log views, paths, version parsing and the build and release scripts transform
data sequentially or talk to the operating system; a model would repeat them.
Of the modelled parts, the honor vote, notifications, window placement, the ARAM
bench and the discovery of the LCU's lockfile are left out: none of them decides
where the automation goes next.

Of the stored files: the copy of an old configuration to its new place, made without a lock
(`core/champion_config.py` 110-139), and the champion list, which is written without
a transaction (`core/opgg_champion_list.py` 73-90) because each writer fetches all of it.
Of the external applications: finding, launching and terminating them, which is a
sequence of system calls.

Hazards that are real and that no property covers: a main loop that restarts at once
while a role has no champion; a champion name that the grid does not know; two windows that
clean up and stage at a time; a lobby requested when the phase could not be read, maybe
in the middle of a queue (`cli/entrypoint.py:1593`), where the client refuses it; a version
installed by hand that leaves an older update on offer (`core/auto_updater.py:748`).
The last two depend on software outside the repository.
