----------------------------- MODULE RuntimeState -----------------------------
(***************************************************************************)
(* What one automation run remembers (cli/runtime_state.RuntimeState): the *)
(* client state shown to the user, the match timer that hangs on it, and   *)
(* the time of an unconfirmed start request; with the live continue-after- *)
(* game preference the GUI may flip at any moment and the point the        *)
(* program's single thread has reached.                                    *)
(***************************************************************************)
EXTENDS LeagueClient

VARIABLES
    pc,        \* where the main thread is; "stopped" when cli_main returned
    shown,     \* RuntimeState.client_state
    timer,     \* match_started_at_mono is set
    pending,   \* matchmaking_start_pending_at: "none", "fresh" or "old" (past the grace)
    continue   \* the saved continue-after-game preference

runtimeVars == <<shown, timer, pending>>
prefVars    == <<continue>>

ClientStates == {"UNKNOWN", "LOBBY", "MATCH_FINDING", "MATCH_ACCEPT_WAIT", "PREPICK",
                 "BANPICK", "PICK", "WAIT_GAME_START", "INGAME", "POSTGAME_SCORE"}

RuntimeTypeOK ==
    /\ shown \in ClientStates
    /\ timer \in BOOLEAN
    /\ pending \in {"none", "fresh", "old"}
    /\ continue \in BOOLEAN

RuntimeInit ==
    /\ shown = "UNKNOWN"
    /\ timer = FALSE
    /\ pending = "none"
    /\ continue \in BOOLEAN

-----------------------------------------------------------------------------
(* _set_client_state with its timing hook: entering MATCH_FINDING starts   *)
(* the timer unless it runs, LOBBY and UNKNOWN drop it, INGAME records the *)
(* duration and clears it, every other state leaves it alone.              *)

TimerThroughTheGame(running, value) ==
    CASE value = "MATCH_FINDING"       -> TRUE
      [] value \in {"LOBBY", "UNKNOWN"} -> FALSE
      [] OTHER                         -> running

TimerAfter(running, value) ==
    CASE value = "MATCH_FINDING"                 -> TRUE
      [] value \in {"LOBBY", "UNKNOWN", "INGAME"} -> FALSE
      [] OTHER                                   -> running

Shows(value) ==
    /\ shown' = value
    /\ timer' = IF shown = value THEN timer ELSE TimerAfter(timer, value)

ShowsNothingNew == UNCHANGED <<shown, timer>>

PhaseAsState(d) == d

\* client_state_from_lcu_phase; None and the failures map to no state.
StateOf(d) ==
    CASE d = "Lobby"             -> "LOBBY"
      [] d = "Matchmaking"       -> "MATCH_FINDING"
      [] d = "ReadyCheck"        -> "MATCH_ACCEPT_WAIT"
      [] d = "ChampSelect"       -> "PREPICK"
      [] d = "InProgress"        -> "INGAME"
      [] d \in PostgamePhases    -> "POSTGAME_SCORE"

PreservesSelect(d) ==
    d = "ChampSelect" /\ shown \in {"BANPICK", "PICK", "WAIT_GAME_START"}

\* _poll_lcu_phase_attempt: read the phase and let a readable one update the
\* shown state.
PollPhase(d) ==
    /\ Reads(d)
    /\ IF d \in Phases \ {"None"} /\ ~PreservesSelect(d)
       THEN Shows(StateOf(d))
       ELSE ShowsNothingNew

-----------------------------------------------------------------------------
(* _accept_ready_check_lcu_attempt.  Within 0.8 s of an accept a further    *)
(* one counts as completed without a request: the same ready check, already *)
(* accepted, for a new one takes longer to come.                            *)

AcceptAlwaysRecent(r) == r = Act /\ UNCHANGED clientVars

AcceptReadyCheck(r) ==
    \/ AcceptRequest(r)
    \/ accepted /\ r = Act /\ UNCHANGED clientVars

(* _phase_blocks_matchmaking_start and _matchmaking_start_blocked_by_lcu_  *)
(* phase: only a lobby, or a phase nobody can read, lets a start through.  *)

BlocksStart(d, allowNone) ==
    \/ d = Wait
    \/ d \in Phases \ {"Lobby"} /\ ~(allowNone /\ d = "None")

\* _start_matchmaking_lcu_attempt after the phase check passed.
RequestStart(r) ==
    /\ StartSearchRequest(r)
    /\ pending' = IF r = Act THEN "fresh" ELSE pending

-----------------------------------------------------------------------------
(* What the screen shows, for the image fallback.  A template may be       *)
(* missed; it is never seen where it is not.                               *)

GameRuns    == phase = "InProgress"
OnScreen(p) == phase = p

(* Time passing and the user at the GUI.                                   *)

\* MATCHMAKING_START_CONFIRM_GRACE_SEC: one second, longer than the client takes
\* to reflect an accepted start and than any cached phase lives.
GraceElapses ==
    /\ pending = "fresh"
    /\ cache = NoDecision
    /\ ~searchAsked
    /\ pending' = "old"
    /\ UNCHANGED <<clientVars, pc, shown, timer, prefVars>>

UserTogglesContinue ==
    /\ continue' = ~continue
    /\ UNCHANGED <<clientVars, pc, runtimeVars>>

ClientStep == ClientNext /\ UNCHANGED <<pc, runtimeVars, continue>>

World == pc # "stopped" /\ (ClientStep \/ GraceElapses \/ UserTogglesContinue)

=============================================================================
