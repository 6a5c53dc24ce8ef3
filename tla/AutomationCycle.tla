---------------------------- MODULE AutomationCycle ----------------------------
(***************************************************************************)
(* The main loop of cli_main (cli/entrypoint.py): read the phase, resume a *)
(* game or a score board, or run the matchmaking controller, the champion  *)
(* selection and the wait for the game.  Composes the queue and postgame   *)
(* controllers with the client and the user who act at the same time.      *)
(***************************************************************************)
EXTENDS Postgame

VARIABLE cycleCount   \* main-loop rounds begun, counted up to 2

vars == <<clientVars, pc, runtimeVars, prefVars, searchVars, postVars, cycleCount>>

CyclePCs == {"cycle", "resume", "begin", "select", "stopped"}

TypeOK ==
    /\ ClientTypeOK
    /\ RuntimeTypeOK
    /\ MatchmakingTypeOK
    /\ PostgameTypeOK
    /\ pc \in CyclePCs \cup MatchmakingPCs \cup PostgamePCs
    /\ cycleCount \in 0 .. 2

Init ==
    /\ ClientInit(Phases)
    /\ RuntimeInit
    /\ MatchmakingInit
    /\ PostgameInit
    /\ pc = "cycle"
    /\ cycleCount = 0

-----------------------------------------------------------------------------
cycleKept == <<stage, searchKept, prefVars>>

\* The head of the loop: where this round goes is decided by one phase read.
CycleBegins ==
    /\ pc = "cycle"
    /\ \/ PollPhase(Wait) /\ pc' = "cycle" /\ UNCHANGED <<held, cycleCount>>
       \/ \E d \in Decisions \ {Wait} :
             /\ PollPhase(d)
             /\ cycleCount' = IF cycleCount < 2 THEN cycleCount + 1 ELSE 2
             /\ \/ /\ d = "InProgress" \/ (d = Fallback /\ GameRuns)
                   /\ pc' = "monitor"
                   /\ UNCHANGED held
                \/ /\ d # "InProgress"
                   /\ pc' = IF d \in PostgamePhases THEN "resume" ELSE "begin"
                   /\ held' = d
    /\ UNCHANGED <<cycleKept, postVars>>

\* _should_force_first_cycle_postgame: a start with the score board on the
\* screen goes on once, even in one-game mode.
ForcesFirstCycle == cycleCount = 1 /\ ~continue

\* PostgameController.resume on a score board.
CycleResumes ==
    /\ pc = "resume"
    /\ held' = NoDecision
    /\ \/ /\ ForcesFirstCycle \/ continue
          /\ Shows("POSTGAME_SCORE")
          /\ ProcessBegins(ForcesFirstCycle)
       \/ /\ ~ForcesFirstCycle /\ ~continue
          /\ ShowsNothingNew
          /\ pc' = "stopped"
          /\ UNCHANGED postVars
    /\ UNCHANGED <<cycleKept, clientVars, cycleCount>>

\* A popup over the lobby, closed by its image, starts the round again.
CycleClosesPopup ==
    /\ pc = "begin"
    /\ held = "Lobby"
    /\ pc' = "cycle"
    /\ held' = NoDecision
    /\ UNCHANGED <<cycleKept, shown, timer, clientVars, postVars, cycleCount>>

\* On the home screen, or with a phase nobody can read, a lobby is requested
\* first, at most every ten seconds; then the matchmaking controller runs.
CycleRunsMatchmaking ==
    /\ pc = "begin"
    /\ \/ UNCHANGED clientVars
       \/ /\ held \in {"None", Fallback}
          /\ \E r \in {Act, Wait, Fallback} : MoveRequest("None", "Lobby", r)
    /\ Shows("LOBBY")
    /\ RunBegins(held)
    /\ held' = NoDecision
    /\ UNCHANGED <<prefVars, postVars, cycleCount>>

(* The champion selection between READY and the wait for the game, as far  *)
(* as this loop is concerned: it reads phases, leaves for the outer loop   *)
(* when champion select is over (or its session was replaced), and ends in *)
(* the wait for the game.                                                  *)

SelectGoesOn ==
    /\ pc = "select"
    /\ \E d \in {"ChampSelect", Wait, Fallback} : Reads(d)
    /\ \E v \in {"PREPICK", "BANPICK", "PICK"} : Shows(v)
    /\ pc' = "select"
    /\ UNCHANGED <<cycleKept, held, postVars, cycleCount>>

SelectLeaves ==
    /\ pc = "select"
    /\ \/ \E d \in Decisions : PollPhase(d) /\ pc' \in {"cycle", "waitStart"}
       \/ Reads("ChampSelect") /\ Shows("UNKNOWN") /\ pc' = "cycle"
    /\ UNCHANGED <<cycleKept, held, postVars, cycleCount>>

CycleStep ==
    \/ CycleBegins \/ CycleResumes \/ CycleClosesPopup \/ CycleRunsMatchmaking
    \/ SelectGoesOn \/ SelectLeaves

Program ==
    \/ CycleStep
    \/ MatchmakingStep /\ UNCHANGED <<postVars, cycleCount>>
    \/ PostgameStep /\ UNCHANGED cycleCount

Surroundings == World /\ UNCHANGED <<searchVars, postVars, cycleCount>>

Next == Program \/ Surroundings

Spec == Init /\ [][Next]_vars

\* The main thread keeps running; time passes; a popup does not come back for ever.
Fairness ==
    /\ WF_vars(Program)
    /\ SF_vars(CycleRunsMatchmaking)
    /\ WF_vars(Surroundings /\ CacheExpires)
    /\ SF_vars(Surroundings /\ GraceElapses)

FairSpec == Spec /\ Fairness

-----------------------------------------------------------------------------
(* Properties.                                                             *)

\* A start request of the automation's own: over the LCU, or with the button.
OwnStart ==
    \/ pc \in {"start", "click"} /\ pc' = "poll" /\ pending' = "fresh" /\ stage' = "watch"
    \/ pc \in {"postStart", "postClick"} /\ pc' = "cycle"

HealthyLink == faults = 0

\* Over a healthy link the controller ends the run for a manual cancellation only
\* if the search it knew of, or had asked for, really ended in the lobby, unless the
\* client has moved on since the phase was read
\* (MatchmakingSearchTracker.observe; the grace after a start request).
StopsOnlyForAnEndedSearch ==
    [][(pc \in MatchmakingPCs /\ pc' = "stopped")
            => (search \in {"cancelled", "lost"} \/ ~seen' \/ ~HealthyLink)]_vars

\* A start request the client has not reflected yet is still remembered, also by
\* the controller run that starts after postgame has sent it.
RequestIsRemembered == HealthyLink /\ searchAsked => pending = "fresh"

\* The champion selection is entered on a champion select the client has confirmed,
\* not on an accepted ready check alone (confirm_champ_select_after_lcu_accept).
SelectIsConfirmed ==
    [][pc # "select" /\ pc' = "select" => cache' = "ChampSelect" \/ ~HealthyLink]_vars

\* No match timer runs over a score board: a recorded duration never spans a game
\* (_on_client_state_changed_for_timing).
TimerStopsWithTheGame == HealthyLink /\ phase \in PostgamePhases => ~timer

\* While it watches a search the controller never asks for a second one that could
\* still be under way (the start_pending hold of the watch loop).
WatchDoesNotRepeatStart ==
    [][(OwnStart /\ stage = "watch" /\ HealthyLink) => ~searchAsked]_vars

\* README: cancelling the search by hand in the lobby ends the run, which does not
\* queue again.  When the controller gives up the watch over an own search the user
\* has cancelled, it must be for good.
CancelEndsTheRun ==
    [][(stage = "watch" /\ stage' = "entry" /\ search = "cancelled")
            => pc' = "stopped"]_vars

\* The decisions at game boundaries keep the abstract promise, also over a bad link.
ModeOf(point) ==
    CASE point \in {"monitor", "monitorAccept"}      -> "game"
      [] point \in PostgamePCs \ {"waitStart", "waitGame", "waitAccept",
                                  "monitor", "monitorAccept"} -> "board"
      [] point = "stopped"                           -> "over"
      [] OTHER                                       -> "queue"

Promise == INSTANCE OneGamePromise WITH mode <- ModeOf(pc), willing <- continue,
                                        once <- forced
KeepsPromise == Promise!Spec

\* A ready check that stays open is accepted, wherever the automation is.
ReadyCheckIsAccepted ==
    (phase = "ReadyCheck" /\ ~accepted /\ pc # "stopped")
        ~> (accepted \/ phase # "ReadyCheck" \/ link # "ok" \/ pc = "stopped")

\* A watched search that is gone for good, whether it had been read or only been
\* asked for, ends the run.
CancelIsNoticed ==
    (/\ pc \in MatchmakingPCs
     /\ stage = "watch"
     /\ finding = "lcu" \/ pending # "none"
     /\ phase = "Lobby"
     /\ ~searchAsked)
        ~> (pc = "stopped" \/ phase # "Lobby" \/ searchAsked \/ link # "ok")

\* In one-game mode the run ends once the watched game is over.
OneGameEndsTheRun ==
    (pc = "monitor" /\ phase # "InProgress" /\ ~continue)
        ~> (pc = "stopped" \/ continue \/ phase = "InProgress" \/ link # "ok")

=============================================================================
