------------------------------- MODULE Postgame -------------------------------
(***************************************************************************)
(* The far side of champion select: waiting for the game to start,         *)
(* watching it, and the loop that goes from the score board back to the    *)
(* queue (_wait_for_game_start_and_monitor, monitor_ingame_and_postgame    *)
(* and process_postgame in cli/entrypoint.py, PostgameController in        *)
(* cli/postgame.py).  They return to "cycle" (True or None) or end the run *)
(* in "stopped" (False).                                                   *)
(***************************************************************************)
EXTENDS Matchmaking

VARIABLES
    forced,     \* process_postgame got the value True instead of the live preference
    playAgain,  \* "untried", "failed" (play_again_attempted) or "done" (..._completed_at)
    dismissed,  \* end_stats_dismissed
    via         \* which branch is asking for the start: "lobby", "none" or "screen"

postVars == <<forced, playAgain, dismissed, via>>

PostgamePCs == {"waitStart", "waitGame", "waitAccept", "monitor", "monitorAccept",
                "post", "postAccept", "postPlayAgain", "postDismiss", "postDetect",
                "postEndClick", "postPoll", "postPollAccept", "postScan",
                "postCheck", "postStart", "postClick"}

PostgameTypeOK ==
    /\ forced \in BOOLEAN
    /\ playAgain \in {"untried", "failed", "done"}
    /\ dismissed \in BOOLEAN
    /\ via \in {"lobby", "none", "screen"}

PostgameInit ==
    /\ forced = FALSE
    /\ playAgain = "untried"
    /\ dismissed = FALSE
    /\ via = "screen"

\* should_continue_after_game on what process_postgame was given.
Continues == forced \/ continue

flagVars == <<forced, playAgain, dismissed>>

GoesOn(point) == pc' = point /\ UNCHANGED stage

\* sleep, or fall through to the end of the loop body: the next round.
RoundEnds == GoesOn("post") /\ held' = NoDecision /\ via' = "screen"

Stays(point) == GoesOn(point) /\ UNCHANGED <<held, via>>

\* process_postgame returns and its locals are gone.
Returns(point) ==
    /\ GoesOn(point)
    /\ held' = NoDecision
    /\ forced' = FALSE
    /\ playAgain' = "untried"
    /\ dismissed' = FALSE
    /\ via' = "screen"
ReturnsTrue  == Returns("cycle")
ReturnsFalse == Returns("stopped")

searchKept == <<finding, pending>>

-----------------------------------------------------------------------------
(* _wait_for_game_start_and_monitor.  Postgame phases and None are waited  *)
(* out like champion select itself.                                        *)

WaitBegins ==
    /\ pc = "waitStart"
    /\ Shows("WAIT_GAME_START")
    /\ GoesOn("waitGame")
    /\ UNCHANGED <<clientVars, searchKept, held, prefVars, postVars>>

WaitForGame ==
    /\ pc = "waitGame"
    /\ \/ \E d \in Decisions :
             /\ PollPhase(d)
             /\ GoesOn(CASE d = "InProgress"             -> "monitor"
                         [] d \in {"Lobby", "Matchmaking"} -> "cycle"
                         [] d = "ReadyCheck"             -> "waitAccept"
                         [] OTHER                        -> "waitGame")
       \/ /\ Reads(Fallback)
          /\ \/ GameRuns /\ Shows("INGAME") /\ GoesOn("monitor")
             \/ OnScreen("Lobby") /\ Shows("LOBBY") /\ GoesOn("cycle")
    /\ UNCHANGED <<searchKept, held, prefVars, postVars>>

WaitAccept ==
    /\ pc = "waitAccept"
    /\ \E r \in {Act, Wait, Fallback} : AcceptReadyCheck(r)
    /\ GoesOn("cycle")
    /\ UNCHANGED <<searchKept, held, shown, timer, prefVars, postVars>>

-----------------------------------------------------------------------------
(* monitor_ingame_and_postgame.                                            *)

\* process_postgame is entered with its local flags fresh.
ProcessBegins(given) ==
    /\ pc' = "post"
    /\ forced' = given
    /\ playAgain' = "untried"
    /\ dismissed' = FALSE
    /\ UNCHANGED via

GameOverUnnoticed(d) == PollPhase(d) /\ pc' = "monitor" /\ UNCHANGED postVars

\* The game is over: one-game mode ends the run here.
GameIsOver(d) ==
    \/ ~continue /\ PollPhase(d) /\ pc' = "stopped" /\ UNCHANGED postVars
    \/ continue /\ Reads(d) /\ Shows("POSTGAME_SCORE") /\ ProcessBegins(FALSE)

BackWhateverTheSetting == pc' = "cycle" /\ UNCHANGED postVars

BackInQueue == pc' = (IF continue THEN "cycle" ELSE "stopped") /\ UNCHANGED postVars

StillPlaying == pc' = "monitor" /\ UNCHANGED postVars

Monitor ==
    /\ pc = "monitor"
    /\ \/ \E d \in {"InProgress", Wait} : PollPhase(d) /\ StillPlaying
       \/ Reads(Fallback) /\ GameRuns /\ Shows("INGAME") /\ StillPlaying
       \/ \E d \in {"Lobby", "Matchmaking", "ChampSelect"} : PollPhase(d) /\ BackInQueue
       \/ PollPhase("ReadyCheck") /\ pc' = "monitorAccept" /\ UNCHANGED postVars
       \/ \E d \in PostgamePhases \cup {"None", Fallback} : GameIsOver(d)
    /\ UNCHANGED <<stage, searchKept, held, prefVars>>

MonitorAccept ==
    /\ pc = "monitorAccept"
    /\ \E r \in {Act, Wait, Fallback} : AcceptReadyCheck(r)
    /\ BackInQueue
    /\ UNCHANGED <<stage, searchKept, held, shown, timer, prefVars>>

-----------------------------------------------------------------------------
(* process_postgame: one round of its loop starts at "post".               *)

\* The branch the phase selects.
Branch(d) ==
    CASE d = Wait                                         -> "post"
      [] d \in {"Matchmaking", "ChampSelect", "InProgress"} -> "cycle"
      [] d = "Lobby"                                      -> "postCheck"
      [] d = "ReadyCheck"                                 -> "postAccept"
      [] d = "None" /\ playAgain # "done" /\ dismissed    ->
             IF playAgain = "untried" THEN "postPlayAgain" ELSE "postCheck"
      [] d = "None" /\ (playAgain = "done" \/ ~dismissed) -> "post"
      [] d = "PreEndOfGame"                               -> "post"
      [] d = "EndOfGame" /\ playAgain = "untried"         -> "postPlayAgain"
      [] d = "EndOfGame" /\ playAgain # "untried" /\ ~dismissed -> "postDismiss"
      [] OTHER                                            -> "postDetect"

PostRound ==
    /\ pc = "post"
    /\ \/ ~Continues /\ ReturnsFalse /\ UNCHANGED <<clientVars, shown, timer>>
       \/ /\ Continues
          /\ \E d \in Decisions :
                /\ PollPhase(d)
                /\ CASE Branch(d) = "post"  -> RoundEnds /\ UNCHANGED flagVars
                     [] Branch(d) = "cycle" -> ReturnsTrue
                     [] OTHER -> /\ GoesOn(Branch(d))
                                 /\ held' = d
                                 /\ via' = CASE d = "Lobby" -> "lobby"
                                             [] d = "None"  -> "none"
                                             [] OTHER       -> "screen"
                                 /\ UNCHANGED flagVars
    /\ UNCHANGED <<searchKept, prefVars>>

PostAccept ==
    /\ pc = "postAccept"
    /\ \E r \in {Act, Wait, Fallback} : AcceptReadyCheck(r)
    /\ ReturnsTrue
    /\ UNCHANGED <<searchKept, shown, timer, prefVars>>

\* A rejected or unsupported play-again is treated like one without an answer:
\* it is never tried a second time over this score board.
PostPlayAgain ==
    /\ pc = "postPlayAgain"
    /\ \E r \in {Act, Wait, Fallback} :
          /\ MoveRequest("EndOfGame", "Lobby", r)
          /\ playAgain' = IF r = Act THEN "done" ELSE "failed"
          /\ CASE r = Act                       -> RoundEnds
               [] r # Act /\ held = "None"      -> Stays("postCheck")
               [] r # Act /\ held # "None"      -> Stays(IF dismissed THEN "postDetect"
                                                         ELSE "postDismiss")
    /\ UNCHANGED <<searchKept, runtimeVars, prefVars, forced, dismissed>>

PostDismiss ==
    /\ pc = "postDismiss"
    /\ \E r \in {Act, Wait, Fallback} :
          /\ MoveRequest("EndOfGame", "None", r)
          /\ dismissed' = (r = Act)
          /\ \/ r \in {Act, Wait} /\ RoundEnds
             \/ r \in {Wait, Fallback} /\ Stays("postDetect")
    /\ UNCHANGED <<searchKept, runtimeVars, prefVars, forced, playAgain>>

\* The preference is read again before each of the following steps.
GivesUp(point) ==
    /\ pc = point
    /\ ~Continues
    /\ ReturnsFalse
    /\ UNCHANGED <<clientVars, searchKept, runtimeVars, prefVars>>

PostDetect ==
    /\ pc = "postDetect"
    /\ Continues
    /\ \/ RoundEnds /\ UNCHANGED <<clientVars, shown, timer, flagVars>>
       \/ DetectsSelect(TRUE) /\ ReturnsTrue
       \/ DetectsSelect(FALSE) /\ Stays("postEndClick") /\ UNCHANGED flagVars
    /\ UNCHANGED <<searchKept, prefVars>>

\* The end buttons lead from one score board to the next, and to the lobby.
PostEndClick ==
    /\ pc = "postEndClick"
    /\ Continues
    /\ Stays("postPoll")
    /\ \/ UNCHANGED clientVars
       \/ /\ held \in PostgamePhases \cup {Fallback}
          /\ \/ phase = "PreEndOfGame" /\ MovesTo("EndOfGame")
             \/ phase = "EndOfGame" /\ MovesTo("Lobby")
          /\ UNCHANGED <<searchAsked, search>>
    /\ UNCHANGED <<searchKept, runtimeVars, prefVars, flagVars>>

\* The poll only paces the loop here: unless the phase has to be waited for, the
\* start request is tried whatever it saw.
AfterPostPoll(t) ==
    IF t.action = Wait
    THEN RoundEnds
    ELSE GoesOn("postCheck") /\ via' = "screen" /\ held' = NoDecision

PostPoll ==
    /\ pc = "postPoll"
    /\ Continues
    /\ \E d \in Decisions :
          /\ PollPhase(d)
          /\ \/ d \in DecidedByPhase /\ AfterPostPoll(PhaseAttempt(d))
             \/ /\ d \notin DecidedByPhase
                /\ GoesOn(IF d = "ReadyCheck" THEN "postPollAccept" ELSE "postScan")
                /\ held' = d
                /\ UNCHANGED via
    /\ UNCHANGED <<searchKept, prefVars, flagVars>>

PostPollAccept ==
    /\ pc = "postPollAccept"
    /\ \E r \in {Act, Wait, Fallback} :
          /\ AcceptReadyCheck(r)
          /\ IF r = Fallback THEN Stays("postScan") ELSE AfterPostPoll(AcceptAttempt(r))
    /\ UNCHANGED <<searchKept, shown, timer, prefVars, flagVars>>

PostScan ==
    /\ pc = "postScan"
    /\ \E t \in Attempts : Scan(t) /\ AfterPostPoll(t)
    /\ UNCHANGED <<searchKept, prefVars, flagVars>>

PostCheckStart ==
    /\ pc = "postCheck"
    /\ via = "screen" => Continues
    /\ \E d \in Decisions :
          /\ PollPhase(d)
          /\ IF BlocksStart(d, via = "none") THEN RoundEnds ELSE Stays("postStart")
    /\ UNCHANGED <<searchKept, prefVars, flagVars>>

PostStart ==
    /\ pc = "postStart"
    /\ \E r \in {Act, Wait, Fallback} :
          /\ RequestStart(r)
          /\ CASE r = Act -> ReturnsTrue
               [] r = Fallback /\ via = "screen" -> Stays("postClick") /\ UNCHANGED flagVars
               [] r = Fallback /\ via = "lobby" /\ playAgain # "done" ->
                      Stays("postDetect") /\ UNCHANGED flagVars
               [] OTHER -> RoundEnds /\ UNCHANGED flagVars
    /\ UNCHANGED <<finding, shown, timer, prefVars>>

PostClick ==
    /\ pc = "postClick"
    /\ Continues
    /\ \/ /\ OnScreen("Lobby")
          /\ searchAsked' = TRUE
          /\ UNCHANGED <<phase, accepted, link, faults, seen, cache,
                         search>>
          /\ pending' = "fresh"
          /\ ReturnsTrue
       \/ RoundEnds /\ UNCHANGED <<clientVars, pending, flagVars>>
    /\ UNCHANGED <<finding, shown, timer, prefVars>>

PostGivesUp ==
    \/ \E point \in {"postDetect", "postEndClick", "postPoll", "postClick"} :
          GivesUp(point)
    \/ via = "screen" /\ GivesUp("postCheck")

PostgameStep ==
    \/ WaitBegins \/ WaitForGame \/ WaitAccept \/ Monitor \/ MonitorAccept
    \/ PostRound \/ PostAccept \/ PostPlayAgain \/ PostDismiss \/ PostDetect
    \/ PostEndClick \/ PostPoll \/ PostPollAccept \/ PostScan
    \/ PostCheckStart \/ PostStart \/ PostClick \/ PostGivesUp

=============================================================================
