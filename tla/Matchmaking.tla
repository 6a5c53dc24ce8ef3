------------------------------ MODULE Matchmaking ------------------------------
(***************************************************************************)
(* MatchmakingController.run (cli/matchmaking.py): enter the queue, accept *)
(* the ready check, notice that the user has cancelled.  The entry loop    *)
(* and the watch loop share their steps; "stage" tells them apart.  The    *)
(* controller leaves to "select" (READY), "cycle" (RETRY) or "stopped"     *)
(* (STOP).  A window that is not visible, a sleep and a rejected request   *)
(* all lead back to "poll", the head of the current loop.                  *)
(***************************************************************************)
EXTENDS RuntimeState

VARIABLES
    stage,    \* "entry" (the entry loop) or "watch" (the watch loop)
    finding,  \* MatchmakingSearchTracker.finding_source: "none", "lcu" or "image"
    held      \* the phase decision the current poll or postgame round works with

searchVars == <<stage, finding, held>>

MatchmakingPCs == {"poll", "accept", "detect", "poll2", "accept2", "scan2",
                   "check", "start", "click", "confirm", "confirmAccept"}

MatchmakingTypeOK ==
    /\ stage \in {"entry", "watch"}
    /\ finding \in {"none", "lcu", "image"}
    /\ held \in Decisions \cup {NoDecision}

MatchmakingInit == stage = "entry" /\ finding = "none" /\ held = NoDecision

Goes(point)  == pc' = point /\ UNCHANGED stage
Exits(point) == pc' = point /\ stage' = "entry"   \* the controller's locals are gone

-----------------------------------------------------------------------------
(* MatchPollAttempt and MatchmakingSearchTracker.observe.                  *)

Attempt(isAccepted, isFinding, action, d) ==
    [accepted |-> isAccepted, finding |-> isFinding, action |-> action,
     phase |-> IF d \in Phases THEN d ELSE "unknown"]

\* The search ended well: the tracker forgets it.
SearchOver(t) ==
    \/ t.accepted
    \/ t.action = Act /\ t.phase \in {"ReadyCheck", "ChampSelect", "InProgress"}

SourceAfter(t, complete) ==
    CASE t.action = Act /\ t.phase = "Matchmaking" -> "lcu"
      [] t.action = Fallback /\ complete           -> "image"
      [] OTHER                                     -> finding

\* No search is to be seen: a lobby, or a whole screen without its marks.
SearchGone(t, complete) ==
    \/ t.action = Act /\ t.phase = "Lobby"
    \/ t.action = Fallback /\ complete /\ ~t.accepted /\ ~t.finding

NoGrace == pending # "none"

\* MATCHMAKING_START_CONFIRM_GRACE_SEC has passed over an unconfirmed start.
GraceOver == pending = "old"

CancelledOnlyIfSeen(t, complete) ==
    /\ ~SearchOver(t)
    /\ ~t.finding
    /\ SearchGone(t, complete)
    /\ finding # "none"

Cancelled(t, complete) ==
    /\ ~SearchOver(t)
    /\ ~t.finding
    /\ SearchGone(t, complete)
    /\ finding # "none" \/ GraceOver

Observe(t, complete) ==
    /\ finding' = CASE SearchOver(t)               -> "none"
                    [] ~SearchOver(t) /\ t.finding -> SourceAfter(t, complete)
                    [] OTHER                       -> finding
    /\ pending' = IF SearchOver(t) \/ (t.finding /\ SourceAfter(t, complete) # "none")
                  THEN "none"
                  ELSE pending

-----------------------------------------------------------------------------
(* poll_match_state: the phase read, the accept request, the image scan.   *)

DecidedByPhase == {"Matchmaking", "ChampSelect", "InProgress"}

PhaseAttempt(d) == Attempt(FALSE, d = "Matchmaking", LoopAction(d), d)

\* What an answered accept request makes of the poll.
AcceptAttempt(r) ==
    IF r = Act THEN Attempt(TRUE, TRUE, Act, "ReadyCheck")
               ELSE Attempt(FALSE, FALSE, r, "ReadyCheck")

\* The finding text and the accept button are searched for only when the phase,
\* or the accept request, failed for want of a connection.
ImagesAllowed == held \in {Fallback, "ReadyCheck"}

ModalScanned ==
    held # "Lobby" /\ shown \notin {"LOBBY", "MATCH_FINDING", "MATCH_ACCEPT_WAIT"}

ScanFindsNothing(t) ==
    /\ t = Attempt(FALSE, FALSE, LoopAction(held), held)
    /\ UNCHANGED clientVars
    /\ ShowsNothingNew

\* A modal closed over the LCU ends the poll as a readable, eventless one.
ScanClosesModal(t) ==
    /\ ModalScanned
    /\ link # "down"
    /\ t = Attempt(FALSE, FALSE, Act, held)
    /\ UNCHANGED clientVars
    /\ ShowsNothingNew

ScanFindsSearch(t) ==
    /\ ImagesAllowed
    /\ OnScreen("Matchmaking")
    /\ t = Attempt(FALSE, TRUE, Fallback, held)
    /\ UNCHANGED clientVars
    /\ Shows("MATCH_FINDING")

\* The accept button is clicked; the click may fail.
ScanFindsAccept(t) ==
    /\ ImagesAllowed
    /\ OnScreen("ReadyCheck")
    /\ Shows("MATCH_ACCEPT_WAIT")
    /\ \/ /\ t = Attempt(TRUE, TRUE, Fallback, held)
          /\ accepted' = TRUE
          /\ UNCHANGED <<phase, searchAsked, link, faults, seen, cache,
                         search>>
       \/ /\ t = Attempt(FALSE, TRUE, Fallback, held)
          /\ UNCHANGED clientVars

Scan(t) ==
    \/ ScanFindsNothing(t)
    \/ ScanClosesModal(t)
    \/ ScanFindsSearch(t)
    \/ ScanFindsAccept(t)

Attempts ==
    [accepted : BOOLEAN, finding : BOOLEAN, action : {Act, Wait, Fallback},
     phase : Phases \cup {"unknown"}]

-----------------------------------------------------------------------------
(* The controller's reaction to the poll without a window, and to the one  *)
(* with a window (image_observation_complete).                             *)

AfterPoll(t) ==
    /\ Observe(t, FALSE)
    /\ CASE Cancelled(t, FALSE)                      -> Exits("stopped")
         [] t.action = Wait                          -> Goes("poll")
         [] t.action = Act /\ t.phase = "ChampSelect" -> Exits("select")
         [] t.accepted                               -> Goes("confirm")
         [] t.finding /\ ~t.accepted                 -> pc' = "poll" /\ stage' = "watch"
         [] OTHER -> \/ Goes("poll")
                     \/ Goes(IF stage = "entry" THEN "detect" ELSE "poll2")

SelectOnAcceptAlone(t) ==
    /\ Observe(t, TRUE)
    /\ CASE Cancelled(t, TRUE)       -> Exits("stopped")
         [] t.action = Wait          -> Goes("poll")
         [] t.accepted               -> Exits("select")
         [] t.finding /\ ~t.accepted -> pc' = "poll" /\ stage' = "watch"
         [] OTHER                    -> Goes(IF stage = "entry" THEN "check" ELSE "detect")

AfterWindowPoll(t) ==
    /\ Observe(t, TRUE)
    /\ CASE Cancelled(t, TRUE)       -> Exits("stopped")
         [] t.action = Wait          -> Goes("poll")
         [] t.accepted /\ t.action = Act      -> Goes("confirm")
         [] t.accepted /\ t.action = Fallback -> Exits("select")
         [] t.finding /\ ~t.accepted -> pc' = "poll" /\ stage' = "watch"
         [] OTHER                    -> Goes(IF stage = "entry" THEN "check" ELSE "detect")

RunForgetsRequest(d) ==
    /\ pc' = "poll"
    /\ stage' = "entry"
    /\ finding' = IF d = "Matchmaking" THEN "lcu" ELSE "none"
    /\ pending' = "none"

\* MatchmakingController.run is entered: the tracker starts from the phase the
\* cycle has read, or from a start request that is still unconfirmed.
RunBegins(d) ==
    /\ pc' = "poll"
    /\ stage' = "entry"
    /\ finding' = IF d = "Matchmaking" THEN "lcu" ELSE "none"
    /\ pending' = IF d = "Matchmaking" THEN "none" ELSE pending

-----------------------------------------------------------------------------
(* The steps.                                                              *)

Poll ==
    /\ pc = "poll"
    /\ \E d \in Decisions :
          /\ PollPhase(d)
          /\ IF d = "ReadyCheck"
             THEN Goes("accept") /\ UNCHANGED <<finding, pending>>
             ELSE AfterPoll(PhaseAttempt(d))
    /\ UNCHANGED <<held, prefVars>>

\* An unanswered accept leaves a poll without a window readable but eventless.
Accept ==
    /\ pc = "accept"
    /\ \E r \in {Act, Wait, Fallback} :
          /\ AcceptReadyCheck(r)
          /\ AfterPoll(IF r = Fallback THEN Attempt(FALSE, FALSE, Act, "ReadyCheck")
                                       ELSE AcceptAttempt(r))
    /\ UNCHANGED <<held, shown, timer, prefVars>>

WindowPoll ==
    /\ pc = "poll2"
    /\ \E d \in Decisions :
          /\ PollPhase(d)
          /\ \/ /\ d \in DecidedByPhase
                /\ AfterWindowPoll(PhaseAttempt(d))
                /\ UNCHANGED held
             \/ /\ d \notin DecidedByPhase
                /\ held' = d
                /\ Goes(IF d = "ReadyCheck" THEN "accept2" ELSE "scan2")
                /\ UNCHANGED <<finding, pending>>
    /\ UNCHANGED prefVars

WindowAccept ==
    /\ pc = "accept2"
    /\ \E r \in {Act, Wait, Fallback} :
          /\ AcceptReadyCheck(r)
          /\ \/ /\ r = Fallback
                /\ Goes("scan2")
                /\ UNCHANGED <<finding, pending, held>>
             \/ /\ r # Fallback
                /\ AfterWindowPoll(AcceptAttempt(r))
                /\ held' = NoDecision
    /\ UNCHANGED <<shown, timer, prefVars>>

WindowScan ==
    /\ pc = "scan2"
    /\ \E t \in Attempts : Scan(t) /\ AfterWindowPoll(t)
    /\ held' = NoDecision
    /\ UNCHANGED prefVars

\* detect_champion_select: the phase decides, the prepick and role images only
\* when there is no connection.
DetectsSelect(found) ==
    \/ \E d \in Decisions : PollPhase(d) /\ found = (d = "ChampSelect")
    \/ /\ Reads(Fallback)
       /\ OnScreen("ChampSelect")
       /\ Shows("PREPICK")
       /\ found = TRUE

DetectWithoutHold ==
    /\ pc = "detect"
    /\ \/ DetectsSelect(TRUE) /\ Exits("select")
       \/ DetectsSelect(FALSE) /\ Goes(IF stage = "entry" THEN "poll2" ELSE "check")
    /\ UNCHANGED <<finding, held, pending, prefVars>>

\* The entry loop goes on to the poll with a window; the watch loop requests the
\* search again, unless its last request may still be on its way.
Detect ==
    /\ pc = "detect"
    /\ \/ DetectsSelect(TRUE) /\ Exits("select")
       \/ /\ DetectsSelect(FALSE)
          /\ Goes(CASE stage = "entry"                     -> "poll2"
                    [] stage = "watch" /\ pending # "none" -> "poll"
                    [] OTHER                               -> "check")
    /\ UNCHANGED <<finding, held, pending, prefVars>>

CheckStart ==
    /\ pc = "check"
    /\ \E d \in Decisions :
          PollPhase(d) /\ Goes(IF BlocksStart(d, FALSE) THEN "poll" ELSE "start")
    /\ UNCHANGED <<finding, held, pending, prefVars>>

\* mark_start_requested and _reset_match_timer_by_find_match_click.
SearchRequested ==
    /\ pending' = "fresh"
    /\ finding' = "none"
    /\ shown' = "MATCH_FINDING"
    /\ timer' = TRUE
    /\ pc' = "poll"
    /\ stage' = "watch"

Start ==
    /\ pc = "start"
    /\ \E r \in {Act, Wait, Fallback} :
          /\ StartSearchRequest(r)
          /\ \/ r = Act /\ SearchRequested
             \/ /\ r # Act
                /\ Goes(IF r = Wait THEN "poll" ELSE "click")
                /\ UNCHANGED <<finding, pending, shown, timer>>
    /\ UNCHANGED <<held, prefVars>>

\* The image of the find-match button; it is there as long as the lobby is.
Click ==
    /\ pc = "click"
    /\ \/ /\ OnScreen("Lobby")
          /\ searchAsked' = TRUE
          /\ UNCHANGED <<phase, accepted, link, faults, seen, cache,
                         search>>
          /\ SearchRequested
       \/ /\ Goes("poll")
          /\ UNCHANGED <<clientVars, finding, pending, shown, timer>>
    /\ UNCHANGED <<held, prefVars>>

\* _wait_for_champ_select_after_match_accept: Matchmaking, None, an unreadable
\* phase and the ready check itself are waited out until the deadline.
Confirm ==
    /\ pc = "confirm"
    /\ \E d \in Decisions :
          /\ PollPhase(d)
          /\ \/ d = "ChampSelect" /\ Exits("select")
             \/ d = "ReadyCheck" /\ Goes("confirmAccept")
             \/ d \in {"Matchmaking", "None", Wait} /\ (Goes("confirm") \/ Exits("cycle"))
             \/ /\ d \notin {"ChampSelect", "ReadyCheck", "Matchmaking", "None", Wait}
                /\ Exits("cycle")
    /\ UNCHANGED <<finding, held, pending, prefVars>>

ConfirmAccept ==
    /\ pc = "confirmAccept"
    /\ \E r \in {Act, Wait, Fallback} :
          /\ AcceptReadyCheck(r)
          /\ \/ r # Fallback /\ Goes("confirm")
             \/ Exits("cycle")
    /\ UNCHANGED <<finding, held, pending, shown, timer, prefVars>>

MatchmakingStep ==
    \/ Poll \/ Accept \/ WindowPoll \/ WindowAccept \/ WindowScan
    \/ Detect \/ CheckStart \/ Start \/ Click \/ Confirm \/ ConfirmAccept

=============================================================================
