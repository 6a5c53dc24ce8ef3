--------------------------- MODULE HealthyLink_proofs ---------------------------
(***************************************************************************)
(* Theorems: over a healthy link the champion selection is entered only on *)
(* a champion select that the client has confirmed, no match timer runs    *)
(* over a score board, the watch loop does not ask twice for a search, and *)
(* no run ends for a search that is still on.  They rest on RequestInv,    *)
(* for the image fallback is what they do not hold for.  The last theorem, *)
(* on the search that the user cancels, is about any link.                 *)
(***************************************************************************)
EXTENDS StartRequest_proofs

USE DEF Goes, Exits, GoesOn, Stays, RoundEnds, Returns, ReturnsTrue, ReturnsFalse,
        cycleKept, searchKept, prefVars, postVars, flagVars, runtimeVars

-----------------------------------------------------------------------------
(* The ways into the champion selection.                                   *)

LEMMA HealthyReads ==
    ASSUME ClientTypeOK, NoFallback, NEW d, Reads(d)
    PROVE  d \in Phases /\ cache' = d
BY DEF Reads, Answer, NoFallback, ClientTypeOK, clientVars

LEMMA QueueEntersConfirmed ==
    ASSUME ClientTypeOK, NoFallback, MatchmakingStep, pc' = "select"
    PROVE  cache' = "ChampSelect"
<1> USE DEF MatchmakingStep
<1>1. CASE Poll
  <2>1. PICK d \in Decisions : Reads(d) /\ AfterPoll(PhaseAttempt(d))
    BY <1>1, PollKeeps DEF Poll
  <2>2. PhaseAttempt(d).phase = "ChampSelect"
    BY <2>1 DEF AfterPoll, PhaseAttempt, Attempt
  <2> QED BY <2>1, <2>2, HealthyReads DEF PhaseAttempt, Attempt
<1>2. CASE Accept
  BY <1>2 DEF Accept, AfterPoll, AcceptAttempt, Attempt
<1>3. CASE WindowPoll
  <2>1. PICK d \in Decisions : AfterWindowPoll(PhaseAttempt(d))
    BY <1>3 DEF WindowPoll
  <2> QED BY <2>1 DEF AfterWindowPoll, PhaseAttempt, Attempt
<1>4. CASE WindowAccept
  <2>1. PICK r : r # Fallback /\ AfterWindowPoll(AcceptAttempt(r))
    BY <1>4 DEF WindowAccept
  <2> QED BY <2>1 DEF AfterWindowPoll, AcceptAttempt, Attempt, Act, Fallback
<1>5. CASE WindowScan
  <2>1. PICK t : Scan(t) /\ AfterWindowPoll(t)
    BY <1>5 DEF WindowScan
  <2>2. ~t.accepted
    BY <1>5, <2>1, ScanSeesNoSearch DEF WindowScan, NoFallback, SearchOver
  <2> QED BY <2>1, <2>2 DEF AfterWindowPoll
<1>6. CASE Detect
  <2>1. DetectsSelect(TRUE)
    BY <1>6 DEF Detect
  <2>2. \E d : Reads(d) /\ d \in {"ChampSelect", Fallback}
    BY <2>1, PollKeeps DEF DetectsSelect
  <2> QED BY <2>2, HealthyReads DEF Phases, PostgamePhases, Fallback
<1>7. CASE Confirm
  <2>1. Reads("ChampSelect")
    BY <1>7, PollKeeps DEF Confirm
  <2> QED BY <2>1, HealthyReads
<1>8. CASE CheckStart \/ Start \/ Click \/ ConfirmAccept
  BY <1>8 DEF CheckStart, Start, Click, ConfirmAccept, SearchRequested
<1> QED BY <1>1, <1>2, <1>3, <1>4, <1>5, <1>6, <1>7, <1>8

LEMMA OthersDoNotEnter ==
    ASSUME PostgameStep \/ CycleStep, pc # "select"
    PROVE  pc' # "select"
<1>1. CASE PostgameStep
  <2>1. CASE PostRound
    <3>1. \A e : Branch(e) # "select"
      BY DEF Branch
    <3> QED BY <2>1, <3>1 DEF PostRound
  <2>2. CASE WaitBegins \/ WaitForGame \/ WaitAccept \/ Monitor \/ MonitorAccept
    BY <2>2 DEF WaitBegins, WaitForGame, WaitAccept, Monitor, MonitorAccept, StillPlaying,
                BackInQueue, GameIsOver, ProcessBegins
  <2>3. CASE PostAccept \/ PostPlayAgain \/ PostDismiss \/ PostDetect \/ PostEndClick
    BY <2>3 DEF PostAccept, PostPlayAgain, PostDismiss, PostDetect, PostEndClick
  <2>4. CASE PostPoll \/ PostPollAccept \/ PostScan
    BY <2>4 DEF PostPoll, PostPollAccept, PostScan, AfterPostPoll
  <2>5. CASE PostCheckStart \/ PostStart \/ PostClick \/ PostGivesUp
    BY <2>5 DEF PostCheckStart, PostStart, PostClick, PostGivesUp, GivesUp
  <2> QED BY <1>1, <2>1, <2>2, <2>3, <2>4, <2>5 DEF PostgameStep
<1>2. CASE CycleStep
  BY <1>2 DEF CycleStep, CycleBegins, CycleResumes, CycleClosesPopup, CycleRunsMatchmaking,
              SelectGoesOn, SelectLeaves, ProcessBegins, RunBegins
<1> QED BY <1>1, <1>2

\* Over a healthy link the champion selection is entered on a champion select the client
\* has confirmed, never on an accepted ready check alone (_wait_for_champ_select_after_match_
\* accept, detect_champion_select).
THEOREM SelectsAreConfirmed == Spec => SelectIsConfirmed
<1>1. TypeOK /\ RequestInv /\ [Next]_vars
        => [pc # "select" /\ pc' = "select" => cache' = "ChampSelect" \/ ~HealthyLink]_vars
  <2> SUFFICES ASSUME TypeOK, RequestInv, Next, pc # "select", pc' = "select", HealthyLink
               PROVE  cache' = "ChampSelect"
    BY DEF vars
  <2>1. ClientTypeOK /\ NoFallback
    BY DEF TypeOK, RequestInv
  <2>2. CASE MatchmakingStep
    BY <2>1, <2>2, QueueEntersConfirmed
  <2>3. CASE PostgameStep \/ CycleStep
    BY <2>3, OthersDoNotEnter
  <2>4. CASE Surroundings
    BY <2>4 DEF Surroundings, World, ClientStep, GraceElapses, UserTogglesContinue
  <2> QED BY <2>2, <2>3, <2>4 DEF Next, Program
<1> QED BY <1>1, RequestInvHolds, PTL DEF SelectIsConfirmed, Spec

-----------------------------------------------------------------------------
(* The match timer.  A game that is over has been seen while it ran, and   *)
(* whoever sees it shows it, which ends the timer; from then on nothing    *)
(* that can be read is a search, because what is cached is the game too.   *)

TimerRules ==
    /\ shown = "INGAME" => ~timer
    /\ phase = "InProgress" /\ seen => ~timer
    /\ phase \in PostgamePhases => /\ ~timer
                                   /\ cache \in PostgamePhases \cup {"InProgress", NoDecision}
    /\ seen /\ cache # NoDecision => cache = phase

LEMMA ShowsTimer ==
    ASSUME NEW v, Shows(v)
    PROVE  /\ shown' = v
           /\ v # "MATCH_FINDING" /\ ~timer => ~timer'
           /\ v = "INGAME" /\ (shown = "INGAME" => ~timer) => ~timer'
BY DEF Shows, TimerAfter

\* What is read agrees with what the program could know of a game.
LEMMA ReadsAgree ==
    ASSUME ClientTypeOK, NoFallback, TimerRules, NEW d, Reads(d)
    PROVE  /\ UNCHANGED <<phase, link>>
           /\ seen' /\ cache' # NoDecision => cache' = phase
           /\ phase \in PostgamePhases => d \in PostgamePhases \cup {"InProgress"}
           /\ phase \in PostgamePhases => cache' \in PostgamePhases \cup {"InProgress"}
           /\ seen' /\ phase = "InProgress" /\ d # "InProgress" => FALSE
           /\ d \in Phases
           /\ d # Fallback /\ d # Wait
<1>1. CASE cache # NoDecision /\ d = cache /\ UNCHANGED clientVars
  BY <1>1 DEF NoFallback, TimerRules, clientVars, Phases, PostgamePhases, NoDecision, Fallback,
              Wait
<1>2. CASE /\ cache = NoDecision /\ d = Answer /\ cache' = d /\ seen' = (seen \/ d = phase)
           /\ UNCHANGED <<phase, searchAsked, accepted, link, faults, search>>
  <2>1. d = phase
    BY <1>2 DEF NoFallback, Answer
  <2> QED BY <1>2, <2>1 DEF ClientTypeOK, Phases, PostgamePhases, NoDecision, Fallback, Wait
<1> QED BY <1>1, <1>2 DEF Reads

\* A phase that is read and shown.
LEMMA PollKeepsTimer ==
    ASSUME ClientTypeOK, NoFallback, TimerRules, NEW d, PollPhase(d)
    PROVE  TimerRules'
<1>1. Reads(d)
  BY DEF PollPhase
<1>2. /\ UNCHANGED <<phase, link>>
      /\ seen' /\ cache' # NoDecision => cache' = phase
      /\ phase \in PostgamePhases => d \in PostgamePhases \cup {"InProgress"}
      /\ phase \in PostgamePhases => cache' \in PostgamePhases \cup {"InProgress"}
      /\ seen' /\ phase = "InProgress" => d = "InProgress"
      /\ d \in Phases
  BY <1>1, ReadsAgree
<1>3. CASE d = "InProgress"
  <2>1. Shows("INGAME")
    BY <1>3 DEF PollPhase, PreservesSelect, StateOf, Phases, PostgamePhases
  <2>2. ~timer'
    BY <2>1, ShowsTimer DEF TimerRules
  <2> QED BY <1>2, <2>2 DEF TimerRules
<1>4. CASE d \in PostgamePhases
  <2>1. Shows("POSTGAME_SCORE")
    BY <1>2, <1>4 DEF PollPhase, PreservesSelect, StateOf, PostgamePhases
  <2>2. shown' # "INGAME" /\ (~timer => ~timer')
    BY <2>1, ShowsTimer
  <2> QED BY <1>2, <1>4, <2>2 DEF TimerRules, PostgamePhases
<1>5. CASE d \notin PostgamePhases \cup {"InProgress"}
  <2>1. \/ UNCHANGED <<shown, timer>>
        \/ d \in Phases \ {"None"} /\ Shows(StateOf(d))
    BY DEF PollPhase, ShowsNothingNew
  <2>2. d \in Phases \ {"None"} => StateOf(d) # "INGAME"
    BY <1>5 DEF StateOf, Phases
  <2>3. \/ UNCHANGED <<shown, timer>>
        \/ shown' # "INGAME"
    BY <2>1, <2>2, ShowsTimer
  <2> QED BY <1>2, <1>5, <2>3 DEF TimerRules
<1> QED BY <1>3, <1>4, <1>5

\* A phase that is read while something else is shown.
LEMMA ReadKeepsTimer ==
    ASSUME ClientTypeOK, NoFallback, TimerRules, NEW d, d # "InProgress", Reads(d),
           NEW v, v \notin {"MATCH_FINDING", "INGAME"}, Shows(v)
    PROVE  TimerRules'
<1>1. shown' # "INGAME" /\ (~timer => ~timer')
  BY ShowsTimer
<1> QED BY <1>1, ReadsAgree DEF TimerRules

\* The program shows what it likes, or nothing new, while the client stands.
LEMMA ShowKeepsTimer ==
    ASSUME TimerRules, UNCHANGED <<phase, seen, cache>>,
           \/ UNCHANGED <<shown, timer>>
           \/ \E v : v \notin {"MATCH_FINDING", "INGAME"} /\ Shows(v)
           \/ shown' # "INGAME" /\ phase \notin PostgamePhases \cup {"InProgress"}
    PROVE  TimerRules'
<1>1. CASE \E v : v \notin {"MATCH_FINDING", "INGAME"} /\ Shows(v)
  <2>1. shown' # "INGAME" /\ (~timer => ~timer')
    BY <1>1, ShowsTimer
  <2> QED BY <2>1 DEF TimerRules
<1>2. CASE UNCHANGED <<shown, timer>>
  BY <1>2 DEF TimerRules
<1>3. CASE shown' # "INGAME" /\ phase \notin PostgamePhases \cup {"InProgress"}
  BY <1>3 DEF TimerRules
<1> QED BY <1>1, <1>2, <1>3

LEMMA AcceptStands ==
    ASSUME NEW r, AcceptReadyCheck(r)
    PROVE  UNCHANGED <<phase, seen, cache>>
BY DEF AcceptReadyCheck, AcceptRequest, Rejected, Lost, clientVars

LEMMA StartStands ==
    ASSUME NEW r, StartSearchRequest(r)
    PROVE  /\ UNCHANGED <<phase, seen, cache>>
           /\ r = Act => phase \in QuietPhases
BY DEF StartSearchRequest, Rejected, Lost, clientVars, QuietPhases, Act, Wait, Fallback

LEMMA ScanKeepsTimer ==
    ASSUME TimerRules, NEW t, Scan(t)
    PROVE  TimerRules'
<1>1. UNCHANGED <<phase, seen, cache>>
  BY DEF Scan, ScanFindsNothing, ScanClosesModal, ScanFindsSearch, ScanFindsAccept, clientVars
<1>2. CASE ScanFindsNothing(t) \/ ScanClosesModal(t)
  BY <1>1, <1>2, ShowKeepsTimer DEF ScanFindsNothing, ScanClosesModal, ShowsNothingNew
<1>3. CASE ScanFindsSearch(t) \/ ScanFindsAccept(t)
  <2>1. phase \in {"Matchmaking", "ReadyCheck"}
    BY <1>3 DEF ScanFindsSearch, ScanFindsAccept, OnScreen
  <2>2. shown' \in {"MATCH_FINDING", "MATCH_ACCEPT_WAIT"}
    BY <1>3 DEF ScanFindsSearch, ScanFindsAccept, Shows
  <2> QED BY <1>1, <2>1, <2>2 DEF TimerRules, PostgamePhases
<1> QED BY <1>2, <1>3 DEF Scan

LEMMA DetectKeepsTimer ==
    ASSUME ClientTypeOK, NoFallback, TimerRules, NEW found, DetectsSelect(found)
    PROVE  TimerRules'
<1>1. CASE \E d \in Decisions : PollPhase(d)
  BY <1>1, PollKeepsTimer
<1>2. CASE Reads(Fallback)
  BY <1>2, ReadsAgree
<1> QED BY <1>1, <1>2 DEF DetectsSelect

LEMMA MoveKeepsTimer ==
    ASSUME TimerRules, UNCHANGED <<shown, timer>>,
           \/ UNCHANGED clientVars
           \/ \E p : MovesTo(p) /\ p \notin PostgamePhases
           \/ \E p \in PostgamePhases : MovesTo(p) /\ phase \in PostgamePhases
    PROVE  TimerRules'
BY DEF TimerRules, MovesTo, clientVars

LEMMA RequestedMoveKeepsTimer ==
    ASSUME TimerRules, UNCHANGED <<shown, timer>>, NEW r, NEW from, NEW to \in QuietPhases,
           MoveRequest(from, to, r)
    PROVE  TimerRules'
<1>1. to \notin PostgamePhases
  BY DEF QuietPhases, PostgamePhases
<1> QED BY <1>1, MoveKeepsTimer DEF MoveRequest, Rejected, Lost

-----------------------------------------------------------------------------
(* Every step of the program.                                              *)

LEMMA MatchmakingKeepsTimer ==
    ASSUME ClientTypeOK, NoFallback, TimerRules, MatchmakingStep
    PROVE  TimerRules'
<1> USE DEF MatchmakingStep
<1>1. CASE Poll \/ WindowPoll \/ CheckStart \/ Confirm
  <2>1. PICK d : PollPhase(d)
    BY <1>1 DEF Poll, WindowPoll, CheckStart, Confirm
  <2> QED BY <2>1, PollKeepsTimer
<1>2. CASE Accept \/ WindowAccept \/ ConfirmAccept
  <2>1. PICK r : AcceptReadyCheck(r)
    BY <1>2 DEF Accept, WindowAccept, ConfirmAccept
  <2>2. UNCHANGED <<shown, timer>>
    BY <1>2 DEF Accept, WindowAccept, ConfirmAccept
  <2> QED BY <2>1, <2>2, AcceptStands, ShowKeepsTimer
<1>3. CASE WindowScan
  BY <1>3, ScanKeepsTimer DEF WindowScan
<1>4. CASE Detect
  BY <1>4, DetectKeepsTimer DEF Detect
<1>5. CASE Start
  <2>1. PICK r : StartSearchRequest(r) /\ (\/ r = Act /\ SearchRequested
                                           \/ r # Act /\ UNCHANGED <<shown, timer>>)
    BY <1>5 DEF Start
  <2>2. UNCHANGED <<phase, seen, cache>> /\ (r = Act => phase \in QuietPhases)
    BY <2>1, StartStands
  <2>3. CASE r = Act
    <3>1. shown' # "INGAME" /\ phase \notin PostgamePhases \cup {"InProgress"}
      BY <2>1, <2>2, <2>3 DEF SearchRequested, QuietPhases, PostgamePhases
    <3> QED BY <2>2, <3>1, ShowKeepsTimer
  <2>4. CASE r # Act
    BY <2>1, <2>2, <2>4, ShowKeepsTimer
  <2> QED BY <2>3, <2>4
<1>6. CASE Click
  BY <1>6 DEF Click, NoFallback
<1> QED BY <1>1, <1>2, <1>3, <1>4, <1>5, <1>6

LEMMA PostgameKeepsTimer ==
    ASSUME ClientTypeOK, NoFallback, TimerRules, PostgameStep
    PROVE  TimerRules'
<1> USE DEF PostgameStep
<1>1. CASE WaitBegins
  BY <1>1, ShowKeepsTimer DEF WaitBegins, clientVars
<1>2. CASE WaitForGame
  <2>1. ~Reads(Fallback)
    BY ReadsAgree
  <2> QED BY <1>2, <2>1, PollKeepsTimer DEF WaitForGame
<1>3. CASE WaitAccept \/ MonitorAccept \/ PostAccept \/ PostPollAccept
  <2>1. PICK r : AcceptReadyCheck(r)
    BY <1>3 DEF WaitAccept, MonitorAccept, PostAccept, PostPollAccept
  <2>2. UNCHANGED <<shown, timer>>
    BY <1>3 DEF WaitAccept, MonitorAccept, PostAccept, PostPollAccept
  <2> QED BY <2>1, <2>2, AcceptStands, ShowKeepsTimer
<1>4. CASE Monitor
  <2>1. ~Reads(Fallback)
    BY ReadsAgree
  <2>2. CASE \E d : PollPhase(d)
    BY <2>2, PollKeepsTimer
  <2>3. CASE \E d \in PostgamePhases \cup {"None", Fallback} :
                 Reads(d) /\ Shows("POSTGAME_SCORE")
    <3>1. PICK d \in PostgamePhases \cup {"None", Fallback} :
                 Reads(d) /\ Shows("POSTGAME_SCORE")
      BY <2>3
    <3>2. d # "InProgress"
      BY DEF PostgamePhases, Fallback
    <3> QED BY <3>1, <3>2, ReadKeepsTimer
  <2> QED BY <1>4, <2>1, <2>2, <2>3 DEF Monitor, GameIsOver
<1>5. CASE PostRound
  <2>1. \/ UNCHANGED <<clientVars, shown, timer>>
        \/ \E d : PollPhase(d)
    BY <1>5 DEF PostRound
  <2> QED BY <2>1, PollKeepsTimer, ShowKeepsTimer DEF clientVars
<1>6. CASE PostPlayAgain \/ PostDismiss
  <2>1. PICK to \in QuietPhases : \E r : MoveRequest("EndOfGame", to, r)
    BY <1>6 DEF PostPlayAgain, PostDismiss, QuietPhases
  <2>2. UNCHANGED <<shown, timer>>
    BY <1>6 DEF PostPlayAgain, PostDismiss
  <2> QED BY <2>1, <2>2, RequestedMoveKeepsTimer
<1>7. CASE PostDetect
  <2>1. \/ UNCHANGED <<clientVars, shown, timer>>
        \/ \E found : DetectsSelect(found)
    BY <1>7 DEF PostDetect
  <2> QED BY <2>1, DetectKeepsTimer, ShowKeepsTimer DEF clientVars
<1>8. CASE PostEndClick
  <2>1. \/ UNCHANGED clientVars
        \/ phase = "PreEndOfGame" /\ MovesTo("EndOfGame")
        \/ MovesTo("Lobby")
    BY <1>8 DEF PostEndClick
  <2>2. UNCHANGED <<shown, timer>>
    BY <1>8 DEF PostEndClick
  <2> QED BY <2>1, <2>2, MoveKeepsTimer DEF PostgamePhases
<1>9. CASE PostPoll \/ PostCheckStart
  <2>1. PICK d : PollPhase(d)
    BY <1>9 DEF PostPoll, PostCheckStart
  <2> QED BY <2>1, PollKeepsTimer
<1>10. CASE PostScan
  BY <1>10, ScanKeepsTimer DEF PostScan
<1>11. CASE PostStart
  <2>1. PICK r : StartSearchRequest(r)
    BY <1>11 DEF PostStart, RequestStart
  <2>2. UNCHANGED <<shown, timer>>
    BY <1>11 DEF PostStart
  <2> QED BY <2>1, <2>2, StartStands, ShowKeepsTimer
<1>12. CASE PostClick
  BY <1>12 DEF PostClick, NoFallback
<1>13. CASE PostGivesUp
  BY <1>13, ShowKeepsTimer DEF PostGivesUp, GivesUp, clientVars
<1> QED BY <1>1, <1>2, <1>3, <1>4, <1>5, <1>6, <1>7, <1>8, <1>9, <1>10, <1>11, <1>12, <1>13

LEMMA CycleKeepsTimer ==
    ASSUME ClientTypeOK, NoFallback, TimerRules, CycleStep
    PROVE  TimerRules'
<1>1. CASE CycleBegins
  <2>1. PICK d : PollPhase(d)
    BY <1>1 DEF CycleBegins
  <2> QED BY <2>1, PollKeepsTimer
<1>2. CASE CycleResumes \/ CycleClosesPopup
  <2>1. \/ UNCHANGED <<shown, timer>>
        \/ Shows("POSTGAME_SCORE")
    BY <1>2 DEF CycleResumes, CycleClosesPopup, ShowsNothingNew
  <2>2. UNCHANGED <<phase, seen, cache>>
    BY <1>2 DEF CycleResumes, CycleClosesPopup, clientVars
  <2> QED BY <2>1, <2>2, ShowKeepsTimer
<1>3. CASE CycleRunsMatchmaking
  <2>1. Shows("LOBBY")
    BY <1>3 DEF CycleRunsMatchmaking
  <2>2. CASE UNCHANGED clientVars
    BY <2>1, <2>2, ShowKeepsTimer DEF clientVars
  <2>3. CASE MovesTo("Lobby")
    BY <2>1, <2>3 DEF MovesTo, TimerRules, Shows, PostgamePhases
  <2> QED BY <1>3, <2>2, <2>3 DEF CycleRunsMatchmaking, MoveRequest, Rejected, Lost
<1>4. CASE SelectGoesOn
  <2>1. PICK d \in {"ChampSelect", Wait, Fallback} : Reads(d)
    BY <1>4 DEF SelectGoesOn
  <2>2. PICK v \in {"PREPICK", "BANPICK", "PICK"} : Shows(v)
    BY <1>4 DEF SelectGoesOn
  <2>3. d # "InProgress" /\ v \notin {"MATCH_FINDING", "INGAME"}
    BY DEF Wait, Fallback
  <2> QED BY <2>1, <2>2, <2>3, ReadKeepsTimer
<1>5. CASE SelectLeaves
  <2>1. \/ \E d : PollPhase(d)
        \/ Reads("ChampSelect") /\ Shows("UNKNOWN")
    BY <1>5 DEF SelectLeaves
  <2> QED BY <2>1, PollKeepsTimer, ReadKeepsTimer
<1> QED BY <1>1, <1>2, <1>3, <1>4, <1>5 DEF CycleStep

-----------------------------------------------------------------------------
(* The client and the user, and the theorem.                               *)

LEMMA ClientKeepsTimer ==
    ASSUME NoFallback, TimerRules, ClientNext, UNCHANGED <<shown, timer>>, link' = link
    PROVE  TimerRules'
<1> USE DEF TimerRules, MovesTo, PostgamePhases
<1>1. CASE UserActs
  BY <1>1 DEF UserActs, UserStartsSearch, UserCancelsSearch, UserDodges,
              UserLeavesPostgame, UserEntersLobby, UserLeavesLobby
<1>2. CASE GameStarts
  BY <1>2 DEF GameStarts
<1>3. CASE GameEnds
  <2>1. seen
    BY <1>3 DEF GameEnds, Noticed, NoFallback
  <2> QED BY <1>3, <2>1 DEF GameEnds
<1>4. CASE PostgameAdvances
  BY <1>4 DEF PostgameAdvances
<1>5. CASE SearchBegins \/ MatchFound \/ EveryoneAccepts \/ SomeoneDeclines
             \/ ReadyCheckFails \/ SomeoneDodges
  BY <1>5 DEF SearchBegins, MatchFound, EveryoneAccepts, SomeoneDeclines, ReadyCheckFails,
              SomeoneDodges
<1>6. CASE CacheExpires
  BY <1>6 DEF CacheExpires
<1>7. CASE LinkBreaks \/ LinkRecovers
  BY <1>7 DEF LinkBreaks, LinkRecovers, NoFallback
<1> QED BY <1>1, <1>2, <1>3, <1>4, <1>5, <1>6, <1>7 DEF ClientNext, ClientActs, LinkActs

TimerInv == HealthyLink => TimerRules

LEMMA TimerInvIsInductive ==
    ASSUME TypeOK, RequestInv, TimerInv, [Next]_vars
    PROVE  TimerInv'
<1> SUFFICES ASSUME HealthyLink'
             PROVE  TimerRules'
  BY DEF TimerInv
<1>1. ClientTypeOK /\ WithinReach
  BY DEF TypeOK, RequestInv
<1>2. CASE Program
  <2>1. HealthyLink
    BY <1>1, <1>2, CycleKeeps, MatchmakingKeeps, PostgameKeeps
       DEF Program, HealthyLink, LinkSame
  <2>2. NoFallback /\ TimerRules
    BY <2>1 DEF RequestInv, TimerInv
  <2> QED BY <1>1, <1>2, <2>2, CycleKeepsTimer, MatchmakingKeepsTimer, PostgameKeepsTimer
          DEF Program
<1>3. CASE Surroundings /\ ClientStep
  <2>1. ClientNext /\ UNCHANGED <<shown, timer>>
    BY <1>3 DEF ClientStep
  <2>2. HealthyLink /\ (link = "ok" => link' = "ok")
    BY <1>1, <2>1, ClientKeeps
  <2>3. NoFallback /\ TimerRules
    BY <2>2 DEF RequestInv, TimerInv
  <2> QED BY <2>1, <2>2, <2>3, ClientKeepsTimer DEF NoFallback
<1>4. CASE (Surroundings /\ ~ClientStep) \/ UNCHANGED vars
  BY <1>4 DEF Surroundings, World, GraceElapses, UserTogglesContinue, vars, clientVars,
              TimerInv, HealthyLink, TimerRules
<1> QED BY <1>2, <1>3, <1>4 DEF Next

LEMMA TimerInvHolds == Spec => []TimerInv
<1>1. Init => TimerInv
  BY DEF Init, ClientInit, RuntimeInit, TimerInv, TimerRules
<1>2. TypeOK /\ RequestInv /\ TimerInv /\ [Next]_vars => TimerInv'
  BY TimerInvIsInductive
<1> QED BY <1>1, <1>2, RequestInvHolds, PTL DEF Spec

\* Over a healthy link the match timer never runs while the client shows a score board: the
\* hook has recorded the duration when the game was shown, and no phase that is read after
\* the game can start the timer again (_on_client_state_changed_for_timing).
THEOREM TimerStops == Spec => []TimerStopsWithTheGame
<1>1. TimerInv => TimerStopsWithTheGame
  BY DEF TimerInv, TimerRules, TimerStopsWithTheGame
<1> QED BY <1>1, TimerInvHolds, PTL

-----------------------------------------------------------------------------
(* The watch loop.  It comes to the start only when no request of its own  *)
(* may still be under way.                                                 *)

WatchInv ==
    /\ pc \in {"check", "start", "click"} /\ stage = "watch" => pending = "none"
    /\ pc \notin MatchmakingPCs => stage = "entry"

LEMMA MatchmakingKeepsWatch ==
    ASSUME WatchInv, MatchmakingStep
    PROVE  WatchInv'
<1> USE DEF WatchInv, MatchmakingPCs
<1>1. CASE Poll \/ Accept
  <2>1. \/ pc' = "accept" /\ stage' = stage
        \/ \E t : AfterPoll(t)
    BY <1>1 DEF Poll, Accept
  <2>2. CASE pc' = "accept" /\ stage' = stage
    BY <2>2
  <2>3. CASE \E t : AfterPoll(t)
    BY <2>3 DEF AfterPoll
  <2> QED BY <2>1, <2>2, <2>3
<1>2. CASE WindowPoll \/ WindowAccept \/ WindowScan
  <2>1. \/ pc' \in {"accept2", "scan2"} /\ stage' = stage
        \/ \E t : AfterWindowPoll(t)
    BY <1>2 DEF WindowPoll, WindowAccept, WindowScan
  <2>2. CASE pc' \in {"accept2", "scan2"} /\ stage' = stage
    BY <2>2
  <2>3. CASE \E t : AfterWindowPoll(t)
    BY <2>3 DEF AfterWindowPoll
  <2> QED BY <2>1, <2>2, <2>3
<1>3. CASE Detect \/ CheckStart \/ Confirm \/ ConfirmAccept
  BY <1>3 DEF Detect, CheckStart, Confirm, ConfirmAccept
<1>4. CASE Start \/ Click
  BY <1>4 DEF Start, Click, SearchRequested
<1> QED BY <1>1, <1>2, <1>3, <1>4 DEF MatchmakingStep

\* The other parts of the program have no stage, and reach the queue only by beginning a run.
LEMMA OthersLeaveStage ==
    ASSUME PostgameStep \/ CycleStep
    PROVE  stage' \in {stage, "entry"} /\ (pc' \in MatchmakingPCs => pc' = "poll")
<1> USE DEF MatchmakingPCs
<1>1. CASE PostgameStep
  <2>1. CASE PostRound
    <3>1. \A e : Branch(e) \notin MatchmakingPCs
      BY DEF Branch
    <3> QED BY <2>1, <3>1 DEF PostRound
  <2>2. CASE WaitBegins \/ WaitForGame \/ WaitAccept \/ Monitor \/ MonitorAccept
    BY <2>2 DEF WaitBegins, WaitForGame, WaitAccept, Monitor, MonitorAccept, StillPlaying,
                BackInQueue, GameIsOver, ProcessBegins
  <2>3. CASE PostAccept \/ PostPlayAgain \/ PostDismiss \/ PostDetect \/ PostEndClick
    BY <2>3 DEF PostAccept, PostPlayAgain, PostDismiss, PostDetect, PostEndClick
  <2>4. CASE PostPoll \/ PostPollAccept \/ PostScan
    BY <2>4 DEF PostPoll, PostPollAccept, PostScan, AfterPostPoll
  <2>5. CASE PostCheckStart \/ PostStart \/ PostClick \/ PostGivesUp
    BY <2>5 DEF PostCheckStart, PostStart, PostClick, PostGivesUp, GivesUp
  <2> QED BY <1>1, <2>1, <2>2, <2>3, <2>4, <2>5 DEF PostgameStep
<1>2. CASE CycleStep
  BY <1>2 DEF CycleStep, CycleBegins, CycleResumes, CycleClosesPopup, CycleRunsMatchmaking,
              SelectGoesOn, SelectLeaves, ProcessBegins, RunBegins
<1> QED BY <1>1, <1>2

LEMMA OthersStart ==
    ASSUME PostgameStep \/ CycleStep
    PROVE  pc \notin MatchmakingPCs
<1> USE DEF MatchmakingPCs
<1>1. CASE PostgameStep
  BY <1>1 DEF PostgameStep, WaitBegins, WaitForGame, WaitAccept, Monitor, MonitorAccept,
              PostRound, PostAccept, PostPlayAgain, PostDismiss, PostDetect, PostEndClick,
              PostPoll, PostPollAccept, PostScan, PostCheckStart, PostStart, PostClick,
              PostGivesUp, GivesUp
<1>2. CASE CycleStep
  BY <1>2 DEF CycleStep, CycleBegins, CycleResumes, CycleClosesPopup, CycleRunsMatchmaking,
              SelectGoesOn, SelectLeaves
<1> QED BY <1>1, <1>2

LEMMA WatchInvIsInductive ==
    ASSUME WatchInv, [Next]_vars
    PROVE  WatchInv'
<1>1. CASE MatchmakingStep
  BY <1>1, MatchmakingKeepsWatch
<1>2. CASE PostgameStep \/ CycleStep
  BY <1>2, OthersLeaveStage, OthersStart DEF WatchInv, MatchmakingPCs
<1>3. CASE Surroundings \/ UNCHANGED vars
  BY <1>3 DEF Surroundings, World, ClientStep, GraceElapses, UserTogglesContinue, vars,
              searchVars, WatchInv
<1> QED BY <1>1, <1>2, <1>3 DEF Next, Program

\* However the client and the user act in between, over a healthy link the watch loop asks
\* for a search only when none of its own is under way (the start_pending hold).
THEOREM WatchIsPatient == Spec => WatchDoesNotRepeatStart
<1>1. Init => WatchInv
  BY DEF Init, MatchmakingInit, WatchInv
<1>2. WatchInv /\ [Next]_vars => WatchInv'
  BY WatchInvIsInductive
<1>3. TypeOK /\ RequestInv /\ WatchInv
        => [(OwnStart /\ stage = "watch" /\ HealthyLink) => ~searchAsked]_vars
  <2> SUFFICES ASSUME RequestInv, WatchInv, OwnStart, stage = "watch", HealthyLink
               PROVE  ~searchAsked
    OBVIOUS
  <2>1. pc \in {"start", "click"}
    BY DEF OwnStart, WatchInv, MatchmakingPCs
  <2> QED BY <2>1 DEF WatchInv, RequestInv, Remembered
<1> QED BY <1>1, <1>2, <1>3, RequestInvHolds, PTL DEF Spec, WatchDoesNotRepeatStart

-----------------------------------------------------------------------------
(* The search that ends the run.  What the tracker knows of, a search seen *)
(* or a start requested, is still to be found at the client or has ended   *)
(* in the lobby, for only the program accepts a ready check, and it        *)
(* forgets the search when it does.                                        *)

Ongoing ==
    \/ phase = "Matchmaking"
    \/ phase = "ReadyCheck" /\ ~accepted
    \/ phase \in QuietPhases /\ search \in {"cancelled", "lost"}

EarlyReads == QuietReads \cup {"Matchmaking", "ReadyCheck"}
AcceptPCs  == {"accept", "accept2", "confirmAccept", "waitAccept", "monitorAccept",
               "postAccept", "postPollAccept"}
LatePCs    == PostgamePCs \cup {"select", "resume"}

SearchRules ==
    /\ pc \in MatchmakingPCs /\ finding # "none" => Ongoing
    /\ cache = "Matchmaking" => Ongoing
    /\ pc = "begin" /\ held = "Matchmaking" => Ongoing
    /\ pending # "none" => (Ongoing \/ searchAsked) /\ cache \in EarlyReads
    /\ pc \in LatePCs => pending = "none"
    /\ pc \in {"confirm", "confirmAccept"} => finding = "none" /\ pending = "none"
    /\ pc \in AcceptPCs => cache \in {"ReadyCheck", NoDecision}
    /\ pc = "scan2" /\ seen => held = phase

\* A step that keeps what the tracker knows, or forgets it.
Forgets ==
    /\ pending' \in {pending, "none"}
    /\ pc' \in LatePCs => pending' = "none"
    /\ pc' \in {"confirm", "confirmAccept"} => finding' = "none" /\ pending' = "none"

KeepsFinding ==
    pc' \in MatchmakingPCs /\ finding' # "none" => pc \in MatchmakingPCs /\ finding # "none"

LEMMA ReadsEarly ==
    ASSUME ClientTypeOK, WithinReach, NoFallback, TimerRules, SearchRules, NEW d, Reads(d)
    PROVE  /\ UNCHANGED <<phase, searchAsked, accepted, search>>
           /\ d \in Phases /\ cache' = d
           /\ d = "Matchmaking" => Ongoing
           /\ pending # "none" => d \in EarlyReads
           /\ seen' => d = phase
<1>1. d \in Phases /\ cache' = d /\ (seen' => d = phase)
  <2>1. d \in Phases /\ cache' = d
    BY HealthyReads
  <2>2. cache' # NoDecision
    BY <2>1 DEF Phases, PostgamePhases, NoDecision
  <2> QED BY <2>1, <2>2, ReadsAgree
<1>2. UNCHANGED <<phase, searchAsked, accepted, search>>
  BY DEF Reads, clientVars
<1>3. cache = d \/ phase = d
  BY DEF Reads, Answer, NoFallback
<1>4. d = "Matchmaking" => Ongoing
  BY <1>3 DEF SearchRules, Ongoing
<1>5. pending # "none" => d \in EarlyReads
  BY <1>3 DEF SearchRules, Ongoing, EarlyReads, QuietReads, QuietPhases, WithinReach
<1> QED BY <1>1, <1>2, <1>4, <1>5

\* A step that reads the phase.
LEMMA EndsInRead ==
    ASSUME ClientTypeOK, WithinReach, NoFallback, TimerRules, SearchRules, NEW d, Reads(d),
           Forgets, KeepsFinding \/ d = "Matchmaking",
           pc' = "begin" => held' = d,
           pc' \in AcceptPCs => d = "ReadyCheck",
           pc' = "scan2" => held' = d
    PROVE  SearchRules'
<1>1. /\ UNCHANGED <<phase, searchAsked, accepted, search>>
      /\ d \in Phases /\ cache' = d
      /\ d = "Matchmaking" => Ongoing
      /\ pending # "none" => d \in EarlyReads
      /\ seen' => d = phase
  BY ReadsEarly
<1>2. Ongoing' = Ongoing
  BY <1>1 DEF Ongoing
<1> QED BY <1>1, <1>2 DEF SearchRules, Forgets, KeepsFinding

\* A step that leaves the client alone.
LEMMA EndsInPlace ==
    ASSUME SearchRules, UNCHANGED <<phase, searchAsked, accepted, search, cache>>,
           Forgets, KeepsFinding, pc' \notin AcceptPCs \cup {"begin", "scan2"}
    PROVE  SearchRules'
<1>1. Ongoing' = Ongoing
  BY DEF Ongoing
<1> QED BY <1>1 DEF SearchRules, Forgets, KeepsFinding

\* A step that accepts the ready check.
LEMMA EndsInAccept ==
    ASSUME NoFallback, SearchRules, NEW r, AcceptReadyCheck(r), pc \in AcceptPCs,
           Forgets, KeepsFinding, pc' \notin {"begin", "scan2"},
           pc' \in AcceptPCs => pc' = pc,
           r = Act => pending' = "none" /\ (pc' \in MatchmakingPCs => finding' = "none")
    PROVE  SearchRules'
<1>1. UNCHANGED <<phase, searchAsked, search, cache>>
  BY DEF AcceptReadyCheck, AcceptRequest, Rejected, Lost, clientVars
<1>2. accepted' = accepted \/ r = Act
  BY DEF AcceptReadyCheck, AcceptRequest, Delivered, Rejected, Lost, clientVars, NoFallback
<1>3. cache \in {"ReadyCheck", NoDecision}
  BY DEF SearchRules
<1>4. cache' # "Matchmaking"
  BY <1>1, <1>3 DEF NoDecision
<1>5. CASE r = Act
  BY <1>1, <1>3, <1>4, <1>5 DEF SearchRules, Forgets
<1>6. CASE accepted' = accepted
  <2>1. Ongoing' = Ongoing
    BY <1>1, <1>6 DEF Ongoing
  <2> QED BY <1>1, <1>3, <1>4, <2>1 DEF SearchRules, Forgets, KeepsFinding
<1> QED BY <1>2, <1>5, <1>6

\* What the tracker makes of a poll that has not fallen back to the screen.
LEMMA Observes ==
    ASSUME NEW t, NEW complete, Observe(t, complete), t.action # Fallback
    PROVE  /\ pending' \in {pending, "none"}
           /\ finding' \in {finding, "none"} \/ t.phase = "Matchmaking"
           /\ SearchOver(t) => finding' = "none" /\ pending' = "none"
BY DEF Observe, SourceAfter

LEMMA PhaseAttempts ==
    ASSUME NEW d \in Phases
    PROVE  LET t == PhaseAttempt(d)
           IN  /\ t.action = Act /\ t.phase = d /\ ~t.accepted
               /\ d = "ChampSelect" => SearchOver(t)
BY DEF PhaseAttempt, Attempt, LoopAction, SearchOver, Act

LEMMA AcceptAttempts ==
    ASSUME NEW r \in {Act, Wait}
    PROVE  LET t == AcceptAttempt(r)
           IN  /\ t.action = r /\ t.phase = "ReadyCheck" /\ t.accepted = (r = Act)
               /\ r = Act => SearchOver(t)
BY DEF AcceptAttempt, Attempt, Act, Wait, SearchOver, Phases

LEMMA PollKeepsSearch ==
    ASSUME ClientTypeOK, WithinReach, NoFallback, TimerRules, SearchRules, NEW d, Reads(d),
           pc \in MatchmakingPCs,
           \/ AfterPoll(PhaseAttempt(d))
           \/ AfterWindowPoll(PhaseAttempt(d))
    PROVE  SearchRules'
<1> DEFINE t == PhaseAttempt(d)
<1>1. d \in Phases
  BY ReadsEarly
<1>2. t.action = Act /\ t.phase = d /\ ~t.accepted /\ (d = "ChampSelect" => SearchOver(t))
  BY <1>1, PhaseAttempts
<1>3. \E c : Observe(t, c)
  BY DEF AfterPoll, AfterWindowPoll
<1> HIDE DEF t
<1>4. /\ pending' \in {pending, "none"}
      /\ finding' \in {finding, "none"} \/ d = "Matchmaking"
      /\ SearchOver(t) => finding' = "none" /\ pending' = "none"
  BY <1>2, <1>3, Observes DEF Act, Fallback
<1>5. /\ pc' \in {"poll", "stopped", "select", "detect", "poll2", "check"}
      /\ pc' = "select" => d = "ChampSelect"
  BY <1>2 DEF t, AfterPoll, AfterWindowPoll
<1>6. Forgets
  BY <1>2, <1>4, <1>5 DEF Forgets, LatePCs, PostgamePCs
<1>7. KeepsFinding \/ d = "Matchmaking"
  BY <1>4 DEF KeepsFinding
<1> QED BY <1>5, <1>6, <1>7, EndsInRead DEF AcceptPCs

LEMMA AcceptKeepsSearch ==
    ASSUME WithinReach, NoFallback, SearchRules, NEW r \in {Act, Wait, Fallback},
           AcceptReadyCheck(r), pc \in {"accept", "accept2"},
           r # Fallback => AfterPoll(AcceptAttempt(r)) \/ AfterWindowPoll(AcceptAttempt(r))
    PROVE  SearchRules'
<1> DEFINE t == AcceptAttempt(r)
<1>1. r \in {Act, Wait}
  BY AcceptKeeps DEF NoFallback
<1>2. /\ t.action = r /\ t.phase = "ReadyCheck" /\ t.accepted = (r = Act)
      /\ r = Act => SearchOver(t)
  BY <1>1, AcceptAttempts
<1>3. (AfterPoll(t) \/ AfterWindowPoll(t)) /\ (\E c : Observe(t, c))
  BY <1>1 DEF AfterPoll, AfterWindowPoll, Act, Wait, Fallback
<1> HIDE DEF t
<1>4. /\ pending' \in {pending, "none"}
      /\ finding' \in {finding, "none"}
      /\ r = Act => finding' = "none" /\ pending' = "none"
  BY <1>1, <1>2, <1>3, Observes DEF Act, Wait, Fallback
<1>5. /\ pc' \in {"poll", "stopped", "confirm", "detect", "poll2", "check"}
      /\ pc' = "confirm" => r = Act
  BY <1>1, <1>2, <1>3 DEF AfterPoll, AfterWindowPoll, Act, Wait, Fallback
<1>6. Forgets
  BY <1>4, <1>5 DEF Forgets, LatePCs, PostgamePCs
<1>7. KeepsFinding
  BY <1>4 DEF KeepsFinding, MatchmakingPCs
<1> QED BY <1>4, <1>5, <1>6, <1>7, EndsInAccept DEF AcceptPCs

LEMMA MatchmakingKeepsSearch ==
    ASSUME ClientTypeOK, WithinReach, NoFallback, Remembered, TimerRules, SearchRules,
           MatchmakingStep
    PROVE  SearchRules'
<1> USE DEF MatchmakingStep
<1>0. pc \in MatchmakingPCs /\ MatchmakingPCs \cap LatePCs = {}
  BY DEF MatchmakingPCs, LatePCs, PostgamePCs, Poll, Accept, WindowPoll, WindowAccept,
         WindowScan, Detect, CheckStart, Start, Click, Confirm, ConfirmAccept
<1>1. CASE Poll
  <2>1. PICK d : /\ Reads(d)
                 /\ \/ d = "ReadyCheck" /\ pc' = "accept" /\ UNCHANGED <<finding, pending>>
                    \/ AfterPoll(PhaseAttempt(d))
    BY <1>1, PollKeeps DEF Poll
  <2>2. CASE d = "ReadyCheck" /\ pc' = "accept" /\ UNCHANGED <<finding, pending>>
    BY <1>0, <2>1, <2>2, EndsInRead
       DEF Forgets, KeepsFinding, AcceptPCs, LatePCs, PostgamePCs
  <2> QED BY <1>0, <2>1, <2>2, PollKeepsSearch
<1>2. CASE WindowPoll
  <2>1. PICK d : /\ Reads(d)
                 /\ \/ AfterWindowPoll(PhaseAttempt(d))
                    \/ /\ held' = d /\ pc' = (IF d = "ReadyCheck" THEN "accept2" ELSE "scan2")
                       /\ UNCHANGED <<finding, pending>>
    BY <1>2, PollKeeps DEF WindowPoll
  <2>2. CASE /\ held' = d /\ pc' = (IF d = "ReadyCheck" THEN "accept2" ELSE "scan2")
             /\ UNCHANGED <<finding, pending>>
    BY <1>0, <2>1, <2>2, EndsInRead
       DEF Forgets, KeepsFinding, AcceptPCs, LatePCs, PostgamePCs
  <2> QED BY <1>0, <2>1, <2>2, PollKeepsSearch
<1>3. CASE Accept \/ WindowAccept
  <2>1. PICK r \in {Act, Wait, Fallback} :
           /\ AcceptReadyCheck(r)
           /\ r # Fallback => AfterPoll(AcceptAttempt(r)) \/ AfterWindowPoll(AcceptAttempt(r))
    BY <1>3 DEF Accept, WindowAccept
  <2>2. pc \in {"accept", "accept2"}
    BY <1>3 DEF Accept, WindowAccept
  <2> QED BY <2>1, <2>2, AcceptKeepsSearch
<1>4. CASE WindowScan
  <2>1. PICK t : Scan(t) /\ AfterWindowPoll(t)
    BY <1>4 DEF WindowScan
  <2>2. ~t.finding /\ ~SearchOver(t)
    BY <1>4, <2>1, ScanSeesNoSearch DEF WindowScan, NoFallback
  <2>3. UNCHANGED clientVars
    BY <2>1, <2>2 DEF Scan, ScanFindsNothing, ScanClosesModal, ScanFindsSearch,
                      ScanFindsAccept, Attempt
  <2>4. UNCHANGED <<finding, pending>>
    BY <2>1, <2>2 DEF AfterWindowPoll, Observe
  <2>5. pc' \in {"poll", "stopped", "detect", "check"}
    BY <2>1, <2>2 DEF AfterWindowPoll, SearchOver
  <2> QED BY <1>0, <2>3, <2>4, <2>5, EndsInPlace
          DEF Forgets, KeepsFinding, AcceptPCs, LatePCs, PostgamePCs, clientVars
<1>5. CASE Detect
  <2>1. PICK d : Reads(d) /\ (pc' = "select" => d = "ChampSelect")
    <3>1. ~Reads(Fallback)
      BY ReadsAgree
    <3> QED BY <1>5, <3>1, PollKeeps DEF Detect, DetectsSelect
  <2>2. pc' \in {"select", "poll", "poll2", "check"} /\ UNCHANGED <<finding, pending>>
    BY <1>5 DEF Detect
  <2>3. pc' = "select" => pending = "none"
    BY <2>1, ReadsEarly DEF EarlyReads, QuietReads, QuietPhases, NoDecision
  <2> QED BY <1>0, <2>1, <2>2, <2>3, EndsInRead
          DEF Forgets, KeepsFinding, AcceptPCs, LatePCs, PostgamePCs
<1>6. CASE CheckStart
  <2>1. PICK d : Reads(d)
    BY <1>6, PollKeeps DEF CheckStart
  <2>2. pc' \in {"poll", "start"} /\ UNCHANGED <<finding, pending>>
    BY <1>6 DEF CheckStart
  <2> QED BY <1>0, <2>1, <2>2, EndsInRead
          DEF Forgets, KeepsFinding, AcceptPCs, LatePCs, PostgamePCs
<1>7. CASE Start
  <2>1. PICK r : /\ StartSearchRequest(r)
                 /\ \/ r = Act /\ SearchRequested
                    \/ r # Act /\ pc' \in {"poll", "click"} /\ UNCHANGED <<finding, pending>>
    BY <1>7 DEF Start
  <2>2. UNCHANGED <<phase, accepted, cache, search>>
    BY <2>1 DEF StartSearchRequest, Rejected, Lost, clientVars
  <2>3. CASE r = Act
    <3>1. searchAsked'
      BY <2>1, <2>3 DEF StartSearchRequest, Rejected, Lost, Act, Wait, Fallback
    <3>2. cache \in QuietReads
      BY <1>7 DEF Remembered, Start
    <3> QED BY <2>1, <2>2, <2>3, <3>1, <3>2
            DEF SearchRequested, SearchRules, EarlyReads, QuietReads, QuietPhases, NoDecision,
                LatePCs, PostgamePCs, AcceptPCs
  <2>4. CASE r # Act
    <3>1. searchAsked' = searchAsked
      BY <2>1, <2>4, StartKeeps DEF NoFallback
    <3> QED BY <1>0, <2>1, <2>2, <2>4, <3>1, EndsInPlace
            DEF Forgets, KeepsFinding, AcceptPCs, LatePCs, PostgamePCs
  <2> QED BY <2>3, <2>4
<1>8. CASE Click
  BY <1>8 DEF Click, NoFallback
<1>9. CASE Confirm
  <2>1. PICK d : Reads(d) /\ (pc' = "confirmAccept" => d = "ReadyCheck")
    BY <1>9, PollKeeps DEF Confirm
  <2>2. pc' \in {"select", "confirmAccept", "confirm", "cycle"}
           /\ UNCHANGED <<finding, pending>> /\ pending = "none" /\ finding = "none"
    BY <1>9 DEF Confirm, SearchRules
  <2> QED BY <1>0, <2>1, <2>2, EndsInRead DEF Forgets, KeepsFinding, AcceptPCs
<1>10. CASE ConfirmAccept
  <2>1. PICK r : AcceptReadyCheck(r)
    BY <1>10 DEF ConfirmAccept
  <2>2. pc' \in {"confirm", "cycle"} /\ pc = "confirmAccept"
           /\ UNCHANGED <<finding, pending>> /\ pending = "none" /\ finding = "none"
    BY <1>10 DEF ConfirmAccept, SearchRules
  <2> QED BY <2>1, <2>2, EndsInAccept DEF Forgets, KeepsFinding, AcceptPCs
<1> QED BY <1>1, <1>2, <1>3, <1>4, <1>5, <1>6, <1>7, <1>8, <1>9, <1>10

LEMMA PostgameGoes ==
    ASSUME PostgameStep
    PROVE  pc \in PostgamePCs /\ pc' \in PostgamePCs \cup {"cycle", "stopped"}
<1> USE DEF PostgamePCs
<1>1. CASE PostRound
  <2>1. \A e : Branch(e) \in PostgamePCs \cup {"cycle"}
    BY DEF Branch
  <2> QED BY <1>1, <2>1 DEF PostRound
<1>2. CASE WaitBegins \/ WaitForGame \/ WaitAccept \/ Monitor \/ MonitorAccept
  BY <1>2 DEF WaitBegins, WaitForGame, WaitAccept, Monitor, MonitorAccept, StillPlaying,
              BackInQueue, GameIsOver, ProcessBegins
<1>3. CASE PostAccept \/ PostPlayAgain \/ PostDismiss \/ PostDetect \/ PostEndClick
  BY <1>3 DEF PostAccept, PostPlayAgain, PostDismiss, PostDetect, PostEndClick
<1>4. CASE PostPoll \/ PostPollAccept \/ PostScan
  BY <1>4 DEF PostPoll, PostPollAccept, PostScan, AfterPostPoll
<1>5. CASE PostCheckStart \/ PostStart \/ PostClick \/ PostGivesUp
  BY <1>5 DEF PostCheckStart, PostStart, PostClick, PostGivesUp, GivesUp
<1> QED BY <1>1, <1>2, <1>3, <1>4, <1>5 DEF PostgameStep

\* A move of the client away from the score board, asked for by the program.
LEMMA EndsInMove ==
    ASSUME SearchRules, phase \in PostgamePhases, UNCHANGED <<cache, pending>>,
           pending = "none", NEW p, MovesTo(p),
           pc' \notin MatchmakingPCs \cup AcceptPCs \cup {"begin"}
    PROVE  SearchRules'
<1>1. ~Ongoing
  BY DEF Ongoing, PostgamePhases, QuietPhases
<1> QED BY <1>1 DEF SearchRules, MovesTo, MatchmakingPCs

LEMMA PostgameKeepsSearch ==
    ASSUME ClientTypeOK, WithinReach, NoFallback, Remembered, TimerRules, SearchRules,
           PostgameStep
    PROVE  SearchRules'
<1> USE DEF PostgameStep
<1>1. /\ pc \in LatePCs /\ pending = "none"
      /\ pc' \in PostgamePCs \cup {"cycle", "stopped"}
      /\ pc' \notin MatchmakingPCs \cup {"begin", "scan2", "confirm", "confirmAccept"}
  <2>1. pc \in LatePCs /\ pc' \in PostgamePCs \cup {"cycle", "stopped"}
    BY PostgameGoes DEF LatePCs
  <2>2. (PostgamePCs \cup {"cycle", "stopped"})
            \cap (MatchmakingPCs \cup {"begin", "scan2", "confirm", "confirmAccept"}) = {}
    BY DEF PostgamePCs, MatchmakingPCs
  <2> QED BY <2>1, <2>2 DEF SearchRules
<1>2. pending' = pending => Forgets /\ KeepsFinding
  BY <1>1 DEF Forgets, KeepsFinding
<1>3. ASSUME NEW d, Reads(d), pending' = pending, pc' \in AcceptPCs => d = "ReadyCheck"
      PROVE  SearchRules'
  BY <1>1, <1>2, <1>3, EndsInRead
<1>4. ASSUME UNCHANGED <<clientVars, pending>>, pc' \notin AcceptPCs
      PROVE  SearchRules'
  BY <1>1, <1>2, <1>4, EndsInPlace DEF clientVars
<1>5. ~Reads(Fallback)
  BY ReadsAgree
<1>6. CASE WaitBegins \/ PostGivesUp
  BY <1>4, <1>6 DEF WaitBegins, PostGivesUp, GivesUp, AcceptPCs
<1>7. CASE WaitForGame \/ Monitor
  <2>1. pending' = pending
    BY <1>7 DEF WaitForGame, Monitor
  <2>2. \E d : Reads(d) /\ (pc' \in AcceptPCs => d = "ReadyCheck")
    BY <1>5, <1>7, PollKeeps DEF WaitForGame, Monitor, StillPlaying, BackInQueue, GameIsOver,
                                 ProcessBegins, AcceptPCs
  <2> QED BY <1>3, <2>1, <2>2
<1>8. CASE WaitAccept \/ MonitorAccept \/ PostAccept \/ PostPollAccept
  <2>1. PICK r \in {Act, Wait, Fallback} :
           /\ AcceptReadyCheck(r)
           /\ PostPollAccept /\ r # Fallback => AfterPostPoll(AcceptAttempt(r))
    BY <1>8 DEF WaitAccept, MonitorAccept, PostAccept, PostPollAccept
  <2>2. r # Fallback
    BY <2>1, AcceptKeeps DEF NoFallback
  <2>3. pc \in AcceptPCs /\ pc' \notin AcceptPCs /\ pending' = pending
    BY <1>8, <2>1, <2>2 DEF WaitAccept, MonitorAccept, PostAccept, PostPollAccept, BackInQueue,
                            AfterPostPoll, AcceptPCs
  <2> QED BY <1>1, <1>2, <2>1, <2>3, EndsInAccept
<1>9. CASE PostRound
  <2>1. pending' = pending
    BY <1>9 DEF PostRound
  <2>2. CASE ~Continues
    BY <1>4, <1>9, <2>1, <2>2 DEF PostRound, AcceptPCs
  <2>3. CASE Continues
    <3>1. \E d : Reads(d) /\ pc' = Branch(d)
      BY <1>9, <2>3, PollKeeps DEF PostRound
    <3>2. \A d : Branch(d) \in AcceptPCs => d = "ReadyCheck"
      BY DEF Branch, AcceptPCs
    <3> QED BY <1>3, <2>1, <3>1, <3>2
  <2> QED BY <2>2, <2>3
<1>10. CASE PostPlayAgain \/ PostDismiss \/ PostEndClick
  <2>1. \/ UNCHANGED clientVars
        \/ (\E p : MovesTo(p)) /\ phase \in PostgamePhases
    BY <1>10 DEF PostPlayAgain, PostDismiss, PostEndClick, MoveRequest, Rejected, Lost,
                 PostgamePhases
  <2>2. pending' = pending
    BY <1>10 DEF PostPlayAgain, PostDismiss, PostEndClick
  <2>3. pc' \notin AcceptPCs
    BY <1>10 DEF PostPlayAgain, PostDismiss, PostEndClick, AcceptPCs
  <2>4. (\E p : MovesTo(p)) => cache' = cache
    BY DEF MovesTo
  <2> QED BY <1>1, <1>4, <2>1, <2>2, <2>3, <2>4, EndsInMove
<1>11. CASE PostDetect
  <2>1. pending' = pending /\ pc' \notin AcceptPCs
    BY <1>11 DEF PostDetect, AcceptPCs
  <2>2. UNCHANGED clientVars \/ (\E d : Reads(d))
    BY <1>11, DetectKeeps DEF PostDetect
  <2> QED BY <1>3, <1>4, <2>1, <2>2
<1>12. CASE PostPoll \/ PostCheckStart
  <2>1. pending' = pending
    BY <1>12 DEF PostPoll, PostCheckStart
  <2>2. \E d : Reads(d) /\ (pc' \in AcceptPCs => d = "ReadyCheck")
    BY <1>12, PollKeeps DEF PostPoll, PostCheckStart, AfterPostPoll, AcceptPCs
  <2> QED BY <1>3, <2>1, <2>2
<1>13. CASE PostScan
  <2>1. PICK t : Scan(t) /\ AfterPostPoll(t)
    BY <1>13 DEF PostScan
  <2>2. ~t.finding
    BY <1>13, <2>1, ScanSeesNoSearch DEF PostScan, NoFallback
  <2>3. UNCHANGED clientVars
    BY <2>1, <2>2 DEF Scan, ScanFindsNothing, ScanClosesModal, ScanFindsSearch,
                      ScanFindsAccept, Attempt
  <2>4. pending' = pending /\ pc' \notin AcceptPCs
    BY <1>13, <2>1 DEF PostScan, AfterPostPoll, AcceptPCs
  <2> QED BY <1>4, <2>3, <2>4
<1>14. CASE PostStart
  <2>1. PICK r \in {Act, Wait, Fallback} :
               /\ RequestStart(r)
               /\ CASE r = Act -> ReturnsTrue
                    [] r = Fallback /\ via = "screen" -> Stays("postClick") /\ UNCHANGED flagVars
                    [] r = Fallback /\ via = "lobby" /\ playAgain # "done" ->
                           Stays("postDetect") /\ UNCHANGED flagVars
                    [] OTHER -> RoundEnds /\ UNCHANGED flagVars
    BY <1>14 DEF PostStart
  <2>2. /\ StartSearchRequest(r)
        /\ pending' = IF r = Act THEN "fresh" ELSE pending
        /\ r = Act => pc' = "cycle"
    BY <2>1 DEF RequestStart, Act, Fallback, Wait
  <2>3. UNCHANGED <<phase, accepted, cache, search>>
    BY <2>2 DEF StartSearchRequest, Rejected, Lost, clientVars
  <2>4. CASE r = Act
    <3>1. searchAsked'
      BY <2>2, <2>4 DEF StartSearchRequest, Rejected, Lost, Act, Wait, Fallback
    <3>2. cache \in QuietReads
      BY <1>14 DEF Remembered, PostStart
    <3> QED BY <2>2, <2>3, <2>4, <3>1, <3>2
            DEF SearchRules, EarlyReads, QuietReads, QuietPhases, NoDecision, LatePCs,
                PostgamePCs, AcceptPCs, MatchmakingPCs
  <2>5. CASE r # Act
    <3>1. searchAsked' = searchAsked
      BY <2>2, <2>5, StartKeeps DEF NoFallback
    <3>2. pc' \notin AcceptPCs
      BY <1>14 DEF PostStart, AcceptPCs
    <3> QED BY <1>1, <1>2, <2>2, <2>3, <2>5, <3>1, <3>2, EndsInPlace
  <2> QED BY <2>4, <2>5
<1>15. CASE PostClick
  BY <1>15 DEF PostClick, NoFallback
<1> QED BY <1>6, <1>7, <1>8, <1>9, <1>10, <1>11, <1>12, <1>13, <1>14, <1>15

LEMMA CycleKeepsSearch ==
    ASSUME ClientTypeOK, WithinReach, NoFallback, TimerRules, SearchRules, CycleStep
    PROVE  SearchRules'
<1>1. CASE CycleBegins
  <2>1. PICK d : /\ Reads(d)
                 /\ pc' \in {"cycle", "monitor", "resume", "begin"}
                 /\ pc' = "monitor" => d \in {"InProgress", Fallback}
                 /\ pc' = "resume" => d \in PostgamePhases
                 /\ pc' = "begin" => held' = d
    BY <1>1, PollKeeps DEF CycleBegins
  <2>2. UNCHANGED <<finding, pending>>
    BY <1>1 DEF CycleBegins
  <2>3. pc' \in LatePCs => pending = "none"
    <3>1. d \in Phases /\ (pending # "none" => d \in EarlyReads)
      BY <2>1, ReadsEarly
    <3>2. pc' \in LatePCs => d \in {"InProgress", Fallback} \cup PostgamePhases
      BY <2>1 DEF LatePCs, PostgamePCs
    <3> QED BY <3>1, <3>2 DEF EarlyReads, QuietReads, QuietPhases, PostgamePhases, Phases,
                              NoDecision, Fallback
  <2>4. Forgets /\ KeepsFinding /\ pc' \notin AcceptPCs \cup {"scan2"}
    BY <2>1, <2>2, <2>3 DEF Forgets, KeepsFinding, AcceptPCs, MatchmakingPCs
  <2> QED BY <2>1, <2>4, EndsInRead
<1>2. CASE CycleResumes \/ CycleClosesPopup
  <2>1. UNCHANGED clientVars /\ UNCHANGED <<finding, pending>>
    BY <1>2 DEF CycleResumes, CycleClosesPopup, Shows
  <2>2. /\ pc' \in {"post", "stopped", "cycle"}
        /\ pc' = "post" => pc = "resume"
    BY <1>2 DEF CycleResumes, CycleClosesPopup, ProcessBegins
  <2>3. pc = "resume" => pending = "none"
    BY DEF SearchRules, LatePCs
  <2>4. Forgets /\ KeepsFinding /\ pc' \notin AcceptPCs \cup {"begin", "scan2"}
    BY <2>1, <2>2, <2>3 DEF Forgets, KeepsFinding, AcceptPCs, MatchmakingPCs, LatePCs,
                            PostgamePCs
  <2> QED BY <2>1, <2>4, EndsInPlace DEF clientVars
<1>3. CASE CycleRunsMatchmaking
  <2>1. UNCHANGED clientVars \/ (MovesTo("Lobby") /\ phase = "None"
                                   /\ UNCHANGED <<searchAsked, search>>)
    BY <1>3 DEF CycleRunsMatchmaking, MoveRequest, Rejected, Lost
  <2>2. Ongoing => Ongoing'
    BY <2>1 DEF Ongoing, MovesTo, QuietPhases, clientVars
  <2>3. UNCHANGED <<cache, searchAsked>>
    BY <2>1 DEF MovesTo, clientVars
  <2>4. /\ pc = "begin" /\ pc' = "poll"
        /\ finding' = IF held = "Matchmaking" THEN "lcu" ELSE "none"
        /\ pending' = IF held = "Matchmaking" THEN "none" ELSE pending
    BY <1>3 DEF CycleRunsMatchmaking, RunBegins
  <2> QED BY <2>2, <2>3, <2>4 DEF SearchRules, LatePCs, PostgamePCs, AcceptPCs
<1>4. CASE SelectGoesOn \/ SelectLeaves
  <2>1. PICK d : Reads(d)
    BY <1>4, PollKeeps DEF SelectGoesOn, SelectLeaves
  <2>2. pc = "select" /\ pc' \in {"select", "cycle", "waitStart"}
           /\ UNCHANGED <<finding, pending>>
    BY <1>4 DEF SelectGoesOn, SelectLeaves, Shows
  <2>3. Forgets /\ KeepsFinding /\ pc' \notin AcceptPCs \cup {"begin", "scan2"}
    BY <2>2 DEF SearchRules, Forgets, KeepsFinding, AcceptPCs, MatchmakingPCs, LatePCs
  <2> QED BY <2>1, <2>3, EndsInRead
<1> QED BY <1>1, <1>2, <1>3, <1>4 DEF CycleStep

-----------------------------------------------------------------------------
(* The client, the user, and the theorem.                                  *)

LEMMA ClientKeepsSearch ==
    ASSUME ClientTypeOK, WithinReach, NoFallback, SearchRules, ClientNext, link' = link,
           UNCHANGED <<pc, finding, pending, held>>
    PROVE  SearchRules'
<1> USE DEF MovesTo
<1>1. /\ Ongoing => Ongoing'
      /\ searchAsked => Ongoing' \/ searchAsked'
      /\ cache' \in {cache, NoDecision}
      /\ seen' => seen /\ phase' = phase
  <2> USE DEF Ongoing, QuietPhases, WithinReach
  <2>1. CASE UserStartsSearch \/ UserCancelsSearch \/ UserDodges
    BY <2>1 DEF UserStartsSearch, UserCancelsSearch, UserDodges
  <2>2. CASE UserLeavesPostgame \/ UserEntersLobby \/ UserLeavesLobby
    BY <2>2 DEF UserLeavesPostgame, UserEntersLobby, UserLeavesLobby
  <2>3. CASE SearchBegins \/ MatchFound \/ EveryoneAccepts \/ SomeoneDeclines \/ ReadyCheckFails
    BY <2>3 DEF SearchBegins, MatchFound, EveryoneAccepts, SomeoneDeclines, ReadyCheckFails
  <2>4. CASE SomeoneDodges \/ GameStarts \/ GameEnds \/ PostgameAdvances
    BY <2>4 DEF SomeoneDodges, GameStarts, GameEnds, PostgameAdvances, PostgamePhases
  <2>5. CASE LinkActs
    BY <2>5 DEF LinkActs, CacheExpires, LinkBreaks, LinkRecovers
  <2> QED BY <2>1, <2>2, <2>3, <2>4, <2>5 DEF ClientNext, UserActs, ClientActs
<1>2. cache' = "Matchmaking" => cache = "Matchmaking"
  BY <1>1 DEF NoDecision
<1> QED BY <1>1, <1>2 DEF SearchRules, EarlyReads, QuietReads

SearchInv == HealthyLink => SearchRules

LEMMA SearchInvIsInductive ==
    ASSUME TypeOK, RequestInv, TimerInv, SearchInv, [Next]_vars
    PROVE  SearchInv'
<1> SUFFICES ASSUME HealthyLink'
             PROVE  SearchRules'
  BY DEF SearchInv
<1>1. ClientTypeOK /\ WithinReach
  BY DEF TypeOK, RequestInv
<1>2. CASE Program
  <2>1. HealthyLink
    BY <1>1, <1>2, CycleKeeps, MatchmakingKeeps, PostgameKeeps
       DEF Program, HealthyLink, LinkSame
  <2>2. NoFallback /\ Remembered /\ TimerRules /\ SearchRules
    BY <2>1 DEF RequestInv, TimerInv, SearchInv
  <2> QED BY <1>1, <1>2, <2>2, CycleKeepsSearch, MatchmakingKeepsSearch, PostgameKeepsSearch
          DEF Program
<1>3. CASE Surroundings /\ ClientStep
  <2>1. ClientNext /\ UNCHANGED <<pc, finding, pending, held>>
    BY <1>3 DEF Surroundings, ClientStep, searchVars
  <2>2. HealthyLink /\ (link = "ok" => link' = "ok")
    BY <1>1, <2>1, ClientKeeps
  <2>3. NoFallback /\ SearchRules
    BY <2>2 DEF RequestInv, SearchInv
  <2> QED BY <1>1, <2>1, <2>2, <2>3, ClientKeepsSearch DEF NoFallback
<1>4. CASE (Surroundings /\ ~ClientStep) \/ UNCHANGED vars
  <2>1. /\ UNCHANGED <<clientVars, pc, finding, held>>
        /\ pending' = pending \/ pending = "fresh"
    BY <1>4 DEF Surroundings, World, GraceElapses, UserTogglesContinue, vars, searchVars
  <2>2. HealthyLink /\ Ongoing' = Ongoing
    BY <2>1 DEF clientVars, HealthyLink, Ongoing
  <2> QED BY <2>1, <2>2 DEF SearchInv, SearchRules, clientVars
<1> QED BY <1>2, <1>3, <1>4 DEF Next

\* The tracker takes a search for cancelled on the strength of a lobby that it has read.
LEMMA CancelledInLobby ==
    ASSUME NoFallback, Remembered, SearchRules, pc \in MatchmakingPCs,
           NEW t, NEW complete, Cancelled(t, complete), t.action # Fallback
    PROVE  t.phase = "Lobby" /\ Ongoing
<1>1. t.phase = "Lobby" /\ (finding # "none" \/ pending = "old")
  BY DEF Cancelled, SearchGone, GraceOver
<1>2. searchAsked => pending # "old"
  BY DEF Remembered
<1> QED BY <1>1, <1>2 DEF SearchRules

LEMMA StopsInLobby ==
    ASSUME ClientTypeOK, WithinReach, NoFallback, Remembered, TimerRules, SearchRules,
           MatchmakingStep, pc' = "stopped"
    PROVE  search \in {"cancelled", "lost"} \/ ~seen'
<1> USE DEF MatchmakingStep
<1> SUFFICES ASSUME seen' PROVE phase = "Lobby" /\ Ongoing
  BY DEF Ongoing
<1>0. pc \in MatchmakingPCs
  BY DEF MatchmakingPCs, Poll, Accept, WindowPoll, WindowAccept, WindowScan, Detect,
         CheckStart, Start, Click, Confirm, ConfirmAccept
<1>1. CASE Poll \/ WindowPoll
  <2>1. PICK d : Reads(d) /\ (AfterPoll(PhaseAttempt(d)) \/ AfterWindowPoll(PhaseAttempt(d)))
    BY <1>1, PollKeeps DEF Poll, WindowPoll
  <2>2. d \in Phases /\ d = phase
    BY <2>1, ReadsEarly
  <2> DEFINE t == PhaseAttempt(d)
  <2>3. t.action = Act /\ t.phase = d
    BY <2>2, PhaseAttempts
  <2>4. \E c : Cancelled(t, c)
    BY <2>1 DEF AfterPoll, AfterWindowPoll
  <2> HIDE DEF t
  <2> QED BY <1>0, <2>2, <2>3, <2>4, CancelledInLobby DEF Act, Fallback
<1>2. CASE Accept \/ WindowAccept
  <2>1. PICK r \in {Act, Wait, Fallback} :
           /\ AcceptReadyCheck(r)
           /\ r # Fallback => AfterPoll(AcceptAttempt(r)) \/ AfterWindowPoll(AcceptAttempt(r))
    BY <1>2 DEF Accept, WindowAccept
  <2>2. r \in {Act, Wait} /\ r # Fallback
    BY <2>1, AcceptKeeps DEF NoFallback, Act, Wait, Fallback
  <2> DEFINE t == AcceptAttempt(r)
  <2>3. t.action = r /\ t.phase = "ReadyCheck"
    BY <2>2, AcceptAttempts
  <2>4. \E c : Cancelled(t, c)
    BY <2>1, <2>2 DEF AfterPoll, AfterWindowPoll
  <2> HIDE DEF t
  <2> QED BY <1>0, <2>2, <2>3, <2>4, CancelledInLobby
<1>3. CASE WindowScan
  <2>1. PICK t : Scan(t) /\ AfterWindowPoll(t)
    BY <1>3 DEF WindowScan
  <2>2. held \in Phases \cup {NoDecision} /\ held \notin DecidedByPhase \cup {"ReadyCheck"}
    BY <1>3 DEF WindowScan, NoFallback
  <2>3. /\ UNCHANGED clientVars
        /\ t \in {Attempt(FALSE, FALSE, Act, held),
                  Attempt(FALSE, FALSE, LoopAction(held), held)}
    <3>1. ScanFindsNothing(t) \/ ScanClosesModal(t)
      <4>1. ~ImagesAllowed
        BY <2>2 DEF ImagesAllowed, Phases, PostgamePhases, NoDecision, Fallback
      <4> QED BY <2>1, <4>1 DEF Scan, ScanFindsSearch, ScanFindsAccept
    <3> QED BY <3>1 DEF ScanFindsNothing, ScanClosesModal
  <2>4. t.action # Fallback /\ (t.phase = "Lobby" => held = "Lobby")
    <3>1. /\ t.action \in {Act, LoopAction(held)}
          /\ t.phase = IF held \in Phases THEN held ELSE "unknown"
      BY <2>3 DEF Attempt
    <3>2. LoopAction(held) \in {Act, NoDecision}
      BY <2>2 DEF LoopAction
    <3> QED BY <3>1, <3>2 DEF Act, Fallback, NoDecision
  <2>5. \E c : Cancelled(t, c)
    BY <2>1 DEF AfterWindowPoll
  <2>6. held = "Lobby" /\ Ongoing
    BY <1>0, <2>4, <2>5, CancelledInLobby
  <2>7. held = phase
    BY <1>3, <2>3 DEF WindowScan, SearchRules, clientVars
  <2> QED BY <2>6, <2>7
<1>4. CASE Detect \/ CheckStart \/ Start \/ Click \/ Confirm \/ ConfirmAccept
  BY <1>4 DEF Detect, CheckStart, Start, Click, Confirm, ConfirmAccept, SearchRequested
<1> QED BY <1>1, <1>2, <1>3, <1>4

\* Over a healthy link a run that ends for a cancellation does not end for a search that is
\* still on, in whatever order requests, answers, cached reads and the user's moves come
\* (MatchmakingSearchTracker.observe; the grace after a start request).
THEOREM StopsAreDeserved == Spec => StopsOnlyForAnEndedSearch
<1>1. Init => SearchInv
  BY DEF Init, ClientInit, RuntimeInit, MatchmakingInit, SearchInv, SearchRules, LatePCs,
         PostgamePCs, AcceptPCs, NoDecision
<1>2. TypeOK /\ RequestInv /\ TimerInv /\ SearchInv /\ [Next]_vars => SearchInv'
  BY SearchInvIsInductive
<1>3. TypeOK /\ RequestInv /\ TimerInv /\ SearchInv /\ [Next]_vars
        => [(pc \in MatchmakingPCs /\ pc' = "stopped")
              => (search \in {"cancelled", "lost"} \/ ~seen' \/ ~HealthyLink)]_vars
  <2> SUFFICES ASSUME TypeOK, RequestInv, TimerInv, SearchInv, Next, pc \in MatchmakingPCs,
                      pc' = "stopped", HealthyLink
               PROVE  search \in {"cancelled", "lost"} \/ ~seen'
    BY DEF vars
  <2>1. ClientTypeOK /\ WithinReach /\ NoFallback /\ Remembered /\ TimerRules /\ SearchRules
    BY DEF TypeOK, RequestInv, TimerInv, SearchInv
  <2>2. MatchmakingStep
    <3>1. ~Surroundings
      BY DEF Surroundings, World, ClientStep, GraceElapses, UserTogglesContinue,
             MatchmakingPCs
    <3> QED BY <3>1, OthersStart DEF Next, Program
  <2> QED BY <2>1, <2>2, StopsInLobby
<1> QED BY <1>1, <1>2, <1>3, TimerInvHolds, RequestInvHolds, PTL
        DEF Spec, StopsOnlyForAnEndedSearch

-----------------------------------------------------------------------------
(* The cancelled search that does not end the run.  This part holds for    *)
(* any number of link failures.                                            *)

\* Once a search is cancelled the client is out of the queue until another one begins;
\* and a cached phase that is not the client's is older than its last change.
CancelledClient ==
    /\ search = "cancelled" => phase \in {"Lobby", "None"}
    /\ cache \in Phases /\ seen => cache = phase

LEMMA PhasesAreNoFailures ==
    Fallback \notin Phases /\ Wait \notin Phases /\ NoDecision \notin Phases
BY DEF Phases, PostgamePhases, Fallback, Wait, NoDecision

\* Reading leaves the client alone, and caches what it reports.
LEMMA ReadsAgain ==
    ASSUME CancelledClient, ClientTypeOK, NEW d, Reads(d)
    PROVE  /\ CancelledClient'
           /\ UNCHANGED <<phase, search, accepted>>
           /\ d \in Phases /\ seen' => d = phase
BY PhasesAreNoFailures DEF CancelledClient, Reads, Answer, clientVars, ClientTypeOK, LinkTypeOK

\* Requests, clicks and the end buttons do not touch a cancelled search.
LEMMA ActsAgain ==
    ASSUME CancelledClient, NEW r,
           \/ StartSearchRequest(r) \/ AcceptReadyCheck(r)
           \/ \E to \in {"Lobby", "None"}, from \in Phases : MoveRequest(from, to, r)
           \/ UNCHANGED <<phase, seen, cache, search>>
    PROVE  CancelledClient'
BY DEF CancelledClient, StartSearchRequest, AcceptReadyCheck, AcceptRequest, MoveRequest,
       MovesTo, Rejected, Lost, clientVars

LEMMA ScansAgain ==
    ASSUME CancelledClient, NEW t, Scan(t)
    PROVE  CancelledClient'
<1>1. UNCHANGED <<phase, seen, cache, search>>
  <2>1. CASE ScanFindsNothing(t)
    BY <2>1 DEF ScanFindsNothing, clientVars
  <2>2. CASE ScanClosesModal(t)
    BY <2>2 DEF ScanClosesModal, clientVars
  <2>3. CASE ScanFindsSearch(t)
    BY <2>3 DEF ScanFindsSearch, clientVars
  <2>4. CASE ScanFindsAccept(t)
    BY <2>4 DEF ScanFindsAccept, clientVars
  <2> QED BY <2>1, <2>2, <2>3, <2>4 DEF Scan
<1> QED BY <1>1 DEF CancelledClient

LEMMA DetectsAgain ==
    ASSUME CancelledClient, ClientTypeOK, NEW found, DetectsSelect(found)
    PROVE  CancelledClient'
BY ReadsAgain DEF DetectsSelect, PollPhase

\* The client, the player and the link.
LEMMA ClientGoesOn ==
    ASSUME CancelledClient, ClientTypeOK, ClientNext
    PROVE  CancelledClient' /\ (~seen => ~seen')
<1> USE PhasesAreNoFailures DEF CancelledClient, MovesTo
<1>1. CASE UserActs
  BY <1>1 DEF UserActs, UserStartsSearch, UserCancelsSearch, UserDodges,
              UserLeavesPostgame, UserEntersLobby, UserLeavesLobby
<1>2. CASE ClientActs
  BY <1>2 DEF ClientActs, SearchBegins, MatchFound, EveryoneAccepts, SomeoneDeclines,
              ReadyCheckFails, SomeoneDodges, GameStarts, GameEnds, PostgameAdvances
<1>3. CASE LinkActs
  BY <1>3 DEF LinkActs, CacheExpires, LinkBreaks, LinkRecovers
<1> QED BY <1>1, <1>2, <1>3 DEF ClientNext

LEMMA ProgramGoesOn ==
    ASSUME CancelledClient, TypeOK, Program
    PROVE  CancelledClient'
<1>0. ClientTypeOK
  BY DEF TypeOK
<1>1. CASE MatchmakingStep
  <2> USE DEF MatchmakingStep
  <2>1. CASE Poll \/ WindowPoll \/ CheckStart \/ Confirm
    BY <1>0, <2>1, ReadsAgain DEF Poll, WindowPoll, CheckStart, Confirm, PollPhase
  <2>2. CASE Accept \/ WindowAccept \/ ConfirmAccept \/ Start \/ Click
    BY <2>2, ActsAgain DEF Accept, WindowAccept, ConfirmAccept, Start, Click, clientVars
  <2>3. CASE WindowScan \/ Detect
    BY <1>0, <2>3, ScansAgain, DetectsAgain DEF WindowScan, Detect
  <2> QED BY <1>1, <2>1, <2>2, <2>3
<1>2. CASE PostgameStep
  <2> USE DEF PostgameStep
  <2>1. CASE WaitBegins \/ WaitForGame \/ WaitAccept
    BY <1>0, <2>1, ReadsAgain, ActsAgain
    DEF WaitBegins, WaitForGame, WaitAccept, PollPhase, clientVars
  <2>2. CASE Monitor \/ MonitorAccept
    BY <1>0, <2>2, ReadsAgain, ActsAgain
    DEF Monitor, MonitorAccept, GameIsOver, PollPhase
  <2>3. CASE PostRound \/ PostPoll \/ PostCheckStart
    BY <1>0, <2>3, ReadsAgain, ActsAgain
    DEF PostRound, PostPoll, PostCheckStart, PollPhase, clientVars
  <2>4. CASE PostAccept \/ PostPollAccept \/ PostStart \/ PostClick
    BY <2>4, ActsAgain DEF PostAccept, PostPollAccept, PostStart, PostClick, RequestStart,
                           clientVars
  <2>5. CASE PostPlayAgain \/ PostDismiss
    BY <2>5, ActsAgain DEF PostPlayAgain, PostDismiss, Phases, PostgamePhases
  <2>6. CASE PostDetect \/ PostScan
    BY <1>0, <2>6, ScansAgain, DetectsAgain, ActsAgain DEF PostDetect, PostScan, clientVars
  <2>7. CASE PostEndClick
    BY <2>7 DEF PostEndClick, CancelledClient, MovesTo, clientVars
  <2>8. CASE PostGivesUp
    BY <2>8, ActsAgain DEF PostGivesUp, GivesUp, clientVars
  <2> QED BY <1>2, <2>1, <2>2, <2>3, <2>4, <2>5, <2>6, <2>7, <2>8
<1>3. CASE CycleStep
  BY <1>0, <1>3, ReadsAgain, ActsAgain
  DEF CycleStep, CycleBegins, CycleResumes, CycleClosesPopup, CycleRunsMatchmaking,
      SelectGoesOn, SelectLeaves, PollPhase, Phases, clientVars
<1> QED BY <1>1, <1>2, <1>3 DEF Program

\* A ready check that is read while waiting for champion select is accepted at once: a
\* search that ends before that has not been seen to end.
ConfirmsWhatItSaw == pc = "confirmAccept" => phase = "ReadyCheck" \/ ~seen

LEMMA ConfirmsGoOn ==
    ASSUME CancelledClient, ConfirmsWhatItSaw, TypeOK, [Next]_vars
    PROVE  ConfirmsWhatItSaw'
<1>1. CASE MatchmakingStep /\ pc' = "confirmAccept"
  <2>1. CASE Poll \/ Accept
    BY <1>1, <2>1 DEF Poll, Accept, AfterPoll
  <2>2. CASE WindowPoll \/ WindowAccept \/ WindowScan
    BY <1>1, <2>2 DEF WindowPoll, WindowAccept, WindowScan, AfterWindowPoll
  <2>3. CASE Detect \/ CheckStart \/ Start \/ Click \/ ConfirmAccept
    BY <1>1, <2>3 DEF Detect, CheckStart, Start, Click, SearchRequested, ConfirmAccept
  <2>4. CASE Confirm
    <3>1. Reads("ReadyCheck")
      BY <1>1, <2>4 DEF Confirm, PollPhase
    <3> QED BY <3>1, ReadsAgain DEF ConfirmsWhatItSaw, TypeOK, Phases
  <2> QED BY <1>1, <2>1, <2>2, <2>3, <2>4 DEF MatchmakingStep
<1>2. CASE PostgameStep \/ CycleStep
  BY <1>2, OthersLeaveStage DEF ConfirmsWhatItSaw, MatchmakingPCs
<1>3. CASE Surroundings
  <2>1. CASE ClientStep
    <3>1. phase' = phase \/ ~seen'
      BY <2>1 DEF ClientStep, ClientNext, UserActs, UserStartsSearch, UserCancelsSearch,
         UserDodges, UserLeavesPostgame, UserEntersLobby, UserLeavesLobby, ClientActs,
         SearchBegins, MatchFound, EveryoneAccepts, SomeoneDeclines, ReadyCheckFails,
         SomeoneDodges, GameStarts, GameEnds, PostgameAdvances, LinkActs, CacheExpires,
         LinkBreaks, LinkRecovers, MovesTo
    <3>2. ~seen => ~seen'
      BY <2>1, ClientGoesOn DEF ClientStep, TypeOK
    <3> QED BY <2>1, <3>1, <3>2 DEF ClientStep, ConfirmsWhatItSaw
  <2> QED BY <1>3, <2>1 DEF Surroundings, World, GraceElapses, UserTogglesContinue,
             ConfirmsWhatItSaw, clientVars
<1>4. CASE UNCHANGED vars
  BY <1>4 DEF vars, clientVars, ConfirmsWhatItSaw
<1> QED BY <1>1, <1>2, <1>3, <1>4 DEF Next, Program, ConfirmsWhatItSaw

CancelInv == TypeOK /\ WatchInv /\ CancelledClient /\ ConfirmsWhatItSaw

LEMMA CancelInvHolds == Spec => []CancelInv
<1>1. Init => WatchInv /\ CancelledClient /\ ConfirmsWhatItSaw
  BY DEF Init, MatchmakingInit, ClientInit, WatchInv, CancelledClient, ConfirmsWhatItSaw
<1>2. TypeOK /\ CancelledClient /\ [Next]_vars => CancelledClient'
  <2> SUFFICES ASSUME TypeOK, CancelledClient, [Next]_vars PROVE CancelledClient'
    OBVIOUS
  <2>1. CASE Program
    BY <2>1, ProgramGoesOn
  <2>2. CASE Surroundings
    BY <2>2, ClientGoesOn, ActsAgain
    DEF Surroundings, World, ClientStep, GraceElapses, UserTogglesContinue, TypeOK,
        clientVars
  <2>3. CASE UNCHANGED vars
    BY <2>3, ActsAgain DEF vars, clientVars
  <2> QED BY <2>1, <2>2, <2>3 DEF Next
<1> QED BY <1>1, <1>2, WatchInvIsInductive, ConfirmsGoOn, TypeIsKept, PTL
        DEF Spec, CancelInv

\* The way out of the watch over a search that is known to be cancelled.
LEMMA QueueLeavesCancelled ==
    ASSUME CancelInv, MatchmakingStep, stage = "watch", stage' = "entry",
           search = "cancelled", seen'
    PROVE  pc' = "stopped" \/ (pc = "confirm" /\ pc' = "cycle")
<1>0. ClientTypeOK /\ CancelledClient /\ phase \in {"Lobby", "None"}
  BY DEF CancelInv, TypeOK, CancelledClient
<1>1. \A d : Reads(d) => d # "ChampSelect"
  BY <1>0, ReadsAgain DEF Phases
<1>2. CASE Poll
  <2>1. PICK d \in Decisions : Reads(d) /\ AfterPoll(PhaseAttempt(d))
    BY <1>2 DEF Poll, PollPhase
  <2> QED BY <1>1, <2>1 DEF AfterPoll, PhaseAttempt, Attempt
<1>3. CASE Accept
  BY <1>3 DEF Accept, AfterPoll, AcceptAttempt, Attempt
<1>4. CASE WindowPoll
  <2>1. PICK d \in Decisions : AfterWindowPoll(PhaseAttempt(d))
    BY <1>4 DEF WindowPoll
  <2> QED BY <2>1 DEF AfterWindowPoll, PhaseAttempt, Attempt
<1>5. CASE WindowAccept
  <2>1. PICK r : r # Fallback /\ AfterWindowPoll(AcceptAttempt(r))
    BY <1>5 DEF WindowAccept
  <2> QED BY <2>1 DEF AfterWindowPoll, AcceptAttempt, Attempt, Act, Fallback
<1>6. CASE WindowScan
  <2>1. PICK t : Scan(t) /\ AfterWindowPoll(t)
    BY <1>6 DEF WindowScan
  <2>2. ~t.accepted
    <3>1. ~ScanFindsAccept(t)
      BY <1>0 DEF ScanFindsAccept, OnScreen
    <3>2. t.accepted = FALSE
      BY <2>1, <3>1 DEF Scan, ScanFindsNothing, ScanClosesModal, ScanFindsSearch, Attempt
    <3> QED BY <3>2
  <2> QED BY <2>1, <2>2 DEF AfterWindowPoll
<1>7. CASE Detect
  <2>1. ~DetectsSelect(TRUE)
    BY <1>0, <1>1 DEF DetectsSelect, PollPhase, OnScreen
  <2> QED BY <1>7, <2>1 DEF Detect
<1>8. CASE Confirm
  <2>1. PICK d \in Decisions : Reads(d) /\ (d = "ChampSelect" \/ Exits("cycle"))
    BY <1>8 DEF Confirm, PollPhase
  <2> QED BY <1>1, <1>8, <2>1 DEF Confirm
<1>9. CASE ConfirmAccept
  <2>1. ~seen
    BY <1>0, <1>9 DEF CancelInv, ConfirmsWhatItSaw, ConfirmAccept
  <2>2. UNCHANGED seen
    BY <1>0, <1>9 DEF ConfirmAccept, AcceptReadyCheck, AcceptRequest, Rejected, Lost,
                      clientVars
  <2> QED BY <2>1, <2>2
<1>10. CASE CheckStart \/ Start \/ Click
  BY <1>10 DEF CheckStart, Start, Click, SearchRequested
<1> QED BY <1>2, <1>3, <1>4, <1>5, <1>6, <1>7, <1>8, <1>9, <1>10 DEF MatchmakingStep

\* README: cancelling the search by hand in the lobby ends the run.  Whatever fails, there is
\* one place where a cancelled search of the program's own that it has read does not: the
\* wait for champion select after an accepted ready check, which gives way to a new round of
\* the main loop (_wait_for_champ_select_after_match_accept; the run cancel_ends shows it).
CancelsAreMissedOnlyInConfirm ==
    [][(stage = "watch" /\ stage' = "entry" /\ search = "cancelled" /\ seen')
            => pc' = "stopped" \/ (pc = "confirm" /\ pc' = "cycle")]_vars

\* The same as a theorem: the watch loop and the scans end the run for every cancelled search
\* that they have read, over any link (MatchmakingSearchTracker.observe, cli/matchmaking.py).
THEOREM CancelledSearchesEnd == Spec => CancelsAreMissedOnlyInConfirm
<1>1. CancelInv /\ [Next]_vars
        => [(stage = "watch" /\ stage' = "entry" /\ search = "cancelled" /\ seen')
            => pc' = "stopped" \/ (pc = "confirm" /\ pc' = "cycle")]_vars
  <2> SUFFICES ASSUME CancelInv, Next, stage = "watch", stage' = "entry",
                      search = "cancelled", seen'
               PROVE  pc' = "stopped" \/ (pc = "confirm" /\ pc' = "cycle")
    OBVIOUS
  <2>1. CASE MatchmakingStep
    BY <2>1, QueueLeavesCancelled
  <2>2. CASE PostgameStep \/ CycleStep
    BY <2>2, OthersStart DEF CancelInv, WatchInv
  <2>3. CASE Surroundings
    BY <2>3 DEF Surroundings, World, ClientStep, GraceElapses, UserTogglesContinue,
                searchVars
  <2> QED BY <2>1, <2>2, <2>3 DEF Next, Program
<1> QED BY <1>1, CancelInvHolds, PTL DEF Spec, CancelsAreMissedOnlyInConfirm

=============================================================================
