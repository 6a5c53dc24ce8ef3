------------------------- MODULE AutomationCycle_proofs -------------------------
(***************************************************************************)
(* Theorems about the main loop, for every number of link failures: its    *)
(* type invariant, the memory of a start request that is under way, and    *)
(* the implementation of the abstract OneGamePromise.                      *)
(***************************************************************************)
EXTENDS AutomationCycle, TLAPS

USE DEF Goes, Exits, GoesOn, Stays, RoundEnds, Returns, ReturnsTrue, ReturnsFalse,
        cycleKept, searchKept, prefVars, postVars, flagVars, runtimeVars

-----------------------------------------------------------------------------
(* Types of the steps the modules share.                                   *)

StateTypeOK == shown \in ClientStates /\ timer \in BOOLEAN
TrackerTypeOK == finding \in {"none", "lcu", "image"} /\ pending \in {"none", "fresh", "old"}

LEMMA ReadsType ==
    ASSUME ClientTypeOK, NEW d \in Decisions, Reads(d)
    PROVE  ClientTypeOK'
BY DEF ClientTypeOK, LinkTypeOK, Reads, clientVars

LEMMA ShowsType ==
    ASSUME StateTypeOK, NEW v \in ClientStates, Shows(v)
    PROVE  StateTypeOK'
BY DEF StateTypeOK, Shows, TimerAfter

LEMMA StateOfType ==
    ASSUME NEW d \in Phases \ {"None"}
    PROVE  StateOf(d) \in ClientStates
BY DEF Phases, PostgamePhases, StateOf, ClientStates

LEMMA PollPhaseType ==
    ASSUME ClientTypeOK, StateTypeOK, NEW d \in Decisions, PollPhase(d)
    PROVE  ClientTypeOK' /\ StateTypeOK'
<1>1. ClientTypeOK'
  BY ReadsType DEF PollPhase
<1>2. StateTypeOK'
  <2>1. CASE d \in Phases \ {"None"} /\ ~PreservesSelect(d)
    BY <2>1, StateOfType, ShowsType DEF PollPhase
  <2>2. CASE ~(d \in Phases \ {"None"} /\ ~PreservesSelect(d))
    BY <2>2 DEF PollPhase, ShowsNothingNew, StateTypeOK
  <2> QED BY <2>1, <2>2
<1> QED BY <1>1, <1>2

LEMMA RequestsType ==
    ASSUME ClientTypeOK, NEW r,
           \/ StartSearchRequest(r)
           \/ AcceptReadyCheck(r)
           \/ \E from \in Phases, to \in Phases : MoveRequest(from, to, r)
    PROVE  ClientTypeOK'
BY DEF ClientTypeOK, LinkTypeOK, StartSearchRequest, AcceptReadyCheck, AcceptRequest,
       MoveRequest, MovesTo, Rejected, Lost, clientVars

LEMMA ClientNextType ==
    ASSUME ClientTypeOK, ClientNext
    PROVE  ClientTypeOK'
<1> USE DEF ClientTypeOK, LinkTypeOK, MovesTo, Phases, PostgamePhases
<1>1. CASE UserActs
  BY <1>1 DEF UserActs, UserStartsSearch, UserCancelsSearch, UserDodges,
              UserLeavesPostgame, UserEntersLobby, UserLeavesLobby
<1>2. CASE ClientActs
  BY <1>2 DEF ClientActs, SearchBegins, MatchFound, EveryoneAccepts, SomeoneDeclines,
              ReadyCheckFails, SomeoneDodges, GameStarts, GameEnds, PostgameAdvances
<1>3. CASE LinkActs
  BY <1>3, MaxFaultsAssumption DEF LinkActs, CacheExpires, LinkBreaks, LinkRecovers
<1> QED BY <1>1, <1>2, <1>3 DEF ClientNext

LEMMA ScanType ==
    ASSUME ClientTypeOK, StateTypeOK, NEW t, Scan(t)
    PROVE  ClientTypeOK' /\ StateTypeOK'
<1>1. CASE ScanFindsNothing(t) \/ ScanClosesModal(t)
  BY <1>1 DEF ScanFindsNothing, ScanClosesModal, ShowsNothingNew, ClientTypeOK,
              LinkTypeOK, StateTypeOK, clientVars
<1>2. CASE ScanFindsSearch(t)
  BY <1>2, ShowsType DEF ScanFindsSearch, ClientStates, ClientTypeOK, LinkTypeOK, clientVars
<1>3. CASE ScanFindsAccept(t)
  BY <1>3, ShowsType DEF ScanFindsAccept, ClientStates, ClientTypeOK, LinkTypeOK, clientVars
<1> QED BY <1>1, <1>2, <1>3 DEF Scan

LEMMA DetectsSelectType ==
    ASSUME ClientTypeOK, StateTypeOK, NEW found, DetectsSelect(found)
    PROVE  ClientTypeOK' /\ StateTypeOK'
<1>1. Fallback \in Decisions /\ "PREPICK" \in ClientStates
  BY DEF Decisions, ClientStates
<1> QED BY <1>1, PollPhaseType, ReadsType, ShowsType DEF DetectsSelect

LEMMA ObserveType ==
    ASSUME TrackerTypeOK, NEW t, NEW complete, Observe(t, complete)
    PROVE  TrackerTypeOK'
BY DEF TrackerTypeOK, Observe, SourceAfter

-----------------------------------------------------------------------------
(* The type invariant.                                                     *)

PCs == CyclePCs \cup MatchmakingPCs \cup PostgamePCs
PointTypeOK == pc \in PCs /\ stage \in {"entry", "watch"}
HeldTypeOK  == held \in Decisions \cup {NoDecision}
PrefTypeOK  == continue \in BOOLEAN
CountTypeOK == cycleCount \in 0 .. 2

AllParts ==
    /\ ClientTypeOK
    /\ StateTypeOK
    /\ TrackerTypeOK
    /\ PointTypeOK
    /\ HeldTypeOK
    /\ PrefTypeOK
    /\ PostgameTypeOK
    /\ CountTypeOK

LEMMA TypeParts == (TypeOK <=> AllParts) /\ (TypeOK' <=> AllParts')
BY DEF TypeOK, RuntimeTypeOK, MatchmakingTypeOK, AllParts, StateTypeOK, TrackerTypeOK,
       PointTypeOK, HeldTypeOK, PrefTypeOK, CountTypeOK, PCs

LEMMA AfterPollType ==
    ASSUME TrackerTypeOK, PointTypeOK, NEW t, AfterPoll(t) \/ AfterWindowPoll(t)
    PROVE  TrackerTypeOK' /\ PointTypeOK'
<1>1. TrackerTypeOK'
  BY ObserveType DEF AfterPoll, AfterWindowPoll
<1>2. PointTypeOK'
  BY DEF AfterPoll, AfterWindowPoll, PointTypeOK, PCs, CyclePCs, MatchmakingPCs
<1> QED BY <1>1, <1>2

LEMMA KeptTypes ==
    /\ ClientTypeOK /\ UNCHANGED clientVars => ClientTypeOK'
    /\ StateTypeOK /\ UNCHANGED <<shown, timer>> => StateTypeOK'
    /\ TrackerTypeOK /\ UNCHANGED searchKept => TrackerTypeOK'
    /\ PointTypeOK /\ UNCHANGED <<pc, stage>> => PointTypeOK'
    /\ HeldTypeOK /\ UNCHANGED held => HeldTypeOK'
    /\ PrefTypeOK /\ UNCHANGED prefVars => PrefTypeOK'
    /\ PostgameTypeOK /\ UNCHANGED postVars => PostgameTypeOK'
    /\ CountTypeOK /\ UNCHANGED cycleCount => CountTypeOK'
BY DEF ClientTypeOK, LinkTypeOK, StateTypeOK, TrackerTypeOK, PointTypeOK, HeldTypeOK,
       PrefTypeOK, PostgameTypeOK, CountTypeOK, clientVars

LEMMA MatchmakingStepType ==
    ASSUME TypeOK, MatchmakingStep, UNCHANGED <<postVars, cycleCount>>
    PROVE  TypeOK'
<1> USE TypeParts DEF AllParts
<1>1. PostgameTypeOK' /\ CountTypeOK'
  BY KeptTypes
<1>2. PrefTypeOK'
  BY KeptTypes DEF MatchmakingStep, Poll, Accept, WindowPoll, WindowAccept, WindowScan,
                   Detect, CheckStart, Start, Click, Confirm, ConfirmAccept
<1>3. HeldTypeOK'
  BY DEF HeldTypeOK, MatchmakingStep, Poll, Accept, WindowPoll, WindowAccept, WindowScan,
         Detect, CheckStart, Start, Click, Confirm, ConfirmAccept
<1>4. ClientTypeOK' /\ StateTypeOK'
  <2>1. CASE Poll \/ WindowPoll \/ CheckStart \/ Confirm
    BY <2>1, PollPhaseType DEF Poll, WindowPoll, CheckStart, Confirm
  <2>2. CASE Accept \/ WindowAccept \/ ConfirmAccept
    BY <2>2, RequestsType, KeptTypes DEF Accept, WindowAccept, ConfirmAccept
  <2>3. CASE WindowScan
    BY <2>3, ScanType DEF WindowScan
  <2>4. CASE Detect
    BY <2>4, DetectsSelectType DEF Detect
  <2>5. CASE Start
    BY <2>5, RequestsType, KeptTypes DEF Start, SearchRequested, StateTypeOK, ClientStates
  <2>6. CASE Click
    BY <2>6 DEF Click, SearchRequested, StateTypeOK, ClientStates, ClientTypeOK,
                LinkTypeOK, clientVars
  <2> QED BY <2>1, <2>2, <2>3, <2>4, <2>5, <2>6 DEF MatchmakingStep
<1>5. TrackerTypeOK' /\ PointTypeOK'
  <2> USE DEF PointTypeOK, PCs, CyclePCs, MatchmakingPCs
  <2>1. CASE Poll
    BY <2>1, AfterPollType, KeptTypes DEF Poll
  <2>2. CASE Accept
    BY <2>2, AfterPollType DEF Accept
  <2>3. CASE WindowPoll
    BY <2>3, AfterPollType, KeptTypes DEF WindowPoll
  <2>4. CASE WindowAccept
    BY <2>4, AfterPollType, KeptTypes DEF WindowAccept
  <2>5. CASE WindowScan
    BY <2>5, AfterPollType DEF WindowScan
  <2>6. CASE Detect \/ CheckStart \/ Confirm \/ ConfirmAccept
    BY <2>6, KeptTypes DEF Detect, CheckStart, Confirm, ConfirmAccept
  <2>7. CASE Start \/ Click
    BY <2>7, KeptTypes DEF Start, Click, SearchRequested, TrackerTypeOK
  <2> QED BY <2>1, <2>2, <2>3, <2>4, <2>5, <2>6, <2>7 DEF MatchmakingStep
<1> QED BY <1>1, <1>2, <1>3, <1>4, <1>5

LEMMA PostgameStepType ==
    ASSUME TypeOK, PostgameStep, UNCHANGED cycleCount
    PROVE  TypeOK'
<1> USE TypeParts DEF AllParts, PostgameStep
<1>1. CountTypeOK'
  BY KeptTypes
<1>2. PrefTypeOK'
  BY KeptTypes DEF WaitBegins, WaitForGame, WaitAccept, Monitor, MonitorAccept, PostRound,
                   PostAccept, PostPlayAgain, PostDismiss, PostDetect, PostEndClick,
                   PostPoll, PostPollAccept, PostScan, PostCheckStart, PostStart,
                   PostClick, PostGivesUp, GivesUp
<1>3. ClientTypeOK' /\ StateTypeOK'
  <2>1. CASE WaitBegins \/ WaitForGame \/ WaitAccept
    BY <2>1, PollPhaseType, ReadsType, ShowsType, RequestsType, KeptTypes
       DEF WaitBegins, WaitForGame, WaitAccept, ClientStates, Decisions
  <2>2. CASE Monitor \/ MonitorAccept
    BY <2>2, PollPhaseType, ReadsType, ShowsType, RequestsType, KeptTypes
       DEF Monitor, MonitorAccept, GameIsOver, ShowsNothingNew, ClientStates,
           Decisions, Phases
  <2>3. CASE PostRound \/ PostPoll \/ PostCheckStart
    BY <2>3, PollPhaseType, KeptTypes DEF PostRound, PostPoll, PostCheckStart
  <2>4. CASE PostAccept \/ PostPollAccept \/ PostPlayAgain \/ PostDismiss \/ PostStart
    BY <2>4, RequestsType, KeptTypes
       DEF PostAccept, PostPollAccept, PostPlayAgain, PostDismiss, PostStart,
           RequestStart, Phases, PostgamePhases
  <2>5. CASE PostDetect
    BY <2>5, DetectsSelectType, KeptTypes DEF PostDetect
  <2>6. CASE PostEndClick
    <3>1. StateTypeOK'
      BY <2>6, KeptTypes DEF PostEndClick
    <3>2. ClientTypeOK'
      BY <2>6, KeptTypes DEF PostEndClick, MovesTo, ClientTypeOK, LinkTypeOK, Phases,
                             PostgamePhases
    <3> QED BY <3>1, <3>2
  <2>9. CASE PostClick
    <3>1. StateTypeOK'
      BY <2>9, KeptTypes DEF PostClick
    <3>2. ClientTypeOK'
      BY <2>9, KeptTypes DEF PostClick, ClientTypeOK, LinkTypeOK
    <3> QED BY <3>1, <3>2
  <2>7. CASE PostScan
    BY <2>7, ScanType DEF PostScan
  <2>8. CASE PostGivesUp
    BY <2>8, KeptTypes DEF PostGivesUp, GivesUp
  <2> QED BY <2>1, <2>2, <2>3, <2>4, <2>5, <2>6, <2>7, <2>8, <2>9
<1>4. TrackerTypeOK'
  BY KeptTypes DEF WaitBegins, WaitForGame, WaitAccept, Monitor, MonitorAccept, PostRound,
                   PostAccept, PostPlayAgain, PostDismiss, PostDetect, PostEndClick,
                   PostPoll, PostPollAccept, PostScan, PostCheckStart, PostStart,
                   PostClick, PostGivesUp, GivesUp, RequestStart, TrackerTypeOK
<1>5. PointTypeOK' /\ HeldTypeOK' /\ PostgameTypeOK'
  <2> USE DEF PointTypeOK, HeldTypeOK, PostgameTypeOK, PCs, CyclePCs, PostgamePCs
  <2>1. CASE WaitBegins \/ WaitForGame \/ WaitAccept
    BY <2>1 DEF WaitBegins, WaitForGame, WaitAccept
  <2>2. CASE Monitor \/ MonitorAccept
    BY <2>2 DEF Monitor, MonitorAccept, GameIsOver, StillPlaying, BackInQueue, ProcessBegins
  <2>3. CASE PostRound
    <3>1. ASSUME NEW d
          PROVE  Branch(d) \in {"post", "cycle", "postCheck", "postAccept",
                               "postPlayAgain", "postDismiss", "postDetect"}
      BY DEF Branch
    <3> QED BY <2>3, <3>1 DEF PostRound
  <2>4. CASE PostAccept \/ PostPlayAgain
    BY <2>4 DEF PostAccept, PostPlayAgain
  <2>9. CASE PostDismiss
    <3>1. dismissed' \in BOOLEAN
      BY <2>9, Zenon DEF PostDismiss
    <3> QED BY <2>9, <3>1 DEF PostDismiss
  <2>5. CASE PostDetect \/ PostEndClick
    BY <2>5 DEF PostDetect, PostEndClick
  <2>6. CASE PostPoll \/ PostPollAccept \/ PostScan
    BY <2>6 DEF PostPoll, PostPollAccept, PostScan, AfterPostPoll
  <2>7. CASE PostCheckStart \/ PostStart \/ PostClick
    BY <2>7 DEF PostCheckStart, PostStart, PostClick
  <2>8. CASE PostGivesUp
    BY <2>8 DEF PostGivesUp, GivesUp
  <2> QED BY <2>1, <2>2, <2>3, <2>4, <2>5, <2>6, <2>7, <2>8, <2>9
<1> QED BY <1>1, <1>2, <1>3, <1>4, <1>5

LEMMA CycleStepType ==
    ASSUME TypeOK, CycleStep
    PROVE  TypeOK'
<1> USE TypeParts DEF AllParts, CycleStep
<1>1. PrefTypeOK'
  BY KeptTypes DEF CycleBegins, CycleResumes, CycleClosesPopup, CycleRunsMatchmaking,
                   SelectGoesOn, SelectLeaves
<1>2. ClientTypeOK' /\ StateTypeOK'
  <2>1. CASE CycleBegins
    BY <2>1, PollPhaseType DEF CycleBegins, Decisions
  <2>2. CASE CycleResumes \/ CycleClosesPopup
    BY <2>2, ShowsType, KeptTypes DEF CycleResumes, CycleClosesPopup, ShowsNothingNew,
                                      ClientStates
  <2>3. CASE CycleRunsMatchmaking
    BY <2>3, ShowsType, RequestsType, KeptTypes
       DEF CycleRunsMatchmaking, ClientStates, Phases
  <2>4. CASE SelectGoesOn \/ SelectLeaves
    BY <2>4, PollPhaseType, ReadsType, ShowsType
       DEF SelectGoesOn, SelectLeaves, ClientStates, Decisions, Phases
  <2> QED BY <2>1, <2>2, <2>3, <2>4
<1>3. TrackerTypeOK' /\ PointTypeOK' /\ HeldTypeOK'
  BY DEF CycleBegins, CycleResumes, CycleClosesPopup, CycleRunsMatchmaking, RunBegins,
         SelectGoesOn, SelectLeaves, ProcessBegins, TrackerTypeOK, PointTypeOK, HeldTypeOK,
         PCs, CyclePCs, MatchmakingPCs, PostgamePCs
<1>4. PostgameTypeOK' /\ CountTypeOK'
  <2>1. ForcesFirstCycle \in BOOLEAN
    BY Zenon DEF ForcesFirstCycle
  <2>2. PostgameTypeOK'
    BY <2>1 DEF CycleBegins, CycleResumes, CycleClosesPopup, CycleRunsMatchmaking,
                SelectGoesOn, SelectLeaves, ProcessBegins, PostgameTypeOK
  <2>3. CountTypeOK'
    BY DEF CycleBegins, CycleResumes, CycleClosesPopup, CycleRunsMatchmaking,
           SelectGoesOn, SelectLeaves, CountTypeOK
  <2> QED BY <2>2, <2>3
<1> QED BY <1>1, <1>2, <1>3, <1>4

\* The variables keep their types whatever the client, the link and the user do.
THEOREM TypeIsKept == Spec => []TypeOK
<1>1. Init => TypeOK
  <2> SUFFICES ASSUME Init PROVE TypeOK
    OBVIOUS
  <2>1. ClientTypeOK
    <3>1. LinkTypeOK
      <4>1. faults = 0 /\ 0 \in 0 .. MaxFaults
        BY MaxFaultsAssumption DEF Init, ClientInit
      <4> QED BY <4>1 DEF Init, ClientInit, LinkTypeOK
    <3>2. phase \in Phases
      BY DEF Init, ClientInit
    <3> QED BY <3>1, <3>2 DEF Init, ClientInit, ClientTypeOK
  <2>2. RuntimeTypeOK /\ MatchmakingTypeOK /\ PostgameTypeOK
    BY DEF Init, RuntimeInit, MatchmakingInit, PostgameInit, RuntimeTypeOK,
           MatchmakingTypeOK, PostgameTypeOK, ClientStates
  <2>3. pc \in CyclePCs /\ cycleCount \in 0 .. 2
    BY DEF Init, CyclePCs
  <2> QED BY <2>1, <2>2, <2>3 DEF TypeOK
<1>2. TypeOK /\ [Next]_vars => TypeOK'
  <2> SUFFICES ASSUME TypeOK, [Next]_vars
               PROVE  TypeOK'
    OBVIOUS
  <2>1. CASE CycleStep
    BY <2>1, CycleStepType
  <2>2. CASE MatchmakingStep /\ UNCHANGED <<postVars, cycleCount>>
    BY <2>2, MatchmakingStepType
  <2>3. CASE PostgameStep /\ UNCHANGED cycleCount
    BY <2>3, PostgameStepType
  <2>4. CASE Surroundings
    <3>1. TrackerTypeOK' /\ HeldTypeOK' /\ PostgameTypeOK' /\ CountTypeOK' /\ PointTypeOK'
      BY <2>4, KeptTypes, TypeParts
         DEF AllParts, Surroundings, World, ClientStep, GraceElapses, UserTogglesContinue,
             searchVars, TrackerTypeOK, PointTypeOK
    <3>2. ClientTypeOK' /\ StateTypeOK' /\ PrefTypeOK'
      BY <2>4, KeptTypes, TypeParts, ClientNextType
         DEF AllParts, Surroundings, World, ClientStep, GraceElapses, UserTogglesContinue, PrefTypeOK
    <3> QED BY <3>1, <3>2, TypeParts DEF AllParts
  <2>5. CASE UNCHANGED vars
    BY <2>5, KeptTypes, TypeParts DEF AllParts, vars, searchVars
  <2> QED BY <2>1, <2>2, <2>3, <2>4, <2>5 DEF Next, Program
<1> QED BY <1>1, <1>2, PTL DEF Spec

-----------------------------------------------------------------------------
(* The implementation of OneGamePromise.  The value process_postgame was   *)
(* given lives only as long as that call.                                  *)

ForcedOnBoard ==
    /\ forced \in BOOLEAN
    /\ forced => ModeOf(pc) = "board"

LEMMA ProgramKeepsPromise ==
    ASSUME ForcedOnBoard, Program
    PROVE  Promise!Next \/ UNCHANGED Promise!vars
<1> USE DEF ForcedOnBoard, ModeOf, PostgamePCs, Promise!Next, Promise!vars
<1>1. CASE CycleStep
  <2>1. CASE CycleBegins
    BY <2>1 DEF CycleBegins, Promise!GameStarts
  <2>2. CASE CycleResumes
    BY <2>2 DEF CycleResumes, ForcesFirstCycle, ProcessBegins, Promise!BoardFound,
                Promise!QueueGivesUp
  <2>3. CASE CycleClosesPopup
    BY <2>3 DEF CycleClosesPopup
  <2>4. CASE CycleRunsMatchmaking
    BY <2>4 DEF CycleRunsMatchmaking, RunBegins
  <2>5. CASE SelectGoesOn
    BY <2>5 DEF SelectGoesOn
  <2>6. CASE SelectLeaves
    BY <2>6 DEF SelectLeaves
  <2> QED BY <1>1, <2>1, <2>2, <2>3, <2>4, <2>5, <2>6 DEF CycleStep
<1>2. CASE MatchmakingStep /\ UNCHANGED postVars
  <2> USE <1>2 DEF Promise!QueueGivesUp, AfterPoll, AfterWindowPoll
  <2>1. CASE Poll
    BY <2>1 DEF Poll
  <2>2. CASE Accept
    BY <2>2 DEF Accept
  <2>3. CASE WindowPoll
    BY <2>3 DEF WindowPoll
  <2>4. CASE WindowAccept
    BY <2>4 DEF WindowAccept
  <2>5. CASE WindowScan
    BY <2>5 DEF WindowScan
  <2>6. CASE Detect
    BY <2>6 DEF Detect
  <2>7. CASE CheckStart
    BY <2>7 DEF CheckStart
  <2>8. CASE Start
    BY <2>8 DEF Start, SearchRequested
  <2>9. CASE Click
    BY <2>9 DEF Click, SearchRequested
  <2>10. CASE Confirm
    BY <2>10 DEF Confirm
  <2>11. CASE ConfirmAccept
    BY <2>11 DEF ConfirmAccept
  <2> QED BY <2>1, <2>2, <2>3, <2>4, <2>5, <2>6, <2>7, <2>8, <2>9, <2>10, <2>11
          DEF MatchmakingStep
<1>3. CASE PostgameStep
  <2>1. CASE WaitBegins
    BY <2>1 DEF WaitBegins
  <2>2. CASE WaitForGame
    BY <2>2 DEF WaitForGame, Promise!GameStarts
  <2>3. CASE WaitAccept
    BY <2>3 DEF WaitAccept
  <2>4. CASE Monitor
    BY <2>4 DEF Monitor, StillPlaying, BackInQueue, GameIsOver, ProcessBegins,
                Promise!GameEnds
  <2>5. CASE MonitorAccept
    BY <2>5 DEF MonitorAccept, BackInQueue, Promise!GameEnds
  <2>6. CASE PostRound
    BY <2>6 DEF PostRound, Branch, Continues, Promise!BoardLeft
  <2>7. CASE PostAccept
    BY <2>7 DEF PostAccept, Promise!BoardLeft
  <2>8. CASE PostPlayAgain
    BY <2>8 DEF PostPlayAgain
  <2>9. CASE PostDismiss
    BY <2>9 DEF PostDismiss
  <2>10. CASE PostDetect
    BY <2>10 DEF PostDetect, Promise!BoardLeft
  <2>11. CASE PostEndClick
    BY <2>11 DEF PostEndClick
  <2>12. CASE PostPoll
    BY <2>12 DEF PostPoll, AfterPostPoll
  <2>13. CASE PostPollAccept
    BY <2>13 DEF PostPollAccept, AfterPostPoll
  <2>14. CASE PostScan
    BY <2>14 DEF PostScan, AfterPostPoll
  <2>15. CASE PostCheckStart
    BY <2>15 DEF PostCheckStart
  <2>16. CASE PostStart
    BY <2>16 DEF PostStart, Promise!BoardLeft
  <2>17. CASE PostClick
    BY <2>17 DEF PostClick, Promise!BoardLeft
  <2>18. CASE PostGivesUp
    BY <2>18 DEF PostGivesUp, GivesUp, Continues, Promise!BoardLeft
  <2> QED BY <1>3, <2>1, <2>2, <2>3, <2>4, <2>5, <2>6, <2>7, <2>8, <2>9, <2>10,
             <2>11, <2>12, <2>13, <2>14, <2>15, <2>16, <2>17, <2>18 DEF PostgameStep
<1> QED BY <1>1, <1>2, <1>3 DEF Program

LEMMA SurroundingsKeepPromise ==
    ASSUME Surroundings
    PROVE  Promise!Next \/ UNCHANGED Promise!vars
<1>1. CASE ClientStep
  BY <1>1 DEF Surroundings, ClientStep, ModeOf, Promise!vars
<1>2. CASE GraceElapses
  BY <1>2 DEF Surroundings, GraceElapses, ModeOf, Promise!vars
<1>3. CASE UserTogglesContinue
  BY <1>3 DEF Surroundings, UserTogglesContinue, ModeOf, Promise!Next, Promise!UserDecides
<1> QED BY <1>1, <1>2, <1>3 DEF Surroundings, World

\* The invariant follows from what a step is to the promise.
LEMMA PromiseKeepsForcedOnBoard ==
    ASSUME ForcedOnBoard, Promise!Next \/ UNCHANGED Promise!vars
    PROVE  ForcedOnBoard'
<1>1. CASE UNCHANGED Promise!vars
  BY <1>1 DEF ForcedOnBoard, Promise!vars
<1>2. CASE Promise!UserDecides
  BY <1>2 DEF ForcedOnBoard, Promise!UserDecides
<1>3. CASE Promise!GameStarts \/ Promise!GameEnds \/ Promise!QueueGivesUp
  BY <1>3 DEF ForcedOnBoard, Promise!GameStarts, Promise!GameEnds, Promise!QueueGivesUp
<1>4. CASE Promise!BoardFound
  <2>1. forced' \in BOOLEAN
    BY <1>4, Zenon DEF Promise!BoardFound
  <2> QED BY <1>4, <2>1 DEF ForcedOnBoard, Promise!BoardFound
<1>5. CASE Promise!BoardLeft
  BY <1>5 DEF ForcedOnBoard, Promise!BoardLeft
<1> QED BY <1>1, <1>2, <1>3, <1>4, <1>5 DEF Promise!Next

\* With every number of link failures the run does at the boundaries of a game what
\* the continue-after-game setting promises (should_continue_after_game and its
\* callers in cli/postgame.py, process_postgame, monitor_ingame_and_postgame).
THEOREM PromiseIsKept == Spec => KeepsPromise
<1>1. Init => Promise!Init /\ ForcedOnBoard
  BY DEF Init, RuntimeInit, PostgameInit, Promise!Init, ForcedOnBoard, ModeOf, PostgamePCs
<1>2. ForcedOnBoard /\ [Next]_vars => [Promise!Next]_(Promise!vars) /\ ForcedOnBoard'
  <2> SUFFICES ASSUME ForcedOnBoard, [Next]_vars
               PROVE  (Promise!Next \/ UNCHANGED Promise!vars) /\ ForcedOnBoard'
    OBVIOUS
  <2>1. CASE Program
    BY <2>1, ProgramKeepsPromise, PromiseKeepsForcedOnBoard
  <2>2. CASE Surroundings
    BY <2>2, SurroundingsKeepPromise, PromiseKeepsForcedOnBoard
  <2>3. CASE UNCHANGED vars
    BY <2>3, PromiseKeepsForcedOnBoard DEF vars, ModeOf, Promise!vars
  <2> QED BY <2>1, <2>2, <2>3 DEF Next
<1> QED BY <1>1, <1>2, PTL DEF Spec, KeepsPromise, Promise!Spec

=============================================================================
