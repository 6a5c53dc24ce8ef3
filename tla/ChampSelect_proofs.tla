--------------------------- MODULE ChampSelect_proofs ---------------------------
(***************************************************************************)
(* Theorems about the champion selection, for any pool, any number of      *)
(* sessions and faults: its types, that the ban goes to the session the    *)
(* ban loop has been watching, that the pick is one for the role that was  *)
(* found in its session and the first that could be had, and that the      *)
(* program goes on with the candidate that was completed.                  *)
(***************************************************************************)
EXTENDS ChampSelect, TLAPS, WellFoundedInduction

USE DEF draft, NoChampion, BanTarget, BanStages

-----------------------------------------------------------------------------
(* The candidate that a reconciliation prefers is one of the pool.         *)

LEMMA HasLeast ==
    ASSUME NEW T \in SUBSET Nat, T # {}
    PROVE  \E x \in T : \A y \in T : x <= y
<1> DEFINE R == OpToRel(<, Nat)
<1>1. \E x \in T : \A y \in T : <<y, x>> \notin R
  <2>1. IsWellFoundedOn(R, Nat)
    BY NatLessThanWellFounded
  <2> HIDE DEF R
  <2> QED BY <2>1, WFMin, Zenon
<1>2. \A x \in T, y \in T : <<y, x>> \in R <=> y < x
  BY DEF OpToRel
<1> HIDE DEF R
<1>3. PICK x \in T : \A y \in T : <<y, x>> \notin R
  BY <1>1, Zenon
<1>4. ASSUME NEW y \in T
      PROVE  x <= y
  <2>1. ~(y < x)
    BY <1>2, <1>3, Zenon
  <2> QED BY <2>1
<1> QED BY <1>4

LEMMA PreferredIsCandidate ==
    ASSUME NEW current \in Pool
    PROVE  Preferred(current) \in Pool
<1> DEFINE free == Pool \ taken
<1>1. CASE free = {}
  BY <1>1 DEF Preferred
<1>2. CASE free # {}
  <2>1. free \in SUBSET Nat
    BY SessionConstants DEF Pool
  <2>2. \E c \in free : \A d \in free : c <= d
    BY <1>2, <2>1, HasLeast
  <2> QED BY <1>2, <2>2 DEF Preferred
<1> QED BY <1>1, <1>2

-----------------------------------------------------------------------------
(* Types of the session.                                                   *)

LEMMA NamesHaveTypes ==
    /\ "pick" \in Kinds /\ "ban" \in Kinds
    /\ Pool \subseteq Champions
    /\ BanTarget \in Champions /\ NoChampion \in Champions
    /\ 1 \in Pool
BY SessionConstants DEF Kinds, Pool, Champions

LEMMA ReadsKeepTypes ==
    ASSUME SessionTypeOK, ReadSucceeds \/ ReadFails
    PROVE  SessionTypeOK'
<1>1. faults' \in 0 .. MaxFaults /\ UNCHANGED <<game, open, draft, refused, sent>>
  BY SessionConstants DEF SessionTypeOK, ReadSucceeds, ReadFails, Fault, sessionVars
<1> QED BY <1>1 DEF SessionTypeOK

LEMMA RequestsKeepTypes ==
    ASSUME SessionTypeOK, NEW w \in Write, NEW answer, Requests(w, answer)
    PROVE  SessionTypeOK'
<1>1. sent' \in Seq(Write)
  <2>1. sent' \in {sent, Append(sent, w)}
    BY DEF Requests
  <2> QED BY <2>1 DEF SessionTypeOK
<1>2. faults' \in 0 .. MaxFaults
  BY SessionConstants DEF SessionTypeOK, Requests, Fault
<1> QED BY <1>1, <1>2 DEF SessionTypeOK, Requests

LEMMA CompletesKeepsTypes ==
    ASSUME SessionTypeOK, NEW kind \in Kinds, NEW champ \in Champions,
           NEW by \in {"lcu", "image", "client"}, Completes(kind, champ, by)
    PROVE  /\ taken' \subseteq Champions
           /\ done' \in [Kinds -> BOOLEAN]
           /\ lock' \in [by : {"nobody", "lcu", "image", "client"}, champ : Champions]
BY DEF SessionTypeOK, Completes, Champions

LEMMA ScreenKeepsTypes ==
    ASSUME SessionTypeOK, NEW champ \in Champions,
           HoversOnScreen(champ) \/ ClicksReady(champ)
    PROVE  SessionTypeOK'
<1>1. hover' \in [Kinds -> Champions]
  BY DEF HoversOnScreen, ClicksReady, SessionTypeOK, Kinds
<1>2. CASE HoversOnScreen(champ)
  BY <1>1, <1>2 DEF HoversOnScreen, SessionTypeOK
<1>3. CASE ClicksReady(champ)
  <2>1. Completes("pick", champ, "image") /\ "pick" \in Kinds
    BY <1>3 DEF ClicksReady, Kinds
  <2>2. taken' \subseteq Champions /\ done' \in [Kinds -> BOOLEAN]
           /\ lock' \in [by : {"nobody", "lcu", "image", "client"}, champ : Champions]
    BY <2>1, CompletesKeepsTypes
  <2> QED BY <1>1, <1>3, <2>2 DEF ClicksReady, SessionTypeOK
<1> QED BY <1>2, <1>3

LEMMA PhaseKeepsTypes ==
    ASSUME SessionTypeOK, NEW answer, Phase(answer)
    PROVE  SessionTypeOK'
BY ReadsKeepTypes DEF Phase

LEMMA ClientKeepsTypes ==
    ASSUME SessionTypeOK, ClientMoves \/ SessionOpens \/ StageEnds
    PROVE  SessionTypeOK'
<1>1. CASE WriteLands
  <2> DEFINE w     == Head(sent)
             lands == open /\ ~done[w.kind] /\ w.champ \notin Blocked
             on    == IF lands /\ w.champ # NoChampion THEN w.champ ELSE hover[w.kind]
  <2>1. sent \in Seq(Write) /\ sent # <<>>
    BY <1>1 DEF WriteLands, SessionTypeOK
  <2>2. w \in Write /\ Tail(sent) \in Seq(Write)
    BY <2>1
  <2>3. w.kind \in Kinds /\ w.champ \in Champions
    BY <2>2 DEF Write
  <2>4. on \in Champions
    BY <2>3 DEF SessionTypeOK
  <2> HIDE DEF lands
  <2>5. /\ hover' = [hover EXCEPT ![w.kind] = on]
        /\ sent' = Tail(sent)
        /\ Completes(w.kind, on, "lcu") \/ UNCHANGED <<taken, done, lock>>
        /\ UNCHANGED <<game, open, stage, refused, faults>>
    BY <1>1 DEF WriteLands, lands
  <2> HIDE DEF w, on
  <2>6. /\ taken' \subseteq Champions
        /\ done' \in [Kinds -> BOOLEAN]
        /\ lock' \in [by : {"nobody", "lcu", "image", "client"}, champ : Champions]
    BY <2>3, <2>4, <2>5, CompletesKeepsTypes DEF SessionTypeOK
  <2> QED BY <2>2, <2>3, <2>4, <2>5, <2>6 DEF SessionTypeOK
<1>2. CASE WriteIsLost
  <2>1. sent' \in Seq(Write)
    BY <1>2 DEF WriteIsLost, SessionTypeOK
  <2>2. faults' \in 0 .. MaxFaults
    BY <1>2, SessionConstants DEF WriteIsLost, SessionTypeOK, Fault
  <2> QED BY <1>2, <2>1, <2>2 DEF WriteIsLost, SessionTypeOK
<1>3. CASE SessionCloses
  <2>1. sent' \in Seq(Write)
    BY <1>3 DEF SessionCloses
  <2> QED BY <1>3, <2>1 DEF SessionCloses, SessionTypeOK
<1>4. CASE UserHovers
  <2>1. hover' \in [Kinds -> Champions]
    <3>1. hover' = [hover EXCEPT !["pick"] = BanTarget]
      BY <1>4 DEF UserHovers
    <3>2. BanTarget \in Champions
      BY NamesHaveTypes
    <3> HIDE DEF BanTarget
    <3> QED BY <3>1, <3>2 DEF SessionTypeOK
  <2> QED BY <1>4, <2>1 DEF UserHovers, SessionTypeOK
<1>5. CASE UserLocks
  <2>1. PICK c \in Pool \cup {BanTarget} :
             hover' = [hover EXCEPT !["pick"] = c] /\ Completes("pick", c, "client")
    BY <1>5 DEF UserLocks
  <2>2. c \in Champions /\ "pick" \in Kinds
    BY SessionConstants DEF Pool, Champions, Kinds
  <2>3. /\ taken' \subseteq Champions
        /\ done' \in [Kinds -> BOOLEAN]
        /\ lock' \in [by : {"nobody", "lcu", "image", "client"}, champ : Champions]
    BY <2>1, <2>2, CompletesKeepsTypes
  <2> QED BY <1>5, <2>1, <2>2, <2>3 DEF UserLocks, SessionTypeOK
<1>6. CASE \E c \in Pool \cup {BanTarget} : OthersTake(c)
  BY <1>6, SessionConstants DEF OthersTake, SessionTypeOK, Pool, Champions
<1>7. CASE SessionOpens
  <2>1. sent' \in Seq(Write)
    BY <1>7 DEF SessionOpens
  <2> QED BY <1>7, <2>1, SessionConstants
          DEF SessionOpens, SessionTypeOK, Stages, Nothing, Unlocked, Champions
<1>8. CASE StageEnds
  <2>1. stage' \in Stages
    BY <1>8 DEF StageEnds, Stages
  <2>2. hover["pick"] \in Champions /\ "pick" \in Kinds
    BY DEF SessionTypeOK, Kinds
  <2>3. \/ done' = [done EXCEPT !["ban"] = TRUE] /\ UNCHANGED <<taken, lock>>
        \/ Completes("pick", hover["pick"], "client")
        \/ UNCHANGED <<taken, done, lock>>
    BY <1>8 DEF StageEnds
  <2>4. /\ taken' \subseteq Champions
        /\ done' \in [Kinds -> BOOLEAN]
        /\ lock' \in [by : {"nobody", "lcu", "image", "client"}, champ : Champions]
    BY <2>2, <2>3, CompletesKeepsTypes DEF SessionTypeOK
  <2> QED BY <1>8, <2>1, <2>4 DEF StageEnds, SessionTypeOK
<1> QED BY <1>1, <1>2, <1>3, <1>4, <1>5, <1>6, <1>7, <1>8 DEF ClientMoves

-----------------------------------------------------------------------------
(* Types of a call, and of the program's steps.                            *)

LEMMA CallsHaveTypes ==
    ASSUME NEW kind \in Kinds, NEW champ \in Champions, NEW complete \in BOOLEAN,
           Calls(kind, champ, complete)
    PROVE  ActionTypeOK'
BY DEF Calls, ActionTypeOK, Steps, Results, Write

LEMMA ConsumedHasTypes ==
    ASSUME ActionTypeOK, Consumed \/ UNCHANGED actionVars \/ Returns("image")
    PROVE  ActionTypeOK'
BY DEF Consumed, Returns, actionVars, ActionTypeOK, Steps, Results

LEMMA ActionHasTypes ==
    ASSUME SessionTypeOK, ActionTypeOK, ActionSteps
    PROVE  SessionTypeOK' /\ ActionTypeOK'
<1>1. asked \in Write /\ Assignment \in Write /\ Completion \in Write
  <2>1. asked \in Write
    BY DEF ActionTypeOK
  <2>2. Assignment \in Write
    BY <2>1 DEF Assignment, Write
  <2>3. Completion \in Write
    BY <2>1, NamesHaveTypes DEF Completion, Write
  <2> QED BY <2>1, <2>2, <2>3
<1>2. ReadSucceeds \/ ReadFails \/ (\E w \in Write : \E answer : Requests(w, answer))
  BY <1>1 DEF ActionSteps, FindsAction, Assigns, WaitsForAssignment, CompletesAction,
              PatchesCompleted, Confirms, FallsBack, ConfirmsFallback, TimesOut
<1>3. SessionTypeOK'
  BY <1>2, ReadsKeepTypes, RequestsKeepTypes
<1>4. asked' = asked
  BY DEF ActionSteps, FindsAction, Assigns, WaitsForAssignment, CompletesAction,
         PatchesCompleted, Confirms, FallsBack, ConfirmsFallback, GoesTo, Returns
<1>5. step' \in Steps /\ result' \in Results
  BY DEF ActionSteps, FindsAction, Assigns, WaitsForAssignment, CompletesAction,
         PatchesCompleted, Confirms, FallsBack, ConfirmsFallback, GoesTo, Returns,
         ActionTypeOK, Steps, Results
<1> QED BY <1>1, <1>3, <1>4, <1>5 DEF ActionTypeOK

\* The types of everything but the session, the call and the counters.
MainTypeOK ==
    /\ pc \in PCs
    /\ role \in 0 .. MaxGames
    /\ index \in Pool
    /\ known \in BOOLEAN
    /\ watched \in 0 .. MaxGames
    /\ seen \in {"nothing", "pick"} \cup BanStages
    /\ trial \in Pool

LEMMA BeginningHasTypes ==
    ASSUME TypeOK,
           \/ SelectBegins \/ DetectsRole \/ PreparesPick
           \/ PrepickGoesOn \/ PrepickTimesOut \/ PrepicksOnScreen
    PROVE  SessionTypeOK' /\ ActionTypeOK' /\ MainTypeOK'
<1> USE DEF TypeOK, MainTypeOK, PCs, Loops, Callers
<1>1. CASE SelectBegins
  <2>1. SessionTypeOK'
    BY <1>1, ReadsKeepTypes DEF SelectBegins, ReadSucceeds
  <2> QED BY <1>1, <2>1, ConsumedHasTypes DEF SelectBegins, pickVars
<1>2. CASE DetectsRole
  <2>1. SessionTypeOK'
    BY <1>2, ReadsKeepTypes DEF DetectsRole
  <2> QED BY <1>2, <2>1, ConsumedHasTypes DEF DetectsRole, pickVars, SessionTypeOK
<1>3. CASE PreparesPick
  <2>1. SessionTypeOK'
    BY <1>3, ReadsKeepTypes DEF PreparesPick
  <2>2. index' \in Pool
    BY <1>3, PreferredIsCandidate, NamesHaveTypes DEF PreparesPick
  <2>3. ActionTypeOK'
    BY <1>3, <2>2, CallsHaveTypes, NamesHaveTypes DEF PreparesPick
  <2> QED BY <1>3, <2>1, <2>2, <2>3 DEF PreparesPick
<1>4. CASE PrepickGoesOn \/ PrepickTimesOut
  <2>1. SessionTypeOK'
    BY <1>4, ReadsKeepTypes, PhaseKeepsTypes DEF PrepickGoesOn, PrepickTimesOut
  <2>2. ActionTypeOK'
    BY <1>4, CallsHaveTypes, ConsumedHasTypes, NamesHaveTypes
       DEF PrepickGoesOn, PrepickTimesOut
  <2>3. pc' \in PCs
    BY <1>4 DEF PrepickGoesOn, PrepickTimesOut, BanLoopBegins, Got
  <2>4. watched' \in {watched, 0} /\ seen' \in {seen, "nothing"}
    BY <1>4 DEF PrepickGoesOn, PrepickTimesOut, BanLoopBegins
  <2>5. UNCHANGED <<role, index, known, trial>>
    BY <1>4 DEF PrepickGoesOn, PrepickTimesOut
  <2> QED BY <2>1, <2>2, <2>3, <2>4, <2>5, SessionConstants
<1>5. CASE PrepicksOnScreen
  <2>1. SessionTypeOK'
    BY <1>5, ReadsKeepTypes, PhaseKeepsTypes, ScreenKeepsTypes, NamesHaveTypes
       DEF PrepicksOnScreen, MatchReset
  <2>2. ActionTypeOK'
    BY <1>5, ConsumedHasTypes DEF PrepicksOnScreen
  <2> QED BY <1>5, <2>1, <2>2, SessionConstants DEF PrepicksOnScreen, BanLoopBegins
<1> QED BY <1>1, <1>2, <1>3, <1>4, <1>5

LEMMA BanHasTypes ==
    ASSUME TypeOK,
           \/ BanReads \/ Rehovered \/ BanDecides \/ CommitsBan
           \/ BanGoesOn \/ BanTimesOut \/ BansOnScreen
    PROVE  SessionTypeOK' /\ ActionTypeOK' /\ MainTypeOK'
<1> USE DEF TypeOK, MainTypeOK, PCs, Loops, Callers
<1>1. CASE BanReads
  <2>1. SessionTypeOK'
    BY <1>1, ReadsKeepTypes DEF BanReads
  <2>2. index' \in Pool
    BY <1>1, PreferredIsCandidate DEF BanReads
  <2>3. ActionTypeOK'
    BY <1>1, <2>2, CallsHaveTypes, ConsumedHasTypes, NamesHaveTypes DEF BanReads
  <2>4. seen' \in {"nothing", "pick"} \cup BanStages
    BY <1>1 DEF BanReads, InProgress
  <2>5. watched' \in 0 .. MaxGames
    BY <1>1 DEF BanReads, SessionTypeOK
  <2> QED BY <1>1, <2>1, <2>2, <2>3, <2>4, <2>5 DEF BanReads
<1>2. CASE Rehovered
  <2>1. SessionTypeOK'
    BY <1>2, ReadsKeepTypes DEF Rehovered, ReadSucceeds
  <2> QED BY <1>2, <2>1, ConsumedHasTypes DEF Rehovered, pickVars
<1>3. CASE BanDecides
  <2>1. SessionTypeOK'
    BY <1>3, ReadsKeepTypes, PhaseKeepsTypes DEF BanDecides
  <2> QED BY <1>3, <2>1, ConsumedHasTypes DEF BanDecides, pickVars
<1>4. CASE CommitsBan
  <2>1. SessionTypeOK'
    BY <1>4, ReadsKeepTypes DEF CommitsBan
  <2>2. ActionTypeOK'
    BY <1>4, CallsHaveTypes, ConsumedHasTypes, NamesHaveTypes DEF CommitsBan
  <2> QED BY <1>4, <2>1, <2>2 DEF CommitsBan, pickVars
<1>5. CASE BanGoesOn \/ BanTimesOut
  <2>1. SessionTypeOK'
    BY <1>5, ReadsKeepTypes, PhaseKeepsTypes DEF BanGoesOn, BanTimesOut
  <2>2. ActionTypeOK'
    BY <1>5, CallsHaveTypes, ConsumedHasTypes, NamesHaveTypes DEF BanGoesOn, BanTimesOut
  <2> QED BY <1>5, <2>1, <2>2 DEF BanGoesOn, BanTimesOut, Got, pickVars
<1>6. CASE BansOnScreen
  <2>1. SessionTypeOK'
    <3>1. CASE ReadSucceeds \/ MatchReset
      BY <3>1, ReadsKeepTypes, PhaseKeepsTypes DEF MatchReset
    <3>2. CASE ~ReadSucceeds /\ ~MatchReset
      <4>1. Completes("ban", BanTarget, "image")
              /\ hover' = [hover EXCEPT !["ban"] = BanTarget]
              /\ UNCHANGED <<game, open, stage, refused, sent, faults>>
        BY <1>6, <3>2 DEF BansOnScreen
      <4>2. /\ taken' \subseteq Champions
            /\ done' \in [Kinds -> BOOLEAN]
            /\ lock' \in [by : {"nobody", "lcu", "image", "client"}, champ : Champions]
        BY <4>1, CompletesKeepsTypes, NamesHaveTypes
      <4>3. hover' \in [Kinds -> Champions]
        BY <4>1, NamesHaveTypes DEF SessionTypeOK
      <4> QED BY <4>1, <4>2, <4>3 DEF SessionTypeOK
    <3> QED BY <3>1, <3>2
  <2> QED BY <1>6, <2>1, ConsumedHasTypes DEF BansOnScreen, pickVars
<1> QED BY <1>1, <1>2, <1>3, <1>4, <1>5, <1>6

LEMMA ReservesHaveTypes ==
    ASSUME TypeOK, NEW after \in Pool, NEW caller \in PCs, TriesReserve(after, caller)
    PROVE  pc' \in PCs /\ trial' \in Pool /\ ActionTypeOK'
<1>1. CASE after < PoolSize
  <2>1. after + 1 \in Pool
    BY <1>1, SessionConstants DEF Pool
  <2> QED BY <1>1, <2>1, CallsHaveTypes, NamesHaveTypes DEF TriesReserve, TypeOK
<1>2. CASE ~(after < PoolSize)
  BY <1>2, ConsumedHasTypes DEF TriesReserve, TypeOK, PCs, Loops
<1> QED BY <1>1, <1>2

LEMMA PickHasTypes ==
    ASSUME TypeOK,
           \/ PickPass \/ TryGoesOn \/ ReserveGoesOn \/ PicksOnScreen
           \/ ImageReserveGoesOn \/ WaitEnds
    PROVE  SessionTypeOK' /\ ActionTypeOK' /\ MainTypeOK'
<1>1. /\ SessionTypeOK /\ ActionTypeOK /\ index \in Pool /\ trial \in Pool /\ pc \in PCs
      /\ {"outer", "won", "pick", "try", "reserve", "image", "imageReserve"} \subseteq PCs
  BY DEF TypeOK, PCs, Loops, Callers
<1>2. Picked(index) \/ Picked(trial) \/ NextPass \/ LeavesPick \/ LeavesScreen
        => pc' \in PCs /\ index' \in Pool /\ trial' \in Pool /\ ActionTypeOK'
  BY <1>1, ConsumedHasTypes DEF Picked, NextPass, LeavesPick, LeavesScreen
<1>3. TriesReserve(index, "reserve") \/ TriesReserve(trial, "reserve")
           \/ TriesReserve(index, "imageReserve") \/ TriesReserve(trial, "imageReserve")
        => pc' \in PCs /\ trial' \in Pool /\ ActionTypeOK'
  BY <1>1, ReservesHaveTypes
<1>4. UNCHANGED <<role, known, watched, seen>> /\ SessionTypeOK' /\ ActionTypeOK'
           /\ pc' \in PCs /\ index' \in Pool /\ trial' \in Pool
        => SessionTypeOK' /\ ActionTypeOK' /\ MainTypeOK'
  BY DEF TypeOK, MainTypeOK
<1>5. CASE PickPass
  <2>1. SessionTypeOK'
    BY <1>1, <1>5, ReadsKeepTypes DEF PickPass, Reconciles
  <2>2. index' \in Pool
    BY <1>1, <1>5, PreferredIsCandidate DEF PickPass, Reconciles
  <2>3. ActionTypeOK'
    BY <1>5, <2>2, CallsHaveTypes, NamesHaveTypes DEF PickPass
  <2> QED BY <1>1, <1>4, <1>5, <2>1, <2>2, <2>3 DEF PickPass
<1>6. CASE TryGoesOn
  <2>1. SessionTypeOK'
    BY <1>1, <1>6, ReadsKeepTypes, PhaseKeepsTypes DEF TryGoesOn, LeavesPick
  <2> QED BY <1>1, <1>2, <1>3, <1>4, <1>6, <2>1, ConsumedHasTypes DEF TryGoesOn
<1>7. CASE ReserveGoesOn
  <2>1. SessionTypeOK'
    BY <1>1, <1>7, ReadsKeepTypes, PhaseKeepsTypes DEF ReserveGoesOn, LeavesPick
  <2> QED BY <1>1, <1>2, <1>3, <1>4, <1>7, <2>1 DEF ReserveGoesOn
<1>8. CASE PicksOnScreen
  <2>1. hover["pick"] \in Champions
    BY <1>1, NamesHaveTypes DEF SessionTypeOK
  <2>2. SessionTypeOK'
    BY <1>1, <1>8, <2>1, ReadsKeepTypes, PhaseKeepsTypes, ScreenKeepsTypes
       DEF PicksOnScreen, LeavesScreen, MatchReset
  <2> QED BY <1>1, <1>2, <1>3, <1>4, <1>8, <2>2 DEF PicksOnScreen
<1>9. CASE ImageReserveGoesOn
  <2>1. SessionTypeOK'
    BY <1>1, <1>9, ReadsKeepTypes, PhaseKeepsTypes, ScreenKeepsTypes, NamesHaveTypes
       DEF ImageReserveGoesOn, LeavesPick
  <2> QED BY <1>1, <1>2, <1>3, <1>4, <1>9, <2>1, ConsumedHasTypes DEF ImageReserveGoesOn
<1>10. CASE WaitEnds
  <2>1. SessionTypeOK'
    BY <1>1, <1>10, PhaseKeepsTypes DEF WaitEnds
  <2> QED BY <1>1, <1>4, <1>10, <2>1, ConsumedHasTypes DEF WaitEnds, pickVars
<1> QED BY <1>5, <1>6, <1>7, <1>8, <1>9, <1>10

\* The state of the session, of the call and of the main thread stays within its types.
THEOREM SelectHasTypes == Spec => []TypeOK
<1>1. Init => TypeOK
  <2> SUFFICES ASSUME Init PROVE TypeOK
    OBVIOUS
  <2>1. sent \in Seq(Write)
    BY DEF Init, SessionInit
  <2>2. SessionTypeOK
    <3>1. game \in 0 .. MaxGames /\ faults \in 0 .. MaxFaults /\ stage \in Stages
      BY SessionConstants DEF Init, SessionInit, Stages
    <3>2. hover \in [Kinds -> Champions] /\ done \in [Kinds -> BOOLEAN]
      BY NamesHaveTypes DEF Init, SessionInit, Nothing
    <3>3. lock \in [by : {"nobody", "lcu", "image", "client"}, champ : Champions]
      BY NamesHaveTypes DEF Init, SessionInit, Unlocked
    <3>4. open \in BOOLEAN /\ taken \subseteq Champions /\ refused \subseteq Refusable
      BY DEF Init, SessionInit
    <3> QED BY <2>1, <3>1, <3>2, <3>3, <3>4 DEF SessionTypeOK
  <2>3. ActionTypeOK
    BY NamesHaveTypes DEF Init, ActionInit, ActionTypeOK, Write, Steps, Results
  <2>4. pc \in PCs /\ role \in 0 .. MaxGames /\ watched \in 0 .. MaxGames
             /\ missed \in 0 .. PassesPerGap
    BY SessionConstants DEF Init, PCs, PassesPerGap
  <2>5. index \in Pool /\ trial \in Pool /\ seen \in {"nothing", "pick"} \cup BanStages
    BY NamesHaveTypes DEF Init
  <2>6. known \in BOOLEAN /\ swift \in BOOLEAN
    BY DEF Init
  <2> QED BY <2>2, <2>3, <2>4, <2>5, <2>6 DEF TypeOK
<1>2. TypeOK /\ [Next]_vars => TypeOK'
  <2> SUFFICES ASSUME TypeOK, [Next]_vars PROVE TypeOK'
    OBVIOUS
  <2>1. CASE Program
    <3>1. SessionTypeOK' /\ ActionTypeOK' /\ MainTypeOK'
      <4>1. CASE ActionSteps /\ UNCHANGED <<pc, role, pickVars>>
        <5>1. SessionTypeOK' /\ ActionTypeOK'
          BY <4>1, ActionHasTypes DEF TypeOK
        <5> QED BY <4>1, <5>1 DEF TypeOK, MainTypeOK, pickVars
      <4> QED BY <2>1, <4>1, BeginningHasTypes, BanHasTypes, PickHasTypes
              DEF Program, ProgramSteps
    <3>2. missed' \in 0 .. PassesPerGap /\ swift' \in BOOLEAN
      BY <2>1, SessionConstants DEF Program, TypeOK, PassesPerGap
    <3> QED BY <3>1, <3>2 DEF TypeOK, MainTypeOK
  <2>2. CASE Client
    <3>1. SessionTypeOK'
      BY <2>2, ClientKeepsTypes DEF Client, Opens, Advances, TypeOK
    <3>2. UNCHANGED mainKept
      BY <2>2 DEF Client, Opens, Advances
    <3>3. ActionTypeOK'
      BY <3>2, ConsumedHasTypes DEF mainKept, TypeOK
    <3>4. missed' \in 0 .. PassesPerGap
      BY <2>2, SessionConstants DEF Client, Opens, Advances, TypeOK, PassesPerGap
    <3>5. swift' \in BOOLEAN
      BY <2>2, Zenon DEF Client, Opens, Advances, TypeOK
    <3> QED BY <3>1, <3>2, <3>3, <3>4, <3>5 DEF TypeOK, mainKept, pickVars
  <2>3. CASE UNCHANGED vars
    <3>1. SessionTypeOK'
      BY <2>3, ReadsKeepTypes DEF TypeOK, vars, ReadSucceeds
    <3>2. ActionTypeOK'
      BY <2>3, ConsumedHasTypes DEF TypeOK, vars
    <3> QED BY <2>3, <3>1, <3>2 DEF TypeOK, vars, pickVars
  <2> QED BY <2>1, <2>2, <2>3 DEF Next
<1> QED BY <1>1, <1>2, PTL DEF Spec

-----------------------------------------------------------------------------
(* The ban and its session.  Without faults the ban is only ever completed *)
(* by a write of the call in the ban loop.  That call began in the watched *)
(* session; in a session that has replaced it the planning stage lasts     *)
(* until the call has returned, and with the session its writes have gone. *)

BanSent(writes) ==
    \E i \in 1 .. Len(writes) : writes[i].kind = "ban" /\ writes[i].complete

Completing == pc = "banTry" /\ step \in {"confirm", "confirmFallback"} /\ stage # "plan"

BanRules ==
    /\ pc # "banImage" /\ result # "image"
    /\ step \notin {"patchUnanswered", "fallbackUnanswered"}
    /\ pc = "banTry" => asked.kind = "ban"
    /\ step # "idle" /\ asked.kind = "ban" => pc = "banTry"
    /\ pc \in {"rehover", "banDecide", "commit"} => watched # 0
    /\ pc = "banTry" /\ stage # "plan" => watched = game
    /\ BanSent(sent) => done["ban"] \/ Completing

BanInv == (open => game # 0) /\ (faults = 0 => BanRules)

LEMMA NoFault ==
    ASSUME TypeOK, faults' = 0
    PROVE  ~Fault /\ ~ReadFails /\ ~Phase("unknown")
BY SessionConstants DEF TypeOK, SessionTypeOK, Fault, ReadFails, Phase

LEMMA BanSentAppends ==
    ASSUME NEW s \in Seq(Write), NEW w \in Write, BanSent(Append(s, w))
    PROVE  BanSent(s) \/ (w.kind = "ban" /\ w.complete)
<1>1. PICK i \in 1 .. Len(Append(s, w)) :
           Append(s, w)[i].kind = "ban" /\ Append(s, w)[i].complete
  BY DEF BanSent
<1>2. CASE i = Len(s) + 1
  BY <1>1, <1>2
<1>3. CASE i # Len(s) + 1
  <2>1. i \in 1 .. Len(s) /\ Append(s, w)[i] = s[i]
    BY <1>1, <1>3
  <2> QED BY <1>1, <2>1 DEF BanSent
<1> QED BY <1>2, <1>3

LEMMA BanSentLands ==
    ASSUME NEW s \in Seq(Write), s # <<>>
    PROVE  /\ BanSent(Tail(s)) => BanSent(s)
           /\ Head(s).kind = "ban" /\ Head(s).complete => BanSent(s)
<1>1. ASSUME BanSent(Tail(s)) PROVE BanSent(s)
  <2>1. PICK i \in 1 .. Len(Tail(s)) : Tail(s)[i].kind = "ban" /\ Tail(s)[i].complete
    BY <1>1 DEF BanSent
  <2>2. i + 1 \in 1 .. Len(s) /\ Tail(s)[i] = s[i + 1]
    BY <2>1
  <2> QED BY <2>1, <2>2 DEF BanSent
<1>2. 1 \in 1 .. Len(s) /\ Head(s) = s[1]
  OBVIOUS
<1> QED BY <1>1, <1>2 DEF BanSent

LEMMA NothingSent == ~BanSent(<<>>)
BY DEF BanSent

-----------------------------------------------------------------------------
(* The program's own steps.                                                *)

MainSteps ==
    \/ SelectBegins \/ DetectsRole \/ PreparesPick
    \/ PrepickGoesOn \/ PrepickTimesOut \/ PrepicksOnScreen
    \/ BanReads \/ Rehovered \/ BanDecides \/ CommitsBan
    \/ BanGoesOn \/ BanTimesOut \/ BansOnScreen
    \/ PickPass \/ TryGoesOn \/ ReserveGoesOn \/ PicksOnScreen \/ ImageReserveGoesOn
    \/ WaitEnds

SessionStands ==
    UNCHANGED <<game, open, stage, sent>> /\ (done["ban"] => done'["ban"])

LEMMA ReadingStands ==
    ASSUME ReadSucceeds \/ ReadFails \/ (\E answer : Phase(answer))
    PROVE  SessionStands /\ done' = done
BY DEF ReadSucceeds, ReadFails, Phase, sessionVars, SessionStands

LEMMA ScreenStands ==
    ASSUME TypeOK, NEW champ, HoversOnScreen(champ) \/ ClicksReady(champ)
    PROVE  SessionStands /\ done'["ban"] = done["ban"]
BY DEF HoversOnScreen, ClicksReady, Completes, SessionStands, TypeOK, SessionTypeOK, Kinds

LEMMA MainStands ==
    ASSUME TypeOK, MainSteps
    PROVE  SessionStands /\ (BansOnScreen \/ done'["ban"] = done["ban"])
<1>1. CASE SelectBegins \/ Rehovered
  <2>1. UNCHANGED sessionVars
    BY <1>1 DEF SelectBegins, Rehovered
  <2> QED BY <2>1, ReadingStands DEF ReadSucceeds
<1>2. CASE DetectsRole \/ PreparesPick \/ BanReads \/ CommitsBan \/ PickPass
  <2>1. ReadSucceeds \/ ReadFails
    BY <1>2 DEF DetectsRole, PreparesPick, BanReads, CommitsBan, PickPass, Reconciles
  <2> QED BY <2>1, ReadingStands
<1>3. CASE PrepickGoesOn \/ PrepickTimesOut \/ BanDecides \/ BanGoesOn \/ BanTimesOut
             \/ WaitEnds
  <2>1. ReadSucceeds \/ (\E answer : Phase(answer))
    BY <1>3 DEF PrepickGoesOn, PrepickTimesOut, BanDecides, BanGoesOn, BanTimesOut, WaitEnds
  <2> QED BY <2>1, ReadingStands
<1>4. CASE PrepicksOnScreen
  <2>1. ReadSucceeds \/ Phase("out") \/ HoversOnScreen(index)
    BY <1>4 DEF PrepicksOnScreen, MatchReset
  <2> QED BY <2>1, ReadingStands, ScreenStands
<1>5. CASE BansOnScreen
  <2>1. \/ Phase("out") \/ ReadSucceeds
        \/ /\ UNCHANGED <<game, open, stage, sent>>
           /\ done' = [done EXCEPT !["ban"] = TRUE]
    BY <1>5 DEF BansOnScreen, MatchReset, Completes
  <2>2. done["ban"] /\ done' = [done EXCEPT !["ban"] = TRUE] => done'["ban"]
    BY DEF TypeOK, SessionTypeOK, Kinds
  <2> QED BY <1>5, <2>1, <2>2, ReadingStands DEF SessionStands
<1>6. CASE TryGoesOn \/ ReserveGoesOn
  <2>1. ReadSucceeds \/ (\E answer : Phase(answer))
    BY <1>6 DEF TryGoesOn, ReserveGoesOn, LeavesPick
  <2> QED BY <2>1, ReadingStands
<1>7. CASE PicksOnScreen
  <2>1. ReadSucceeds \/ Phase("out") \/ ClicksReady(hover["pick"])
    BY <1>7 DEF PicksOnScreen, LeavesScreen, MatchReset
  <2> QED BY <2>1, ReadingStands, ScreenStands
<1>8. CASE ImageReserveGoesOn
  <2>1. \/ ReadSucceeds \/ (\E answer : Phase(answer))
        \/ ClicksReady(trial) \/ HoversOnScreen(trial)
    BY <1>8 DEF ImageReserveGoesOn, LeavesPick
  <2> QED BY <2>1, ReadingStands, ScreenStands
<1> QED BY <1>1, <1>2, <1>3, <1>4, <1>5, <1>6, <1>7, <1>8 DEF MainSteps

\* What a step makes of the call, when it does not enter or leave the ban's.
CallStands ==
    \/ Consumed
    \/ \E champ, complete : Calls("pick", champ, complete)
    \/ UNCHANGED actionVars

\* A step that stays clear of the ban keeps the rules.
LEMMA ElsewhereKeeps ==
    ASSUME BanRules, SessionStands, CallStands, pc # "banTry",
           pc' \notin {"banImage", "banTry"},
           pc' \in {"rehover", "banDecide", "commit"} => watched' # 0
    PROVE  BanRules'
<1>1. BanSent(sent') => done'["ban"]
  BY DEF BanRules, SessionStands, Completing
<1>2. /\ result' # "image"
      /\ step' \notin {"patchUnanswered", "fallbackUnanswered"}
      /\ ~(step' # "idle" /\ asked'.kind = "ban")
  BY DEF BanRules, CallStands, Consumed, Calls, actionVars
<1> QED BY <1>1, <1>2 DEF BanRules

LEMMA MainKeeps ==
    ASSUME TypeOK, BanInv, MainSteps, faults = 0, faults' = 0
    PROVE  BanRules'
<1>1. BanRules /\ SessionStands /\ (open => game # 0) /\ ~Phase("unknown")
  BY MainStands, NoFault DEF BanInv
<1>2. CASE SelectBegins \/ DetectsRole \/ PreparesPick
  <2>1. CallStands /\ pc # "banTry" /\ pc' \in {"role", "prepare", "outer", "prepick"}
    BY <1>2 DEF SelectBegins, DetectsRole, PreparesPick, CallStands
  <2> QED BY <1>1, <2>1, ElsewhereKeeps
<1>3. CASE PrepickGoesOn \/ PrepickTimesOut \/ PrepicksOnScreen
  <2>1. CallStands /\ pc # "banTry" /\ pc' \in {"ban", "prepickImage", "outer", "prepick"}
    BY <1>3 DEF PrepickGoesOn, PrepickTimesOut, PrepicksOnScreen, CallStands, Got,
                BanLoopBegins
  <2> QED BY <1>1, <2>1, ElsewhereKeeps
<1>4. CASE BanReads
  <2>1. CallStands /\ pc # "banTry" /\ pc' \in {"outer", "rehover", "banDecide"}
    BY <1>4 DEF BanReads, CallStands
  <2>2. pc' # "outer" => watched' # 0
    BY <1>1, <1>4 DEF BanReads, SameSession
  <2> QED BY <1>1, <2>1, <2>2, ElsewhereKeeps
<1>5. CASE Rehovered \/ BanDecides
  <2>1. CallStands /\ pc # "banTry" /\ pc' \in {"outer", "banDecide", "commit", "pick", "ban"}
    BY <1>5 DEF Rehovered, BanDecides, CallStands, Got
  <2>2. watched' # 0
    BY <1>1, <1>5 DEF Rehovered, BanDecides, pickVars, Got, BanRules
  <2> QED BY <1>1, <2>1, <2>2, ElsewhereKeeps
<1>6. CASE CommitsBan
  <2>1. CASE UNCHANGED actionVars /\ pc' \in {"outer", "pick"}
    <3>1. CallStands /\ pc # "banTry"
      BY <1>6, <2>1 DEF CommitsBan, CallStands
    <3> QED BY <1>1, <2>1, <3>1, ElsewhereKeeps
  <2>2. CASE SameSession /\ pc' = "banTry" /\ Calls("ban", BanTarget, TRUE)
    <3>1. watched' = game'
      BY <1>1, <1>6, <2>2 DEF CommitsBan, SameSession, pickVars, BanRules, SessionStands
    <3>2. BanSent(sent') => done'["ban"]
      BY <1>1, <1>6 DEF CommitsBan, BanRules, SessionStands, Completing
    <3>3. step' = "find" /\ result' = "none" /\ asked'.kind = "ban"
      BY <2>2 DEF Calls
    <3> QED BY <2>2, <3>1, <3>2, <3>3 DEF BanRules
  <2> QED BY <1>6, <2>1, <2>2 DEF CommitsBan
<1>7. CASE BanGoesOn \/ BanTimesOut
  <2>1. pc = "banTry" /\ step = "idle" /\ UNCHANGED watched
    BY <1>7 DEF BanGoesOn, BanTimesOut, Got, pickVars
  <2>2. BanSent(sent') => done'["ban"]
    BY <1>1, <2>1 DEF BanRules, SessionStands, Completing
  <2>3. \/ Consumed /\ pc' \in {"pick", "outer"}
        \/ Calls("ban", BanTarget, TRUE) /\ pc' = "banTry"
    BY <1>1, <1>7 DEF BanGoesOn, BanTimesOut, Got, BanRules
  <2>4. /\ result' = "none"
        /\ step' \in {"find", "idle"}
        /\ step' # "idle" /\ asked'.kind = "ban" => pc' = "banTry"
        /\ pc' = "banTry" => asked'.kind = "ban"
    BY <2>3 DEF Consumed, Calls
  <2>5. pc' = "banTry" /\ stage' # "plan" => watched' = game'
    BY <1>1, <2>1 DEF BanRules, SessionStands
  <2> QED BY <2>2, <2>3, <2>4, <2>5 DEF BanRules
<1>8. CASE BansOnScreen
  BY <1>1, <1>8 DEF BansOnScreen, BanRules
<1>9. CASE PickPass \/ TryGoesOn \/ ReserveGoesOn \/ PicksOnScreen \/ ImageReserveGoesOn
             \/ WaitEnds
  <2> USE DEF Picked, NextPass, LeavesPick, LeavesScreen, TriesReserve, CallStands, Got
  <2>1. pc # "banTry"
    BY <1>9 DEF PickPass, TryGoesOn, ReserveGoesOn, PicksOnScreen, ImageReserveGoesOn, WaitEnds
  <2>2. CallStands
    BY <1>1, <1>9 DEF PickPass, TryGoesOn, ReserveGoesOn, PicksOnScreen, ImageReserveGoesOn,
                      WaitEnds
  <2>3. pc' \in {"pick", "try", "reserve", "image", "imageReserve", "won", "outer"}
    BY <1>9 DEF PickPass, TryGoesOn, ReserveGoesOn, PicksOnScreen, ImageReserveGoesOn, WaitEnds
  <2> QED BY <1>1, <2>1, <2>2, <2>3, ElsewhereKeeps
<1> QED BY <1>2, <1>3, <1>4, <1>5, <1>6, <1>7, <1>8, <1>9 DEF MainSteps

-----------------------------------------------------------------------------
(* The steps of a call.                                                    *)

LEMMA ActionStands ==
    ASSUME ActionSteps
    PROVE  UNCHANGED <<game, open, stage, done, asked>>
<1>1. ReadSucceeds \/ ReadFails \/ (\E w, answer : Requests(w, answer))
  BY DEF ActionSteps, FindsAction, Assigns, WaitsForAssignment, CompletesAction,
         PatchesCompleted, Confirms, FallsBack, ConfirmsFallback, TimesOut
<1>2. UNCHANGED <<game, open, stage, done>>
  BY <1>1 DEF ReadSucceeds, ReadFails, Requests, sessionVars
<1>3. asked' = asked
  BY DEF ActionSteps, FindsAction, Assigns, WaitsForAssignment, CompletesAction,
         PatchesCompleted, Confirms, FallsBack, ConfirmsFallback, GoesTo, Returns
<1> QED BY <1>2, <1>3

\* A request that completes the ban is sent in the ban loop, in a stage of the ban.
LEMMA CompletionIsSent ==
    ASSUME TypeOK, BanRules, step \notin {"idle", "confirm", "confirmFallback"},
           NEW w \in Write, w.kind = asked.kind, Requests(w, "ok"),
           pc' = pc, step' \in {"confirm", "confirmFallback"}, UNCHANGED <<stage, done>>
    PROVE  BanSent(sent') => done'["ban"] \/ Completing'
<1> SUFFICES ASSUME BanSent(sent'), ~done["ban"] PROVE Completing'
  OBVIOUS
<1>1. sent' = Append(sent, w) /\ Accepts(w)
  BY DEF Requests
<1>2. sent \in Seq(Write)
  BY DEF TypeOK, SessionTypeOK
<1>3. BanSent(sent) \/ (w.kind = "ban" /\ w.complete)
  BY <1>1, <1>2, BanSentAppends
<1>4. ~BanSent(sent)
  BY DEF BanRules, Completing
<1>5. stage # "plan" /\ pc = "banTry"
  BY <1>1, <1>3, <1>4 DEF Accepts, InProgress, BanRules
<1> QED BY <1>5 DEF Completing

LEMMA ActionKeeps ==
    ASSUME TypeOK, BanInv, ActionSteps, UNCHANGED <<pc, watched>>, faults = 0, faults' = 0
    PROVE  BanRules'
<1> USE DEF GoesTo, Returns
<1>1. /\ BanRules /\ UNCHANGED <<game, open, stage, done, asked>>
      /\ ~Fault /\ ~ReadFails
      /\ \A w : ~Requests(w, "none")
  BY ActionStands, NoFault DEF BanInv, Requests
<1>2. asked \in Write /\ Assignment \in Write /\ Completion \in Write
  <2>1. asked \in Write
    BY DEF TypeOK, ActionTypeOK
  <2> QED BY <2>1, NamesHaveTypes DEF Assignment, Completion, Write
<1>3. step # "idle"
  BY DEF ActionSteps, FindsAction, Assigns, WaitsForAssignment, CompletesAction,
         PatchesCompleted, Confirms, FallsBack, ConfirmsFallback
<1>4. result' # "image" /\ step' \notin {"patchUnanswered", "fallbackUnanswered"}
  BY <1>1 DEF ActionSteps, FindsAction, Assigns, WaitsForAssignment, CompletesAction,
              PatchesCompleted, Confirms, FallsBack, ConfirmsFallback, BanRules
<1>5. BanSent(sent') => done'["ban"] \/ Completing'
  <2>1. CASE FindsAction \/ WaitsForAssignment
    <3>1. sent' = sent /\ step \notin {"confirm", "confirmFallback"}
      BY <1>1, <2>1 DEF FindsAction, WaitsForAssignment, TimesOut, ReadSucceeds, sessionVars
    <3> QED BY <1>1, <3>1 DEF BanRules, Completing
  <2>2. CASE Assigns
    <3>1. sent' = sent \/ sent' = Append(sent, Assignment)
      BY <1>1, <2>2 DEF Assigns, Requests
    <3>2. ~Assignment.complete /\ sent \in Seq(Write)
      BY <1>2 DEF Assignment, Write, TypeOK, SessionTypeOK, ActionTypeOK
    <3>3. BanSent(sent') => BanSent(sent)
      BY <1>2, <3>1, <3>2, BanSentAppends
    <3> QED BY <1>1, <2>2, <3>3 DEF BanRules, Completing, Assigns
  <2>3. CASE CompletesAction
    <3>1. \/ Requests(Completion, "ok") /\ step' = "confirm"
          \/ sent' = sent
      BY <1>1, <2>3 DEF CompletesAction, Requests
    <3>2. step = "complete" /\ Completion.kind = asked.kind
      BY <1>2, <2>3 DEF CompletesAction, Completion, Write
    <3>3. CASE sent' = sent
      BY <1>1, <3>2, <3>3 DEF BanRules, Completing
    <3> QED BY <1>1, <1>2, <3>1, <3>2, <3>3, CompletionIsSent
  <2>4. CASE PatchesCompleted \/ FallsBack
    <3>1. \/ Requests(asked, "ok") /\ step' = "confirmFallback"
          \/ sent' = sent
      BY <1>1, <2>4 DEF PatchesCompleted, FallsBack, Requests
    <3>2. step \in {"patch", "patchUnanswered", "fallback", "fallbackUnanswered"}
      BY <2>4 DEF PatchesCompleted, FallsBack
    <3>3. CASE sent' = sent
      BY <1>1, <3>2, <3>3 DEF BanRules, Completing
    <3> QED BY <1>1, <1>2, <3>1, <3>2, <3>3, CompletionIsSent
  <2>5. CASE Confirms \/ ConfirmsFallback
    <3>1. done[asked.kind] \/ sent = <<>>
      BY <1>1, <2>5 DEF Confirms, ConfirmsFallback, TimesOut, ShowsCompleted
    <3>2. sent' = sent
      BY <1>1, <2>5 DEF Confirms, ConfirmsFallback, TimesOut, ReadSucceeds, sessionVars
    <3>3. BanSent(sent) => done["ban"]
      BY <1>1, <3>1, NothingSent DEF BanRules, Completing
    <3> QED BY <1>1, <3>2, <3>3
  <2> QED BY <2>1, <2>2, <2>3, <2>4, <2>5 DEF ActionSteps
<1> QED BY <1>1, <1>3, <1>4, <1>5 DEF BanRules

-----------------------------------------------------------------------------
(* The client's steps, and the theorem.                                    *)

LEMMA LandingKeeps ==
    ASSUME TypeOK, WriteLands
    PROVE  /\ BanSent(sent') => BanSent(sent)
           /\ done["ban"] => done'["ban"]
           /\ ~done["ban"] /\ done'["ban"] => BanSent(sent)
<1> DEFINE w == Head(sent)
<1>1. sent \in Seq(Write) /\ sent # <<>> /\ sent' = Tail(sent)
  BY DEF TypeOK, SessionTypeOK, WriteLands
<1>2. w \in Write /\ w.kind \in Kinds
  <2>1. w \in Write
    BY <1>1
  <2> QED BY <2>1 DEF Write
<1>3. \/ done' = done
      \/ w.complete /\ done' = [done EXCEPT ![w.kind] = TRUE]
  BY DEF WriteLands, Completes
<1>4. done \in [Kinds -> BOOLEAN] /\ "ban" \in Kinds
  BY DEF TypeOK, SessionTypeOK, Kinds
<1> HIDE DEF w
<1>5. (done["ban"] => done'["ban"])
         /\ (~done["ban"] /\ done'["ban"] => w.kind = "ban" /\ w.complete)
  BY <1>2, <1>3, <1>4
<1> QED BY <1>1, <1>5, BanSentLands DEF w

LEMMA UserKeeps ==
    ASSUME TypeOK, UserHovers \/ UserLocks \/ (\E c \in Pool \cup {BanTarget} : OthersTake(c))
    PROVE  UNCHANGED <<game, open, stage, sent>> /\ done'["ban"] = done["ban"]
BY DEF UserHovers, UserLocks, OthersTake, Completes, TypeOK, SessionTypeOK, Kinds

LEMMA ClientKeeps ==
    ASSUME TypeOK, BanInv, Client, faults = 0, faults' = 0
    PROVE  BanRules'
<1>1. BanRules /\ ~Fault /\ UNCHANGED <<step, asked, result, pc, watched>>
  BY NoFault DEF BanInv, Client, Opens, Advances, mainKept, actionVars, pickVars
<1>2. CASE Opens
  <2>1. stage' = "plan" /\ ~BanSent(sent')
    BY <1>2, NothingSent DEF Opens, SessionOpens
  <2> QED BY <1>1, <2>1 DEF BanRules
<1>3. CASE Advances
  <2>1. StageEnds /\ (stage = "plan" => pc # "banTry") /\ UNCHANGED <<game, sent>>
    BY <1>3 DEF Advances, StageEnds
  <2>2. done["ban"] => done'["ban"]
    BY <2>1 DEF StageEnds, Completes, TypeOK, SessionTypeOK, Kinds
  <2>3. stage # "plan" => stage' # "plan"
    BY <2>1 DEF StageEnds
  <2> QED BY <1>1, <2>1, <2>2, <2>3 DEF BanRules, Completing
<1>4. CASE WriteLands
  <2>1. UNCHANGED <<game, stage>>
    BY <1>4 DEF WriteLands
  <2> QED BY <1>1, <1>4, <2>1, LandingKeeps DEF BanRules, Completing
<1>5. CASE WriteIsLost
  BY <1>1, <1>5 DEF WriteIsLost
<1>6. CASE SessionCloses
  <2>1. UNCHANGED <<game, stage, done>> /\ ~BanSent(sent')
    BY <1>6, NothingSent DEF SessionCloses
  <2> QED BY <1>1, <2>1 DEF BanRules
<1>7. CASE UserHovers \/ UserLocks \/ (\E c \in Pool \cup {BanTarget} : OthersTake(c))
  BY <1>1, <1>7, UserKeeps DEF BanRules, Completing
<1> QED BY <1>2, <1>3, <1>4, <1>5, <1>6, <1>7 DEF Client, ClientMoves

LEMMA FaultsGrow ==
    ASSUME [Next]_vars
    PROVE  faults' = faults \/ Fault
<1>1. CASE Program
  <2>1. CASE ActionSteps
    BY <2>1 DEF ActionSteps, FindsAction, Assigns, WaitsForAssignment, CompletesAction,
                PatchesCompleted, Confirms, FallsBack, ConfirmsFallback, TimesOut,
                ReadSucceeds, ReadFails, Requests, sessionVars
  <2>2. CASE SelectBegins \/ DetectsRole \/ PreparesPick \/ PrepickGoesOn
               \/ PrepickTimesOut \/ PrepicksOnScreen
    BY <2>2 DEF SelectBegins, DetectsRole, PreparesPick, PrepickGoesOn, PrepickTimesOut,
                PrepicksOnScreen, MatchReset, Phase, ReadSucceeds, ReadFails, sessionVars,
                HoversOnScreen
  <2>3. CASE BanReads \/ Rehovered \/ BanDecides \/ CommitsBan \/ BanGoesOn \/ BanTimesOut
               \/ BansOnScreen
    BY <2>3 DEF BanReads, Rehovered, BanDecides, CommitsBan, BanGoesOn, BanTimesOut,
                BansOnScreen, MatchReset, Phase, ReadSucceeds, ReadFails, sessionVars
  <2>4. CASE PickPass \/ TryGoesOn \/ ReserveGoesOn \/ PicksOnScreen
               \/ ImageReserveGoesOn \/ WaitEnds
    BY <2>4 DEF PickPass, Reconciles, TryGoesOn, ReserveGoesOn, PicksOnScreen,
                ImageReserveGoesOn, WaitEnds, LeavesPick, LeavesScreen, MatchReset, Phase,
                ReadSucceeds, ReadFails, sessionVars, ClicksReady, HoversOnScreen
  <2> QED BY <1>1, <2>1, <2>2, <2>3, <2>4 DEF Program, ProgramSteps
<1>2. CASE Client
  BY <1>2 DEF Client, Opens, Advances, SessionOpens, StageEnds, ClientMoves, WriteLands,
              WriteIsLost, SessionCloses, UserHovers, UserLocks, OthersTake
<1> QED BY <1>1, <1>2 DEF Next, vars, sessionVars

LEMMA FaultsStay ==
    ASSUME TypeOK, [Next]_vars, faults' = 0
    PROVE  faults = 0
BY FaultsGrow, SessionConstants DEF TypeOK, SessionTypeOK, Fault

LEMMA BanInvIsInductive ==
    ASSUME TypeOK, BanInv, [Next]_vars
    PROVE  BanInv'
<1>1. open' => game' # 0
  <2>1. CASE Program
    BY <2>1, MainStands, ActionStands
       DEF Program, ProgramSteps, MainSteps, SessionStands, BanInv
  <2>2. CASE Client
    <3>1. game \in Nat
      BY SessionConstants DEF TypeOK, SessionTypeOK
    <3>2. CASE Opens
      BY <3>1, <3>2 DEF Opens, SessionOpens
    <3>3. CASE ~Opens
      <4>1. game' = game /\ (open' => open)
        BY <2>2, <3>3 DEF Client, Advances, StageEnds, ClientMoves, WriteLands, WriteIsLost,
                          SessionCloses, UserHovers, UserLocks, OthersTake
      <4> QED BY <4>1 DEF BanInv
    <3> QED BY <3>2, <3>3
  <2> QED BY <2>1, <2>2 DEF Next, vars, sessionVars, BanInv
<1>2. ASSUME faults' = 0 PROVE BanRules'
  <2>1. faults = 0 /\ BanRules
    BY <1>2, FaultsStay DEF BanInv
  <2>2. CASE Program
    <3>1. CASE MainSteps
      BY <1>2, <2>1, <3>1, MainKeeps
    <3>2. CASE ActionSteps /\ UNCHANGED <<pc, role, pickVars>>
      BY <1>2, <2>1, <3>2, ActionKeeps DEF pickVars
    <3> QED BY <2>2, <3>1, <3>2 DEF Program, ProgramSteps, MainSteps
  <2>3. CASE Client
    BY <1>2, <2>1, <2>3, ClientKeeps
  <2>4. CASE UNCHANGED vars
    BY <2>1, <2>4 DEF vars, sessionVars, actionVars, pickVars, BanRules, Completing
  <2> QED BY <2>2, <2>3, <2>4 DEF Next
<1> QED BY <1>1, <1>2 DEF BanInv

\* For any pool, any number of sessions: as long as every request is answered, the ban that
\* is completed in the ban stage is one of the session the ban loop has been watching
\* (session_identity in _wait_for_late_ban_and_reconcile_pick_pool, _commit_ban_with_timing).
THEOREM BansBelong == Spec => BanBelongsToSession
<1>1. Init => BanInv
  BY NothingSent DEF Init, SessionInit, ActionInit, BanInv, BanRules
<1>2. TypeOK /\ BanInv /\ [Next]_vars => BanInv'
  BY BanInvIsInductive
<1>3. TypeOK /\ BanInv /\ [Next]_vars
        => [~done["ban"] /\ done'["ban"] /\ stage = "ban" /\ stage' = stage /\ faults = 0
              => watched = game]_vars
  <2> SUFFICES ASSUME TypeOK, BanInv, Next, ~done["ban"], done'["ban"], stage = "ban",
                      stage' = stage, faults = 0
               PROVE  watched = game
    BY DEF vars
  <2>1. BanRules
    BY DEF BanInv
  <2>2. CASE Program
    <3>1. BansOnScreen
      BY <2>2, MainStands, ActionStands DEF Program, ProgramSteps, MainSteps
    <3> QED BY <2>1, <3>1 DEF BansOnScreen, BanRules
  <2>3. CASE WriteLands
    BY <2>1, <2>3, LandingKeeps DEF BanRules, Completing
  <2>4. CASE Client /\ ~WriteLands
    <3>1. CASE Opens
      BY <3>1 DEF Opens, SessionOpens
    <3>2. CASE Advances
      BY <3>2 DEF Advances, StageEnds
    <3>3. CASE WriteIsLost \/ SessionCloses
      BY <3>3 DEF WriteIsLost, SessionCloses
    <3> QED BY <2>4, <3>1, <3>2, <3>3, UserKeeps DEF Client, ClientMoves
  <2> QED BY <2>2, <2>3, <2>4 DEF Next
<1> QED BY <1>1, <1>2, <1>3, SelectHasTypes, PTL DEF Spec, BanBelongsToSession

-----------------------------------------------------------------------------
(* The pick and its role.  A session opens while the main thread is still  *)
(* in a loop of the session before only if every pass since then has met a *)
(* fault; there are fewer faults than passes, so that, unless the sessions *)
(* follow each other too swiftly, the main thread is in the outer loop,    *)
(* and comes to send anything only by way of the role of this session.     *)

IdleInv == pc \notin Callers => step = "idle"

\* As many as the faults so far, and the one that is begun.
OneMore(m, f) == m <= f + 1

MissedInv ==
    /\ open => missed = 0
    /\ missed # 0 =>
          \/ pc = "outer"
          \/ pc \in {"pick", "image"} /\ missed <= faults
          \/ /\ pc = "try"
             /\ \/ step = "find" /\ OneMore(missed, faults)
                \/ step = "idle" /\ result = "wait" /\ OneMore(missed, faults)
                \/ step = "idle" /\ result = "image" /\ missed <= faults

RoleInv == ~swift /\ open /\ role # game => pc \in {"outer", "role"} /\ sent = <<>>

GapInv == IdleInv /\ MissedInv /\ RoleInv

\* The client leaves the main thread alone, and opens sessions by Opens only.
LEMMA ClientStands ==
    ASSUME Client
    PROVE  /\ UNCHANGED mainKept
           /\ Opens \/ (UNCHANGED <<game, missed, swift>> /\ (open' => open))
           /\ Opens \/ sent = <<>> => sent' = <<>>
BY DEF Client, Opens, Advances, SessionOpens, StageEnds, ClientMoves, WriteLands, WriteIsLost,
       SessionCloses, UserHovers, UserLocks, OthersTake

LEMMA MainLeavesIdle ==
    ASSUME IdleInv, MainSteps
    PROVE  IdleInv'
<1> USE DEF IdleInv, Callers, Consumed, Calls, actionVars
<1>1. CASE SelectBegins \/ DetectsRole \/ PreparesPick \/ PrepickGoesOn
             \/ PrepickTimesOut \/ PrepicksOnScreen
  BY <1>1 DEF SelectBegins, DetectsRole, PreparesPick, PrepickGoesOn, PrepickTimesOut,
              PrepicksOnScreen, BanLoopBegins, Got
<1>2. CASE BanReads \/ Rehovered \/ BanDecides \/ CommitsBan \/ BanGoesOn \/ BanTimesOut
             \/ BansOnScreen
  BY <1>2 DEF BanReads, Rehovered, BanDecides, CommitsBan, BanGoesOn, BanTimesOut,
              BansOnScreen, Got
<1>3. CASE PickPass \/ TryGoesOn \/ ReserveGoesOn \/ PicksOnScreen \/ ImageReserveGoesOn
             \/ WaitEnds
  <2> USE DEF Picked, NextPass, LeavesPick, LeavesScreen, TriesReserve, Got, Returns
  <2>1. CASE PickPass \/ TryGoesOn \/ ReserveGoesOn
    BY <2>1 DEF PickPass, TryGoesOn, ReserveGoesOn
  <2>2. CASE PicksOnScreen \/ ImageReserveGoesOn \/ WaitEnds
    BY <2>2 DEF PicksOnScreen, ImageReserveGoesOn, WaitEnds
  <2> QED BY <1>3, <2>1, <2>2
<1> QED BY <1>1, <1>2, <1>3 DEF MainSteps

LEMMA IdleIsKept ==
    ASSUME IdleInv, [Next]_vars
    PROVE  IdleInv'
<1>1. CASE MainSteps
  BY <1>1, MainLeavesIdle
<1>2. CASE ActionSteps /\ UNCHANGED <<pc, role, pickVars>>
  <2>1. step # "idle"
    BY <1>2 DEF ActionSteps, FindsAction, Assigns, WaitsForAssignment, CompletesAction,
                PatchesCompleted, Confirms, FallsBack, ConfirmsFallback
  <2> QED BY <1>2, <2>1 DEF IdleInv
<1>3. CASE Client \/ UNCHANGED vars
  BY <1>3, ClientStands DEF vars, mainKept, actionVars, IdleInv
<1> QED BY <1>1, <1>2, <1>3 DEF Next, Program, ProgramSteps, MainSteps

\* What the program does while there is no session.
LEMMA MainSeesGap ==
    ASSUME MainSteps, ~open
    PROVE  /\ pc # "outer"
           /\ pc = "ban" => pc' = "outer"
           /\ pc = "pick" => pc' = "try" /\ step' = "find"
           /\ pc = "image" => pc' \in {"outer", "pick"}
           /\ pc = "try" => /\ step = "idle"
                            /\ result = "wait" => \/ pc' = "outer"
                                                  \/ pc' = "image" /\ faults' = faults + 1
                            /\ result = "image" => pc' = "image"
<1> USE DEF Got, Calls, InProgress
<1>1. CASE SelectBegins \/ DetectsRole \/ PreparesPick \/ PrepickGoesOn
             \/ PrepickTimesOut \/ PrepicksOnScreen
  BY <1>1 DEF SelectBegins, DetectsRole, PreparesPick, PrepickGoesOn, PrepickTimesOut,
              PrepicksOnScreen
<1>2. CASE BanReads \/ Rehovered \/ BanDecides \/ CommitsBan \/ BanGoesOn \/ BanTimesOut
             \/ BansOnScreen
  BY <1>2 DEF BanReads, Rehovered, BanDecides, CommitsBan, BanGoesOn, BanTimesOut,
              BansOnScreen, SameSession
<1>3. CASE PickPass \/ ReserveGoesOn \/ ImageReserveGoesOn \/ WaitEnds
  BY <1>3 DEF PickPass, ReserveGoesOn, ImageReserveGoesOn, WaitEnds
<1>4. CASE TryGoesOn
  BY <1>4 DEF TryGoesOn, LeavesPick, Phase, ReadFails, Fault, Waits
<1>5. CASE PicksOnScreen
  BY <1>5 DEF PicksOnScreen, LeavesScreen, ClicksReady, PickForfeited, NextPass
<1> QED BY <1>1, <1>2, <1>3, <1>4, <1>5 DEF MainSteps

\* What is left when the faults grow.
LEMMA RoomRemains ==
    \A m, n, f, g \in Nat :
        f <= g => /\ m <= f => m <= g
                  /\ OneMore(m, f) => OneMore(m, g)
                  /\ g = f + 1 /\ OneMore(m, f) => m <= g
                  /\ n <= m + 1 /\ m <= f => OneMore(n, g)
BY DEF OneMore

LEMMA MissedIsKept ==
    ASSUME TypeOK, IdleInv, MissedInv, [Next]_vars
    PROVE  MissedInv'
<1>1. /\ faults \in Nat /\ faults' \in Nat /\ missed \in Nat
      /\ faults <= faults'
  <2>1. faults \in Nat /\ missed \in Nat
    BY SessionConstants DEF TypeOK, SessionTypeOK, PassesPerGap
  <2>2. faults' = faults \/ faults' = faults + 1
    BY FaultsGrow DEF Fault
  <2> QED BY <2>1, <2>2
<1>2. CASE Program /\ open
  BY <1>2, MainStands, ActionStands
     DEF Program, ProgramSteps, MainSteps, SessionStands, MissedInv
<1>3. CASE Program /\ ~open
  <2>1. ~open' /\ missed' \in {missed, missed + 1} /\ (pc \notin Loops => missed' = missed)
    BY <1>3, MainStands, ActionStands DEF Program, ProgramSteps, MainSteps, SessionStands
  <2>4. missed' \in Nat /\ missed' <= missed + 1
    BY <1>1, <2>1
  <2>2. CASE MainSteps
    <3>0. /\ pc # "outer"
          /\ pc = "ban" => pc' = "outer"
          /\ pc = "pick" => pc' = "try" /\ step' = "find"
          /\ pc = "image" => pc' \in {"outer", "pick"}
          /\ pc = "try" => /\ step = "idle"
                           /\ result = "wait" => \/ pc' = "outer"
                                                 \/ pc' = "image" /\ faults' = faults + 1
                           /\ result = "image" => pc' = "image"
      BY <2>2, <1>3, MainSeesGap
    <3> SUFFICES ASSUME missed' # 0, pc' # "outer"
                 PROVE  \/ pc' \in {"pick", "image"} /\ missed' <= faults'
                        \/ pc' = "try" /\ step' = "find" /\ OneMore(missed', faults')
      BY <2>1 DEF MissedInv
    <3>1. CASE pc = "pick"
      <4>1. missed <= faults
        BY <1>1, <3>1 DEF MissedInv
      <4>2. OneMore(missed', faults')
        BY <1>1, <2>4, <4>1, RoomRemains
      <4> QED BY <3>0, <3>1, <4>2
    <3>2. CASE pc = "image"
      <4>1. missed' = missed
        BY <2>1, <3>2 DEF Loops
      <4>2. missed <= faults
        BY <1>1, <3>2, <4>1 DEF MissedInv
      <4>3. missed' <= faults'
        BY <1>1, <4>1, <4>2, RoomRemains
      <4> QED BY <3>0, <3>2, <4>3
    <3>3. CASE pc = "try"
      <4>1. missed' = missed
        BY <2>1, <3>3 DEF Loops
      <4>2. \/ result = "wait" /\ OneMore(missed, faults)
            \/ result = "image" /\ missed <= faults
        BY <3>0, <3>3, <4>1 DEF MissedInv
      <4>3. pc' = "image" /\ (result = "wait" => faults' = faults + 1)
        BY <3>0, <3>3, <4>2
      <4>4. missed' <= faults'
        BY <1>1, <4>1, <4>2, <4>3, RoomRemains
      <4> QED BY <4>3, <4>4
    <3>4. CASE pc \notin {"pick", "image", "try"}
      <4>1. pc # "ban" /\ pc # "outer"
        BY <3>0
      <4>2. missed' = missed
        BY <2>1, <3>4, <4>1 DEF Loops
      <4> QED BY <3>4, <4>1, <4>2 DEF MissedInv
    <3> QED BY <3>1, <3>2, <3>3, <3>4
  <2>3. CASE ActionSteps /\ UNCHANGED <<pc, role, pickVars>>
    <3>1. pc \in Callers
      BY <2>3 DEF IdleInv, ActionSteps, FindsAction, Assigns, WaitsForAssignment,
                  CompletesAction, PatchesCompleted, Confirms, FallsBack, ConfirmsFallback
    <3>2. missed' = missed
      BY <2>1, <3>1 DEF Loops, Callers
    <3>3. CASE missed # 0
      <4>1. pc = "try" /\ step = "find" /\ OneMore(missed, faults)
        BY <2>3, <3>1, <3>3
           DEF MissedInv, Callers, ActionSteps, FindsAction, Assigns, WaitsForAssignment,
               CompletesAction, PatchesCompleted, Confirms, FallsBack, ConfirmsFallback
      <4>2. FindsAction
        BY <2>3, <4>1
           DEF ActionSteps, Assigns, WaitsForAssignment, CompletesAction,
               PatchesCompleted, Confirms, FallsBack, ConfirmsFallback
      <4>3. step' = "idle" /\ (result' = "wait" \/ (result' = "image" /\ faults' = faults + 1))
        BY <1>3, <4>2 DEF FindsAction, ActionIsOpen, Returns, ReadFails, Fault
      <4>4. OneMore(missed', faults') /\ (faults' = faults + 1 => missed' <= faults')
        BY <1>1, <3>2, <4>1, RoomRemains
      <4>5. pc' = "try"
        BY <2>3, <4>1
      <4> QED BY <2>1, <4>3, <4>4, <4>5 DEF MissedInv
    <3> QED BY <2>1, <3>2, <3>3 DEF MissedInv
  <2> QED BY <1>3, <2>2, <2>3 DEF Program, ProgramSteps, MainSteps
<1>4. CASE Client
  <2>1. CASE Opens
    BY <2>1 DEF Opens, MissedInv
  <2>2. CASE ~Opens
    <3>1. UNCHANGED <<missed, pc, step, result>> /\ (open' => open)
      BY <1>4, <2>2, ClientStands DEF mainKept, actionVars
    <3>2. /\ missed <= faults => missed' <= faults'
          /\ OneMore(missed, faults) => OneMore(missed', faults')
      BY <1>1, <3>1, RoomRemains
    <3> QED BY <3>1, <3>2 DEF MissedInv
  <2> QED BY <2>1, <2>2
<1>5. CASE UNCHANGED vars
  BY <1>5 DEF vars, sessionVars, actionVars, MissedInv
<1> QED BY <1>2, <1>3, <1>4, <1>5 DEF Next

\* A session that opens over a gap that could be seen finds the program in the outer loop.
LEMMA GapsAreSeen ==
    ASSUME TypeOK, MissedInv, GapIsSeen
    PROVE  pc = "outer"
<1> SUFFICES ASSUME missed = PassesPerGap, pc \in Loops PROVE FALSE
  BY DEF GapIsSeen
<1>1. faults <= MaxFaults /\ faults \in Nat /\ missed = MaxFaults + 1
  BY SessionConstants DEF TypeOK, SessionTypeOK, PassesPerGap
<1>2. missed # 0 /\ pc \notin {"outer", "image", "try"}
  BY <1>1, SessionConstants DEF Loops
<1> QED BY <1>1, <1>2, SessionConstants DEF MissedInv

LEMMA RoleIsKept ==
    ASSUME TypeOK, GapInv, [Next]_vars
    PROVE  RoleInv'
<1> SUFFICES ASSUME ~swift', open', role' # game'
             PROVE  pc' \in {"outer", "role"} /\ sent' = <<>>
  BY DEF RoleInv
<1>1. CASE Program
  <2>1. UNCHANGED <<game, open, swift>>
    BY <1>1, MainStands, ActionStands DEF Program, ProgramSteps, MainSteps, SessionStands
  <2>2. role' \in {role, game}
    BY <1>1 DEF Program, ProgramSteps, SelectBegins, DetectsRole, PreparesPick, PrepickGoesOn,
                PrepickTimesOut, PrepicksOnScreen, BanReads, Rehovered, BanDecides, CommitsBan,
                BanGoesOn, BanTimesOut, BansOnScreen, PickPass, TryGoesOn, ReserveGoesOn,
                PicksOnScreen, ImageReserveGoesOn, WaitEnds
  <2>3. pc \in {"outer", "role"} /\ sent = <<>> /\ step = "idle"
    BY <2>1, <2>2 DEF GapInv, RoleInv, IdleInv, Callers
  <2>4. ~ActionSteps
    BY <2>3 DEF ActionSteps, FindsAction, Assigns, WaitsForAssignment, CompletesAction,
                PatchesCompleted, Confirms, FallsBack, ConfirmsFallback
  <2>5. SelectBegins \/ DetectsRole
    BY <1>1, <2>3, <2>4
       DEF Program, ProgramSteps, PreparesPick, PrepickGoesOn, PrepickTimesOut,
           PrepicksOnScreen, BanReads, Rehovered, BanDecides, CommitsBan, BanGoesOn,
           BanTimesOut, BansOnScreen, PickPass, TryGoesOn, ReserveGoesOn, PicksOnScreen,
           ImageReserveGoesOn, WaitEnds, Got, Loops
  <2>6. sent' = sent
    BY <2>5, MainStands DEF MainSteps, SessionStands
  <2>7. pc' \in {"outer", "role"}
    BY <2>1, <2>5 DEF SelectBegins, DetectsRole
  <2> QED BY <2>3, <2>6, <2>7
<1>2. CASE Client
  <2>1. UNCHANGED <<pc, role>>
    BY <1>2, ClientStands DEF mainKept
  <2>2. CASE Opens
    <3>1. sent' = <<>> /\ (swift' = (swift \/ ~GapIsSeen))
      BY <2>2 DEF Opens, SessionOpens
    <3>2. GapIsSeen
      BY <3>1, Zenon
    <3> QED BY <2>1, <3>1, <3>2, GapsAreSeen DEF GapInv
  <2>3. CASE ~Opens
    <3>1. UNCHANGED <<game, swift>> /\ open
      BY <1>2, <2>3, ClientStands
    <3> QED BY <1>2, <2>1, <3>1, ClientStands DEF GapInv, RoleInv
  <2> QED BY <2>2, <2>3
<1>3. CASE UNCHANGED vars
  BY <1>3 DEF vars, sessionVars, GapInv, RoleInv
<1> QED BY <1>1, <1>2, <1>3 DEF Next

\* The pick is completed over the LCU when a write takes effect, and in no other way.
LEMMA OnlyWritesLock ==
    ASSUME Next, lock.by = "nobody", lock'.by = "lcu"
    PROVE  WriteLands
<1>1. CASE Program
  <2>1. lock' = lock \/ lock'.by = "image"
    <3>1. CASE ActionSteps
      BY <3>1 DEF ActionSteps, FindsAction, Assigns, WaitsForAssignment, CompletesAction,
                  PatchesCompleted, Confirms, FallsBack, ConfirmsFallback, TimesOut,
                  ReadSucceeds, ReadFails, Requests, sessionVars
    <3> USE DEF MatchReset, Phase, ReadSucceeds, ReadFails, sessionVars
    <3>2. CASE SelectBegins \/ DetectsRole \/ PreparesPick \/ PrepickGoesOn
                 \/ PrepickTimesOut \/ PrepicksOnScreen
      BY <3>2 DEF SelectBegins, DetectsRole, PreparesPick, PrepickGoesOn, PrepickTimesOut,
                  PrepicksOnScreen, HoversOnScreen
    <3>3. CASE BanReads \/ Rehovered \/ BanDecides \/ CommitsBan \/ BanGoesOn
                 \/ BanTimesOut \/ BansOnScreen
      BY <3>3 DEF BanReads, Rehovered, BanDecides, CommitsBan, BanGoesOn, BanTimesOut,
                  BansOnScreen, Completes
    <3>4. CASE PickPass \/ TryGoesOn \/ ReserveGoesOn \/ WaitEnds
      BY <3>4 DEF PickPass, Reconciles, TryGoesOn, ReserveGoesOn, WaitEnds, LeavesPick
    <3>5. CASE PicksOnScreen \/ ImageReserveGoesOn
      BY <3>5 DEF PicksOnScreen, ImageReserveGoesOn, LeavesPick, LeavesScreen, ClicksReady,
                  HoversOnScreen, Completes
    <3> QED BY <1>1, <3>1, <3>2, <3>3, <3>4, <3>5 DEF Program, ProgramSteps
  <2> QED BY <2>1
<1>2. CASE Client /\ ~WriteLands
  <2>1. lock' \in {lock, Unlocked} \/ lock'.by = "client"
    BY <1>2 DEF Client, Opens, Advances, SessionOpens, StageEnds, ClientMoves, WriteIsLost,
                SessionCloses, UserHovers, UserLocks, OthersTake, Completes
  <2> QED BY <2>1 DEF Unlocked
<1> QED BY <1>1, <1>2 DEF Next

\* For any pool, any number of sessions and faults: unless a session follows another one
\* before a read could miss it, a candidate is completed over the LCU only in the session
\* whose role has chosen the pool (_guard_champ_select_phase_exit,
\* _detect_role_lcu_first_with_retry_attempt).
THEOREM PicksBelong == Spec => PickBelongsToSession
<1>1. Init => GapInv
  BY DEF Init, SessionInit, ActionInit, GapInv, IdleInv, MissedInv, RoleInv
<1>2. TypeOK /\ GapInv /\ [Next]_vars => GapInv'
  BY IdleIsKept, MissedIsKept, RoleIsKept DEF GapInv
<1>3. TypeOK /\ GapInv /\ [Next]_vars => [LocksCandidate /\ ~swift => role = game]_vars
  <2> SUFFICES ASSUME TypeOK, GapInv, Next, LocksCandidate, ~swift
               PROVE  role = game
    BY DEF vars
  <2>1. lock.by = "nobody" /\ lock'.by = "lcu"
    BY DEF LocksCandidate
  <2>2. WriteLands
    BY <2>1, OnlyWritesLock
  <2>3. open /\ sent # <<>>
    BY <2>1, <2>2 DEF WriteLands, InProgress
  <2> QED BY <2>3 DEF GapInv, RoleInv
<1> QED BY <1>1, <1>2, <1>3, SelectHasTypes, PTL DEF Spec, PickBelongsToSession

-----------------------------------------------------------------------------
(* The champion of the pick.  While all requests are answered, whatever is *)
(* on the own action or on its way to it and can still be had is the       *)
(* candidate that the program is at: the candidates before it are taken,   *)
(* and it leaves one only when the client has refused it.                  *)

Carries(writes, c) ==
    \E i \in 1 .. Len(writes) : writes[i].kind = "pick" /\ writes[i].champ = c

PickSent(writes) ==
    \E i \in 1 .. Len(writes) : writes[i].kind = "pick" /\ writes[i].complete

InFlight(writes, w) == \E i \in 1 .. Len(writes) : writes[i] = w

Sound == faults = 0 /\ open /\ ~swift

Before  == {"outer", "role", "prepare"}
Screens == {"prepickImage", "banImage", "image", "imageReserve"}
Trying  == pc \in {"try", "reserve"}

\* No request completes the pick of this session any more.
Over == done["pick"] \/ stage = "final"

Candidate == IF pc = "reserve" THEN trial ELSE index

StandsFor(c) ==
    \A d \in Pool \ Blocked : hover["pick"] = d \/ Carries(sent, d) => d = c

BeforeRules ==
    pc \in Before =>
        /\ sent = <<>> /\ lock.by # "lcu"
        /\ hover["pick"] \notin Pool \/ done["pick"]

CallRules ==
    /\ pc \notin Screens
    /\ pc \in {"prepick", "rehover"} =>
          /\ asked.kind = "pick" /\ asked.champ = index /\ ~asked.complete
          /\ step \in {"idle", "find", "assign"}
    /\ Trying => asked.kind = "pick" /\ asked.champ = Candidate /\ asked.complete
    /\ pc \in {"ban", "rehover", "banDecide", "commit"} => watched \in {0, game}

CandidateRules ==
    pc \notin Before =>
        /\ known
        /\ pc # "won" => \A c \in Pool : (c < index => c \in taken)
        /\ Over \/ StandsFor(Candidate)
        /\ pc = "reserve" => Over \/ (\A c \in Pool : c < trial => c \in Blocked)

ResultRules ==
    /\ pc = "reserve" => stage \in {"pick", "final"}
    /\ Trying => \/ step \in {"idle", "find"} /\ result # "rejected"
                 \/ stage \in {"pick", "final"}
    /\ pc = "reserve" /\ step = "idle" /\ result = "wait" => Over
    /\ Trying /\ step = "idle" /\ result = "rejected" => Over \/ Candidate \in Blocked
    /\ Trying /\ step = "patch" => Over
    /\ Trying /\ step = "confirmFallback"
          => Over \/ Candidate \in Blocked \/ InFlight(sent, asked)

Settling == Trying /\ step \in {"confirm", "confirmFallback"}

LockRules ==
    /\ NoChampion \notin taken
    /\ lock.by = "lcu" => done["pick"]
    /\ PickSent(sent) => done["pick"] \/ Settling
    /\ lock.by = "lcu" /\ lock.champ \in Pool =>
          /\ Settling \/ (Trying /\ step = "idle" /\ result = "done") \/ pc = "won"
          /\ lock.champ = Candidate

PickRules == BeforeRules /\ CallRules /\ CandidateRules /\ ResultRules /\ LockRules

PickInv == Sound => PickRules

-----------------------------------------------------------------------------
(* Writes on their way.                                                    *)

LEMMA WritesAppend ==
    ASSUME NEW s \in Seq(Write), NEW w \in Write
    PROVE  /\ \A c : Carries(Append(s, w), c)
                        => Carries(s, c) \/ (w.kind = "pick" /\ w.champ = c)
           /\ PickSent(Append(s, w)) => PickSent(s) \/ (w.kind = "pick" /\ w.complete)
           /\ InFlight(Append(s, w), w)
<1>1. \A i \in 1 .. Len(Append(s, w)) :
          \/ i \in 1 .. Len(s) /\ Append(s, w)[i] = s[i]
          \/ Append(s, w)[i] = w
  OBVIOUS
<1>2. Len(s) + 1 \in 1 .. Len(Append(s, w)) /\ Append(s, w)[Len(s) + 1] = w
  OBVIOUS
<1> QED BY <1>1, <1>2, Zenon DEF Carries, PickSent, InFlight

LEMMA WritesLand ==
    ASSUME NEW s \in Seq(Write), s # <<>>
    PROVE  /\ \A c : Carries(Tail(s), c) => Carries(s, c)
           /\ PickSent(Tail(s)) => PickSent(s)
           /\ \A w : InFlight(s, w) => w = Head(s) \/ InFlight(Tail(s), w)
           /\ Head(s).kind = "pick" => Carries(s, Head(s).champ)
           /\ Head(s).kind = "pick" /\ Head(s).complete => PickSent(s)
<1>1. \A i \in 1 .. Len(Tail(s)) : i + 1 \in 1 .. Len(s) /\ Tail(s)[i] = s[i + 1]
  OBVIOUS
<1>2. 1 \in 1 .. Len(s) /\ s[1] = Head(s)
  OBVIOUS
<1>3. \A i \in 1 .. Len(s) :
          s[i] = Head(s) \/ (\E j \in 1 .. Len(Tail(s)) : Tail(s)[j] = s[i])
  <2> SUFFICES ASSUME NEW i \in 1 .. Len(s), i # 1
               PROVE  \E j \in 1 .. Len(Tail(s)) : Tail(s)[j] = s[i]
    BY <1>2
  <2>1. i - 1 \in 1 .. Len(Tail(s)) /\ Tail(s)[i - 1] = s[i]
    OBVIOUS
  <2> QED BY <2>1
<1> QED BY <1>1, <1>2, <1>3, Zenon DEF Carries, PickSent, InFlight

LEMMA NothingOnTheWay ==
    /\ \A c : ~Carries(<<>>, c) /\ ~InFlight(<<>>, c)
    /\ ~PickSent(<<>>)
BY DEF Carries, PickSent, InFlight

-----------------------------------------------------------------------------
(* The steps of the main thread.                                           *)

\* A reconciliation leaves nothing before the candidate, and leaves one only when it is taken.
LEMMA PreferredIsFirst ==
    ASSUME NEW current \in Pool
    PROVE  /\ Preferred(current) \in Pool
           /\ \A c \in Pool : (c < Preferred(current) => c \in taken)
           /\ (\A c \in Pool : (c < current => c \in taken))
                 => Preferred(current) = current \/ current \in taken
<1> DEFINE free == Pool \ taken
<1>1. CASE free = {}
  <2>1. Preferred(current) = current
    BY <1>1 DEF Preferred
  <2> QED BY <1>1, <2>1
<1>2. CASE free # {}
  <2>1. free \subseteq Nat
    BY DEF Pool
  <2>2. \E c \in free : \A d \in free : c <= d
    BY <1>2, <2>1, HasLeast
  <2> DEFINE p == CHOOSE c \in free : \A d \in free : c <= d
  <2>3. p \in free /\ (\A d \in free : p <= d)
    BY <2>2
  <2>4. Preferred(current) = p
    BY <1>2 DEF Preferred
  <2> HIDE DEF p
  <2> QED BY <2>1, <2>3, <2>4, SessionConstants DEF Pool
<1> QED BY <1>1, <1>2

\* Without faults no step of the main thread is on the screen, and it leaves the champion
\* select only with the session.
LEMMA MainReads ==
    ASSUME TypeOK, BanRules, IdleInv, PickRules, Sound, MainSteps, faults' = 0
    PROVE  /\ UNCHANGED sessionVars
           /\ step = "idle"
           /\ pc # "won"
           /\ pc' = "outer" => pc = "role"
           /\ pc' \notin Screens
<1>1. ~ReadFails /\ ~Phase("unknown") /\ ~Phase("out") /\ result # "image"
  BY NoFault DEF Sound, Phase, BanRules
<1>2. pc \notin Screens
  BY DEF PickRules, CallRules
<1> USE DEF Screens, Callers, Got, Consumed, Calls
<1>3. CASE SelectBegins \/ DetectsRole \/ PreparesPick
  BY <1>1, <1>2, <1>3 DEF SelectBegins, DetectsRole, PreparesPick, ReadSucceeds, Sound, IdleInv
<1>4. CASE PrepickGoesOn \/ PrepickTimesOut \/ PrepicksOnScreen
  BY <1>1, <1>2, <1>4 DEF PrepickGoesOn, PrepickTimesOut, PrepicksOnScreen, BanLoopBegins,
                          Phase, ReadSucceeds, IdleInv
<1>5. CASE BanReads \/ CommitsBan
  <2>1. SameSession
    BY <1>5 DEF PickRules, CallRules, Sound, SameSession, BanReads, CommitsBan
  <2> QED BY <1>1, <1>2, <1>5, <2>1 DEF BanReads, CommitsBan, ReadSucceeds, IdleInv
<1>6. CASE Rehovered \/ BanDecides
  BY <1>1, <1>2, <1>6 DEF Rehovered, BanDecides, Phase, ReadSucceeds, IdleInv
<1>7. CASE BanGoesOn \/ BanTimesOut \/ BansOnScreen
  BY <1>1, <1>2, <1>7 DEF BanGoesOn, BanTimesOut, BansOnScreen, Phase, ReadSucceeds, IdleInv
<1>8. CASE PickPass \/ TryGoesOn \/ ReserveGoesOn
  BY <1>1, <1>2, <1>8 DEF PickPass, Reconciles, TryGoesOn, ReserveGoesOn, Picked, NextPass,
                          LeavesPick, TriesReserve, Phase, ReadSucceeds, IdleInv
<1>9. CASE PicksOnScreen \/ ImageReserveGoesOn \/ WaitEnds
  BY <1>1, <1>2, <1>9 DEF PicksOnScreen, ImageReserveGoesOn, WaitEnds
<1> QED BY <1>3, <1>4, <1>5, <1>6, <1>7, <1>8, <1>9 DEF MainSteps

\* Before a pick is tried and after: the candidate stays, or was taken.
LEMMA QuietKeeps ==
    ASSUME PickRules, UNCHANGED sessionVars, step = "idle",
           pc \notin Before, pc # "won", pc' \notin Before \cup {"reserve", "won"},
           known', CallRules',
           \/ pc \notin {"try", "reserve"} \/ result \in {"wait", "rejected"},
           pc' = "try" => step' = "find" /\ result' = "none",
           \A c \in Pool : (c < index' => c \in taken),
           Over \/ StandsFor(index')
    PROVE  PickRules'
<1>1. UNCHANGED <<stage, taken, refused, hover, done, lock, sent>>
  BY DEF sessionVars
<1>2. Over' <=> Over
  BY <1>1, Zenon DEF Over
<1>3. StandsFor(index)' <=> StandsFor(index')
  BY <1>1 DEF StandsFor, Blocked
<1>4. Candidate' = index'
  BY DEF Candidate
<1>5. StandsFor(Candidate)' <=> StandsFor(index')
  BY <1>1, <1>4 DEF StandsFor, Blocked
<1>6. CandidateRules'
  BY <1>1, <1>2, <1>5 DEF CandidateRules
<1>7. ~(lock.by = "lcu" /\ lock.champ \in Pool) /\ (PickSent(sent) => done["pick"])
  BY DEF PickRules, LockRules, Settling, Trying
<1>8. LockRules'
  BY <1>1, <1>7 DEF LockRules, PickRules
<1>9. ResultRules'
  BY DEF ResultRules, Trying
<1>10. BeforeRules'
  BY DEF BeforeRules
<1> QED BY <1>6, <1>8, <1>9, <1>10 DEF PickRules

\* With nothing left to be had on the action, any candidate may follow.
LEMMA NextCandidate ==
    ASSUME NEW c, NEW d, StandsFor(c), c \in Blocked
    PROVE  StandsFor(d)
BY DEF StandsFor

LEMMA BeginningKeepsPick ==
    ASSUME TypeOK, BanRules, IdleInv, PickRules, Sound, faults' = 0,
           SelectBegins \/ DetectsRole \/ PreparesPick \/ PrepickGoesOn \/ PrepickTimesOut
    PROVE  PickRules'
<1>1. /\ UNCHANGED sessionVars /\ step = "idle" /\ pc' \notin Screens
      /\ pc' = "outer" => pc = "role"
      /\ ~ReadFails /\ ~Phase("unknown") /\ ~Phase("out")
  BY MainReads, NoFault DEF MainSteps, Sound, Phase
<1>2. CASE SelectBegins \/ DetectsRole
  <2>1. pc \in Before /\ pc' \in Before
    BY <1>2 DEF SelectBegins, DetectsRole, Before
  <2>2. UNCHANGED <<sent, lock, hover, done, taken>>
    BY <1>1 DEF sessionVars
  <2>3. BeforeRules'
    BY <2>1, <2>2 DEF PickRules, BeforeRules
  <2>4. LockRules'
    BY <2>1, <2>2, NothingOnTheWay DEF PickRules, BeforeRules, LockRules
  <2> QED BY <2>1, <2>3, <2>4
          DEF PickRules, Before, CallRules, CandidateRules, ResultRules, Trying, Screens
<1>3. CASE PreparesPick
  <2>1. /\ known' /\ index' = Preferred(1)
        /\ Calls("pick", index', FALSE) /\ pc = "prepare" /\ pc' = "prepick"
    BY <1>1, <1>3 DEF PreparesPick, Sound
  <2>2. \A c \in Pool : (c < index' => c \in taken)
    <3>1. 1 \in Pool
      BY SessionConstants DEF Pool
    <3> QED BY <2>1, <3>1, PreferredIsFirst
  <2>3. sent = <<>> /\ lock.by # "lcu" /\ (hover["pick"] \notin Pool \/ done["pick"])
    BY <2>1 DEF PickRules, BeforeRules, Before
  <2>4. UNCHANGED <<stage, taken, refused, hover, done, lock, sent>>
    BY <1>1 DEF sessionVars
  <2>5. Over' \/ StandsFor(index)'
    BY <2>3, <2>4, NothingOnTheWay DEF Over, StandsFor
  <2>6. CallRules'
    BY <2>1 DEF CallRules, Calls, Screens, Trying
  <2>7. Candidate' = index'
    BY <2>1 DEF Candidate
  <2>8. StandsFor(Candidate)' <=> StandsFor(index)'
    BY <2>7 DEF StandsFor
  <2>9. CandidateRules'
    BY <2>1, <2>2, <2>4, <2>5, <2>8 DEF CandidateRules
  <2>10. LockRules'
    BY <2>3, <2>4, NothingOnTheWay DEF LockRules, PickRules
  <2> QED BY <2>1, <2>6, <2>9, <2>10 DEF PickRules, BeforeRules, Before, ResultRules, Trying
<1>4. CASE PrepickGoesOn \/ PrepickTimesOut
  <2>1. pc = "prepick" /\ pc' \in {"prepick", "ban"} /\ UNCHANGED <<index, known>>
    BY <1>1, <1>4 DEF PrepickGoesOn, PrepickTimesOut, Got, BanLoopBegins, Screens
  <2>2. CallRules'
    BY <1>1, <1>4, <2>1
       DEF PrepickGoesOn, PrepickTimesOut, Got, BanLoopBegins, Screens, CallRules, Calls,
           Trying
  <2>3. /\ known /\ (\A c \in Pool : (c < index => c \in taken))
        /\ Over \/ StandsFor(index)
    BY <2>1 DEF PickRules, CandidateRules, Before, Candidate
  <2> QED BY <1>1, <2>1, <2>2, <2>3, QuietKeeps DEF Before
<1> QED BY <1>2, <1>3, <1>4

LEMMA BanKeepsPick ==
    ASSUME TypeOK, BanRules, IdleInv, PickRules, Sound, faults' = 0,
           \/ BanReads \/ Rehovered \/ BanDecides \/ CommitsBan \/ BanGoesOn \/ BanTimesOut
           \/ PickPass
    PROVE  PickRules'
<1>1. /\ UNCHANGED sessionVars /\ step = "idle" /\ pc' \notin Screens /\ pc' # "outer"
      /\ ~ReadFails /\ ~Phase("unknown") /\ ~Phase("out") /\ open
  <2>1. pc # "role"
    BY DEF BanReads, Rehovered, BanDecides, CommitsBan, BanGoesOn, BanTimesOut, PickPass, Got
  <2> QED BY <2>1, MainReads, NoFault DEF MainSteps, Sound, Phase
<1>2. pc \notin Before \cup {"try", "reserve", "won"}
  BY DEF BanReads, Rehovered, BanDecides, CommitsBan, BanGoesOn, BanTimesOut, PickPass, Got,
         Before
<1>3. /\ known /\ (\A c \in Pool : (c < index => c \in taken))
      /\ Over \/ StandsFor(index)
      /\ index \in Pool
  BY <1>2 DEF PickRules, CandidateRules, Candidate, TypeOK
<1>4. Preferred(index) = index \/ index \in taken
  BY <1>3, PreferredIsFirst
<1>5. /\ \A c \in Pool : (c < Preferred(index) => c \in taken)
      /\ Over \/ StandsFor(Preferred(index))
  BY <1>3, <1>4, PreferredIsFirst, NextCandidate DEF Blocked
<1>6. CASE BanReads
  <2>1. /\ index' = Preferred(index) /\ UNCHANGED known /\ watched' = game
        /\ \/ pc' = "banDecide"
           \/ pc' = "rehover" /\ Calls("pick", index', FALSE)
    BY <1>1, <1>3, <1>6 DEF BanReads
  <2>2. CallRules'
    BY <1>1, <2>1 DEF CallRules, Calls, Screens, Trying, sessionVars
  <2> QED BY <1>1, <1>2, <1>3, <1>5, <2>1, <2>2, QuietKeeps DEF Before
<1>7. CASE PickPass
  <2>1. /\ index' = Preferred(index) /\ UNCHANGED known
        /\ pc' = "try" /\ Calls("pick", index', TRUE)
    BY <1>1, <1>3, <1>7 DEF PickPass, Reconciles
  <2>2. CallRules'
    BY <2>1 DEF CallRules, Calls, Screens, Trying, Candidate
  <2> QED BY <1>1, <1>2, <1>3, <1>5, <2>1, <2>2, QuietKeeps DEF Before, Calls
<1>8. CASE Rehovered \/ BanDecides \/ CommitsBan \/ BanGoesOn \/ BanTimesOut
  <2>1. /\ UNCHANGED pickVars
        /\ pc' \in {"banDecide", "pick", "commit", "ban", "banTry"}
        /\ pc \in {"rehover", "banDecide", "commit", "banTry"}
        /\ pc' \in {"banDecide", "commit", "ban"} => pc \in {"rehover", "banDecide"}
    BY <1>1, <1>8 DEF Rehovered, BanDecides, CommitsBan, BanGoesOn, BanTimesOut, Got, Screens
  <2>2. CallRules'
    BY <1>1, <2>1 DEF PickRules, CallRules, Screens, Trying, pickVars, sessionVars
  <2> QED BY <1>1, <1>2, <1>3, <2>1, <2>2, QuietKeeps DEF Before, pickVars
<1> QED BY <1>6, <1>7, <1>8

\* The pick: a candidate is left for a reserve when the client has refused it.
LEMMA TryKeepsPick ==
    ASSUME TypeOK, BanRules, IdleInv, PickRules, Sound, faults' = 0,
           TryGoesOn \/ ReserveGoesOn
    PROVE  PickRules'
<1> DEFINE next == IF pc = "try" THEN index ELSE trial
<1>1. /\ UNCHANGED sessionVars /\ step = "idle" /\ pc' \notin Screens /\ pc' # "outer"
      /\ ~ReadFails /\ ~Phase("unknown") /\ ~Phase("out") /\ open
  <2>1. pc # "role"
    BY DEF TryGoesOn, ReserveGoesOn, Got
  <2> QED BY <2>1, MainReads, NoFault DEF MainSteps, Sound, Phase
<1>2. pc \in {"try", "reserve"} /\ UNCHANGED <<known, watched, seen>>
  BY DEF TryGoesOn, ReserveGoesOn, Got
<1>3. Candidate = next /\ next \in Pool /\ index \in Pool
  BY <1>2 DEF Candidate, TypeOK
<1>4. /\ known /\ (\A c \in Pool : (c < index => c \in taken))
      /\ Over \/ StandsFor(next)
      /\ pc = "reserve" => Over \/ (\A c \in Pool : c < trial => c \in Blocked)
  BY <1>2, <1>3 DEF PickRules, CandidateRules, Before
<1>5. result # "image"
  BY DEF BanRules
<1>6. \/ result = "done" /\ Picked(next)
      \/ result \in Waits /\ NextPass
      \/ /\ result = "rejected" /\ next < PoolSize /\ UNCHANGED index
         /\ pc' = "reserve" /\ trial' = next + 1 /\ Calls("pick", trial', TRUE)
  BY <1>1, <1>2, <1>5
     DEF TryGoesOn, ReserveGoesOn, Got, LeavesPick, TriesReserve, NextPass, Waits
<1>7. result = "rejected" => /\ Over \/ next \in Blocked
                             /\ stage \in {"pick", "final"}
  BY <1>1, <1>2, <1>3 DEF PickRules, ResultRules, Trying
<1>8. UNCHANGED <<stage, taken, refused, hover, done, lock, sent>>
  BY <1>1 DEF sessionVars
<1>9. (Over' <=> Over) /\ (\A c : StandsFor(c)' <=> StandsFor(c'))
  BY <1>8 DEF Over, StandsFor, Blocked
<1> HIDE DEF next
<1>10. CASE result = "done" /\ Picked(next)
  <2>1. pc' = "won" /\ index' = next /\ Candidate' = next /\ result' = "none"
    BY <1>10 DEF Picked, Candidate, Consumed
  <2>2. CandidateRules'
    BY <1>2, <1>4, <1>8, <1>9, <2>1 DEF CandidateRules, StandsFor, Blocked
  <2>3. LockRules'
    BY <1>1, <1>3, <1>8, <1>9, <2>1 DEF PickRules, LockRules, Settling
  <2> QED BY <2>1, <2>2, <2>3
          DEF PickRules, BeforeRules, Before, CallRules, Screens, Trying, ResultRules
<1>11. CASE result \in Waits /\ NextPass
  <2>1. Over \/ StandsFor(index)
    <3>1. CASE pc = "try"
      BY <1>4, <3>1 DEF next
    <3>2. CASE result = "wait" /\ pc = "reserve"
      BY <1>1, <3>2 DEF PickRules, ResultRules
    <3>3. CASE result = "rejected"
      BY <1>4, <1>7, <3>3, NextCandidate
    <3> QED BY <1>2, <1>11, <3>1, <3>2, <3>3 DEF Waits
  <2>2. pc' = "pick" /\ UNCHANGED index /\ result \in {"wait", "rejected"}
    BY <1>11 DEF NextPass, Waits
  <2>3. CallRules'
    BY <2>2 DEF CallRules, Screens, Trying
  <2> QED BY <1>1, <1>2, <1>4, <2>1, <2>2, <2>3, QuietKeeps DEF Before
<1>12. CASE /\ result = "rejected" /\ next < PoolSize /\ UNCHANGED index
            /\ pc' = "reserve" /\ trial' = next + 1 /\ Calls("pick", trial', TRUE)
  <2>1. Candidate' = trial' /\ step' = "find" /\ result' = "none"
    BY <1>12 DEF Candidate, Calls
  <2>2. Over \/ StandsFor(trial')
    BY <1>4, <1>7, <1>12, NextCandidate
  <2>3. Over \/ (\A c \in Pool : c < trial' => c \in Blocked)
    <3>1. \A c \in Pool : c < trial' => c < next \/ c = next
      BY <1>3, <1>12 DEF Pool
    <3>2. Over \/ (\A c \in Pool : c < next => c \in Blocked)
      <4>1. CASE pc = "try"
        BY <1>4, <4>1 DEF next, Blocked
      <4>2. CASE pc = "reserve"
        BY <1>4, <4>2 DEF next
      <4> QED BY <1>2, <4>1, <4>2
    <3> QED BY <1>7, <1>12, <3>1, <3>2
  <2>4. CandidateRules'
    BY <1>2, <1>4, <1>8, <1>9, <1>12, <2>1, <2>2, <2>3 DEF CandidateRules, StandsFor, Blocked
  <2>5. CallRules'
    BY <1>12, <2>1 DEF CallRules, Screens, Trying, Calls
  <2>6. LockRules'
    BY <1>1, <1>2, <1>8, <1>12, <2>1 DEF PickRules, LockRules, Settling, Trying
  <2>7. ResultRules'
    BY <1>7, <1>8, <1>12, <2>1 DEF ResultRules, Trying
  <2>8. BeforeRules'
    BY <1>12 DEF BeforeRules, Before
  <2> QED BY <2>4, <2>5, <2>6, <2>7, <2>8 DEF PickRules
<1> QED BY <1>6, <1>10, <1>11, <1>12

LEMMA MainKeepsPick ==
    ASSUME TypeOK, BanRules, IdleInv, PickRules, Sound, faults' = 0, MainSteps
    PROVE  PickRules'
<1>1. pc \notin Screens /\ pc # "won"
  BY MainReads DEF PickRules, CallRules
<1>2. ~(PrepicksOnScreen \/ BansOnScreen \/ PicksOnScreen \/ ImageReserveGoesOn \/ WaitEnds)
  BY <1>1 DEF PrepicksOnScreen, BansOnScreen, PicksOnScreen, ImageReserveGoesOn, WaitEnds,
              Got, Screens
<1> QED BY <1>2, BeginningKeepsPick, BanKeepsPick, TryKeepsPick DEF MainSteps

-----------------------------------------------------------------------------
(* The steps of a call.                                                    *)

\* A step of a call that sends nothing.
LEMMA SilentKeeps ==
    ASSUME PickRules, UNCHANGED <<sessionVars, asked, pc, role, pickVars>>,
           CallRules', ResultRules',
           lock.by = "lcu" /\ lock.champ \in Pool /\ pc # "won" =>
               Settling' \/ (Trying' /\ step' = "idle" /\ result' = "done"),
           PickSent(sent) => done["pick"] \/ Settling'
    PROVE  PickRules'
<1>1. /\ UNCHANGED <<stage, taken, refused, hover, done, lock, sent>>
      /\ UNCHANGED <<asked, pc, index, trial, known>>
  BY DEF sessionVars, pickVars
<1>2. Candidate' = Candidate
  BY <1>1 DEF Candidate
<1>3. CandidateRules'
  BY <1>1, <1>2 DEF PickRules, CandidateRules, Over, StandsFor, Blocked
<1>4. BeforeRules'
  BY <1>1 DEF PickRules, BeforeRules
<1>5. LockRules'
  BY <1>1, <1>2 DEF PickRules, LockRules
<1> QED BY <1>3, <1>4, <1>5 DEF PickRules

\* A step of a call that sends a write for the candidate.
LEMMA SendingKeeps ==
    ASSUME TypeOK, PickRules, pc \notin Before, NEW w \in Write, Requests(w, "ok"),
           UNCHANGED <<asked, pc, role, pickVars>>,
           CallRules', ResultRules', ~Settling, pc # "won",
           ~(Trying /\ step = "idle"),
           w.kind = "pick" => /\ w.champ = Candidate \/ w.champ \notin Pool
                              /\ w.complete => Settling'
    PROVE  PickRules'
<1>1. /\ UNCHANGED <<stage, taken, refused, hover, done, lock>> /\ sent' = Append(sent, w)
      /\ UNCHANGED <<asked, pc, index, trial, known>>
  BY DEF Requests, pickVars
<1>2. sent \in Seq(Write)
  BY DEF TypeOK, SessionTypeOK
<1>3. /\ \A c : Carries(sent', c) => Carries(sent, c) \/ (w.kind = "pick" /\ w.champ = c)
      /\ PickSent(sent') => PickSent(sent) \/ (w.kind = "pick" /\ w.complete)
  BY <1>1, <1>2, WritesAppend
<1>4. Candidate' = Candidate /\ (Over' <=> Over)
  BY <1>1, Zenon DEF Candidate, Over
<1>5. StandsFor(Candidate) => StandsFor(Candidate)'
  BY <1>1, <1>3, <1>4 DEF StandsFor, Blocked
<1>6. CandidateRules'
  <2>1. CandidateRules
    BY DEF PickRules
  <2> QED BY <1>1, <1>4, <1>5, <2>1 DEF CandidateRules, Blocked
<1>7. LockRules'
  BY <1>1, <1>3 DEF PickRules, LockRules
<1>8. BeforeRules'
  BY <1>1 DEF BeforeRules
<1> QED BY <1>6, <1>7, <1>8 DEF PickRules

LEMMA CallKeepsPick ==
    ASSUME TypeOK, BanRules, IdleInv, PickRules, Sound, faults' = 0, ActionSteps,
           UNCHANGED <<pc, role, pickVars>>
    PROVE  PickRules'
<1> USE DEF GoesTo, Returns
<1>1. /\ UNCHANGED <<game, open, stage, taken, refused, hover, done, lock, asked>>
      /\ UNCHANGED <<pc, index, trial, known, watched>>
      /\ ~ReadFails /\ (\A w : ~Requests(w, "none")) /\ open
  BY ActionStands, NoFault
     DEF Requests, Sound, pickVars, ActionSteps, FindsAction, Assigns, WaitsForAssignment,
         CompletesAction, PatchesCompleted, Confirms, FallsBack, ConfirmsFallback, TimesOut,
         ReadSucceeds, sessionVars
<1>2. step # "idle" /\ step \notin {"patchUnanswered", "fallbackUnanswered"}
  BY DEF BanRules, ActionSteps, FindsAction, Assigns, WaitsForAssignment, CompletesAction,
         PatchesCompleted, Confirms, FallsBack, ConfirmsFallback
<1>3. pc \in {"prepick", "rehover", "banTry", "try", "reserve"}
  BY <1>2 DEF IdleInv, Callers, PickRules, CallRules, Screens
<1>4. asked \in Write /\ Assignment \in Write /\ Completion \in Write
  <2>1. asked \in Write
    BY DEF TypeOK, ActionTypeOK
  <2> QED BY <2>1, NamesHaveTypes DEF Assignment, Completion, Write
<1>5. /\ Assignment.kind = asked.kind /\ Assignment.champ = asked.champ
      /\ ~Assignment.complete
      /\ Completion.kind = asked.kind /\ Completion.champ = NoChampion
      /\ Completion.complete = asked.complete
  BY <1>4 DEF Assignment, Completion, Write
<1>6. /\ Trying => asked.kind = "pick" /\ asked.champ = Candidate /\ asked.complete
      /\ pc = "banTry" => asked.kind = "ban"
      /\ pc \in {"prepick", "rehover"} =>
            /\ asked.kind = "pick" /\ asked.champ = index /\ ~asked.complete
            /\ step \in {"find", "assign"}
  BY <1>2 DEF PickRules, CallRules, BanRules
<1>7. Candidate' = Candidate /\ (Over' <=> Over)
  BY <1>1, Zenon DEF Candidate, Over
<1>8. /\ lock.by = "lcu" => done["pick"]
      /\ PickSent(sent) => done["pick"] \/ Settling
      /\ lock.by = "lcu" /\ lock.champ \in Pool => Settling
      /\ NoChampion \notin taken
  BY <1>2, <1>3 DEF PickRules, LockRules
<1>9. /\ pc = "reserve" => stage \in {"pick", "final"}
      /\ Trying /\ step # "find" => stage \in {"pick", "final"}
      /\ Trying /\ step = "patch" => Over
      /\ Trying /\ step = "confirmFallback"
            => Over \/ Candidate \in Blocked \/ InFlight(sent, asked)
  BY <1>2 DEF PickRules, ResultRules
<1>18. step' = "idle" \/ pc \notin {"prepick", "rehover"} => CallRules'
  BY <1>1, <1>7 DEF PickRules, CallRules, Trying
<1>19. pc \notin Before /\ pc # "won" /\ Candidate \in Pool
  BY <1>3 DEF Before, Candidate, TypeOK
<1>10. CASE FindsAction
  <2>1. /\ UNCHANGED sessionVars /\ step = "find"
        /\ \/ ActionIsOpen /\ step' = "assign" /\ result' = result
           \/ ~ActionIsOpen /\ step' = "idle" /\ result' = "wait"
    BY <1>1, <1>10 DEF FindsAction, ReadSucceeds
  <2>2. Trying /\ ActionIsOpen => stage = "pick"
    BY <1>6 DEF ActionIsOpen, InProgress
  <2>3. pc = "reserve" /\ ~ActionIsOpen => Over
    BY <1>1, <1>6, <1>9 DEF ActionIsOpen, InProgress, Trying, Over
  <2>4. CallRules'
    BY <1>1, <1>7, <2>1 DEF PickRules, CallRules, Trying
  <2>5. ResultRules'
    BY <1>1, <1>7, <1>9, <2>1, <2>2, <2>3 DEF ResultRules, Trying
  <2> QED BY <1>1, <1>8, <2>1, <2>4, <2>5, SilentKeeps DEF Settling
<1>11. CASE Assigns
  <2>1. step = "assign" /\ ~Settling
    BY <1>11 DEF Assigns, Settling
  <2>2. CASE Requests(Assignment, "ok")
    <3>1. IF asked.complete THEN step' = "assigned" /\ result' = result
                            ELSE step' = "idle" /\ result' = "done"
      BY <1>1, <1>11, <2>2 DEF Assigns, Requests
    <3>2. CallRules'
      BY <1>6, <1>18, <3>1
    <3>3. ResultRules'
      BY <1>1, <1>6, <1>9, <2>1, <3>1 DEF ResultRules, Trying
    <3>4. Assignment.kind = "pick" => Assignment.champ = Candidate
      BY <1>3, <1>5, <1>6 DEF Candidate, Trying
    <3> QED BY <1>1, <1>4, <1>5, <1>19, <2>1, <2>2, <3>2, <3>3, <3>4, SendingKeeps
  <2>3. CASE Requests(Assignment, "refused")
    <3>1. step' = "idle" /\ result' = "rejected" /\ UNCHANGED sessionVars
      BY <1>1, <1>11, <2>3 DEF Assigns, Requests, sessionVars
    <3>2. Trying => Over \/ Candidate \in Blocked
      BY <1>1, <1>5, <1>6, <2>3 DEF Requests, Accepts, Over
    <3>3. ResultRules'
      BY <1>1, <1>7, <1>9, <2>1, <3>1, <3>2 DEF ResultRules, Trying, Blocked
    <3> QED BY <1>1, <1>8, <1>18, <2>1, <3>1, <3>3, SilentKeeps
  <2> QED BY <1>1, <1>11, <2>2, <2>3 DEF Assigns
<1>12. CASE WaitsForAssignment
  <2>1. UNCHANGED <<sessionVars, result>> /\ step = "assigned" /\ step' = "complete"
    BY <1>1, <1>12 DEF WaitsForAssignment, TimesOut, ReadSucceeds
  <2>2. CallRules'
    BY <1>1, <1>6, <1>7, <2>1 DEF PickRules, CallRules, Trying
  <2>3. ResultRules'
    BY <1>1, <1>9, <2>1 DEF ResultRules, Trying
  <2> QED BY <1>1, <1>8, <2>1, <2>2, <2>3, SilentKeeps DEF Settling
<1>13. CASE CompletesAction
  <2>1. step = "complete" /\ ~Settling /\ pc \notin {"prepick", "rehover"}
    BY <1>6, <1>13 DEF CompletesAction, Settling
  <2>2. CASE Requests(Completion, "ok")
    <3>1. step' = "confirm" /\ result' = result
      BY <1>1, <1>13, <2>2 DEF CompletesAction, Requests
    <3>2. ResultRules'
      BY <1>1, <1>9, <2>1, <3>1 DEF ResultRules, Trying
    <3>3. Completion.kind = "pick" => Settling' /\ Completion.champ \notin Pool
      BY <1>1, <1>3, <1>5, <1>6, <2>1, <3>1 DEF Settling, Trying, Pool
    <3> QED BY <1>1, <1>2, <1>4, <1>18, <1>19, <2>1, <2>2, <3>2, <3>3, SendingKeeps
  <2>3. CASE Requests(Completion, "refused")
    <3>1. step' = "patch" /\ result' = result /\ UNCHANGED sessionVars
      BY <1>1, <1>13, <2>3 DEF CompletesAction, Requests, sessionVars
    <3>2. NoChampion \notin Blocked
      BY <1>8, SessionConstants DEF Blocked, TypeOK, SessionTypeOK
    <3>3. Trying => Over
      BY <1>1, <1>5, <1>6, <1>9, <2>1, <2>3, <3>2 DEF Requests, Accepts, InProgress, Over
    <3>4. ResultRules'
      BY <1>1, <1>7, <1>9, <2>1, <3>1, <3>3 DEF ResultRules, Trying
    <3> QED BY <1>1, <1>8, <1>18, <2>1, <3>1, <3>4, SilentKeeps
  <2> QED BY <1>1, <1>13, <2>2, <2>3 DEF CompletesAction
<1>14. CASE PatchesCompleted \/ FallsBack
  <2>1. step \in {"patch", "fallback"} /\ ~Settling /\ pc \notin {"prepick", "rehover"}
    BY <1>2, <1>6, <1>14 DEF PatchesCompleted, FallsBack, Settling
  <2>2. CASE Requests(asked, "ok")
    <3>1. step' = "confirmFallback" /\ result' = result
      BY <1>1, <1>14, <2>2 DEF PatchesCompleted, FallsBack, Requests
    <3>2. InFlight(sent', asked')
      <4>1. sent' = Append(sent, asked) /\ asked' = asked /\ sent \in Seq(Write)
        BY <1>1, <2>2 DEF Requests, TypeOK, SessionTypeOK
      <4>2. InFlight(Append(sent, asked), asked)
        BY <1>4, <4>1, WritesAppend
      <4> QED BY <4>1, <4>2, Zenon
    <3>3. ResultRules'
      BY <1>1, <1>9, <2>1, <3>1, <3>2 DEF ResultRules, Trying
    <3>4. asked.kind = "pick" => Settling' /\ asked.champ = Candidate
      BY <1>1, <1>3, <1>6, <2>1, <3>1 DEF Settling, Trying
    <3> QED BY <1>1, <1>2, <1>4, <1>18, <1>19, <2>1, <2>2, <3>3, <3>4, SendingKeeps
  <2>3. CASE Requests(asked, "refused")
    <3>1. step' = "idle" /\ result' = "rejected" /\ UNCHANGED sessionVars
      BY <1>1, <1>14, <2>1, <2>3 DEF PatchesCompleted, FallsBack, Requests, sessionVars
    <3>2. Trying => Over \/ Candidate \in Blocked
      BY <1>1, <1>6, <1>9, <2>1, <2>3 DEF Requests, Accepts, InProgress, Over
    <3>3. ResultRules'
      BY <1>1, <1>7, <1>9, <2>1, <3>1, <3>2 DEF ResultRules, Trying, Blocked
    <3> QED BY <1>1, <1>8, <1>18, <2>1, <3>1, <3>3, SilentKeeps
  <2> QED BY <1>1, <1>14, <2>2, <2>3 DEF PatchesCompleted, FallsBack
<1>15. CASE Confirms \/ ConfirmsFallback
  <2>1. /\ step \in {"confirm", "confirmFallback"} /\ pc \notin {"prepick", "rehover"}
        /\ UNCHANGED sessionVars
    BY <1>1, <1>6, <1>15 DEF Confirms, ConfirmsFallback, TimesOut, ReadSucceeds
  <2>2. \/ done[asked.kind] /\ step' = "idle" /\ result' = "done"
        \/ ~done[asked.kind] /\ sent = <<>> /\ step = "confirm"
              /\ step' = "fallback" /\ result' = result
        \/ ~done[asked.kind] /\ sent = <<>> /\ step = "confirmFallback"
              /\ step' = "idle" /\ result' = "rejected"
    BY <1>1, <1>15 DEF Confirms, ConfirmsFallback, TimesOut, ShowsCompleted
  <2>3. ResultRules'
    BY <1>1, <1>7, <1>9, <2>1, <2>2, NothingOnTheWay DEF ResultRules, Trying, Blocked
  <2>4. PickSent(sent) => done["pick"] \/ Settling'
    BY <1>6, <1>8, <2>2, NothingOnTheWay DEF Settling
  <2>5. lock.by = "lcu" /\ lock.champ \in Pool => Trying' /\ step' = "idle" /\ result' = "done"
    BY <1>1, <1>6, <1>8, <2>2 DEF Settling, Trying
  <2> QED BY <1>1, <1>18, <2>1, <2>3, <2>4, <2>5, SilentKeeps
<1> QED BY <1>10, <1>11, <1>12, <1>13, <1>14, <1>15 DEF ActionSteps

-----------------------------------------------------------------------------
(* The steps of the client, and the theorems.                              *)

\* Whatever the client does in the open session short of a write of the program.
LEMMA SessionKeepsPick ==
    ASSUME TypeOK, PickRules, Sound, UNCHANGED mainKept, UNCHANGED sent,
           Blocked \subseteq Blocked', taken \subseteq taken', NoChampion \notin taken',
           Over => Over', done["pick"] => done'["pick"],
           stage \in {"pick", "final"} => stage' \in {"pick", "final"},
           lock' = lock \/ (lock'.by = "client" /\ done'["pick"]),
           game' = game,
           hover'["pick"] \in {hover["pick"], BanTarget} \/ done'["pick"]
    PROVE  PickRules'
<1>1. UNCHANGED <<pc, step, asked, result, index, trial, known, watched>>
  BY DEF mainKept, actionVars, pickVars
<1>2. Candidate' = Candidate
  BY <1>1 DEF Candidate
<1>3. BanTarget \notin Pool
  BY SessionConstants DEF Pool
<1>4. BeforeRules'
  BY <1>1, <1>3 DEF PickRules, BeforeRules
<1>5. CallRules'
  BY <1>1, <1>2 DEF PickRules, CallRules, Trying
<1>6. Over \/ StandsFor(Candidate) => Over' \/ StandsFor(Candidate)'
  BY <1>2, <1>3 DEF StandsFor, Over
<1>7. CandidateRules'
  BY <1>1, <1>6 DEF PickRules, CandidateRules
<1>8. ResultRules'
  BY <1>1, <1>2 DEF PickRules, ResultRules, Trying
<1>9. LockRules'
  BY <1>1, <1>2 DEF PickRules, LockRules, Settling, Trying
<1> QED BY <1>4, <1>5, <1>7, <1>8, <1>9 DEF PickRules

LEMMA OthersKeepPick ==
    ASSUME TypeOK, PickRules, Sound, UNCHANGED mainKept,
           \/ StageEnds \/ UserHovers \/ UserLocks
           \/ \E c \in Pool \cup {BanTarget} : OthersTake(c)
    PROVE  PickRules'
<1>1. NoChampion \notin taken /\ NoChampion \notin Pool /\ BanTarget # NoChampion
  BY SessionConstants DEF PickRules, LockRules, Pool
<1>2. done \in [Kinds -> BOOLEAN] /\ hover \in [Kinds -> Champions] /\ Kinds = {"ban", "pick"}
  BY DEF TypeOK, SessionTypeOK, Kinds
<1>3. CASE StageEnds
  BY <1>1, <1>2, <1>3, SessionKeepsPick DEF StageEnds, Completes, Over, Blocked, PickForfeited
<1>4. CASE UserHovers
  BY <1>1, <1>2, <1>4, SessionKeepsPick DEF UserHovers, Over, Blocked
<1>5. CASE UserLocks
  BY <1>1, <1>2, <1>5, SessionKeepsPick DEF UserLocks, Completes, Over, Blocked
<1>6. CASE \E c \in Pool \cup {BanTarget} : OthersTake(c)
  BY <1>1, <1>2, <1>6, SessionKeepsPick DEF OthersTake, Over, Blocked
<1> QED BY <1>3, <1>4, <1>5, <1>6

\* The champion that a write leaves the own pick on was there or is the write's, and can be
\* had if it is.
LEMMA LandsOnPick ==
    ASSUME TypeOK, Sound, WriteLands
    PROVE  /\ hover'["pick"] # hover["pick"] => Carries(sent, hover'["pick"])
           /\ UNCHANGED <<game, open, stage, refused, faults>> /\ taken \subseteq taken'
           /\ done["pick"] => done'["pick"] /\ lock' = lock
           /\ ~done["pick"] /\ done'["pick"]
                => /\ PickSent(sent) /\ stage = "pick" /\ lock'.by = "lcu"
                   /\ lock'.champ = hover'["pick"] /\ lock'.champ \notin Blocked
           /\ ~done["pick"] /\ ~done'["pick"] => lock' = lock
           /\ NoChampion \notin taken => NoChampion \notin taken'
<1> DEFINE w     == Head(sent)
           lands == open /\ ~done[w.kind] /\ w.champ \notin Blocked
           on    == IF lands /\ w.champ # NoChampion THEN w.champ ELSE hover[w.kind]
<1>1. sent \in Seq(Write) /\ sent # <<>> /\ w \in Write /\ w.kind \in Kinds
  <2>1. sent \in Seq(Write) /\ sent # <<>>
    BY DEF TypeOK, SessionTypeOK, WriteLands
  <2>2. w \in Write
    BY <2>1
  <2> QED BY <2>1, <2>2 DEF Write
<1>2. /\ hover' = [hover EXCEPT ![w.kind] = on]
      /\ IF w.complete /\ InProgress(w.kind) /\ on \notin Blocked \cup {NoChampion}
         THEN Completes(w.kind, on, "lcu") ELSE UNCHANGED <<taken, done, lock>>
      /\ UNCHANGED <<game, open, stage, refused, faults>>
  BY DEF WriteLands
<1>3. on # hover[w.kind] => on = w.champ
  OBVIOUS
<1> HIDE DEF on, lands, w
<1>4. done \in [Kinds -> BOOLEAN] /\ hover \in [Kinds -> Champions] /\ Kinds = {"ban", "pick"}
  BY DEF TypeOK, SessionTypeOK, Kinds
<1>5. w.kind = "pick" => Carries(sent, w.champ) /\ (w.complete => PickSent(sent))
  BY <1>1, WritesLand DEF w
<1>6. CASE w.kind = "ban"
  <2>1. hover'["pick"] = hover["pick"]
    BY <1>2, <1>4, <1>6
  <2>2. lock' = lock /\ (done'["pick"] <=> done["pick"])
    BY <1>2, <1>4, <1>6 DEF Completes
  <2>3. taken \subseteq taken' /\ (NoChampion \notin taken => NoChampion \notin taken')
    BY <1>2 DEF Completes
  <2> QED BY <1>2, <2>1, <2>2, <2>3
<1>7. CASE w.kind = "pick"
  <2>1. hover'["pick"] = on
    BY <1>2, <1>4, <1>7
  <2>2. CASE w.complete /\ InProgress(w.kind) /\ on \notin Blocked \cup {NoChampion}
    <3>1. Completes("pick", on, "lcu") /\ ~done["pick"] /\ stage = "pick"
      BY <1>2, <1>7, <2>2 DEF InProgress
    <3>2. done'["pick"] /\ lock'.by = "lcu" /\ lock'.champ = on
      BY <1>4, <3>1 DEF Completes
    <3>3. taken \subseteq taken' /\ (NoChampion \notin taken => NoChampion \notin taken')
      BY <3>1 DEF Completes
    <3> QED BY <1>2, <1>3, <1>5, <1>7, <2>1, <2>2, <3>1, <3>2, <3>3
  <2>3. CASE ~(w.complete /\ InProgress(w.kind) /\ on \notin Blocked \cup {NoChampion})
    <3>1. UNCHANGED <<taken, done, lock>>
      BY <1>2, <2>3
    <3> QED BY <1>2, <1>3, <1>5, <1>7, <2>1, <3>1
  <2> QED BY <2>2, <2>3
<1> QED BY <1>1, <1>4, <1>6, <1>7

\* What completes the pick is the candidate of the call that is waiting for it.
LEMMA LocksOnlyCandidate ==
    ASSUME TypeOK, PickRules, Sound, WriteLands, ~done["pick"], done'["pick"]
    PROVE  /\ Settling /\ ~Over
           /\ lock'.champ \in Pool => lock'.champ = Candidate
<1>1. /\ PickSent(sent) /\ stage = "pick" /\ lock'.champ = hover'["pick"]
      /\ lock'.champ \notin Blocked
      /\ hover'["pick"] # hover["pick"] => Carries(sent, hover'["pick"])
  BY LandsOnPick
<1>2. Settling /\ ~Over
  BY <1>1 DEF PickRules, LockRules, Over
<1>3. StandsFor(Candidate)
  BY <1>2 DEF PickRules, CandidateRules, Settling, Trying, Before
<1> QED BY <1>1, <1>2, <1>3 DEF StandsFor

LEMMA LandingKeepsPick ==
    ASSUME TypeOK, PickRules, Sound, WriteLands, UNCHANGED mainKept
    PROVE  PickRules'
<1>1. UNCHANGED <<pc, step, asked, result, index, trial, known, watched>>
  BY DEF mainKept, actionVars, pickVars
<1>2. /\ hover'["pick"] # hover["pick"] => Carries(sent, hover'["pick"])
      /\ UNCHANGED <<game, open, stage, refused, faults>> /\ taken \subseteq taken'
      /\ done["pick"] => done'["pick"] /\ lock' = lock
      /\ ~done["pick"] /\ done'["pick"] => lock'.by = "lcu"
      /\ ~done["pick"] /\ ~done'["pick"] => lock' = lock
      /\ NoChampion \notin taken => NoChampion \notin taken'
  BY LandsOnPick
<1>3. Candidate' = Candidate /\ Candidate \in Pool
  BY <1>1 DEF Candidate, TypeOK
<1>4. sent \in Seq(Write) /\ sent # <<>> /\ sent' = Tail(sent)
  BY DEF TypeOK, SessionTypeOK, WriteLands
<1>5. pc \notin Before
  BY <1>4 DEF PickRules, BeforeRules
<1>6. Blocked \subseteq Blocked' /\ (Over => Over')
  BY <1>2 DEF Blocked, Over
<1>7. StandsFor(Candidate) => StandsFor(Candidate)'
  BY <1>2, <1>3, <1>4, <1>6, WritesLand DEF StandsFor
<1>8. CandidateRules'
  BY <1>1, <1>2, <1>5, <1>6, <1>7 DEF PickRules, CandidateRules
<1>9. CallRules'
  BY <1>1, <1>2, <1>3 DEF PickRules, CallRules, Trying
<1>10. Trying /\ step = "confirmFallback"
         => Over' \/ Candidate \in Blocked' \/ InFlight(sent', asked)
  <2> SUFFICES ASSUME Trying, step = "confirmFallback", ~Over, Candidate \notin Blocked,
                      ~InFlight(sent', asked)
               PROVE  Over'
    BY <1>6
  <2>1. InFlight(sent, asked) /\ stage = "pick"
    BY DEF PickRules, ResultRules, Over
  <2>2. Head(sent) = asked
    BY <1>4, <2>1, WritesLand
  <2>3. asked.kind = "pick" /\ asked.champ = Candidate /\ asked.complete
    BY DEF PickRules, CallRules
  <2>4. Candidate # NoChampion
    BY <1>3 DEF Pool
  <2>5. open /\ ~done["pick"] /\ InProgress("pick")
    BY <2>1 DEF Sound, Over, InProgress
  <2>6. Completes("pick", Candidate, "lcu")
    BY <2>2, <2>3, <2>4, <2>5 DEF WriteLands
  <2>7. done'["pick"]
    BY <2>6 DEF Completes, TypeOK, SessionTypeOK, Kinds
  <2> QED BY <2>7 DEF Over
<1>11. ResultRules'
  BY <1>1, <1>2, <1>3, <1>6, <1>10 DEF PickRules, ResultRules, Trying
<1>12. LockRules'
  <2>1. PickSent(sent') => PickSent(sent)
    BY <1>4, WritesLand
  <2>2. CASE ~done["pick"] /\ done'["pick"]
    <3>1. Settling /\ (lock'.champ \in Pool => lock'.champ = Candidate)
      BY <2>2, LocksOnlyCandidate
    <3> QED BY <1>1, <1>2, <1>3, <2>2, <3>1 DEF PickRules, LockRules, Settling, Trying
  <2>3. CASE ~(~done["pick"] /\ done'["pick"])
    <3>1. lock' = lock /\ (done["pick"] => done'["pick"])
      BY <1>2, <2>3
    <3> QED BY <1>1, <1>2, <1>3, <2>1, <3>1 DEF PickRules, LockRules, Settling, Trying
  <2> QED BY <2>2, <2>3
<1>13. BeforeRules'
  BY <1>1, <1>5 DEF BeforeRules
<1> QED BY <1>8, <1>9, <1>11, <1>12, <1>13 DEF PickRules

LEMMA PickInvIsInductive ==
    ASSUME TypeOK, BanInv, GapInv, PickInv, [Next]_vars
    PROVE  PickInv'
<1> SUFFICES ASSUME Sound' PROVE PickRules'
  BY DEF PickInv
<1>1. faults = 0 /\ faults' = 0 /\ open' /\ ~swift' /\ BanRules /\ IdleInv /\ MissedInv
  BY FaultsStay DEF Sound, BanInv, GapInv
<1>2. CASE Opens
  <2>1. pc = "outer"
    <3>1. GapIsSeen
      BY <1>1, <1>2, Zenon DEF Opens
    <3> QED BY <1>1, <3>1, GapsAreSeen
  <2>2. UNCHANGED <<pc, step, asked, result, index, trial, known, watched>>
    BY <1>2 DEF Opens, mainKept, actionVars, pickVars
  <2>3. sent' = <<>> /\ lock'.by = "nobody" /\ hover'["pick"] \notin Pool /\ taken' = {}
    BY <1>2, SessionConstants DEF Opens, SessionOpens, Nothing, Kinds, Unlocked, Pool
  <2> QED BY <2>1, <2>2, <2>3, NothingOnTheWay
          DEF PickRules, BeforeRules, CallRules, CandidateRules, ResultRules, LockRules,
              Before, Screens, Trying
<1>3. CASE Client /\ ~Opens
  <2>1. Sound /\ PickRules /\ UNCHANGED mainKept
    BY <1>1, <1>3, ClientStands DEF Sound, PickInv
  <2>2. ~Fault /\ ~SessionCloses
    BY <1>1, NoFault DEF SessionCloses
  <2>3. \/ WriteLands \/ StageEnds \/ UserHovers \/ UserLocks
        \/ \E c \in Pool \cup {BanTarget} : OthersTake(c)
    BY <1>3, <2>2 DEF Client, Advances, ClientMoves, WriteIsLost
  <2> QED BY <2>1, <2>3, LandingKeepsPick, OthersKeepPick
<1>4. CASE Program
  <2>1. Sound /\ PickRules
    BY <1>1, <1>4, MainStands, ActionStands
       DEF Program, ProgramSteps, MainSteps, SessionStands, Sound, PickInv
  <2>2. CASE MainSteps
    BY <1>1, <2>1, <2>2, MainKeepsPick
  <2>3. CASE ActionSteps /\ UNCHANGED <<pc, role, pickVars>>
    BY <1>1, <2>1, <2>3, CallKeepsPick
  <2> QED BY <1>4, <2>2, <2>3 DEF Program, ProgramSteps, MainSteps
<1>5. CASE UNCHANGED vars
  <2>1. UNCHANGED <<pc, step, asked, result, index, trial, known, watched>>
    BY <1>5 DEF vars, actionVars, pickVars
  <2>2. UNCHANGED <<game, open, stage, taken, refused, hover, done, lock, sent, faults, swift>>
    BY <1>5 DEF vars, sessionVars
  <2>3. PickRules
    BY <1>1, <2>2 DEF Sound, PickInv
  <2>4. Candidate' = Candidate
    BY <2>1 DEF Candidate
  <2>5. StandsFor(Candidate)' <=> StandsFor(Candidate)
    BY <2>2, <2>4 DEF StandsFor, Blocked
  <2> QED BY <2>1, <2>2, <2>3, <2>4, <2>5
          DEF PickRules, BeforeRules, CallRules, CandidateRules, ResultRules, LockRules,
              Trying, Settling, Over, Blocked
<1> QED BY <1>2, <1>3, <1>4, <1>5 DEF Next

LEMMA PickInvHolds == Spec => [](TypeOK /\ BanInv /\ GapInv /\ PickInv)
<1>1. Init => BanInv /\ GapInv /\ PickInv
  BY NothingSent
     DEF Init, SessionInit, ActionInit, BanInv, BanRules, GapInv, IdleInv, MissedInv, RoleInv,
         PickInv, Sound
<1>2. TypeOK /\ (BanInv /\ GapInv /\ PickInv) /\ [Next]_vars
        => (BanInv /\ GapInv /\ PickInv)'
  BY BanInvIsInductive, IdleIsKept, MissedIsKept, RoleIsKept, PickInvIsInductive DEF GapInv
<1> QED BY <1>1, <1>2, SelectHasTypes, PTL DEF Spec

\* For any pool and any number of sessions: as long as every request is answered and no
\* session replaces another unseen, the program completes a candidate over the LCU only when
\* every one before it is taken or refused.
THEOREM ReservesAreNeeded == Spec => ReserveOnlyWhenBlocked
<1>1. TypeOK /\ BanInv /\ GapInv /\ PickInv /\ [Next]_vars
        => [LocksCandidate /\ faults = 0 /\ ~swift =>
                \A c \in Pool : c < lock'.champ => c \in Blocked]_vars
  <2> SUFFICES ASSUME TypeOK, PickInv, Next, LocksCandidate, faults = 0, ~swift,
                      NEW c \in Pool, c < lock'.champ
               PROVE  c \in Blocked
    BY DEF vars
  <2>1. lock.by = "nobody" /\ lock'.by = "lcu" /\ lock'.champ \in Pool
    BY DEF LocksCandidate
  <2>2. WriteLands
    BY <2>1, OnlyWritesLock
  <2>3. Sound /\ ~done["pick"] /\ done'["pick"]
    <3>1. Sound
      BY <2>1, <2>2 DEF WriteLands, InProgress, Sound
    <3> QED BY <2>1, <2>2, <3>1, LandsOnPick
  <2>4. Settling /\ ~Over /\ lock'.champ = Candidate /\ PickRules
    BY <2>1, <2>2, <2>3, LocksOnlyCandidate DEF PickInv
  <2> QED BY <2>4 DEF PickRules, CandidateRules, Candidate, Settling, Trying, Before, Blocked
<1> QED BY <1>1, PickInvHolds, PTL DEF Spec, ReserveOnlyWhenBlocked

-----------------------------------------------------------------------------
(* The pick that is waited for.                                            *)

Answering == pc \in {"try", "reserve", "imageReserve"}

ConfirmRules ==
    /\ Answering => asked.kind = "pick" /\ asked.complete
    /\ Answering /\ step = "idle" /\ result = "done" => done["pick"]
    /\ pc = "won" => done["pick"]

ConfirmInv == open /\ ~swift => ConfirmRules

LEMMA MainCompletes ==
    ASSUME MainSteps
    PROVE  done' = done \/ (\E k : done' = [done EXCEPT ![k] = TRUE])
<1> USE DEF MatchReset, Phase, ReadSucceeds, ReadFails, sessionVars, HoversOnScreen, Completes
<1>1. CASE SelectBegins \/ DetectsRole \/ PreparesPick \/ PrepickGoesOn
             \/ PrepickTimesOut \/ PrepicksOnScreen
  BY <1>1 DEF SelectBegins, DetectsRole, PreparesPick, PrepickGoesOn, PrepickTimesOut,
              PrepicksOnScreen
<1>2. CASE BanReads \/ Rehovered \/ BanDecides \/ CommitsBan \/ BanGoesOn
             \/ BanTimesOut \/ BansOnScreen
  BY <1>2 DEF BanReads, Rehovered, BanDecides, CommitsBan, BanGoesOn, BanTimesOut, BansOnScreen
<1>3. CASE PickPass \/ TryGoesOn \/ ReserveGoesOn \/ WaitEnds
  BY <1>3 DEF PickPass, Reconciles, TryGoesOn, ReserveGoesOn, WaitEnds, LeavesPick
<1>4. CASE PicksOnScreen \/ ImageReserveGoesOn
  BY <1>4 DEF PicksOnScreen, ImageReserveGoesOn, LeavesPick, LeavesScreen, ClicksReady
<1> QED BY <1>1, <1>2, <1>3, <1>4 DEF MainSteps

LEMMA PickStaysDone ==
    ASSUME TypeOK, [Next]_vars, ~Opens
    PROVE  /\ done["pick"] => done'["pick"]
           /\ swift' = swift /\ (open' => open)
<1>1. done \in [Kinds -> BOOLEAN] /\ Kinds = {"ban", "pick"}
  BY DEF TypeOK, SessionTypeOK, Kinds
<1>2. CASE Client
  <2>1. UNCHANGED swift /\ (open' => open)
    BY <1>2, ClientStands
  <2>2. CASE WriteLands
    <3>1. done' = done \/ (\E k : done' = [done EXCEPT ![k] = TRUE])
      BY <2>2 DEF WriteLands, Completes
    <3> QED BY <1>1, <2>1, <3>1
  <2>3. CASE ~WriteLands
    <3>1. done' = done \/ (\E k : done' = [done EXCEPT ![k] = TRUE])
      BY <1>2, <2>3 DEF Client, Advances, StageEnds, ClientMoves, WriteIsLost, SessionCloses,
                        UserHovers, UserLocks, OthersTake, Completes
    <3> QED BY <1>1, <2>1, <3>1
  <2> QED BY <2>2, <2>3
<1>3. CASE Program
  <2>1. UNCHANGED <<open, swift>>
    BY <1>3, MainStands, ActionStands DEF Program, ProgramSteps, MainSteps, SessionStands
  <2>2. CASE ActionSteps
    BY <2>1, <2>2, ActionStands
  <2>3. CASE MainSteps
    <3>1. done' = done \/ (\E k : done' = [done EXCEPT ![k] = TRUE])
      BY <2>3, MainCompletes
    <3> QED BY <1>1, <2>1, <3>1
  <2> QED BY <1>3, <2>2, <2>3 DEF Program, ProgramSteps, MainSteps
<1>4. CASE UNCHANGED vars
  BY <1>4 DEF vars, sessionVars
<1> QED BY <1>2, <1>3, <1>4 DEF Next

\* The main thread goes on to wait for the game only with a completed pick.
LEMMA MainConfirms ==
    ASSUME TypeOK, ConfirmRules, MainSteps
    PROVE  ConfirmRules'
<1> USE DEF Answering, Got, Consumed, Calls
<1>1. done["pick"] => done'["pick"]
  <2>1. done' = done \/ (\E k : done' = [done EXCEPT ![k] = TRUE])
    BY MainCompletes
  <2> QED BY <2>1 DEF TypeOK, SessionTypeOK, Kinds
<1>2. \A champ : ClicksReady(champ) => done'["pick"]
  BY DEF ClicksReady, Completes, TypeOK, SessionTypeOK, Kinds
<1>3. CASE SelectBegins \/ DetectsRole \/ PreparesPick \/ PrepickGoesOn \/ PrepickTimesOut
             \/ PrepicksOnScreen
  <2>1. pc' \notin {"try", "reserve", "imageReserve", "won"}
    BY <1>3 DEF SelectBegins, DetectsRole, PreparesPick, PrepickGoesOn, PrepickTimesOut,
                PrepicksOnScreen, BanLoopBegins
  <2> QED BY <2>1 DEF ConfirmRules
<1>4. CASE BanReads \/ Rehovered \/ BanDecides \/ CommitsBan \/ BanGoesOn \/ BanTimesOut
             \/ BansOnScreen \/ WaitEnds
  <2>1. pc' \notin {"try", "reserve", "imageReserve", "won"}
    BY <1>4 DEF BanReads, Rehovered, BanDecides, CommitsBan, BanGoesOn, BanTimesOut,
                BansOnScreen, WaitEnds
  <2> QED BY <2>1 DEF ConfirmRules
<1>5. CASE PickPass
  BY <1>5 DEF PickPass, ConfirmRules
<1> USE DEF Picked, NextPass, LeavesPick, LeavesScreen, TriesReserve
<1>6. CASE TryGoesOn \/ ReserveGoesOn
  <2>1. \/ pc' \in {"pick", "image", "outer"}
        \/ pc' = "won" /\ done["pick"]
        \/ /\ pc' = "reserve" /\ step' = "find"
           /\ asked'.kind = "pick" /\ asked'.complete
    BY <1>6 DEF TryGoesOn, ReserveGoesOn, ConfirmRules
  <2> QED BY <1>1, <2>1 DEF ConfirmRules
<1>7. CASE PicksOnScreen
  <2>1. \/ pc' \in {"pick", "outer"}
        \/ pc' = "won" /\ done'["pick"]
        \/ /\ pc' = "imageReserve" /\ step' = "find"
           /\ asked'.kind = "pick" /\ asked'.complete
    BY <1>2, <1>7 DEF PicksOnScreen
  <2> QED BY <2>1 DEF ConfirmRules
<1>8. CASE ImageReserveGoesOn
  <2>1. \/ pc' \in {"pick", "outer"}
        \/ pc' = "won" /\ done'["pick"]
        \/ /\ pc' = "imageReserve" /\ step' = "find"
           /\ asked'.kind = "pick" /\ asked'.complete
        \/ /\ pc = "imageReserve" /\ pc' = pc /\ result' = "image" /\ UNCHANGED asked
    BY <1>1, <1>2, <1>8 DEF ImageReserveGoesOn, ConfirmRules, Returns
  <2> QED BY <2>1 DEF ConfirmRules
<1> QED BY <1>3, <1>4, <1>5, <1>6, <1>7, <1>8 DEF MainSteps

LEMMA CallConfirms ==
    ASSUME TypeOK, ConfirmRules, ActionSteps, UNCHANGED <<pc, role, pickVars>>
    PROVE  ConfirmRules'
<1>1. UNCHANGED <<done, asked>>
  BY ActionStands
<1>2. ASSUME Answering, step' = "idle", result' = "done" PROVE done["pick"]
  BY <1>2 DEF ConfirmRules, ActionSteps, FindsAction, Assigns, WaitsForAssignment,
              CompletesAction, PatchesCompleted, Confirms, FallsBack, ConfirmsFallback, GoesTo,
              Returns, ShowsCompleted
<1> QED BY <1>1, <1>2 DEF ConfirmRules, Answering

LEMMA ConfirmInvIsInductive ==
    ASSUME TypeOK, GapInv, ConfirmInv, [Next]_vars
    PROVE  ConfirmInv'
<1> SUFFICES ASSUME open', ~swift' PROVE ConfirmRules'
  BY DEF ConfirmInv
<1>1. CASE Opens
  <2>1. GapIsSeen
    BY <1>1, Zenon DEF Opens
  <2>2. pc = "outer"
    BY <2>1, GapsAreSeen DEF GapInv
  <2>3. pc' = "outer"
    BY <1>1, <2>2 DEF Opens, mainKept
  <2> QED BY <2>3 DEF ConfirmRules, Answering
<1>2. CASE ~Opens
  <2>1. ConfirmRules /\ (done["pick"] => done'["pick"])
    BY <1>2, PickStaysDone DEF ConfirmInv
  <2>2. CASE Client \/ UNCHANGED vars
    <3>1. UNCHANGED <<pc, step, asked, result>>
      BY <2>2, ClientStands DEF vars, mainKept, actionVars
    <3> QED BY <2>1, <3>1 DEF ConfirmRules, Answering
  <2>3. CASE MainSteps
    BY <2>1, <2>3, MainConfirms
  <2>4. CASE ActionSteps /\ UNCHANGED <<pc, role, pickVars>>
    BY <2>1, <2>4, CallConfirms
  <2> QED BY <2>2, <2>3, <2>4 DEF Next, Program, ProgramSteps, MainSteps
<1> QED BY <1>1, <1>2

\* For any pool, any number of sessions and faults: the program waits for the game only with
\* a completed pick, and as long as every request is answered with the very candidate it has
\* completed (_wait_for_action_completed).
THEOREM PicksAreConfirmed == Spec => []PickedIsConfirmed
<1>1. Init => ConfirmInv
  BY DEF Init, SessionInit, ConfirmInv
<1>2. TypeOK /\ GapInv /\ ConfirmInv /\ [Next]_vars => ConfirmInv'
  BY ConfirmInvIsInductive
<1>3. PickInv /\ ConfirmInv => PickedIsConfirmed
  <2> SUFFICES ASSUME PickInv, ConfirmInv, pc = "won", open, ~swift
               PROVE  /\ done["pick"]
                      /\ faults = 0 /\ lock.by = "lcu" /\ lock.champ \in Pool
                            => lock.champ = index
    BY DEF PickedIsConfirmed
  <2>1. done["pick"]
    BY DEF ConfirmInv, ConfirmRules
  <2>2. faults = 0 => PickRules
    BY DEF PickInv, Sound
  <2> QED BY <2>1, <2>2 DEF PickRules, LockRules, Candidate
<1> QED BY <1>1, <1>2, <1>3, PickInvHolds, PTL DEF Spec

=============================================================================
