--------------------------- MODULE StartRequest_proofs ---------------------------
(***************************************************************************)
(* Theorem: over a healthy link a start request the client has not         *)
(* reflected yet is always remembered, through both controllers and from   *)
(* the score board back to the queue.  The invariant says why: such a      *)
(* request exists only in a lobby or on the home screen, and whatever the  *)
(* program has read or holds then says no more than that.                  *)
(***************************************************************************)
EXTENDS AutomationCycle_proofs

USE DEF Goes, Exits, GoesOn, Stays, RoundEnds, Returns, ReturnsTrue, ReturnsFalse,
        cycleKept, searchKept, prefVars, postVars, flagVars, runtimeVars

QuietPhases == {"Lobby", "None"}
QuietReads  == QuietPhases \cup {NoDecision}

\* Requests and answers exist only where the client takes them.
WithinReach ==
    /\ accepted => phase = "ReadyCheck"
    /\ searchAsked => phase \in QuietPhases

\* A healthy link never takes the program to the image fallback.
NoFallback ==
    /\ link = "ok"
    /\ cache \in Phases \cup {NoDecision}
    /\ held \in Phases \cup {NoDecision}
    /\ pc \notin {"click", "postClick"}
    /\ pc \in {"scan2", "postScan"} => held \notin DecidedByPhase \cup {"ReadyCheck"}

\* The request, while it is made and while it is under way.
Remembered ==
    /\ pc \in {"start", "postStart"} => cache \in QuietReads
    /\ searchAsked => cache \in QuietReads /\ pending = "fresh"
    /\ searchAsked /\ pc = "begin" => held \in QuietPhases

RequestInv == WithinReach /\ (HealthyLink => NoFallback /\ Remembered)

-----------------------------------------------------------------------------
(* What the shared steps do to the request.                                *)

LinkSame == link' = link /\ faults' = faults

LEMMA ReadsKeep ==
    ASSUME NEW d, Reads(d)
    PROVE  /\ UNCHANGED <<phase, searchAsked, accepted>>
           /\ LinkSame
           /\ cache' = d
           /\ phase \in Phases /\ WithinReach /\ NoFallback /\ Remembered
                => d \in Phases /\ (searchAsked => d \in QuietPhases)
BY DEF Reads, clientVars, LinkSame, Answer, WithinReach, NoFallback, Remembered, QuietReads

LEMMA AcceptKeeps ==
    ASSUME WithinReach, NEW r, AcceptReadyCheck(r)
    PROVE  /\ UNCHANGED <<phase, searchAsked, cache>>
           /\ LinkSame
           /\ WithinReach'
           /\ r = Act => ~searchAsked
           /\ link = "ok" => r # Fallback
BY DEF AcceptReadyCheck, AcceptRequest, Delivered, Rejected, Lost, clientVars, WithinReach,
       QuietPhases, LinkSame, Act, Fallback, Wait

LEMMA StartKeeps ==
    ASSUME WithinReach, NEW r, StartSearchRequest(r)
    PROVE  /\ UNCHANGED <<phase, accepted, cache>>
           /\ LinkSame
           /\ WithinReach'
           /\ link = "ok" => r # Fallback
           /\ link = "ok" /\ r # Act => searchAsked' = searchAsked
BY DEF StartSearchRequest, Delivered, Rejected, Lost, clientVars, WithinReach, QuietPhases,
       LinkSame, Act, Fallback, Wait

LEMMA MoveKeeps ==
    ASSUME WithinReach, NEW r, NEW from \in {"None", "EndOfGame"}, NEW to \in QuietPhases,
           MoveRequest(from, to, r)
    PROVE  /\ UNCHANGED <<searchAsked, cache>>
           /\ LinkSame
           /\ WithinReach'
BY DEF MoveRequest, MovesTo, Delivered, Rejected, Lost, clientVars, WithinReach, QuietPhases,
       LinkSame

LEMMA ScanKeeps ==
    ASSUME WithinReach, NEW t, Scan(t)
    PROVE  /\ UNCHANGED <<phase, searchAsked, cache>>
           /\ LinkSame
           /\ WithinReach'
<1> USE DEF clientVars, WithinReach, LinkSame, QuietPhases, Attempt
<1>1. CASE ScanFindsNothing(t) \/ ScanClosesModal(t) \/ ScanFindsSearch(t)
  BY <1>1 DEF ScanFindsNothing, ScanClosesModal, ScanFindsSearch
<1>2. CASE ScanFindsAccept(t)
  BY <1>2 DEF ScanFindsAccept, OnScreen
<1> QED BY <1>1, <1>2 DEF Scan

LEMMA ScanSeesNoSearch ==
    ASSUME NEW t, Scan(t), held \in Phases \cup {NoDecision},
           held \notin DecidedByPhase \cup {"ReadyCheck"}
    PROVE  ~t.finding /\ ~SearchOver(t)
<1> USE DEF Attempt
<1>1. ~ImagesAllowed
  BY DEF ImagesAllowed, Phases, PostgamePhases, NoDecision, Fallback
<1>2. \E action : t = Attempt(FALSE, FALSE, action, held)
  BY <1>1 DEF Scan, ScanFindsNothing, ScanClosesModal, ScanFindsSearch, ScanFindsAccept
<1>3. ~t.accepted /\ ~t.finding /\ t.phase = IF held \in Phases THEN held ELSE "unknown"
  BY <1>2
<1> QED BY <1>3 DEF SearchOver, DecidedByPhase

LEMMA PollKeeps ==
    ASSUME NEW d, PollPhase(d)
    PROVE  Reads(d)
BY DEF PollPhase

LEMMA DetectKeeps ==
    ASSUME NEW found, DetectsSelect(found)
    PROVE  \E d : Reads(d)
BY PollKeeps DEF DetectsSelect

LEMMA ObserveKeepsPending ==
    ASSUME NEW t, NEW complete, Observe(t, complete), ~t.finding, ~SearchOver(t)
    PROVE  pending' = pending
BY DEF Observe

LEMMA PollGoes ==
    ASSUME NEW t, AfterPoll(t)
    PROVE  pc' \in {"poll", "stopped", "select", "confirm", "detect", "poll2"}
BY DEF AfterPoll

LEMMA WindowPollGoes ==
    ASSUME NEW t, AfterWindowPoll(t)
    PROVE  pc' \in {"poll", "stopped", "select", "confirm", "detect", "check"}
BY DEF AfterWindowPoll

-----------------------------------------------------------------------------
(* Every step of the program and of its surroundings.                      *)

LEMMA MatchmakingKeeps ==
    ASSUME ClientTypeOK, WithinReach, MatchmakingStep
    PROVE  /\ LinkSame
           /\ WithinReach'
           /\ NoFallback /\ Remembered => NoFallback' /\ Remembered'
<1> USE DEF MatchmakingStep, LinkSame
<1>1. CASE Poll
  <2>1. PICK d \in Decisions : PollPhase(d) /\ IF d = "ReadyCheck"
                                   THEN Goes("accept") /\ UNCHANGED <<finding, pending>>
                                   ELSE AfterPoll(PhaseAttempt(d))
    BY <1>1 DEF Poll
  <2>2. LinkSame /\ WithinReach' /\ held' = held
    BY <1>1, <2>1, PollKeeps, ReadsKeep DEF Poll, WithinReach
  <2>3. ASSUME NoFallback, Remembered
        PROVE  NoFallback' /\ Remembered'
    <3>1. d \in Phases /\ cache' = d /\ searchAsked' = searchAsked
             /\ (searchAsked => d \in QuietPhases)
      BY <2>1, <2>3, PollKeeps, ReadsKeep DEF ClientTypeOK
    <3>2. searchAsked => pending' = pending
      <4> SUFFICES ASSUME searchAsked, d # "ReadyCheck" PROVE pending' = pending
        BY <2>1
      <4>1. ~PhaseAttempt(d).finding /\ ~SearchOver(PhaseAttempt(d))
        BY <3>1 DEF PhaseAttempt, Attempt, SearchOver, QuietPhases
      <4> QED BY <2>1, <4>1, ObserveKeepsPending DEF AfterPoll
    <3>3. pc' \notin {"click", "postClick", "scan2", "postScan", "start", "postStart", "begin"}
      BY <2>1, PollGoes
    <3>4. NoFallback'
      BY <2>2, <2>3, <3>1, <3>3 DEF NoFallback
    <3>5. Remembered'
      BY <2>3, <3>1, <3>2, <3>3 DEF Remembered, QuietReads
    <3> QED BY <3>4, <3>5
  <2> QED BY <2>2, <2>3
<1>2. CASE Accept
  <2>1. PICK r : /\ AcceptReadyCheck(r)
                 /\ AfterPoll(IF r = Fallback
                              THEN Attempt(FALSE, FALSE, Act, "ReadyCheck")
                              ELSE AcceptAttempt(r))
    BY <1>2 DEF Accept
  <2>2. UNCHANGED <<searchAsked, cache, held>> /\ LinkSame /\ WithinReach'
    BY <1>2, <2>1, AcceptKeeps DEF Accept
  <2>3. ASSUME NoFallback, Remembered
        PROVE  NoFallback' /\ Remembered'
    <3>1. searchAsked => r # Act /\ r # Fallback
      BY <2>1, <2>3, AcceptKeeps DEF NoFallback
    <3>2. searchAsked => pending' = pending
      <4> SUFFICES ASSUME searchAsked PROVE pending' = pending
        OBVIOUS
      <4>1. ~AcceptAttempt(r).finding /\ ~SearchOver(AcceptAttempt(r))
        BY <3>1 DEF AcceptAttempt, Attempt, SearchOver
      <4> QED BY <2>1, <3>1, <4>1, ObserveKeepsPending DEF AfterPoll
    <3>3. pc' \notin {"click", "postClick", "scan2", "postScan", "start", "postStart", "begin"}
      BY <2>1, PollGoes
    <3>4. NoFallback'
      BY <2>2, <2>3, <3>3 DEF NoFallback
    <3>5. Remembered'
      BY <2>2, <2>3, <3>2, <3>3 DEF Remembered
    <3> QED BY <3>4, <3>5
  <2> QED BY <2>2, <2>3
<1>3. CASE WindowPoll
  <2>1. PICK d \in Decisions :
             /\ PollPhase(d)
             /\ \/ /\ d \in DecidedByPhase
                   /\ AfterWindowPoll(PhaseAttempt(d))
                   /\ UNCHANGED held
                \/ /\ d \notin DecidedByPhase
                   /\ held' = d
                   /\ Goes(IF d = "ReadyCheck" THEN "accept2" ELSE "scan2")
                   /\ UNCHANGED <<finding, pending>>
    BY <1>3 DEF WindowPoll
  <2>2. LinkSame /\ WithinReach'
    BY <2>1, PollKeeps, ReadsKeep DEF WithinReach
  <2>3. ASSUME NoFallback, Remembered
        PROVE  NoFallback' /\ Remembered'
    <3>1. d \in Phases /\ cache' = d /\ searchAsked' = searchAsked
             /\ (searchAsked => d \in QuietPhases)
      BY <2>1, <2>3, PollKeeps, ReadsKeep DEF ClientTypeOK
    <3>2. searchAsked => pending' = pending
      BY <2>1, <3>1 DEF DecidedByPhase, QuietPhases
    <3>3. pc' \notin {"click", "postClick", "postScan", "start", "postStart", "begin"}
      BY <2>1, WindowPollGoes
    <3>4. pc' = "scan2" => held' \notin DecidedByPhase \cup {"ReadyCheck"}
      BY <2>1, WindowPollGoes
    <3>5. NoFallback'
      BY <2>1, <2>2, <2>3, <3>1, <3>3, <3>4 DEF NoFallback
    <3>6. Remembered'
      BY <2>3, <3>1, <3>2, <3>3 DEF Remembered, QuietReads
    <3> QED BY <3>5, <3>6
  <2> QED BY <2>2, <2>3
<1>4. CASE WindowAccept
  <2>1. PICK r : /\ AcceptReadyCheck(r)
                 /\ \/ /\ r = Fallback
                       /\ Goes("scan2")
                       /\ UNCHANGED <<finding, pending, held>>
                    \/ /\ r # Fallback
                       /\ AfterWindowPoll(AcceptAttempt(r))
                       /\ held' = NoDecision
    BY <1>4 DEF WindowAccept
  <2>2. UNCHANGED <<searchAsked, cache>> /\ LinkSame /\ WithinReach'
    BY <2>1, AcceptKeeps
  <2>3. ASSUME NoFallback, Remembered
        PROVE  NoFallback' /\ Remembered'
    <3>1. r # Fallback /\ (searchAsked => r # Act)
      BY <2>1, <2>3, AcceptKeeps DEF NoFallback
    <3>2. searchAsked => pending' = pending
      <4> SUFFICES ASSUME searchAsked PROVE pending' = pending
        OBVIOUS
      <4>1. ~AcceptAttempt(r).finding /\ ~SearchOver(AcceptAttempt(r))
        BY <3>1 DEF AcceptAttempt, Attempt, SearchOver
      <4> QED BY <2>1, <3>1, <4>1, ObserveKeepsPending DEF AfterWindowPoll
    <3>3. pc' \notin {"click", "postClick", "scan2", "postScan", "start", "postStart", "begin"}
      BY <2>1, <3>1, WindowPollGoes
    <3>4. NoFallback'
      BY <2>1, <2>2, <2>3, <3>1, <3>3 DEF NoFallback
    <3>5. Remembered'
      BY <2>2, <2>3, <3>2, <3>3 DEF Remembered
    <3> QED BY <3>4, <3>5
  <2> QED BY <2>2, <2>3
<1>5. CASE WindowScan
  <2>1. PICK t : Scan(t) /\ AfterWindowPoll(t)
    BY <1>5 DEF WindowScan
  <2>2. UNCHANGED <<searchAsked, cache>> /\ LinkSame /\ WithinReach' /\ held' = NoDecision
    BY <1>5, <2>1, ScanKeeps DEF WindowScan
  <2>3. ASSUME NoFallback, Remembered
        PROVE  NoFallback' /\ Remembered'
    <3>1. pending' = pending
      <4>1. ~t.finding /\ ~SearchOver(t)
        BY <1>5, <2>1, <2>3, ScanSeesNoSearch DEF WindowScan, NoFallback
      <4> QED BY <2>1, <4>1, ObserveKeepsPending DEF AfterWindowPoll
    <3>2. pc' \notin {"click", "postClick", "scan2", "postScan", "start", "postStart", "begin"}
      BY <2>1, WindowPollGoes
    <3>3. NoFallback'
      BY <2>2, <2>3, <3>2 DEF NoFallback
    <3>4. Remembered'
      BY <2>2, <2>3, <3>1, <3>2 DEF Remembered
    <3> QED BY <3>3, <3>4
  <2> QED BY <2>2, <2>3
<1>6. CASE Detect
  <2>1. PICK d : Reads(d)
    BY <1>6, DetectKeeps DEF Detect
  <2>2. LinkSame /\ WithinReach' /\ UNCHANGED <<held, pending>>
    BY <1>6, <2>1, ReadsKeep DEF Detect, WithinReach
  <2>3. ASSUME NoFallback, Remembered
        PROVE  NoFallback' /\ Remembered'
    <3>1. d \in Phases /\ cache' = d /\ searchAsked' = searchAsked
             /\ (searchAsked => d \in QuietPhases)
      BY <2>1, <2>3, ReadsKeep DEF ClientTypeOK
    <3>2. pc' \in {"select", "poll", "poll2", "check"}
      BY <1>6 DEF Detect
    <3> QED BY <2>2, <2>3, <3>1, <3>2 DEF NoFallback, Remembered, QuietReads
  <2> QED BY <2>2, <2>3
<1>7. CASE CheckStart
  <2>1. PICK d \in Decisions :
             PollPhase(d) /\ Goes(IF BlocksStart(d, FALSE) THEN "poll" ELSE "start")
    BY <1>7 DEF CheckStart
  <2>2. LinkSame /\ WithinReach' /\ UNCHANGED <<held, pending>>
    BY <1>7, <2>1, PollKeeps, ReadsKeep DEF CheckStart, WithinReach
  <2>3. ASSUME NoFallback, Remembered
        PROVE  NoFallback' /\ Remembered'
    <3>1. d \in Phases /\ cache' = d /\ searchAsked' = searchAsked
             /\ (searchAsked => d \in QuietPhases)
      BY <2>1, <2>3, PollKeeps, ReadsKeep DEF ClientTypeOK
    <3>2. pc' = "poll" \/ (pc' = "start" /\ d = "Lobby")
      BY <2>1, <3>1 DEF BlocksStart
    <3> QED BY <2>2, <2>3, <3>1, <3>2 DEF NoFallback, Remembered, QuietReads, QuietPhases
  <2> QED BY <2>2, <2>3
<1>8. CASE Start
  <2>1. PICK r : /\ StartSearchRequest(r)
                 /\ \/ r = Act /\ SearchRequested
                    \/ /\ r # Act
                       /\ Goes(IF r = Wait THEN "poll" ELSE "click")
                       /\ UNCHANGED <<finding, pending, shown, timer>>
                 /\ r \in {Act, Wait, Fallback}
    BY <1>8 DEF Start
  <2>2. UNCHANGED <<cache, held>> /\ LinkSame /\ WithinReach'
    BY <1>8, <2>1, StartKeeps DEF Start
  <2>3. ASSUME NoFallback, Remembered
        PROVE  NoFallback' /\ Remembered'
    <3>1. r # Fallback /\ (r # Act => searchAsked' = searchAsked) /\ cache \in QuietReads
      BY <1>8, <2>1, <2>3, StartKeeps DEF NoFallback, Remembered, Start
    <3>2. pc' = "poll" /\ (r = Act => pending' = "fresh") /\ (r # Act => pending' = pending)
      BY <2>1, <3>1 DEF SearchRequested
    <3> QED BY <2>2, <2>3, <3>1, <3>2 DEF NoFallback, Remembered
  <2> QED BY <2>2, <2>3
<1>9. CASE Click
  <2>1. LinkSame /\ WithinReach'
    BY <1>9 DEF Click, OnScreen, WithinReach, QuietPhases, clientVars
  <2> QED BY <1>9, <2>1 DEF Click, NoFallback
<1>10. CASE Confirm
  <2>1. PICK d : Reads(d)
    BY <1>10, PollKeeps DEF Confirm
  <2>2. LinkSame /\ WithinReach' /\ UNCHANGED <<held, pending>>
    BY <1>10, <2>1, ReadsKeep DEF Confirm, WithinReach
  <2>3. ASSUME NoFallback, Remembered
        PROVE  NoFallback' /\ Remembered'
    <3>1. d \in Phases /\ cache' = d /\ searchAsked' = searchAsked
             /\ (searchAsked => d \in QuietPhases)
      BY <2>1, <2>3, ReadsKeep DEF ClientTypeOK
    <3>2. pc' \in {"select", "confirm", "confirmAccept", "cycle"}
      BY <1>10 DEF Confirm
    <3> QED BY <2>2, <2>3, <3>1, <3>2 DEF NoFallback, Remembered, QuietReads
  <2> QED BY <2>2, <2>3
<1>11. CASE ConfirmAccept
  <2>1. UNCHANGED <<searchAsked, cache, held, pending>> /\ LinkSame /\ WithinReach'
    BY <1>11, AcceptKeeps DEF ConfirmAccept
  <2>2. pc' \in {"confirm", "cycle"}
    BY <1>11 DEF ConfirmAccept
  <2> QED BY <2>1, <2>2 DEF NoFallback, Remembered
<1> QED BY <1>1, <1>2, <1>3, <1>4, <1>5, <1>6, <1>7, <1>8, <1>9, <1>10, <1>11

\* A step that reads the phase, leaves the request alone and does not go to one of the
\* points the invariant names.
LEMMA ReadingKeeps ==
    ASSUME ClientTypeOK, WithinReach, NEW d, Reads(d)
    PROVE  /\ LinkSame
           /\ WithinReach'
           /\ NoFallback /\ Remembered =>
                /\ d \in Phases
                /\ searchAsked => d \in QuietPhases
                /\ cache' = d
                /\ searchAsked' = searchAsked
<1>1. LinkSame /\ WithinReach'
  BY ReadsKeep DEF WithinReach
<1> QED BY <1>1, ReadsKeep DEF ClientTypeOK

LEMMA StandingKeeps ==
    ASSUME WithinReach, UNCHANGED clientVars
    PROVE  LinkSame /\ WithinReach' /\ UNCHANGED <<searchAsked, cache>>
BY DEF clientVars, WithinReach, LinkSame

\* A step that leaves the request and the cache alone, and goes where the invariant
\* asks for nothing else.
LEMMA EndsQuietly ==
    ASSUME LinkSame, WithinReach', UNCHANGED <<searchAsked, cache>>, pending' = pending,
           held' \in {held, NoDecision},
           pc' \notin {"click", "postClick", "begin", "start", "postStart", "scan2", "postScan"}
    PROVE  /\ LinkSame
           /\ WithinReach'
           /\ NoFallback /\ Remembered => NoFallback' /\ Remembered'
<1> SUFFICES ASSUME NoFallback, Remembered PROVE NoFallback' /\ Remembered'
  OBVIOUS
<1>1. NoFallback'
  BY DEF LinkSame, NoFallback
<1>2. Remembered'
  BY DEF Remembered
<1> QED BY <1>1, <1>2

\* A step that reads the phase.
LEMMA EndsReading ==
    ASSUME ClientTypeOK, WithinReach, NEW d, Reads(d), pending' = pending,
           held' \in {held, d, NoDecision},
           pc' \notin {"click", "postClick", "begin"},
           d \in Phases /\ pc' \in {"start", "postStart"} => d \in QuietPhases,
           pc' \in {"scan2", "postScan"} => held' \notin DecidedByPhase \cup {"ReadyCheck"}
    PROVE  /\ LinkSame
           /\ WithinReach'
           /\ NoFallback /\ Remembered => NoFallback' /\ Remembered'
<1>1. LinkSame /\ WithinReach'
  BY ReadingKeeps
<1>2. ASSUME NoFallback, Remembered PROVE NoFallback' /\ Remembered'
  <2>1. d \in Phases /\ cache' = d /\ searchAsked' = searchAsked
           /\ (searchAsked => d \in QuietPhases)
    BY <1>2, ReadingKeeps
  <2>2. NoFallback'
    BY <1>1, <1>2, <2>1 DEF LinkSame, NoFallback
  <2>3. Remembered'
    BY <1>2, <2>1 DEF Remembered, QuietReads
  <2> QED BY <2>2, <2>3
<1> QED BY <1>1, <1>2

LEMMA PostgameKeeps ==
    ASSUME ClientTypeOK, WithinReach, PostgameStep
    PROVE  /\ LinkSame
           /\ WithinReach'
           /\ NoFallback /\ Remembered => NoFallback' /\ Remembered'
<1> USE DEF PostgameStep
<1>1. CASE WaitBegins
  <2>1. UNCHANGED clientVars /\ UNCHANGED <<held, pending>> /\ pc' = "waitGame"
    BY <1>1 DEF WaitBegins
  <2> QED BY <2>1, StandingKeeps, EndsQuietly
<1>2. CASE WaitForGame
  <2>1. PICK d : Reads(d)
    BY <1>2, PollKeeps DEF WaitForGame
  <2>2. UNCHANGED <<held, pending>> /\ pc' \in {"monitor", "cycle", "waitAccept", "waitGame"}
    BY <1>2 DEF WaitForGame
  <2> QED BY <2>1, <2>2, EndsReading
<1>3. CASE WaitAccept \/ MonitorAccept \/ PostAccept
  <2>1. PICK r : AcceptReadyCheck(r)
    BY <1>3 DEF WaitAccept, MonitorAccept, PostAccept
  <2>2. pending' = pending /\ held' \in {held, NoDecision} /\ pc' \in {"cycle", "stopped"}
    BY <1>3 DEF WaitAccept, MonitorAccept, PostAccept, BackInQueue
  <2> QED BY <2>1, <2>2, AcceptKeeps, EndsQuietly
<1>4. CASE Monitor
  <2>1. PICK d : Reads(d)
    BY <1>4, PollKeeps DEF Monitor, GameIsOver
  <2>2. UNCHANGED <<held, pending>>
    BY <1>4 DEF Monitor
  <2>3. pc' \in {"monitor", "monitorAccept", "cycle", "stopped", "post"}
    BY <1>4 DEF Monitor, StillPlaying, BackInQueue, GameIsOver, ProcessBegins
  <2> QED BY <2>1, <2>2, <2>3, EndsReading
<1>5. CASE PostRound
  <2>1. CASE ~Continues
    <3>1. UNCHANGED clientVars /\ pending' = pending /\ held' = NoDecision /\ pc' = "stopped"
      BY <1>5, <2>1 DEF PostRound
    <3> QED BY <3>1, StandingKeeps, EndsQuietly
  <2>2. CASE Continues
    <3>1. PICK d \in Decisions : PollPhase(d) /\ held' \in {d, NoDecision}
      BY <1>5, <2>2 DEF PostRound
    <3>2. ASSUME NEW e
          PROVE  Branch(e) \in {"post", "cycle", "postCheck", "postAccept",
                               "postPlayAgain", "postDismiss", "postDetect"}
      BY DEF Branch
    <3>3. pending' = pending
             /\ pc' \in {"post", "cycle", "postCheck", "postAccept", "postPlayAgain",
                         "postDismiss", "postDetect"}
      BY <1>5, <2>2, <3>2 DEF PostRound
    <3> QED BY <3>1, <3>3, PollKeeps, EndsReading
  <2> QED BY <2>1, <2>2
<1>6. CASE PostPlayAgain \/ PostDismiss
  <2>1. PICK to \in QuietPhases : \E r : MoveRequest("EndOfGame", to, r)
    BY <1>6 DEF PostPlayAgain, PostDismiss, QuietPhases
  <2>2. pending' = pending /\ held' \in {held, NoDecision}
             /\ pc' \in {"post", "postCheck", "postDetect", "postDismiss"}
    BY <1>6 DEF PostPlayAgain, PostDismiss
  <2> QED BY <2>1, <2>2, MoveKeeps, EndsQuietly
<1>7. CASE PostDetect
  <2>1. CASE RoundEnds /\ UNCHANGED <<clientVars, shown, timer, flagVars>>
    BY <1>7, <2>1, StandingKeeps, EndsQuietly DEF PostDetect
  <2>2. CASE ~(RoundEnds /\ UNCHANGED <<clientVars, shown, timer, flagVars>>)
    <3>1. PICK d : Reads(d)
      BY <1>7, <2>2, DetectKeeps DEF PostDetect
    <3>2. pending' = pending /\ held' \in {held, NoDecision} /\ pc' \in {"cycle", "postEndClick"}
      BY <1>7, <2>2 DEF PostDetect
    <3> QED BY <3>1, <3>2, EndsReading
  <2> QED BY <2>1, <2>2
<1>8. CASE PostEndClick
  <2>1. UNCHANGED <<searchAsked, cache, held, pending>> /\ pc' = "postPoll"
    BY <1>8 DEF PostEndClick, MovesTo, clientVars
  <2>2. LinkSame /\ WithinReach'
    BY <1>8 DEF PostEndClick, MovesTo, clientVars, LinkSame, WithinReach, QuietPhases
  <2> QED BY <2>1, <2>2, EndsQuietly
<1>9. CASE PostPoll
  <2>1. PICK d \in Decisions : PollPhase(d) /\
             \/ /\ d \in DecidedByPhase
                /\ AfterPostPoll(PhaseAttempt(d))
             \/ /\ d \notin DecidedByPhase
                /\ GoesOn(IF d = "ReadyCheck" THEN "postPollAccept" ELSE "postScan")
                /\ held' = d
    BY <1>9 DEF PostPoll
  <2>2. pending' = pending /\ held' \in {d, NoDecision}
             /\ pc' \in {"post", "postCheck", "postPollAccept", "postScan"}
             /\ (pc' = "postScan" => held' = d /\ d \notin DecidedByPhase \cup {"ReadyCheck"})
    BY <1>9, <2>1 DEF PostPoll, AfterPostPoll
  <2> QED BY <2>1, <2>2, PollKeeps, EndsReading
<1>10. CASE PostPollAccept
  <2>1. PICK r : /\ AcceptReadyCheck(r)
                 /\ IF r = Fallback THEN Stays("postScan") ELSE AfterPostPoll(AcceptAttempt(r))
    BY <1>10 DEF PostPollAccept
  <2>2. pending' = pending /\ held' \in {held, NoDecision}
             /\ (r # Fallback => pc' \in {"post", "postCheck"})
    BY <1>10, <2>1 DEF PostPollAccept, AfterPostPoll
  <2>3. LinkSame /\ WithinReach' /\ UNCHANGED <<searchAsked, cache>>
           /\ (link = "ok" => r # Fallback)
    BY <2>1, AcceptKeeps
  <2>4. CASE r # Fallback
    BY <2>2, <2>3, <2>4, EndsQuietly
  <2>5. CASE r = Fallback
    BY <2>3, <2>5 DEF NoFallback
  <2> QED BY <2>4, <2>5
<1>11. CASE PostScan
  <2>1. PICK t : Scan(t) /\ AfterPostPoll(t)
    BY <1>11 DEF PostScan
  <2>2. pending' = pending /\ held' = NoDecision /\ pc' \in {"post", "postCheck"}
    BY <1>11, <2>1 DEF PostScan, AfterPostPoll
  <2> QED BY <2>1, <2>2, ScanKeeps, EndsQuietly
<1>12. CASE PostCheckStart
  <2>1. PICK d \in Decisions : PollPhase(d) /\
             IF BlocksStart(d, via = "none") THEN RoundEnds ELSE Stays("postStart")
    BY <1>12 DEF PostCheckStart
  <2>2. pending' = pending /\ held' \in {held, NoDecision}
    BY <1>12, <2>1 DEF PostCheckStart
  <2>3. pc' \in {"post", "postStart"}
             /\ (d \in Phases /\ pc' = "postStart" => d \in QuietPhases)
    BY <2>1 DEF BlocksStart, QuietPhases
  <2> QED BY <2>1, <2>2, <2>3, PollKeeps, EndsReading
<1>13. CASE PostStart
  <2>1. PICK r \in {Act, Wait, Fallback} : RequestStart(r)
    BY <1>13 DEF PostStart
  <2>2. UNCHANGED cache /\ LinkSame /\ WithinReach'
    BY <2>1, StartKeeps DEF RequestStart
  <2>3. ASSUME NoFallback, Remembered
        PROVE  NoFallback' /\ Remembered'
    <3>1. PICK s \in {Act, Wait, Fallback} :
               /\ RequestStart(s)
               /\ CASE s = Act -> ReturnsTrue
                    [] s = Fallback /\ via = "screen" -> Stays("postClick") /\ UNCHANGED flagVars
                    [] s = Fallback /\ via = "lobby" /\ playAgain # "done" ->
                           Stays("postDetect") /\ UNCHANGED flagVars
                    [] OTHER -> RoundEnds /\ UNCHANGED flagVars
      BY <1>13 DEF PostStart
    <3>2. s # Fallback /\ (s # Act => searchAsked' = searchAsked) /\ cache \in QuietReads
      BY <1>13, <2>3, <3>1, StartKeeps DEF NoFallback, Remembered, PostStart, RequestStart
    <3>3. pc' \in {"cycle", "post"} /\ held' = NoDecision
             /\ pending' = IF s = Act THEN "fresh" ELSE pending
      BY <3>1, <3>2 DEF RequestStart
    <3> QED BY <2>2, <2>3, <3>2, <3>3 DEF NoFallback, Remembered, LinkSame
  <2> QED BY <2>2, <2>3
<1>14. CASE PostClick
  <2>1. LinkSame /\ WithinReach'
    BY <1>14 DEF PostClick, OnScreen, WithinReach, QuietPhases, clientVars, LinkSame
  <2> QED BY <1>14, <2>1 DEF PostClick, NoFallback
<1>15. CASE PostGivesUp
  <2>1. UNCHANGED clientVars /\ pending' = pending /\ held' = NoDecision /\ pc' = "stopped"
    BY <1>15 DEF PostGivesUp, GivesUp
  <2> QED BY <2>1, StandingKeeps, EndsQuietly
<1> QED BY <1>1, <1>2, <1>3, <1>4, <1>5, <1>6, <1>7, <1>8, <1>9, <1>10, <1>11, <1>12,
           <1>13, <1>14, <1>15

LEMMA CycleKeeps ==
    ASSUME ClientTypeOK, WithinReach, CycleStep
    PROVE  /\ LinkSame
           /\ WithinReach'
           /\ NoFallback /\ Remembered => NoFallback' /\ Remembered'
<1>1. CASE CycleBegins
  <2>1. PICK d \in Decisions : Reads(d) /\ (pc' = "begin" => held' = d)
                               /\ held' \in {held, d}
    BY <1>1, PollKeeps DEF CycleBegins, Decisions
  <2>2. pending' = pending /\ pc' \in {"cycle", "monitor", "resume", "begin"}
    BY <1>1 DEF CycleBegins
  <2>3. LinkSame /\ WithinReach'
    BY <2>1, ReadingKeeps
  <2>4. ASSUME NoFallback, Remembered PROVE NoFallback' /\ Remembered'
    <3>1. d \in Phases /\ cache' = d /\ searchAsked' = searchAsked
             /\ (searchAsked => d \in QuietPhases)
      BY <2>1, <2>4, ReadingKeeps
    <3>2. NoFallback'
      BY <2>1, <2>2, <2>3, <2>4, <3>1 DEF LinkSame, NoFallback
    <3>3. Remembered'
      BY <2>1, <2>2, <2>4, <3>1 DEF Remembered, QuietReads
    <3> QED BY <3>2, <3>3
  <2> QED BY <2>3, <2>4
<1>2. CASE CycleResumes \/ CycleClosesPopup
  <2>1. UNCHANGED clientVars /\ pending' = pending /\ held' = NoDecision
             /\ pc' \in {"post", "stopped", "cycle"}
    BY <1>2 DEF CycleResumes, CycleClosesPopup, ProcessBegins
  <2> QED BY <2>1, StandingKeeps, EndsQuietly
<1>3. CASE CycleRunsMatchmaking
  <2>1. UNCHANGED <<searchAsked, cache>> /\ LinkSame /\ WithinReach'
    BY <1>3, StandingKeeps, MoveKeeps DEF CycleRunsMatchmaking, QuietPhases
  <2>2. held' = NoDecision /\ pc' = "poll" /\ pc = "begin"
             /\ pending' = IF held = "Matchmaking" THEN "none" ELSE pending
    BY <1>3 DEF CycleRunsMatchmaking, RunBegins
  <2>3. ASSUME NoFallback, Remembered PROVE NoFallback' /\ Remembered'
    <3>1. searchAsked => pending' = pending
      BY <2>2, <2>3 DEF Remembered, QuietPhases
    <3>2. NoFallback'
      BY <2>1, <2>2, <2>3 DEF LinkSame, NoFallback
    <3>3. Remembered'
      BY <2>1, <2>2, <2>3, <3>1 DEF Remembered
    <3> QED BY <3>2, <3>3
  <2> QED BY <2>1, <2>3
<1>4. CASE SelectGoesOn \/ SelectLeaves
  <2>1. PICK d : Reads(d)
    BY <1>4, PollKeeps DEF SelectGoesOn, SelectLeaves
  <2>2. UNCHANGED <<held, pending>> /\ pc' \in {"select", "cycle", "waitStart"}
    BY <1>4 DEF SelectGoesOn, SelectLeaves
  <2> QED BY <2>1, <2>2, EndsReading
<1> QED BY <1>1, <1>2, <1>3, <1>4 DEF CycleStep

\* The client and the user act only where the request is not, or take it away.
LEMMA ClientKeeps ==
    ASSUME ClientTypeOK, WithinReach, ClientNext
    PROVE  /\ WithinReach'
           /\ HealthyLink' => HealthyLink /\ (link = "ok" => link' = "ok")
           /\ searchAsked' => searchAsked
           /\ cache' \in {cache, NoDecision}
<1> USE DEF WithinReach, HealthyLink, MovesTo, QuietPhases
<1>1. CASE UserActs
  BY <1>1 DEF UserActs, UserStartsSearch, UserCancelsSearch, UserDodges,
              UserLeavesPostgame, UserEntersLobby, UserLeavesLobby
<1>2. CASE ClientActs
  BY <1>2 DEF ClientActs, SearchBegins, MatchFound, EveryoneAccepts, SomeoneDeclines,
              ReadyCheckFails, SomeoneDodges, GameStarts, GameEnds, PostgameAdvances,
              PostgamePhases
<1>3. CASE CacheExpires
  BY <1>3 DEF CacheExpires
<1>4. CASE LinkBreaks
  <2>1. faults' # 0
    BY <1>4, MaxFaultsAssumption DEF LinkBreaks, ClientTypeOK, LinkTypeOK
  <2> QED BY <1>4, <2>1 DEF LinkBreaks
<1>5. CASE LinkRecovers
  BY <1>5 DEF LinkRecovers
<1> QED BY <1>1, <1>2, <1>3, <1>4, <1>5 DEF ClientNext, LinkActs

LEMMA SurroundingsKeep ==
    ASSUME ClientTypeOK, RequestInv, Surroundings
    PROVE  RequestInv'
<1>1. UNCHANGED <<pc, held>>
  BY DEF Surroundings, World, ClientStep, GraceElapses, UserTogglesContinue, searchVars
<1>2. CASE ClientStep
  <2>1. ClientNext /\ pending' = pending
    BY <1>2 DEF ClientStep
  <2>2. WithinReach'
    BY <2>1, ClientKeeps DEF RequestInv
  <2>3. ASSUME HealthyLink' PROVE NoFallback' /\ Remembered'
    <3>1. NoFallback /\ Remembered /\ link' = "ok"
      BY <2>1, <2>3, ClientKeeps DEF RequestInv, NoFallback
    <3>2. (searchAsked' => searchAsked) /\ cache' \in {cache, NoDecision}
      BY <2>1, ClientKeeps DEF RequestInv
    <3>3. NoFallback'
      BY <1>1, <3>1, <3>2 DEF NoFallback
    <3>4. Remembered'
      BY <1>1, <2>1, <3>1, <3>2 DEF Remembered, QuietReads
    <3> QED BY <3>3, <3>4
  <2> QED BY <2>2, <2>3 DEF RequestInv
<1>3. CASE GraceElapses
  <2>1. UNCHANGED clientVars /\ ~searchAsked
    BY <1>3 DEF GraceElapses
  <2> QED BY <1>1, <2>1 DEF RequestInv, clientVars, WithinReach, HealthyLink, NoFallback,
                            Remembered
<1>4. CASE UserTogglesContinue
  <2>1. UNCHANGED clientVars /\ pending' = pending
    BY <1>4 DEF UserTogglesContinue
  <2> QED BY <1>1, <2>1 DEF RequestInv, clientVars, WithinReach, HealthyLink, NoFallback,
                            Remembered
<1> QED BY <1>2, <1>3, <1>4 DEF Surroundings, World

LEMMA RequestInvIsInductive ==
    ASSUME TypeOK, RequestInv, [Next]_vars
    PROVE  RequestInv'
<1>1. ClientTypeOK /\ WithinReach /\ (HealthyLink => NoFallback /\ Remembered)
  BY DEF TypeOK, RequestInv
<1>2. CASE Program
  <2>1. /\ LinkSame
        /\ WithinReach'
        /\ NoFallback /\ Remembered => NoFallback' /\ Remembered'
    BY <1>1, <1>2, CycleKeeps, MatchmakingKeeps, PostgameKeeps DEF Program
  <2> QED BY <1>1, <2>1 DEF RequestInv, HealthyLink, LinkSame
<1>3. CASE Surroundings
  BY <1>1, <1>3, SurroundingsKeep
<1>4. CASE UNCHANGED vars
  BY <1>4 DEF vars, clientVars, searchVars, RequestInv, WithinReach, HealthyLink,
              NoFallback, Remembered
<1> QED BY <1>2, <1>3, <1>4 DEF Next

LEMMA RequestInvHolds == Spec => [](TypeOK /\ RequestInv)
<1>1. Init => RequestInv
  BY DEF Init, ClientInit, MatchmakingInit, RequestInv, WithinReach, NoFallback, Remembered
<1> QED BY <1>1, RequestInvIsInductive, TypeIsKept, PTL DEF Spec

\* However often the link breaks later, as long as it has not broken a start request
\* the client has not reflected yet is remembered in matchmaking_start_pending_at
\* (_record_start, mark_start_requested, the controller's constructor).
THEOREM StartRequestIsRemembered == Spec => []RequestIsRemembered
<1>1. RequestInv => RequestIsRemembered
  BY DEF RequestInv, Remembered, RequestIsRemembered
<1> QED BY <1>1, RequestInvHolds, PTL

=============================================================================
