--------------------------- MODULE GuiProcess_proofs ---------------------------
(***************************************************************************)
(* For any processes, any limit of restarts and any worlds: the window     *)
(* knows the process that runs, closes over none, and keeps to a Stop; and *)
(* the starts that it makes by itself run out.                             *)
(***************************************************************************)
EXTENDS GuiProcess, TLAPS

USE LimitAssumption, ChildrenAssumption

--------------------------------------------------------------------------------
(* Types.                                                                  *)

LEMMA FreeChildIsFree ==
    ASSUME \E c \in Children : child[c] = "free"
    PROVE  FreeChild \in Children /\ child[FreeChild] = "free"
BY DEF FreeChild

LEMMA PollAnswers == ASSUME NEW i PROVE PollIsRunning(i) \in Answers
BY DEF PollIsRunning, Answers

LEMMA RunningIsAnswer == TypeOK => Running \in Answers
<1> SUFFICES ASSUME TypeOK PROVE Running \in Answers
    OBVIOUS
<1>1. CASE snapshots \subseteq {Unknown}
    BY <1>1 DEF TypeOK, Running, Answers, None
<1>2. CASE ~ (snapshots \subseteq {Unknown})
    BY <1>2 DEF TypeOK, Running
<1> QED
    BY <1>1, <1>2

LEMMA StruckHasTypes ==
    ASSUME ChildTypeOK, NEW c
    PROVE  Struck(c) \in [Children -> ChildStates]
BY DEF ChildTypeOK, Struck, ChildStates, AliveStates

LEMMA InitHasTypes == Init => TypeOK
<1> SUFFICES ASSUME Init PROVE TypeOK
    OBVIOUS
<1>1. ChildTypeOK
    BY DEF Init, ChildInit, ChildTypeOK, ChildStates
<1>2. GuardTypeOK
    BY DEF Init, GuardInit, GuardTypeOK
<1>3. {restartAfter, autoStart, startOn, stopOn} \subseteq BOOLEAN
    BY DEF Init
<1>4. {dialog, ready, edited, seenOnce, odd} \subseteq BOOLEAN
    BY DEF Init
<1>5. {stopAt, applyAt, closedAt, deadline} \subseteq Times /\ snapshots \subseteq Answers
      /\ due \subseteq {"start", "recover"}
    BY DEF Init, Times
<1>6. /\ app \in {"open", "closed"} /\ proc \in Children \cup {NoChild}
      /\ recoveries \in 0 .. RestartLimit /\ world \in Worlds
      /\ confirmed \in Answers \cup {None} /\ wish \in {"start", "stop"}
    BY DEF Init
<1> QED
    BY <1>1, <1>2, <1>3, <1>4, <1>5, <1>6 DEF TypeOK

\* What start leaves: a new process, a message box, or what there was.
LEMMA StartHasTypes ==
    ASSUME TypeOK, NEW recover, Start(recover)
    PROVE  /\ ChildTypeOK'
           /\ proc' \in Children \cup {NoChild}
           /\ recoveries' \in 0 .. RestartLimit
           /\ stopAt' \in Times
           /\ {restartAfter', autoStart', startOn', stopOn', dialog'} \subseteq BOOLEAN
<1>1. CASE StartBlocked \/ StartUnready
    BY <1>1 DEF TypeOK, ChildTypeOK, StartBlocked, StartUnready, childVars, runVars
<1>2. recoveries \in Nat /\ CountAfterStart(recover) \in 0 .. RestartLimit
    BY DEF TypeOK, CountAfterStart
<1>3. CASE StartLaunches(recover)
  <2>1. FreeChild \in Children
      BY <1>3, FreeChildIsFree DEF StartLaunches, Launches
  <2>2. child' \in [Children -> ChildStates] /\ reading' \subseteq Children
        /\ logQ' \in Seq(Children)
      BY <1>3, <2>1 DEF TypeOK, ChildTypeOK, StartLaunches, Launches, ChildStates, AliveStates
  <2> QED
      BY <1>2, <1>3, <2>1, <2>2 DEF TypeOK, ChildTypeOK, StartLaunches, Times, None
<1>4. CASE StartFails(recover)
    BY <1>2, <1>4 DEF TypeOK, ChildTypeOK, StartFails
<1> QED
    BY <1>1, <1>3, <1>4 DEF Start

LEMMA StartsHaveTypes ==
    ASSUME TypeOK, ClickStart \/ \E kind \in {"start", "recover"} : StartIsDue(kind)
    PROVE  TypeOK'
<1>1. PICK recover : Start(recover)
    BY DEF ClickStart, StartIsDue
<1>2. /\ ChildTypeOK' /\ proc' \in Children \cup {NoChild}
      /\ recoveries' \in 0 .. RestartLimit /\ stopAt' \in Times
      /\ {restartAfter', autoStart', startOn', stopOn', dialog'} \subseteq BOOLEAN
    BY <1>1, StartHasTypes
<1>3. /\ due' \subseteq {"start", "recover"} /\ wish' \in {"start", "stop"} /\ odd' \in BOOLEAN
      /\ UNCHANGED <<guardVars, app, configVars, snapshots, closeVars>>
    BY DEF TypeOK, ClickStart, StartIsDue, Overtakes
<1> QED
    BY <1>2, <1>3 DEF TypeOK, GuardTypeOK, guardVars, configVars, closeVars

LEMMA ClicksHaveTypes ==
    ASSUME TypeOK, ClickStop \/ UserCloses \/ EditsConfig \/ DialogCloses
    PROVE  TypeOK'
<1>1. CASE ClickStop
    BY <1>1, StruckHasTypes
       DEF TypeOK, ChildTypeOK, GuardTypeOK, ClickStop, Stop, Times, None, guardVars, startVars,
           configVars, closeVars
<1>2. CASE UserCloses
    BY <1>2, StruckHasTypes
       DEF TypeOK, ChildTypeOK, GuardTypeOK, UserCloses, guardVars, runVars, startVars,
           configVars, closeVars, historyVars
<1>3. CASE EditsConfig \/ DialogCloses
    BY <1>3 DEF TypeOK, ChildTypeOK, GuardTypeOK, EditsConfig, DialogCloses, childVars, guardVars,
                runVars, startVars, configVars, closeVars, historyVars
<1> QED
    BY <1>1, <1>2, <1>3

LEMMA PollHasTypes ==
    ASSUME TypeOK, PollLogQueue
    PROVE  TypeOK'
<1> DEFINE st == IF Overdue THEN None ELSE stopAt
<1>1. /\ UNCHANGED <<reading, guardVars, app, autoStart, dialog, configVars, snapshots,
                     closeVars, historyVars>>
      /\ st \in Times
    BY DEF PollLogQueue, TypeOK, Times, None
<1>2. CASE logQ = <<>>
    BY <1>1, <1>2 DEF PollLogQueue, TypeOK, ChildTypeOK, GuardTypeOK, guardVars, configVars,
                      closeVars, historyVars
<1>3. CASE logQ # <<>>
  <2>1. PICK running : Finalize(st, running)
      BY <1>3 DEF PollLogQueue
  <2>2. ChildTypeOK'
    <3>1. logQ' = Tail(logQ) /\ child' = Dropped(Head(logQ))
        BY <1>3 DEF PollLogQueue
    <3>2. logQ' \in Seq(Children)
        BY <1>3, <3>1 DEF TypeOK, ChildTypeOK
    <3>3. child' \in [Children -> ChildStates]
        BY <3>1 DEF TypeOK, ChildTypeOK, Dropped, ChildStates
    <3> QED
        BY <1>1, <3>2, <3>3 DEF TypeOK, ChildTypeOK
  <2>3. recoveries' \in 0 .. RestartLimit
      BY <2>1 DEF TypeOK, Finalize, ShouldRecover
  <2>4. /\ proc' = NoChild /\ stopAt' = None /\ restartAfter' = FALSE /\ stopOn' = FALSE
        /\ startOn' \in BOOLEAN
        /\ due' \subseteq {"start", "recover"}
      BY <2>1 DEF TypeOK, Finalize, Schedules
  <2> QED
      BY <1>1, <2>2, <2>3, <2>4 DEF TypeOK, GuardTypeOK, Times, None, guardVars, configVars,
                                    closeVars, historyVars
<1> QED
    BY <1>2, <1>3

LEMMA SyncHasTypes ==
    ASSUME TypeOK, SyncExternalState
    PROVE  TypeOK'
<1>1. /\ edited' \in BOOLEAN /\ applyAt' \in Times /\ restartAfter' \in BOOLEAN
      /\ due' \subseteq {"start", "recover"}
    BY DEF SyncExternalState, SyncConfig, Changed, Applies, Schedules, TypeOK, Times, None
<1>2. /\ confirmed' \in Answers \cup {None} /\ seenOnce' \in BOOLEAN
      /\ closedAt' \in Times /\ deadline' \in Times
    BY RunningIsAnswer DEF SyncExternalState, SyncClient, TypeOK, Times, None
<1>3. child' \in [Children -> ChildStates] /\ stopAt' \in Times /\ stopOn' \in BOOLEAN
    BY StruckHasTypes DEF SyncExternalState, Stop, TypeOK, ChildTypeOK, Times, None
<1>4. GuardTypeOK' /\ app' \in {"open", "closed"} /\ snapshots' \subseteq Answers
    BY DEF SyncExternalState, Told, TypeOK, GuardTypeOK
<1>5. UNCHANGED <<reading, logQ, proc, recoveries, startOn, autoStart, dialog, world, ready,
                  historyVars>>
    BY DEF SyncExternalState
<1> QED
    BY <1>1, <1>2, <1>3, <1>4, <1>5 DEF TypeOK, ChildTypeOK, historyVars

LEMMA TimeHasTypes ==
    ASSUME TypeOK, GraceElapses \/ DebounceElapses \/ ExitGetsOld \/ CleanupTimesOut
    PROVE  TypeOK'
BY DEF TypeOK, ChildTypeOK, GuardTypeOK, Times, Passes, GraceElapses, DebounceElapses, ExitGetsOld,
       CleanupTimesOut, childVars, guardVars, runVars, startVars, configVars, closeVars,
       historyVars

LEMMA ChildHasTypes ==
    ASSUME TypeOK, NEW c \in Children, ChildSteps(c)
    PROVE  TypeOK'
<1>1. ChildTypeOK'
  <2>1. CASE Ends(c)
      BY <2>1 DEF TypeOK, ChildTypeOK, Ends, Gone, ChildStates, GoneStates
  <2>2. CASE Lingers(c)
      BY <2>2 DEF TypeOK, ChildTypeOK, Lingers, ChildStates, AliveStates
  <2>3. CASE ReadsEnd(c)
      BY <2>3 DEF TypeOK, ChildTypeOK, ReadsEnd
  <2> QED
      BY <2>1, <2>2, <2>3 DEF ChildSteps
<1>2. odd' \in BOOLEAN
    BY DEF TypeOK, ChildSteps
<1> QED
    BY <1>1, <1>2 DEF TypeOK, GuardTypeOK, ChildSteps, guardVars, guiVars, runVars, startVars,
                      configVars, closeVars

LEMMA WorldHasTypes ==
    ASSUME TypeOK, ClientSteps \/ \E i \in Looks : Publishes(i)
    PROVE  TypeOK'
<1>1. CASE ClientSteps
    BY <1>1 DEF TypeOK, ChildTypeOK, GuardTypeOK, ClientSteps, ClientStarts, ClientExits, childVars,
                guiVars, runVars, startVars, configVars, closeVars, historyVars
<1>2. CASE \E i \in Looks : Publishes(i)
  <2>1. snapshots' \subseteq Answers
      BY <1>2, PollAnswers DEF Publishes
  <2> QED
      BY <1>2, <2>1 DEF TypeOK, ChildTypeOK, GuardTypeOK, Publishes, Misses, childVars, runVars,
                        startVars, configVars, closeVars, historyVars
<1> QED
    BY <1>1, <1>2

LEMMA NextHasTypes == TypeOK /\ [Next]_vars => TypeOK'
<1>1. CASE UNCHANGED vars
    BY <1>1 DEF TypeOK, ChildTypeOK, GuardTypeOK, vars, childVars, guardVars, runVars, startVars,
                configVars, closeVars, historyVars
<1> QED
    BY <1>1, StartsHaveTypes, ClicksHaveTypes, PollHasTypes, SyncHasTypes, TimeHasTypes,
       ChildHasTypes, WorldHasTypes DEF Next

\* The state of the window, of the processes and of what it knows of the client stays
\* within its types, whatever happens; the count of recoveries stays within its limit.
THEOREM WindowHasTypes == Spec => []TypeOK
BY InitHasTypes, NextHasTypes, PTL DEF Spec

--------------------------------------------------------------------------------
(* The window and its process.  As long as nothing odd has happened, the   *)
(* end of the process is either still to be read, or in the queue, or      *)
(* noticed; the last is when self.proc is given up.                        *)

Accounted ==
    ~ odd =>
        /\ \A c \in AliveChildren : c = proc
        /\ \A c \in reading : c = proc
        /\ proc # NoChild => child[proc] # "free" /\ (proc \in reading \/ logQ = <<proc>>)
        /\ logQ # <<>> => /\ logQ = <<proc>> /\ reading = {}
                         /\ proc # NoChild /\ child[proc] \in GoneStates

LEMMA InitHasAccounted == Init => Accounted
BY DEF Init, ChildInit, Accounted, AliveChildren, AliveStates

\* A start that does not overtake the notice of an end finds nothing left of another process.
LEMMA StartKeepsAccounted ==
    ASSUME TypeOK, Accounted, NEW recover, Start(recover), odd' = (odd \/ Overtakes)
    PROVE  Accounted'
<1>1. CASE odd'
    BY <1>1 DEF Accounted
<1>2. CASE ~ odd' /\ (StartBlocked \/ StartUnready)
    BY <1>2 DEF TypeOK, Accounted, StartBlocked, StartUnready, childVars, runVars, AliveChildren
<1>3. CASE ~ odd' /\ StartLaunches(recover)
  <2>1. ~ odd /\ ~ Overtakes
      BY <1>3 DEF TypeOK
  <2>2. FreeChild \in Children /\ child[FreeChild] = "free" /\ proc' = FreeChild
      BY <1>3, FreeChildIsFree DEF StartLaunches, Launches
  <2>3. proc = NoChild
      BY <1>3, <2>1, <2>2 DEF Accounted, Overtakes, StartLaunches
  <2>4. AliveChildren = {} /\ reading = {} /\ logQ = <<>>
      BY <2>1, <2>3 DEF Accounted, TypeOK, ChildTypeOK, AliveChildren
  <2>5. /\ child' = [child EXCEPT ![FreeChild] = "running"] /\ reading' = {FreeChild}
        /\ logQ' = <<>>
      BY <1>3, <2>4 DEF StartLaunches, Launches
  <2>6. child'[FreeChild] = "running" /\ \A c \in AliveChildren' : c = FreeChild
      BY <2>2, <2>4, <2>5 DEF TypeOK, ChildTypeOK, AliveChildren
  <2> QED
      BY <2>2, <2>5, <2>6 DEF Accounted
<1>4. CASE ~ odd' /\ StartFails(recover)
  <2>1. ~ odd /\ ~ Overtakes
      BY <1>4 DEF TypeOK
  <2>2. proc = NoChild
      BY <1>4, <2>1 DEF Overtakes, StartFails
  <2> QED
      BY <1>4, <2>1, <2>2 DEF Accounted, StartFails, AliveChildren
<1> QED
    BY <1>1, <1>2, <1>3, <1>4 DEF Start

\* A process that is struck stays alive for a while, and stays the one that is known.
LEMMA StrikeKeepsAccounted ==
    ASSUME TypeOK, Accounted, child' \in {child} \cup {Struck(proc)}, child' = child \/ Alive(proc),
           UNCHANGED <<reading, logQ, proc, odd>>
    PROVE  Accounted'
<1>1. AliveChildren' = AliveChildren
    BY DEF TypeOK, ChildTypeOK, Alive, Struck, AliveChildren, AliveStates
<1>2. proc # NoChild => /\ child'[proc] = "free" <=> child[proc] = "free"
                        /\ child'[proc] \in GoneStates <=> child[proc] \in GoneStates
    BY DEF TypeOK, ChildTypeOK, Alive, Struck, AliveStates, GoneStates
<1> QED
    BY <1>1, <1>2 DEF Accounted

LEMMA PollKeepsAccounted ==
    ASSUME TypeOK, Accounted, PollLogQueue
    PROVE  Accounted'
<1>1. CASE logQ = <<>>
    BY <1>1 DEF PollLogQueue, Accounted, AliveChildren, historyVars
<1>2. CASE logQ # <<>> /\ ~ odd
  <2>1. logQ = <<proc>> /\ reading = {} /\ child[proc] \in GoneStates
      BY <1>2 DEF Accounted
  <2>2. AliveChildren = {}
      BY <1>2, <2>1 DEF Accounted, AliveChildren, AliveStates, GoneStates
  <2>3. logQ' = Tail(logQ) /\ child' = Dropped(Head(logQ)) /\ proc' = NoChild
      BY <1>2 DEF PollLogQueue, Finalize
  <2>4. logQ' = <<>> /\ reading' = {}
      BY <2>1, <2>3 DEF PollLogQueue
  <2>5. AliveChildren' = {}
      BY <2>1, <2>2, <2>3 DEF TypeOK, ChildTypeOK, Dropped, AliveChildren, AliveStates
  <2> QED
      BY <2>3, <2>4, <2>5 DEF Accounted
<1> QED
    BY <1>1, <1>2 DEF Accounted, PollLogQueue, historyVars

LEMMA ChildKeepsAccounted ==
    ASSUME TypeOK, Accounted, NEW c \in Children, ChildSteps(c)
    PROVE  Accounted'
<1> SUFFICES ASSUME ~ odd' PROVE Accounted'
    BY DEF Accounted
<1>1. ~ odd /\ child'[c] # "mute" /\ proc' = proc
    BY DEF ChildSteps, guiVars, runVars, TypeOK
<1>2. CASE Ends(c)
  <2>1. child[c] \in AliveStates /\ c = proc
      BY <1>1, <1>2 DEF Ends, Accounted, AliveChildren, AliveStates
  <2>2. ~ Forgotten(c)
      BY <1>1, <2>1 DEF Accounted, Forgotten
  <2>3. PICK how \in GoneStates : child' = [child EXCEPT ![c] = how]
      BY <1>2, <2>2 DEF Ends, Gone, GoneStates
  <2>4. UNCHANGED <<reading, logQ>>
      BY <1>2 DEF Ends
  <2>5. AliveChildren' = {}
      BY <1>1, <2>1, <2>3 DEF Accounted, TypeOK, ChildTypeOK, AliveChildren, AliveStates, GoneStates
  <2> QED
      BY <1>1, <2>1, <2>3, <2>4, <2>5 DEF Accounted, TypeOK, ChildTypeOK, GoneStates
<1>3. CASE Lingers(c)
    BY <1>1, <1>3 DEF Lingers, TypeOK, ChildTypeOK
<1>4. CASE ReadsEnd(c)
  <2>1. c = proc /\ logQ = <<>> /\ child[c] \in GoneStates
      BY <1>1, <1>4 DEF Accounted, ReadsEnd
  <2>2. logQ' = <<c>> /\ reading' = {} /\ child' = child
      BY <1>1, <1>4, <2>1 DEF Accounted, ReadsEnd, TypeOK, ChildTypeOK
  <2> QED
      BY <1>1, <2>1, <2>2 DEF Accounted, AliveChildren, AliveStates, GoneStates
<1> QED
    BY <1>2, <1>3, <1>4 DEF ChildSteps

\* Everything else leaves the processes, their ends and self.proc alone.
LEMMA RestKeepsAccounted ==
    ASSUME Accounted, UNCHANGED <<childVars, proc, odd>>
    PROVE  Accounted'
BY DEF Accounted, childVars, AliveChildren

LEMMA NextKeepsAccounted == TypeOK /\ Accounted /\ [Next]_vars => Accounted'
<1> SUFFICES ASSUME TypeOK, Accounted, [Next]_vars PROVE Accounted'
    OBVIOUS
<1>1. CASE ClickStart \/ \E kind \in {"start", "recover"} : StartIsDue(kind)
    BY <1>1, StartKeepsAccounted DEF ClickStart, StartIsDue
<1>2. CASE ClickStop \/ UserCloses \/ SyncExternalState
    BY <1>2, StrikeKeepsAccounted
       DEF ClickStop, UserCloses, SyncExternalState, Stop, runVars, historyVars
<1>3. CASE PollLogQueue
    BY <1>3, PollKeepsAccounted
<1>4. CASE \E c \in Children : ChildSteps(c)
    BY <1>4, ChildKeepsAccounted
<1>5. CASE EditsConfig \/ DialogCloses \/ (\E i \in Looks : Publishes(i)) \/ ClientSteps
    BY <1>5, RestKeepsAccounted
       DEF EditsConfig, DialogCloses, Publishes, ClientSteps, guiVars, runVars, historyVars
<1>6. CASE \/ GraceElapses \/ DebounceElapses \/ ExitGetsOld \/ CleanupTimesOut
           \/ UNCHANGED vars
    BY <1>6, RestKeepsAccounted
       DEF GraceElapses, DebounceElapses, ExitGetsOld, CleanupTimesOut, vars, childVars, runVars,
           historyVars
<1> QED
    BY <1>1, <1>2, <1>3, <1>4, <1>5, <1>6 DEF Next

LEMMA AccountedHolds == Spec => [](TypeOK /\ Accounted)
BY InitHasTypes, NextHasTypes, InitHasAccounted, NextKeepsAccounted, PTL DEF Spec

--------------------------------------------------------------------------------
(* The end of the window.                                                  *)

NoneOutlives == app = "closed" /\ ~ odd => \A c \in Children : child[c] # "running"

LEMMA InitNoneOutlives == Init => NoneOutlives
BY DEF Init, NoneOutlives

LEMMA NextNoneOutlives ==
    TypeOK /\ TypeOK' /\ Accounted /\ NoneOutlives /\ [Next]_vars => NoneOutlives'
<1> SUFFICES ASSUME TypeOK, TypeOK', Accounted, NoneOutlives, [Next]_vars,
                    app' = "closed", ~ odd'
             PROVE  \A c \in Children : child'[c] # "running"
    BY DEF NoneOutlives
\* Closing strikes the one process that may be running.
<1>1. CASE UserCloses \/ (SyncExternalState /\ app = "open")
  <2>1. ~ odd
      BY <1>1 DEF UserCloses, SyncExternalState, historyVars
  <2>2. \A c \in Children : child[c] = "running" => c = proc /\ Alive(proc)
      BY <2>1 DEF Accounted, AliveChildren, Alive, AliveStates, TypeOK
  <2>3. IF Alive(proc) THEN child' = Struck(proc) ELSE child' = child
      BY <1>1 DEF UserCloses, SyncExternalState, Stop, TypeOK
  <2> QED
      BY <2>2, <2>3 DEF Struck, TypeOK, ChildTypeOK
\* After that nothing is started.
<1>2. CASE ~ UserCloses /\ ~ SyncExternalState
  <2>1. app = "closed"
      BY <1>2 DEF Next, ClickStart, ClickStop, EditsConfig, DialogCloses, PollLogQueue, StartIsDue,
                  Publishes, GraceElapses, DebounceElapses, ExitGetsOld, CleanupTimesOut, ChildSteps,
                  ClientSteps, guiVars, vars, UserActs
  <2>2. CASE UNCHANGED vars
      BY <2>1, <2>2 DEF NoneOutlives, vars, childVars, historyVars
  <2>3. ASSUME NEW c \in Children, ChildSteps(c)
        PROVE  \A d \in Children : child'[d] # "running"
    <3>1. \A d \in Children : child[d] # "running"
        BY <2>1, <2>3 DEF NoneOutlives, ChildSteps, TypeOK
    <3> QED
        BY <2>1, <2>3, <3>1
           DEF TypeOK, ChildTypeOK, ChildSteps, Ends, Lingers, Gone, GoneStates
  <2> QED
      BY <1>2, <2>1, <2>2, <2>3
         DEF Next, ClickStart, ClickStop, EditsConfig, DialogCloses, PollLogQueue, StartIsDue,
             Publishes, GraceElapses, DebounceElapses, ExitGetsOld, CleanupTimesOut, ClientSteps,
             UserActs
<1> QED
    BY <1>1, <1>2 DEF Next, SyncExternalState

\* A process that runs is the one that the window knows, and none runs on that the window
\* has not struck, unless an output ended before its process did or a start overtook the
\* notice of an end.  (start, _finalize_process, _on_close)
THEOREM NoProcessIsLost == Spec => []NoOrphan
<1>1. Accounted /\ NoneOutlives => NoOrphan
    BY DEF Accounted, NoneOutlives, NoOrphan, AliveChildren
<1> QED
    BY <1>1, AccountedHolds, InitNoneOutlives, NextNoneOutlives, PTL DEF Spec

--------------------------------------------------------------------------------
(* Start can be clicked, or something is on its way.                       *)

Unstuck ==
    "faults" \notin world =>
        startOn \/ autoStart \/ proc # NoChild \/ dialog \/ due # {}

LEMMA InitUnstuck == Init => Unstuck
BY DEF Init, Unstuck

LEMMA StartKeepsUnstuck ==
    ASSUME TypeOK, Unstuck, NEW kind, due' = due \ {kind}, Start(kind = "recover"),
           world' = world
    PROVE  Unstuck'
<1>1. CASE StartBlocked
    BY <1>1 DEF Unstuck, StartBlocked, Alive, runVars
<1>2. CASE StartUnready
    BY <1>2 DEF Unstuck, StartUnready
<1>3. CASE StartLaunches(kind = "recover")
  <2>1. proc' \in Children
      BY <1>3, FreeChildIsFree DEF StartLaunches, Launches
  <2> QED
      BY <2>1 DEF Unstuck
<1>4. CASE StartFails(kind = "recover")
    BY <1>4 DEF Unstuck, StartFails
<1> QED
    BY <1>1, <1>2, <1>3, <1>4 DEF Start

LEMMA ClickKeepsUnstuck ==
    ASSUME TypeOK, Unstuck, ClickStart
    PROVE  Unstuck'
<1>1. world' = world /\ due' = due /\ startOn
    BY DEF ClickStart, configVars
<1>2. CASE StartBlocked \/ StartUnready \/ StartFails(FALSE)
    BY <1>1, <1>2 DEF Unstuck, StartBlocked, StartUnready, StartFails, runVars
<1>3. CASE StartLaunches(FALSE)
  <2>1. proc' \in Children
      BY <1>3, FreeChildIsFree DEF StartLaunches, Launches
  <2> QED
      BY <2>1 DEF Unstuck
<1> QED
    BY <1>2, <1>3 DEF ClickStart, Start

LEMMA PollKeepsUnstuck ==
    ASSUME TypeOK, Unstuck, PollLogQueue
    PROVE  Unstuck'
<1>1. world' = world /\ autoStart' = autoStart /\ dialog' = dialog
    BY DEF PollLogQueue, configVars
<1>2. CASE logQ = <<>>
    BY <1>1, <1>2 DEF PollLogQueue, Unstuck
<1>3. CASE logQ # <<>>
  <2>1. PICK st, running : Finalize(st, running)
      BY <1>3 DEF PollLogQueue
  <2>2. startOn' \/ due' # {}
      BY <2>1 DEF Finalize, Schedules
  <2> QED
      BY <2>2 DEF Unstuck
<1> QED
    BY <1>2, <1>3

LEMMA NextKeepsUnstuck == TypeOK /\ TypeOK' /\ Unstuck /\ [Next]_vars => Unstuck'
<1> SUFFICES ASSUME TypeOK, TypeOK', Unstuck, [Next]_vars PROVE Unstuck'
    OBVIOUS
<1>1. CASE ClickStart \/ PollLogQueue
    BY <1>1, ClickKeepsUnstuck, PollKeepsUnstuck
<1>2. ASSUME NEW kind \in {"start", "recover"}, StartIsDue(kind)
      PROVE  Unstuck'
    BY <1>2, StartKeepsUnstuck DEF StartIsDue, configVars
<1>3. CASE DialogCloses
    BY <1>3 DEF Unstuck, DialogCloses
<1>4. CASE SyncExternalState
  <2>1. due \subseteq due'
      BY <1>4 DEF SyncExternalState, SyncConfig, Schedules
  <2> QED
      BY <1>4, <2>1 DEF Unstuck, SyncExternalState
<1>5. CASE ClickStop \/ UserCloses \/ EditsConfig \/ ClientSteps \/ (\E i \in Looks : Publishes(i))
    BY <1>5 DEF Unstuck, ClickStop, UserCloses, EditsConfig, ClientSteps, Publishes, guiVars, runVars,
                startVars, configVars
<1>6. CASE \/ GraceElapses \/ DebounceElapses \/ ExitGetsOld \/ CleanupTimesOut
           \/ (\E c \in Children : ChildSteps(c)) \/ UNCHANGED vars
    BY <1>6 DEF Unstuck, GraceElapses, DebounceElapses, ExitGetsOld, CleanupTimesOut, ChildSteps,
                vars, guiVars, runVars, startVars, configVars
<1> QED
    BY <1>1, <1>2, <1>3, <1>4, <1>5, <1>6 DEF Next

\* With nothing running and nothing on its way, Start can be clicked, or the next change of
\* the configuration starts the process, as long as Popen succeeds.  (_finalize_process)
THEOREM WindowIsNeverStuck == Spec => []NeverStuck
<1>1. TypeOK /\ Unstuck => NeverStuck
    BY DEF Unstuck, NeverStuck, Idle
<1>2. Spec => []Unstuck
    BY WindowHasTypes, InitUnstuck, NextKeepsUnstuck, PTL DEF Spec
<1> QED
    BY <1>1, <1>2, WindowHasTypes, PTL

--------------------------------------------------------------------------------
(* A Stop stands.  Where the configuration stays as it is and processes    *)
(* end in time, a start that is on its way goes back to a click on Start:  *)
(* only the end of a process that nobody has stopped puts one there.       *)

Quiet == world \cap {"edits", "faults"} = {}

Calm ==
    Quiet =>
        /\ ~ odd /\ ~ edited /\ applyAt = None /\ ~ restartAfter /\ stopAt # "due"
        /\ \A c \in Children : child[c] # "mute"
        /\ startOn => proc = NoChild /\ due = {}
        /\ due # {} => proc = NoChild /\ due = {"recover"} /\ wish = "start"
        /\ wish = "stop" => proc = NoChild \/ stopAt # None

LEMMA InitCalm == Init => Calm
BY DEF Init, ChildInit, Calm, None

LEMMA StartKeepsCalm ==
    ASSUME TypeOK, Calm, Quiet, NEW recover, Start(recover), proc = NoChild, world' = world,
           UNCHANGED <<edited, applyAt>>, odd' = (odd \/ Overtakes), wish' = "start",
           due' \subseteq due, startOn => due = {}, due = {} \/ due' = {}
    PROVE  Calm'
<1>1. ~ odd /\ ~ Overtakes /\ ~ edited /\ applyAt = None /\ ~ restartAfter /\ stopAt # "due"
      /\ \A c \in Children : child[c] # "mute"
    BY DEF Calm, Overtakes
<1>2. ~ odd'
    BY <1>1
<1>3. CASE StartBlocked \/ StartUnready
    BY <1>1, <1>2, <1>3 DEF Calm, StartBlocked, StartUnready, childVars, runVars
<1>4. CASE StartLaunches(recover)
  <2>1. \A c \in Children : child'[c] # "mute"
      BY <1>1, <1>4 DEF StartLaunches, Launches, TypeOK, ChildTypeOK
  <2>2. due' = {} /\ startOn' = FALSE /\ restartAfter' = FALSE /\ stopAt' = None
      BY <1>4 DEF StartLaunches
  <2> QED
      BY <1>1, <1>2, <2>1, <2>2 DEF Calm, None
<1>5. CASE StartFails(recover)
    BY <1>5 DEF StartFails, Quiet
<1> QED
    BY <1>3, <1>4, <1>5 DEF Start

\* A recovery is scheduled for a process that nobody has stopped.
LEMMA PollKeepsCalm ==
    ASSUME TypeOK, Accounted, Calm, Quiet, PollLogQueue
    PROVE  Calm'
<1>1. /\ ~ odd' /\ ~ edited' /\ applyAt' = None /\ wish' = wish /\ ~ Overdue
      /\ logQ # <<>>
    BY DEF PollLogQueue, Calm, Overdue, configVars, historyVars
<1>2. proc # NoChild /\ due = {} /\ ~ startOn /\ ~ restartAfter
    BY <1>1 DEF Accounted, Calm
<1>3. PICK running : Finalize(stopAt, running)
    BY <1>1 DEF PollLogQueue
<1>4. proc' = NoChild /\ stopAt' = None /\ restartAfter' = FALSE
    BY <1>3 DEF Finalize
<1>5. \A c \in Children : child'[c] # "mute"
  <2>1. child' = Dropped(Head(logQ))
      BY <1>1 DEF PollLogQueue
  <2> QED
      BY <2>1 DEF Calm, Dropped, TypeOK, ChildTypeOK
<1>6. CASE ShouldRecover(stopAt # None, running)
  <2>1. stopAt = None /\ wish = "start"
      BY <1>2, <1>6 DEF ShouldRecover, Calm, TypeOK
  <2>2. due' = {"recover"} /\ startOn' = FALSE
      BY <1>2, <1>3, <1>6 DEF Finalize, Schedules
  <2> QED
      BY <1>1, <1>4, <1>5, <2>1, <2>2 DEF Calm, None
<1>7. CASE ~ ShouldRecover(stopAt # None, running)
  <2>1. due' = {}
      BY <1>2, <1>3, <1>7 DEF Finalize
  <2> QED
      BY <1>1, <1>4, <1>5, <2>1 DEF Calm, None
<1> QED
    BY <1>6, <1>7

LEMMA StopKeepsCalm ==
    ASSUME TypeOK, Calm, Quiet, ClickStop
    PROVE  Calm'
<1>1. UNCHANGED <<edited, applyAt, odd, proc, restartAfter, due, startOn>>
    BY DEF ClickStop, startVars, configVars
<1>2. CASE Alive(proc)
  <2>1. stopAt' = "waiting" /\ wish' = "stop" /\ proc # NoChild
      BY <1>2 DEF ClickStop, Stop, Alive
  <2>2. \A c \in Children : child'[c] # "mute"
      BY <1>2 DEF ClickStop, Stop, Struck, Calm, TypeOK, ChildTypeOK
  <2> QED
      BY <1>1, <2>1, <2>2 DEF Calm, None
<1>3. CASE ~ Alive(proc)
    BY <1>1, <1>3 DEF ClickStop, Stop, Calm
<1> QED
    BY <1>2, <1>3

LEMMA SyncKeepsCalm ==
    ASSUME TypeOK, Calm, Quiet, SyncExternalState
    PROVE  Calm'
<1>1. ~ Changed /\ ~ Applies
    BY DEF Calm, Changed, Applies, None
<1>2. UNCHANGED <<applyAt, due, stopAt, proc, startOn, wish, odd>> /\ ~ edited' /\ ~ restartAfter'
    BY <1>1 DEF SyncExternalState, SyncConfig, Calm, historyVars
<1>3. \A c \in Children : child'[c] # "mute"
    BY <1>1 DEF SyncExternalState, Struck, Calm, TypeOK, ChildTypeOK
<1> QED
    BY <1>2, <1>3 DEF Calm

LEMMA NextKeepsCalm ==
    TypeOK /\ Accounted /\ Calm /\ [Next]_vars => Calm'
<1> SUFFICES ASSUME TypeOK, Accounted, Calm, [Next]_vars, Quiet' PROVE Calm'
    BY DEF Calm
<1>1. world' = world
    BY DEF Next, ClickStart, ClickStop, UserCloses, EditsConfig, DialogCloses, PollLogQueue,
           SyncExternalState, StartIsDue, Publishes, GraceElapses, DebounceElapses, ExitGetsOld,
           CleanupTimesOut, ChildSteps, ClientSteps, guiVars, configVars, vars
<1>2. Quiet
    BY <1>1 DEF Quiet
<1>3. CASE ClickStart
    BY <1>1, <1>2, <1>3, StartKeepsCalm DEF Calm, ClickStart, configVars
<1>4. ASSUME NEW kind \in {"start", "recover"}, StartIsDue(kind)
      PROVE  Calm'
  <2>1. due = {"recover"} /\ due' = {} /\ proc = NoChild /\ wish' = "start"
      BY <1>2, <1>4 DEF StartIsDue, Calm
  <2> QED
      BY <1>1, <1>2, <1>4, <2>1, StartKeepsCalm DEF Calm, StartIsDue, configVars
<1>5. CASE ClickStop \/ PollLogQueue \/ SyncExternalState
    BY <1>2, <1>5, StopKeepsCalm, PollKeepsCalm, SyncKeepsCalm
<1>6. CASE UserCloses
  <2>1. \A c \in Children : child'[c] # "mute"
      BY <1>2, <1>6 DEF UserCloses, Struck, Calm, TypeOK, ChildTypeOK
  <2> QED
      BY <1>2, <1>6, <2>1 DEF Calm, UserCloses, runVars, startVars, configVars, historyVars
<1>7. ASSUME NEW c \in Children, ChildSteps(c)
      PROVE  Calm'
  <2>1. \A d \in Children : child'[d] # "mute"
      BY <1>2, <1>7 DEF ChildSteps, Ends, Gone, GoneStates, ReadsEnd, Calm, Quiet, TypeOK, ChildTypeOK
  <2>2. ~ odd'
      BY <1>2, <1>7, <2>1 DEF ChildSteps, Calm
  <2> QED
      BY <1>2, <1>7, <2>1, <2>2 DEF Calm, ChildSteps, guiVars, runVars, startVars, configVars
<1>8. CASE DialogCloses \/ ExitGetsOld \/ CleanupTimesOut \/ ClientSteps
           \/ (\E i \in Looks : Publishes(i)) \/ UNCHANGED vars
    BY <1>2, <1>8 DEF Calm, DialogCloses, ExitGetsOld, CleanupTimesOut, ClientSteps, Publishes,
                      vars, childVars, guiVars, runVars, startVars, configVars, historyVars
<1>9. CASE EditsConfig \/ GraceElapses \/ DebounceElapses
    BY <1>2, <1>9 DEF Calm, Quiet, EditsConfig, GraceElapses, DebounceElapses, Passes, None
<1> QED
    BY <1>3, <1>4, <1>5, <1>6, <1>7, <1>8, <1>9 DEF Next

LEMMA OnlyStartBegins ==
    ASSUME TypeOK, [Next]_vars, Begins
    PROVE  ClickStart \/ \E kind \in {"start", "recover"} : StartIsDue(kind)
<1>1. CASE ClickStop \/ UserCloses \/ SyncExternalState
    BY <1>1 DEF ClickStop, UserCloses, SyncExternalState, Stop, Struck, Begins, TypeOK, ChildTypeOK
<1>2. CASE PollLogQueue
    BY <1>2 DEF PollLogQueue, Dropped, Begins, TypeOK, ChildTypeOK
<1>3. ASSUME NEW c \in Children, ChildSteps(c)
      PROVE  FALSE
    BY <1>3 DEF ChildSteps, Ends, Gone, Lingers, ReadsEnd, GoneStates, Begins, TypeOK, ChildTypeOK
<1>4. CASE EditsConfig \/ DialogCloses \/ (\E i \in Looks : Publishes(i)) \/ ClientSteps
    BY <1>4 DEF EditsConfig, DialogCloses, Publishes, ClientSteps, childVars, Begins
<1>5. CASE \/ GraceElapses \/ DebounceElapses \/ ExitGetsOld \/ CleanupTimesOut
           \/ UNCHANGED vars
    BY <1>5 DEF GraceElapses, DebounceElapses, ExitGetsOld, CleanupTimesOut, vars, childVars, Begins
<1> QED
    BY <1>1, <1>2, <1>3, <1>4, <1>5 DEF Next

LEMMA BeginsAfterStart ==
    ASSUME TypeOK, Calm, Quiet, [Next]_vars, Begins
    PROVE  wish' = "start"
<1>1. ASSUME NEW kind \in {"start", "recover"}, StartIsDue(kind)
      PROVE  wish' = "start"
    BY <1>1 DEF StartIsDue, Calm
<1> QED
    BY <1>1, OnlyStartBegins DEF ClickStart

\* A Stop that reaches a running process stands until the user clicks Start, as long as the
\* configuration stays as it is and the process is gone in time.  (_finalize_process_exit)
THEOREM StopsStand == Spec => StopStands
<1>1. Spec => []Calm
    BY AccountedHolds, InitCalm, NextKeepsCalm, PTL DEF Spec
<1>2. TypeOK /\ Calm /\ [Next]_vars
        => [Begins /\ world \cap {"edits", "faults"} = {} => wish' = "start"]_vars
    BY BeginsAfterStart DEF Quiet
<1> QED
    BY <1>1, <1>2, WindowHasTypes, PTL DEF Spec, StopStands

--------------------------------------------------------------------------------
(* The exit of the client.  While the client of which the window was told  *)
(* is there and has not been passed over, nothing that the window holds    *)
(* says that it is not there.                                              *)

ToldTruly ==
    sight = "there" => league /\ snapshots \subseteq {"yes", Unknown} /\ confirmed # "no"

LEMMA InitToldTruly == Init => ToldTruly
BY DEF Init, GuardInit, ToldTruly

LEMMA LooksAreInspections == Looks \subseteq Inspections
<1>1. Conclusive \in Inspections
    BY DEF Inspections, Conclusive
<1> QED
    BY <1>1 DEF Looks

\* A client that runs is found, or the inspection has no result, or passes over it.
LEMMA NoMeansGone ==
    ASSUME NEW i \in Looks, league, ~ PassesOver(i)
    PROVE  PollIsRunning(i) \in {"yes", Unknown}
<1>1. i.client \in {"identified", "refused", "nameless"} /\ {i.completed, i.others} \subseteq BOOLEAN
    BY LooksAreInspections DEF Inspections
<1> QED
    BY <1>1 DEF PollIsRunning, Found, Incomplete, PassesOver

LEMMA RunningIsNotNo ==
    ASSUME ToldTruly, sight = "there"
    PROVE  Running # "no"
<1>1. CASE snapshots \subseteq {Unknown}
    BY <1>1 DEF ToldTruly, Running, Unknown
<1>2. CASE ~ (snapshots \subseteq {Unknown})
  <2>1. \E a \in snapshots : TRUE
      BY <1>2
  <2>2. (CHOOSE a \in snapshots : TRUE) \in {"yes", Unknown}
      BY <2>1 DEF ToldTruly
  <2> QED
      BY <1>2, <2>2 DEF Running, Unknown
<1> QED
    BY <1>1, <1>2

LEMMA NextToldTruly == TypeOK /\ ToldTruly /\ [Next]_vars => ToldTruly'
<1> SUFFICES ASSUME TypeOK, ToldTruly, [Next]_vars PROVE ToldTruly'
    OBVIOUS
<1>1. CASE SyncExternalState
  <2>1. snapshots' = {} /\ league' = league /\ confirmed' = Running
      BY <1>1 DEF SyncExternalState, SyncClient
  <2>2. CASE snapshots = {"yes"}
    <3>1. Running = "yes"
        BY <2>2 DEF Running, Unknown
    <3> QED
        BY <1>1, <2>1, <2>2, <3>1 DEF SyncExternalState, Told, ToldTruly
  <2>3. CASE snapshots # {"yes"}
    <3>1. sight' = sight
        BY <1>1, <2>3 DEF SyncExternalState
    <3> QED
        BY <2>1, <3>1, RunningIsNotNo DEF ToldTruly
  <2> QED
      BY <2>2, <2>3
<1>2. ASSUME NEW i \in Looks, Publishes(i)
      PROVE  ToldTruly'
    BY <1>2, NoMeansGone DEF Publishes, Misses, ToldTruly, closeVars
<1>3. CASE ClientSteps
    BY <1>3 DEF ClientSteps, ClientStarts, ClientExits, ToldTruly, guiVars, closeVars
<1>4. CASE ClickStart \/ ClickStop \/ UserCloses \/ EditsConfig \/ DialogCloses \/ PollLogQueue
    BY <1>4 DEF ClickStart, ClickStop, UserCloses, EditsConfig, DialogCloses, PollLogQueue,
                ToldTruly, guardVars, closeVars
<1>5. CASE \/ \E kind \in {"start", "recover"} : StartIsDue(kind)
           \/ \E c \in Children : ChildSteps(c)
    BY <1>5 DEF StartIsDue, ChildSteps, guiVars, ToldTruly, guardVars, closeVars
<1>6. CASE GraceElapses \/ DebounceElapses \/ ExitGetsOld \/ CleanupTimesOut \/ UNCHANGED vars
    BY <1>6 DEF GraceElapses, DebounceElapses, ExitGetsOld, CleanupTimesOut, vars, ToldTruly,
                guardVars, closeVars
<1> QED
    BY <1>1, <1>2, <1>3, <1>4, <1>5, <1>6 DEF Next

\* A window that has been told that the client runs closes by itself only after the client
\* has exited, or an inspection has passed over a client without a name; no list or file that
\* cannot be read has it close.  (poll_is_running, _sync_external_state)
THEOREM ExitsAreReal == Spec => ClosesAfterExitOnceTold
<1>1. Spec => []ToldTruly
    BY WindowHasTypes, InitToldTruly, NextToldTruly, PTL DEF Spec
<1>2. ToldTruly /\ [Next]_vars => [SelfClose => sight' # "there"]_vars
  <2> SUFFICES ASSUME ToldTruly, SelfClose, sight' = "there" PROVE FALSE
      OBVIOUS
  <2>1. SyncExternalState /\ Running = "no"
      BY DEF SelfClose, Closes, ExitIsOld
  <2>2. snapshots # {"yes"}
      BY <2>1 DEF Running, Unknown
  <2> QED
      BY <2>1, <2>2, RunningIsNotNo DEF SyncExternalState
<1> QED
    BY <1>1, <1>2, PTL DEF Spec, ClosesAfterExitOnceTold

--------------------------------------------------------------------------------
(* The starts that the window makes by itself.  Each thing that may become *)
(* one is counted.                                                         *)

Noticed    == IF edited THEN 1 ELSE 0
Applying   == IF applyAt # None THEN 1 ELSE 0
Restarting == IF restartAfter THEN 1 ELSE 0
Starting   == IF "start" \in due THEN 1 ELSE 0
Recovering == IF "recover" \in due THEN 1 ELSE 0

\* Starts that are planned, and recoveries that are left, one that is under way included.
PlannedOf(noticed, applying, restarting, starting) ==
    noticed + applying + restarting + starting
SpareOf(used, recovering) == (RestartLimit - used) + recovering

Planned == PlannedOf(Noticed, Applying, Restarting, Starting)
Spare   == SpareOf(recoveries, Recovering)

\* How many processes the window can still start before the user does something: a planned
\* start makes all recoveries possible again.
Allowance == (RestartLimit + 1) * Planned + Spare

LEMMA PlansCompare ==
    \A n, a, r, s, n1, a1, r1, s1 \in 0 .. 1 :
        /\ n1 + a1 + r1 + s1 <= n + a + r + s => PlannedOf(n1, a1, r1, s1) <= PlannedOf(n, a, r, s)
        /\ n1 + a1 + r1 + s1 < n + a + r + s => PlannedOf(n1, a1, r1, s1) < PlannedOf(n, a, r, s)
BY DEF PlannedOf

LEMMA SparesCompare ==
    \A k, k1 \in 0 .. RestartLimit, c, c1 \in 0 .. 1 :
        /\ k1 = k /\ c1 <= c => SpareOf(k1, c1) <= SpareOf(k, c)
        /\ k1 = k /\ c1 < c => SpareOf(k1, c1) < SpareOf(k, c)
        /\ c1 <= c => SpareOf(k1, c1) <= SpareOf(k, c) + RestartLimit
        /\ k1 = k + 1 => SpareOf(k1, c1) <= SpareOf(k, c)
BY DEF SpareOf

LEMMA CountsAreSmall ==
    /\ Noticed \in 0 .. 1 /\ Applying \in 0 .. 1 /\ Restarting \in 0 .. 1
    /\ Starting \in 0 .. 1 /\ Recovering \in 0 .. 1
BY DEF Noticed, Applying, Restarting, Starting, Recovering

LEMMA CountsStaySmall ==
    /\ Noticed' \in 0 .. 1 /\ Applying' \in 0 .. 1 /\ Restarting' \in 0 .. 1
    /\ Starting' \in 0 .. 1 /\ Recovering' \in 0 .. 1
BY DEF Noticed, Applying, Restarting, Starting, Recovering

LEMMA Weighs ==
    ASSUME NEW p \in 0 .. 4, NEW q \in 0 .. 4
    PROVE  /\ (RestartLimit + 1) * p \in Nat
           /\ p <= q => (RestartLimit + 1) * p <= (RestartLimit + 1) * q
           /\ p < q => (RestartLimit + 1) * p + RestartLimit + 1 <= (RestartLimit + 1) * q
<1>1. \A n \in 0 .. 4 : n = 0 \/ n = 1 \/ n = 2 \/ n = 3 \/ n = 4
    OBVIOUS
<1> QED
    BY <1>1

LEMMA TokensHaveTypes == TypeOK => Planned \in 0 .. 4 /\ Spare \in 0 .. RestartLimit + 1
<1> SUFFICES ASSUME TypeOK PROVE Planned \in 0 .. 4 /\ Spare \in 0 .. RestartLimit + 1
    OBVIOUS
<1>1. recoveries \in 0 .. RestartLimit
    BY DEF TypeOK
<1> QED
    BY <1>1, CountsAreSmall DEF Planned, PlannedOf, Spare, SpareOf

LEMMA TokensWillHaveTypes ==
    TypeOK' => (Planned \in 0 .. 4 /\ Spare \in 0 .. RestartLimit + 1)'
BY TokensHaveTypes, PTL

LEMMA AllowanceIsNumber ==
    TypeOK => Allowance \in 0 .. 5 * (RestartLimit + 1)
<1> SUFFICES ASSUME TypeOK PROVE Allowance \in 0 .. 5 * (RestartLimit + 1)
    OBVIOUS
<1>1. \A n \in 0 .. 4 : n = 0 \/ n = 1 \/ n = 2 \/ n = 3 \/ n = 4
    OBVIOUS
<1> QED
    BY <1>1, TokensHaveTypes DEF Allowance

LEMMA AllowanceStaysNumber ==
    TypeOK' => (Allowance \in 0 .. 5 * (RestartLimit + 1))'
BY AllowanceIsNumber, PTL

LEMMA AllowanceFalls ==
    ASSUME TypeOK, TypeOK'
    PROVE  /\ Planned' <= Planned /\ Spare' <= Spare => Allowance' <= Allowance
           /\ Planned' <= Planned /\ Spare' < Spare => Allowance' < Allowance
           /\ Planned' < Planned /\ Spare' <= Spare + RestartLimit => Allowance' < Allowance
<1>1. /\ Planned \in 0 .. 4 /\ Spare \in 0 .. RestartLimit + 1
      /\ Planned' \in 0 .. 4 /\ Spare' \in 0 .. RestartLimit + 1
  <2>1. Planned \in 0 .. 4 /\ Spare \in 0 .. RestartLimit + 1
      BY TokensHaveTypes
  <2>2. Planned' \in 0 .. 4 /\ Spare' \in 0 .. RestartLimit + 1
      BY TokensWillHaveTypes
  <2> QED
      BY <2>1, <2>2
<1> DEFINE p == Planned
           q == Planned'
           W(n) == (RestartLimit + 1) * n
<1>2. W(p) \in Nat /\ W(q) \in Nat /\ (q <= p => W(q) <= W(p))
      /\ (q < p => W(q) + RestartLimit + 1 <= W(p))
    BY <1>1, Weighs
<1>3. Allowance = W(p) + Spare /\ Allowance' = W(q) + Spare'
    BY DEF Allowance
<1> HIDE DEF W
<1> QED
    BY <1>1, <1>2, <1>3

LEMMA PlansDecide ==
    ASSUME TypeOK, TypeOK', recoveries' = recoveries, Recovering' = Recovering,
           Planned' <= Planned
    PROVE  Allowance' <= Allowance
<1>1. Spare' <= Spare
    BY CountsAreSmall, SparesCompare DEF Spare, TypeOK
<1> QED
    BY <1>1, AllowanceFalls

\* Whatever start does, the token of its callback is gone, and only a start that was planned
\* makes recoveries possible again.
LEMMA DueStartSpends ==
    ASSUME TypeOK, TypeOK', NEW kind \in {"start", "recover"}, StartIsDue(kind)
    PROVE  Allowance' < Allowance
<1>1. edited' = edited /\ applyAt' = applyAt /\ due' = due \ {kind} /\ kind \in due
    BY DEF StartIsDue, configVars
<1>2. Noticed' = Noticed /\ Applying' = Applying
    BY <1>1 DEF Noticed, Applying
<1>3. restartAfter' => restartAfter
    BY DEF StartIsDue, Start, StartBlocked, StartUnready, StartLaunches, StartFails, runVars
<1>4. Restarting' <= Restarting
    BY <1>3 DEF Restarting
<1>5. recoveries \in 0 .. RestartLimit /\ recoveries' \in 0 .. RestartLimit
    BY DEF TypeOK
<1>6. CASE kind = "start"
  <2>1. Starting' = 0 /\ Starting = 1 /\ Recovering' = Recovering
      BY <1>1, <1>6 DEF Starting, Recovering
  <2>2. Planned' < Planned
      BY <1>2, <1>4, <2>1, CountsAreSmall, CountsStaySmall, PlansCompare DEF Planned
  <2>3. Spare' <= Spare + RestartLimit
      BY <1>5, <2>1, CountsAreSmall, CountsStaySmall, SparesCompare DEF Spare
  <2> QED
      BY <2>2, <2>3, AllowanceFalls
<1>7. CASE kind = "recover"
  <2>1. Recovering' = 0 /\ Recovering = 1 /\ Starting' = Starting
      BY <1>1, <1>7 DEF Starting, Recovering
  <2>2. recoveries' = recoveries
      BY <1>7 DEF StartIsDue, Start, StartBlocked, StartUnready, StartLaunches, StartFails,
                  runVars, CountAfterStart
  <2>3. Planned' <= Planned
      BY <1>2, <1>4, <2>1, CountsAreSmall, CountsStaySmall, PlansCompare DEF Planned
  <2>4. Spare' < Spare
      BY <1>5, <2>1, <2>2, CountsAreSmall, SparesCompare DEF Spare
  <2> QED
      BY <2>3, <2>4, AllowanceFalls
<1> QED
    BY <1>6, <1>7

\* A planned restart becomes the callback of its start, a recovery the callback of its own.
LEMMA EndSpendsNothing ==
    ASSUME TypeOK, TypeOK', NEW st, NEW running, Finalize(st, running),
           Noticed' = Noticed, Applying' = Applying
    PROVE  Allowance' <= Allowance
<1>1. ~ restartAfter'
    BY DEF Finalize
<1>2. Restarting' = 0
    BY <1>1 DEF Restarting
<1>3. CASE restartAfter
  <2>1. recoveries' = recoveries /\ due' = due \cup {"start"}
      BY <1>3 DEF Finalize, ShouldRecover, Schedules
  <2>2. Restarting = 1 /\ Starting' = 1 /\ Recovering' = Recovering
      BY <1>3, <2>1 DEF Restarting, Starting, Recovering
  <2>3. Planned' <= Planned
      BY <1>2, <2>1, <2>2, CountsAreSmall, CountsStaySmall, PlansCompare DEF Planned
  <2> QED
      BY <1>2, <2>1, <2>2, <2>3, PlansDecide
<1>4. CASE ~ restartAfter /\ ShouldRecover(st # None, running)
  <2>1. recoveries' = recoveries + 1 /\ due' = due \cup {"recover"}
      BY <1>4 DEF Finalize, Schedules
  <2>2. Restarting = 0 /\ Starting' = Starting /\ Recovering' = 1
      BY <1>4, <2>1 DEF Restarting, Starting, Recovering
  <2>3. Planned' <= Planned
      BY <1>2, <2>2, CountsAreSmall, PlansCompare DEF Planned
  <2>4. Spare' <= Spare
      BY <2>1, <2>2, CountsAreSmall, SparesCompare DEF Spare, TypeOK
  <2> QED
      BY <2>3, <2>4, AllowanceFalls
<1>5. CASE ~ restartAfter /\ ~ ShouldRecover(st # None, running)
  <2>1. recoveries' = recoveries /\ due' = due
      BY <1>5 DEF Finalize
  <2>2. Starting' = Starting /\ Recovering' = Recovering
      BY <2>1 DEF Starting, Recovering
  <2>3. Planned' <= Planned
      BY <1>2, <2>1, <2>2, CountsAreSmall, CountsStaySmall, PlansCompare DEF Planned
  <2> QED
      BY <1>2, <2>1, <2>2, <2>3, PlansDecide
<1> QED
    BY <1>3, <1>4, <1>5

LEMMA PollSpendsNothing ==
    ASSUME TypeOK, TypeOK', PollLogQueue
    PROVE  Allowance' <= Allowance
<1>1. Noticed' = Noticed /\ Applying' = Applying
    BY DEF PollLogQueue, configVars, Noticed, Applying
<1>2. CASE logQ = <<>>
  <2>1. recoveries' = recoveries
      BY <1>2 DEF PollLogQueue
  <2>2. UNCHANGED <<Restarting, Starting, Recovering>>
      BY <1>2 DEF PollLogQueue, Restarting, Starting, Recovering
  <2>3. Planned' <= Planned
      BY <1>1, <2>1, <2>2, CountsAreSmall, CountsStaySmall, PlansCompare DEF Planned
  <2> QED
      BY <1>1, <2>1, <2>2, <2>3, PlansDecide
<1>3. CASE logQ # <<>>
    BY <1>1, <1>3, EndSpendsNothing DEF PollLogQueue
<1> QED
    BY <1>2, <1>3

\* A change of the configuration is noticed, then applied as one restart or one start.
LEMMA SyncSpendsNothing ==
    ASSUME TypeOK, TypeOK', SyncExternalState
    PROVE  Allowance' <= Allowance
<1>1. recoveries' = recoveries
    BY DEF SyncExternalState
<1>2. CASE Changed
  <2>1. edited /\ ~ edited' /\ applyAt' = "waiting"
      BY <1>2 DEF SyncExternalState, SyncConfig, Changed
  <2>2. Noticed = 1 /\ Noticed' = 0 /\ Applying' = 1
      BY <2>1 DEF Noticed, Applying, None
  <2>3. UNCHANGED <<Restarting, Starting, Recovering>>
      BY <1>2 DEF SyncExternalState, SyncConfig, Applies, Restarting, Starting, Recovering
  <2>4. Planned' <= Planned
      BY <1>1, <2>2, <2>3, CountsAreSmall, CountsStaySmall, PlansCompare DEF Planned
  <2> QED
      BY <1>1, <2>2, <2>3, <2>4, PlansDecide
<1>3. CASE Applies
  <2>1. Applying = 1 /\ Applying' = 0 /\ Noticed' = Noticed
      BY <1>3 DEF SyncExternalState, SyncConfig, Applies, Applying, Noticed, None
  <2>2. CASE Alive(proc)
    <3>1. Starting' = Starting /\ Recovering' = Recovering
        BY <1>3, <2>2 DEF SyncExternalState, SyncConfig, Starting, Recovering
    <3>2. Planned' <= Planned
        BY <1>1, <2>1, <3>1, CountsAreSmall, CountsStaySmall, PlansCompare DEF Planned
    <3> QED
        BY <1>1, <2>1, <3>1, <3>2, PlansDecide
  <2>3. CASE ~ Alive(proc)
    <3>1. Recovering' = Recovering
        BY DEF SyncExternalState, SyncConfig, Schedules, Recovering
    <3>2. restartAfter' <=> restartAfter
        BY <2>3 DEF SyncExternalState, SyncConfig
    <3>3. Restarting' = Restarting
        BY <3>2 DEF Restarting
    <3>4. Planned' <= Planned
        BY <2>1, <3>3, CountsAreSmall, CountsStaySmall, PlansCompare DEF Planned
    <3> QED
        BY <1>1, <3>1, <3>4, PlansDecide
  <2> QED
      BY <2>2, <2>3
<1>4. CASE ~ Changed /\ ~ Applies
  <2>1. UNCHANGED <<Noticed, Applying, Restarting, Starting, Recovering>>
      BY <1>4 DEF SyncExternalState, SyncConfig, Noticed, Applying, Restarting, Starting, Recovering
  <2>2. Planned' <= Planned
      BY <1>1, <2>1, CountsAreSmall, CountsStaySmall, PlansCompare DEF Planned
  <2> QED
      BY <1>1, <2>1, <2>2, PlansDecide
<1> QED
    BY <1>2, <1>3, <1>4

LEMMA RestSpendsNothing ==
    ASSUME TypeOK, TypeOK', recoveries' = recoveries, edited' = edited,
           (applyAt' = None) <=> (applyAt = None), restartAfter' = restartAfter, due' = due
    PROVE  Allowance' <= Allowance
<1>1. UNCHANGED <<Noticed, Applying, Restarting, Starting, Recovering>>
    BY DEF Noticed, Applying, Restarting, Starting, Recovering
<1>2. Planned' <= Planned
    BY <1>1, CountsAreSmall, CountsStaySmall, PlansCompare DEF Planned
<1> QED
    BY <1>1, <1>2, PlansDecide

LEMMA NextSpendsNothing ==
    ASSUME TypeOK, TypeOK', [Next]_vars, ~ UserSteps
    PROVE  Allowance' <= Allowance
<1>1. ASSUME NEW kind \in {"start", "recover"}, StartIsDue(kind)
      PROVE  Allowance' <= Allowance
    BY <1>1, DueStartSpends, AllowanceIsNumber, AllowanceStaysNumber
<1>2. CASE PollLogQueue \/ SyncExternalState
    BY <1>2, PollSpendsNothing, SyncSpendsNothing
<1>3. CASE ClickStop \/ UserCloses
    BY <1>3, RestSpendsNothing DEF ClickStop, UserCloses, startVars, configVars, runVars
<1>4. CASE DebounceElapses
    BY <1>4, RestSpendsNothing DEF DebounceElapses, Passes, None, runVars, startVars
<1>5. CASE \/ GraceElapses \/ ExitGetsOld \/ CleanupTimesOut \/ ClientSteps \/ UNCHANGED vars
           \/ (\E i \in Looks : Publishes(i)) \/ (\E c \in Children : ChildSteps(c))
    BY <1>5, RestSpendsNothing DEF GraceElapses, ExitGetsOld, CleanupTimesOut, ClientSteps,
           Publishes, ChildSteps, guiVars, runVars, startVars, configVars, vars
<1> QED
    BY <1>1, <1>2, <1>3, <1>4, <1>5 DEF Next, UserSteps

StartsRunOut ==
    [][~ UserSteps => Allowance' <= Allowance /\ (Begins => Allowance' < Allowance)]_vars

\* Without the user the window has a number of starts to spend that never grows and that each
\* start lessens: however recoveries, planned restarts and changes of the configuration follow
\* upon each other, 5 * (RestartLimit + 1) starts are the most that it makes by itself.
\* (_finalize_process_exit, _maybe_apply_config_change, start)
THEOREM StartsAreBudgeted ==
    Spec => StartsRunOut /\ [](Allowance \in 0 .. 5 * (RestartLimit + 1))
<1>1. TypeOK /\ TypeOK' /\ [Next]_vars
        => [~ UserSteps => Allowance' <= Allowance /\ (Begins => Allowance' < Allowance)]_vars
    BY NextSpendsNothing, OnlyStartBegins, DueStartSpends DEF UserSteps
<1> QED
    BY <1>1, AllowanceIsNumber, WindowHasTypes, PTL DEF Spec, StartsRunOut

=============================================================================
