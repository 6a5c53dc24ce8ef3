-------------------------- MODULE UpdateWindow_proofs --------------------------
(***************************************************************************)
(* Proofs for UpdateWindow: a ready record has its installer, a record is  *)
(* not lost, no installer is started without the user's agreement, and the *)
(* whole implements UpdatePromise, for any number of versions and faults.  *)
(***************************************************************************)
EXTENDS UpdateWindow, TLAPS

-----------------------------------------------------------------------------
(* The inductive invariant.                                                *)

\* A window that is not there knows nothing.
OffInv ==
    app = "off" => /\ worker = "none" /\ clear = "no" /\ pending = 0 /\ candidate = 0
                   /\ dialog = NoDialog /\ checking = "due"
                   /\ ~authorized /\ ~requested /\ ~retry /\ ~button

\* While an update is staged there is nothing else the user could agree to.
StagingInv ==
    /\ candidate # 0 => checking = "over"
    /\ worker # "none" => /\ checking = "over" /\ ~button /\ dialog = NoDialog
                          /\ authorized /\ ~requested /\ target \in agreed
    /\ dialog.asks = "stage" => checking = "over"
    /\ dialog.asks = "apply" => dialog.version = pending

\* How far the staging thread is says what it has left on the disk.
WorkerInv ==
    /\ worker \in {"downloads", "writes"} => previous = record /\ record.phase # "launched"
    /\ worker = "writes" => target \in staged
    /\ worker \in {"tidies", "finished"} => record = Ready(target) /\ target \in staged

\* The window knows the record, until a new one is written by the staging thread.
PendingInv ==
    (pending # 0 /\ worker \notin {"tidies", "finished"}) => record.version = pending

\* A clean-up is for an installed update, one the window does not offer.
ClearInv ==
    /\ clear # "no" => app = "open"
    /\ (clear # "no" \/ retry) => Applied /\ pending = 0
    /\ clear = "state" => record.version \notin staged

\* The window acts for a version the user has agreed to.
AgreedInv ==
    /\ (authorized /\ worker = "none") => pending \in agreed
    /\ requested => authorized /\ worker = "none" /\ pending # 0
    /\ app \in {"launching", "spawned"} => requested /\ record = Ready(pending)

\* What the record of a started installer says of the installers.
LaunchedInv ==
    /\ app = "spawned" => installer \in {0, record.version}
    /\ record.phase = "launched" => installer \in {0, record.version}
    /\ (record.phase = "launched" /\ record.version \notin staged)
         => installed = record.version /\ pending = 0

IInv ==
    /\ TypeOK /\ OffInv /\ StagingInv /\ WorkerInv /\ PendingInv /\ ClearInv
    /\ AgreedInv /\ LaunchedInv /\ ReadyHasInstaller

-----------------------------------------------------------------------------
(* Facts about the values that are written.                                *)

\* What the program writes into the record is a record.
LEMMA RecordsAreMade ==
    /\ None \in Records
    /\ \A v \in Versions : Ready(v) \in Records
    /\ \A r \in Records : r # None => r.version \in Versions
    /\ \A r \in Records : r # None => [r EXCEPT !.phase = "launched"] \in Records
    /\ \A r \in Records : r.phase = "launched" => Ready(r.version) \in Records
    /\ 0 \notin Versions
  BY BoundsAreNumbers DEF None, Records, Ready, Versions

\* The questions are dialogs.
LEMMA DialogsAreMade ==
    /\ NoDialog \in Dialogs
    /\ \A v \in Versions : [asks |-> "stage", version |-> v] \in Dialogs
    /\ \A v \in Versions : [asks |-> "apply", version |-> v] \in Dialogs
    /\ \A d \in Dialogs : d # NoDialog => d.version \in Versions
  BY BoundsAreNumbers DEF NoDialog, Dialogs, Versions

\* No step counts more faults than the bound.
LEMMA FaultsAreBounded ==
    ASSUME faults \in 0 .. MaxFaults, Fault \/ Smooth
    PROVE  faults' \in 0 .. MaxFaults
  BY BoundsAreNumbers DEF Fault, Smooth

-----------------------------------------------------------------------------
(* Every step keeps the invariant.                                         *)

\* Start-up shows what it finds in the record, and clears only an installed update.
LEMMA StartsKeeps == IInv /\ Starts => IInv'
<1> SUFFICES ASSUME IInv, Starts PROVE IInv'
  OBVIOUS
<1>1. TypeOK'
  <2>1. UpdaterTypeOK'
    BY FaultsAreBounded DEF IInv, TypeOK, UpdaterTypeOK, Starts, Inspects, CannotInspect,
        recordVars, stageVars, worldVars
  <2>2. pending' \in {0} \cup Versions /\ failed' \in BOOLEAN /\ button' \in BOOLEAN
    BY RecordsAreMade DEF IInv, TypeOK, UpdaterTypeOK, Starts
  <2> QED
    BY <2>1, <2>2 DEF IInv, TypeOK, Starts, Inspects, CannotInspect
<1>2. OffInv'
  BY DEF Starts, OffInv
<1>3. StagingInv'
  BY DEF Starts, IInv, OffInv, StagingInv, NoDialog, stageVars
<1>4. PendingInv'
  BY DEF Starts, IInv, PendingInv, recordVars, stageVars
<1>5. ClearInv'
  BY DEF Starts, IInv, OffInv, ClearInv, Applied, recordVars, worldVars
<1>6. AgreedInv'
  BY DEF Starts, IInv, OffInv, AgreedInv
<1>7. LaunchedInv'
  BY DEF Starts, IInv, LaunchedInv, Applied, recordVars, worldVars
<1>8. WorkerInv' /\ ReadyHasInstaller'
  BY DEF Starts, IInv, WorkerInv, ReadyHasInstaller, recordVars, stageVars
<1> QED
  BY <1>1, <1>2, <1>3, <1>4, <1>5, <1>6, <1>7, <1>8 DEF IInv

\* A clean-up ends with the record gone, or with a retry for what is left.
LEMMA ClearsKeeps == IInv /\ Clears => IInv'
<1> SUFFICES ASSUME IInv, Clears PROVE IInv'
  OBVIOUS
<1>1. TypeOK'
  <2>1. UpdaterTypeOK'
    BY RecordsAreMade, FaultsAreBounded
    DEF IInv, TypeOK, UpdaterTypeOK, Clears, ClearsDirectory, ClearsRecord, stageVars,
        worldVars
  <2> QED
    BY <2>1 DEF IInv, TypeOK, Clears
<1>2. OffInv'
  BY DEF Clears, OffInv
<1>3. WorkerInv'
  BY DEF Clears, ClearsDirectory, ClearsRecord, IInv, WorkerInv, stageVars, Applied,
      Ready, ClearInv
<1>4. PendingInv'
  BY DEF Clears, ClearsDirectory, ClearsRecord, IInv, PendingInv, ClearInv
<1>5. ClearInv'
  BY DEF Clears, ClearsDirectory, ClearsRecord, IInv, ClearInv, worldVars, Applied,
      None, TypeOK, AgreedInv
<1>6. AgreedInv'
  BY DEF Clears, IInv, AgreedInv, stageVars
<1>7. LaunchedInv'
  BY DEF Clears, ClearsDirectory, ClearsRecord, IInv, LaunchedInv, worldVars, Applied,
      None, ClearInv
<1>8. ReadyHasInstaller'
  BY DEF Clears, ClearsDirectory, ClearsRecord, IInv, ReadyHasInstaller, Applied, None,
      ClearInv
<1>9. StagingInv'
  BY DEF Clears, IInv, StagingInv, stageVars
<1> QED
  BY <1>1, <1>2, <1>3, <1>4, <1>5, <1>6, <1>7, <1>8, <1>9 DEF IInv

\* A retry begins only for an update that is installed.
LEMMA RetriesClearKeeps == IInv /\ RetriesClear => IInv'
<1> SUFFICES ASSUME IInv, RetriesClear PROVE IInv'
  OBVIOUS
<1>1. TypeOK'
  <2>1. UpdaterTypeOK'
    BY FaultsAreBounded DEF IInv, TypeOK, UpdaterTypeOK, RetriesClear, Inspects, CannotInspect,
        recordVars, stageVars, worldVars
  <2> QED
    BY <2>1 DEF IInv, TypeOK, RetriesClear, Inspects, CannotInspect
<1>2. OffInv'
  BY DEF RetriesClear, IInv, OffInv
<1>3. ClearInv'
  BY DEF RetriesClear, WindowFree, IInv, ClearInv, recordVars, worldVars,
      Applied
<1>4. /\ StagingInv' /\ WorkerInv' /\ PendingInv'
      /\ AgreedInv' /\ LaunchedInv' /\ ReadyHasInstaller'
  BY DEF RetriesClear, IInv, StagingInv, WorkerInv, PendingInv, AgreedInv,
      LaunchedInv, ReadyHasInstaller, recordVars, stageVars, worldVars
<1> QED
  BY <1>1, <1>2, <1>3, <1>4 DEF IInv

\* The check takes the button away.
LEMMA CheckBeginsKeeps == IInv /\ CheckBegins => IInv'
<1> SUFFICES ASSUME IInv, CheckBegins PROVE IInv'
  OBVIOUS
<1>1. TypeOK'
  <2>1. UpdaterTypeOK'
    BY DEF IInv, TypeOK, UpdaterTypeOK, CheckBegins, updaterKept, recordVars, stageVars, worldVars
  <2> QED
    BY <2>1 DEF IInv, TypeOK, CheckBegins
<1>2. OffInv'
  BY DEF CheckBegins, WindowFree, OffInv
<1>3. StagingInv'
  BY DEF CheckBegins, updaterKept, IInv, StagingInv, stageVars
<1>4. /\ WorkerInv' /\ PendingInv' /\ ClearInv'
      /\ AgreedInv' /\ LaunchedInv' /\ ReadyHasInstaller'
  BY DEF CheckBegins, updaterKept, IInv, WorkerInv, PendingInv, ClearInv, AgreedInv,
      LaunchedInv, ReadyHasInstaller, recordVars, stageVars, worldVars, Applied
<1> QED
  BY <1>1, <1>2, <1>3, <1>4 DEF IInv

\* The check gives the button back; nothing can be staged before it is over.
LEMMA CheckEndsKeeps == IInv /\ CheckEnds => IInv'
<1> SUFFICES ASSUME IInv, CheckEnds PROVE IInv'
  OBVIOUS
<1>1. TypeOK'
  <2>1. UpdaterTypeOK'
    BY DEF IInv, TypeOK, UpdaterTypeOK, CheckEnds, updaterKept, recordVars, stageVars, worldVars
  <2> QED
    BY <2>1 DEF IInv, TypeOK, UpdaterTypeOK, CheckEnds, RestoresAction
<1>2. OffInv'
  BY DEF CheckEnds, IInv, OffInv
<1>3. StagingInv'
  BY DEF CheckEnds, updaterKept, IInv, StagingInv, stageVars
<1>4. /\ WorkerInv' /\ PendingInv' /\ ClearInv'
      /\ AgreedInv' /\ LaunchedInv' /\ ReadyHasInstaller'
  BY DEF CheckEnds, updaterKept, IInv, WorkerInv, PendingInv, ClearInv, AgreedInv,
      LaunchedInv, ReadyHasInstaller, recordVars, stageVars, worldVars, Applied
<1> QED
  BY <1>1, <1>2, <1>3, <1>4 DEF IInv

\* The question is about the version that the button stands for.
LEMMA ClicksKeeps == IInv /\ Clicks => IInv'
<1> SUFFICES ASSUME IInv, Clicks PROVE IInv'
  OBVIOUS
<1>1. TypeOK'
  <2>1. UpdaterTypeOK'
    BY DEF IInv, TypeOK, UpdaterTypeOK, Clicks, updaterKept, recordVars, stageVars,
        worldVars
  <2>2. dialog' \in Dialogs
    BY DialogsAreMade DEF IInv, TypeOK, Clicks, PrefersCandidate
  <2> QED
    BY <2>1, <2>2 DEF IInv, TypeOK, Clicks
<1>2. OffInv'
  BY DEF Clicks, IInv, OffInv
<1>3. StagingInv'
  <2>1. worker = "none"
    BY DEF IInv, StagingInv, Clicks
  <2>2. \/ dialog' = [asks |-> "stage", version |-> candidate] /\ candidate # 0
        \/ dialog' = [asks |-> "apply", version |-> pending]
        \/ dialog' = NoDialog
    BY DEF Clicks, PrefersCandidate
  <2>3. /\ dialog'.asks = "stage" => checking = "over"
        /\ dialog'.asks = "apply" => dialog'.version = pending
    BY <2>2 DEF IInv, StagingInv, NoDialog
  <2> QED
    BY <2>1, <2>2, <2>3 DEF IInv, StagingInv, Clicks, updaterKept, stageVars
<1>4. /\ WorkerInv' /\ PendingInv' /\ ClearInv'
      /\ AgreedInv' /\ LaunchedInv' /\ ReadyHasInstaller'
  BY DEF Clicks, updaterKept, IInv, WorkerInv, PendingInv, ClearInv, AgreedInv,
      LaunchedInv, ReadyHasInstaller, recordVars, stageVars, worldVars, Applied
<1> QED
  BY <1>1, <1>2, <1>3, <1>4 DEF IInv

\* The agreement is for the version in the question.
LEMMA AgreesKeeps == IInv /\ Agrees => IInv'
<1> SUFFICES ASSUME IInv, Agrees PROVE IInv'
  OBVIOUS
<1>1. TypeOK'
  <2>1. dialog.version \in Versions
    BY DialogsAreMade DEF IInv, TypeOK, Agrees
  <2>2. UpdaterTypeOK'
    BY <2>1, RecordsAreMade DEF IInv, TypeOK, UpdaterTypeOK, Agrees, recordVars, worldVars
  <2>3. requested' \in BOOLEAN
    BY DEF IInv, TypeOK, Agrees
  <2> QED
    BY <2>1, <2>2, <2>3, DialogsAreMade DEF IInv, TypeOK, Agrees
<1>2. OffInv'
  BY DEF Agrees, IInv, OffInv
<1>3. StagingInv'
  BY DEF Agrees, IInv, StagingInv, NoDialog
<1>4. WorkerInv'
  BY DEF Agrees, IInv, WorkerInv, recordVars
<1>5. PendingInv'
  BY DEF Agrees, IInv, PendingInv, recordVars, StagingInv
<1>6. AgreedInv'
  BY DEF Agrees, IInv, AgreedInv, StagingInv, TypeOK
<1>7. ClearInv' /\ LaunchedInv' /\ ReadyHasInstaller'
  BY DEF Agrees, IInv, ClearInv, LaunchedInv, ReadyHasInstaller, recordVars, worldVars,
      Applied
<1> QED
  BY <1>1, <1>2, <1>3, <1>4, <1>5, <1>6, <1>7 DEF IInv

\* A question that is declined leaves nothing behind.
LEMMA DeclinesKeeps == IInv /\ Declines => IInv'
<1> SUFFICES ASSUME IInv, Declines PROVE IInv'
  OBVIOUS
<1>1. TypeOK'
  BY DEF Declines, updaterKept, IInv, TypeOK, recordVars, stageVars, worldVars,
      UpdaterTypeOK, Dialogs
<1>2. OffInv'
  BY DEF Declines, IInv, OffInv
<1>3. StagingInv'
  BY DEF Declines, updaterKept, IInv, StagingInv, stageVars, NoDialog
<1>4. /\ WorkerInv' /\ PendingInv' /\ ClearInv'
      /\ AgreedInv' /\ LaunchedInv' /\ ReadyHasInstaller'
  BY DEF Declines, updaterKept, IInv, WorkerInv, PendingInv, ClearInv, AgreedInv,
      LaunchedInv, ReadyHasInstaller, recordVars, stageVars, worldVars, Applied
<1> QED
  BY <1>1, <1>2, <1>3, <1>4 DEF IInv

\* The record is written only when the installer is there, and the superseded installer
\* removed only when the new record is.
LEMMA StagesOnKeeps == IInv /\ StagesOn => IInv'
<1> SUFFICES ASSUME IInv, StagesOn PROVE IInv'
  OBVIOUS
<1>1. TypeOK'
  <2>1. target \in Versions
    BY DEF IInv, TypeOK, UpdaterTypeOK, StagesOn, Stages, StagingAt, StageReads,
        StageDownloads, StageWrites, StageTidies
  <2>2. faults' \in 0 .. MaxFaults
    BY FaultsAreBounded
    DEF IInv, TypeOK, UpdaterTypeOK, StagesOn, Stages, StageReads, StageDownloads,
        StageWrites, StageTidies
  <2>3. record' \in Records /\ previous' \in Records
    BY <2>1, RecordsAreMade
    DEF IInv, TypeOK, UpdaterTypeOK, StagesOn, Stages, StageReads, StageDownloads,
        StageWrites, StageTidies, recordVars
  <2>4. UpdaterTypeOK'
    BY <2>1, <2>2, <2>3
    DEF IInv, TypeOK, UpdaterTypeOK, StagesOn, Stages, StageReads, StageDownloads,
        StageWrites, StageTidies, StagingAt, recordVars, worldVars
  <2> QED
    BY <2>4 DEF IInv, TypeOK, StagesOn, windowVars
<1>2. OffInv'
  BY DEF StagesOn, Stages, StagingAt, StageReads, StageDownloads, StageWrites,
      StageTidies, OffInv
<1>3. StagingInv'
  BY DEF StagesOn, Stages, StagingAt, StageReads, StageDownloads, StageWrites,
      StageTidies, windowVars, IInv, StagingInv
<1>4. WorkerInv'
  BY DEF StagesOn, Stages, StagingAt, StageReads, StageDownloads, StageWrites,
      StageTidies, IInv, WorkerInv, recordVars
<1>5. PendingInv'
  BY DEF StagesOn, Stages, StagingAt, StageReads, StageDownloads, StageWrites,
      StageTidies, windowVars, IInv, PendingInv, recordVars
<1>6. ClearInv'
  BY DEF StagesOn, Stages, StagingAt, StageReads, StageDownloads, StageWrites,
      StageTidies, windowVars, IInv, ClearInv, recordVars, worldVars, Applied, WorkerInv
<1>7. AgreedInv'
  BY DEF StagesOn, Stages, StagingAt, StageReads, StageDownloads, StageWrites,
      StageTidies, windowVars, IInv, AgreedInv
<1>8. LaunchedInv'
  BY DEF StagesOn, Stages, StagingAt, StageReads, StageDownloads, StageWrites,
      StageTidies, windowVars, IInv, LaunchedInv, recordVars, worldVars, Ready,
      WorkerInv
<1>9. ReadyHasInstaller'
  BY DEF StagesOn, Stages, StagingAt, StageReads, StageDownloads, StageWrites,
      StageTidies, IInv, ReadyHasInstaller, recordVars, Ready, WorkerInv
<1> QED
  BY <1>1, <1>2, <1>3, <1>4, <1>5, <1>6, <1>7, <1>8, <1>9 DEF IInv

\* A staged update takes the place of the one offered before, a failed one revokes the
\* agreement.
LEMMA StageEndsKeeps == IInv /\ StageEnds => IInv'
<1> SUFFICES ASSUME IInv, StageEnds PROVE IInv'
  OBVIOUS
<1>1. TypeOK'
  <2>1. UpdaterTypeOK'
    BY RecordsAreMade
    DEF IInv, TypeOK, UpdaterTypeOK, StageEnds, recordVars, worldVars
  <2>2. pending' \in {0} \cup Versions /\ candidate' \in {0} \cup Versions
    BY DEF IInv, TypeOK, UpdaterTypeOK, StageEnds, StageFinished, StageFailed
  <2>3. /\ failed' \in BOOLEAN /\ button' \in BOOLEAN
        /\ authorized' \in BOOLEAN /\ requested' \in BOOLEAN
    BY DEF IInv, TypeOK, StageEnds, StageFinished, StageFailed
  <2> QED
    BY <2>1, <2>2, <2>3 DEF IInv, TypeOK, StageEnds
<1>2. OffInv'
  BY DEF StageEnds, StageFinished, StageFailed, IInv, OffInv
<1>3. StagingInv'
  BY DEF StageEnds, StageFinished, StageFailed, IInv, StagingInv, NoDialog
<1>4. WorkerInv'
  BY DEF StageEnds, WorkerInv
<1>5. PendingInv'
  BY DEF StageEnds, StageFinished, StageFailed, IInv, PendingInv, recordVars, Ready,
      WorkerInv
<1>6. ClearInv'
  BY DEF StageEnds, StageFinished, StageFailed, IInv, ClearInv, recordVars, worldVars,
      Applied, Ready, WorkerInv
<1>7. AgreedInv'
  BY DEF StageEnds, StageFinished, StageFailed, IInv, AgreedInv, StagingInv, TypeOK,
      UpdaterTypeOK
<1>8. LaunchedInv'
  BY DEF StageEnds, StageFinished, StageFailed, IInv, LaunchedInv, recordVars,
      worldVars, Ready, WorkerInv
<1>9. ReadyHasInstaller'
  BY DEF StageEnds, IInv, ReadyHasInstaller, recordVars
<1> QED
  BY <1>1, <1>2, <1>3, <1>4, <1>5, <1>6, <1>7, <1>8, <1>9 DEF IInv

\* The window applies what was agreed to.
LEMMA AppliesWhenIdleKeeps == IInv /\ AppliesWhenIdle => IInv'
<1> SUFFICES ASSUME IInv, AppliesWhenIdle PROVE IInv'
  OBVIOUS
<1>1. TypeOK'
  BY DEF AppliesWhenIdle, updaterKept, IInv, TypeOK, recordVars, stageVars, worldVars,
      UpdaterTypeOK
<1>2. OffInv'
  BY DEF AppliesWhenIdle, IInv, OffInv
<1>3. StagingInv'
  BY DEF AppliesWhenIdle, updaterKept, IInv, StagingInv, stageVars
<1>4. AgreedInv'
  BY DEF AppliesWhenIdle, updaterKept, IInv, AgreedInv, recordVars, stageVars
<1>5. /\ WorkerInv' /\ PendingInv' /\ ClearInv'
      /\ LaunchedInv' /\ ReadyHasInstaller'
  BY DEF AppliesWhenIdle, updaterKept, IInv, WorkerInv, PendingInv, ClearInv,
      LaunchedInv, ReadyHasInstaller, recordVars, stageVars, worldVars
<1> QED
  BY <1>1, <1>2, <1>3, <1>4, <1>5 DEF IInv

\* A close by the user applies what was agreed to, and no more.
LEMMA ClosesKeeps == IInv /\ Closes => IInv'
<1> SUFFICES ASSUME IInv, Closes PROVE IInv'
  OBVIOUS
<1>1. TypeOK'
  BY DEF Closes, updaterKept, IInv, TypeOK, recordVars, stageVars, worldVars,
      UpdaterTypeOK, Dialogs
<1>2. OffInv'
  BY DEF Closes, OffInv
<1>3. StagingInv'
  BY DEF Closes, updaterKept, IInv, StagingInv, stageVars, TypeOK, NoDialog
<1>4. ClearInv'
  BY DEF Closes, WindowFree, updaterKept, IInv, ClearInv, recordVars, worldVars, Applied
<1>5. AgreedInv'
  BY DEF Closes, updaterKept, IInv, AgreedInv, stageVars, TypeOK
<1>6. LaunchedInv'
  BY DEF Closes, updaterKept, IInv, LaunchedInv, recordVars, worldVars
<1>7. WorkerInv' /\ PendingInv' /\ ReadyHasInstaller'
  BY DEF Closes, updaterKept, IInv, WorkerInv, PendingInv, ReadyHasInstaller,
      recordVars, stageVars
<1> QED
  BY <1>1, <1>2, <1>3, <1>4, <1>5, <1>6, <1>7 DEF IInv

\* The installer started is that of the version in the window, which is recorded as
\* launched; a launch that fails leaves it ready.
LEMMA LeavesKeeps == IInv /\ Leaves => IInv'
<1> SUFFICES ASSUME IInv, Leaves PROVE IInv'
  OBVIOUS
<1>1. TypeOK'
  <2>1. app \in {"launching", "spawned"} => record # None /\ record.version \in Versions
    <3> SUFFICES ASSUME app \in {"launching", "spawned"}
                 PROVE  record # None /\ record.version \in Versions
      OBVIOUS
    <3>1. pending \in Versions /\ record = Ready(pending)
      BY DEF IInv, TypeOK, AgreedInv
    <3> QED
      BY <3>1 DEF Ready, None
  <2>2. record' \in Records
    BY <2>1, RecordsAreMade
    DEF IInv, TypeOK, UpdaterTypeOK, Leaves, recordVars, LaunchBegins, Validates, LaunchFails,
        MarksFailure, LaunchSpawns, LaunchRecords
  <2>3. installer' \in {0} \cup Versions
    BY <2>1 DEF IInv, TypeOK, UpdaterTypeOK, Leaves, worldVars, LaunchSpawns
  <2>4. faults' \in 0 .. MaxFaults
    BY FaultsAreBounded
    DEF IInv, TypeOK, UpdaterTypeOK, Leaves, LaunchFails, LaunchRecords, Smooth
  <2>5. UpdaterTypeOK'
    BY <2>2, <2>4, <2>3, RecordsAreMade
    DEF IInv, TypeOK, UpdaterTypeOK, Leaves, LaunchBegins, LaunchFails, LaunchSpawns,
        LaunchRecords, Ends, recordVars, stageVars, worldVars
  <2> QED
    BY <2>5, DialogsAreMade DEF IInv, TypeOK, Leaves, Ends, windowVars
<1>2. OffInv'
  BY DEF Leaves, LaunchBegins, LaunchSpawns, Ends, OffInv
<1>3. StagingInv'
  BY DEF Leaves, Ends, windowVars, IInv, StagingInv, stageVars, NoDialog
<1>4. WorkerInv'
  BY DEF Leaves, Ends, IInv, WorkerInv, recordVars, stageVars, StagingInv
<1>5. PendingInv'
  BY DEF Leaves, LaunchBegins, Ends, windowVars, IInv, PendingInv, recordVars,
      stageVars, Ready
<1>6. ClearInv'
  BY DEF Leaves, Ends, windowVars, IInv, ClearInv, AgreedInv
<1>7. AgreedInv'
  BY DEF Leaves, LaunchBegins, Ends, windowVars, IInv, AgreedInv, recordVars, stageVars,
      PendingInv
<1>8. LaunchedInv'
  BY DEF Leaves, LaunchBegins, LaunchFails, LaunchSpawns, LaunchRecords, MarksFailure,
      Ends, IInv, LaunchedInv, recordVars, worldVars, Ready, AgreedInv,
      ReadyHasInstaller
<1>9. ReadyHasInstaller'
  BY DEF Leaves, LaunchBegins, LaunchFails, LaunchRecords, MarksFailure, Validates,
      IInv, ReadyHasInstaller, recordVars, Ready, AgreedInv, LaunchedInv
<1> QED
  BY <1>1, <1>2, <1>3, <1>4, <1>5, <1>6, <1>7, <1>8, <1>9 DEF IInv

\* A crash leaves the record and the installers as they are.
LEMMA CrashesKeeps == IInv /\ Crashes => IInv'
<1> SUFFICES ASSUME IInv, Crashes PROVE IInv'
  OBVIOUS
<1>1. TypeOK'
  <2>1. UpdaterTypeOK'
    BY RecordsAreMade, FaultsAreBounded
    DEF IInv, TypeOK, UpdaterTypeOK, Crashes, Ends, recordVars, worldVars
  <2> QED
    BY <2>1, DialogsAreMade DEF IInv, TypeOK, Crashes, Ends
<1>2. OffInv'
  BY DEF Crashes, Ends, OffInv
<1>3. StagingInv'
  BY DEF Crashes, Ends, StagingInv, NoDialog
<1>4. WorkerInv'
  BY DEF Crashes, Ends, WorkerInv
<1>5. PendingInv'
  BY DEF Crashes, Ends, PendingInv
<1>6. ClearInv'
  BY DEF Crashes, Ends, ClearInv
<1>7. AgreedInv'
  BY DEF Crashes, Ends, AgreedInv
<1>8. LaunchedInv'
  BY DEF Crashes, Ends, IInv, LaunchedInv, recordVars, worldVars
<1>9. ReadyHasInstaller'
  BY DEF Crashes, IInv, ReadyHasInstaller, recordVars
<1> QED
  BY <1>1, <1>2, <1>3, <1>4, <1>5, <1>6, <1>7, <1>8, <1>9 DEF IInv

\* Games and the automation do not touch the updater.
LEMMA ActivityChangesKeeps == IInv /\ ActivityChanges => IInv'
<1> SUFFICES ASSUME IInv, ActivityChanges PROVE IInv'
  OBVIOUS
<1>1. /\ TypeOK' /\ OffInv' /\ StagingInv' /\ WorkerInv' /\ PendingInv'
      /\ ClearInv' /\ AgreedInv' /\ LaunchedInv' /\ ReadyHasInstaller'
  BY DEF ActivityChanges, updaterVars, IInv, TypeOK, OffInv, StagingInv, WorkerInv,
      PendingInv, ClearInv, AgreedInv, LaunchedInv, ReadyHasInstaller, recordVars,
      stageVars, worldVars, UpdaterTypeOK, Applied
<1> QED
  BY <1>1 DEF IInv

\* Nor does another instance.
LEMMA OtherComesOrGoesKeeps == IInv /\ OtherComesOrGoes => IInv'
<1> SUFFICES ASSUME IInv, OtherComesOrGoes PROVE IInv'
  OBVIOUS
<1>1. /\ TypeOK' /\ OffInv' /\ StagingInv' /\ WorkerInv' /\ PendingInv'
      /\ ClearInv' /\ AgreedInv' /\ LaunchedInv' /\ ReadyHasInstaller'
  BY DEF OtherComesOrGoes, updaterVars, windowVars, IInv, TypeOK, OffInv, StagingInv,
      WorkerInv, PendingInv, ClearInv, AgreedInv, LaunchedInv, ReadyHasInstaller,
      recordVars, stageVars, worldVars, UpdaterTypeOK, Applied
<1> QED
  BY <1>1 DEF IInv

\* An installer that ends has installed the version of a launched record.
LEMMA WorldKeeps == IInv /\ World => IInv'
<1> SUFFICES ASSUME IInv, World PROVE IInv'
  OBVIOUS
<1>1. TypeOK'
  BY BoundsAreNumbers DEF World, Installs, InstallerAborts, Publishes, windowVars,
      Smooth, Fault, IInv, TypeOK, recordVars, stageVars, UpdaterTypeOK, Versions
<1>2. ClearInv'
  BY DEF World, Installs, InstallerAborts, Publishes, windowVars, IInv, ClearInv,
      recordVars, Applied, OffInv
<1>3. LaunchedInv'
  BY DEF World, Installs, InstallerAborts, Publishes, windowVars, IInv, LaunchedInv,
      recordVars
<1>4. /\ OffInv' /\ StagingInv' /\ WorkerInv'
      /\ PendingInv' /\ AgreedInv' /\ ReadyHasInstaller'
  BY DEF World, windowVars, IInv, OffInv, StagingInv, WorkerInv, PendingInv, AgreedInv,
      ReadyHasInstaller, recordVars, stageVars
<1> QED
  BY <1>1, <1>2, <1>3, <1>4 DEF IInv

\* Nothing changes.
LEMMA StutterKeeps == IInv /\ UNCHANGED vars => IInv'
<1> SUFFICES ASSUME IInv, UNCHANGED vars PROVE IInv'
  OBVIOUS
<1>1. /\ TypeOK' /\ OffInv' /\ StagingInv' /\ WorkerInv' /\ PendingInv'
      /\ ClearInv' /\ AgreedInv' /\ LaunchedInv' /\ ReadyHasInstaller'
  BY DEF vars, updaterVars, windowVars, IInv, TypeOK, OffInv, StagingInv, WorkerInv,
      PendingInv, ClearInv, AgreedInv, LaunchedInv, ReadyHasInstaller, recordVars,
      stageVars, worldVars, UpdaterTypeOK, Applied
<1> QED
  BY <1>1 DEF IInv

-----------------------------------------------------------------------------
(* The theorems.                                                           *)

\* A program that was never started has no update.
LEMMA InitHolds == Init => IInv
<1> SUFFICES ASSUME Init PROVE IInv
  OBVIOUS
<1>1. 1 \in Versions /\ 0 \in 0 .. MaxFaults
  BY BoundsAreNumbers DEF Versions
<1>2. TypeOK
  BY <1>1, RecordsAreMade, DialogsAreMade DEF Init, UpdaterInit, TypeOK, UpdaterTypeOK
<1>3. OffInv /\ StagingInv /\ WorkerInv /\ PendingInv /\ ClearInv /\ AgreedInv
  BY DEF Init, UpdaterInit, OffInv, StagingInv, WorkerInv, PendingInv, ClearInv, AgreedInv,
         NoDialog
<1>4. LaunchedInv /\ ReadyHasInstaller
  BY DEF Init, UpdaterInit, LaunchedInv, ReadyHasInstaller, None
<1> QED
  BY <1>2, <1>3, <1>4 DEF IInv

\* Every step of the specification keeps the invariant.
LEMMA NextKeeps == IInv /\ [Next]_vars => IInv'
  BY StartsKeeps, ClearsKeeps, RetriesClearKeeps, CheckBeginsKeeps, CheckEndsKeeps,
     ClicksKeeps, AgreesKeeps, DeclinesKeeps, StagesOnKeeps, StageEndsKeeps,
     AppliesWhenIdleKeeps, ClosesKeeps, LeavesKeeps, CrashesKeeps, ActivityChangesKeeps,
     OtherComesOrGoesKeeps, WorldKeeps, StutterKeeps
  DEF Next

\* The invariant of every reachable state.
LEMMA InvariantHolds == Spec => []IInv
  BY InitHolds, NextKeeps, PTL DEF Spec

\* The variables have their types (the state of the updater and of the window).
THEOREM TypesAreKept == Spec => []TypeOK
<1>1. IInv => TypeOK
  BY DEF IInv
<1> QED
  BY <1>1, InvariantHolds, PTL

\* An update recorded as ready has its installer, whatever was interrupted (stage_update,
\* launch_staged_installer_update, _clear_update_state).
THEOREM ReadyInstallersAreThere == Spec => []ReadyHasInstaller
<1>1. IInv => ReadyHasInstaller
  BY DEF IInv
<1> QED
  BY <1>1, InvariantHolds, PTL

\* A record goes only with an update that is installed and removed (_clear_update_state).
THEOREM UpdatesAreNotForgotten == Spec => UpdateIsNotForgotten
<1>1. (IInv /\ IInv' /\ [Next]_vars) =>
         [(record # None /\ record' = None) =>
            (record.phase = "launched" /\ record.version = installed
               /\ record.version \notin staged)]_vars
  <2> SUFFICES ASSUME IInv, Next, record # None, record' = None
               PROVE  /\ record.phase = "launched" /\ record.version = installed
                      /\ record.version \notin staged
    OBVIOUS
  <2>1. ~ UNCHANGED record
    OBVIOUS
  <2>2. CASE Clears
    BY <2>1, <2>2 DEF IInv, ClearInv, Applied, Clears, ClearsDirectory, ClearsRecord
  <2>3. CASE StagesOn
    BY <2>1, <2>3
    DEF StagesOn, Stages, StageReads, StageDownloads, StageWrites, StageTidies, Ready, None,
        recordVars
  <2>4. CASE Leaves
    <3>1. \/ record' = Ready(record.version)
          \/ record' = [record EXCEPT !.phase = "launched"]
      BY <2>1, <2>4
      DEF Leaves, recordVars, LaunchBegins, LaunchFails, MarksFailure, LaunchSpawns,
          LaunchRecords
    <3>2. record'.phase \in {"ready", "launched"}
      BY <3>1 DEF IInv, TypeOK, UpdaterTypeOK, Records, None, Ready
    <3> QED
      BY <3>2 DEF None
  <2>5. Next => (Clears \/ StagesOn \/ Leaves \/ UNCHANGED record)
    BY DEF Next, Starts, RetriesClear, CheckBegins, CheckEnds, Clicks, Agrees, Declines,
           StageEnds, AppliesWhenIdle, Closes, Crashes, ActivityChanges, OtherComesOrGoes,
           World, updaterKept, updaterVars, recordVars
  <2> QED
    BY <2>1, <2>2, <2>3, <2>4, <2>5
<1> QED
  BY <1>1, InvariantHolds, PTL DEF Spec, UpdateIsNotForgotten

\* No installer is started for a version the user has not agreed to
\* (_update_apply_authorized, launch_staged_update_after_mainloop).
THEOREM LaunchesAreAgreed == Spec => LaunchIsAgreed
<1>1. (IInv /\ [Next]_vars) =>
         [(installer' # installer /\ installer' # 0) => installer' \in agreed]_vars
  <2> SUFFICES ASSUME IInv, Next, installer' # installer, installer' # 0
               PROVE  installer' \in agreed
    OBVIOUS
  <2>1. CASE Leaves
    <3>1. app = "launching" /\ installer' = record.version
      BY <2>1 DEF Leaves, LaunchSpawns, worldVars
    <3> QED
      BY <3>1 DEF IInv, AgreedInv, Ready
  <2>2. CASE World
    BY <2>2 DEF World, Installs, InstallerAborts, Publishes
  <2>3. Next => (Leaves \/ World \/ UNCHANGED installer)
    BY DEF Next, Starts, Clears, RetriesClear, CheckBegins, CheckEnds, Clicks, Agrees,
           Declines, StagesOn, Stages, StageEnds, AppliesWhenIdle, Closes, Crashes,
           ActivityChanges, OtherComesOrGoes, updaterKept, updaterVars, worldVars
  <2> QED
    BY <2>1, <2>2, <2>3
<1> QED
  BY <1>1, InvariantHolds, PTL DEF Spec, LaunchIsAgreed

-----------------------------------------------------------------------------
(* The promise: every step of the window is one of UpdatePromise's.        *)

\* What the promise knows of the program, by the part of it that runs.
LEMMA ProgramIs ==
    /\ app = "off" => ProgramOf = "off"
    /\ app = "spawned" => ProgramOf = "leaves"
    /\ app \notin {"off", "spawned"} => ProgramOf = "runs"
  BY DEF ProgramOf

\* The same of the next state.
LEMMA ProgramBecomes ==
    /\ app' = "off" => ProgramOf' = "off"
    /\ app' = "spawned" => ProgramOf' = "leaves"
    /\ app' \notin {"off", "spawned"} => ProgramOf' = "runs"
  BY DEF ProgramOf

\* The program is what it was when its main thread is where it was.
LEMMA ProgramStays == UNCHANGED app => UNCHANGED ProgramOf
  BY DEF ProgramOf

\* The window whose update is to be applied has the agreement to what is on record.
LEMMA RequestedIsAgreed ==
    ASSUME IInv, requested \/ app \in {"launching", "spawned"}
    PROVE  record # None /\ record.version = pending /\ pending \in agreed
<1>1. requested /\ authorized /\ worker = "none" /\ pending # 0
  BY DEF IInv, AgreedInv
<1>2. pending \in agreed /\ record.version = pending
  BY <1>1 DEF IInv, AgreedInv, PendingInv
<1> QED
  BY <1>1, <1>2 DEF None

\* Agreeing to an update, and at once to its application.
LEMMA AgreesIsPromised == IInv /\ Agrees => Promise!Next
<1> SUFFICES ASSUME IInv, Agrees PROVE Promise!Next
  OBVIOUS
<1>1. dialog.version \in Versions
  BY DialogsAreMade DEF IInv, TypeOK, Agrees
<1>2. UNCHANGED <<installed, installer, record, ProgramOf>>
  BY ProgramStays DEF Agrees, recordVars, worldVars
<1>3. ProgramOf = "runs"
  BY ProgramIs DEF Agrees, WindowFree
<1>4. Promise!Agrees(dialog.version)
  BY <1>2, <1>3 DEF Agrees, Promise!Agrees
<1> QED
  BY <1>1, <1>4 DEF Promise!Next, Promise!Versions, Versions

\* The staging thread writes the record of the version it was started for, when it has
\* found no launched one.
LEMMA StagesOnIsPromised == IInv /\ StagesOn => [Promise!Next]_(Promise!vars)
<1> SUFFICES ASSUME IInv, StagesOn PROVE [Promise!Next]_(Promise!vars)
  OBVIOUS
<1>1. UNCHANGED <<installed, installer, ProgramOf, agreed>>
  BY ProgramStays DEF StagesOn, Stages, worldVars, windowVars
<1>2. CASE record' = record
  BY <1>1, <1>2 DEF Promise!vars
<1>3. CASE record' # record
  <2>1. /\ worker = "writes" /\ record' = Ready(target)
        /\ app \in {"open", "exiting"} /\ target \in Versions
    BY <1>3
    DEF StagesOn, Stages, StageReads, StageDownloads, StageWrites, StageTidies, StagingAt,
        recordVars, IInv, TypeOK, UpdaterTypeOK
  <2>2. target \in agreed /\ record.phase # "launched"
    BY <2>1 DEF IInv, StagingInv, WorkerInv
  <2>3. ProgramOf = "runs"
    BY <2>1, ProgramIs
  <2>4. Promise!Stages(target)
    BY <1>1, <2>1, <2>2, <2>3 DEF Promise!Stages, Promise!Ready, Ready
  <2> QED
    BY <2>1, <2>4 DEF Promise!Next, Promise!Versions, Versions
<1> QED
  BY <1>2, <1>3

\* Only the record of the installed version is removed.
LEMMA ClearsIsPromised == IInv /\ Clears => [Promise!Next]_(Promise!vars)
<1> SUFFICES ASSUME IInv, Clears PROVE [Promise!Next]_(Promise!vars)
  OBVIOUS
<1>1. UNCHANGED <<installed, installer, ProgramOf, agreed>>
  BY ProgramStays DEF Clears, worldVars
<1>2. CASE record' = record
  BY <1>1, <1>2 DEF Promise!vars
<1>3. CASE record' # record
  <2>1. clear = "state" /\ record' = None
    BY <1>3 DEF Clears, ClearsDirectory, ClearsRecord
  <2>2. Applied /\ ProgramOf = "runs"
    BY <2>1, ProgramIs DEF IInv, ClearInv
  <2>3. record = Promise!Launched(installed)
    BY <2>2
    DEF IInv, TypeOK, UpdaterTypeOK, Applied, Records, None, Promise!Launched
  <2>4. Promise!Clears
    BY <1>1, <2>1, <2>2, <2>3 DEF Promise!Clears, Promise!None, None
  <2> QED
    BY <2>4 DEF Promise!Next
<1> QED
  BY <1>2, <1>3

\* The end of the program: it starts the installer that was agreed to, and only then
\* records it as launched.
LEMMA LeavesIsPromised == IInv /\ Leaves => Promise!Next
<1> SUFFICES ASSUME IInv, Leaves PROVE Promise!Next
  OBVIOUS
<1>1. CASE app = "exiting" /\ ~requested /\ Ends /\ UNCHANGED <<recordVars, worldVars, faults>>
  <2>1. Promise!Ends
    BY <1>1, ProgramIs, ProgramBecomes DEF Ends, Promise!Ends, recordVars, worldVars
  <2> QED
    BY <2>1 DEF Promise!Next
<1>2. CASE /\ app = "exiting" /\ requested /\ LaunchBegins
           /\ UNCHANGED <<staged, stageVars, worldVars, faults, clear, windowVars, other>>
  <2>1. ProgramOf = "runs" /\ UNCHANGED ProgramOf
    BY <1>2, ProgramIs, ProgramBecomes DEF LaunchBegins
  <2>2. record.version \in agreed
    BY <1>2, RequestedIsAgreed
  <2>3. Promise!Prepares
    BY <1>2, <2>1, <2>2
    DEF LaunchBegins, windowVars, worldVars, Promise!Prepares, Promise!Readies,
        Promise!Ready, Ready
  <2> QED
    BY <2>3 DEF Promise!Next
<1>3. CASE /\ app \in {"exiting", "launching"} /\ requested /\ LaunchFails /\ Ends
           /\ UNCHANGED <<staged, worldVars>>
  <2>1. ProgramOf = "runs" /\ ProgramOf' = "off"
    BY <1>3, ProgramIs, ProgramBecomes DEF Ends
  <2>2. record.version \in agreed
    BY <1>3, RequestedIsAgreed
  <2>3. record' = record \/ record' = Ready(record.version)
    BY <1>3 DEF LaunchFails, MarksFailure
  <2>4. Promise!Ends
    BY <1>3, <2>1, <2>2, <2>3
    DEF Ends, worldVars, Promise!Ends, Promise!Readies, Promise!Ready, Ready
  <2> QED
    BY <2>4 DEF Promise!Next
<1>4. CASE /\ app = "launching" /\ LaunchSpawns
           /\ UNCHANGED <<recordVars, stageVars, installed, release, faults, clear,
                          windowVars, other>>
  <2>1. ProgramOf = "runs" /\ ProgramOf' = "leaves"
    BY <1>4, ProgramIs, ProgramBecomes DEF LaunchSpawns
  <2>2. record = Ready(pending) /\ record.version \in agreed
    BY <1>4, RequestedIsAgreed DEF IInv, AgreedInv
  <2>3. Promise!Launches
    BY <1>4, <2>1, <2>2
    DEF LaunchSpawns, recordVars, windowVars, Promise!Launches, Ready
  <2> QED
    BY <2>3 DEF Promise!Next
<1>5. CASE app = "spawned" /\ LaunchRecords /\ Ends /\ UNCHANGED <<staged, worldVars>>
  <2>1. ProgramOf = "leaves" /\ ProgramOf' = "off"
    BY <1>5, ProgramIs, ProgramBecomes DEF Ends
  <2>2. record = Ready(pending)
    BY <1>5 DEF IInv, AgreedInv
  <2>3. record' = record \/ record' = Promise!Launched(record.version)
    BY <1>5, <2>2 DEF LaunchRecords, Ready, Promise!Launched
  <2>4. Promise!Ends
    BY <1>5, <2>1, <2>3 DEF Ends, worldVars, Promise!Ends
  <2> QED
    BY <2>4 DEF Promise!Next
<1> QED
  BY <1>1, <1>2, <1>3, <1>4, <1>5 DEF Leaves

\* The surroundings only install or give up what was started.
LEMMA WorldIsPromised == World => [Promise!Next]_(Promise!vars)
<1> SUFFICES ASSUME World PROVE [Promise!Next]_(Promise!vars)
  OBVIOUS
<1>1. UNCHANGED <<record, ProgramOf, agreed>>
  BY ProgramStays DEF World, recordVars, windowVars
<1>2. CASE Installs(other)
  BY <1>1, <1>2, ProgramIs DEF Installs, Promise!Installs, Promise!Next
<1>3. CASE InstallerAborts(other)
  BY <1>1, <1>3 DEF InstallerAborts, Promise!Aborts, Promise!Next
<1>4. CASE Publishes
  BY <1>1, <1>4 DEF Publishes, Promise!vars
<1> QED
  BY <1>2, <1>3, <1>4 DEF World

\* Start-up opens the program, a crash ends it.
LEMMA StartsAndCrashesArePromised == Starts \/ Crashes => Promise!Next
<1>1. ASSUME Starts PROVE Promise!Next
  <2>1. Promise!Opens
    BY <1>1, ProgramIs, ProgramBecomes
    DEF Starts, recordVars, worldVars, Promise!Opens
  <2> QED
    BY <2>1 DEF Promise!Next
<1>2. ASSUME Crashes PROVE Promise!Next
  <2>1. app # "off" /\ app' = "off"
    BY <1>2 DEF Crashes, Ends
  <2>2. Promise!Ends
    BY <1>2, <2>1, ProgramIs, ProgramBecomes
    DEF Crashes, Ends, recordVars, worldVars, Promise!Ends
  <2> QED
    BY <2>2 DEF Promise!Next
<1> QED
  BY <1>1, <1>2

\* Everything else goes on inside the window.
LEMMA OthersAreStutters ==
    ASSUME \/ RetriesClear \/ CheckBegins \/ CheckEnds \/ Clicks \/ Declines \/ StageEnds
           \/ AppliesWhenIdle \/ Closes \/ ActivityChanges \/ OtherComesOrGoes
           \/ UNCHANGED vars,
           IInv
    PROVE  UNCHANGED Promise!vars
<1>1. UNCHANGED <<installed, installer, record, agreed>>
  BY DEF RetriesClear, CheckBegins, CheckEnds, Clicks, Declines, StageEnds,
         AppliesWhenIdle, Closes, ActivityChanges, OtherComesOrGoes, updaterKept,
         updaterVars, windowVars, vars, recordVars, worldVars
<1>2. \/ app' = app
      \/ app = "open" /\ app' = "exiting"
  BY DEF RetriesClear, CheckBegins, CheckEnds, Clicks, Declines, StageEnds,
         AppliesWhenIdle, Closes, ActivityChanges, OtherComesOrGoes, WindowFree,
         updaterVars, vars
<1>3. UNCHANGED ProgramOf
  BY <1>2, ProgramStays, ProgramIs, ProgramBecomes
<1> QED
  BY <1>1, <1>3 DEF Promise!vars

\* Every step of the window keeps the promise.
LEMMA StepIsPromised == IInv /\ [Next]_vars => [Promise!Next]_(Promise!vars)
<1> SUFFICES ASSUME IInv, [Next]_vars PROVE [Promise!Next]_(Promise!vars)
  OBVIOUS
<1> QED
  BY AgreesIsPromised, StagesOnIsPromised, ClearsIsPromised, LeavesIsPromised,
     WorldIsPromised, StartsAndCrashesArePromised, OthersAreStutters
  DEF Next

\* The promise begins with the program that was never started.
LEMMA InitIsPromised == Init => Promise!Init
<1>1. Init => ProgramOf = "off"
  BY ProgramIs DEF Init, UpdaterInit
<1> QED
  BY <1>1 DEF Init, UpdaterInit, Promise!Init, Promise!None, None

\* Through crashes, failing writes, aborted installers and newer releases, the update's
\* life is the one that UpdatePromise tells (stage_update, launch_staged_installer_update,
\* mark_installer_launch_failure, _clear_update_state).
THEOREM UpdatesKeepThePromise == Spec => PromiseIsKept
  BY InvariantHolds, InitIsPromised, StepIsPromised, PTL DEF Spec, PromiseIsKept,
     Promise!Spec

\* A launched update stays on record until it is installed and removed, or until the user
\* agrees to launch the same version again: no other version takes its place.  (stage_update
\* refuses it; so the window that offers a newer release instead of a failed update cannot
\* stage it, which the run restage shows.)
THEOREM LaunchedIsNotReplaced ==
    Spec => [][record.phase = "launched" =>
                 \/ record' = record
                 \/ record' = Ready(record.version) /\ record.version \in agreed
                 \/ record' = None /\ record.version = installed]_vars
<1>1. IInv /\ [Next]_vars =>
        [record.phase = "launched" =>
                 \/ record' = record
                 \/ record' = Ready(record.version) /\ record.version \in agreed
                 \/ record' = None /\ record.version = installed]_vars
  <2> SUFFICES ASSUME IInv, Next, record.phase = "launched", record' # record
               PROVE  \/ record' = Ready(record.version) /\ record.version \in agreed
                      \/ record' = None /\ record.version = installed
    OBVIOUS
  <2>1. Promise!Next
    BY StepIsPromised DEF Promise!vars
  <2>2. CASE \E v \in Promise!Versions : Promise!Agrees(v) \/ Promise!Stages(v)
    BY <2>2 DEF Promise!Agrees, Promise!Stages
  <2>3. CASE Promise!Prepares
    BY <2>3 DEF Promise!Prepares, Promise!Readies, Promise!Ready, Ready
  <2>4. CASE Promise!Ends
    <3>1. CASE ProgramOf = "leaves"
      <4>1. app = "spawned"
        BY <3>1, ProgramIs
      <4> QED
        BY <4>1 DEF IInv, AgreedInv, Ready
    <3> QED
      BY <2>4, <3>1 DEF Promise!Ends, Promise!Readies, Promise!Ready, Ready
  <2>5. CASE Promise!Clears
    BY <2>5 DEF Promise!Clears, Promise!Launched, Promise!None, None
  <2> QED
    BY <2>1, <2>2, <2>3, <2>4, <2>5
    DEF Promise!Next, Promise!Opens, Promise!Launches, Promise!Installs, Promise!Aborts
<1> QED
  BY <1>1, InvariantHolds, PTL DEF Spec

=============================================================================
