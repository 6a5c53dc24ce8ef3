------------------------------ MODULE ChampSelect ------------------------------
(***************************************************************************)
(* The champion selection of cli_main (cli/entrypoint.py, ranked games):   *)
(* find the role, show the first candidate that can still be had, ban late *)
(* in the ban stage, then pick that candidate or, when the client refuses  *)
(* it, a reserve.  Runs against the session of ChampSelectSession, and     *)
(* falls back to the screen when the LCU does not answer.                  *)
(***************************************************************************)
EXTENDS ChampionAction

CONSTANT WithBan  \* the candidates that have a ban configured

ASSUME ConfigurationIsValid == WithBan \subseteq Pool

VARIABLES
    pc,      \* where the main thread is; "outer" while another part of it runs
    role,    \* the session in which the role, and with it the pool, was found
    index,   \* pick_index: the candidate to be picked
    known,   \* the champion ids of the pool are known (availability_candidate_ids)
    watched, \* session_identity of the ban loop, 0 before its first read
    seen,    \* what that loop read in its latest snapshot
    trial,   \* next_idx: the reserve being tried
    missed,  \* passes of a loop begun since the session has gone
    swift    \* a session has opened before any read could miss the one before

pickVars == <<index, known, watched, seen, trial>>
vars     == <<sessionVars, actionVars, pc, role, pickVars, missed, swift>>

Callers == {"prepick", "rehover", "banTry", "try", "reserve", "imageReserve"}
Loops   == {"ban", "pick"}
PCs     == {"outer", "role", "prepare", "prepickImage", "banDecide", "commit",
            "banImage", "image", "won"} \cup Loops \cup Callers

\* A queue and a ready check lie between two champion selects: longer than it takes for
\* one pass of a loop, each a second long, to see that the session has gone.
PassesPerGap == MaxFaults + 1

TypeOK ==
    /\ SessionTypeOK
    /\ ActionTypeOK
    /\ pc \in PCs
    /\ role \in 0 .. MaxGames
    /\ index \in Pool
    /\ known \in BOOLEAN
    /\ watched \in 0 .. MaxGames
    /\ seen \in {"nothing", "pick"} \cup BanStages
    /\ trial \in Pool
    /\ missed \in 0 .. PassesPerGap
    /\ swift \in BOOLEAN

Init ==
    /\ SessionInit
    /\ ActionInit
    /\ pc = "outer" /\ role = 0
    /\ index = 1 /\ known = FALSE /\ watched = 0 /\ seen = "nothing" /\ trial = 1
    /\ missed = 0 /\ swift = FALSE

-----------------------------------------------------------------------------
\* choose_available_pick_index over the champions a snapshot shows as taken; when none
\* is left the candidate stays.
Preferred(current) ==
    LET free == Pool \ taken
    IN  IF free = {} THEN current ELSE CHOOSE c \in free : \A d \in free : c <= d

\* _reconcile_pick_pool_availability
Reconciles(current) ==
    \/ ReadSucceeds /\ index' = IF known /\ open THEN Preferred(current) ELSE current
    \/ known /\ ReadFails /\ index' = current

PhaseUnguarded(answer) ==
    \/ answer = "in" /\ ReadSucceeds
    \/ answer = "unknown" /\ ReadFails

\* _guard_champ_select_phase_exit: still in champion select, out of it, or no answer.
Phase(answer) ==
    \/ answer = "in" /\ open /\ ReadSucceeds
    \/ answer = "out" /\ ~open /\ ReadSucceeds
    \/ answer = "unknown" /\ ReadFails

\* detect_match_reset: what ends a search on the screen.
MatchReset == Phase("out")

\* The result of the call made at one place, taken note of.
Got(caller, results) == pc = caller /\ step = "idle" /\ result \in results

Waits == {"wait", "rejected"}

\* The screen: it shows the stage, and the champion typed into its search field.
HoversOnScreen(champ) ==
    /\ open /\ ~done["pick"] /\ champ \notin Blocked
    /\ hover' = [hover EXCEPT !["pick"] = champ]
    /\ UNCHANGED <<game, open, stage, taken, done, lock, refused, sent, faults>>

-----------------------------------------------------------------------------
(* Role and prepick.                                                       *)

\* The main loop has read ChampSelect and a ranked queue.
SelectBegins ==
    /\ pc = "outer" /\ open
    /\ pc' = "role"
    /\ UNCHANGED <<sessionVars, actionVars, role, pickVars>>

\* _detect_role_lcu_first_with_retry_attempt; when the LCU does not answer, the role is
\* found on the screen or the loop left.
DetectsRole ==
    /\ pc = "role"
    /\ \/ open /\ (ReadSucceeds \/ ReadFails) /\ role' = game /\ pc' = "prepare"
       \/ ~open /\ ReadSucceeds /\ pc' = "outer" /\ UNCHANGED role
       \/ ReadFails /\ pc' = "outer" /\ UNCHANGED role
    /\ UNCHANGED <<actionVars, pickVars>>

\* The first reconciliation, then the prepick call.  Ids that could not be resolved
\* now are not asked for again in this champion select.
PreparesPick ==
    /\ pc = "prepare"
    /\ \/ known' = TRUE /\ ReadSucceeds /\ index' = IF open THEN Preferred(1) ELSE 1
       \/ known' \in BOOLEAN /\ ReadFails /\ index' = 1
       \/ known' = FALSE /\ ~open /\ ReadSucceeds /\ index' = 1
    /\ Calls("pick", index', FALSE)
    /\ pc' = "prepick"
    /\ UNCHANGED <<role, watched, seen, trial>>

BanLoopBegins == pc' = "ban" /\ watched' = 0 /\ seen' = "nothing"

PrepickGoesOn ==
    /\ \/ Got("prepick", {"done"}) /\ ReadSucceeds /\ BanLoopBegins /\ Consumed
       \/ Got("prepick", {"image"}) /\ ReadSucceeds
             /\ pc' = "prepickImage" /\ Consumed /\ UNCHANGED <<watched, seen>>
       \/ Got("prepick", Waits) /\ UNCHANGED <<watched, seen>>
             /\ \/ Phase("out") /\ pc' = "outer" /\ Consumed
                \/ Phase("unknown") /\ pc' = "prepickImage" /\ Consumed
                \/ Phase("in") /\ pc' = pc /\ Calls("pick", index, FALSE)
    /\ UNCHANGED <<role, index, known, trial>>

\* Three seconds are over: on without a prepick.
PrepickTimesOut ==
    /\ Got("prepick", Waits) /\ Phase("in")
    /\ BanLoopBegins
    /\ Consumed
    /\ UNCHANGED <<role, index, known, trial>>

\* The search field of the client: not found, the candidate typed in and clicked, with or
\* without effect, or given up.
PrepicksOnScreen ==
    /\ pc = "prepickImage"
    /\ \/ /\ MatchReset \/ ReadSucceeds
          /\ pc' = "outer"
          /\ UNCHANGED <<watched, seen>>
       \/ (HoversOnScreen(index) \/ ReadSucceeds) /\ BanLoopBegins
    /\ UNCHANGED <<actionVars, role, index, known, trial>>

-----------------------------------------------------------------------------
(* The ban: _wait_for_late_ban_and_reconcile_pick_pool.                    *)

AnySession == open

SameSession == open /\ watched \in {0, game}

\* One snapshot serves the whole pass, also after the call that shows a new prepick.
BanReads ==
    /\ pc = "ban"
    /\ \/ /\ ReadFails \/ (~SameSession /\ ReadSucceeds)
          /\ pc' = "outer"
          /\ UNCHANGED <<actionVars, index, watched, seen>>
       \/ /\ SameSession /\ ReadSucceeds
          /\ watched' = game
          /\ index' = IF known THEN Preferred(index) ELSE index
          /\ seen' = IF InProgress("pick") THEN "pick"
                     ELSE IF InProgress("ban") THEN stage ELSE "nothing"
          /\ IF index' = index
             THEN pc' = "banDecide" /\ UNCHANGED actionVars
             ELSE pc' = "rehover" /\ Calls("pick", index', FALSE)
    /\ UNCHANGED <<role, known, trial>>

Rehovered ==
    /\ Got("rehover", Results \ {"none"})
    /\ pc' = "banDecide"
    /\ Consumed
    /\ UNCHANGED <<sessionVars, role, pickVars>>

BanDecidesTooEarly ==
    /\ pc = "banDecide"
    /\ CASE seen = "pick"     -> ReadSucceeds /\ pc' = "pick"
         [] seen = "ban"      -> ReadSucceeds /\ pc' = "ban"
         [] seen = "banEarly" -> ReadSucceeds /\ pc' = "commit"
         [] OTHER             -> \/ Phase("out") /\ pc' = "outer"
                                 \/ (Phase("in") \/ Phase("unknown")) /\ pc' = "ban"
    /\ UNCHANGED <<actionVars, role, pickVars>>

BanDecides ==
    /\ pc = "banDecide"
    /\ CASE seen = "pick"     -> ReadSucceeds /\ pc' = "pick"
         [] seen = "ban"      -> ReadSucceeds /\ pc' = "commit"
         [] seen = "banEarly" -> ReadSucceeds /\ pc' = "ban"
         [] OTHER             -> \/ Phase("out") /\ pc' = "outer"
                                 \/ (Phase("in") \/ Phase("unknown")) /\ pc' = "ban"
    /\ UNCHANGED <<actionVars, role, pickVars>>

\* _commit_ban_with_timing
CommitsBan ==
    /\ pc = "commit"
    /\ \/ /\ ReadFails \/ (~SameSession /\ ReadSucceeds)
          /\ pc' = "outer"
          /\ UNCHANGED actionVars
       \/ /\ SameSession /\ ReadSucceeds
          /\ IF index \in WithBan
             THEN pc' = "banTry" /\ Calls("ban", BanTarget, TRUE)
             ELSE pc' = "pick" /\ UNCHANGED actionVars
    /\ UNCHANGED <<role, pickVars>>

\* _wait_champ_select_action_via_lcu of the ban: again every second until the own pick
\* has begun, or twenty seconds are over.
BanGoesOn ==
    /\ \/ Got("banTry", {"done"}) /\ ReadSucceeds /\ pc' = "pick" /\ Consumed
       \/ Got("banTry", {"image"}) /\ ReadSucceeds /\ pc' = "banImage" /\ Consumed
       \/ Got("banTry", Waits)
             /\ \/ Phase("out") /\ pc' = "outer" /\ Consumed
                \/ Phase("unknown") /\ pc' = "banImage" /\ Consumed
                \/ Phase("in") /\ IF InProgress("pick")
                                  THEN pc' = "pick" /\ Consumed
                                  ELSE pc' = pc /\ Calls("ban", BanTarget, TRUE)
    /\ UNCHANGED <<role, pickVars>>

BanTimesOut ==
    /\ Got("banTry", Waits) /\ Phase("in")
    /\ pc' = "pick"
    /\ Consumed
    /\ UNCHANGED <<role, pickVars>>

\* The loop over the screen of the ban stage leaves with the phase, when the client has no
\* window that can be seen, and when a click comes to nothing.
BansOnScreen ==
    /\ pc = "banImage"
    /\ \/ ReadSucceeds /\ pc' = "outer"
       \/ /\ InProgress("ban") /\ BanTarget \notin Blocked
          /\ Completes("ban", BanTarget, "image")
          /\ hover' = [hover EXCEPT !["ban"] = BanTarget]
          /\ UNCHANGED <<game, open, stage, refused, sent, faults>>
          /\ pc' = "pick"
    /\ UNCHANGED <<actionVars, role, pickVars>>

-----------------------------------------------------------------------------
(* The pick.                                                               *)

PickPass ==
    /\ pc = "pick"
    /\ Reconciles(index)
    /\ Calls("pick", index', TRUE)
    /\ pc' = "try"
    /\ UNCHANGED <<role, known, watched, seen, trial>>

TriesReserveTooFar(after, caller) ==
    IF after <= PoolSize
    THEN pc' = caller /\ trial' = after + 1 /\ Calls("pick", after + 1, TRUE)
    ELSE pc' = "pick" /\ Consumed /\ UNCHANGED trial

\* for next_idx in range(pick_index + 1, len(pick_pool))
TriesReserve(after, caller) ==
    IF after < PoolSize
    THEN pc' = caller /\ trial' = after + 1 /\ Calls("pick", after + 1, TRUE)
    ELSE pc' = "pick" /\ Consumed /\ UNCHANGED trial


Picked(candidate) == pc' = "won" /\ index' = candidate /\ Consumed /\ UNCHANGED trial

NextPass == pc' = "pick" /\ Consumed /\ UNCHANGED <<index, trial>>

LeavesPick == Phase("out") /\ pc' = "outer" /\ Consumed /\ UNCHANGED <<index, trial>>

TryGoesOn ==
    /\ \/ Got("try", {"done"}) /\ ReadSucceeds /\ Picked(index)
       \/ Got("try", {"image"}) /\ ReadSucceeds
             /\ pc' = "image" /\ Consumed /\ UNCHANGED <<index, trial>>
       \/ Got("try", Waits)
             /\ \/ LeavesPick
                \/ Phase("unknown") /\ pc' = "image" /\ Consumed /\ UNCHANGED <<index, trial>>
                \/ result = "wait" /\ Phase("in") /\ NextPass
                \/ result = "rejected" /\ Phase("in")
                      /\ TriesReserve(index, "reserve") /\ UNCHANGED index
    /\ UNCHANGED <<role, known, watched, seen>>

\* No answer to a reserve leads to the next pass: the first result, a refusal, is the one
\* looked at after the loop over the reserves.
ReserveGoesOn ==
    /\ \/ Got("reserve", {"done"}) /\ ReadSucceeds /\ Picked(trial)
       \/ Got("reserve", {"image"}) /\ ReadSucceeds /\ NextPass
       \/ Got("reserve", Waits)
             /\ \/ LeavesPick
                \/ Phase("unknown") /\ NextPass
                \/ result = "wait" /\ Phase("in") /\ NextPass
                \/ result = "rejected" /\ Phase("in")
                      /\ TriesReserve(trial, "reserve") /\ UNCHANGED index
    /\ UNCHANGED <<role, known, watched, seen>>

ClicksReady(champ) ==
    /\ InProgress("pick") /\ champ \notin Blocked \cup {NoChampion}
    /\ hover' = [hover EXCEPT !["pick"] = champ]
    /\ Completes("pick", champ, "image")
    /\ UNCHANGED <<game, open, stage, refused, sent, faults>>

LeavesScreen == MatchReset /\ pc' = "outer" /\ Consumed /\ UNCHANGED <<index, trial>>

PicksOnScreenOnly ==
    /\ pc = "image"
    /\ \/ LeavesScreen
       \/ ClicksReady(hover["pick"]) /\ Picked(index)
    /\ UNCHANGED <<role, known, watched, seen>>

\* The ready button: clicked when it can be; when it is grey in the own turn, the
\* candidate counts as banned and the reserves are tried.
PicksOnScreen ==
    /\ pc = "image"
    /\ \/ LeavesScreen
       \/ ClicksReady(hover["pick"]) /\ Picked(index)
       \/ PickForfeited /\ ReadSucceeds /\ TriesReserve(index, "imageReserve") /\ UNCHANGED index
       \/ ReadSucceeds /\ NextPass
    /\ UNCHANGED <<role, known, watched, seen>>

\* As above, with the search field for a reserve the LCU does not answer for.
ImageReserveGoesOn ==
    /\ \/ Got("imageReserve", {"done"}) /\ ReadSucceeds /\ Picked(trial)
       \/ Got("imageReserve", Waits)
             /\ \/ LeavesPick
                \/ Phase("in") /\ NextPass
                \/ Phase("unknown") /\ pc' = pc /\ Returns("image") /\ UNCHANGED <<index, trial>>
       \/ Got("imageReserve", {"image"})
             /\ \/ ClicksReady(trial) /\ Picked(trial)
                \/ /\ ReadSucceeds \/ HoversOnScreen(trial)
                   /\ NextPass \/ (TriesReserve(trial, "imageReserve") /\ UNCHANGED index)
    /\ UNCHANGED <<role, known, watched, seen>>

\* PostgameController.wait_for_game has the main thread until the session is over.
WaitEnds ==
    /\ pc = "won"
    /\ Phase("out")
    /\ pc' = "outer"
    /\ UNCHANGED <<actionVars, role, pickVars>>

-----------------------------------------------------------------------------
ProgramSteps ==
    \/ SelectBegins \/ DetectsRole \/ PreparesPick
    \/ PrepickGoesOn \/ PrepickTimesOut \/ PrepicksOnScreen
    \/ BanReads \/ Rehovered \/ BanDecides \/ CommitsBan
    \/ BanGoesOn \/ BanTimesOut \/ BansOnScreen
    \/ PickPass \/ TryGoesOn \/ ReserveGoesOn \/ PicksOnScreen \/ ImageReserveGoesOn
    \/ WaitEnds
    \/ ActionSteps /\ UNCHANGED <<pc, role, pickVars>>

Program ==
    /\ ProgramSteps
    /\ missed' = IF pc \in Loops /\ ~open /\ missed < PassesPerGap
                 THEN missed + 1 ELSE missed
    /\ UNCHANGED swift

mainKept == <<actionVars, pc, role, pickVars>>

\* The program has had the time to miss the session that is gone.
GapIsSeen == ~open /\ (pc = "outer" \/ (missed = PassesPerGap /\ pc \in Loops))

Opens ==
    /\ SessionOpens
    /\ missed' = 0
    /\ swift' = (swift \/ ~GapIsSeen)
    /\ UNCHANGED mainKept

\* The planning stage lasts longer than a ban begun in the session before it.
Advances ==
    /\ stage = "plan" => pc \notin {"commit", "banTry"}
    /\ StageEnds
    /\ UNCHANGED <<mainKept, missed, swift>>

Client ==
    \/ Opens
    \/ Advances
    \/ ClientMoves /\ UNCHANGED <<mainKept, missed, swift>>

Next == Program \/ Client

Spec == Init /\ [][Next]_vars

\* With the window in sight, the loop waits for the ban stage as long as the phase lasts.
WaitsForBanStage == pc = "banImage" /\ open /\ ~InProgress("ban")

Fairness ==
    /\ WF_vars(Program /\ ~WaitsForBanStage)
    /\ SF_vars(Program /\ PrepickTimesOut)
    /\ WF_vars(WriteLands /\ UNCHANGED <<mainKept, missed, swift>>)

FairSpec == Spec /\ Fairness

-----------------------------------------------------------------------------
(* Properties.                                                             *)

\* The program completes the pick over the LCU with a candidate.  (An assignment that is
\* never seen to land is completed all the same: then the champion is the one the
\* user looked at before, if there was one.)
LocksCandidate == lock.by = "nobody" /\ lock'.by = "lcu" /\ lock'.champ \in Pool

\* Reserve picks are for a preferred candidate that cannot be had: as long as every
\* request is answered and no session replaces another unseen, the program completes one
\* over the LCU only when every candidate before it is taken or refused (the pick loop of
\* cli_main, choose_available_pick_index).
ReserveOnlyWhenBlocked ==
    [][LocksCandidate /\ faults = 0 /\ ~swift =>
            \A c \in Pool : c < lock'.champ => c \in Blocked]_vars

\* The candidate that is completed comes from the pool of the role of this very
\* champion select (_guard_champ_select_phase_exit in each waiting loop), as long as each
\* session is missed by a read before the next one opens.
PickBelongsToSession == [][LocksCandidate /\ ~swift => role = game]_vars

\* The program waits for the game to start only when the pick is completed: a request that
\* was accepted and then dropped by the client is not taken for a pick
\* (_wait_for_action_completed).  The candidate it goes on with is then the one that was
\* completed: no result of a call is one of another candidate's action, as long as every
\* request is answered (a completion whose answer is lost lands behind the back of the
\* program).  A session that replaces this one unseen has its own pick.
PickedIsConfirmed ==
    pc = "won" /\ open /\ ~swift =>
        /\ done["pick"]
        /\ faults = 0 /\ lock.by = "lcu" /\ lock.champ \in Pool => lock.champ = index

\* The ban goes to the session the ban loop has been watching, even when one session
\* replaces another between two reads; only a lost answer can carry it over (session_identity).
BanBelongsToSession ==
    [][(~done["ban"] /\ done'["ban"] /\ stage = "ban" /\ stage' = stage
            /\ faults = 0) => watched = game]_vars

\* In the own turn, if it lasts, a candidate that can be had is picked: no loop before
\* the pick keeps the program from it (superseded_by_pick, the pick loop).
PickHappens ==
    (InProgress("pick") /\ Pool \ Blocked # {})
        ~> (done["pick"] \/ ~open \/ Pool \subseteq Blocked)

\* A request without an answer on the way does not keep it from that, unless it has put
\* the program before the screen of the ban stage.
PickSurvivesLostAnswer ==
    (InProgress("pick") /\ Pool \ Blocked # {} /\ pc # "banImage")
        ~> (done["pick"] \/ ~open \/ Pool \subseteq Blocked \/ pc = "banImage")

BeforeBan == {"outer", "role", "prepare", "prepick", "ban", "rehover", "banDecide", "commit"}

\* Late in the ban stage, if it lasts and all requests are answered from then on, the
\* configured ban is made, provided that the champion can be banned
\* (_wait_for_late_ban_and_reconcile_pick_pool).
BanHappens ==
    (/\ pc \in BeforeBan /\ faults = MaxFaults
     /\ InProgress("ban") /\ stage = "ban" /\ WithBan = Pool)
        ~> (done["ban"] \/ ~open \/ BanTarget \in Blocked)

=============================================================================
