---------------------------- MODULE AutoBanRefresh ----------------------------
(***************************************************************************)
(* AutoBanRefreshCoordinator (core/auto_ban_refresh.py): keeps the ban     *)
(* recommendations of every configured pick fresh.  The GUI thread starts  *)
(* a new generation whenever the configuration changes, runs the timer     *)
(* callbacks and closes; one background thread per refresh does the work   *)
(* and schedules the next one.  A step is what a thread does under the     *)
(* state lock, or between two holds of it.                                 *)
(***************************************************************************)
EXTENDS Naturals, FiniteSets

CONSTANTS
    Keys,           \* the (role, champion) keys a target can have
    MaxGeneration,  \* bound: configuration changes, and the closing, in one behaviour
    Slots           \* refreshes the semaphore lets through at once (2 in the code)

ASSUME MaxGenerationAssumption == MaxGeneration \in Nat
ASSUME SlotsAssumption == Slots \in Nat \ {0}

VARIABLES
    closed,      \* _closed
    generation,  \* _generation
    targets,     \* the keys of _targets
    inFlight,    \* _in_flight
    todo,        \* the targets start() has yet to hand to the timer
    calls,       \* how many timer callbacks wait, by key, generation and delay
    workers,     \* the refreshes between _begin_refresh and the end of _finish_refresh
    begun        \* history: the generation of the last refresh begun, by key

vars == <<closed, generation, targets, inFlight, todo, calls, workers, begun>>

Generations == 0 .. MaxGeneration

\* At once, AUTO_BAN_REFRESH_SUCCESS_MS and AUTO_BAN_REFRESH_RETRY_MS.
Delays == {"now", "success", "retry"}

Calls == [Keys -> [Generations -> [Delays -> Nat]]]

(* A worker: what it refreshes and for which generation, how far it is,    *)
(* how the refresh went, the generation _finish_refresh found, and whether *)
(* it runs on the GUI thread because no thread could be started.           *)
Workers ==
    [key : Keys, gen : Generations,
     at : {"queued", "refreshing", "finishing", "rescheduling", "calling"},
     ok : BOOLEAN, found : Generations, onGui : BOOLEAN]

TypeOK ==
    /\ closed \in BOOLEAN
    /\ generation \in Generations
    /\ targets \in SUBSET Keys
    /\ inFlight \in SUBSET Keys
    /\ todo \in SUBSET Keys
    /\ calls \in Calls
    /\ workers \in SUBSET Workers
    /\ begun \in [Keys -> Generations]

Init ==
    /\ closed = FALSE
    /\ generation = 0
    /\ targets = {}
    /\ inFlight = {}
    /\ todo = {}
    /\ calls = [k \in Keys |-> [g \in Generations |-> [d \in Delays |-> 0]]]
    /\ workers = {}
    /\ begun = [k \in Keys |-> 0]

-----------------------------------------------------------------------------
(* The GUI thread runs one call to its end before the next.                *)
GuiFree == todo = {} /\ \A w \in workers : ~w.onGui

StartSchedulesAll(T) ==
    /\ GuiFree
    /\ ~closed
    /\ generation < MaxGeneration
    /\ generation' = generation + 1
    /\ targets' = T
    /\ todo' = T
    /\ UNCHANGED <<closed, inFlight, calls, workers, begun>>

StartSchedulesNew(T) ==
    /\ GuiFree
    /\ ~closed
    /\ generation < MaxGeneration
    /\ generation' = generation + 1
    /\ targets' = T
    /\ todo' = T \ (inFlight \cup targets)
    /\ UNCHANGED <<closed, inFlight, calls, workers, begun>>

\* start(), on T as just read from the configuration.  A running worker schedules
\* its target itself when it finishes.
Start(T) ==
    /\ GuiFree
    /\ ~closed
    /\ generation < MaxGeneration
    /\ generation' = generation + 1
    /\ targets' = T
    /\ todo' = T \ inFlight
    /\ UNCHANGED <<closed, inFlight, calls, workers, begun>>

\* _schedule_target, called by start() after it has let go of the lock.
ScheduleTarget(k) ==
    /\ k \in todo
    /\ todo' = todo \ {k}
    /\ calls' = [calls EXCEPT ![k][generation]["now"] = @ + 1]
    /\ UNCHANGED <<closed, generation, targets, inFlight, workers, begun>>

Close ==
    /\ GuiFree
    /\ ~closed
    /\ generation < MaxGeneration
    /\ closed' = TRUE
    /\ generation' = generation + 1
    /\ targets' = {}
    /\ UNCHANGED <<inFlight, todo, calls, workers, begun>>

Outdated(k, g) == closed \/ g # generation \/ k \in inFlight

TakesUnrecorded(k, g) ==
    /\ UNCHANGED inFlight
    /\ begun' = [begun EXCEPT ![k] = g]

Takes(k, g) ==
    /\ inFlight' = inFlight \cup {k}
    /\ begun' = [begun EXCEPT ![k] = g]

\* A callback that is due: _begin_refresh starts a thread, unless that fails.
BeginRefresh(k, g, d) ==
    /\ GuiFree
    /\ calls[k][g][d] > 0
    /\ calls' = [calls EXCEPT ![k][g][d] = @ - 1]
    /\ \/ Outdated(k, g) /\ UNCHANGED <<inFlight, workers, begun>>
       \/ /\ ~Outdated(k, g)
          /\ Takes(k, g)
          /\ \E started \in BOOLEAN :
                workers' = workers \cup
                    {[key |-> k, gen |-> g,
                      at |-> IF started THEN "queued" ELSE "finishing",
                      ok |-> FALSE, found |-> g, onGui |-> ~started]}
    /\ UNCHANGED <<closed, generation, targets, todo>>

-----------------------------------------------------------------------------
(* The background threads.                                                 *)
Ends(w)       == workers' = workers \ {w}
Becomes(w, v) == workers' = (workers \ {w}) \cup {v}

AtWork == {w \in workers : w.at = "refreshing"}

\* The semaphore lets a few refreshes through at a time.
Acquire(w) ==
    /\ w.at = "queued"
    /\ Cardinality(AtWork) < Slots
    /\ Becomes(w, [w EXCEPT !.at = "refreshing"])
    /\ UNCHANGED <<closed, generation, targets, inFlight, todo, calls, begun>>

\* _refresh_target returns, or raises, which counts as a failure.
Refresh(w) ==
    /\ w.at = "refreshing"
    /\ \E ok \in BOOLEAN : Becomes(w, [w EXCEPT !.at = "finishing", !.ok = ok])
    /\ UNCHANGED <<closed, generation, targets, inFlight, todo, calls, begun>>

FoundOwn(w)  == w.gen
FoundNext(w) == generation + 1

\* The generation a finishing refresh finds: the current one.
Found(w) == generation

\* The critical section of _finish_refresh.
Finish(w) ==
    /\ w.at = "finishing"
    /\ inFlight' = inFlight \ {w.key}
    /\ IF closed \/ w.key \notin targets
       THEN Ends(w)
       ELSE Becomes(w, [w EXCEPT !.at = "rescheduling", !.found = Found(w)])
    /\ UNCHANGED <<closed, generation, targets, todo, calls, begun>>

\* The check of _schedule_target ...
Reschedule(w) ==
    /\ w.at = "rescheduling"
    /\ IF closed \/ w.found # generation
       THEN Ends(w)
       ELSE Becomes(w, [w EXCEPT !.at = "calling"])
    /\ UNCHANGED <<closed, generation, targets, inFlight, todo, calls, begun>>

DelayByResult(w) == IF w.ok THEN "success" ELSE "retry"

\* The configuration changed during the refresh: again, at once.
DelayAfter(w) ==
    CASE w.gen # w.found -> "now"
      [] w.gen = w.found /\ w.ok -> "success"
      [] w.gen = w.found /\ ~w.ok -> "retry"

\* ... and the timer call that follows it without the lock.
Call(w) ==
    /\ w.at = "calling"
    /\ calls' = [calls EXCEPT ![w.key][w.found][DelayAfter(w)] = @ + 1]
    /\ Ends(w)
    /\ UNCHANGED <<closed, generation, targets, inFlight, todo, begun>>

WorkerStep(w) == Acquire(w) \/ Refresh(w) \/ Finish(w) \/ Reschedule(w) \/ Call(w)

GuiStep ==
    \/ \E T \in SUBSET Keys : Start(T)
    \/ \E k \in Keys : ScheduleTarget(k)
    \/ \E k \in Keys, g \in Generations, d \in Delays : BeginRefresh(k, g, d)
    \/ Close

Next == GuiStep \/ \E w \in workers : WorkerStep(w)

Spec == Init /\ [][Next]_vars

(* Threads run, also those waiting for the semaphore, whose queue is first *)
(* in, first out, and so are the timer callbacks that are due.  When a     *)
(* long delay ends is left open.                                           *)
BeginsNow(k, g) == BeginRefresh(k, g, "now")
Fairness ==
    /\ \A k \in Keys :
          /\ WF_vars(ScheduleTarget(k))
          /\ WF_vars(\E w \in workers : w.key = k /\ ~(w.at = "queued") /\ WorkerStep(w))
          /\ SF_vars(\E w \in workers : w.key = k /\ Acquire(w))
    /\ \A k \in Keys, g \in Generations : SF_vars(BeginsNow(k, g))

FairSpec == Spec /\ Fairness

-----------------------------------------------------------------------------
(* Properties.                                                             *)

(* Who sees to it that target k is refreshed again in this generation.     *)
Active          == {w \in workers : w.at \in {"queued", "refreshing", "finishing"}}
InTodo(k)       == k \in todo
Waiting(k, d)   == calls[k][generation][d] > 0
Refreshing(k)   == \E w \in Active : w.key = k
Handing(w, k)   == w.key = k /\ w.at \in {"rescheduling", "calling"} /\ w.found = generation
HandedOver(k)   == \E w \in workers : Handing(w, k)

\* A configured target is never dropped: whatever the order of configuration
\* changes, callbacks and finishing threads, somebody will refresh it again
\* ("The newest generation must not be dropped as a duplicate", start()).
NoTargetIsDropped ==
    \A k \in targets : InTodo(k) \/ Refreshing(k) \/ HandedOver(k)
                          \/ \E d \in Delays : Waiting(k, d)

\* Nor is it refreshed by two chains of callbacks: all the ways of NoTargetIsDropped
\* exclude each other, and none of them exists twice.
NoTargetIsDoubled ==
    \A k \in Keys :
        /\ InTodo(k) => ~Refreshing(k) /\ ~HandedOver(k) /\ \A d \in Delays : ~Waiting(k, d)
        /\ Refreshing(k) => ~HandedOver(k) /\ \A d \in Delays : ~Waiting(k, d)
        /\ HandedOver(k) => \A d \in Delays : ~Waiting(k, d)
        /\ \A v, w \in workers : Handing(v, k) /\ Handing(w, k) => v = w
        /\ \A d \in Delays : calls[k][generation][d] <= 1
        /\ \A d, e \in Delays : Waiting(k, d) /\ Waiting(k, e) => d = e

\* One target is worked on by one thread: between the start and the end of its
\* refresh no second one begins (_in_flight).
OneRefreshPerTarget ==
    \A v, w \in Active : v.key = w.key => v = w

\* A long wait begins only after a refresh with the newest configuration: one that
\* was overtaken by a change is repeated at once, not in an hour or a day.
LongWaitOnlyForNewest ==
    \A k \in Keys, d \in Delays \ {"now"} : Waiting(k, d) => begun[k] = generation

(* When the next refresh of target k is due, as RefreshDuty tells it.      *)
Repeats(w) == w.gen # w.found

Soon(k) ==
    \/ InTodo(k) \/ Waiting(k, "now")
    \/ \E w \in workers : Handing(w, k) /\ Repeats(w)
Later(k) ==
    \/ \E d \in Delays \ {"now"} : Waiting(k, d)
    \/ \E w \in workers : Handing(w, k) /\ ~ Repeats(w)
DutyOf(k) ==
    IF Refreshing(k) THEN "atWork"
    ELSE IF Soon(k) THEN "soon" ELSE IF Later(k) THEN "later" ELSE "none"

Promise == INSTANCE RefreshDuty WITH
    wanted <- targets,
    stale  <- {k \in Keys : begun[k] # generation},
    duty   <- [k \in Keys |-> DutyOf(k)]

\* The threads, the callbacks and the todo list are one duty per target, which passes from
\* hand to hand between the holds of the lock and is neither lost, doubled, put off too long
\* nor kept up for what is no target any more.  (start, _begin_refresh, _finish_refresh)
DutyIsKept == Promise!Spec

\* A configuration that stays is used: each of its targets is refreshed with it.
NewestIsRefreshed ==
    \A k \in Keys :
        (k \in targets /\ begun[k] # generation)
            ~> (k \notin targets \/ begun[k] = generation)

=============================================================================
