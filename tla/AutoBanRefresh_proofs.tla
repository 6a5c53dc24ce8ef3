------------------------- MODULE AutoBanRefresh_proofs -------------------------
(***************************************************************************)
(* For any number of targets, configuration changes and slots: no target   *)
(* is dropped, none is refreshed by two chains of callbacks, and the       *)
(* coordinator implements RefreshDuty.                                     *)
(***************************************************************************)
EXTENDS AutoBanRefresh, TLAPS

(* Nothing belongs to a generation that has not begun; a key is in flight  *)
(* exactly while a worker has it; and a refresh of the current generation  *)
(* is the last one begun for its key.                                      *)
NothingAhead ==
    /\ \A k \in Keys, g \in Generations, d \in Delays : g > generation => calls[k][g][d] = 0
    /\ \A w \in workers : w.gen <= generation /\ w.found <= generation

InFlightIsActive == \A k \in Keys : k \in inFlight <=> Refreshing(k)

ClosedHasNone == closed => targets = {}

LatestBegun == \A w \in workers : w.gen = generation => begun[w.key] = generation

RefreshInv ==
    /\ TypeOK
    /\ NothingAhead
    /\ InFlightIsActive
    /\ ClosedHasNone
    /\ LatestBegun
    /\ NoTargetIsDropped
    /\ NoTargetIsDoubled
    /\ OneRefreshPerTarget
    /\ LongWaitOnlyForNewest
-----------------------------------------------------------------------------
LEMMA InitHolds == Init => RefreshInv
<1> SUFFICES ASSUME Init PROVE RefreshInv
  OBVIOUS
<1> USE DEF Init
<1>1. 0 \in Generations
  BY MaxGenerationAssumption DEF Generations
<1>2. TypeOK
  BY <1>1 DEF TypeOK, Calls
<1>3. \A k \in Keys, g \in Generations, d \in Delays : calls[k][g][d] = 0
  OBVIOUS
<1>4. NothingAhead
  BY <1>3 DEF NothingAhead
<1>5. InFlightIsActive /\ ClosedHasNone /\ LatestBegun /\ NoTargetIsDropped /\ OneRefreshPerTarget
  BY DEF InFlightIsActive, ClosedHasNone, LatestBegun, NoTargetIsDropped, OneRefreshPerTarget,
         Active, Refreshing
<1>6. NoTargetIsDoubled
  BY <1>1, <1>3 DEF NoTargetIsDoubled, InTodo, Refreshing, Active, HandedOver, Handing, Waiting
<1>7. LongWaitOnlyForNewest
  BY <1>1, <1>3 DEF LongWaitOnlyForNewest, Waiting
<1> QED BY <1>2, <1>4, <1>5, <1>6, <1>7 DEF RefreshInv

-----------------------------------------------------------------------------
LEMMA CallsChange ==
    ASSUME NEW c \in Calls, NEW k \in Keys, NEW g \in Generations, NEW d \in Delays,
           NEW n \in Nat
    PROVE  /\ [c EXCEPT ![k][g][d] = n] \in Calls
           /\ \A j \in Keys, h \in Generations, e \in Delays :
                 [c EXCEPT ![k][g][d] = n][j][h][e] =
                     IF j = k /\ h = g /\ e = d THEN n ELSE c[j][h][e]
BY DEF Calls

\* A refresh goes on: the worker changes, but remains an active one.
LEMMA ActiveGoesOn ==
    ASSUME RefreshInv, NEW w \in Active, NEW v \in Workers,
           v.key = w.key, v.gen = w.gen, v.found = w.found,
           v.at \in {"queued", "refreshing", "finishing"},
           Becomes(w, v),
           UNCHANGED <<closed, generation, targets, inFlight, todo, calls, begun>>
    PROVE  RefreshInv'
<1> USE DEF RefreshInv
<1>1. w \in workers /\ w.at \in {"queued", "refreshing", "finishing"} /\ w \in Workers
  BY DEF Active, TypeOK
<1>2. /\ workers' = (workers \ {w}) \cup {v}
      /\ \A u : u \in Active' <=> u = v \/ (u \in Active /\ u # w)
  BY DEF Becomes, Active
<1>3. TypeOK' /\ ClosedHasNone'
  BY <1>2 DEF TypeOK, ClosedHasNone
<1>4. NothingAhead'
  BY <1>1, <1>2 DEF NothingAhead
<1>5. LatestBegun'
  BY <1>1, <1>2 DEF LatestBegun
<1>6. OneRefreshPerTarget'
  BY <1>2 DEF OneRefreshPerTarget
<1>7. \A k : Refreshing(k)' <=> Refreshing(k)
  BY <1>2 DEF Refreshing
<1>8. InFlightIsActive'
  BY <1>7 DEF InFlightIsActive
<1>9. \A u, k : (u \in workers' /\ Handing(u, k)') <=> (u \in workers /\ Handing(u, k))
  BY <1>1, <1>2 DEF Handing
<1>10. \A k : HandedOver(k)' <=> HandedOver(k)
  BY <1>9 DEF HandedOver
<1>11. \A k : /\ InTodo(k)' <=> InTodo(k)
              /\ \A d : Waiting(k, d)' <=> Waiting(k, d)
  BY DEF InTodo, Waiting
<1>12. NoTargetIsDropped'
  BY <1>7, <1>10, <1>11 DEF NoTargetIsDropped
<1>13. NoTargetIsDoubled'
  BY <1>7, <1>9, <1>10, <1>11 DEF NoTargetIsDoubled
<1>14. LongWaitOnlyForNewest'
  BY <1>11 DEF LongWaitOnlyForNewest
<1> QED BY <1>3, <1>4, <1>5, <1>6, <1>8, <1>12, <1>13, <1>14

LEMMA AcquireRefreshKeep ==
    ASSUME RefreshInv, NEW w \in workers, Acquire(w) \/ Refresh(w)
    PROVE  RefreshInv'
<1>1. w \in Workers
  BY DEF RefreshInv, TypeOK
<1>2. CASE Acquire(w)
  <2> DEFINE v == [w EXCEPT !.at = "refreshing"]
  <2>1. /\ v \in Workers /\ v.key = w.key /\ v.gen = w.gen /\ v.found = w.found
        /\ v.at = "refreshing"
    BY <1>1 DEF Workers
  <2>2. w \in Active
    BY <1>2 DEF Acquire, Active
  <2>3. Becomes(w, v) /\ UNCHANGED <<closed, generation, targets, inFlight, todo, calls, begun>>
    BY <1>2 DEF Acquire
  <2> HIDE DEF v
  <2> QED BY <2>1, <2>2, <2>3, ActiveGoesOn
<1>3. CASE Refresh(w)
  <2>1. PICK ok \in BOOLEAN : Becomes(w, [w EXCEPT !.at = "finishing", !.ok = ok])
    BY <1>3 DEF Refresh
  <2> DEFINE v == [w EXCEPT !.at = "finishing", !.ok = ok]
  <2>2. /\ v \in Workers /\ v.key = w.key /\ v.gen = w.gen /\ v.found = w.found
        /\ v.at = "finishing"
    BY <1>1 DEF Workers
  <2>3. w \in Active
    BY <1>3 DEF Refresh, Active
  <2>4. Becomes(w, v) /\ UNCHANGED <<closed, generation, targets, inFlight, todo, calls, begun>>
    BY <1>3, <2>1 DEF Refresh
  <2> HIDE DEF v
  <2> QED BY <2>2, <2>3, <2>4, ActiveGoesOn
<1> QED BY <1>2, <1>3

\* A new generation begins: nothing waits in it, and nobody has handed over to it.
LEMMA NewGeneration ==
    ASSUME RefreshInv, generation' = generation + 1, generation + 1 \in Generations,
           UNCHANGED <<inFlight, calls, workers, begun>>,
           targets' \in SUBSET Keys, closed' \in BOOLEAN, closed' => targets' = {},
           todo' = targets' \ inFlight
    PROVE  RefreshInv'
<1> USE DEF RefreshInv
<1>1. TypeOK' /\ ClosedHasNone'
  BY DEF TypeOK, ClosedHasNone
<1>2. generation \in Nat /\ \A w \in workers : w.gen \in Nat /\ w.found \in Nat
  BY DEF TypeOK, Workers, Generations
<1>3. NothingAhead'
  BY <1>2 DEF NothingAhead, Generations
<1>4. LatestBegun'
  BY <1>2 DEF LatestBegun, NothingAhead
<1>5. OneRefreshPerTarget'
  BY DEF OneRefreshPerTarget, Active
<1>6. \A k : Refreshing(k)' <=> Refreshing(k)
  BY DEF Refreshing, Active
<1>7. InFlightIsActive'
  BY <1>6 DEF InFlightIsActive
<1>8. \A w \in workers : \A k : ~Handing(w, k)'
  BY <1>2 DEF Handing, NothingAhead
<1>9. \A k : ~HandedOver(k)'
  BY <1>8 DEF HandedOver
<1>10. \A k \in Keys, d \in Delays : calls'[k][generation'][d] = 0
  BY <1>2 DEF NothingAhead
<1>11. \A k \in Keys, d \in Delays : ~Waiting(k, d)'
  BY <1>10 DEF Waiting
<1>12. \A k \in Keys : InTodo(k)' <=> k \in targets' /\ ~Refreshing(k)'
  BY <1>6 DEF InTodo, InFlightIsActive
<1>13. NoTargetIsDropped'
  BY <1>1, <1>12 DEF NoTargetIsDropped, TypeOK
<1>14. NoTargetIsDoubled'
  BY <1>8, <1>9, <1>10, <1>11, <1>12 DEF NoTargetIsDoubled
<1>15. LongWaitOnlyForNewest'
  BY <1>11 DEF LongWaitOnlyForNewest
<1> QED BY <1>1, <1>3, <1>4, <1>5, <1>7, <1>13, <1>14, <1>15

LEMMA StartCloseKeep ==
    ASSUME RefreshInv, NEW T \in SUBSET Keys, Start(T) \/ Close
    PROVE  RefreshInv'
<1>1. generation + 1 \in Generations
  BY MaxGenerationAssumption DEF Start, Close, Generations, RefreshInv, TypeOK
<1>2. todo' = targets' \ inFlight
  BY DEF Start, Close, GuiFree
<1>3. generation' = generation + 1 /\ UNCHANGED <<inFlight, calls, workers, begun>>
  BY DEF Start, Close
<1>4. /\ targets' \in SUBSET Keys
      /\ closed' \in BOOLEAN
      /\ closed' => targets' = {}
  <2>1. CASE Start(T)
    BY <2>1 DEF Start, RefreshInv, TypeOK
  <2>2. CASE Close
    BY <2>2 DEF Close
  <2> QED BY <2>1, <2>2
<1> QED BY <1>1, <1>2, <1>3, <1>4, NewGeneration

LEMMA ScheduleTargetKeeps ==
    ASSUME RefreshInv, NEW k \in Keys, ScheduleTarget(k)
    PROVE  RefreshInv'
<1> USE DEF RefreshInv
<1>1. /\ generation \in Generations
      /\ calls[k][generation]["now"] \in Nat
      /\ calls[k][generation]["now"] + 1 \in Nat
  BY DEF TypeOK, Calls, Delays
<1>2. /\ calls' \in Calls
      /\ \A j \in Keys, h \in Generations, e \in Delays :
            calls'[j][h][e] = IF j = k /\ h = generation /\ e = "now"
                              THEN calls[k][generation]["now"] + 1 ELSE calls[j][h][e]
  <2> DEFINE n == calls[k][generation]["now"] + 1
  <2>1. calls' = [calls EXCEPT ![k][generation]["now"] = n]
    BY DEF ScheduleTarget
  <2>2. "now" \in Delays /\ calls \in Calls /\ n \in Nat
    BY <1>1 DEF Delays, TypeOK
  <2> HIDE DEF n
  <2> DEFINE new == [calls EXCEPT ![k][generation]["now"] = n]
  <2>3. /\ new \in Calls
        /\ \A j \in Keys, h \in Generations, e \in Delays :
              new[j][h][e] = IF j = k /\ h = generation /\ e = "now" THEN n ELSE calls[j][h][e]
    BY <1>1, <2>2, CallsChange
  <2> HIDE DEF new
  <2>4. calls' = new
    BY <2>1 DEF new
  <2> QED BY <2>3, <2>4 DEF n
<1>3. /\ k \in todo /\ todo' = todo \ {k}
      /\ UNCHANGED <<closed, generation, targets, inFlight, workers, begun>>
  BY DEF ScheduleTarget
<1>4. TypeOK' /\ ClosedHasNone' /\ LatestBegun'
  BY <1>2, <1>3 DEF TypeOK, ClosedHasNone, LatestBegun
<1>5. NothingAhead'
  BY <1>1, <1>2, <1>3 DEF NothingAhead, Generations
<1>6. OneRefreshPerTarget'
  BY <1>3 DEF OneRefreshPerTarget, Active
<1>7. \A j : Refreshing(j)' <=> Refreshing(j)
  BY <1>3 DEF Refreshing, Active
<1>8. InFlightIsActive'
  BY <1>3, <1>7 DEF InFlightIsActive
<1>9. \A w, j : Handing(w, j)' <=> Handing(w, j)
  BY <1>3 DEF Handing
<1>10. \A j : HandedOver(j)' <=> HandedOver(j)
  BY <1>3, <1>9 DEF HandedOver
<1>11. \A j : InTodo(j)' <=> InTodo(j) /\ j # k
  BY <1>3 DEF InTodo
<1>12. InTodo(k) /\ ~Refreshing(k) /\ ~HandedOver(k) /\ \A d \in Delays : ~Waiting(k, d)
  BY <1>3 DEF InTodo, NoTargetIsDoubled
<1>13. \A d \in Delays : calls[k][generation][d] = 0
  BY <1>12 DEF Waiting, TypeOK, Calls
<1>14. \A j \in Keys, d \in Delays :
          calls'[j][generation'][d] =
             IF j = k /\ d = "now" THEN 1 ELSE calls[j][generation][d]
  BY <1>1, <1>2, <1>3, <1>13 DEF Delays
<1>15. \A j \in Keys, d \in Delays : Waiting(j, d)' <=> (j = k /\ d = "now") \/ Waiting(j, d)
  BY <1>14 DEF Waiting
<1>16. NoTargetIsDropped'
  <2>1. "now" \in Delays
    BY DEF Delays
  <2> QED BY <1>3, <1>7, <1>10, <1>11, <1>15, <2>1 DEF NoTargetIsDropped, TypeOK
<1>17. NoTargetIsDoubled'
  BY <1>3, <1>7, <1>9, <1>10, <1>11, <1>12, <1>14, <1>15 DEF NoTargetIsDoubled
<1>18. LongWaitOnlyForNewest'
  BY <1>3, <1>15 DEF LongWaitOnlyForNewest
<1> QED BY <1>4, <1>5, <1>6, <1>8, <1>16, <1>17, <1>18

LEMMA FinishKeeps ==
    ASSUME RefreshInv, NEW w \in workers, Finish(w)
    PROVE  RefreshInv'
<1> USE DEF RefreshInv
<1>1. /\ w \in Workers /\ w \in Active /\ w.key \in Keys /\ generation \in Generations
      /\ Refreshing(w.key)
  BY DEF Finish, Active, TypeOK, Workers, Refreshing
<1>2. PICK v \in Workers :
         /\ v = [w EXCEPT !.at = "rescheduling", !.found = generation]
         /\ v.key = w.key /\ v.gen = w.gen /\ v.found = generation /\ v.at = "rescheduling"
  <2>1. [w EXCEPT !.at = "rescheduling", !.found = generation] \in Workers
    BY <1>1 DEF Workers
  <2> QED BY <1>1, <2>1 DEF Workers
<1>3. /\ inFlight' = inFlight \ {w.key}
      /\ UNCHANGED <<closed, generation, targets, todo, calls, begun>>
      /\ \/ (closed \/ w.key \notin targets) /\ workers' = workers \ {w}
         \/ workers' = (workers \ {w}) \cup {v}
  BY <1>2 DEF Finish, Ends, Becomes, Found
<1>4. /\ ~InTodo(w.key) /\ ~HandedOver(w.key)
      /\ \A d \in Delays : ~Waiting(w.key, d)
  BY <1>1 DEF NoTargetIsDoubled
<1>5. TypeOK' /\ ClosedHasNone'
  BY <1>2, <1>3 DEF TypeOK, ClosedHasNone
<1>6. \A u \in workers' : u = v \/ (u \in workers /\ u # w)
  BY <1>3
<1>7. NothingAhead' /\ LatestBegun'
  <2>1. w.gen <= generation /\ generation <= generation
    BY <1>1 DEF NothingAhead, Generations
  <2> QED BY <1>2, <1>3, <1>6, <2>1 DEF NothingAhead, LatestBegun
<1>8. \A u : u \in Active' <=> u \in Active /\ u # w
  BY <1>2, <1>3 DEF Active
<1>9. OneRefreshPerTarget'
  BY <1>8 DEF OneRefreshPerTarget
<1>10. \A j : Refreshing(j)' <=> Refreshing(j) /\ j # w.key
  BY <1>1, <1>8 DEF Refreshing, OneRefreshPerTarget
<1>11. InFlightIsActive'
  BY <1>3, <1>10 DEF InFlightIsActive
<1>12. \A j : InTodo(j)' <=> InTodo(j)
  BY <1>3 DEF InTodo
<1>13. \A j, d : Waiting(j, d)' <=> Waiting(j, d)
  BY <1>3 DEF Waiting
<1>14. LongWaitOnlyForNewest'
  BY <1>3, <1>13 DEF LongWaitOnlyForNewest
<1>15. \A u, j : u # v => (u \in workers' /\ Handing(u, j)' <=> u \in workers /\ Handing(u, j))
  BY <1>1, <1>3 DEF Handing, Active
<1>16. CASE (closed \/ w.key \notin targets) /\ workers' = workers \ {w}
  <2>1. \A u, j : u \in workers' /\ Handing(u, j)' <=> u \in workers /\ Handing(u, j)
    BY <1>1, <1>3, <1>16 DEF Handing, Active
  <2>2. \A j : HandedOver(j)' <=> HandedOver(j)
    BY <2>1 DEF HandedOver
  <2>3. NoTargetIsDropped'
    BY <1>3, <1>10, <1>12, <1>13, <1>16, <2>2 DEF NoTargetIsDropped, ClosedHasNone
  <2>4. NoTargetIsDoubled'
    BY <1>3, <1>10, <1>12, <1>13, <2>1, <2>2 DEF NoTargetIsDoubled
  <2> QED BY <1>5, <1>7, <1>9, <1>11, <1>14, <2>3, <2>4
<1>17. CASE workers' = (workers \ {w}) \cup {v}
  <2>1. \A j : v \in workers' /\ Handing(v, j)' <=> j = w.key
    BY <1>2, <1>3, <1>17 DEF Handing
  <2>2. \A j : HandedOver(j)' <=> HandedOver(j) \/ j = w.key
    <3>1. \A j : v \in workers /\ Handing(v, j) => j = w.key
      BY <1>2 DEF Handing
    <3> QED BY <1>15, <2>1, <3>1 DEF HandedOver
  <2>3. NoTargetIsDropped'
    BY <1>3, <1>10, <1>12, <1>13, <2>2 DEF NoTargetIsDropped
  <2>4. \A j \in Keys, x, y \in workers' : Handing(x, j)' /\ Handing(y, j)' => x = y
    <3> SUFFICES ASSUME NEW j \in Keys, NEW x \in workers', NEW y \in workers',
                        Handing(x, j)', Handing(y, j)'
                 PROVE  x = y
      OBVIOUS
    <3>1. CASE j = w.key
      <4>1. \A u \in workers' : Handing(u, j)' => u = v
        BY <1>4, <1>15, <3>1 DEF HandedOver
      <4> QED BY <4>1
    <3>2. CASE j # w.key
      <4>1. x # v /\ y # v
        BY <2>1, <3>2
      <4> QED BY <1>15, <4>1 DEF NoTargetIsDoubled
    <3> QED BY <3>1, <3>2
  <2>5. NoTargetIsDoubled'
    BY <1>3, <1>4, <1>10, <1>12, <1>13, <2>2, <2>4 DEF NoTargetIsDoubled
  <2> QED BY <1>5, <1>7, <1>9, <1>11, <1>14, <2>3, <2>5
<1> QED BY <1>3, <1>16, <1>17

LEMMA RescheduleKeeps ==
    ASSUME RefreshInv, NEW w \in workers, Reschedule(w)
    PROVE  RefreshInv'
<1> USE DEF RefreshInv
<1> DEFINE v == [w EXCEPT !.at = "calling"]
<1>1. w \in Workers /\ w.key \in Keys /\ w.at = "rescheduling"
  BY DEF Reschedule, TypeOK, Workers
<1>2. /\ v \in Workers /\ v.key = w.key /\ v.gen = w.gen /\ v.found = w.found
      /\ v.at = "calling"
  BY <1>1 DEF Workers
<1>3. /\ UNCHANGED <<closed, generation, targets, inFlight, todo, calls, begun>>
      /\ \/ (closed \/ w.found # generation) /\ workers' = workers \ {w}
         \/ w.found = generation /\ workers' = (workers \ {w}) \cup {v}
  BY DEF Reschedule, Ends, Becomes
<1> HIDE DEF v
<1>4. TypeOK' /\ ClosedHasNone'
  BY <1>2, <1>3 DEF TypeOK, ClosedHasNone
<1>5. NothingAhead' /\ LatestBegun'
  BY <1>2, <1>3 DEF NothingAhead, LatestBegun
<1>6. \A u : u \in Active' <=> u \in Active
  BY <1>1, <1>2, <1>3 DEF Active
<1>7. OneRefreshPerTarget' /\ \A j : Refreshing(j)' <=> Refreshing(j)
  BY <1>6 DEF OneRefreshPerTarget, Refreshing
<1>8. InFlightIsActive'
  BY <1>3, <1>7 DEF InFlightIsActive
<1>9. \A j : /\ InTodo(j)' <=> InTodo(j)
             /\ \A d : Waiting(j, d)' <=> Waiting(j, d)
  BY <1>3 DEF InTodo, Waiting
<1>10. LongWaitOnlyForNewest'
  BY <1>3, <1>9 DEF LongWaitOnlyForNewest
<1>11. CASE (closed \/ w.found # generation) /\ workers' = workers \ {w}
  <2>1. \A u, j : u \in workers' /\ Handing(u, j)' => u \in workers /\ Handing(u, j)
    BY <1>3, <1>11 DEF Handing
  <2>2. \A j : HandedOver(j)' => HandedOver(j)
    BY <2>1 DEF HandedOver
  <2>3. \A j : w.found # generation => (HandedOver(j)' <=> HandedOver(j))
    BY <1>3, <1>11 DEF HandedOver, Handing
  <2>4. NoTargetIsDropped'
    BY <1>3, <1>7, <1>9, <1>11, <2>3 DEF NoTargetIsDropped, ClosedHasNone
  <2>5. NoTargetIsDoubled'
    BY <1>3, <1>7, <1>9, <2>1, <2>2 DEF NoTargetIsDoubled
  <2> QED BY <1>4, <1>5, <1>7, <1>8, <1>10, <2>4, <2>5
<1>12. CASE w.found = generation /\ workers' = (workers \ {w}) \cup {v}
  <2>1. \A j : /\ Handing(w, j) <=> j = w.key
               /\ Handing(v, j)' <=> j = w.key
    BY <1>1, <1>2, <1>3, <1>12 DEF Handing
  <2>2. \A u, j : u # v => (u \in workers' /\ Handing(u, j)' <=> u \in workers /\ u # w /\ Handing(u, j))
    BY <1>3, <1>12 DEF Handing
  <2>3. w \in workers /\ v \in workers'
    BY <1>12
  <2>4. \A j : HandedOver(j)' <=> HandedOver(j)
    <3>1. \A j : v \in workers /\ Handing(v, j) => j = w.key
      BY <1>2 DEF Handing
    <3> QED BY <2>1, <2>2, <2>3, <3>1 DEF HandedOver
  <2>5. \A j \in Keys, x, y \in workers' : Handing(x, j)' /\ Handing(y, j)' => x = y
    <3> SUFFICES ASSUME NEW j \in Keys, NEW x \in workers', NEW y \in workers',
                        Handing(x, j)', Handing(y, j)'
                 PROVE  x = y
      OBVIOUS
    <3>1. CASE j = w.key
      <4>1. \A u \in workers' : Handing(u, j)' => u = v
        BY <2>1, <2>2, <2>3, <3>1 DEF NoTargetIsDoubled
      <4> QED BY <4>1
    <3>2. CASE j # w.key
      <4>1. x # v /\ y # v
        BY <2>1, <3>2
      <4> QED BY <2>2, <4>1 DEF NoTargetIsDoubled
    <3> QED BY <3>1, <3>2
  <2>6. NoTargetIsDropped'
    BY <1>3, <1>7, <1>9, <2>4 DEF NoTargetIsDropped
  <2>7. NoTargetIsDoubled'
    BY <1>3, <1>7, <1>9, <2>4, <2>5 DEF NoTargetIsDoubled
  <2> QED BY <1>4, <1>5, <1>7, <1>8, <1>10, <2>6, <2>7
<1> QED BY <1>3, <1>11, <1>12

LEMMA CallKeeps ==
    ASSUME RefreshInv, NEW w \in workers, Call(w)
    PROVE  RefreshInv'
<1> USE DEF RefreshInv
<1>1. /\ w \in Workers /\ w.key \in Keys /\ w.at = "calling" /\ w.found \in Generations
      /\ generation \in Generations /\ w.found <= generation
  BY DEF Call, TypeOK, Workers, NothingAhead
<1>2. PICK d \in Delays : /\ d = DelayAfter(w)
                          /\ d # "now" => w.gen = w.found
  BY DEF DelayAfter, Delays
<1>3. /\ workers' = workers \ {w}
      /\ UNCHANGED <<closed, generation, targets, inFlight, todo, begun>>
  BY DEF Call, Ends
<1> DEFINE n == calls[w.key][w.found][d] + 1
           new == [calls EXCEPT ![w.key][w.found][d] = n]
<1>4. calls' = new
  BY <1>2 DEF Call
<1>5. n \in Nat /\ calls \in Calls
  BY <1>1, <1>2 DEF TypeOK, Calls
<1> HIDE DEF n
<1>6. /\ new \in Calls
      /\ \A j \in Keys, h \in Generations, e \in Delays :
            new[j][h][e] = IF j = w.key /\ h = w.found /\ e = d THEN n ELSE calls[j][h][e]
  BY <1>1, <1>5, CallsChange
<1> HIDE DEF new
<1>7. TypeOK' /\ ClosedHasNone' /\ LatestBegun'
  BY <1>3, <1>4, <1>6 DEF TypeOK, ClosedHasNone, LatestBegun
<1>8. NothingAhead'
  BY <1>1, <1>3, <1>4, <1>6 DEF NothingAhead, Generations
<1>9. \A u : u \in Active' <=> u \in Active
  BY <1>1, <1>3 DEF Active
<1>10. OneRefreshPerTarget' /\ \A j : Refreshing(j)' <=> Refreshing(j)
  BY <1>9 DEF OneRefreshPerTarget, Refreshing
<1>11. InFlightIsActive'
  BY <1>3, <1>10 DEF InFlightIsActive
<1>12. \A j : InTodo(j)' <=> InTodo(j)
  BY <1>3 DEF InTodo
<1>13. \A u, j : Handing(u, j)' <=> Handing(u, j)
  BY <1>3 DEF Handing
<1>14. CASE w.found = generation
  <2>1. Handing(w, w.key) /\ HandedOver(w.key)
    BY <1>1, <1>14 DEF Handing, HandedOver
  <2>2. /\ ~InTodo(w.key) /\ ~Refreshing(w.key)
        /\ \A e \in Delays : ~Waiting(w.key, e)
    BY <1>1, <2>1 DEF NoTargetIsDoubled
  <2>3. \A e \in Delays : calls[w.key][generation][e] = 0
    BY <1>1, <2>2 DEF Waiting, TypeOK, Calls
  <2>4. \A j \in Keys, e \in Delays :
            calls'[j][generation'][e] =
                IF j = w.key /\ e = d THEN 1 ELSE calls[j][generation][e]
    BY <1>1, <1>3, <1>4, <1>6, <1>14, <2>3 DEF n
  <2>5. \A j \in Keys, e \in Delays : Waiting(j, e)' <=> (j = w.key /\ e = d) \/ Waiting(j, e)
    BY <2>4 DEF Waiting
  <2>6. \A j \in Keys : HandedOver(j)' <=> HandedOver(j) /\ j # w.key
    BY <1>1, <1>3, <1>13, <2>1 DEF HandedOver, NoTargetIsDoubled, Handing
  <2>7. NoTargetIsDropped'
    BY <1>2, <1>3, <1>10, <1>12, <2>5, <2>6 DEF NoTargetIsDropped, TypeOK
  <2>8. NoTargetIsDoubled'
    BY <1>3, <1>10, <1>12, <1>13, <2>2, <2>4, <2>5, <2>6 DEF NoTargetIsDoubled
  <2>9. LongWaitOnlyForNewest'
    BY <1>2, <1>3, <1>14, <2>5 DEF LongWaitOnlyForNewest, LatestBegun
  <2> QED BY <1>7, <1>8, <1>10, <1>11, <2>7, <2>8, <2>9
<1>15. CASE w.found # generation
  <2>1. \A j \in Keys, e \in Delays : calls'[j][generation'][e] = calls[j][generation][e]
    BY <1>1, <1>3, <1>4, <1>6, <1>15
  <2>2. \A j \in Keys, e \in Delays : Waiting(j, e)' <=> Waiting(j, e)
    BY <2>1 DEF Waiting
  <2>3. \A j : HandedOver(j)' <=> HandedOver(j)
    BY <1>3, <1>13, <1>15 DEF HandedOver, Handing
  <2>4. NoTargetIsDropped'
    BY <1>3, <1>10, <1>12, <2>2, <2>3 DEF NoTargetIsDropped, TypeOK
  <2>5. NoTargetIsDoubled'
    BY <1>3, <1>10, <1>12, <1>13, <2>1, <2>2, <2>3 DEF NoTargetIsDoubled
  <2>6. LongWaitOnlyForNewest'
    BY <1>3, <2>2 DEF LongWaitOnlyForNewest
  <2> QED BY <1>7, <1>8, <1>10, <1>11, <2>4, <2>5, <2>6
<1> QED BY <1>14, <1>15

LEMMA BeginRefreshKeeps ==
    ASSUME RefreshInv, NEW k \in Keys, NEW g \in Generations, NEW d \in Delays,
           BeginRefresh(k, g, d)
    PROVE  RefreshInv'
<1> USE DEF RefreshInv
<1>1. generation \in Generations /\ calls \in Calls /\ calls[k][g][d] > 0
  BY DEF BeginRefresh, TypeOK
<1> DEFINE n == calls[k][g][d] - 1
           new == [calls EXCEPT ![k][g][d] = n]
<1>2. n \in Nat /\ n + 1 = calls[k][g][d]
  BY <1>1 DEF Calls
<1>3. calls' = new /\ UNCHANGED <<closed, generation, targets, todo>>
  BY DEF BeginRefresh
<1> HIDE DEF n
<1>4. /\ new \in Calls
      /\ \A j \in Keys, h \in Generations, e \in Delays :
            new[j][h][e] = IF j = k /\ h = g /\ e = d THEN n ELSE calls[j][h][e]
  BY <1>1, <1>2, CallsChange
<1> HIDE DEF new
<1>5. \A j \in Keys, h \in Generations, e \in Delays :
         calls'[j][h][e] <= calls[j][h][e] /\ calls'[j][h][e] \in Nat /\ calls[j][h][e] \in Nat
  <2> TAKE j \in Keys, h \in Generations, e \in Delays
  <2>1. calls[j][h][e] \in Nat
    BY <1>1 DEF Calls
  <2>2. CASE j = k /\ h = g /\ e = d
    <3>1. calls'[j][h][e] = n
      BY <1>3, <1>4, <2>2
    <3> QED BY <1>2, <2>1, <2>2, <3>1
  <2>3. CASE ~(j = k /\ h = g /\ e = d)
    <3>1. calls'[j][h][e] = calls[j][h][e]
      BY <1>3, <1>4, <2>3
    <3> QED BY <2>1, <3>1
  <2> QED BY <2>2, <2>3
<1>6. /\ \A j \in Keys, e \in Delays : Waiting(j, e)' => Waiting(j, e)
      /\ \A j \in Keys, e \in Delays : calls'[j][generation'][e] <= calls[j][generation][e]
  BY <1>1, <1>3, <1>5 DEF Waiting
<1>7. \A j : InTodo(j)' <=> InTodo(j)
  BY <1>3 DEF InTodo
<1>8. /\ ClosedHasNone'
      /\ calls' \in Calls
      /\ \A j \in Keys, h \in Generations, e \in Delays : h > generation' => calls'[j][h][e] = 0
  <2>1. \A m \in Nat : m <= 0 => m = 0
    OBVIOUS
  <2> QED BY <1>3, <1>4, <1>5, <2>1 DEF ClosedHasNone, NothingAhead
<1>9. CASE Outdated(k, g) /\ UNCHANGED <<inFlight, workers, begun>>
  <2>1. TypeOK' /\ NothingAhead' /\ LatestBegun' /\ OneRefreshPerTarget'
    BY <1>3, <1>8, <1>9 DEF TypeOK, NothingAhead, LatestBegun, OneRefreshPerTarget, Active
  <2>2. \A j : /\ Refreshing(j)' <=> Refreshing(j)
               /\ HandedOver(j)' <=> HandedOver(j)
               /\ \A u : Handing(u, j)' <=> Handing(u, j)
    BY <1>3, <1>9 DEF Refreshing, HandedOver, Handing, Active
  <2>3. InFlightIsActive'
    BY <1>9, <2>2 DEF InFlightIsActive
  <2>4. LongWaitOnlyForNewest'
    BY <1>3, <1>6, <1>9 DEF LongWaitOnlyForNewest
  <2>5. NoTargetIsDoubled'
    <3>1. \A j \in Keys, e \in Delays : calls'[j][generation'][e] <= 1
      BY <1>1, <1>3, <1>5, <1>6 DEF NoTargetIsDoubled
    <3> QED BY <1>6, <1>7, <1>9, <2>2, <3>1 DEF NoTargetIsDoubled
  <2>6. NoTargetIsDropped'
    <3>1. CASE closed
      BY <1>3, <3>1 DEF NoTargetIsDropped, ClosedHasNone
    <3>2. CASE g # generation
      <4>1. \A j \in Keys, e \in Delays : calls'[j][generation'][e] = calls[j][generation][e]
        BY <1>1, <1>3, <1>4, <3>2
      <4>2. \A j \in Keys, e \in Delays : Waiting(j, e)' <=> Waiting(j, e)
        BY <4>1 DEF Waiting
      <4> QED BY <1>3, <1>7, <2>2, <4>2 DEF NoTargetIsDropped, TypeOK
    <3>3. CASE k \in inFlight /\ g = generation
      <4>1. Refreshing(k) /\ Waiting(k, d)
        BY <1>1, <3>3 DEF InFlightIsActive, Waiting
      <4> QED BY <4>1 DEF NoTargetIsDoubled
    <3> QED BY <1>9, <3>1, <3>2, <3>3 DEF Outdated
  <2> QED BY <1>8, <2>1, <2>3, <2>4, <2>5, <2>6
<1>10. CASE /\ ~Outdated(k, g)
            /\ Takes(k, g)
            /\ \E started \in BOOLEAN :
                  workers' = workers \cup
                      {[key |-> k, gen |-> g,
                        at |-> IF started THEN "queued" ELSE "finishing",
                        ok |-> FALSE, found |-> g, onGui |-> ~started]}
  <2>1. /\ ~closed /\ g = generation /\ k \notin inFlight
        /\ inFlight' = inFlight \cup {k} /\ begun' = [begun EXCEPT ![k] = g]
    BY <1>10 DEF Outdated, Takes
  <2>2. PICK v \in Workers : /\ v.key = k /\ v.gen = g /\ v.found = g
                             /\ v.at \in {"queued", "finishing"}
                             /\ workers' = workers \cup {v}
    <3>1. PICK started \in BOOLEAN :
             workers' = workers \cup
                 {[key |-> k, gen |-> g,
                   at |-> IF started THEN "queued" ELSE "finishing",
                   ok |-> FALSE, found |-> g, onGui |-> ~started]}
      BY <1>10
    <3>2. [key |-> k, gen |-> g, at |-> IF started THEN "queued" ELSE "finishing",
           ok |-> FALSE, found |-> g, onGui |-> ~started] \in Workers
      BY DEF Workers
    <3> QED BY <3>1, <3>2
  <2>3. Waiting(k, d) /\ ~Refreshing(k)
    BY <1>1, <2>1 DEF Waiting, InFlightIsActive
  <2>4. /\ ~InTodo(k) /\ ~HandedOver(k)
        /\ \A e \in Delays : e # d => ~Waiting(k, e)
        /\ calls[k][generation][d] <= 1
    BY <2>3 DEF NoTargetIsDoubled
  <2>5. \A e \in Delays : ~Waiting(k, e)'
    <3>1. ~Waiting(k, d)'
      BY <1>1, <1>2, <1>3, <1>4, <2>1, <2>4 DEF Waiting
    <3> QED BY <1>6, <2>4, <3>1
  <2>6. \A j \in Keys, e \in Delays : j # k => (Waiting(j, e)' <=> Waiting(j, e))
    BY <1>1, <1>3, <1>4 DEF Waiting
  <2>7. TypeOK'
    BY <1>3, <1>8, <2>1, <2>2 DEF TypeOK
  <2>8. NothingAhead' /\ LatestBegun'
    <3>1. g <= generation
      BY <1>1, <2>1 DEF Generations
    <3>2. NothingAhead'
      BY <1>3, <1>8, <2>2, <3>1 DEF NothingAhead
    <3>3. LatestBegun'
      BY <1>3, <2>1, <2>2 DEF LatestBegun, TypeOK, Workers
    <3> QED BY <3>2, <3>3
  <2>9. \A u : u \in Active' <=> u \in Active \/ u = v
    BY <2>2 DEF Active
  <2>10. OneRefreshPerTarget'
    BY <2>2, <2>3, <2>9 DEF OneRefreshPerTarget, Refreshing
  <2>11. \A j : Refreshing(j)' <=> Refreshing(j) \/ j = k
    BY <2>2, <2>9 DEF Refreshing
  <2>12. InFlightIsActive'
    BY <2>1, <2>11 DEF InFlightIsActive
  <2>13. \A u, j : u \in workers' /\ Handing(u, j)' <=> u \in workers /\ Handing(u, j)
    BY <1>3, <2>2 DEF Handing
  <2>14. \A j : HandedOver(j)' <=> HandedOver(j)
    BY <2>13 DEF HandedOver
  <2>15. NoTargetIsDropped'
    BY <1>3, <1>7, <2>6, <2>11, <2>14 DEF NoTargetIsDropped, TypeOK
  <2>16. NoTargetIsDoubled'
    <3>1. \A j \in Keys, e \in Delays : calls'[j][generation'][e] <= 1
      BY <1>1, <1>3, <1>5, <1>6 DEF NoTargetIsDoubled
    <3> QED BY <1>6, <1>7, <2>4, <2>5, <2>11, <2>13, <2>14, <3>1 DEF NoTargetIsDoubled
  <2>17. LongWaitOnlyForNewest'
    BY <1>3, <1>6, <2>1, <2>5 DEF LongWaitOnlyForNewest, TypeOK
  <2> QED BY <1>8, <2>7, <2>8, <2>10, <2>12, <2>15, <2>16, <2>17
<1> QED BY <1>9, <1>10 DEF BeginRefresh

-----------------------------------------------------------------------------
LEMMA StepKeeps == RefreshInv /\ [Next]_vars => RefreshInv'
<1> SUFFICES ASSUME RefreshInv, [Next]_vars PROVE RefreshInv'
  OBVIOUS
<1>1. CASE \E T \in SUBSET Keys : Start(T)
  BY <1>1, StartCloseKeep
<1>2. CASE \E k \in Keys : ScheduleTarget(k)
  BY <1>2, ScheduleTargetKeeps
<1>3. CASE \E k \in Keys, g \in Generations, d \in Delays : BeginRefresh(k, g, d)
  BY <1>3, BeginRefreshKeeps
<1>4. CASE Close
  BY <1>4, StartCloseKeep
<1>5. CASE \E w \in workers : WorkerStep(w)
  BY <1>5, AcquireRefreshKeep, FinishKeeps, RescheduleKeeps, CallKeeps DEF WorkerStep
<1>6. CASE UNCHANGED vars
  BY <1>6 DEF vars, RefreshInv, TypeOK, NothingAhead, InFlightIsActive, ClosedHasNone,
       LatestBegun, NoTargetIsDropped, NoTargetIsDoubled, OneRefreshPerTarget,
       LongWaitOnlyForNewest, Refreshing, Active, InTodo, Waiting, HandedOver, Handing
<1> QED BY <1>1, <1>2, <1>3, <1>4, <1>5, <1>6 DEF Next, GuiStep

\* The invariant that carries the coordinator through every order of configuration
\* changes, timer callbacks and finishing threads.
THEOREM RefreshInvHolds == Spec => []RefreshInv
<1> QED BY InitHolds, StepKeeps, PTL DEF Spec

\* No configured target is ever dropped from the refresh cycle (start() and
\* _finish_refresh between them always leave somebody who refreshes it again).
THEOREM TargetsAreNotDropped == Spec => []NoTargetIsDropped
<1>1. RefreshInv => NoTargetIsDropped
  BY DEF RefreshInv
<1> QED BY <1>1, RefreshInvHolds, PTL

\* The state of the coordinator, its threads and its timer stays within its types.
THEOREM CoordinatorHasTypes == Spec => []TypeOK
<1>1. RefreshInv => TypeOK
  BY DEF RefreshInv
<1> QED BY <1>1, RefreshInvHolds, PTL

\* Nor does any target ever get a second chain of callbacks (start and _finish_refresh).
THEOREM TargetsAreNotDoubled == Spec => []NoTargetIsDoubled
<1>1. RefreshInv => NoTargetIsDoubled
  BY DEF RefreshInv
<1> QED BY <1>1, RefreshInvHolds, PTL

\* No two threads ever refresh one target, not even of two configurations (_in_flight).
THEOREM RefreshesAreSingle == Spec => []OneRefreshPerTarget
<1>1. RefreshInv => OneRefreshPerTarget
  BY DEF RefreshInv
<1> QED BY <1>1, RefreshInvHolds, PTL

\* A refresh overtaken by a configuration change is never followed by a long wait.
THEOREM ChangesAreTakenUpAtOnce == Spec => []LongWaitOnlyForNewest
<1>1. RefreshInv => LongWaitOnlyForNewest
  BY DEF RefreshInv
<1> QED BY <1>1, RefreshInvHolds, PTL

-----------------------------------------------------------------------------
(* RefreshDuty.  Beyond the invariant: what is due is a target, and the    *)
(* refresh that is at work on a key is the last one begun for it.          *)
OnlyTargetsAreDue == \A k \in Keys : Soon(k) \/ Later(k) => k \in targets

ActiveIsLatest == \A w \in Active : w.gen = begun[w.key]

BegunNotAhead == \A k \in Keys : begun[k] <= generation

DutiesFit == OnlyTargetsAreDue /\ ActiveIsLatest /\ BegunNotAhead

DutyInv == RefreshInv /\ DutiesFit

LEMMA InitHasDuties == Init => DutyInv
<1> SUFFICES ASSUME Init PROVE DutyInv
  OBVIOUS
<1>1. RefreshInv
  BY InitHolds
<1>2. \A k \in Keys, d \in Delays : ~ Waiting(k, d)
  BY MaxGenerationAssumption DEF Init, Waiting, Generations
<1>3. OnlyTargetsAreDue
  BY <1>2 DEF Init, OnlyTargetsAreDue, Soon, Later, InTodo, Delays
<1>4. ActiveIsLatest /\ BegunNotAhead
  BY DEF Init, ActiveIsLatest, BegunNotAhead, Active
<1> QED BY <1>1, <1>3, <1>4 DEF DutyInv, DutiesFit

\* One of the ways decides.
LEMMA OneDuty ==
    ASSUME DutyInv, NEW k \in Keys
    PROVE  /\ Refreshing(k) => DutyOf(k) = "atWork" /\ ~ Soon(k) /\ ~ Later(k)
           /\ Soon(k) => DutyOf(k) = "soon" /\ ~ Later(k)
           /\ Later(k) => DutyOf(k) = "later"
           /\ ~ Refreshing(k) /\ ~ Soon(k) /\ ~ Later(k) => DutyOf(k) = "none" /\ k \notin targets
           /\ Soon(k) \/ Later(k) => k \in targets /\ ~ closed
<1> USE DEF DutyInv, DutiesFit, RefreshInv
<1>1. Soon(k) \/ Later(k) => k \in targets /\ ~ closed
  BY DEF OnlyTargetsAreDue, ClosedHasNone
<1>2. Refreshing(k) => ~ Soon(k) /\ ~ Later(k)
  BY DEF Soon, Later, NoTargetIsDoubled, HandedOver, Delays
<1>3. ASSUME Soon(k), Later(k) PROVE FALSE
  <2>1. CASE InTodo(k)
    BY <1>3, <2>1 DEF Later, NoTargetIsDoubled, HandedOver
  <2>2. CASE Waiting(k, "now")
    BY <1>3, <2>2 DEF Later, NoTargetIsDoubled, HandedOver, Delays
  <2>3. ASSUME NEW w \in workers, Handing(w, k), Repeats(w) PROVE FALSE
    BY <1>3, <2>3 DEF Later, NoTargetIsDoubled, HandedOver
  <2> QED BY <1>3, <2>1, <2>2, <2>3 DEF Soon
<1>4. ~ Refreshing(k) /\ ~ Soon(k) /\ ~ Later(k) => k \notin targets
  BY DEF Soon, Later, NoTargetIsDropped, HandedOver
<1> QED BY <1>1, <1>2, <1>3, <1>4 DEF DutyOf

\* A step that leaves each duty with somebody changes nothing of the promise.
LEMMA DutiesStay ==
    ASSUME DutiesFit, UNCHANGED <<closed, generation, targets, begun>>,
           \A k \in Keys : /\ Refreshing(k)' <=> Refreshing(k)
                           /\ Soon(k)' <=> Soon(k)
                           /\ Later(k)' <=> Later(k)
    PROVE  UNCHANGED Promise!vars /\ OnlyTargetsAreDue' /\ BegunNotAhead'
<1>1. \A k \in Keys : DutyOf(k)' = DutyOf(k)
  BY DEF DutyOf
<1>2. [k \in Keys |-> DutyOf(k)]' = [k \in Keys |-> DutyOf(k)]
  BY <1>1
<1>3. {k \in Keys : begun[k] # generation}' = {k \in Keys : begun[k] # generation}
  OBVIOUS
<1> QED BY <1>2, <1>3 DEF Promise!vars, OnlyTargetsAreDue, BegunNotAhead, DutiesFit

\* Acquire and Refresh: the same worker is at work.
LEMMA WorkGoesOn ==
    ASSUME DutyInv, NEW w \in Active, NEW v \in Workers,
           v.key = w.key, v.gen = w.gen, v.found = w.found,
           v.at \in {"queued", "refreshing", "finishing"},
           Becomes(w, v),
           UNCHANGED <<closed, generation, targets, inFlight, todo, calls, begun>>
    PROVE  UNCHANGED Promise!vars /\ DutiesFit'
<1> USE DEF DutyInv, DutiesFit
<1>1. w \in workers /\ w.at \in {"queued", "refreshing", "finishing"}
  BY DEF Active
<1>2. /\ workers' = (workers \ {w}) \cup {v}
      /\ \A u : u \in Active' <=> u = v \/ (u \in Active /\ u # w)
  BY DEF Becomes, Active
<1>3. \A k : Refreshing(k)' <=> Refreshing(k)
  BY <1>2 DEF Refreshing
<1>4. \A u, k : (u \in workers' /\ Handing(u, k)') <=> (u \in workers /\ Handing(u, k))
  BY <1>1, <1>2 DEF Handing
<1>5. \A k : /\ InTodo(k)' <=> InTodo(k)
             /\ \A d : Waiting(k, d)' <=> Waiting(k, d)
  BY DEF InTodo, Waiting
<1>6. \A k \in Keys : (Soon(k)' <=> Soon(k)) /\ (Later(k)' <=> Later(k))
  BY <1>4, <1>5 DEF Soon, Later, Repeats
<1>7. ActiveIsLatest'
  BY <1>2 DEF ActiveIsLatest
<1> QED BY <1>3, <1>6, <1>7, DutiesStay

LEMMA WorkersKeepDuties ==
    ASSUME DutyInv, NEW w \in workers, Acquire(w) \/ Refresh(w)
    PROVE  UNCHANGED Promise!vars /\ DutiesFit'
<1>1. w \in Workers
  BY DEF DutyInv, RefreshInv, TypeOK
<1>2. w \in Active
  BY DEF Acquire, Refresh, Active
<1>3. PICK v \in Workers : /\ v.key = w.key /\ v.gen = w.gen /\ v.found = w.found
                          /\ v.at \in {"refreshing", "finishing"}
                          /\ Becomes(w, v)
  <2>1. CASE Acquire(w)
    <3> DEFINE v == [w EXCEPT !.at = "refreshing"]
    <3>1. /\ v \in Workers /\ v.key = w.key /\ v.gen = w.gen /\ v.found = w.found
          /\ v.at = "refreshing"
      BY <1>1 DEF Workers
    <3> QED BY <2>1, <3>1 DEF Acquire
  <2>2. CASE Refresh(w)
    <3>1. PICK ok \in BOOLEAN : Becomes(w, [w EXCEPT !.at = "finishing", !.ok = ok])
      BY <2>2 DEF Refresh
    <3> DEFINE v == [w EXCEPT !.at = "finishing", !.ok = ok]
    <3>2. /\ v \in Workers /\ v.key = w.key /\ v.gen = w.gen /\ v.found = w.found
          /\ v.at = "finishing"
      BY <1>1 DEF Workers
    <3> QED BY <3>1, <3>2
  <2> QED BY <2>1, <2>2
<1>4. UNCHANGED <<closed, generation, targets, inFlight, todo, calls, begun>>
  BY DEF Acquire, Refresh
<1> QED BY <1>2, <1>3, <1>4, WorkGoesOn

\* start and close: in the new generation nothing waits but what start has yet to schedule,
\* which is every target that no worker has.
LEMMA NewGenerationOwes ==
    ASSUME DutyInv, generation' = generation + 1, generation + 1 \in Generations,
           UNCHANGED <<inFlight, calls, workers, begun>>,
           targets' \in SUBSET Keys, todo' = targets' \ inFlight
    PROVE  /\ [k \in Keys |-> DutyOf(k)]' =
                  [k \in Keys |-> IF DutyOf(k) = "atWork" THEN "atWork"
                                 ELSE IF k \in targets' THEN "soon" ELSE "none"]
           /\ {k \in Keys : begun[k] # generation}' = Keys
           /\ DutiesFit'
<1> USE DEF DutyInv, DutiesFit, RefreshInv
<1>1. /\ generation \in Nat /\ \A k \in Keys : begun[k] \in Nat
      /\ \A w \in workers : w.gen \in Nat /\ w.found \in Nat
  BY DEF TypeOK, Workers, Generations
<1>2. \A k : Refreshing(k)' <=> Refreshing(k)
  BY DEF Refreshing, Active
<1>3. \A w \in workers, k \in Keys : ~ Handing(w, k)'
  BY <1>1 DEF Handing, NothingAhead
<1>4. \A k \in Keys, d \in Delays : calls'[k][generation'][d] = 0
  BY <1>1 DEF NothingAhead
<1>5. \A k \in Keys, d \in Delays : ~ Waiting(k, d)'
  BY <1>4 DEF Waiting
<1>6. \A k \in Keys : InTodo(k)' <=> k \in targets' /\ ~ Refreshing(k)'
  BY <1>2 DEF InTodo, InFlightIsActive
<1>7. \A k \in Keys : ~ Later(k)' /\ (Soon(k)' <=> InTodo(k)')
  BY <1>3, <1>5 DEF Soon, Later, Delays
<1>8. \A k \in Keys : DutyOf(k)' = IF DutyOf(k) = "atWork" THEN "atWork"
                                ELSE IF k \in targets' THEN "soon" ELSE "none"
  BY <1>2, <1>6, <1>7 DEF DutyOf
<1>9. \A k \in Keys : begun'[k] <= generation' /\ begun'[k] # generation'
  BY <1>1 DEF BegunNotAhead
<1>10. OnlyTargetsAreDue' /\ ActiveIsLatest' /\ BegunNotAhead'
  BY <1>6, <1>7, <1>9 DEF OnlyTargetsAreDue, ActiveIsLatest, BegunNotAhead, Active
<1> QED BY <1>8, <1>9, <1>10

LEMMA StartKeepsDuties ==
    ASSUME DutyInv, NEW T \in SUBSET Keys, Start(T)
    PROVE  Promise!Configures(T) /\ DutiesFit'
<1>1. generation + 1 \in Generations
  BY MaxGenerationAssumption DEF Start, Generations, DutyInv, RefreshInv, TypeOK
<1>2. generation' = generation + 1 /\ targets' = T /\ todo' = targets' \ inFlight
      /\ UNCHANGED <<inFlight, calls, workers, begun>>
  BY DEF Start
<1>3. [k \in Keys |-> DutyOf(k)]' = Promise!Owed(T)
  BY <1>1, <1>2, NewGenerationOwes DEF Promise!Owed
<1> QED BY <1>1, <1>2, <1>3, NewGenerationOwes DEF Promise!Configures, Start

LEMMA CloseKeepsDuties ==
    ASSUME DutyInv, Close
    PROVE  Promise!Closes /\ DutiesFit'
<1>1. generation + 1 \in Generations
  BY MaxGenerationAssumption DEF Close, Generations, DutyInv, RefreshInv, TypeOK
<1>2. generation' = generation + 1 /\ targets' = {} /\ todo' = targets' \ inFlight
      /\ UNCHANGED <<inFlight, calls, workers, begun>>
  BY DEF Close, GuiFree
<1>3. [k \in Keys |-> DutyOf(k)]' = Promise!Owed({})
  BY <1>1, <1>2, NewGenerationOwes DEF Promise!Owed
<1> QED BY <1>1, <1>2, <1>3, NewGenerationOwes DEF Promise!Closes, Close

\* A callback that is added waits in its generation, beside those that waited before.
LEMMA CallIsAdded ==
    ASSUME TypeOK, NEW k \in Keys, NEW g \in Generations, NEW d \in Delays,
           calls' = [calls EXCEPT ![k][g][d] = @ + 1], generation' = generation
    PROVE  \A j \in Keys, e \in Delays :
              Waiting(j, e)' <=> (j = k /\ g = generation /\ e = d) \/ Waiting(j, e)
<1> DEFINE n == calls[k][g][d] + 1
           new == [calls EXCEPT ![k][g][d] = n]
<1>1. calls' = new
  OBVIOUS
<1>2. calls \in Calls /\ n \in Nat /\ n > 0 /\ generation \in Generations
  BY DEF TypeOK, Calls
<1> HIDE DEF n
<1>3. \A j \in Keys, h \in Generations, e \in Delays :
         new[j][h][e] = IF j = k /\ h = g /\ e = d THEN n ELSE calls[j][h][e]
  BY <1>2, CallsChange
<1> HIDE DEF new
<1>4. ASSUME NEW j \in Keys, NEW e \in Delays
      PROVE  Waiting(j, e)' <=> (j = k /\ g = generation /\ e = d) \/ Waiting(j, e)
  <2>1. CASE j = k /\ g = generation /\ e = d
    <3>1. calls'[j][generation'][e] = n
      BY <1>1, <1>2, <1>3, <2>1
    <3> QED BY <1>2, <2>1, <3>1 DEF Waiting
  <2>2. CASE ~ (j = k /\ g = generation /\ e = d)
    <3>1. calls'[j][generation'][e] = calls[j][generation][e]
      BY <1>1, <1>2, <1>3, <2>2
    <3> QED BY <2>2, <3>1 DEF Waiting
  <2> QED BY <2>1, <2>2
<1> QED BY <1>4

LEMMA ScheduleTargetKeepsDuties ==
    ASSUME DutyInv, NEW k \in Keys, ScheduleTarget(k)
    PROVE  UNCHANGED Promise!vars /\ DutiesFit'
<1> USE DEF DutyInv, DutiesFit
<1>1. /\ todo' = todo \ {k} /\ k \in todo
      /\ UNCHANGED <<closed, generation, targets, inFlight, workers, begun>>
  BY DEF ScheduleTarget
<1>2. \A j \in Keys, e \in Delays : Waiting(j, e)' <=> (j = k /\ e = "now") \/ Waiting(j, e)
  <2>1. PICK g \in Generations : g = generation
    BY DEF RefreshInv, TypeOK
  <2>2. calls' = [calls EXCEPT ![k][g]["now"] = @ + 1] /\ generation' = generation
    BY <2>1 DEF ScheduleTarget
  <2>3. "now" \in Delays /\ TypeOK
    BY DEF Delays, RefreshInv
  <2>4. \A j \in Keys, e \in Delays :
           Waiting(j, e)' <=> (j = k /\ g = generation /\ e = "now") \/ Waiting(j, e)
    BY <2>2, <2>3, CallIsAdded
  <2> QED BY <2>1, <2>4
<1>3. \A j \in Keys : InTodo(j)' <=> InTodo(j) /\ j # k
  BY <1>1 DEF InTodo
<1>4. \A w, j : (w \in workers' /\ Handing(w, j)') <=> (w \in workers /\ Handing(w, j))
  BY <1>1 DEF Handing
<1>5. InTodo(k) /\ "now" \in Delays
  BY <1>1 DEF InTodo, Delays
<1>6. \A j \in Keys : (Soon(j)' <=> Soon(j)) /\ (Later(j)' <=> Later(j))
  BY <1>2, <1>3, <1>4, <1>5 DEF Soon, Later, Repeats
<1>7. \A j : Refreshing(j)' <=> Refreshing(j)
  BY <1>1 DEF Refreshing, Active
<1>8. ActiveIsLatest'
  BY <1>1 DEF ActiveIsLatest, Active
<1> QED BY <1>1, <1>6, <1>7, <1>8, DutiesStay

\* _finish_refresh: the worker that was at work hands its target on if it is still one, to be
\* repeated at once if it was begun for an older configuration.
LEMMA FinishKeepsDuties ==
    ASSUME DutyInv, NEW w \in workers, Finish(w)
    PROVE  Promise!Ends(w.key) /\ DutiesFit'
<1> USE DEF DutyInv, DutiesFit, RefreshInv
<1>0. PICK k : k = w.key
  OBVIOUS
<1>1. /\ w \in Workers /\ w \in Active /\ k \in Keys /\ generation \in Generations
      /\ Refreshing(k)
  BY <1>0 DEF Finish, Active, TypeOK, Workers, Refreshing
<1>2. PICK v : /\ v = [w EXCEPT !.at = "rescheduling", !.found = generation]
               /\ v.key = k /\ v.gen = w.gen /\ v.found = generation /\ v.at = "rescheduling"
  <2>1. [w EXCEPT !.at = "rescheduling", !.found = generation] \in Workers
    BY <1>1 DEF Workers
  <2> QED BY <1>0, <1>1, <2>1 DEF Workers
<1>3. /\ UNCHANGED <<closed, generation, targets, todo, calls, begun>>
      /\ \/ k \notin targets /\ workers' = workers \ {w}
         \/ k \in targets /\ workers' = (workers \ {w}) \cup {v}
  BY <1>0, <1>2 DEF Finish, Ends, Becomes, Found, ClosedHasNone
<1>4. DutyOf(k) = "atWork" /\ ~ Soon(k) /\ ~ Later(k)
  BY <1>1, OneDuty
<1>5. \A u : u \in Active' <=> u \in Active /\ u # w
  BY <1>2, <1>3 DEF Active
<1>6. \A j : Refreshing(j)' <=> Refreshing(j) /\ j # k
  BY <1>0, <1>1, <1>5 DEF Refreshing, OneRefreshPerTarget
<1>7. \A j : /\ InTodo(j)' <=> InTodo(j)
             /\ \A d : Waiting(j, d)' <=> Waiting(j, d)
  BY <1>3 DEF InTodo, Waiting
<1>8. \A u, j : (u \in workers' /\ Handing(u, j)')
                   <=> (u \in workers /\ Handing(u, j)) \/ (k \in targets /\ u = v /\ j = k)
  <2>1. \A j : ~ Handing(w, j)
    BY <1>1 DEF Handing, Active
  <2>2. \A j : Handing(v, j)' <=> j = k
    BY <1>2, <1>3 DEF Handing
  <2>3. \A u, j : Handing(u, j)' <=> Handing(u, j)
    BY <1>3 DEF Handing
  <2> QED BY <1>3, <2>1, <2>2, <2>3
<1>9. Repeats(v) <=> begun[k] # generation
  BY <1>0, <1>1, <1>2 DEF Repeats, ActiveIsLatest
<1>10. \A j \in Keys :
          /\ Soon(j)' <=> Soon(j) \/ (j = k /\ k \in targets /\ begun[k] # generation)
          /\ Later(j)' <=> Later(j) \/ (j = k /\ k \in targets /\ begun[k] = generation)
  BY <1>7, <1>8, <1>9 DEF Soon, Later, Repeats
<1>11. \A j \in Keys :
          DutyOf(j)' = IF j # k THEN DutyOf(j)
                       ELSE IF k \notin targets THEN "none"
                       ELSE IF begun[k] # generation THEN "soon" ELSE "later"
  BY <1>4, <1>6, <1>10 DEF DutyOf
<1>12. [j \in Keys |-> DutyOf(j)]' =
          [[j \in Keys |-> DutyOf(j)] EXCEPT ![k] =
              IF k \notin targets THEN "none"
              ELSE IF k \in {j \in Keys : begun[j] # generation} THEN "soon" ELSE "later"]
  BY <1>1, <1>11
<1>13. [j \in Keys |-> DutyOf(j)][k] = "atWork"
  BY <1>1, <1>4
<1>14. {j \in Keys : begun[j] # generation}' = {j \in Keys : begun[j] # generation}
  BY <1>3
<1>15. Promise!Ends(k)
  BY <1>3, <1>12, <1>13, <1>14 DEF Promise!Ends
<1>16. DutiesFit'
  <2>1. OnlyTargetsAreDue'
    BY <1>3, <1>10 DEF OnlyTargetsAreDue
  <2>2. ActiveIsLatest' /\ BegunNotAhead'
    BY <1>3, <1>5 DEF ActiveIsLatest, BegunNotAhead
  <2> QED BY <2>1, <2>2
<1> QED BY <1>0, <1>15, <1>16

LEMMA RescheduleKeepsDuties ==
    ASSUME DutyInv, NEW w \in workers, Reschedule(w)
    PROVE  UNCHANGED Promise!vars /\ DutiesFit'
<1> USE DEF DutyInv, DutiesFit
<1>1. w \in Workers /\ w.key \in Keys /\ w.at = "rescheduling"
  BY DEF Reschedule, RefreshInv, TypeOK, Workers
<1>2. UNCHANGED <<closed, generation, targets, inFlight, todo, calls, begun>>
  BY DEF Reschedule
<1>3. \A j : /\ InTodo(j)' <=> InTodo(j)
             /\ \A d : Waiting(j, d)' <=> Waiting(j, d)
  BY <1>2 DEF InTodo, Waiting
<1>4. CASE closed \/ w.found # generation
  <2>1. workers' = workers \ {w}
    BY <1>4 DEF Reschedule, Ends
  <2>2. \A j \in Keys : ~ Handing(w, j)
    <3>1. CASE closed
      <4>1. \A j \in Keys : ~ Soon(j) /\ ~ Later(j)
        BY <3>1, OneDuty
      <4> QED BY <4>1 DEF Soon, Later
    <3>2. CASE w.found # generation
      BY <3>2 DEF Handing
    <3> QED BY <1>4, <3>1, <3>2
  <2>3. \A u, j : j \in Keys => ((u \in workers' /\ Handing(u, j)')
                                  <=> (u \in workers /\ Handing(u, j)))
    BY <1>2, <2>1, <2>2 DEF Handing
  <2>4. \A j \in Keys : (Soon(j)' <=> Soon(j)) /\ (Later(j)' <=> Later(j))
    BY <1>3, <2>3 DEF Soon, Later, Repeats
  <2>5. \A u : u \in Active' <=> u \in Active
    BY <1>1, <2>1 DEF Active
  <2>6. ActiveIsLatest' /\ \A j : Refreshing(j)' <=> Refreshing(j)
    BY <1>2, <2>5 DEF ActiveIsLatest, Refreshing
  <2> QED BY <1>2, <2>4, <2>6, DutiesStay
<1>5. CASE ~ (closed \/ w.found # generation)
  <2>1. PICK v : /\ v = [w EXCEPT !.at = "calling"]
                 /\ v.key = w.key /\ v.gen = w.gen /\ v.found = w.found /\ v.at = "calling"
    <3>1. [w EXCEPT !.at = "calling"] \in Workers
      BY <1>1 DEF Workers
    <3> QED BY <1>1, <3>1 DEF Workers
  <2>2. workers' = (workers \ {w}) \cup {v}
    BY <1>5, <2>1 DEF Reschedule, Becomes
  <2>3. \A u : u \in Active' <=> u \in Active
    BY <1>1, <2>1, <2>2 DEF Active
  <2>4. ActiveIsLatest' /\ \A j : Refreshing(j)' <=> Refreshing(j)
    BY <1>2, <2>3 DEF ActiveIsLatest, Refreshing
  <2>5. \A j : (Handing(v, j)' <=> Handing(w, j)) /\ (Handing(v, j) <=> Handing(w, j))
    BY <1>1, <1>2, <2>1 DEF Handing
  <2>6. Repeats(v) <=> Repeats(w)
    BY <2>1 DEF Repeats
  <2>7. \A u, j : Handing(u, j)' <=> Handing(u, j)
    BY <1>2 DEF Handing
  <2>8. \A j \in Keys : (Soon(j)' <=> Soon(j)) /\ (Later(j)' <=> Later(j))
    BY <1>3, <2>2, <2>5, <2>6, <2>7 DEF Soon, Later, Repeats
  <2> QED BY <1>2, <2>4, <2>8, DutiesStay
<1> QED BY <1>4, <1>5

\* The callback takes over what the worker handed on, and with it the time that it is due.
LEMMA CallKeepsDuties ==
    ASSUME DutyInv, NEW w \in workers, Call(w)
    PROVE  UNCHANGED Promise!vars /\ DutiesFit'
<1> USE DEF DutyInv, DutiesFit
<1>0. PICK k : k = w.key
  OBVIOUS
<1>1. /\ w \in Workers /\ k \in Keys /\ w.at = "calling" /\ w.found \in Generations
      /\ TypeOK
  BY <1>0 DEF Call, RefreshInv, TypeOK, Workers
<1>2. PICK d \in Delays : /\ calls' = [calls EXCEPT ![k][w.found][d] = @ + 1]
                          /\ d = "now" <=> Repeats(w)
  BY <1>0, <1>1 DEF Call, DelayAfter, Delays, Repeats, Workers
<1>3. workers' = workers \ {w} /\ UNCHANGED <<closed, generation, targets, inFlight, todo, begun>>
  BY DEF Call, Ends
<1>4. \A j \in Keys, e \in Delays :
         Waiting(j, e)' <=> (j = k /\ w.found = generation /\ e = d) \/ Waiting(j, e)
  BY <1>1, <1>2, <1>3, CallIsAdded
<1>5. \A j : InTodo(j)' <=> InTodo(j)
  BY <1>3 DEF InTodo
<1>6. \A j : Handing(w, j) <=> j = k /\ w.found = generation
  BY <1>0, <1>1 DEF Handing
<1>7. \A u, j : (u \in workers' /\ Handing(u, j)') <=> (u \in workers /\ Handing(u, j) /\ u # w)
  BY <1>3 DEF Handing
<1>8. \A u : u \in Active' <=> u \in Active
  BY <1>1, <1>3 DEF Active
<1>9. ActiveIsLatest' /\ \A j : Refreshing(j)' <=> Refreshing(j)
  BY <1>3, <1>8 DEF ActiveIsLatest, Refreshing
<1>10. CASE Repeats(w)
  <2>1. d = "now"
    BY <1>2, <1>10
  <2>2. \A j \in Keys : Later(j)' <=> Later(j)
    BY <1>4, <1>7, <1>10, <2>1 DEF Later, Repeats
  <2>3. \A j \in Keys : Soon(j)' <=> Soon(j)
    BY <1>4, <1>5, <1>6, <1>7, <1>10, <2>1 DEF Soon, Repeats
  <2> QED BY <1>3, <1>9, <2>2, <2>3, DutiesStay
<1>11. CASE ~ Repeats(w)
  <2>1. d \in Delays \ {"now"}
    BY <1>2, <1>11
  <2>2. \A j \in Keys : Later(j)' <=> Later(j)
    BY <1>4, <1>6, <1>7, <1>11, <2>1 DEF Later, Repeats
  <2>3. \A j \in Keys : Soon(j)' <=> Soon(j)
    BY <1>4, <1>5, <1>7, <1>11, <2>1 DEF Soon, Repeats, Delays
  <2> QED BY <1>3, <1>9, <2>2, <2>3, DutiesStay
<1> QED BY <1>10, <1>11

\* _begin_refresh: a callback of an older generation is nobody's duty; one of this generation
\* is never refused, because its target is wanted and has no worker.
LEMMA BeginRefreshKeepsDuties ==
    ASSUME DutyInv, NEW k \in Keys, NEW g \in Generations, NEW d \in Delays,
           BeginRefresh(k, g, d)
    PROVE  (UNCHANGED Promise!vars \/ Promise!Begins(k)) /\ DutiesFit'
<1> USE DEF DutyInv, DutiesFit
<1>1. /\ generation \in Generations /\ calls \in Calls /\ calls[k][g][d] > 0
      /\ calls[k][g][d] \in Nat
  BY DEF BeginRefresh, RefreshInv, TypeOK, Calls
<1>2. UNCHANGED <<closed, generation, targets, todo>>
  BY DEF BeginRefresh
<1> DEFINE n == calls[k][g][d] - 1
           new == [calls EXCEPT ![k][g][d] = n]
<1>3. n \in Nat /\ calls' = new
  BY <1>1 DEF BeginRefresh
<1>4. g = generation => n = 0
  BY <1>1 DEF RefreshInv, NoTargetIsDoubled
<1> HIDE DEF n
<1>5. \A j \in Keys, h \in Generations, e \in Delays :
         new[j][h][e] = IF j = k /\ h = g /\ e = d THEN n ELSE calls[j][h][e]
  BY <1>1, <1>3, CallsChange
<1> HIDE DEF new
<1>6. \A j \in Keys, e \in Delays :
         ~ (j = k /\ g = generation /\ e = d) => (Waiting(j, e)' <=> Waiting(j, e))
  <2> SUFFICES ASSUME NEW j \in Keys, NEW e \in Delays,
                      ~ (j = k /\ g = generation /\ e = d)
               PROVE  Waiting(j, e)' <=> Waiting(j, e)
    OBVIOUS
  <2>1. calls'[j][generation'][e] = calls[j][generation][e]
    BY <1>1, <1>2, <1>3, <1>5
  <2> QED BY <2>1 DEF Waiting
<1>7. \A j : InTodo(j)' <=> InTodo(j)
  BY <1>2 DEF InTodo
<1>8. CASE g # generation
  <2>1. UNCHANGED <<inFlight, workers, begun>>
    BY <1>8 DEF BeginRefresh, Outdated
  <2>2. /\ \A j : Refreshing(j)' <=> Refreshing(j)
        /\ \A u, j : Handing(u, j)' <=> Handing(u, j)
    BY <1>2, <2>1 DEF Refreshing, Active, Handing
  <2>3. \A j \in Keys : (Soon(j)' <=> Soon(j)) /\ (Later(j)' <=> Later(j))
    BY <1>6, <1>7, <1>8, <2>1, <2>2 DEF Soon, Later, Repeats, Delays
  <2>4. ActiveIsLatest'
    BY <2>1 DEF ActiveIsLatest, Active
  <2> QED BY <1>2, <2>1, <2>2, <2>3, <2>4, DutiesStay
<1>9. CASE g = generation
  <2>1. Waiting(k, d)
    BY <1>1, <1>9 DEF Waiting
  <2>2. (Soon(k) \/ Later(k)) /\ ~ Refreshing(k)
    <3>1. Soon(k) \/ Later(k)
      BY <2>1 DEF Soon, Later
    <3> QED BY <3>1, OneDuty
  <2>3. DutyOf(k) \in {"soon", "later"} /\ ~ closed
    BY <2>2, OneDuty
  <2>4. ~ Outdated(k, g)
    BY <1>9, <2>2, <2>3 DEF Outdated, RefreshInv, InFlightIsActive
  <2>5. begun' = [begun EXCEPT ![k] = generation]
    BY <1>9, <2>4 DEF BeginRefresh, Takes
  <2>6. PICK v : /\ v.key = k /\ v.gen = generation /\ v.at \in {"queued", "finishing"}
                 /\ workers' = workers \cup {v}
    <3>1. PICK started \in BOOLEAN :
             workers' = workers \cup
                 {[key |-> k, gen |-> g,
                   at |-> IF started THEN "queued" ELSE "finishing",
                   ok |-> FALSE, found |-> g, onGui |-> ~started]}
      BY <2>4 DEF BeginRefresh
    <3>2. [key |-> k, gen |-> g, at |-> IF started THEN "queued" ELSE "finishing",
           ok |-> FALSE, found |-> g, onGui |-> ~started] \in Workers
      BY DEF Workers
    <3> QED BY <1>9, <3>1, <3>2
  <2>7. \A u : u \in Active' <=> u \in Active \/ u = v
    BY <2>6 DEF Active
  <2>8. \A j : Refreshing(j)' <=> Refreshing(j) \/ j = k
    BY <2>6, <2>7 DEF Refreshing
  <2>9. \A u, j : (u \in workers' /\ Handing(u, j)') <=> (u \in workers /\ Handing(u, j))
    BY <1>2, <2>6 DEF Handing
  <2>10. \A j \in Keys : j # k => (Soon(j)' <=> Soon(j)) /\ (Later(j)' <=> Later(j))
    BY <1>6, <1>7, <2>9 DEF Soon, Later, Repeats, Delays
  <2>11. \A j \in Keys : DutyOf(j)' = IF j = k THEN "atWork" ELSE DutyOf(j)
    BY <2>8, <2>10 DEF DutyOf
  <2>12. [j \in Keys |-> DutyOf(j)]' = [[j \in Keys |-> DutyOf(j)] EXCEPT ![k] = "atWork"]
    BY <2>11
  <2>13. /\ \A j \in Keys : begun'[j] = IF j = k THEN generation ELSE begun[j]
         /\ generation <= generation
    BY <1>1, <2>5 DEF RefreshInv, TypeOK, Generations
  <2>14. {j \in Keys : begun[j] # generation}' = {j \in Keys : begun[j] # generation} \ {k}
    BY <1>2, <2>13
  <2>15. [j \in Keys |-> DutyOf(j)][k] \in {"soon", "later"}
    BY <2>3
  <2>16. Promise!Begins(k)
    BY <1>2, <2>12, <2>14, <2>15 DEF Promise!Begins
  <2>17. ActiveIsLatest'
    <3>1. \A u \in Active : u.key # k /\ u.key \in Keys
      BY <2>2 DEF Refreshing, Active, RefreshInv, TypeOK, Workers
    <3> QED BY <2>6, <2>7, <2>13, <3>1 DEF ActiveIsLatest
  <2>18. BegunNotAhead'
    BY <1>2, <2>13 DEF BegunNotAhead
  <2>19. OnlyTargetsAreDue'
    <3>1. k \in targets
      BY <2>2, OneDuty
    <3> QED BY <1>2, <2>10, <3>1 DEF OnlyTargetsAreDue
  <2> QED BY <2>16, <2>17, <2>18, <2>19
<1> QED BY <1>8, <1>9

LEMMA StepKeepsDuties == DutyInv /\ [Next]_vars => DutyInv' /\ [Promise!Next]_(Promise!vars)
<1> SUFFICES ASSUME DutyInv, [Next]_vars PROVE DutyInv' /\ [Promise!Next]_(Promise!vars)
  OBVIOUS
<1>1. RefreshInv'
  BY StepKeeps DEF DutyInv
<1>2. ASSUME NEW T \in SUBSET Keys, Start(T)
      PROVE  DutiesFit' /\ [Promise!Next]_(Promise!vars)
  BY <1>2, StartKeepsDuties DEF Promise!Next
<1>3. CASE Close
  BY <1>1, <1>3, CloseKeepsDuties DEF Promise!Next, DutyInv
<1>4. ASSUME NEW k \in Keys, ScheduleTarget(k)
      PROVE  DutiesFit' /\ [Promise!Next]_(Promise!vars)
  BY <1>4, ScheduleTargetKeepsDuties
<1>5. ASSUME NEW k \in Keys, NEW g \in Generations, NEW d \in Delays, BeginRefresh(k, g, d)
      PROVE  DutiesFit' /\ [Promise!Next]_(Promise!vars)
  BY <1>5, BeginRefreshKeepsDuties DEF Promise!Next
<1>6. ASSUME NEW w \in workers, WorkerStep(w)
      PROVE  DutiesFit' /\ [Promise!Next]_(Promise!vars)
  <2>1. CASE Finish(w)
    <3>1. w.key \in Keys
      BY DEF DutyInv, RefreshInv, TypeOK, Workers
    <3> QED BY <2>1, <3>1, FinishKeepsDuties DEF Promise!Next
  <2> QED BY <1>6, <2>1, WorkersKeepDuties, RescheduleKeepsDuties, CallKeepsDuties DEF WorkerStep
<1>7. CASE UNCHANGED vars
  <2>1. \A k : /\ Refreshing(k)' <=> Refreshing(k)
               /\ Soon(k)' <=> Soon(k)
               /\ Later(k)' <=> Later(k)
    BY <1>7 DEF vars, Refreshing, Active, Soon, Later, InTodo, Waiting, Handing
  <2>2. ActiveIsLatest'
    BY <1>7 DEF vars, DutyInv, DutiesFit, ActiveIsLatest, Active
  <2>3. UNCHANGED Promise!vars /\ OnlyTargetsAreDue' /\ BegunNotAhead'
    BY <1>7, <2>1, DutiesStay DEF DutyInv, vars
  <2> QED BY <1>1, <2>2, <2>3 DEF DutiesFit, DutyInv
<1> QED BY <1>1, <1>2, <1>3, <1>4, <1>5, <1>6, <1>7 DEF DutyInv, Next, GuiStep

LEMMA InitIsPromised == Init => Promise!Init
<1> SUFFICES ASSUME Init PROVE Promise!Init
  OBVIOUS
<1>1. \A k \in Keys, d \in Delays : ~ Waiting(k, d)
  BY MaxGenerationAssumption DEF Init, Waiting, Generations
<1>2. \A k \in Keys : DutyOf(k) = "none"
  BY <1>1 DEF Init, DutyOf, Refreshing, Active, Soon, Later, InTodo, Delays
<1>3. {k \in Keys : begun[k] # generation} = {}
  BY DEF Init
<1> QED BY <1>2, <1>3 DEF Init, Promise!Init

\* Whatever the order of configuration changes, timer callbacks and finishing threads, the
\* coordinator does no more and no less than one duty per target asks for: it implements
\* RefreshDuty.  (start, _begin_refresh, _finish_refresh, _schedule_target, close)
THEOREM CoordinatorKeepsDuties == Spec => DutyIsKept
<1>1. Spec => []DutyInv
  BY InitHasDuties, StepKeepsDuties, PTL DEF Spec
<1> QED BY <1>1, InitIsPromised, StepKeepsDuties, PTL DEF Spec, DutyIsKept, Promise!Spec

=============================================================================
