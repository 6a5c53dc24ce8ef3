-------------------------- MODULE ChampSelectSession --------------------------
(***************************************************************************)
(* The champion select of one ranked game as the League client runs it,    *)
(* seen from src/: numbered sessions (gameId) that open, go through their  *)
(* stages and close; the local player's ban and pick; what the other       *)
(* players take; and writes that take effect in their order some time      *)
(* after the client has accepted them (lcu_client waits for that).         *)
(***************************************************************************)
EXTENDS Naturals, Sequences

CONSTANTS
    PoolSize,  \* configured candidates, in order of preference
    Refusable, \* candidates that the client may refuse for a reason no snapshot shows
    MaxGames,  \* bound: champion selects that open
    MaxFaults  \* bound: failed requests, dropped writes, waits that end too early

ASSUME SessionConstants ==
    /\ PoolSize \in Nat \ {0}
    /\ Refusable \subseteq 1 .. PoolSize
    /\ MaxGames \in Nat
    /\ MaxFaults \in Nat

Pool       == 1 .. PoolSize
NoChampion == 0
BanTarget  == PoolSize + 1   \* the configured ban, a champion outside the pool
Champions  == 0 .. PoolSize + 1
Kinds      == {"ban", "pick"}

VARIABLES
    game,    \* gameId of the latest session, 0 before the first
    open,    \* the session exists: the gameflow phase is ChampSelect
    stage,   \* the stage of the draft
    taken,   \* champions in completed bans and picks
    refused, \* candidates the client refuses, not owned for example
    hover,   \* championId of the local ban and pick action
    done,    \* completed of the local ban and pick action
    lock,    \* who completed the own pick, and with what
    sent,    \* accepted writes that have not taken effect yet, oldest first
    faults

draft       == <<stage, taken, hover, done, lock>>
sessionVars == <<game, open, draft, refused, sent, faults>>

Stages == {"plan", "banEarly", "ban", "reveal", "pick", "final"}
Write  == [kind : Kinds, champ : Champions, complete : BOOLEAN]

SessionTypeOK ==
    /\ game \in 0 .. MaxGames
    /\ open \in BOOLEAN
    /\ stage \in Stages
    /\ taken \subseteq Champions
    /\ refused \subseteq Refusable
    /\ hover \in [Kinds -> Champions]
    /\ done \in [Kinds -> BOOLEAN]
    /\ lock \in [by : {"nobody", "lcu", "image", "client"}, champ : Champions]
    /\ sent \in Seq(Write)
    /\ faults \in 0 .. MaxFaults

Unlocked == [by |-> "nobody", champ |-> NoChampion]
Nothing  == [k \in Kinds |-> NoChampion]

SessionInit ==
    /\ game = 0 /\ open = FALSE
    /\ stage = "plan" /\ taken = {} /\ hover = Nothing
    /\ done = [k \in Kinds |-> FALSE] /\ lock = Unlocked
    /\ refused \in SUBSET Refusable
    /\ sent = <<>>
    /\ faults = 0

-----------------------------------------------------------------------------
Blocked == taken \cup refused

BanStages == {"banEarly", "ban"}

\* isInProgress and not completed.
InProgress(kind) ==
    /\ open /\ ~done[kind]
    /\ stage \in (IF kind = "ban" THEN BanStages ELSE {"pick"})

Fault == faults < MaxFaults /\ faults' = faults + 1

\* The client's answer to a write: accepted, refused with a 4xx, or no answer, in
\* which case nobody knows whether the write got through.
Accepts(w) ==
    /\ open /\ ~done[w.kind]
    /\ w.champ \notin Blocked
    /\ w.complete => InProgress(w.kind)

Requests(w, answer) ==
    /\ \/ answer = "ok" /\ Accepts(w) /\ sent' = Append(sent, w) /\ UNCHANGED faults
       \/ answer = "refused" /\ ~Accepts(w) /\ UNCHANGED <<sent, faults>>
       \/ answer = "none" /\ Fault /\ (UNCHANGED sent \/ (Accepts(w) /\ sent' = Append(sent, w)))
    /\ UNCHANGED <<game, open, draft, refused>>

\* Any read of the session or the phase; a failed one is a fault.
ReadFails    == Fault /\ UNCHANGED <<game, open, draft, refused, sent>>
ReadSucceeds == UNCHANGED sessionVars

-----------------------------------------------------------------------------
\* The own ban and pick, completed with the champion they stand on.
Completes(kind, champ, by) ==
    /\ done' = [done EXCEPT ![kind] = TRUE]
    /\ taken' = taken \cup ({champ} \ {NoChampion})
    /\ lock' = IF kind = "pick" THEN [by |-> by, champ |-> champ] ELSE lock

\* A write takes effect, as far as it still can.
WriteLands ==
    /\ sent # <<>>
    /\ LET w    == Head(sent)
           lands == open /\ ~done[w.kind] /\ w.champ \notin Blocked
           on   == IF lands /\ w.champ # NoChampion THEN w.champ ELSE hover[w.kind]
       IN  /\ hover' = [hover EXCEPT ![w.kind] = on]
           /\ IF w.complete /\ InProgress(w.kind) /\ on \notin Blocked \cup {NoChampion}
              THEN Completes(w.kind, on, "lcu")
              ELSE UNCHANGED <<taken, done, lock>>
    /\ sent' = Tail(sent)
    /\ UNCHANGED <<game, open, stage, refused, faults>>

WriteIsLost ==
    /\ sent # <<>>
    /\ Fault
    /\ sent' = Tail(sent)
    /\ UNCHANGED <<game, open, draft, refused>>

SessionOpens ==
    /\ game < MaxGames
    /\ game' = game + 1
    /\ open' = TRUE
    /\ stage' = "plan" /\ taken' = {} /\ hover' = Nothing
    /\ done' = [k \in Kinds |-> FALSE] /\ lock' = Unlocked
    /\ sent' = <<>>
    /\ UNCHANGED <<refused, faults>>

\* Somebody leaves, or the game starts.
SessionCloses ==
    /\ open
    /\ open' = FALSE
    /\ sent' = <<>>
    /\ UNCHANGED <<game, draft, refused, faults>>

\* The timer of the own pick runs out over no champion that can be had.
PickForfeited == InProgress("pick") /\ hover["pick"] \in Blocked \cup {NoChampion}

StageEnds ==
    /\ open /\ stage # "final"
    /\ stage' = CASE stage = "plan"     -> "banEarly"
                  [] stage = "banEarly" -> "ban"
                  [] stage = "ban"      -> "reveal"
                  [] stage = "reveal"   -> "pick"
                  [] OTHER              -> "final"
    /\ CASE stage = "ban" ->
              done' = [done EXCEPT !["ban"] = TRUE] /\ UNCHANGED <<taken, lock>>
         [] InProgress("pick") /\ ~PickForfeited -> Completes("pick", hover["pick"], "client")
         [] OTHER -> ~PickForfeited /\ UNCHANGED <<taken, done, lock>>
    /\ UNCHANGED <<game, open, hover, refused, sent, faults>>

OthersTake(champ) ==
    /\ open
    /\ champ \notin taken
    /\ taken' = taken \cup {champ}
    /\ UNCHANGED <<game, open, stage, hover, done, lock, refused, sent, faults>>

\* The user looks at a champion outside the pool before the own turn, or completes
\* the pick by hand.
UserHovers ==
    /\ open /\ stage \notin {"pick", "final"}
    /\ hover' = [hover EXCEPT !["pick"] = BanTarget]
    /\ UNCHANGED <<game, open, stage, taken, done, lock, refused, sent, faults>>

UserLocks ==
    /\ InProgress("pick")
    /\ \E c \in (Pool \cup {BanTarget}) \ Blocked :
          /\ hover' = [hover EXCEPT !["pick"] = c]
          /\ Completes("pick", c, "client")
    /\ UNCHANGED <<game, open, stage, refused, sent, faults>>

ClientMoves ==
    \/ WriteLands \/ WriteIsLost \/ SessionCloses
    \/ UserHovers \/ UserLocks
    \/ \E c \in Pool \cup {BanTarget} : OthersTake(c)

=============================================================================
