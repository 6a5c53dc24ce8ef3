----------------------------- MODULE LeagueClient -----------------------------
(***************************************************************************)
(* The League of Legends client as the automation sees it: the gameflow    *)
(* phase it reports over its local API (the LCU), the player who uses it   *)
(* at the same time, the link that carries the requests, and the phase     *)
(* cache through which every reader of src/src/lolmanager/core/lcu_client  *)
(* goes.  The client itself is external: its steps are what the code under *)
(* src/ reacts to.                                                         *)
(***************************************************************************)
EXTENDS Naturals

CONSTANT MaxFaults      \* how often the link may break in one behaviour

ASSUME MaxFaultsAssumption == MaxFaults \in Nat

VARIABLES
    phase,        \* the client's gameflow phase
    searchAsked,  \* a start request was accepted and is not reflected in phase yet
    accepted,     \* the current ready check has been accepted
    link,         \* "ok", "garbled" (unreadable answers) or "down" (no answers)
    faults,       \* how often the link broke so far
    seen,         \* the automation has read the current phase
    cache,        \* LcuClient._phase_cache while young enough to be reused
    search        \* history of the last search: "none", "own" (the automation asked for
                  \* it), "user" (the user began it), and once it has ended in the lobby
                  \* "cancelled" (an own one, by the user) or "lost" (otherwise)

clientVars == <<phase, searchAsked, accepted, link, faults, seen, cache, search>>

\* Reconnect and WatchInProgress are handled exactly like InProgress everywhere.
PostgamePhases == {"WaitingForStats", "PreEndOfGame", "EndOfGame"}
Phases == {"None", "Lobby", "Matchmaking", "ReadyCheck", "ChampSelect",
           "InProgress"} \cup PostgamePhases

(* A phase decision: the phase (ACT_LCU), or why there is none.            *)
Fallback == "FALLBACK_IMAGE"
Wait     == "WAIT_AUTHORITATIVE"
Act      == "ACT_LCU"
Decisions == Phases \cup {Fallback, Wait}
NoDecision == "no decision"

\* lcu_loop_action_for on the outcome of a phase request.
LoopAction(d) == IF d \in Phases THEN Act ELSE d

LinkTypeOK ==
    /\ link \in {"ok", "garbled", "down"}
    /\ faults \in 0 .. MaxFaults
    /\ cache \in Decisions \cup {NoDecision}
    /\ seen \in BOOLEAN

ClientTypeOK ==
    /\ phase \in Phases
    /\ searchAsked \in BOOLEAN
    /\ accepted \in BOOLEAN
    /\ search \in {"none", "own", "user", "cancelled", "lost"}
    /\ LinkTypeOK

ClientInit(initialPhases) ==
    /\ phase \in initialPhases
    /\ searchAsked = FALSE
    /\ accepted = FALSE
    /\ link = "ok"
    /\ faults = 0
    /\ seen = FALSE
    /\ cache = NoDecision
    /\ search = "none"

-----------------------------------------------------------------------------
(* Reading the phase: get_gameflow_phase_decision returns the cached       *)
(* decision, a failure included, while it is young enough, and otherwise   *)
(* asks and caches what it got.                                            *)

Answer == CASE link = "ok"      -> phase
            [] link = "garbled" -> Wait
            [] link = "down"    -> Fallback

Reads(d) ==
    \/ /\ cache # NoDecision
       /\ d = cache
       /\ UNCHANGED clientVars
    \/ /\ cache = NoDecision
       /\ d = Answer
       /\ cache' = d
       /\ seen' = (seen \/ d = phase)
       /\ UNCHANGED <<phase, searchAsked, accepted, link, faults, search>>

\* max_age_sec has passed since the last request.
CacheExpires ==
    /\ cache # NoDecision
    /\ cache' = NoDecision
    /\ UNCHANGED <<phase, searchAsked, accepted, link, faults, seen,
                   search>>

LinkBreaks ==
    /\ link = "ok"
    /\ faults < MaxFaults
    /\ link' \in {"garbled", "down"}
    /\ faults' = faults + 1
    /\ UNCHANGED <<phase, searchAsked, accepted, seen, cache, search>>

LinkRecovers ==
    /\ link # "ok"
    /\ link' = "ok"
    /\ UNCHANGED <<phase, searchAsked, accepted, faults, seen, cache,
                   search>>

-----------------------------------------------------------------------------
(* Phase changes made by the client, the other players and the user.       *)

MovesTo(p) == /\ phase' = p
              /\ seen' = FALSE
              /\ accepted' = FALSE
              /\ UNCHANGED <<link, faults, cache>>

\* Phases that last for minutes are not missed by a program that polls every
\* few seconds over a working link.
Noticed == seen \/ link # "ok"

SearchBegins ==
    /\ searchAsked
    /\ phase \in {"Lobby", "None"}
    /\ MovesTo("Matchmaking")
    /\ searchAsked' = FALSE
    /\ search' = "own"

UserStartsSearch ==
    /\ phase = "Lobby"
    /\ ~searchAsked
    /\ MovesTo("Matchmaking")
    /\ search' = "user"
    /\ UNCHANGED searchAsked

UserCancelsSearch ==
    /\ phase = "Matchmaking"
    /\ MovesTo("Lobby")
    /\ search' = IF search = "own" THEN "cancelled" ELSE "lost"
    /\ UNCHANGED <<searchAsked>>

MatchFound ==
    /\ phase = "Matchmaking"
    /\ MovesTo("ReadyCheck")
    /\ UNCHANGED <<searchAsked, search>>

EveryoneAccepts ==
    /\ phase = "ReadyCheck"
    /\ accepted
    /\ MovesTo("ChampSelect")
    /\ UNCHANGED <<searchAsked, search>>

\* Somebody else declines: those who accepted are queued again.
SomeoneDeclines ==
    /\ phase = "ReadyCheck"
    /\ accepted
    /\ MovesTo("Matchmaking")
    /\ UNCHANGED <<searchAsked, search>>

\* The user declines, or nobody accepts for this player in time.
ReadyCheckFails ==
    /\ phase = "ReadyCheck"
    /\ ~accepted
    /\ MovesTo("Lobby")
    /\ search' = "lost"
    /\ UNCHANGED <<searchAsked>>

SomeoneDodges ==
    /\ phase = "ChampSelect"
    /\ MovesTo("Matchmaking")
    /\ UNCHANGED <<searchAsked, search>>

UserDodges ==
    /\ phase = "ChampSelect"
    /\ MovesTo("Lobby")
    /\ search' = "lost"
    /\ UNCHANGED <<searchAsked>>

GameStarts ==
    /\ phase = "ChampSelect"
    /\ Noticed
    /\ MovesTo("InProgress")
    /\ UNCHANGED <<searchAsked, search>>

GameEnds ==
    /\ phase = "InProgress"
    /\ Noticed
    /\ \E p \in {"WaitingForStats", "PreEndOfGame"} : MovesTo(p)
    /\ UNCHANGED <<searchAsked, search>>

PostgameAdvances ==
    /\ phase \in {"WaitingForStats", "PreEndOfGame"}
    /\ \E p \in PostgamePhases \ {"WaitingForStats", phase} : MovesTo(p)
    /\ UNCHANGED <<searchAsked, search>>

UserLeavesPostgame ==
    /\ phase = "EndOfGame"
    /\ \E p \in {"Lobby", "None"} : MovesTo(p)
    /\ UNCHANGED <<searchAsked, search>>

UserEntersLobby ==
    /\ phase = "None"
    /\ ~searchAsked
    /\ MovesTo("Lobby")
    /\ UNCHANGED <<searchAsked, search>>

UserLeavesLobby ==
    /\ phase = "Lobby"
    /\ MovesTo("None")
    /\ searchAsked' = FALSE
    /\ search' = IF searchAsked THEN "lost" ELSE search

UserActs ==
    \/ UserStartsSearch \/ UserCancelsSearch \/ UserDodges
    \/ UserLeavesPostgame \/ UserEntersLobby \/ UserLeavesLobby

ClientActs ==
    \/ SearchBegins \/ MatchFound \/ EveryoneAccepts \/ SomeoneDeclines
    \/ ReadyCheckFails \/ SomeoneDodges \/ GameStarts \/ GameEnds
    \/ PostgameAdvances

LinkActs == CacheExpires \/ LinkBreaks \/ LinkRecovers

ClientNext == UserActs \/ ClientActs \/ LinkActs

-----------------------------------------------------------------------------
(* Writing to the client.  A write returns Act (a 2xx answer), Wait (the   *)
(* client rejected it) or Fallback (no answer).  Without an answer the     *)
(* request may still have been carried out: only the response is lost.     *)

Rejected(r) == link # "down" /\ r = Wait /\ UNCHANGED clientVars
Lost(r)     == link = "down" /\ r = Fallback /\ UNCHANGED clientVars
Delivered(r) == r = IF link = "down" THEN Fallback ELSE Act

\* POST /lol-lobby/v2/lobby/matchmaking/search
StartSearchRequest(r) ==
    \/ /\ phase \in {"Lobby", "None"}
       /\ Delivered(r)
       /\ searchAsked' = TRUE
       /\ UNCHANGED <<phase, accepted, link, faults, seen, cache, search>>
    \/ Rejected(r)
    \/ Lost(r)

\* POST /lol-matchmaking/v1/ready-check/accept
AcceptRequest(r) ==
    \/ /\ phase = "ReadyCheck"
       /\ Delivered(r)
       /\ accepted' = TRUE
       /\ UNCHANGED <<phase, searchAsked, link, faults, seen, cache, search>>
    \/ phase # "ReadyCheck" /\ Rejected(r)
    \/ Lost(r)

\* POST /lol-lobby/v2/lobby, /lol-lobby/v2/play-again and
\* /lol-end-of-game/v1/state/dismiss-stats: from one phase to another.
MoveRequest(from, to, r) ==
    \/ /\ phase = from
       /\ Delivered(r)
       /\ MovesTo(to)
       /\ UNCHANGED <<searchAsked, search>>
    \/ Rejected(r)
    \/ Lost(r)

=============================================================================
