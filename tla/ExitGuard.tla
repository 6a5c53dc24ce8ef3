------------------------------- MODULE ExitGuard -------------------------------
(***************************************************************************)
(* LeagueClientExitGuard: what a look at the list of processes says of the *)
(* League client.  The enumeration may fail and Windows may refuse to say  *)
(* which file a process runs, so there are three answers; but a process    *)
(* that it does not name at all is passed over like any other one.         *)
(* The client is external: it starts and exits when it likes.              *)
(***************************************************************************)

VARIABLES
    league,    \* LeagueClient.exe runs
    sight      \* history: the window has "never" been told that it runs; it was "there"
               \* when the window was told so last; since then it has "exited", or an
               \* inspection has "missed" it

guardVars == <<league, sight>>

Unknown == "unknown"
Answers == {"yes", "no", Unknown}

(* How one inspection went: the enumeration was completed; the client, if  *)
(* it runs, was identified, or its file was refused, or it was nameless    *)
(* (psutil has None for a name that it may not read, or an empty file      *)
(* name); the files of other processes of its name could be read.          *)
Inspections == [completed: BOOLEAN, client: {"identified", "refused", "nameless"},
                others: BOOLEAN]
Conclusive  == [completed |-> TRUE, client |-> "identified", others |-> TRUE]

Found(i)      == league /\ i.client = "identified"
Incomplete(i) == ~ i.others \/ (league /\ i.client = "refused")
PassesOver(i) == i.completed /\ i.others /\ league /\ i.client = "nameless"

NoUnlessFound(i) == IF i.completed /\ Found(i) THEN "yes" ELSE "no"

PollIsRunning(i) ==
    CASE ~ i.completed                               -> Unknown
      [] i.completed /\ Found(i)                     -> "yes"
      [] i.completed /\ ~ Found(i) /\ Incomplete(i)  -> Unknown
      [] OTHER                                       -> "no"

GuardTypeOK == league \in BOOLEAN /\ sight \in {"never", "there", "exited", "missed"}

GuardInit == league \in BOOLEAN /\ sight = "never"

ClientStarts == ~ league /\ league' = TRUE /\ UNCHANGED sight
ClientExits  == league /\ league' = FALSE /\ sight' = "exited"

Misses(i) == sight' = IF PassesOver(i) THEN "missed" ELSE sight

\* The window is told that it runs, which may be over by then.
Told == sight' = IF league THEN "there" ELSE "exited"
================================================================================
