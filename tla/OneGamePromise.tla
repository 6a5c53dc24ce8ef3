---------------------------- MODULE OneGamePromise ----------------------------
(***************************************************************************)
(* What the continue-after-game setting promises: a game the automation    *)
(* has watched ends the run unless the user is willing to go on at that    *)
(* very moment, and the way from the score board back to the queue ends    *)
(* only where it should: in the queue, or because the user is no longer    *)
(* willing.  A start on a score board may carry on once without the        *)
(* setting.                                                                *)
(***************************************************************************)
VARIABLES
    mode,     \* "queue", "game", "board" or "over"
    willing,  \* the continue-after-game setting
    once      \* this score board is carried on from whatever the setting says

vars == <<mode, willing, once>>

Init == mode = "queue" /\ willing \in BOOLEAN /\ once = FALSE

UserDecides == willing' = ~willing /\ UNCHANGED <<mode, once>>

GameStarts == mode = "queue" /\ mode' = "game" /\ UNCHANGED <<willing, once>>

\* After the game: on to the score board or straight back to the queue if the user is
\* willing, the end of the run if not.
GameEnds ==
    /\ mode = "game"
    /\ \/ willing /\ mode' \in {"board", "queue"}
       \/ ~willing /\ mode' = "over"
    /\ UNCHANGED <<willing, once>>

\* The automation is started, or finds itself again, on a score board.
BoardFound ==
    /\ mode = "queue"
    /\ mode' = "board"
    /\ once' = ~willing
    /\ UNCHANGED willing

BoardLeft ==
    /\ mode = "board"
    /\ \/ mode' = "queue"
       \/ ~willing /\ ~once /\ mode' = "over"
    /\ once' = FALSE
    /\ UNCHANGED willing

\* The queue gives up: the user cancelled, or the score board found is not wanted.
QueueGivesUp == mode = "queue" /\ mode' = "over" /\ UNCHANGED <<willing, once>>

Next == UserDecides \/ GameStarts \/ GameEnds \/ BoardFound \/ BoardLeft \/ QueueGivesUp

Spec == Init /\ [][Next]_vars

=============================================================================
