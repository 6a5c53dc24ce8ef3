---------------------------- MODULE ChampionAction ----------------------------
(***************************************************************************)
(* LcuClient.select_champ_select_champion_decision: find the own action,   *)
(* put a champion on it and, if asked, complete it and wait until the      *)
(* session shows it completed.  One request per step; the session goes on  *)
(* in between.  The result is what _champ_select_action_attempt_via_lcu    *)
(* makes of it.                                                            *)
(***************************************************************************)
EXTENDS ChampSelectSession

VARIABLES
    step,   \* the request to send next; "idle" between two calls
    asked,  \* the call's arguments
    result  \* "done", "rejected", "wait", "image"; "none" until the call returns

actionVars == <<step, asked, result>>

Steps   == {"idle", "find", "assign", "assigned", "complete", "patch", "patchUnanswered",
            "confirm", "fallback", "fallbackUnanswered", "confirmFallback"}
Results == {"none", "done", "rejected", "wait", "image"}

ActionTypeOK ==
    /\ step \in Steps
    /\ asked \in Write
    /\ result \in Results

ActionInit ==
    /\ step = "idle"
    /\ asked = [kind |-> "pick", champ |-> NoChampion, complete |-> FALSE]
    /\ result = "none"

Calls(kind, champ, complete) ==
    /\ step' = "find"
    /\ asked' = [kind |-> kind, champ |-> champ, complete |-> complete]
    /\ result' = "none"

Returns(r) == step' = "idle" /\ result' = r /\ UNCHANGED asked
GoesTo(s)  == step' = s /\ UNCHANGED <<asked, result>>

\* The caller takes note of the result.
Consumed == step' = "idle" /\ result' = "none" /\ UNCHANGED asked

-----------------------------------------------------------------------------
Assignment == [asked EXCEPT !.complete = FALSE]
Completion == [asked EXCEPT !.champ = NoChampion]

\* get_local_action_state, with require_in_progress for a completion.
ActionIsOpen == open /\ ~done[asked.kind] /\ (asked.complete => InProgress(asked.kind))

FindsActionOrRejects ==
    /\ step = "find"
    /\ \/ /\ ReadSucceeds
          /\ IF ActionIsOpen THEN GoesTo("assign") ELSE Returns("rejected")
       \/ ReadFails /\ Returns("image")

\* The id of the champion is read from the champion grid, the action from the session.
FindsAction ==
    /\ step = "find"
    /\ \/ /\ ReadSucceeds
          /\ IF ActionIsOpen THEN GoesTo("assign") ELSE Returns("wait")
       \/ ReadFails /\ Returns("image")

Assigns ==
    /\ step = "assign"
    /\ \/ Requests(Assignment, "ok") /\ IF asked.complete THEN GoesTo("assigned")
                                                         ELSE Returns("done")
       \/ Requests(Assignment, "refused") /\ Returns("rejected")
       \/ Requests(Assignment, "none") /\ Returns("image")

\* A wait for an effect of the writes sent so far ends when the effect shows, when
\* nothing is under way any more, or, a fault, before the effect had time to show.
TimesOut == IF sent = <<>> THEN ReadSucceeds ELSE ReadFails

\* _wait_for_action_champion, whose result the caller ignores.
WaitsForAssignment ==
    /\ step = "assigned"
    /\ IF hover[asked.kind] = asked.champ THEN ReadSucceeds ELSE TimesOut
    /\ GoesTo("complete")

\* _complete_champ_select_action: POST .../complete, else PATCH completed.
CompletesAction ==
    /\ step = "complete"
    /\ \/ Requests(Completion, "ok") /\ GoesTo("confirm")
       \/ Requests(Completion, "refused") /\ GoesTo("patch")
       \/ Requests(Completion, "none") /\ GoesTo("patchUnanswered")

PatchesCompleted ==
    /\ step \in {"patch", "patchUnanswered"}
    /\ \/ Requests(asked, "ok") /\ GoesTo("confirmFallback")
       \/ Requests(asked, "refused") /\ Returns(IF step = "patch" THEN "rejected" ELSE "image")
       \/ Requests(asked, "none") /\ Returns("image")

\* _wait_for_action_completed; a last read that failed colours the result of the
\* fallback that follows.
ShowsCompleted(kind) == open /\ done[kind]

ConfirmsUnseen ==
    /\ step = "confirm"
    /\ \/ (ShowsCompleted(asked.kind) \/ sent = <<>>) /\ ReadSucceeds /\ Returns("done")
       \/ ~ShowsCompleted(asked.kind) /\ TimesOut /\ GoesTo("fallback")
       \/ ReadFails /\ GoesTo("fallbackUnanswered")

Confirms ==
    /\ step = "confirm"
    /\ \/ ShowsCompleted(asked.kind) /\ ReadSucceeds /\ Returns("done")
       \/ ~ShowsCompleted(asked.kind) /\ TimesOut /\ GoesTo("fallback")
       \/ ReadFails /\ GoesTo("fallbackUnanswered")

FallsBack ==
    /\ step \in {"fallback", "fallbackUnanswered"}
    /\ \/ Requests(asked, "ok") /\ GoesTo("confirmFallback")
       \/ Requests(asked, "refused")
             /\ Returns(IF step = "fallback" THEN "rejected" ELSE "image")
       \/ Requests(asked, "none") /\ Returns("image")

ConfirmsFallback ==
    /\ step = "confirmFallback"
    /\ \/ ShowsCompleted(asked.kind) /\ ReadSucceeds /\ Returns("done")
       \/ ~ShowsCompleted(asked.kind) /\ TimesOut /\ Returns(IF open THEN "rejected" ELSE "wait")
       \/ ReadFails /\ Returns("image")

ActionSteps ==
    \/ FindsAction \/ Assigns \/ WaitsForAssignment \/ CompletesAction
    \/ PatchesCompleted \/ Confirms \/ FallsBack \/ ConfirmsFallback

=============================================================================
