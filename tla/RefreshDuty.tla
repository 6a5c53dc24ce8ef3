------------------------------ MODULE RefreshDuty ------------------------------
(***************************************************************************)
(* What the coordinator owes to each target: its next refresh, at once or  *)
(* after the long wait.  A new configuration makes every refresh due at    *)
(* once, except one that is at work, which is repeated when it ends; the   *)
(* long wait only follows a refresh with the newest configuration.         *)
(***************************************************************************)
CONSTANT Keys

VARIABLES
    closed,   \* the coordinator is closed
    wanted,   \* the targets of the newest configuration
    stale,    \* those not refreshed with it, or begun to be, yet
    duty      \* "atWork"; "soon" or "later", when the next refresh is due; or "none"

vars == <<closed, wanted, stale, duty>>

Init ==
    /\ closed = FALSE
    /\ wanted = {}
    /\ stale = {}
    /\ duty = [k \in Keys |-> "none"]

\* What is owed for the keys of T, and for no others, once T is what is wanted.
Owed(T) ==
    [k \in Keys |-> IF duty[k] = "atWork" THEN "atWork" ELSE IF k \in T THEN "soon" ELSE "none"]

Configures(T) ==
    /\ ~ closed
    /\ wanted' = T /\ stale' = Keys /\ duty' = Owed(T)
    /\ UNCHANGED closed

Closes ==
    /\ ~ closed /\ closed' = TRUE
    /\ wanted' = {} /\ stale' = Keys /\ duty' = Owed({})

Begins(k) ==
    /\ duty[k] \in {"soon", "later"}
    /\ duty' = [duty EXCEPT ![k] = "atWork"]
    /\ stale' = stale \ {k}
    /\ UNCHANGED <<closed, wanted>>

Ends(k) ==
    /\ duty[k] = "atWork"
    /\ duty' = [duty EXCEPT ![k] = IF k \notin wanted THEN "none"
                                   ELSE IF k \in stale THEN "soon" ELSE "later"]
    /\ UNCHANGED <<closed, wanted, stale>>

Next ==
    \/ \E T \in SUBSET Keys : Configures(T)
    \/ Closes
    \/ \E k \in Keys : Begins(k) \/ Ends(k)

Spec == Init /\ [][Next]_vars
================================================================================
