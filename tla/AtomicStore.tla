------------------------------ MODULE AtomicStore ------------------------------
(***************************************************************************)
(* What the stored files promise to those who change them: each change is  *)
(* applied at once, to what the file holds at that moment.  Only a lenient *)
(* file that could not be read is begun anew.                              *)
(***************************************************************************)

CONSTANTS
    Threads,   \* those who change the file
    Keys,      \* its entries
    Values,    \* what an entry may be
    Absent     \* the entry is not there

VARIABLES
    kind,     \* "lenient" or "strict"
    store,    \* what the file holds
    edit,     \* the entries that each thread has asked to set and has not set yet
    unread    \* the threads that have failed to read the file since they asked

storeVars == <<kind, store, edit, unread>>

Contents  == [Keys -> Values]
Edits     == UNION {[K -> Values] : K \in SUBSET Keys}
NoEdit    == [k \in {} |-> Absent]
Empty     == [k \in Keys |-> Absent]

Applied(e, s) == [k \in Keys |-> IF k \in DOMAIN e THEN e[k] ELSE s[k]]

Init ==
    /\ kind \in {"lenient", "strict"}
    /\ store \in Contents
    /\ edit = [t \in Threads |-> NoEdit]
    /\ unread = {}

Asks(t) ==
    /\ t \notin unread
    /\ \E e \in Edits : edit' = [edit EXCEPT ![t] = e]
    /\ UNCHANGED <<kind, store, unread>>

Commits(t) ==
    /\ t \notin unread
    /\ store' = Applied(edit[t], store)
    /\ edit' = [edit EXCEPT ![t] = NoEdit]
    /\ UNCHANGED <<kind, unread>>

FailsToRead(t) ==
    /\ kind = "lenient"
    /\ unread' = unread \cup {t}
    /\ UNCHANGED <<kind, store, edit>>

BeginsAnew(t) ==
    /\ t \in unread
    /\ store' = Applied(edit[t], Empty)
    /\ edit' = [edit EXCEPT ![t] = NoEdit]
    /\ unread' = unread \ {t}
    /\ UNCHANGED kind

\* The saves of some have failed, or their process is gone.
Drops(T) ==
    /\ edit' = [t \in Threads |-> IF t \in T THEN NoEdit ELSE edit[t]]
    /\ unread' = unread \ T
    /\ UNCHANGED <<kind, store>>

Next ==
    \/ \E t \in Threads : Asks(t) \/ Commits(t) \/ FailsToRead(t) \/ BeginsAnew(t)
    \/ \E T \in SUBSET Threads : Drops(T)

Spec == Init /\ [][Next]_storeVars
================================================================================
