----------------------------- MODULE ChildProcess -----------------------------
(***************************************************************************)
(* The automation processes that a window starts, the thread that reads    *)
(* the output of each, and the queue through which the end of an output    *)
(* reaches the GUI thread.  The processes are external.  The lines of an   *)
(* output are left out: they only delay its end.                           *)
(***************************************************************************)
EXTENDS Naturals, Sequences

CONSTANTS
    Children,   \* handles of processes; one is used again when nothing refers to it
    NoChild     \* self.proc is None

ASSUME ChildrenAssumption == NoChild \notin Children

VARIABLES
    child,    \* what each process does
    reading,  \* the processes whose _reader_loop has not come to the end
    logQ      \* _log_q: the None that each reader posts at the end of an output; whose
              \* it was is not in the queue, and only the bookkeeping of handles asks

childVars == <<child, reading, logQ>>

(* "dying" has been struck by terminate or kill and is about to be gone;   *)
(* "mute" has closed its output but is not gone yet; "ended" and "crashed" *)
(* are gone, with exit code 0 or another one.                              *)
AliveStates == {"running", "dying", "mute"}
GoneStates  == {"ended", "crashed"}
ChildStates == {"free"} \cup AliveStates \cup GoneStates

Alive(c)      == c # NoChild /\ child[c] \in AliveStates
AliveChildren == {c \in Children : child[c] \in AliveStates}

ChildTypeOK ==
    /\ child \in [Children -> ChildStates]
    /\ reading \subseteq Children
    /\ logQ \in Seq(Children)

ChildInit ==
    /\ child = [c \in Children |-> "free"]
    /\ reading = {}
    /\ logQ = <<>>

--------------------------------------------------------------------------------
\* The reader of c has ended and the queue holds nothing of c.
Forgotten(c) == c \notin reading /\ \A i \in 1 .. Len(logQ) : logQ[i] # c

Gone(c, how) == child' = [child EXCEPT ![c] = IF Forgotten(c) THEN "free" ELSE how]

\* The process ends by itself, or because it has been struck.
Ends(c) ==
    /\ \/ child[c] \in {"running", "mute"} /\ \E how \in GoneStates : Gone(c, how)
       \/ child[c] = "dying" /\ Gone(c, "crashed")
    /\ UNCHANGED <<reading, logQ>>

\* Its output is closed, and yet the process is there for longer than the reader waits.
Lingers(c) ==
    /\ child[c] \in {"running", "dying"}
    /\ child' = [child EXCEPT ![c] = "mute"]
    /\ UNCHANGED <<reading, logQ>>

ReadsEndOnTime(c) ==
    /\ c \in reading
    /\ child[c] \in {"mute"} \cup GoneStates
    /\ logQ' = IF child[c] = "mute" THEN logQ ELSE Append(logQ, c)
    /\ reading' = reading \ {c}
    /\ UNCHANGED child

\* _reader_loop comes to the end of the output.
ReadsEnd(c) ==
    /\ c \in reading
    /\ child[c] \in {"mute"} \cup GoneStates
    /\ logQ' = Append(logQ, c)
    /\ reading' = reading \ {c}
    /\ UNCHANGED <<child>>

--------------------------------------------------------------------------------
(* Popen, and the start of the thread that reads the output.               *)
FreeChild == CHOOSE c \in Children : child[c] = "free"

Launches ==
    /\ \E c \in Children : child[c] = "free"
    /\ child' = [child EXCEPT ![FreeChild] = "running"]
    /\ reading' = reading \cup {FreeChild}

\* terminate() or kill(): a process that is there is about to be gone.
Struck(c) == IF child[c] = "running" THEN [child EXCEPT ![c] = "dying"] ELSE child

\* The end of its output has been taken from the queue.
Dropped(c) == IF child[c] \in GoneStates THEN [child EXCEPT ![c] = "free"] ELSE child
================================================================================
