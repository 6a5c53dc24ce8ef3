------------------------------ MODULE FileStorage ------------------------------
(***************************************************************************)
(* One of the stored files, and the threads of several processes that      *)
(* change it: the windows, the refreshes of the recommendations, the       *)
(* automation.  A change is a read, a merge and a write under two locks    *)
(* (file_transaction), and ends with os.replace (atomic_write_text).       *)
(*                                                                         *)
(* The file is "lenient" (preferences, match records, recommendations: a   *)
(* file that cannot be read counts as empty) or "strict" (the champion     *)
(* configuration: the error is reported).  The strict one is changed by    *)
(* settings windows, which go on showing what they showed before.          *)
(***************************************************************************)
EXTENDS Naturals

CONSTANTS
    Threads, Keys, Values, Absent,   \* as in AtomicStore
    Processes,
    Home,       \* the process of each thread
    Windows,    \* the threads that are settings windows
    Readers,    \* those who only read the file, without a lock
    Kinds,      \* the kinds of file that the behaviours are about
    Nobody,     \* a lock that is not held
    MaxFaults,  \* bound on the crashes and file errors of one behaviour
    MaxEdits    \* bound on what the users of the settings windows do in one behaviour

ASSUME ValuesAssumption == Absent \in Values
ASSUME HomeAssumption == Home \in [Threads -> Processes]
ASSUME NobodyAssumption == Nobody \notin Threads
ASSUME WindowsAssumption == Windows \subseteq Threads
ASSUME KindsAssumption == Kinds \subseteq {"lenient", "strict"}
ASSUME BoundsAssumption == MaxFaults \in Nat /\ MaxEdits \in Nat

VARIABLES
    kind,       \* the kind of the file
    store,      \* its content
    edit,       \* what each save under way is to change: self.data against _original_data;
                \* nothing once it has failed or is done
    unread,     \* the threads whose read failed and counted as an empty file
    pc,         \* where each thread is
    rlock,      \* _WRITE_LOCK of each process
    sidecar,    \* the lock on the .lock file
    payload,    \* what each thread has merged and is about to write, Empty without a save
    temps,      \* the number of temporary files on the disk
    left,       \* history: how many of them a process that was ended, or a removal that
                \* failed, has left there
    opened,     \* the readers that have the file open
    faults      \* crashes and file errors so far

lockVars  == <<rlock, sidecar>>
fileVars  == <<store, opened>>
tempVars  == <<temps, left>>

VARIABLES
    shown,      \* the fields of each settings window
    base,       \* its ChampionConfig._original_data
    touched,    \* history: the entries that the user of a window has set in it since it was
                \* loaded or saved
    edits       \* edits so far

formVars == <<shown, base, touched, edits>>
vars == <<kind, edit, unread, pc, payload, tempVars, faults, lockVars, fileVars, formVars>>

Promise == INSTANCE AtomicStore

Critical == {"read", "write", "replace", "clean", "release"}
Writing  == {"replace", "clean"}
HasTemp  == \E t \in Threads : pc[t] \in Writing
Points   == {"idle", "lock", "sidecar", "down"} \cup Critical

TypeOK ==
    /\ kind \in Kinds
    /\ store \in Promise!Contents
    /\ edit \in [Threads -> Promise!Edits]
    /\ unread \subseteq Threads
    /\ pc \in [Threads -> Points]
    /\ rlock \in [Processes -> Threads \cup {Nobody}]
    /\ sidecar \in Threads \cup {Nobody}
    /\ payload \in [Threads -> Promise!Contents]
    /\ temps \in Nat /\ left \in Nat
    /\ opened \subseteq Readers
    /\ faults \in 0 .. MaxFaults
    /\ shown \in [Windows -> Promise!Contents]
    /\ base \in [Windows -> Promise!Contents]
    /\ touched \in [Windows -> SUBSET Keys]
    /\ edits \in 0 .. MaxEdits

Init ==
    /\ kind \in Kinds
    /\ store = Promise!Empty
    /\ edit = [t \in Threads |-> Promise!NoEdit]
    /\ unread = {}
    /\ pc = [t \in Threads |-> "idle"]
    /\ rlock = [p \in Processes |-> Nobody]
    /\ sidecar = Nobody
    /\ payload = [t \in Threads |-> Promise!Empty]
    /\ temps = 0 /\ left = 0
    /\ opened = {}
    /\ faults = 0
    /\ shown = [w \in Windows |-> Promise!Empty]
    /\ base = [w \in Windows |-> Promise!Empty]
    /\ touched = [w \in Windows |-> {}]
    /\ edits = 0

Fault == faults < MaxFaults /\ faults' = faults + 1

Goes(t, from, to) == pc[t] = from /\ pc' = [pc EXCEPT ![t] = to]

--------------------------------------------------------------------------------
(* What is to be saved.                                                    *)

\* save_recommendation_cache, append_match_duration and the preferences set one entry.
AsksForEntry(t) ==
    /\ kind = "lenient"
    /\ \E k \in Keys, v \in Values \ {Absent} :
          edit' = [edit EXCEPT ![t] = [x \in {k} |-> v]]
    /\ UNCHANGED formVars

\* Every entry of the form that differs from what the window has read or saved last.
Differences(form, original) ==
    [k \in {x \in Keys : form[x] # original[x]} |-> form[k]]

\* The user of a settings window changes a field of it.
ChangesField(t) ==
    /\ kind = "strict" /\ t \in Windows
    /\ edits < MaxEdits /\ edits' = edits + 1
    /\ \E k \in Keys, v \in Values :
          /\ v # shown[t][k]
          /\ shown' = [shown EXCEPT ![t] = [shown[t] EXCEPT ![k] = v]]
          /\ touched' = [touched EXCEPT ![t] = @ \cup {k}]
    /\ UNCHANGED base

\* The autosave some time after it: _apply_save collects all fields of the window.
AsksForForm(t) ==
    /\ ChangesField(t)
    /\ edit' = [edit EXCEPT ![t] = Differences(shown'[t], base[t])]

\* Another change comes before the autosave, or it is put off for a field that is not
\* valid; the next one collects this change as well.
PutsOff(t) ==
    /\ Goes(t, "idle", "idle")
    /\ ChangesField(t)
    /\ UNCHANGED <<kind, edit, unread, payload, tempVars, faults, lockVars, fileVars>>

Asks(t) ==
    /\ Goes(t, "idle", "lock")
    /\ AsksForEntry(t) \/ AsksForForm(t)
    /\ UNCHANGED <<kind, unread, payload, tempVars, faults, lockVars, fileVars>>

\* The window reads the file: _reload, or a new one after a crash.
Loads(t) ==
    /\ kind = "strict" /\ t \in Windows
    /\ Goes(t, "idle", "idle") \/ Goes(t, "down", "idle")
    /\ shown' = [shown EXCEPT ![t] = store]
    /\ base' = [base EXCEPT ![t] = store]
    /\ touched' = [touched EXCEPT ![t] = {}]
    /\ UNCHANGED <<kind, edits, edit, unread, payload, tempVars, faults, lockVars, fileVars>>

Restarts(t) ==
    /\ kind = "lenient"
    /\ Goes(t, "down", "idle")
    /\ UNCHANGED <<kind, edit, unread, payload, tempVars, faults, lockVars, fileVars, formVars>>

--------------------------------------------------------------------------------
(* file_transaction: the lock of the process, then that of the file, which *)
(* msvcrt gives up after some attempts.                                    *)

TakesThreadLock(t) ==
    /\ Goes(t, "lock", "sidecar")
    /\ rlock[Home[t]] = Nobody
    /\ rlock' = [rlock EXCEPT ![Home[t]] = t]
    /\ UNCHANGED <<kind, edit, unread, payload, tempVars, faults, sidecar, fileVars, formVars>>

TakesNoSidecar(t) ==
    /\ Goes(t, "sidecar", "read")
    /\ sidecar' = t
    /\ UNCHANGED <<kind, edit, unread, payload, tempVars, faults, rlock, fileVars, formVars>>

TakesSidecar(t) ==
    /\ Goes(t, "sidecar", "read")
    /\ sidecar = Nobody
    /\ sidecar' = t
    /\ UNCHANGED <<kind, edit, unread, payload, tempVars, faults, rlock, fileVars, formVars>>

GivesUp(t) ==
    /\ Goes(t, "sidecar", "idle")
    /\ sidecar # Nobody
    /\ rlock' = [rlock EXCEPT ![Home[t]] = Nobody]
    /\ edit' = [edit EXCEPT ![t] = Promise!NoEdit]
    /\ UNCHANGED <<kind, unread, payload, tempVars, faults, sidecar, fileVars, formVars>>

ReleasesSidecar(t) ==
    /\ Goes(t, "release", "idle")
    /\ sidecar' = Nobody
    /\ UNCHANGED <<kind, edit, unread, payload, tempVars, faults, rlock, fileVars, formVars>>

\* The transaction ends, with or without an exception.
Releases(t) ==
    /\ Goes(t, "release", "idle")
    /\ sidecar' = Nobody
    /\ rlock' = [rlock EXCEPT ![Home[t]] = Nobody]
    /\ UNCHANGED <<kind, edit, unread, payload, tempVars, faults, fileVars, formVars>>

--------------------------------------------------------------------------------
(* Inside of it: read, merge, write.                                       *)

\* _merge_changed_data, or the entry put in its place.
NotMerged(t, current) == edit[t]

Merged(t, current) == Promise!Applied(edit[t], current)

\* What a save was about is done, or has failed.
Discards(t) ==
    /\ edit' = [edit EXCEPT ![t] = Promise!NoEdit]
    /\ unread' = unread \ {t}
    /\ payload' = [payload EXCEPT ![t] = Promise!Empty]

Reads(t) ==
    /\ Goes(t, "read", "write")
    /\ payload' = [payload EXCEPT ![t] = Merged(t, store)]
    /\ UNCHANGED <<kind, edit, unread, tempVars, faults, lockVars, fileVars, formVars>>

\* OSError, or content that is not what it should be.
CannotRead(t) ==
    /\ Fault
    /\ \/ /\ kind = "lenient"
          /\ Goes(t, "read", "write")
          /\ payload' = [payload EXCEPT ![t] = Merged(t, Promise!Empty)]
          /\ unread' = unread \cup {t}
          /\ UNCHANGED edit
       \/ /\ kind = "strict"
          /\ Goes(t, "read", "release")
          /\ Discards(t)
    /\ UNCHANGED <<kind, tempVars, lockVars, fileVars, formVars>>

\* mkstemp, whose names are always new, and the text is written and synchronized.
Writes(t) ==
    /\ Goes(t, "write", "replace")
    /\ temps' = temps + 1
    /\ UNCHANGED <<kind, edit, unread, payload, left, faults, lockVars, fileVars, formVars>>

CannotWriteOrClean(t) ==
    /\ Fault
    /\ Goes(t, "write", "release")
    /\ temps' \in {temps, temps + 1}
    /\ Discards(t)
    /\ UNCHANGED <<kind, left, lockVars, fileVars, formVars>>

\* There is no temporary file when it cannot be made; there is one when it cannot be written.
CannotWrite(t) ==
    /\ Fault
    /\ \/ Goes(t, "write", "release") /\ UNCHANGED temps
       \/ Goes(t, "write", "clean") /\ temps' = temps + 1
    /\ Discards(t)
    /\ UNCHANGED <<kind, left, lockVars, fileVars, formVars>>

\* os.replace, which leaves nothing to remove.  The configuration remembers what it has saved.
Replaces(t) ==
    /\ Goes(t, "replace", "release")
    /\ opened = {}
    /\ store' = payload[t]
    /\ temps' = temps - 1
    /\ Discards(t)
    /\ base' = [w \in Windows |-> IF w = t THEN payload[t] ELSE base[w]]
    /\ touched' = [w \in Windows |-> IF w = t THEN {} ELSE touched[w]]
    /\ UNCHANGED <<kind, left, faults, opened, lockVars, shown, edits>>

\* Windows does not replace a file that somebody has open.
CannotReplace(t) ==
    /\ Goes(t, "replace", "clean")
    /\ opened # {}
    /\ Discards(t)
    /\ UNCHANGED <<kind, tempVars, faults, lockVars, fileVars, formVars>>

\* The finally of atomic_write_text.
Cleans(t) ==
    /\ Goes(t, "clean", "release")
    /\ temps' = temps - 1
    /\ UNCHANGED <<kind, edit, unread, payload, left, faults, lockVars, fileVars, formVars>>

CannotClean(t) ==
    /\ Goes(t, "clean", "release") /\ Fault
    /\ left' = left + 1
    /\ UNCHANGED <<kind, edit, unread, payload, temps, lockVars, fileVars, formVars>>

--------------------------------------------------------------------------------
Opens(r) ==
    /\ r \notin opened
    /\ opened' = opened \cup {r}
    /\ UNCHANGED <<kind, store, edit, unread, pc, payload, tempVars, faults, lockVars, formVars>>

Shuts(r) ==
    /\ r \in opened
    /\ opened' = opened \ {r}
    /\ UNCHANGED <<kind, store, edit, unread, pc, payload, tempVars, faults, lockVars, formVars>>

\* A process is ended: the system releases its locks, and its temporary file stays.
Of(p) == {t \in Threads : Home[t] = p}

Crashes(p) ==
    /\ Fault
    /\ pc' = [t \in Threads |-> IF t \in Of(p) THEN "down" ELSE pc[t]]
    /\ edit' = [t \in Threads |-> IF t \in Of(p) THEN Promise!NoEdit ELSE edit[t]]
    /\ unread' = unread \ Of(p)
    /\ payload' = [t \in Threads |-> IF t \in Of(p) THEN Promise!Empty ELSE payload[t]]
    /\ rlock' = [rlock EXCEPT ![p] = Nobody]
    /\ sidecar' = IF sidecar \in Of(p) THEN Nobody ELSE sidecar
    /\ left' = left + (IF \E t \in Of(p) : pc[t] \in Writing THEN 1 ELSE 0)
    /\ UNCHANGED <<kind, temps, fileVars, formVars>>

Locking(t) == TakesThreadLock(t) \/ TakesSidecar(t) \/ GivesUp(t) \/ Releases(t)
Saving(t)  ==
    \/ Reads(t) \/ CannotRead(t)
    \/ Writes(t) \/ CannotWrite(t)
    \/ Replaces(t) \/ CannotReplace(t)
    \/ Cleans(t) \/ CannotClean(t)

Next ==
    \/ \E t \in Threads :
          \/ Asks(t) \/ PutsOff(t) \/ Loads(t) \/ Restarts(t)
          \/ Locking(t) \/ Saving(t)
    \/ \E r \in Readers : Opens(r) \/ Shuts(r)
    \/ \E p \in Processes : Crashes(p)

Spec == Init /\ [][Next]_vars

(* Threads run, and an attempt at the lock of the file ends after some     *)
(* time; a lock that is free again and again is had at last.               *)
Fairness ==
    \A t \in Threads :
        /\ SF_vars(TakesThreadLock(t))
        /\ WF_vars(TakesSidecar(t) \/ GivesUp(t))
        /\ WF_vars(Saving(t))
        /\ WF_vars(Releases(t))

FairSpec == Spec /\ Fairness

--------------------------------------------------------------------------------
(* Properties.                                                             *)

\* Every change of the file is one whole edit of one thread, applied to what the file
\* holds at that moment, so that no save undoes another one; and only a lenient file is
\* ever begun anew.  (file_transaction, _read_config_payload)
KeepsPromise == Promise!Spec

\* However saves fail, the only temporary files are that of the save at work, those that
\* processes left when they were ended between mkstemp and os.replace, and those whose
\* removal failed: a write or a replacement that fails takes its file along.
\* (the finally of atomic_write_text)
NoLitter == temps <= left + (IF HasTemp THEN 1 ELSE 0)

\* A save ends, whatever the others do.  (file_transaction)
SavesEnd == \A t \in Threads : (pc[t] # "idle") ~> (pc[t] \in {"idle", "down"})

\* A save of a settings window changes the entries that its user has changed, and leaves
\* those that somebody else has.  (champion_config.py, _merge_changed_data)
SavesOwnEditsOnly ==
    [][\A w \in Windows : Replaces(w) =>
          \A k \in Keys : store'[k] # store[k] => k \in touched[w]]_vars
================================================================================
