--------------------------- MODULE FileStorage_proofs ---------------------------
(***************************************************************************)
(* For any threads, processes, entries and values, and any number of       *)
(* crashes and file errors: the stored file keeps its promise, no lock is  *)
(* left behind, and a settings window saves what its fields say.           *)
(*                                                                         *)
(* The argument: whoever is between the locks of file_transaction holds    *)
(* the lock of the file, so there is one of them; what it has merged is    *)
(* therefore still the merge of its edit with what the file holds when     *)
(* os.replace puts it there.  And there is one temporary file at most that *)
(* is at work: its own.                                                    *)
(***************************************************************************)
EXTENDS FileStorage, TLAPS

USE ValuesAssumption, HomeAssumption, NobodyAssumption, WindowsAssumption,
    KindsAssumption, BoundsAssumption

\* Whoever reads, merges and writes holds the lock of the file.
HoldsSidecar == \A t \in Threads : pc[t] \in Critical => sidecar = t

\* What is about to be written is the edit, applied to what the file holds now.
Readable(t) == IF t \in unread THEN Promise!Empty ELSE store
IsCurrent ==
    \A t \in Threads : pc[t] \in {"write", "replace"}
        => payload[t] = Promise!Applied(edit[t], Readable(t))

\* Only a lenient file is begun anew, and only inside of a transaction.
UnreadInside ==
    \A t \in unread :
        kind = "lenient" /\ pc[t] \in {"write", "replace"}

\* The temporary files are that of the one who writes, and what has been left there.
TempInv == temps = left + (IF HasTemp THEN 1 ELSE 0)

IInv == TypeOK /\ HoldsSidecar /\ IsCurrent /\ UnreadInside /\ TempInv

--------------------------------------------------------------------------------
(* The operators on contents and edits.                                    *)

\* An edit applied to contents gives contents.
LEMMA AppliedIsContents ==
    ASSUME NEW e \in Promise!Edits, NEW s \in Promise!Contents
    PROVE  Promise!Applied(e, s) \in Promise!Contents
<1>1. PICK K \in SUBSET Keys : e \in [K -> Values]
    BY DEF Promise!Edits
<1> QED
    BY <1>1 DEF Promise!Applied, Promise!Contents

LEMMA EmptyIsContents == Promise!Empty \in Promise!Contents
BY DEF Promise!Empty, Promise!Contents

LEMMA NoEditIsEdit == Promise!NoEdit \in Promise!Edits
<1>1. Promise!NoEdit \in [{} -> Values]
    BY DEF Promise!NoEdit
<1>2. {} \in SUBSET Keys
    OBVIOUS
<1> QED
    BY <1>1, <1>2 DEF Promise!Edits

\* One entry is an edit.
LEMMA EntryIsEdit ==
    ASSUME NEW k \in Keys, NEW v \in Values
    PROVE  [x \in {k} |-> v] \in Promise!Edits
<1>1. [x \in {k} |-> v] \in [{k} -> Values]
    OBVIOUS
<1>2. {k} \in SUBSET Keys
    OBVIOUS
<1> QED
    BY <1>1, <1>2 DEF Promise!Edits

\* The differences of two contents are an edit.
LEMMA DifferencesAreEdit ==
    ASSUME NEW form \in Promise!Contents, NEW original
    PROVE  Differences(form, original) \in Promise!Edits
<1> DEFINE K == {x \in Keys : form[x] # original[x]}
<1>1. Differences(form, original) \in [K -> Values]
    BY DEF Differences, Promise!Contents
<1>2. K \in SUBSET Keys
    OBVIOUS
<1> QED
    BY <1>1, <1>2 DEF Promise!Edits

--------------------------------------------------------------------------------
(* Types.                                                                  *)

LEMMA InitHasTypes == Init => TypeOK
<1> SUFFICES ASSUME Init PROVE TypeOK
    OBVIOUS
<1> USE EmptyIsContents, NoEditIsEdit
<1>1. /\ kind \in Kinds /\ store \in Promise!Contents
      /\ edit \in [Threads -> Promise!Edits] /\ payload \in [Threads -> Promise!Contents]
    BY DEF Init
<1>2. /\ pc \in [Threads -> Points] /\ rlock \in [Processes -> Threads \cup {Nobody}]
      /\ sidecar \in Threads \cup {Nobody}
    BY DEF Init, Points
<1>3. /\ shown \in [Windows -> Promise!Contents] /\ base \in [Windows -> Promise!Contents]
      /\ touched \in [Windows -> SUBSET Keys]
    BY DEF Init
<1> QED
    BY <1>1, <1>2, <1>3 DEF Init, TypeOK

LEMMA AskHasTypes ==
    ASSUME TypeOK, NEW t \in Threads, Asks(t) \/ PutsOff(t)
    PROVE  TypeOK'
<1>1. pc' \in [Threads -> Points]
    BY DEF TypeOK, Asks, PutsOff, Goes, Points
<1>2. CASE Asks(t) /\ AsksForEntry(t)
  <2>1. edit' \in [Threads -> Promise!Edits]
    <3>1. PICK k \in Keys, v \in Values : edit' = [edit EXCEPT ![t] = [x \in {k} |-> v]]
        BY <1>2 DEF AsksForEntry
    <3> QED
        BY <3>1, EntryIsEdit DEF TypeOK
  <2> QED
      BY <1>1, <1>2, <2>1 DEF TypeOK, Asks, AsksForEntry, formVars, tempVars, lockVars, fileVars
<1>3. ASSUME ChangesField(t)
      PROVE  /\ t \in Windows
             /\ shown' \in [Windows -> Promise!Contents]
             /\ touched' \in [Windows -> SUBSET Keys]
             /\ base' \in [Windows -> Promise!Contents]
             /\ edits' \in 0 .. MaxEdits
  <2>1. t \in Windows /\ edits' \in 0 .. MaxEdits /\ base' \in [Windows -> Promise!Contents]
      BY <1>3 DEF ChangesField, TypeOK
  <2>2. PICK k \in Keys, v \in Values :
          /\ shown' = [shown EXCEPT ![t] = [shown[t] EXCEPT ![k] = v]]
          /\ touched' = [touched EXCEPT ![t] = @ \cup {k}]
      BY <1>3 DEF ChangesField
  <2>3. [shown[t] EXCEPT ![k] = v] \in Promise!Contents
      BY <2>1 DEF TypeOK, Promise!Contents
  <2> QED
      BY <2>1, <2>2, <2>3 DEF TypeOK
<1>4. CASE Asks(t) /\ AsksForForm(t)
  <2>1. ChangesField(t) /\ edit' = [edit EXCEPT ![t] = Differences(shown'[t], base[t])]
      BY <1>4 DEF AsksForForm
  <2>2. edit' \in [Threads -> Promise!Edits]
      BY <2>1, <1>3, DifferencesAreEdit DEF TypeOK
  <2> QED
      BY <1>1, <1>3, <1>4, <2>1, <2>2 DEF TypeOK, Asks, tempVars, lockVars, fileVars
<1>5. CASE PutsOff(t)
    BY <1>1, <1>3, <1>5 DEF PutsOff, TypeOK, tempVars, lockVars, fileVars
<1> QED
    BY <1>2, <1>4, <1>5 DEF Asks

LEMMA LoadHasTypes ==
    ASSUME TypeOK, NEW t \in Threads, Loads(t) \/ Restarts(t)
    PROVE  TypeOK'
<1>1. pc' \in [Threads -> Points]
    BY DEF TypeOK, Loads, Restarts, Goes, Points
<1> QED
    BY <1>1 DEF TypeOK, Loads, Restarts, tempVars, lockVars, fileVars, formVars

LEMMA LockHasTypes ==
    ASSUME TypeOK, NEW t \in Threads, Locking(t)
    PROVE  TypeOK'
<1> USE EmptyIsContents, NoEditIsEdit
<1>1. pc' \in [Threads -> Points]
    BY DEF TypeOK, Locking, TakesThreadLock, TakesSidecar, GivesUp, Releases, Goes, Points,
           Critical
<1>2. Home[t] \in Processes
    OBVIOUS
<1>3. CASE TakesThreadLock(t) \/ TakesSidecar(t)
    BY <1>1, <1>2, <1>3
       DEF TypeOK, TakesThreadLock, TakesSidecar, tempVars, fileVars, formVars
<1>4. CASE GivesUp(t) \/ Releases(t)
    BY <1>1, <1>2, <1>4 DEF TypeOK, GivesUp, Releases, tempVars, fileVars, formVars
<1> QED
    BY <1>3, <1>4 DEF Locking

LEMMA SaveHasTypes ==
    ASSUME TypeOK, NEW t \in Threads, Saving(t), temps' \in Nat
    PROVE  TypeOK'
<1> USE EmptyIsContents, NoEditIsEdit, AppliedIsContents
<1>1. pc' \in [Threads -> Points]
    BY DEF TypeOK, Saving, Reads, CannotRead, Writes, CannotWrite, Replaces,
           CannotReplace, Cleans, CannotClean, Goes, Points, Critical
<1>2. CASE Reads(t)
  <2>1. Merged(t, store) \in Promise!Contents
      BY DEF Merged, TypeOK
  <2> QED
      BY <1>1, <1>2, <2>1 DEF TypeOK, Reads, tempVars, lockVars, fileVars, formVars
<1>3. CASE CannotRead(t)
  <2>1. Merged(t, Promise!Empty) \in Promise!Contents
      BY DEF Merged, TypeOK
  <2>2. /\ payload' \in [Threads -> Promise!Contents] /\ unread' \subseteq Threads
        /\ edit' \in [Threads -> Promise!Edits]
      BY <1>3, <2>1 DEF TypeOK, CannotRead, Discards
  <2> QED
      BY <1>1, <1>3, <2>2 DEF TypeOK, CannotRead, Fault, tempVars, lockVars, fileVars, formVars
<1>4. CASE \/ Writes(t) \/ CannotWrite(t) \/ CannotReplace(t)
           \/ Cleans(t) \/ CannotClean(t)
    BY <1>1, <1>4 DEF TypeOK, Writes, CannotWrite, CannotReplace, Cleans, CannotClean,
                      Discards, Fault, tempVars, lockVars, fileVars, formVars
<1>5. CASE Replaces(t)
  <2>1. /\ base' \in [Windows -> Promise!Contents] /\ touched' \in [Windows -> SUBSET Keys]
        /\ store' \in Promise!Contents /\ edit' \in [Threads -> Promise!Edits]
        /\ payload' \in [Threads -> Promise!Contents] /\ unread' \subseteq Threads
      BY <1>5 DEF TypeOK, Replaces, Discards
  <2> QED
      BY <1>1, <1>5, <2>1 DEF TypeOK, Replaces, lockVars
<1> QED
    BY <1>2, <1>3, <1>4, <1>5 DEF Saving

LEMMA WorldHasTypes ==
    ASSUME TypeOK,
           \/ \E r \in Readers : Opens(r) \/ Shuts(r)
           \/ \E p \in Processes : Crashes(p)
    PROVE  TypeOK'
<1>1. CASE \E r \in Readers : Opens(r) \/ Shuts(r)
    BY <1>1 DEF TypeOK, Opens, Shuts, tempVars, lockVars, formVars
<1>2. ASSUME NEW p \in Processes, Crashes(p)
      PROVE  TypeOK'
  <2>1. /\ edit' \in [Threads -> Promise!Edits] /\ payload' \in [Threads -> Promise!Contents]
        /\ pc' \in [Threads -> Points]
      BY <1>2, EmptyIsContents, NoEditIsEdit DEF TypeOK, Crashes, Points
  <2>2. /\ sidecar' \in Threads \cup {Nobody} /\ unread' \subseteq Threads
        /\ temps' \in Nat /\ left' \in Nat /\ rlock' \in [Processes -> Threads \cup {Nobody}]
        /\ faults' \in 0 .. MaxFaults
      BY <1>2 DEF TypeOK, Crashes, Fault
  <2> QED
      BY <1>2, <2>1, <2>2 DEF TypeOK, Crashes, fileVars, formVars
<1> QED
    BY <1>1, <1>2

LEMMA NextHasTypes == TypeOK /\ temps' \in Nat /\ [Next]_vars => TypeOK'
<1>1. CASE UNCHANGED vars
    BY <1>1 DEF TypeOK, vars, tempVars, lockVars, fileVars, formVars
<1> QED
    BY <1>1, AskHasTypes, LoadHasTypes, LockHasTypes, SaveHasTypes, WorldHasTypes DEF Next

--------------------------------------------------------------------------------
(* The inductive invariant.                                                *)

LEMMA InitHasIInv == Init => IInv
<1> SUFFICES ASSUME Init PROVE IInv
    OBVIOUS
<1>1. HoldsSidecar /\ IsCurrent /\ UnreadInside
    BY DEF Init, HoldsSidecar, IsCurrent, UnreadInside, Critical
<1>2. ~HasTemp
    BY DEF Init, HasTemp, Writing
<1>3. TempInv
    BY <1>2 DEF Init, TempInv
<1> QED
    BY <1>1, <1>3, InitHasTypes DEF IInv

\* A step of a thread that neither makes nor removes a temporary file.
LEMMA TempsGoOn ==
    ASSUME IInv, NEW t \in Threads, pc' = [pc EXCEPT ![t] = pc'[t]],
           pc[t] \in Writing <=> pc'[t] \in Writing, UNCHANGED tempVars
    PROVE  temps' \in Nat /\ TempInv'
<1>1. HasTemp' <=> HasTemp
    BY DEF IInv, TypeOK, HasTemp
<1> QED
    BY <1>1 DEF IInv, TypeOK, TempInv, tempVars

\* Whoever has the lock of the file has the only temporary file at work.
LEMMA OneTemp ==
    ASSUME IInv, NEW t \in Threads, pc[t] \in Critical
    PROVE  \A u \in Threads \ {t} : pc[u] \notin Writing
BY DEF IInv, HoldsSidecar, Critical, Writing

LEMMA SavingKeepsTemps ==
    ASSUME IInv, NEW t \in Threads, Saving(t)
    PROVE  temps' \in Nat /\ TempInv'
<1>1. CASE \/ Reads(t) \/ CannotRead(t) \/ CannotReplace(t)
           \/ CannotWrite(t) /\ Goes(t, "write", "release") /\ UNCHANGED temps
  <2>1. UNCHANGED tempVars
      BY <1>1 DEF Reads, CannotRead, CannotWrite, CannotReplace, tempVars
  <2>2. /\ pc' = [pc EXCEPT ![t] = pc'[t]]
        /\ pc[t] \in Writing <=> pc'[t] \in Writing
      BY <1>1 DEF IInv, TypeOK, Reads, CannotRead, CannotReplace, Goes, Writing
  <2> QED
      BY <2>1, <2>2, TempsGoOn
<1>2. CASE \/ Writes(t)
           \/ CannotWrite(t) /\ Goes(t, "write", "clean") /\ temps' = temps + 1
  <2>1. pc[t] \in Critical /\ pc[t] \notin Writing /\ pc'[t] \in Writing
      BY <1>2 DEF IInv, TypeOK, Writes, Goes, Critical, Writing
  <2>2. ~HasTemp /\ HasTemp'
      BY <2>1, OneTemp DEF HasTemp
  <2> QED
      BY <1>2, <2>2 DEF IInv, TypeOK, TempInv, Writes, CannotWrite
<1>3. CASE Replaces(t) \/ Cleans(t) \/ CannotClean(t)
  <2>1. /\ pc[t] \in Critical /\ pc[t] \in Writing
        /\ pc' = [pc EXCEPT ![t] = "release"]
      BY <1>3 DEF Replaces, Cleans, CannotClean, Goes, Critical, Writing
  <2>2. \A u \in Threads : pc'[u] \notin Writing
      BY <2>1, OneTemp DEF IInv, TypeOK, Writing
  <2>3. HasTemp /\ ~HasTemp'
      BY <2>1, <2>2 DEF HasTemp
  <2> QED
      BY <1>3, <2>3 DEF IInv, TypeOK, TempInv, Replaces, Cleans, CannotClean
<1> QED
    BY <1>1, <1>2, <1>3 DEF Saving, CannotWrite

\* A process that is ended while it writes leaves its temporary file.
LEMMA CrashKeepsTemps ==
    ASSUME IInv, NEW p \in Processes, Crashes(p)
    PROVE  temps' \in Nat /\ TempInv'
<1>1. \A u \in Threads : pc'[u] = IF u \in Of(p) THEN "down" ELSE pc[u]
    BY DEF Crashes
<1>2. temps' = temps
      /\ left' = left + (IF \E t \in Of(p) : pc[t] \in Writing THEN 1 ELSE 0)
    BY DEF Crashes
<1>3. CASE \E t \in Of(p) : pc[t] \in Writing
  <2>1. PICK t \in Of(p) : pc[t] \in Writing
      BY <1>3
  <2>2. t \in Threads /\ pc[t] \in Critical
      BY <2>1 DEF Of, Writing, Critical
  <2>3. HasTemp /\ ~HasTemp'
      BY <1>1, <2>1, <2>2, OneTemp DEF HasTemp, Writing
  <2> QED
      BY <1>2, <1>3, <2>3 DEF IInv, TypeOK, TempInv
<1>4. CASE ~ \E t \in Of(p) : pc[t] \in Writing
  <2>1. HasTemp' <=> HasTemp
      BY <1>1, <1>4 DEF HasTemp, Writing
  <2> QED
      BY <1>2, <1>4, <2>1 DEF IInv, TypeOK, TempInv
<1> QED
    BY <1>3, <1>4

\* Whatever happens, the temporary files are accounted for.
LEMMA NextKeepsTemps ==
    ASSUME IInv, [Next]_vars
    PROVE  temps' \in Nat /\ TempInv'
<1>1. CASE UNCHANGED vars \/ \E r \in Readers : Opens(r) \/ Shuts(r)
  <2>1. UNCHANGED <<pc, tempVars>>
      BY <1>1 DEF vars, Opens, Shuts
  <2>2. HasTemp' <=> HasTemp
      BY <2>1 DEF HasTemp
  <2> QED
      BY <2>1, <2>2 DEF IInv, TypeOK, TempInv, tempVars
<1>2. ASSUME NEW t \in Threads,
             \/ Asks(t) \/ PutsOff(t) \/ Loads(t) \/ Restarts(t) \/ Locking(t)
      PROVE  temps' \in Nat /\ TempInv'
  <2>1. UNCHANGED tempVars
      BY <1>2 DEF Asks, PutsOff, Loads, Restarts, Locking, TakesThreadLock, TakesSidecar, GivesUp,
                  Releases
  <2>2. /\ pc' = [pc EXCEPT ![t] = pc'[t]]
        /\ pc[t] \in Writing <=> pc'[t] \in Writing
      BY <1>2 DEF IInv, TypeOK, Asks, PutsOff, Loads, Restarts, Locking, TakesThreadLock,
                  TakesSidecar, GivesUp, Releases, Goes, Writing
  <2> QED
      BY <2>1, <2>2, TempsGoOn
<1> QED
    BY <1>1, <1>2, SavingKeepsTemps, CrashKeepsTemps DEF Next

\* What a thread does outside of the lock leaves those inside alone.
LEMMA OutsideKeepsIInv ==
    ASSUME IInv, TypeOK', TempInv', NEW t \in Threads,
           Asks(t) \/ PutsOff(t) \/ Loads(t) \/ Restarts(t) \/ TakesThreadLock(t) \/ GivesUp(t)
    PROVE  IInv'
<1>1. /\ pc[t] \notin Critical
      /\ pc' = [pc EXCEPT ![t] = pc'[t]] /\ pc'[t] \notin Critical
    BY DEF IInv, TypeOK, Asks, PutsOff, Loads, Restarts, TakesThreadLock, GivesUp, Goes, Critical
<1>2. /\ \A u \in Threads \ {t} : edit'[u] = edit[u]
      /\ UNCHANGED <<kind, store, sidecar, payload, unread>>
    BY DEF IInv, TypeOK, Asks, AsksForEntry, AsksForForm, ChangesField, PutsOff, Loads, Restarts,
           TakesThreadLock, GivesUp, lockVars, fileVars
<1>3. \A u \in Threads : pc'[u] \in Critical => u # t /\ pc'[u] = pc[u]
    BY <1>1 DEF IInv, TypeOK
<1>4. HoldsSidecar'
    BY <1>2, <1>3 DEF IInv, HoldsSidecar
<1>5. IsCurrent'
    BY <1>2, <1>3 DEF IInv, IsCurrent, Readable, Critical
<1>6. \A u \in unread : u \in Threads /\ u # t /\ pc'[u] = pc[u]
    BY <1>1 DEF IInv, TypeOK, UnreadInside, Critical
<1>7. UnreadInside'
    BY <1>2, <1>6 DEF IInv, UnreadInside
<1> QED
    BY <1>4, <1>5, <1>7 DEF IInv

\* Who comes to hold the lock of the file is alone in it.
LEMMA TakingKeepsIInv ==
    ASSUME IInv, TypeOK', TempInv', NEW t \in Threads, TakesSidecar(t)
    PROVE  IInv'
<1>1. /\ pc[t] = "sidecar" /\ pc' = [pc EXCEPT ![t] = "read"]
      /\ sidecar = Nobody /\ sidecar' = t
      /\ UNCHANGED <<kind, store, edit, payload, unread>>
    BY DEF TakesSidecar, Goes, fileVars
<1>2. \A u \in Threads : pc[u] \notin Critical
    BY <1>1 DEF IInv, HoldsSidecar
<1>3. HoldsSidecar' /\ IsCurrent'
    BY <1>1, <1>2 DEF IInv, TypeOK, HoldsSidecar, IsCurrent, Critical
<1>4. UnreadInside'
    BY <1>1, <1>2 DEF IInv, TypeOK, UnreadInside, Critical
<1> QED
    BY <1>3, <1>4 DEF IInv

\* The one inside goes on, or leaves.
LEMMA InsideKeepsIInv ==
    ASSUME IInv, TypeOK', TempInv', NEW t \in Threads, Saving(t) \/ Releases(t)
    PROVE  IInv'
<1>1. /\ pc[t] \in Critical /\ pc' = [pc EXCEPT ![t] = pc'[t]]
      /\ pc'[t] \in {"write", "replace", "clean", "release", "idle"}
    BY DEF IInv, TypeOK, Saving, Reads, CannotRead, Writes, CannotWrite, Replaces,
           CannotReplace, Cleans, CannotClean, Releases, Goes, Critical
<1>2. sidecar = t /\ \A u \in Threads \ {t} : pc[u] \notin Critical
    BY <1>1 DEF IInv, HoldsSidecar
<1>3. \A u \in Threads \ {t} : pc'[u] \notin Critical /\ u \notin unread
    BY <1>1, <1>2 DEF IInv, TypeOK, UnreadInside, Critical
<1>4. HoldsSidecar'
  <2>1. CASE Saving(t)
      BY <1>2, <1>3, <2>1
         DEF HoldsSidecar, Saving, Reads, CannotRead, Writes, CannotWrite, Replaces,
             CannotReplace, Cleans, CannotClean, lockVars
  <2>2. CASE Releases(t)
      BY <1>3, <2>2 DEF IInv, TypeOK, HoldsSidecar, Releases, Goes, Critical
  <2> QED
      BY <2>1, <2>2
<1>5. IsCurrent'
  <2> SUFFICES ASSUME pc'[t] \in {"write", "replace"}
               PROVE  payload'[t] = Promise!Applied(edit[t], Readable(t))'
      BY <1>3 DEF IsCurrent, Critical
  <2>1. CASE Reads(t)
    <3>1. t \notin unread
        BY <2>1 DEF IInv, UnreadInside, Reads, Goes
    <3> QED
        BY <2>1, <3>1
           DEF IInv, TypeOK, Reads, Merged, Readable, fileVars, Promise!Applied
  <2>2. CASE CannotRead(t)
      BY <2>2 DEF IInv, TypeOK, CannotRead, Goes, Merged, Readable, fileVars, Promise!Applied,
                  Promise!Empty
  <2>3. CASE Writes(t)
      BY <2>3 DEF IInv, TypeOK, IsCurrent, Writes, Goes, Readable, fileVars,
                  Promise!Applied, Promise!Empty
  <2>4. CASE \/ CannotWrite(t) \/ Replaces(t) \/ CannotReplace(t)
             \/ Cleans(t) \/ CannotClean(t) \/ Releases(t)
      BY <2>4 DEF IInv, TypeOK, CannotWrite, Replaces, CannotReplace, Cleans, CannotClean, Releases,
                  Goes
  <2> QED
      BY <2>1, <2>2, <2>3, <2>4 DEF Saving
<1>6. UnreadInside'
  <2>1. CASE \/ Reads(t) \/ Writes(t) \/ CannotWrite(t)
             \/ CannotReplace(t) \/ Cleans(t) \/ CannotClean(t)
      BY <1>1, <1>3, <2>1
         DEF IInv, TypeOK, UnreadInside, Reads, Writes, CannotWrite, CannotReplace,
             Cleans, CannotClean, Discards, Goes
  <2>2. CASE CannotRead(t)
      BY <1>1, <1>3, <2>2 DEF IInv, TypeOK, UnreadInside, CannotRead, Discards, Goes
  <2>3. CASE Replaces(t) \/ Releases(t)
      BY <1>1, <1>3, <2>3 DEF IInv, TypeOK, UnreadInside, Replaces, Discards, Releases, Goes
  <2> QED
      BY <2>1, <2>2, <2>3 DEF Saving
<1> QED
    BY <1>4, <1>5, <1>6 DEF IInv

LEMMA WorldKeepsIInv ==
    ASSUME IInv, TypeOK', TempInv',
           \/ \E r \in Readers : Opens(r) \/ Shuts(r)
           \/ \E p \in Processes : Crashes(p)
    PROVE  IInv'
<1>1. CASE \E r \in Readers : Opens(r) \/ Shuts(r)
    BY <1>1 DEF IInv, HoldsSidecar, IsCurrent, Readable, UnreadInside, Opens, Shuts,
                lockVars, Promise!Applied, Promise!Empty
<1>2. ASSUME NEW p \in Processes, Crashes(p)
      PROVE  IInv'
  <2>1. \A t \in Threads : pc'[t] # "down" =>
           /\ t \notin Of(p) /\ pc'[t] = pc[t] /\ edit'[t] = edit[t]
           /\ payload'[t] = payload[t]
           /\ t \in unread' <=> t \in unread
      BY <1>2 DEF Crashes
  <2>2. \A t \in Threads : pc[t] \in Critical /\ t \notin Of(p) => sidecar' = t
      BY <1>2 DEF IInv, HoldsSidecar, Crashes
  <2>3. HoldsSidecar'
      BY <2>1, <2>2 DEF HoldsSidecar, Critical
  <2>4. store' = store /\ kind' = kind
      BY <1>2 DEF Crashes, fileVars
  <2>5. IsCurrent'
      BY <2>1, <2>4 DEF IInv, IsCurrent, Readable, Promise!Applied, Promise!Empty
  <2>6. \A t \in Threads \ Of(p) : pc'[t] = pc[t]
      BY <1>2 DEF Crashes
  <2>7. unread' = unread \ Of(p)
      BY <1>2 DEF Crashes
  <2>8. UnreadInside'
      BY <2>4, <2>6, <2>7 DEF IInv, TypeOK, UnreadInside
  <2> QED
      BY <2>3, <2>5, <2>8 DEF IInv
<1> QED
    BY <1>1, <1>2

LEMMA NextKeepsIInv == IInv /\ [Next]_vars => IInv'
<1> SUFFICES ASSUME IInv, [Next]_vars PROVE IInv'
    OBVIOUS
<1>1. TypeOK' /\ TempInv'
    BY NextHasTypes, NextKeepsTemps DEF IInv
<1>2. CASE UNCHANGED vars
    BY <1>1, <1>2 DEF IInv, HoldsSidecar, IsCurrent, Readable, UnreadInside, vars,
                      lockVars, fileVars, Promise!Applied, Promise!Empty
<1> QED
    BY <1>1, <1>2, OutsideKeepsIInv, TakingKeepsIInv, InsideKeepsIInv, WorldKeepsIInv
       DEF Next, Locking

LEMMA IInvHolds == Spec => []IInv
BY InitHasIInv, NextKeepsIInv, PTL DEF Spec

\* No state of the stored file, its locks or the threads is ever ill-typed, whatever
\* fails.  (file_transaction, atomic_write_text)
THEOREM StorageHasTypes == Spec => []TypeOK
BY IInvHolds, PTL DEF IInv

\* The only temporary files are that of the save at work, those of processes that were ended
\* between mkstemp and os.replace, and those whose removal failed: no save that fails leaves
\* its own behind.  (the finally of atomic_write_text)
THEOREM NothingIsLeft == Spec => []NoLitter
<1>1. IInv => NoLitter
    BY DEF IInv, TypeOK, TempInv, NoLitter
<1> QED
    BY <1>1, IInvHolds, PTL

\* There is never more than one thread, of any process, between the read of a file and
\* the end of its transaction.  (file_transaction)
OneInside == \A t, u \in Threads : pc[t] \in Critical /\ pc[u] \in Critical => t = u

THEOREM OneIsInside == Spec => []OneInside
<1>1. IInv => OneInside
    BY DEF IInv, HoldsSidecar, OneInside
<1> QED
    BY <1>1, IInvHolds, PTL

--------------------------------------------------------------------------------
(* The promise.                                                            *)

LEMMA InitKeepsPromise == Init => Promise!Init
BY EmptyIsContents DEF Init, Promise!Init

LEMMA AskKeepsPromise ==
    ASSUME IInv, TypeOK', NEW t \in Threads, Asks(t)
    PROVE  Promise!Asks(t)
<1>1. t \notin unread
    BY DEF IInv, UnreadInside, Asks, Goes
<1>2. edit'[t] \in Promise!Edits
    BY DEF TypeOK
<1>3. edit' = [edit EXCEPT ![t] = edit'[t]]
    BY DEF IInv, TypeOK, Asks, AsksForEntry, AsksForForm
<1>4. UNCHANGED <<kind, store, unread>>
    BY DEF Asks, fileVars
<1> QED
    BY <1>1, <1>2, <1>3, <1>4 DEF Promise!Asks

\* What is put in place is the edit applied to what the file holds, or to nothing when it
\* could not be read.
LEMMA ReplaceKeepsPromise ==
    ASSUME IInv, NEW t \in Threads, Replaces(t)
    PROVE  Promise!Commits(t) \/ Promise!BeginsAnew(t)
<1>1. store' = Promise!Applied(edit[t], Readable(t))
    BY DEF IInv, IsCurrent, Replaces, Goes
<1>2. /\ edit' = [edit EXCEPT ![t] = Promise!NoEdit] /\ unread' = unread \ {t}
      /\ UNCHANGED kind
    BY DEF Replaces, Discards
<1>3. CASE t \in unread
    BY <1>1, <1>2, <1>3 DEF Readable, Promise!BeginsAnew
<1>4. CASE t \notin unread
    BY <1>1, <1>2, <1>4 DEF Readable, Promise!Commits
<1> QED
    BY <1>3, <1>4

LEMMA DropKeepsPromise ==
    ASSUME IInv, NEW t \in Threads,
           \/ GivesUp(t) \/ CannotWrite(t) \/ CannotReplace(t)
           \/ CannotRead(t) /\ kind = "strict"
    PROVE  Promise!Drops({t})
<1>1. edit' = [u \in Threads |-> IF u \in {t} THEN Promise!NoEdit ELSE edit[u]]
    BY DEF IInv, TypeOK, GivesUp, CannotWrite, CannotReplace, CannotRead, Discards
<1>2. unread' = unread \ {t}
    BY DEF IInv, UnreadInside, GivesUp, CannotWrite, CannotReplace, CannotRead, Discards, Goes
<1>3. UNCHANGED <<kind, store>>
    BY DEF GivesUp, CannotWrite, CannotReplace, CannotRead, fileVars
<1> QED
    BY <1>1, <1>2, <1>3 DEF Promise!Drops

LEMMA CrashKeepsPromise ==
    ASSUME NEW p \in Processes, Crashes(p)
    PROVE  Promise!Drops(Of(p)) /\ Of(p) \in SUBSET Threads
BY DEF Crashes, Of, Promise!Drops, fileVars

LEMMA NextKeepsPromise ==
    ASSUME IInv, TypeOK', [Next]_vars
    PROVE  [Promise!Next]_(Promise!storeVars)
<1>1. ASSUME NEW t \in Threads, Asks(t)
      PROVE  Promise!Next
    BY <1>1, AskKeepsPromise DEF Promise!Next
<1>2. ASSUME NEW t \in Threads, Replaces(t)
      PROVE  Promise!Next
    BY <1>2, ReplaceKeepsPromise DEF Promise!Next
<1>3. ASSUME NEW t \in Threads,
             \/ GivesUp(t) \/ CannotWrite(t) \/ CannotReplace(t)
             \/ CannotRead(t) /\ kind = "strict"
      PROVE  Promise!Next
    BY <1>3, DropKeepsPromise DEF Promise!Next
<1>4. ASSUME NEW p \in Processes, Crashes(p)
      PROVE  Promise!Next
    BY <1>4, CrashKeepsPromise DEF Promise!Next
<1>5. ASSUME NEW t \in Threads, CannotRead(t)
      PROVE  Promise!Next
  <2>1. CASE kind = "lenient"
      BY <1>5, <2>1 DEF CannotRead, Promise!Next, Promise!FailsToRead, fileVars
  <2> QED
      BY <1>3, <1>5, <2>1 DEF CannotRead
<1>6. ASSUME NEW t \in Threads,
             \/ PutsOff(t) \/ Loads(t) \/ Restarts(t) \/ TakesThreadLock(t) \/ TakesSidecar(t)
             \/ Reads(t) \/ Writes(t) \/ Cleans(t) \/ CannotClean(t) \/ Releases(t)
      PROVE  UNCHANGED Promise!storeVars
    BY <1>6 DEF PutsOff, Loads, Restarts, TakesThreadLock, TakesSidecar, Reads, Writes,
                Cleans, CannotClean, Releases, fileVars, Promise!storeVars
<1>7. ASSUME NEW r \in Readers, Opens(r) \/ Shuts(r)
      PROVE  UNCHANGED Promise!storeVars
    BY <1>7 DEF Opens, Shuts, Promise!storeVars
<1>8. CASE UNCHANGED vars
    BY <1>8 DEF vars, fileVars, Promise!storeVars
<1> QED
    BY <1>1, <1>2, <1>3, <1>4, <1>5, <1>6, <1>7, <1>8 DEF Next, Locking, Saving

\* Every change of a stored file is one whole edit, applied to what the file holds at that
\* moment: no save undoes the edit of another thread, of whatever process.
\* (file_transaction, atomic_write_text, ChampionConfig.save)
THEOREM PromiseIsKept == Spec => KeepsPromise
<1>1. IInv /\ IInv' /\ [Next]_vars => [Promise!Next]_(Promise!storeVars)
    BY NextKeepsPromise DEF IInv
<1> QED
    BY <1>1, InitKeepsPromise, IInvHolds, PTL DEF Spec, KeepsPromise, Promise!Spec

--------------------------------------------------------------------------------
(* The locks.                                                              *)

\* A lock is held by a thread that is between the locks, and by that thread alone: one that
\* has crashed, failed or given up holds none.
FileLockInUse   == sidecar # Nobody => pc[sidecar] \in Critical
ThreadLockInUse ==
    \A p \in Processes : rlock[p] # Nobody =>
        Home[rlock[p]] = p /\ pc[rlock[p]] \in {"sidecar"} \cup Critical
HoldsThreadLock ==
    \A t \in Threads : pc[t] \in {"sidecar"} \cup Critical => rlock[Home[t]] = t

NoLockIsLeft == FileLockInUse /\ ThreadLockInUse

LockInv == NoLockIsLeft /\ HoldsThreadLock

LEMMA NextKeepsLockInv ==
    ASSUME IInv, TypeOK', LockInv, [Next]_vars
    PROVE  LockInv'
<1> USE DEF IInv, LockInv, NoLockIsLeft, FileLockInUse, ThreadLockInUse, HoldsThreadLock,
            TypeOK
<1>1. ASSUME NEW t \in Threads, Asks(t) \/ PutsOff(t) \/ Loads(t) \/ Restarts(t)
      PROVE  LockInv'
  <2>1. /\ UNCHANGED <<rlock, sidecar>> /\ pc[t] \notin {"sidecar"} \cup Critical
        /\ pc' = [pc EXCEPT ![t] = pc'[t]] /\ pc'[t] \notin {"sidecar"} \cup Critical
      BY <1>1 DEF Asks, PutsOff, Loads, Restarts, Goes, Critical, lockVars
  <2> QED
      BY <2>1
<1>2. ASSUME NEW t \in Threads, Saving(t)
      PROVE  LockInv'
  <2>1. /\ UNCHANGED <<rlock, sidecar>> /\ pc[t] \in Critical
        /\ pc' = [pc EXCEPT ![t] = pc'[t]] /\ pc'[t] \in Critical
      BY <1>2 DEF Saving, Reads, CannotRead, Writes, CannotWrite, Replaces,
                  CannotReplace, Cleans, CannotClean, Goes, Critical, lockVars
  <2> QED
      BY <2>1
<1>3. ASSUME NEW t \in Threads, TakesThreadLock(t)
      PROVE  LockInv'
  <2>1. /\ pc[t] = "lock" /\ pc' = [pc EXCEPT ![t] = "sidecar"]
        /\ rlock[Home[t]] = Nobody /\ rlock' = [rlock EXCEPT ![Home[t]] = t]
        /\ UNCHANGED sidecar
      BY <1>3 DEF TakesThreadLock, Goes
  <2>2. \A u \in Threads : pc[u] \in {"sidecar"} \cup Critical => Home[u] # Home[t]
      BY <2>1
  <2>3. FileLockInUse' /\ HoldsThreadLock'
      BY <2>1, <2>2 DEF Critical
  <2>4. ThreadLockInUse'
      BY <2>1 DEF Critical
  <2> QED
      BY <2>3, <2>4
<1>4. ASSUME NEW t \in Threads, TakesSidecar(t)
      PROVE  LockInv'
    BY <1>4 DEF TakesSidecar, Goes, Critical
<1>5. ASSUME NEW t \in Threads, GivesUp(t) \/ Releases(t)
      PROVE  LockInv'
  <2>1. /\ pc[t] \in {"sidecar", "release"} /\ pc' = [pc EXCEPT ![t] = "idle"]
        /\ rlock' = [rlock EXCEPT ![Home[t]] = Nobody]
        /\ sidecar' = IF pc[t] = "release" THEN Nobody ELSE sidecar
      BY <1>5 DEF GivesUp, Releases, Goes
  <2>2. pc[t] = "release" => sidecar = t
      BY DEF HoldsSidecar, Critical
  <2>3. FileLockInUse'
      BY <2>1, <2>2 DEF Critical
  <2>4. rlock[Home[t]] = t
      BY <2>1 DEF Critical
  <2>5. \A u \in Threads \ {t} : pc'[u] = pc[u]
      BY <2>1
  <2>6. \A p \in Processes : p # Home[t] => rlock'[p] = rlock[p]
      BY <2>1
  <2>7. ThreadLockInUse'
      BY <2>1, <2>5, <2>6
  <2>8. HoldsThreadLock'
      BY <2>1, <2>4, <2>5, <2>6 DEF Critical
  <2> QED
      BY <2>3, <2>7, <2>8
<1>6. ASSUME NEW r \in Readers, Opens(r) \/ Shuts(r)
      PROVE  LockInv'
    BY <1>6 DEF Opens, Shuts, lockVars
<1>7. ASSUME NEW p \in Processes, Crashes(p)
      PROVE  LockInv'
  <2>1. \A t \in Threads \ Of(p) : pc'[t] = pc[t]
      BY <1>7 DEF Crashes
  <2>2. \A t \in Of(p) : pc'[t] = "down"
      BY <1>7 DEF Crashes, Of
  <2>3. /\ rlock' = [rlock EXCEPT ![p] = Nobody]
        /\ sidecar' = IF sidecar \in Of(p) THEN Nobody ELSE sidecar
      BY <1>7 DEF Crashes
  <2> QED
      BY <2>1, <2>2, <2>3 DEF Of, Critical
<1>8. CASE UNCHANGED vars
    BY <1>8 DEF vars, lockVars
<1> QED
    BY <1>1, <1>2, <1>3, <1>4, <1>5, <1>6, <1>7, <1>8 DEF Next, Locking

\* No lock is ever left behind: whatever fails or crashes, a thread that waits waits for one
\* that is between the locks and goes on.  (file_transaction, whose locks the system
\* releases when a process ends)
THEOREM LocksAreInUse == Spec => []NoLockIsLeft
<1>1. Init => LockInv
    BY DEF Init, LockInv, NoLockIsLeft, FileLockInUse, ThreadLockInUse, HoldsThreadLock,
           Critical
<1>2. IInv /\ IInv' /\ LockInv /\ [Next]_vars => LockInv'
    BY NextKeepsLockInv DEF IInv
<1>3. LockInv => NoLockIsLeft
    BY DEF LockInv
<1> QED
    BY <1>1, <1>2, <1>3, IInvHolds, PTL DEF Spec

--------------------------------------------------------------------------------
(* The settings windows.                                                   *)

\* The merge of a save, entry by entry: what the form has changed against what the window
\* has read, over what the file holds.
LEMMA MergeOfForm ==
    ASSUME NEW form \in Promise!Contents, NEW original, NEW current
    PROVE  Promise!Applied(Differences(form, original), current) =
              [k \in Keys |-> IF form[k] # original[k] THEN form[k] ELSE current[k]]
BY DEF Promise!Applied, Differences, Promise!Contents

Pending == {"lock", "sidecar", "read", "write", "replace"}

\* The save under way of a settings window is of all fields that it shows and that are not
\* what it has read or saved last; nobody else saves the configuration.
SavesTheForm ==
    kind = "strict" =>
        /\ \A w \in Windows : pc[w] \in Pending => edit[w] = Differences(shown[w], base[w])
        /\ \A t \in Threads \ Windows : pc[t] \in {"idle", "down"}

LEMMA NextSavesTheForm ==
    ASSUME IInv, TypeOK', SavesTheForm, [Next]_vars
    PROVE  SavesTheForm'
<1> SUFFICES ASSUME kind = "strict"
             PROVE  /\ \A w \in Windows : pc'[w] \in Pending
                          => edit'[w] = Differences(shown'[w], base'[w])
                    /\ \A t \in Threads \ Windows : pc'[t] \in {"idle", "down"}
  <2>1. UNCHANGED kind
      BY DEF Next, Asks, PutsOff, Loads, Restarts, Locking, Saving, TakesThreadLock, TakesSidecar,
             GivesUp, Releases, Reads, CannotRead, Writes, CannotWrite, Replaces,
             CannotReplace, Cleans, CannotClean, Opens, Shuts, Crashes, vars
  <2> QED
      BY <2>1 DEF SavesTheForm
<1>1. \A w \in Windows : pc[w] \in Pending => edit[w] = Differences(shown[w], base[w])
    BY DEF SavesTheForm
<1>2. \A t \in Threads \ Windows : pc[t] \in {"idle", "down"}
    BY DEF SavesTheForm
<1>3. ASSUME NEW t \in Threads, Asks(t)
      PROVE  /\ \A w \in Windows : pc'[w] \in Pending
                   => edit'[w] = Differences(shown'[w], base'[w])
             /\ \A u \in Threads \ Windows : pc'[u] \in {"idle", "down"}
  <2>1. /\ t \in Windows /\ pc' = [pc EXCEPT ![t] = "lock"] /\ UNCHANGED base
        /\ edit' = [edit EXCEPT ![t] = Differences(shown'[t], base[t])]
        /\ \A w \in Windows \ {t} : shown'[w] = shown[w]
      BY <1>3 DEF IInv, TypeOK, Asks, AsksForEntry, AsksForForm, ChangesField, Goes
  <2> QED
      BY <1>1, <1>2, <2>1 DEF IInv, TypeOK
<1>4. ASSUME NEW t \in Threads, PutsOff(t) \/ Loads(t) \/ Restarts(t)
      PROVE  /\ \A w \in Windows : pc'[w] \in Pending
                   => edit'[w] = Differences(shown'[w], base'[w])
             /\ \A u \in Threads \ Windows : pc'[u] \in {"idle", "down"}
  <2>1. /\ pc' = [pc EXCEPT ![t] = "idle"] /\ UNCHANGED edit
        /\ \A w \in Windows \ {t} : shown'[w] = shown[w] /\ base'[w] = base[w]
      BY <1>4 DEF IInv, TypeOK, PutsOff, ChangesField, Loads, Restarts, Goes, formVars
  <2> QED
      BY <1>1, <1>2, <2>1 DEF IInv, TypeOK, Pending
<1>5. ASSUME NEW t \in Threads, Locking(t) \/ Saving(t)
      PROVE  /\ \A w \in Windows : pc'[w] \in Pending
                   => edit'[w] = Differences(shown'[w], base'[w])
             /\ \A u \in Threads \ Windows : pc'[u] \in {"idle", "down"}
  <2>1. /\ pc[t] \in Pending \cup {"clean", "release"}
        /\ pc[t] \in {"clean", "release"} => pc'[t] \in {"release", "idle"}
        /\ pc' = [pc EXCEPT ![t] = pc'[t]]
        /\ \A u \in Threads \ {t} : edit'[u] = edit[u]
        /\ UNCHANGED shown
        /\ \A w \in Windows \ {t} : base'[w] = base[w]
      BY <1>5 DEF IInv, TypeOK, Locking, TakesThreadLock, TakesSidecar, GivesUp, Releases, Saving,
                  Reads, CannotRead, Writes, CannotWrite, Replaces, CannotReplace,
                  Cleans, CannotClean, Discards, Goes, formVars, Pending
  <2>2. t \in Windows
      BY <1>2, <2>1 DEF Pending
  <2>3. pc'[t] \in Pending => edit'[t] = edit[t] /\ base'[t] = base[t]
      BY <1>5 DEF IInv, TypeOK, Locking, TakesThreadLock, TakesSidecar, GivesUp, Releases, Saving,
                  Reads, CannotRead, Writes, CannotWrite, Replaces, CannotReplace,
                  Cleans, CannotClean, Discards, Goes, formVars, Pending
  <2> QED
      BY <1>1, <1>2, <2>1, <2>2, <2>3 DEF IInv, TypeOK, Pending
<1>6. ASSUME NEW r \in Readers, Opens(r) \/ Shuts(r)
      PROVE  UNCHANGED <<pc, edit, shown, base>>
    BY <1>6 DEF Opens, Shuts, formVars
<1>7. ASSUME NEW p \in Processes, Crashes(p)
      PROVE  /\ \A t \in Threads : \/ pc'[t] = "down"
                                   \/ pc'[t] = pc[t] /\ edit'[t] = edit[t]
             /\ UNCHANGED <<shown, base>>
    BY <1>7 DEF Crashes, formVars
<1>8. CASE UNCHANGED vars
    BY <1>1, <1>2, <1>8 DEF vars, formVars
<1>9. ASSUME NEW p \in Processes, Crashes(p)
      PROVE  /\ \A w \in Windows : pc'[w] \in Pending
                   => edit'[w] = Differences(shown'[w], base'[w])
             /\ \A u \in Threads \ Windows : pc'[u] \in {"idle", "down"}
    BY <1>1, <1>2, <1>7, <1>9 DEF Pending
<1> QED
    BY <1>1, <1>2, <1>3, <1>4, <1>5, <1>6, <1>8, <1>9 DEF Next

LEMMA SavesTheFormHolds == Spec => []SavesTheForm
<1>1. Init => SavesTheForm
    BY DEF Init, SavesTheForm, Pending
<1>2. IInv /\ IInv' /\ SavesTheForm /\ [Next]_vars => SavesTheForm'
    BY NextSavesTheForm DEF IInv
<1> QED
    BY <1>1, <1>2, IInvHolds, PTL DEF Spec

\* What a save of a settings window puts in the file.
LEMMA WindowReplaces ==
    ASSUME IInv, SavesTheForm, kind = "strict", NEW w \in Windows, Replaces(w)
    PROVE  store' = [k \in Keys |-> IF shown[w][k] # base[w][k] THEN shown[w][k]
                                                               ELSE store[k]]
<1>1. pc[w] = "replace" /\ store' = payload[w] /\ w \notin unread /\ w \in Threads
    BY DEF Replaces, Goes, IInv, UnreadInside
<1>2. payload[w] = Promise!Applied(edit[w], store)
    BY <1>1 DEF IInv, IsCurrent, Readable
<1>3. edit[w] = Differences(shown[w], base[w])
    BY <1>1 DEF SavesTheForm, Pending
<1>4. shown[w] \in Promise!Contents
    BY DEF IInv, TypeOK
<1> QED
    BY <1>1, <1>2, <1>3, <1>4, MergeOfForm

\* The entries that a settings window would save although its user has not set them.
Foreign(w) == {k \in Keys : shown[w][k] # base[w][k]} \ touched[w]

\* A settings window writes exactly the fields that differ from what it has read or saved
\* last, and leaves all other entries as they are.  (_merge_changed_data, _apply_save)
WritesItsDifferences ==
    [][\A w \in Windows : kind = "strict" /\ Replaces(w) =>
          store' = [k \in Keys |-> IF shown[w][k] # base[w][k] THEN shown[w][k]
                                                              ELSE store[k]]]_vars

THEOREM WindowsWriteTheirDifferences == Spec => WritesItsDifferences
<1>1. IInv /\ SavesTheForm /\ [Next]_vars =>
        [\A w \in Windows : kind = "strict" /\ Replaces(w) =>
            store' = [k \in Keys |-> IF shown[w][k] # base[w][k] THEN shown[w][k]
                                                                ELSE store[k]]]_vars
    BY WindowReplaces
<1> QED
    BY <1>1, IInvHolds, SavesTheFormHolds, PTL DEF Spec, WritesItsDifferences

\* An entry that its user has not set comes into a save of a settings window only after an
\* earlier save of the same window, which has merged what another window had saved since
\* it was read: the fields go on showing what was there before, and the next save takes
\* that for a change.  So the first save after a load never undoes another one.
\* (_merge_changed_data, which returns what the window remembers, not what it shows)
ForeignComesByMerging ==
    [][\A w \in Windows : kind = "strict" =>
          /\ Replaces(w) => \A k \in Keys :
                store'[k] # store[k] => k \in touched[w] \cup Foreign(w)
          /\ \A k \in Foreign(w)' \ Foreign(w) : Replaces(w) /\ store[k] # base[w][k]]_vars

LEMMA ForeignGrows ==
    ASSUME IInv, SavesTheForm, kind = "strict", [Next]_vars, NEW w \in Windows,
           NEW k \in Foreign(w)' \ Foreign(w)
    PROVE  Replaces(w) /\ store[k] # base[w][k]
<1>1. k \in Keys /\ shown'[w][k] # base'[w][k] /\ k \notin touched'[w]
    BY DEF Foreign
<1>2. shown[w][k] = base[w][k] \/ k \in touched[w]
    BY <1>1 DEF Foreign
<1>3. /\ shown \in [Windows -> Promise!Contents] /\ base \in [Windows -> Promise!Contents]
      /\ touched \in [Windows -> SUBSET Keys] /\ Windows \subseteq Threads
    BY DEF IInv, TypeOK
<1>4. ASSUME NEW t \in Threads, ChangesField(t)
      PROVE  FALSE
  <2>1. PICK j \in Keys, v \in Values :
           /\ shown' = [shown EXCEPT ![t] = [shown[t] EXCEPT ![j] = v]]
           /\ touched' = [touched EXCEPT ![t] = @ \cup {j}]
      BY <1>4 DEF ChangesField
  <2>2. base' = base /\ t \in Windows
      BY <1>4 DEF ChangesField
  <2>3. CASE w = t /\ k = j
      BY <1>1, <1>3, <2>1, <2>3
  <2>4. CASE ~ (w = t /\ k = j)
    <3>1. shown'[w][k] = shown[w][k]
        BY <1>1, <1>3, <2>1, <2>2, <2>4 DEF Promise!Contents
    <3>2. touched[w] \subseteq touched'[w]
        BY <1>3, <2>1
    <3> QED
        BY <1>1, <1>2, <2>2, <3>1, <3>2
  <2> QED
      BY <2>3, <2>4
<1>5. ASSUME NEW t \in Threads, Loads(t)
      PROVE  FALSE
  <2>1. /\ shown' = [shown EXCEPT ![t] = store] /\ base' = [base EXCEPT ![t] = store]
        /\ touched' = [touched EXCEPT ![t] = {}]
      BY <1>5 DEF Loads
  <2> QED
      BY <1>1, <1>2, <1>3, <2>1
<1>6. CASE UNCHANGED formVars
    BY <1>1, <1>2, <1>6 DEF formVars
<1>7. ASSUME NEW t \in Threads, Replaces(t)
      PROVE  Replaces(w) /\ store[k] # base[w][k]
  <2>1. /\ base' = [v \in Windows |-> IF v = t THEN payload[t] ELSE base[v]]
        /\ touched' = [v \in Windows |-> IF v = t THEN {} ELSE touched[v]]
        /\ UNCHANGED shown /\ store' = payload[t]
      BY <1>7 DEF Replaces
  <2>2. w = t
      BY <1>1, <1>2, <2>1
  <2>3. base'[w] = [j \in Keys |-> IF shown[w][j] # base[w][j] THEN shown[w][j] ELSE store[j]]
      BY <1>7, <2>1, <2>2, WindowReplaces
  <2> QED
      BY <1>1, <1>7, <2>1, <2>2, <2>3
<1>8. ASSUME NEW t \in Threads, Asks(t) \/ PutsOff(t)
      PROVE  FALSE
    BY <1>4, <1>8 DEF Asks, AsksForEntry, AsksForForm, PutsOff
<1>9. CASE \/ UNCHANGED vars
           \/ \E t \in Threads : Restarts(t) \/ Locking(t)
           \/ \E t \in Threads : \/ Reads(t) \/ CannotRead(t) \/ Writes(t)
                                 \/ CannotWrite(t) \/ CannotReplace(t)
                                 \/ Cleans(t) \/ CannotClean(t)
           \/ \E r \in Readers : Opens(r) \/ Shuts(r)
           \/ \E p \in Processes : Crashes(p)
    BY <1>6, <1>9 DEF vars, Restarts, Locking, TakesThreadLock, TakesSidecar, GivesUp, Releases,
                      Reads, CannotRead, Writes, CannotWrite, CannotReplace, Cleans,
                      CannotClean, Opens, Shuts, Crashes
<1> QED
    BY <1>5, <1>7, <1>8, <1>9 DEF Next, Saving

THEOREM ForeignNeedsMerging == Spec => ForeignComesByMerging
<1>1. ASSUME IInv, SavesTheForm, kind = "strict", [Next]_vars, NEW w \in Windows
      PROVE  /\ Replaces(w) => \A k \in Keys :
                   store'[k] # store[k] => k \in touched[w] \cup Foreign(w)
             /\ \A k \in Foreign(w)' \ Foreign(w) : Replaces(w) /\ store[k] # base[w][k]
  <2>1. ASSUME Replaces(w), NEW k \in Keys, store'[k] # store[k]
        PROVE  k \in touched[w] \cup Foreign(w)
      BY <1>1, <2>1, WindowReplaces DEF Foreign
  <2> QED
      BY <1>1, <2>1, ForeignGrows
<1>2. IInv /\ SavesTheForm /\ [Next]_vars =>
        [\A w \in Windows : kind = "strict" =>
          /\ Replaces(w) => \A k \in Keys :
                store'[k] # store[k] => k \in touched[w] \cup Foreign(w)
          /\ \A k \in Foreign(w)' \ Foreign(w) : Replaces(w) /\ store[k] # base[w][k]]_vars
    BY <1>1
<1> QED
    BY <1>2, IInvHolds, SavesTheFormHolds, PTL DEF Spec, ForeignComesByMerging

\* A window that is alone knows what the file holds.
InStep == kind = "strict" => \A w \in Windows : base[w] = store /\ Foreign(w) = {}

LEMMA NextKeepsInStep ==
    ASSUME \A v, w \in Windows : v = w, IInv, TypeOK', SavesTheForm, SavesTheForm', InStep,
           [Next]_vars
    PROVE  InStep'
<1> SUFFICES ASSUME kind' = "strict", NEW w \in Windows
             PROVE  base'[w] = store' /\ Foreign(w)' = {}
    BY DEF InStep
<1>1. kind = "strict"
    BY DEF Next, Asks, PutsOff, Loads, Restarts, Locking, Saving, TakesThreadLock, TakesSidecar,
           GivesUp, Releases, Reads, CannotRead, Writes, CannotWrite, Replaces,
           CannotReplace, Cleans, CannotClean, Opens, Shuts, Crashes, vars
<1>2. base[w] = store /\ Foreign(w) = {} /\ w \in Threads
    BY <1>1 DEF InStep
<1>3. Foreign(w)' = {}
  <2>1. \A k \in Foreign(w)' \ Foreign(w) : store[k] # base[w][k]
      BY <1>1, ForeignGrows
  <2> QED
      BY <1>2, <2>1
<1>4. ASSUME NEW t \in Threads, Replaces(t)
      PROVE  base'[w] = store'
  <2>1. t \in Windows
      BY <1>1, <1>4 DEF SavesTheForm, Replaces, Goes
  <2>2. t = w
      BY <2>1
  <2> QED
      BY <1>4, <2>2 DEF Replaces
<1>5. ASSUME NEW t \in Threads, Loads(t)
      PROVE  base'[w] = store'
    BY <1>2, <1>5 DEF IInv, TypeOK, Loads, fileVars
<1>6. ASSUME UNCHANGED <<store, base>>
      PROVE  base'[w] = store'
    BY <1>2, <1>6
<1>7. ASSUME \/ UNCHANGED vars
             \/ \E t \in Threads : Asks(t) \/ PutsOff(t) \/ Restarts(t) \/ Locking(t)
             \/ \E t \in Threads : \/ Reads(t) \/ CannotRead(t) \/ Writes(t)
                                   \/ CannotWrite(t) \/ CannotReplace(t)
                                   \/ Cleans(t) \/ CannotClean(t)
             \/ \E r \in Readers : Opens(r) \/ Shuts(r)
             \/ \E p \in Processes : Crashes(p)
      PROVE  base'[w] = store'
    BY <1>6, <1>7 DEF vars, Asks, AsksForEntry, AsksForForm, ChangesField, PutsOff, Restarts,
                      Locking, TakesThreadLock, TakesSidecar, GivesUp, Releases, Reads,
                      CannotRead, Writes, CannotWrite, CannotReplace, Cleans,
                      CannotClean, Opens, Shuts, Crashes, formVars, fileVars
<1> QED
    BY <1>3, <1>4, <1>5, <1>7 DEF Next, Saving

\* With one settings window, whatever fails or crashes, no save changes an entry that the
\* user has not set: it takes two windows to undo each other.  (champion_config.py)
THEOREM AloneSavesOwnEdits ==
    ASSUME Kinds = {"strict"}, \A v, w \in Windows : v = w
    PROVE  Spec => SavesOwnEditsOnly
<1>1. Init => InStep
    BY DEF Init, InStep, Foreign
<1>2. IInv /\ IInv' /\ SavesTheForm /\ SavesTheForm' /\ InStep /\ [Next]_vars => InStep'
    BY NextKeepsInStep DEF IInv
<1>3. IInv /\ SavesTheForm /\ InStep /\ [Next]_vars =>
        [\A w \in Windows : Replaces(w) =>
            \A k \in Keys : store'[k] # store[k] => k \in touched[w]]_vars
  <2> SUFFICES ASSUME IInv, SavesTheForm, InStep, NEW w \in Windows, Replaces(w), NEW k \in Keys,
                      store'[k] # store[k]
               PROVE  k \in touched[w]
      OBVIOUS
  <2>1. kind = "strict"
      BY DEF IInv, TypeOK
  <2>2. shown[w][k] # base[w][k]
      BY <2>1, WindowReplaces
  <2>3. Foreign(w) = {}
      BY <2>1 DEF InStep
  <2> QED
      BY <2>2, <2>3 DEF Foreign
<1> QED
    BY <1>1, <1>2, <1>3, IInvHolds, SavesTheFormHolds, PTL DEF Spec, SavesOwnEditsOnly

=============================================================================
