------------------------------- MODULE SharedStore -------------------------------
(***************************************************************************)
(* One process's view of a file rewritten as a whole by several processes: *)
(* the cycle PeopleStore and VoiceprintStore share.  A modification takes  *)
(* the lock, rereads the file if its stamp is not the one of the last load *)
(* or save, changes the records in memory and writes them out.  Nobody     *)
(* else writes meanwhile (FileLock) and QSaveFile replaces the file as a   *)
(* whole, so a modification is one step; refresh() reads without the lock  *)
(* and is two.                                                             *)
(*                                                                         *)
(* load() takes the stamp first.  If the file cannot be opened then, the   *)
(* memory stays as it was under the stamp of a file it never read, and the *)
(* next modification takes it for the file.                                *)
(*                                                                         *)
(* Stamps of different writes differ, so a stamp is the fact that it       *)
(* equals the file's.                                                      *)
(***************************************************************************)
VARIABLES
    disk,       \* the records in the file
    mem,        \* m_entries / m_people
    fresh,      \* m_stamp is the file's
    loading,    \* between the stamp and the read of load()
    readable,   \* environment: the file can be opened for reading
    unsaved     \* history: the records in memory that a failed save was about

store == <<disk, mem, fresh, loading, readable, unsaved>>

\* Mutant: a modification trusts the memory.
Remembered == mem

\* reloadIfChanged leaves the memory as it is: nothing changed, or load() cannot open the file.
Stays == fresh \/ ~readable

\* What a modification starts from.
Current == IF Stays THEN mem ELSE disk
Carried == IF Stays THEN unsaved ELSE {}

\* refresh(): load() begins with the stamp.
Stamp ==
    /\ fresh' = TRUE /\ loading' = ~fresh
    /\ UNCHANGED <<disk, mem, readable, unsaved>>

\* It ends with the content, if the file can be opened.
Load ==
    /\ loading' = FALSE
    /\ IF loading /\ readable THEN mem' = disk /\ unsaved' = {} ELSE UNCHANGED <<mem, unsaved>>
    /\ UNCHANGED <<disk, fresh, readable>>

\* A modification that finds nothing to change.
Find ==
    /\ mem' = Current /\ unsaved' = Carried /\ fresh' = TRUE
    /\ UNCHANGED <<disk, loading, readable>>

\* persist: saved, or the file stays as it was and only the memory has the change.
Rewrite(new, keys, saved) ==
    /\ mem' = new /\ fresh' = TRUE
    /\ IF saved THEN disk' = new /\ unsaved' = {}
                ELSE unsaved' = Carried \union keys /\ UNCHANGED disk
    /\ UNCHANGED <<loading, readable>>

\* Another process rewrote the file.
Overwritten(new) ==
    /\ disk' = new /\ fresh' = FALSE
    /\ UNCHANGED <<mem, loading, readable, unsaved>>

\* Another program keeps the file from being opened, and lets go of it.
Bar == readable /\ readable' = FALSE /\ UNCHANGED <<disk, mem, fresh, loading, unsaved>>
Free == ~readable /\ readable' = TRUE /\ UNCHANGED <<disk, mem, fresh, loading, unsaved>>
=============================================================================
