------------------------------ MODULE Swapping -------------------------------
(***************************************************************************)
(* How an object takes its name in the cache, and leaves it, on volumes    *)
(* that link or do not, and that refuse to rename over a read-only file or *)
(* to remove one (Cache::link_new and drop_object in cache.rs, volume.rs). *)
(* Several writers bring the same bytes, each in a sealed file of its own, *)
(* while the object may be there already, intact or changed, with a        *)
(* project's hardlink to it.  Files are told apart by who made them.       *)
(***************************************************************************)
EXTENDS Naturals, FiniteSets

CONSTANTS
    Writers,
    Dropper,        \* a run that drops the object
    Volumes,        \* what a volume does: [links, renamesOver, sealedStay, sealedKept]
    Nobody

Old == "old"

\* What the values of the constants are
SwappingAssumption ==
    /\ Volumes \subseteq [links : BOOLEAN, renamesOver : BOOLEAN, sealedStay : BOOLEAN,
                         sealedKept : BOOLEAN]
    /\ Old \notin Writers /\ Dropper \notin Writers /\ Nobody \notin Writers \cup {Old}

VARIABLES
    volume,
    object, placed,     \* the file of the object's name, and of a project's hardlink
    source,             \* of each writer's own name
    found,              \* of the object that was there first: intact, changed, or edited and writable
    sealed,             \* files that are read-only
    pc, handle,
    dropped, killed

vars == <<volume, object, placed, source, found, sealed, pc, handle, dropped, killed>>

Procs == Writers \cup {Dropper}
Files == Writers \cup {Old}
Good(file) == file \in Writers \/ (file = Old /\ found = "intact")

Init ==
    /\ volume \in Volumes
    /\ found \in {"intact", "changed", "edited"}
    /\ \/ object = Nobody /\ placed = Nobody
       \/ object = Old /\ placed \in (IF volume.links THEN {Nobody, Old} ELSE {Nobody})
    /\ source = [w \in Writers |-> w]
    /\ sealed = IF found = "edited" THEN Writers ELSE Files
    /\ pc = [p \in Procs |-> IF p = Dropper THEN "idle" ELSE "link"]
    /\ handle = [p \in Procs |-> Nobody]
    /\ dropped = FALSE /\ killed = FALSE

-----------------------------------------------------------------------------
(***************************************************************************)
(* What volumes allow.  Where files have one name only, a handle somebody  *)
(* else has open may also be in the way.                                   *)
(***************************************************************************)
InTheWay(p, file) == ~volume.links /\ \E q \in Procs \ {p} : handle[q] = file
Renames(p, to) ==
    \/ to = Nobody
    \/ /\ volume.renamesOver /\ ~(volume.sealedStay /\ to \in sealed)
       /\ volume.links \/ handle[p] # to
       /\ ~InTheWay(p, to)
Removes(p, file) ==
    file # Nobody /\ ~(volume.sealedKept /\ file \in sealed) /\ ~InTheWay(p, file)

\* Volume::can_hardlink says that the volume makes no links, or its probe tells nothing
LinksNothing == {FALSE, ~volume.links}

Goto(p, label) == pc' = [pc EXCEPT ![p] = label]
Opens(p, file) == handle' = [handle EXCEPT ![p] = file]
Closes(p) == Opens(p, Nobody)
Rename(w) == object' = w /\ source' = [source EXCEPT ![w] = Nobody]
Stays == UNCHANGED <<object, source>>

-----------------------------------------------------------------------------
(***************************************************************************)
(* Cache::link_new                                                         *)
(***************************************************************************)
Link(w) ==
    /\ pc[w] = "link"
    /\ CASE object # Nobody -> Goto(w, "look") /\ UNCHANGED object
         [] object = Nobody /\ volume.links -> object' = w /\ Goto(w, "clean")
         [] OTHER -> Goto(w, "rename") /\ UNCHANGED object
    /\ UNCHANGED <<source, sealed, handle, dropped, killed>>

\* Without links: another writer may have come since the look
RenameNew(w) ==
    /\ pc[w] = "rename"
    /\ IF Renames(w, object) THEN Rename(w) /\ Goto(w, "stored") ELSE Goto(w, "look") /\ Stays
    /\ UNCHANGED <<sealed, handle, dropped, killed>>

\* existing: what is there is hashed; ChangeMarks has the mark of one that changed
Look(w) ==
    /\ pc[w] = "look"
    /\ Goto(w, CASE object = Nobody -> "link" [] Good(object) -> "clean" [] OTHER -> "replace")
    /\ UNCHANGED <<object, source, sealed, handle, dropped, killed>>

\* Volume::replace: a rename, or else the flag of the old file goes first
Replace(w) ==
    /\ pc[w] = "replace"
    /\ IF Renames(w, object) THEN Rename(w) /\ Goto(w, "stored") ELSE Goto(w, "open") /\ Stays
    /\ UNCHANGED <<sealed, handle, dropped, killed>>

OpenOld(w) ==
    /\ pc[w] = "open"
    /\ IF object \in sealed THEN Opens(w, object) /\ Goto(w, "clear")
       ELSE Goto(w, "check") /\ UNCHANGED handle
    /\ UNCHANGED <<object, source, sealed, dropped, killed>>

Clear(w) ==
    /\ pc[w] = "clear" /\ sealed' = sealed \ {handle[w]}
    /\ \E nothing \in LinksNothing :
         IF nothing THEN Closes(w) /\ Goto(w, "again") ELSE Goto(w, "swap") /\ UNCHANGED handle
    /\ UNCHANGED <<object, source, dropped, killed>>

\* The old file may have a project's name: it gets its flag back, by the handle it was opened with
Swap(w) ==
    /\ pc[w] = "swap"
    /\ IF Renames(w, object) THEN Rename(w) /\ Goto(w, "restore") ELSE Stays /\ Goto(w, "restore failed")
    /\ UNCHANGED <<sealed, handle, dropped, killed>>
RestoreByName(w) ==
    /\ pc[w] \in {"restore", "restore failed"}
    /\ sealed' = sealed \cup ({object} \ {Nobody}) /\ Closes(w)
    /\ Goto(w, IF pc[w] = "restore" THEN "stored" ELSE "check")
    /\ UNCHANGED <<object, source, dropped, killed>>
Restore(w) ==
    /\ pc[w] \in {"restore", "restore failed"}
    /\ sealed' = sealed \cup {handle[w]} /\ Closes(w)
    /\ Goto(w, IF pc[w] = "restore" THEN "stored" ELSE "check")
    /\ UNCHANGED <<object, source, dropped, killed>>

\* Where the old file has no other name, it may go first
Again(w) ==
    /\ pc[w] = "again"
    /\ IF Renames(w, object) THEN Rename(w) /\ Goto(w, "stored") ELSE Stays /\ Goto(w, "remove old")
    /\ UNCHANGED <<sealed, handle, dropped, killed>>
RemoveOld(w) ==
    /\ pc[w] = "remove old"
    /\ IF Removes(w, object) THEN object' = Nobody /\ Goto(w, "last") ELSE Goto(w, "reseal") /\ UNCHANGED object
    /\ UNCHANGED <<source, sealed, handle, dropped, killed>>
Reseal(w) ==
    /\ pc[w] = "reseal" /\ sealed' = sealed \cup ({object} \ {Nobody}) /\ Goto(w, "check")
    /\ UNCHANGED <<object, source, handle, dropped, killed>>
Last(w) ==
    /\ pc[w] = "last"
    /\ IF Renames(w, object) THEN Rename(w) /\ Goto(w, "stored") ELSE Stays /\ Goto(w, "check")
    /\ UNCHANGED <<sealed, handle, dropped, killed>>

\* Another repair may have been faster
Check(w) ==
    /\ pc[w] = "check" /\ Goto(w, IF Good(object) THEN "clean" ELSE "failed")
    /\ UNCHANGED <<object, source, sealed, handle, dropped, killed>>

\* The writer's own name goes; its file is the object where that was linked, and sealed
Clean(w) ==
    /\ pc[w] = "clean"
    /\ \/ /\ Removes(w, w) /\ source' = [source EXCEPT ![w] = Nobody] /\ Goto(w, "stored")
       \/ /\ ~Removes(w, w)
          /\ \E nothing \in LinksNothing :
               IF nothing THEN source' = [source EXCEPT ![w] = Nobody] /\ Goto(w, "stored")
               ELSE source' = source /\ Goto(w, "failed")
    /\ UNCHANGED <<object, sealed, handle, dropped, killed>>

-----------------------------------------------------------------------------
(***************************************************************************)
(* Cache::drop_object, by Volume::remove: the flag of a file without other *)
(* names goes for a second try                                             *)
(***************************************************************************)
Drop ==
    /\ pc[Dropper] = "idle"
    /\ IF Removes(Dropper, object)
       THEN object' = Nobody /\ dropped' = TRUE /\ Goto(Dropper, "done") /\ UNCHANGED handle
       ELSE /\ \E nothing \in LinksNothing :
                 IF object \in sealed /\ nothing
                 THEN Opens(Dropper, object) /\ Goto(Dropper, "drop clear")
                 ELSE Goto(Dropper, "done") /\ UNCHANGED handle
            /\ UNCHANGED <<object, dropped>>
    /\ UNCHANGED <<source, sealed, killed>>
DropClear ==
    /\ pc[Dropper] = "drop clear" /\ sealed' = sealed \ {handle[Dropper]}
    /\ Goto(Dropper, "drop again")
    /\ UNCHANGED <<object, source, handle, dropped, killed>>
DropAgain ==
    /\ pc[Dropper] = "drop again"
    /\ IF Removes(Dropper, object) THEN object' = Nobody /\ dropped' = TRUE /\ UNCHANGED sealed
       ELSE sealed' = sealed \cup {handle[Dropper]} /\ UNCHANGED <<object, dropped>>
    /\ Closes(Dropper) /\ Goto(Dropper, "done") /\ UNCHANGED <<source, killed>>

\* A process is killed at any step
Kill(p) ==
    /\ ~killed /\ killed' = TRUE /\ pc[p] \notin {"stored", "failed", "idle", "done"}
    /\ Goto(p, "failed") /\ Closes(p) /\ UNCHANGED <<object, source, sealed, dropped>>

Next ==
    /\ UNCHANGED <<volume, placed, found>>
    /\ \/ \E w \in Writers :
            \/ Link(w) \/ RenameNew(w) \/ Look(w) \/ Replace(w) \/ OpenOld(w) \/ Clear(w) \/ Swap(w)
            \/ Restore(w) \/ Again(w) \/ RemoveOld(w) \/ Reseal(w) \/ Last(w) \/ Check(w) \/ Clean(w)
       \/ Drop \/ DropClear \/ DropAgain
       \/ \E p \in Procs : Kill(p)

Spec == Init /\ [][Next]_vars

-----------------------------------------------------------------------------
Idle == {"stored", "failed", "idle", "done", "link", "look"}
Resting == ~killed /\ \A p \in Procs : pc[p] \in Idle

\* Whoever says it stored the object is right, unless the object was dropped.  Without links another
\* repair may be just taking it away, to put the same bytes there.
StoredIsThere ==
    (\E w \in Writers : pc[w] = "stored") /\ (volume.links \/ Resting) => dropped \/ Good(object)

\* On a volume that links, the name of an object is never empty on the way to another one.
NeverEmpty == volume.links /\ object # Nobody => object' # Nobody \/ dropped'

\* The flag of a file that has names comes back, whoever races whom, unless its process was killed.
FlagsReturn ==
    Resting => \A file \in {object, placed} \ {Nobody} : file \in sealed \/ (file = Old /\ found = "edited")

\* Whoever says it stored an object did, the name of an object is never empty where volumes link,
\* and files keep their read-only flag, whoever races whom.
ObjectsStaySealed == [][NeverEmpty /\ StoredIsThere' /\ FlagsReturn']_vars

-----------------------------------------------------------------------------
\* What makes it so
Names == {object, placed} \ {Nobody}
Early == {"link", "look", "rename", "replace", "open", "clear", "swap", "restore failed", "again",
          "remove old", "reseal", "last", "check"}
Linkless == {"rename", "again", "remove old", "reseal", "last"}
Served == {"restore", "clean", "stored"}
Restoring == {"swap", "restore", "restore failed", "drop again"}
Unlocking == {"again", "remove old", "reseal"}
Dropping == {"drop clear", "drop again"}

TypeOK ==
    /\ volume \in Volumes /\ found \in {"intact", "changed", "edited"}
    /\ object \in Files \cup {Nobody} /\ placed \in {Old, Nobody} /\ sealed \subseteq Files
    /\ pc \in [Procs -> Early \cup Served \cup Dropping \cup {"failed", "idle", "done"}]
    /\ handle \in [Procs -> Files \cup {Nobody}]
    /\ dropped \in BOOLEAN /\ killed \in BOOLEAN

\* What is done without links is done where the volume makes none
KindsOfVolumes ==
    /\ volume.links => \A p \in Procs : pc[p] \notin Linkless \cup Dropping
    /\ ~volume.links => placed = Nobody

\* A file that has not been the object yet is sealed, and nobody has it open
OwnFiles ==
    \A w \in Writers :
        pc[w] \in Early => object # w /\ w \in sealed /\ \A p \in Procs : handle[p] # w

Handles ==
    /\ \A p \in Procs : pc[p] \in Restoring \cup {"clear", "drop clear"} => handle[p] # Nobody
    /\ pc[Dropper] \notin Early \cup Served
    /\ \A w \in Writers : pc[w] \notin Dropping

\* Without links a repair may have taken the object away, to put its own there next
ServedWell ==
    (\E w \in Writers : pc[w] \in Served) =>
        \/ dropped \/ Good(object)
        \/ ~volume.links /\ (killed \/ (object = Nobody /\ \E w \in Writers : pc[w] = "last"))

\* Whose flag is gone, somebody is about to give it back, by its handle or by the object's name
Excused(file) == file = Old /\ found = "edited"
Attended(file) ==
    \/ \E p \in Procs : pc[p] \in Restoring /\ handle[p] = file
    \/ \E w \in Writers : pc[w] \in Unlocking
FlagsAttended == \A file \in Names : file \in sealed \/ killed \/ Excused(file) \/ Attended(file)

IInv == TypeOK /\ KindsOfVolumes /\ OwnFiles /\ Handles /\ ServedWell /\ FlagsAttended
=============================================================================
