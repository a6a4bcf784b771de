------------------------------ MODULE Unpacking ------------------------------
(***************************************************************************)
(* Archives unpacked into the cache (archive.rs, archive/store.rs,         *)
(* cache/staging.rs, cache/object.rs, cache/unpacked.rs,                   *)
(* cli/sync/unpack.rs): runs that unpack one archive, each in a staging    *)
(* folder of its own, with threads that seal what the reader hands them.   *)
(* Others sweep the staging folders of runs that died.                     *)
(*                                                                         *)
(* A tree is named by what the archive's bytes unpack to: Good is what     *)
(* they held when they were downloaded, Changed what damaged bytes hold.   *)
(***************************************************************************)
EXTENDS Naturals

CONSTANTS
    Runs,
    Locks,          \* whether the cache's file system has locks
    Batched,        \* whether one flush of the file system covers all members
    Good, Changed, Refused,     \* what the archive holds; Refused ends in an entry no disk takes
    Parts,          \* the members of an archive are 1 .. Parts
    None

\* What the values of the constants are
UnpackingAssumption ==
    /\ Locks \in BOOLEAN /\ Batched \in BOOLEAN /\ Parts \in Nat \ {0}
    /\ Refused \notin {Good, Changed} /\ None \notin {Good, Changed, Refused}

VARIABLES
    archive,        \* what the archive's bytes in the cache hold now
    pinned,         \* the tree data.lock pins, or None before the first unpacking
    objects,        \* [tree, part] of members in the cache, with whether a power cut spares them
    record,         \* unpacked/<archive>
    folder,         \* each run's staging folder
    part,           \* how far each run is with each member
    pc, reads       \* where it is, and what the bytes held when it began to read

vars == <<archive, pinned, objects, record, folder, part, pc, reads>>

Members == 1 .. Parts
NoFolder == [name |-> "none", held |-> FALSE, old |-> FALSE, files |-> {}]
Unread == [m \in Members |-> "unread"]
Working == {"read", "flush", "publish", "record"}

Init ==
    /\ archive \in {Good, Changed, Refused}
    /\ pinned \in IF archive = Good THEN {None, Good, Changed}
                  ELSE IF archive = Changed THEN {Good} ELSE {None}
    /\ objects = {} /\ record = None
    /\ folder = [r \in Runs |-> NoFolder] /\ part = [r \in Runs |-> Unread]
    /\ pc = [r \in Runs |-> "idle"] /\ reads = [r \in Runs |-> None]

Goto(r, label) == pc' = [pc EXCEPT ![r] = label]
Kept == <<archive, pinned, objects, record>>

-----------------------------------------------------------------------------
\* Staging folders

\* Mutant: a lock that is there is enough
Locked(f) == f.name # "none" /\ (f.name = "lock" \/ f.old)

\* sweep_staging: a lock nobody holds, or the age where there is none
Abandoned(f) == f.name # "none" /\ ~f.held /\ (f.name = "lock" \/ f.old)

Swept(fs) == [r \in Runs |-> IF Abandoned(fs[r]) THEN NoFolder ELSE fs[r]]

\* A run whose folder is swept before it has a lock fails at its next step
CreateDir(r) ==
    /\ pc[r] = "idle" /\ Swept(folder)[r].name = "none"
    /\ folder' = [Swept(folder) EXCEPT ![r] = [NoFolder EXCEPT !.name = "opening"]]
    /\ Goto(r, "open")
    /\ UNCHANGED <<Kept, part, reads>>

\* The lock is taken before it gets its name
NameLock(r) ==
    /\ pc[r] = "open" /\ folder[r].name = "opening"
    /\ folder' = [folder EXCEPT ![r].name = IF Locks THEN "lock" ELSE "unlocked",
                                ![r].held = Locks, ![r].old = FALSE]
    /\ reads' = [reads EXCEPT ![r] = archive]
    /\ Goto(r, "read")
    /\ UNCHANGED <<Kept, part>>

\* clear_staging, when the run ends
Clear(r, label) ==
    /\ folder' = [folder EXCEPT ![r] = NoFolder] /\ part' = [part EXCEPT ![r] = Unread]
    /\ reads' = [reads EXCEPT ![r] = None] /\ Goto(r, label)

\* gc sweeps as well
Sweep == folder' = Swept(folder) /\ folder' # folder /\ UNCHANGED <<Kept, part, pc, reads>>

\* A day passes over a folder nobody writes into: its run died, or sleeps before it has a lock
Age(r) ==
    /\ folder[r].name # "none" /\ ~folder[r].old /\ pc[r] \in {"idle", "open"}
    /\ folder' = [folder EXCEPT ![r].old = TRUE]
    /\ UNCHANGED <<Kept, part, pc, reads>>

-----------------------------------------------------------------------------
\* store_all

\* The reader hands over the next member: whole while small, or written as it is read
Keep(r) ==
    /\ pc[r] = "read"
    /\ \E m \in Members :
         /\ part[r][m] = "unread" /\ \A n \in 1 .. m - 1 : part[r][n] # "unread"
         /\ reads[r] = Refused => m < Parts
         /\ \/ part' = [part EXCEPT ![r][m] = "queued"] /\ UNCHANGED folder
            \/ part' = [part EXCEPT ![r][m] = "spilled"]
               /\ folder' = [folder EXCEPT ![r].files = @ \cup {m}]
    /\ UNCHANGED <<Kept, pc, reads>>

\* A writer seals a member; the disk may fail to take bytes nobody flushed
Seal(r, m) ==
    /\ pc[r] = "read" /\ part[r][m] \in {"queued", "spilled"}
    /\ part[r][m] = "spilled" => m \in folder[r].files
    /\ part' \in {[part EXCEPT ![r][m] = s] : s \in IF Batched THEN {"sealed", "lost"} ELSE {"safe"}}
    /\ folder' = [folder EXCEPT ![r].files = @ \cup {m}]
    /\ UNCHANGED <<Kept, pc, reads>>

\* The reader is done, the queue is drained and the threads are joined
Joined(r) ==
    /\ pc[r] = "read" /\ \A m \in Members : part[r][m] \in {"sealed", "lost", "safe"}
    /\ Goto(r, IF Batched THEN "flush" ELSE "publish")
    /\ UNCHANGED <<Kept, folder, part, reads>>

\* syncfs reports what failed since the batch began
FlushReports(r) == \A m \in Members : part[r][m] = "sealed"

Flush(r) ==
    /\ pc[r] = "flush" /\ FlushReports(r)
    /\ part' = [part EXCEPT ![r] = [m \in Members |-> IF @[m] = "sealed" THEN "safe" ELSE @[m]]]
    /\ Goto(r, "publish")
    /\ UNCHANGED <<Kept, folder, reads>>

\* link_object: an object that is there stays
Publish(r, m) ==
    /\ pc[r] = "publish" /\ m \in folder[r].files /\ part[r][m] # "published"
    /\ objects' = IF \E o \in objects : o.tree = reads[r] /\ o.part = m THEN objects
                  ELSE objects \cup {[tree |-> reads[r], part |-> m, safe |-> part[r][m] = "safe"]}
    /\ part' = [part EXCEPT ![r][m] = "published"]
    /\ folder' = [folder EXCEPT ![r].files = @ \ {m}]
    /\ UNCHANGED <<archive, pinned, record, pc, reads>>

\* The staging folder goes before the tree is recorded
Published(r) ==
    /\ pc[r] = "publish" /\ \A m \in Members : part[r][m] = "published"
    /\ folder' = [folder EXCEPT ![r] = NoFolder]
    /\ Goto(r, "record")
    /\ UNCHANGED <<Kept, part, reads>>

\* An entry is refused, a thread fails, or the run is stopped: nothing more is published
Fail(r) ==
    /\ pc[r] \in {"open", "read", "flush", "publish", "record"}
    /\ Clear(r, "idle") /\ UNCHANGED Kept

-----------------------------------------------------------------------------
\* unpack_cached, unpack_locked

\* Damaged bytes must not replace the tree the lock pins
Records(tree) == pinned \in {None, tree}

Record(r) ==
    /\ pc[r] = "record"
    /\ IF Records(reads[r])
       THEN /\ record' = reads[r] /\ Clear(r, "idle")
            /\ pinned' = IF pinned = None THEN reads[r] ELSE pinned
       ELSE Clear(r, "verify") /\ UNCHANGED <<record, pinned>>
    /\ UNCHANGED <<archive, objects>>

\* Other files than the lock says: a damaged archive is marked and downloaded again, an intact
\* one is an error
VerifyArchive(r) ==
    /\ pc[r] = "verify" /\ Goto(r, "idle")
    /\ archive' = IF archive = Changed THEN Good ELSE archive
    /\ UNCHANGED <<pinned, objects, record, folder, part, reads>>

-----------------------------------------------------------------------------
\* The archive's bytes change once a tree is pinned; a run reads them through one open file
Damage ==
    /\ archive = Good /\ pinned = Good /\ archive' = Changed
    /\ UNCHANGED <<pinned, objects, record, folder, part, pc, reads>>

\* A killed run leaves its folder, and its lock is free
Kill(r) ==
    /\ pc[r] # "idle" /\ Goto(r, "idle")
    /\ folder' = [folder EXCEPT ![r].held = FALSE]
    /\ part' = [part EXCEPT ![r] = Unread] /\ reads' = [reads EXCEPT ![r] = None]
    /\ UNCHANGED Kept

Next ==
    \/ \E r \in Runs :
         \/ CreateDir(r) \/ NameLock(r) \/ Age(r) \/ Keep(r) \/ Joined(r) \/ Flush(r) \/ Published(r)
         \/ Fail(r) \/ Record(r) \/ VerifyArchive(r) \/ Kill(r)
         \/ \E m \in Members : Seal(r, m) \/ Publish(r, m)
    \/ Sweep \/ Damage

Spec == Init /\ [][Next]_vars

-----------------------------------------------------------------------------
\* A recorded tree is the one the lock pins, and each of its files is in the cache, where a
\* power cut spares it; an archive that is refused leaves nothing behind (store_all,
\* unpack_cached, record_unpacked).
RecordedIsWhole ==
    /\ record # None =>
         /\ record = pinned
         /\ \A m \in Members : [tree |-> record, part |-> m, safe |-> TRUE] \in objects
    /\ \A o \in objects : o.tree # Refused

\* What a run has sealed is in its staging folder until it is published: nobody sweeps the
\* folder of a run that is alive, also while that run is opening it (staging, sweep_staging).
StagedStays ==
    \A r \in Runs : pc[r] \in Working \ {"record"} =>
      /\ folder[r].name # "none"
      /\ \A m \in Members : part[r][m] \in {"spilled", "sealed", "safe", "lost"} => m \in folder[r].files

\* A recorded tree has all its members in the cache, and is the one the lock pins; and no run's
\* staged members go while it works with them.
UnpackedIsWhole == RecordedIsWhole /\ StagedStays

-----------------------------------------------------------------------------
\* What makes it so
Trees == {Good, Changed, Refused}
Folder == [name : {"none", "opening", "lock", "unlocked"}, held : BOOLEAN, old : BOOLEAN,
           files : SUBSET Members]
Stages == {"unread", "queued", "spilled", "sealed", "lost", "safe", "published"}
Stored(tree, m) == [tree |-> tree, part |-> m, safe |-> TRUE] \in objects

TypeOK ==
    /\ archive \in Trees /\ pinned \in Trees \cup {None} /\ record \in Trees \cup {None}
    /\ objects \subseteq [tree : Trees, part : Members, safe : BOOLEAN]
    /\ folder \in [Runs -> Folder] /\ part \in [Runs -> [Members -> Stages]]
    /\ pc \in [Runs -> Working \cup {"idle", "open", "verify"}]
    /\ reads \in [Runs -> Trees \cup {None}]

\* How far the members are at each step: what is published was flushed before, and is in the cache
PartsInStep ==
    \A r \in Runs :
        /\ pc[r] \in Working => reads[r] # None
        /\ pc[r] \in Working \ {"read"} => reads[r] # Refused
        /\ pc[r] = "read" /\ reads[r] = Refused => part[r][Parts] = "unread"
        /\ \A m \in Members :
             /\ pc[r] \notin Working => part[r][m] = "unread"
             /\ pc[r] \in {"read", "flush"} => part[r][m] # "published"
             /\ pc[r] = "read" /\ ~Batched => part[r][m] \notin {"sealed", "lost"}
             /\ pc[r] = "publish" => part[r][m] \in {"safe", "published"}
             /\ pc[r] = "record" => part[r][m] = "published"
             /\ part[r][m] = "published" => Stored(reads[r], m)

\* Whoever works has a folder that nobody takes for abandoned
FoldersHeld ==
    \A r \in Runs :
        pc[r] \in Working \ {"record"} =>
            \/ folder[r].name = "lock" /\ folder[r].held
            \/ folder[r].name = "unlocked" /\ ~folder[r].old

ObjectsWhole == \A o \in objects : o.safe /\ o.tree # Refused

IInv == TypeOK /\ PartsInStep /\ FoldersHeld /\ ObjectsWhole /\ RecordedIsWhole /\ StagedStays
=============================================================================
