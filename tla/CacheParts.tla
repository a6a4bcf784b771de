----------------------------- MODULE CacheParts -----------------------------
(***************************************************************************)
(* The parts of the cache whose promises are proved, side by side: change  *)
(* marks, unpacking, the swapping of objects, the linking of files, the    *)
(* hash of a download, what gc keeps, the commands that fill it, and what  *)
(* archives unpack to.  A behaviour is one of a part, over the variables   *)
(* it uses here.                                                           *)
(***************************************************************************)
EXTENDS Naturals

CONSTANTS
    Sharers,    \* the processes that share the cache,
    Owner,      \* the one of them that syncs the project,
    Dropper,    \* and one that drops objects
    LastTime,   \* bounds the clock of ChangeMarks
    GoodTree, ChangedTree, RefusedTree, MostParts,      \* what archives hold
    Volumes,    \* of Swapping
    Orders, Drives, Cases,      \* of Linking
    KindsOf(_),                 \* what the data.lock of each project may ask for
    FileSize, BufferSize, BatchSize, QueueSize, Hole,   \* of HashPipe
    Datasets, Asked, AtFirst, LastVersion, Clashing, MostIncidents, Absent, Partial,    \* of Commands
    Spellings, Nfc, Fold, Unsafe, MostEntries, MostBytes, MostNames,        \* of Members
    Ratio, RatioFloor, HeadersCap, Compressed,
    Nobody      \* also nothing

VARIABLES
    component,
    pc, job, now, record, pending, lock, known,         \* shared by several
    up, object, link, shared, mark,                     \* ChangeMarks
    archive, pinned, objects, folder, part, reads,      \* Unpacking
    drive, kind, canReflink, canHardlink, otherVolume, probed, result, unlucky, \* Linking
    disk, prefix, runs, gathered, out, queue, sum, worker, reply, stored,       \* HashPipe
    cache, reach, registered,                           \* Retention
    toml, files, upstream, step, run, said, disturbed, incidents, head,         \* Commands
    format, seen, names, kept, entries, written, skipped, headers, compressed   \* Members

C == INSTANCE ChangeMarks WITH Workers <- Sharers, Last <- LastTime, None <- Nobody

U == INSTANCE Unpacking WITH Runs <- Sharers, Locks <- TRUE, Batched <- TRUE,
        Good <- GoodTree, Changed <- ChangedTree, Refused <- RefusedTree, Parts <- MostParts,
        None <- Nobody
UU == INSTANCE Unpacking WITH Runs <- Sharers, Locks <- FALSE, Batched <- FALSE,
        Good <- GoodTree, Changed <- ChangedTree, Refused <- RefusedTree, Parts <- MostParts,
        None <- Nobody

S == INSTANCE Swapping WITH
        volume <- job, placed <- link, source <- record, found <- now, sealed <- pending,
        handle <- lock, dropped <- known, killed <- up,
        Writers <- Sharers

N == INSTANCE Linking WITH Unset <- Nobody

H == INSTANCE HashPipe WITH Size <- FileSize, Buffer <- BufferSize, Batch <- BatchSize,
        Queued <- QueueSize, None <- Nobody

R == INSTANCE Retention WITH Projects <- Sharers, Gc <- Dropper, Kinds <- KindsOf, Locks <- TRUE,
        None <- Nobody
RU == INSTANCE Retention WITH Projects <- Sharers \ {Owner}, Gc <- Dropper, Kinds <- KindsOf,
        Locks <- FALSE, None <- Nobody

\* One of the commands' processes runs `path`, or all commands are of one process.
K == INSTANCE Commands WITH Procs <- Sharers, Jobs <- Sharers \ {Owner}, Asks <- Asked,
        Heads <- AtFirst, Last <- LastVersion, Most <- MostIncidents, None <- Nobody
KA == INSTANCE Commands WITH Procs <- {Owner}, Jobs <- {}, Asks <- Asked,
        Heads <- AtFirst \ {Absent}, Last <- LastVersion, Most <- MostIncidents + 1, None <- Nobody

M == INSTANCE Members

\* Which part a behaviour is one of does not change.
IsOf(name) == component = name /\ [][UNCHANGED component]_component

-----------------------------------------------------------------------------
\* ChangeMarks: a damaged object that was found so stays in doubt until it is replaced, and a
\* project whose file is the damaged object itself notices it when it syncs.
DamageIsNoticed == component = "marks" => C!DamageIsNoticed

\* Unpacking: a recorded tree has all its members in the cache, and is the one the lock pins; and
\* no run's staged members go while it works with them.
UnpackedIsWhole ==
    /\ component = "locked unpacking" => U!UnpackedIsWhole
    /\ component = "unlocked unpacking" => UU!UnpackedIsWhole

\* Swapping: whoever says it stored an object did, the name of an object is never empty where
\* volumes link, and files keep their read-only flag, whoever races whom.
sealing == S!vars
ObjectsStaySealed ==
    [][component = "swapping" => S!NeverEmpty /\ S!StoredIsThere' /\ S!FlagsReturn']_sealing

\* Linking: files are copied only for a reason of their own or of the drive, which is told, and
\* never linked where a link would break or let the object be written.
LinkedOrTold == component = "linking" => N!LinkedOrTold

\* HashPipe: a saved prefix is on the disk and its hash is that of its bytes, and a finished file
\* is stored under the hash of what the disk holds.
HashedAsWritten == component = "hashing" => H!RecordCovers /\ H!StoredUnderItsHash

\* Retention: gc takes nothing from under a run that found it, and keeps what the data.lock of a
\* registered project it can read needs.
retaining == R!vars
GcKeepsWhatIsNeeded ==
    [][/\ component = "locked retention" => R!FoundStays' /\ R!KeepsNeeded
       /\ component = "unlocked retention" => RU!FoundStays']_retaining

\* Commands: a sync that says the project is synced is right, whatever failed or changed before.
commanding == K!vars
SuccessInSync ==
    [][/\ component = "commands" => K!SuccessInSync
       /\ component = "one command" => KA!SuccessInSync]_commanding

\* Commands: what data.lock pins moves only when its ref changes or an upgrade is asked for, and
\* `sync --locked` never changes data.lock.
LockMovesWhenAsked ==
    [][/\ component = "commands" => K!PinsStay /\ K!LockedKeepsLock
       /\ component = "one command" => KA!PinsStay /\ KA!LockedKeepsLock]_commanding

\* Commands: an add whose sync fails leaves data.toml and data.lock as it found them, or says that
\* it could not; one that fails after its sync keeps all of it.
FailedAddUndone ==
    [][/\ component = "commands" => K!FailedAddUndone
       /\ component = "one command" => KA!FailedAddUndone]_commanding

\* Members: what an archive unpacks to can be stored on any disk, one file for each name, and no
\* archive fills the disk or keeps the decompressor busy for nothing.
UnpacksWithinLimits == component = "members" => M!MembersFit /\ M!StaysInProportion
=============================================================================
