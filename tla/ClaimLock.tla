------------------------------ MODULE ClaimLock ------------------------------
(***************************************************************************)
(* The claim on one link's unfinished download (cache/partial.rs), the gc  *)
(* that removes abandoned downloads with their lock files                  *)
(* (cache/upkeep.rs), and the cache-wide lock both hold (cache/held.rs).   *)
(*                                                                         *)
(* A lock belongs to an open file, not to a name.  gc removes lock files,  *)
(* so a claim is worth something only while its path names the file that   *)
(* was locked.  `named` is that file; a claimer opens it, locks it and     *)
(* then asks whether the path still names it.                              *)
(***************************************************************************)
EXTENDS Naturals, FiniteSets

CONSTANTS
    Claimers,   \* downloads of the link, each in a run of its own
    Sweepers,   \* runs of cache gc
    Files,      \* the lock files that ever exist
    None,
    GcLock      \* whether the file system locks gc.lock (hold leaves a cache unheld if not)

Procs == Claimers \union Sweepers

ASSUME ProcsAssumption ==
    /\ Claimers \intersect Sweepers = {} /\ None \notin Procs /\ None \notin Files
    /\ GcLock \in BOOLEAN
\* Without gc.lock nothing keeps two gcs apart, and their removals would race.
ASSUME OneGc == GcLock \/ \A r, s \in Sweepers : r = s

VARIABLES
    pc,
    named,      \* the lock file the path names
    opened,     \* the lock file each process has open
    locked,     \* who holds the lock on each file
    held,       \* who holds gc.lock, shared (claimers) or exclusive (gc)
    bytes       \* the partial file: missing, written lately, or not for a day

vars == <<pc, named, opened, locked, held, bytes>>

ClaimerLabels == {"start", "open", "lock", "check", "owned", "private", "dying", "end"}
SweeperLabels == {"start", "open", "lock", "judge", "remove", "unlink", "dying", "end"}

\* Where a process has the lock on the file it opened.
Locking == {"check", "owned", "judge", "remove", "unlink"}

Goto(p, label) == pc' = [pc EXCEPT ![p] = label]

Init ==
    /\ pc = [p \in Procs |-> "start"]
    /\ named \in Files \union {None}
    /\ opened = [p \in Procs |-> None]
    /\ locked = [f \in Files |-> None]
    /\ held = {}
    /\ bytes \in {"none", "fresh", "old"}

-----------------------------------------------------------------------------
(***************************************************************************)
(* Cache::hold: runs share the cache, gc has it alone.                     *)
(***************************************************************************)
Hold(p) ==
    /\ pc[p] = "start"
    /\ GcLock => IF p \in Sweepers THEN held = {} ELSE held \intersect Sweepers = {}
    /\ held' = IF GcLock THEN held \union {p} ELSE held
    /\ Goto(p, "open")
    /\ UNCHANGED <<named, opened, locked, bytes>>

(***************************************************************************)
(* Cache::claim and take_lock                                              *)
(***************************************************************************)
\* open_unfollowed(path, true): the file the path names, made when there is none.
OpenClaim(c) ==
    /\ pc[c] = "open"
    /\ \E f \in Files :
         /\ IF named # None THEN f = named ELSE \A p \in Procs : opened[p] # f
         /\ named' = f
         /\ opened' = [opened EXCEPT ![c] = f]
    /\ Goto(c, "lock")
    /\ UNCHANGED <<locked, held, bytes>>

\* WouldBlock is Claim::Busy; the file is closed and the download asks again later.
TryClaim(c) ==
    /\ pc[c] = "lock"
    /\ IF locked[opened[c]] = None
       THEN /\ locked' = [locked EXCEPT ![opened[c]] = c]
            /\ Goto(c, "check")
            /\ UNCHANGED opened
       ELSE /\ opened' = [opened EXCEPT ![c] = None]
            /\ Goto(c, "open")
            /\ UNCHANGED locked
    /\ UNCHANGED <<named, held, bytes>>

Unlocked(p) == [f \in Files |-> IF locked[f] = p THEN None ELSE locked[f]]

\* MUTANT of CheckName: whatever file was locked is the claim.
TrustLock(c) ==
    /\ pc[c] = "check"
    /\ Goto(c, "owned")
    /\ UNCHANGED <<named, opened, locked, held, bytes>>

\* names(): the locked file must be the one the path names, or the path is opened again.
\* Opening it drops the file locked before.
CheckName(c) ==
    /\ pc[c] = "check"
    /\ IF named = opened[c]
       THEN Goto(c, "owned") /\ UNCHANGED <<opened, locked>>
       ELSE /\ opened' = [opened EXCEPT ![c] = None]
            /\ locked' = Unlocked(c)
            /\ Goto(c, "open")
    /\ UNCHANGED <<named, held, bytes>>

\* Any other error counts as having no locks: the download gets a private file.
GoPrivate(c) ==
    /\ pc[c] \in {"lock", "check"}
    /\ opened' = [opened EXCEPT ![c] = None]
    /\ locked' = Unlocked(c)
    /\ Goto(c, "private")
    /\ UNCHANGED <<named, held, bytes>>

\* The owner writes what arrives, and takes the bytes away under their hash at the end.
Write(c) ==
    /\ pc[c] = "owned" /\ bytes' = "fresh"
    /\ UNCHANGED <<pc, named, opened, locked, held>>

Store(c) ==
    /\ pc[c] = "owned" /\ bytes = "fresh"
    /\ bytes' = "none"
    /\ Goto(c, "dying")
    /\ UNCHANGED <<named, opened, locked, held>>

-----------------------------------------------------------------------------
(***************************************************************************)
(* sweep_partials                                                          *)
(***************************************************************************)
OpenSweep(s) ==
    /\ pc[s] = "open"
    /\ IF named = None THEN Goto(s, "dying") /\ UNCHANGED opened
       ELSE Goto(s, "lock") /\ opened' = [opened EXCEPT ![s] = named]
    /\ UNCHANGED <<named, locked, held, bytes>>

\* MUTANT of TrySweep: a lock held elsewhere does not stop the sweep.
SweepUnlocked(s) ==
    /\ pc[s] = "lock"
    /\ Goto(s, "judge")
    /\ UNCHANGED <<named, opened, locked, held, bytes>>

TrySweep(s) ==
    /\ pc[s] = "lock"
    /\ IF locked[opened[s]] = None
       THEN locked' = [locked EXCEPT ![opened[s]] = s] /\ Goto(s, "judge")
       ELSE UNCHANGED locked /\ Goto(s, "dying")
    /\ UNCHANGED <<named, opened, held, bytes>>

\* Only what is missing or was not written for a day is abandoned.
Judge(s) ==
    /\ pc[s] = "judge"
    /\ Goto(s, IF bytes = "fresh" THEN "dying" ELSE "remove")
    /\ UNCHANGED <<named, opened, locked, held, bytes>>

\* The download and its record go, or stay when the disk refuses.
RemoveBytes(s) ==
    /\ pc[s] = "remove"
    /\ bytes' \in {"none", bytes}
    /\ Goto(s, "unlink")
    /\ UNCHANGED <<named, opened, locked, held>>

\* The lock file goes by its path while its lock is held.
Unlink(s) ==
    /\ pc[s] = "unlink"
    /\ named' \in {None, named}
    /\ Goto(s, "dying")
    /\ UNCHANGED <<opened, locked, held, bytes>>

-----------------------------------------------------------------------------
\* A run ends, is stopped or killed at any point.  Its files close in any order.
Die(p) ==
    /\ pc[p] \notin {"start", "dying", "end"}
    /\ Goto(p, "dying")
    /\ UNCHANGED <<named, opened, locked, held, bytes>>

CloseLock(p) ==
    /\ pc[p] = "dying" /\ opened[p] # None
    /\ opened' = [opened EXCEPT ![p] = None]
    /\ locked' = Unlocked(p)
    /\ UNCHANGED <<pc, named, held, bytes>>

CloseHold(p) ==
    /\ pc[p] = "dying" /\ p \in held
    /\ held' = held \ {p}
    /\ UNCHANGED <<pc, named, opened, locked, bytes>>

End(p) ==
    /\ pc[p] = "dying" /\ opened[p] = None /\ p \notin held
    /\ Goto(p, "end")
    /\ UNCHANGED <<named, opened, locked, held, bytes>>

\* A day passes without a write.
Age ==
    /\ bytes = "fresh" /\ bytes' = "old"
    /\ UNCHANGED <<pc, named, opened, locked, held>>

Run(c) ==
    \/ Hold(c) \/ OpenClaim(c) \/ TryClaim(c) \/ CheckName(c) \/ GoPrivate(c)
    \/ Write(c) \/ Store(c)

Gc(s) ==
    Hold(s) \/ OpenSweep(s) \/ TrySweep(s) \/ Judge(s) \/ RemoveBytes(s) \/ Unlink(s)

Exit(p) == Die(p) \/ CloseLock(p) \/ CloseHold(p) \/ End(p)

Done == \A p \in Procs : pc[p] = "end"

Next ==
    \/ \E c \in Claimers : Run(c) \/ Exit(c)
    \/ \E s \in Sweepers : Gc(s) \/ Exit(s)
    \/ Age
    \/ Done /\ UNCHANGED vars

Spec == Init /\ [][Next]_vars

\* Every process keeps running, polls again when the lock was busy, and ends at last.
Fairness ==
    /\ \A c \in Claimers :
         /\ WF_vars(Hold(c) \/ OpenClaim(c) \/ TryClaim(c) \/ CheckName(c))
         /\ WF_vars(pc[c] \in {"owned", "private"} /\ Die(c))
         /\ WF_vars(CloseLock(c) \/ CloseHold(c) \/ End(c))
    /\ \A s \in Sweepers : WF_vars(Gc(s) \/ CloseLock(s) \/ CloseHold(s) \/ End(s))

FairSpec == Spec /\ Fairness

-----------------------------------------------------------------------------
TypeOK ==
    /\ pc \in [Procs -> ClaimerLabels \union SweeperLabels]
    /\ \A c \in Claimers : pc[c] \in ClaimerLabels
    /\ \A s \in Sweepers : pc[s] \in SweeperLabels
    /\ named \in Files \union {None}
    /\ opened \in [Procs -> Files \union {None}]
    /\ locked \in [Files -> Procs \union {None}]
    /\ held \subseteq Procs
    /\ bytes \in {"none", "fresh", "old"}

\* Two downloads never both own a link's partial file, although gc removes lock files
\* that others have open or are about to lock (take_lock: "a lock on a file with no name
\* keeps nobody out").
OneOwner ==
    \A c, d \in Claimers : pc[c] = "owned" /\ pc[d] = "owned" => c = d

\* gc never takes the bytes of a download that somebody owns, however long its owner has
\* been silent (sweep_partials removes "while holding each lock").
OwnedBytesStay ==
    [][(\E c \in Claimers : pc[c] = "owned" /\ pc'[c] = "owned") => (bytes' = "none" => bytes = "none")]_vars

\* A download whose link another one holds gets its turn, or ends: polling is not undone
\* by gc removing the lock file again and again.
EveryClaimEnds == \A c \in Claimers : <>(pc[c] = "end")

\* The lock file of an owner still has its name, and the lock file gc works on too: what
\* makes OneOwner hold.
NamedInv ==
    /\ \A c \in Claimers : pc[c] = "owned" => named = opened[c]
    /\ \A s \in Sweepers : pc[s] \in {"lock", "judge", "remove", "unlink"} => named = opened[s]

\* Exactly the processes that locked the file they opened hold its lock.
LockInv ==
    /\ \A p \in Procs : pc[p] \in Locking => opened[p] # None /\ locked[opened[p]] = p
    /\ \A p \in Procs : pc[p] = "lock" => opened[p] # None /\ locked[opened[p]] # p
    /\ \A p \in Procs : pc[p] \in {"start", "open", "private", "end"} => opened[p] = None
    /\ \A f \in Files : locked[f] # None => opened[locked[f]] = f

\* gc.lock is shared by runs and exclusive to one gc.
HeldInv ==
    /\ GcLock => \A p \in Procs : pc[p] \notin {"start", "dying", "end"} => p \in held
    /\ \A s \in Sweepers : s \in held => held = {s}
    /\ \A p \in Procs : pc[p] \in {"start", "end"} => p \notin held

IInv == TypeOK /\ LockInv /\ HeldInv /\ NamedInv
=============================================================================
