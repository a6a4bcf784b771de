----------------------------- MODULE ProjectHold -----------------------------
(***************************************************************************)
(* How one command at a time comes to change a project (project.rs): an OS *)
(* lock on .fetchloom/lock, then the owner record .fetchloom/owner, which  *)
(* is what keeps windows and WSL apart, since they share the folder but    *)
(* not each other's OS locks.                                              *)
(*                                                                         *)
(* The record is published under its name in one step by a hardlink.       *)
(* Where the file system has none, an empty file reserves the name first.  *)
(* A record left by a killed command is removed by whoever finds it stale. *)
(***************************************************************************)
EXTENDS Naturals, FiniteSets

CONSTANTS
    Procs,      \* commands that change the project
    OsOf,       \* the operating system each runs on
    LockingOses,\* the systems whose OS locks work in the project's folder
    Hardlinks,  \* whether the folder's file system has hardlinks
    Stalls,     \* whether a living command may leave its reservation empty for 10 s
    Deletes,    \* whether a person deletes the record of a command that is gone
    None

Oses == {OsOf[p] : p \in Procs}

ASSUME HoldAssumption ==
    /\ None \notin Procs /\ None \notin [by : Procs, empty : BOOLEAN, old : BOOLEAN]
    /\ LockingOses \subseteq Oses
    /\ Hardlinks \in BOOLEAN /\ Stalls \in BOOLEAN /\ Deletes \in BOOLEAN

VARIABLES
    pc,
    osLock,     \* per operating system, who has the lock on .fetchloom/lock
    owner,      \* what .fetchloom/owner holds
    since,      \* what it held when a command began to claim it (its `now`)
    seen        \* the record a command read and judged

vars == <<pc, osLock, owner, since, seen>>

Labels == {"start", "publish", "fill", "read", "reread", "delete", "work", "drop",
           "unlock", "done", "dead"}
\* Between taking the OS lock and letting it go.
Active == Labels \ {"start", "done", "dead"}

\* A record of a command, or the empty file with which it reserves the name.
Record == [by : Procs, empty : BOOLEAN, old : BOOLEAN]
Full(p) == [by |-> p, empty |-> FALSE, old |-> FALSE]
Empty(p) == [by |-> p, empty |-> TRUE, old |-> FALSE]

Goto(p, label) == pc' = [pc EXCEPT ![p] = label]

Init ==
    /\ pc = [p \in Procs |-> "start"]
    /\ osLock = [os \in Oses |-> None]
    /\ owner = None
    /\ since = [p \in Procs |-> None]
    /\ seen = [p \in Procs |-> None]

(***************************************************************************)
(* hold_at.  A busy lock is asked for again later.                         *)
(***************************************************************************)
\* MUTANT of TakeLock: the OS lock is opened but not taken.
OpenLock(p) ==
    /\ pc[p] = "start"
    /\ since' = [since EXCEPT ![p] = owner]
    /\ Goto(p, "publish")
    /\ UNCHANGED <<osLock, owner, seen>>

TakeLock(p) ==
    /\ pc[p] = "start"
    /\ IF OsOf[p] \in LockingOses
       THEN osLock[OsOf[p]] = None /\ osLock' = [osLock EXCEPT ![OsOf[p]] = p]
       ELSE UNCHANGED osLock
    /\ since' = [since EXCEPT ![p] = owner]
    /\ Goto(p, "publish")
    /\ UNCHANGED <<owner, seen>>

(***************************************************************************)
(* publish_owner: hard_link and create_new both fail on an existing name.  *)
(***************************************************************************)
\* MUTANT of Publish: the record is renamed into place.
PublishOver(p) ==
    /\ pc[p] = "publish" /\ Hardlinks
    /\ owner' = Full(p) /\ Goto(p, "work")
    /\ UNCHANGED <<osLock, since, seen>>

Publish(p) ==
    /\ pc[p] = "publish" /\ Hardlinks
    /\ IF owner = None THEN owner' = Full(p) /\ Goto(p, "work")
       ELSE UNCHANGED owner /\ Goto(p, "read")
    /\ UNCHANGED <<osLock, since, seen>>

Reserve(p) ==
    /\ pc[p] = "publish" /\ ~Hardlinks
    /\ IF owner = None THEN owner' = Empty(p) /\ Goto(p, "fill")
       ELSE UNCHANGED owner /\ Goto(p, "read")
    /\ UNCHANGED <<osLock, since, seen>>

\* write_atomically renames the record over whatever has the name.
Fill(p) ==
    /\ pc[p] = "fill"
    /\ owner' = Full(p)
    /\ Goto(p, "work")
    /\ UNCHANGED <<osLock, since, seen>>

\* An error once the name is taken gives the claim up, and dropping it removes the record.
PublishFails(p) ==
    /\ pc[p] \in {"fill", "work"}
    /\ Goto(p, "drop")
    /\ UNCHANGED <<osLock, owner, since, seen>>

\* MUTANT of Stale: an empty record is never stale.
StaleWhenFull(p, rec) == ~rec.empty /\ OsOf[p] \in LockingOses /\ OsOf[rec.by] = OsOf[p]

\* An empty record is stale 10 s after it was made, counted back from the start of the
\* claim.  Any other is stale to a command of its system that has the OS lock.
Stale(p, rec) ==
    IF rec.empty THEN rec.old /\ since[p] = rec
    ELSE OsOf[p] \in LockingOses /\ OsOf[rec.by] = OsOf[p]

\* A record that is not stale is Hold::Owner: the lock is dropped and the command asks
\* again later.
Read(p) ==
    /\ pc[p] = "read"
    /\ IF owner = None THEN Goto(p, "publish") /\ UNCHANGED <<osLock, seen>>
       ELSE IF Stale(p, owner)
       THEN seen' = [seen EXCEPT ![p] = owner] /\ Goto(p, "reread") /\ UNCHANGED osLock
       ELSE /\ osLock' = [os \in Oses |-> IF osLock[os] = p THEN None ELSE osLock[os]]
            /\ Goto(p, "start")
            /\ UNCHANGED seen
    /\ UNCHANGED <<owner, since>>

\* remove_stale_owner reads the record again,
Reread(p) ==
    /\ pc[p] = "reread"
    /\ Goto(p, IF owner = seen[p] THEN "delete" ELSE "publish")
    /\ UNCHANGED <<osLock, owner, since, seen>>

\* and then removes whatever has its name by now.
Delete(p) ==
    /\ pc[p] = "delete"
    /\ owner' = None
    /\ Goto(p, "publish")
    /\ UNCHANGED <<osLock, since, seen>>

(***************************************************************************)
(* Held, dropped: the record goes before the OS lock.                      *)
(***************************************************************************)
Finish(p) ==
    /\ pc[p] = "work"
    /\ Goto(p, "drop")
    /\ UNCHANGED <<osLock, owner, since, seen>>

DropOwner(p) ==
    /\ pc[p] = "drop"
    /\ owner' = None
    /\ Goto(p, "unlock")
    /\ UNCHANGED <<osLock, since, seen>>

Unlock(p) ==
    /\ pc[p] = "unlock"
    /\ osLock' = [os \in Oses |-> IF osLock[os] = p THEN None ELSE osLock[os]]
    /\ Goto(p, "done")
    /\ UNCHANGED <<owner, since, seen>>

\* A killed command leaves its record.  The system drops its lock.
Crash(p) ==
    /\ pc[p] \in Active
    /\ osLock' = [os \in Oses |-> IF osLock[os] = p THEN None ELSE osLock[os]]
    /\ Goto(p, "dead")
    /\ UNCHANGED <<owner, since, seen>>

\* Ten seconds pass on an empty record.
Age ==
    /\ owner # None /\ owner.empty /\ ~owner.old
    /\ Stalls \/ pc[owner.by] = "dead"
    /\ owner' = [owner EXCEPT !.old = TRUE]
    /\ UNCHANGED <<pc, osLock, since, seen>>

\* "if that process is gone, delete" it.
DeleteByHand ==
    /\ Deletes /\ owner # None /\ pc[owner.by] = "dead"
    /\ owner' = None
    /\ UNCHANGED <<pc, osLock, since, seen>>

Step(p) ==
    \/ TakeLock(p) \/ Publish(p) \/ Reserve(p) \/ Fill(p) \/ Read(p) \/ Reread(p)
    \/ Delete(p) \/ Finish(p) \/ DropOwner(p) \/ Unlock(p)

Done == \A p \in Procs : pc[p] \in {"done", "dead"}

Next ==
    \/ \E p \in Procs : Step(p) \/ PublishFails(p) \/ Crash(p)
    \/ Age \/ DeleteByHand
    \/ Done /\ UNCHANGED vars

Spec == Init /\ [][Next]_vars

\* A waiting command asks again every 200 ms, a working one ends, and time passes.
Fairness == WF_vars(Age) /\ \A p \in Procs : WF_vars(Step(p))

FairSpec == Spec /\ Fairness

-----------------------------------------------------------------------------
TypeOK ==
    /\ pc \in [Procs -> Labels]
    /\ osLock \in [Oses -> Procs \union {None}]
    /\ owner \in Record \union {None}
    /\ since \in [Procs -> Record \union {None}]
    /\ seen \in [Procs -> Record \union {None}]

\* Two commands never change the project at once, whichever systems they run on and
\* whatever killed commands left behind (project.md: "two OS environments must not both
\* acquire it").
OneHolder == \A p, q \in Procs : pc[p] = "work" /\ pc[q] = "work" => p = q

\* While a command works, the record names it, so others wait for it and are told whom
\* they wait for: nobody reclaims, replaces or drops the record of a living holder.
HolderIsNamed == \A p \in Procs : pc[p] = "work" => owner = Full(p)

\* A command that waits gets its turn or ends, also behind records killed commands left.
EveryCommandEnds == \A p \in Procs : <>(pc[p] \in {"done", "dead"})

(***************************************************************************)
(* Why OneHolder holds where names are published by hardlinks, and, with   *)
(* reservations, among commands of one system whose locks work.            *)
(***************************************************************************)
OneSystem == \A p, q \in Procs : OsOf[p] = OsOf[q] /\ OsOf[p] \in LockingOses
Published == Hardlinks /\ ~Deletes

\* The OS lock is held exactly by the active command of a system that has locks.
LockInv ==
    /\ \A p \in Procs : OsOf[p] \in LockingOses => (pc[p] \in Active <=> osLock[OsOf[p]] = p)
    /\ \A os \in Oses : osLock[os] # None => os \in LockingOses /\ OsOf[osLock[os]] = os

\* The name is its publisher's from the moment it takes it, and a record about to be
\* removed as stale is still the one judged, left by a command that was killed.
OwnerInv ==
    /\ \A p \in Procs : pc[p] \in {"work", "drop"} => owner # None /\ owner.by = p
    /\ \A p \in Procs : pc[p] = "fill" => owner # None /\ owner.by = p
    /\ \A p \in Procs : pc[p] = "work" => owner = Full(p)
    /\ Hardlinks => /\ owner # None => ~owner.empty
                    /\ \A p \in Procs : pc[p] # "fill"
    /\ owner # None => pc[owner.by] \in {"fill", "work", "drop", "dead"}
    /\ \A p \in Procs : pc[p] \in {"reread", "delete"} =>
         /\ OsOf[p] \in LockingOses
         /\ Published => owner = seen[p] /\ owner # None /\ OsOf[owner.by] = OsOf[p]

IInv == TypeOK /\ LockInv /\ OwnerInv
=============================================================================
