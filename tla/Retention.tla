----------------------------- MODULE Retention -----------------------------
(***************************************************************************)
(* What the cache keeps for the projects of a machine (cache/upkeep.rs,    *)
(* cli/cache.rs, cache/held.rs, cli/sync/unpack.rs): an archive, the file  *)
(* it unpacks to, the record that says so, and projects that need one or   *)
(* the other.  `cache gc` frees what no registered project needs; a sync   *)
(* that unpacked the archive drops its bytes.                              *)
(*                                                                         *)
(* A sync runs for less than the grace, so nothing grows old while one     *)
(* runs.                                                                   *)
(***************************************************************************)
EXTENDS Naturals

CONSTANTS
    Projects,
    Gc,             \* the worker that runs `cache gc`
    Kinds(_),       \* what the data.lock of a project may ask for
    Locks,          \* whether the cache's file system has locks
    None

RetentionAssumption ==
    /\ Gc \notin Projects /\ None \notin {"plain", "packed", "tree"}
    /\ \A p \in Projects : Kinds(p) \subseteq {"plain", "packed", "tree"}

Workers == Projects \cup {Gc}
Items == {"archive", "member", "record"}

VARIABLES
    now,            \* whether gc is told --now, chosen once
    cache,          \* gone, fresh, old or bad: changed and marked so
    lock,           \* data.lock of each project
    reach,          \* whether its files are here, gone (unplugged) or broken
    registered,
    pc, job         \* where each run is, and what it knows

vars == <<now, cache, lock, reach, registered, pc, job>>
Files == <<now, lock, reach, registered>>

Good(item) == cache[item] \in {"fresh", "old"}
NoJob == [want |-> None, stored |-> {}, unpacked |-> FALSE,
          todo |-> {}, needed |-> {}, complete |-> TRUE, steady |-> {}]

-----------------------------------------------------------------------------
\* What a lock needs (add_with_stop)

Asks(kind) ==
    CASE kind = "plain"  -> {"member"}
      [] kind = "packed" -> {"archive"}
      [] kind = "tree"   -> {"record", "member"}

\* Mutant: an unpacked archive needs its files only
NeedsFiles(kind) ==
    IF kind = "tree" /\ cache["record"] = "gone" THEN {"archive"} ELSE Asks(kind)

\* An archive needs its own bytes while it has no record here, or lost a file
Needs(kind) ==
    IF kind # "tree" THEN Asks(kind)
    ELSE IF cache["record"] = "gone" THEN {"archive"}
    ELSE {"record", "member"} \cup IF Good("member") THEN {} ELSE {"archive"}

\* Whether the lock can be placed without the network
Served(kind) ==
    \/ \A item \in Asks(kind) : Good(item)
    \/ kind = "tree" /\ Good("archive")

-----------------------------------------------------------------------------
Goto(w, label) == pc' = [pc EXCEPT ![w] = label]
End(w) == Goto(w, "idle") /\ job' = [job EXCEPT ![w] = NoJob]
Holding(w) == pc[w] # "idle"

\* Cache::hold: a run holds the cache shared, gc alone; without locks nobody waits
MayHold(w) ==
    Locks => IF w = Gc THEN \A p \in Projects : ~Holding(p) ELSE ~Holding(Gc)

Init ==
    /\ now \in BOOLEAN
    /\ cache = [i \in Items |-> "gone"]
    /\ lock = [p \in Projects |-> None] /\ reach = [p \in Projects |-> "here"]
    /\ registered = {}
    /\ pc = [w \in Workers |-> "idle"] /\ job = [w \in Workers |-> NoJob]

-----------------------------------------------------------------------------
\* A sync

\* With the hold, relock decides what the new lock asks for
Hold(p) ==
    /\ ~Holding(p) /\ reach[p] = "here" /\ MayHold(p)
    /\ \E kind \in Kinds(p) : job' = [job EXCEPT ![p].want = kind]
    /\ Goto(p, "fetch")
    /\ UNCHANGED <<Files, cache>>

Store(p, items) ==
    /\ cache' = [i \in Items |-> IF i \in items THEN "fresh" ELSE cache[i]]
    /\ job' = [job EXCEPT ![p].stored = @ \cup items,
                          ![p].unpacked = @ \/ "record" \in items]

\* What the cache lacks is downloaded, an archive first, then unpacked
Fetch(p) ==
    /\ pc[p] = "fetch"
    /\ LET want == job[p].want IN
         IF \A item \in Asks(want) : Good(item)
         THEN Goto(p, "write") /\ UNCHANGED <<cache, job>>
         ELSE /\ UNCHANGED pc
              /\ Store(p, IF want # "tree" THEN Asks(want)
                          ELSE IF Good("archive") THEN {"record"} \cup
                                    IF Good("member") THEN {} ELSE {"member"}
                          ELSE {"archive"})
    /\ UNCHANGED Files

WriteLock(p) ==
    /\ pc[p] = "write" /\ Goto(p, "place")
    /\ lock' = [lock EXCEPT ![p] = job[p].want]
    /\ job' = [w \in Workers |-> [job[w] EXCEPT !.steady = @ \ {p}]]
    /\ UNCHANGED <<now, cache, reach, registered>>

\* A missing object ends the run; drop_unpacked has nothing to do when nothing was unpacked
Place(p) ==
    /\ pc[p] = "place"
    /\ IF \E item \in Asks(job[p].want) \ {"record"} : cache[item] = "gone" THEN End(p)
       ELSE IF job[p].unpacked
       THEN Goto(p, "read") /\ job' = [job EXCEPT ![p].todo = registered, ![p].steady = registered]
       ELSE Goto(p, "register") /\ UNCHANGED job
    /\ UNCHANGED <<Files, cache>>

\* register; a failure only warns
Register(p) ==
    /\ pc[p] = "register" /\ End(p)
    /\ registered' \in {registered, registered \cup {p}}
    /\ UNCHANGED <<now, cache, lock, reach>>

-----------------------------------------------------------------------------
\* needed_with, one registered project after another

StartGc ==
    /\ ~Holding(Gc) /\ MayHold(Gc)
    /\ job' = [job EXCEPT ![Gc].todo = registered, ![Gc].steady = registered]
    /\ Goto(Gc, "read")
    /\ UNCHANGED <<Files, cache>>

Judging(w) == pc[w] = "read"

\* A project out of reach hides what it needs
Skip(w, p) == job' = [job EXCEPT ![w].todo = @ \ {p}, ![w].complete = FALSE]

\* A missing manifest: gc forgets the project, a sync keeps every archive
ReadGone(w) ==
    /\ Judging(w)
    /\ \E p \in job[w].todo :
         /\ reach[p] = "gone"
         /\ IF w = Gc
            THEN registered' = registered \ {p}
                 /\ job' = [job EXCEPT ![w].todo = @ \ {p}, ![w].steady = @ \ {p}]
            ELSE Skip(w, p) /\ UNCHANGED registered
    /\ UNCHANGED <<now, cache, lock, reach, pc>>

ReadProject(w) ==
    /\ Judging(w)
    /\ \E p \in job[w].todo :
         /\ reach[p] = "here"
         /\ job' = [job EXCEPT ![w].todo = @ \ {p},
                               ![w].needed = @ \cup IF lock[p] = None THEN {} ELSE Needs(lock[p])]
    /\ UNCHANGED <<Files, cache, pc>>

\* An unreadable manifest or lock: the cache stays as it is
ReadBroken(w) ==
    /\ Judging(w) /\ \E p \in job[w].todo : reach[p] = "broken"
    /\ IF w = Gc THEN End(w) ELSE Goto(w, "register") /\ UNCHANGED job
    /\ UNCHANGED <<Files, cache>>

\* The run's own lock counts too
Judged(w) ==
    /\ Judging(w) /\ job[w].todo = {}
    /\ \/ w = Gc /\ Goto(w, "objects") /\ UNCHANGED job
       \/ /\ w # Gc /\ job[w].complete /\ Goto(w, "drop")
          /\ job' = [job EXCEPT ![w].needed = @ \cup Needs(job[w].want)]
       \/ w # Gc /\ ~job[w].complete /\ Goto(w, "register") /\ UNCHANGED job
    /\ UNCHANGED <<Files, cache>>

\* drop_archives; a failure only costs disk
Drop(p) ==
    /\ pc[p] = "drop" /\ Goto(p, "register")
    /\ \/ "archive" \notin job[p].needed /\ cache' = [cache EXCEPT !["archive"] = "gone"]
       \/ UNCHANGED cache
    /\ UNCHANGED <<Files, job>>

\* What a sweep frees; a bad object keeps the time it had
Unused(item) == cache[item] # "gone" /\ (now \/ cache[item] # "fresh")

\* A refused removal leaves the item, and the sweep goes on
Remove(items) ==
    \E left \in SUBSET items :
      cache' = [i \in Items |-> IF i \in items \ left THEN "gone" ELSE cache[i]]

SweepObjects ==
    /\ pc[Gc] = "objects" /\ Goto(Gc, "records")
    /\ Remove({i \in {"archive", "member"} \ job[Gc].needed : Unused(i)})
    /\ UNCHANGED <<Files, job>>

SweepRecords ==
    /\ pc[Gc] = "records" /\ End(Gc)
    /\ Remove({i \in {"record"} \ job[Gc].needed : Unused(i)})
    /\ UNCHANGED Files

-----------------------------------------------------------------------------
\* Kills, drives, people, and a day that passes

Kill(w) == Holding(w) /\ End(w) /\ UNCHANGED <<Files, cache>>

Reach(p) ==
    /\ ~Holding(p)
    /\ \E r \in {"here", "gone", "broken"} \ {reach[p]} : reach' = [reach EXCEPT ![p] = r]
    /\ UNCHANGED <<now, cache, lock, registered, pc, job>>

Age ==
    /\ \A p \in Projects : ~Holding(p)
    /\ \E i \in Items :
         /\ cache[i] = "fresh"
         /\ cache' = [cache EXCEPT ![i] = "old"]
    /\ UNCHANGED <<Files, pc, job>>

\* The file changes and a run marks it, not while a run judges by its bytes
Damage ==
    /\ cache["member"] = "old" /\ \A w \in Workers : pc[w] \in {"idle", "register"}
    /\ cache' = [cache EXCEPT !["member"] = "bad"]
    /\ UNCHANGED <<Files, pc, job>>

Next ==
    \/ \E p \in Projects :
         Hold(p) \/ Fetch(p) \/ WriteLock(p) \/ Place(p) \/ Register(p) \/ Drop(p) \/ Reach(p)
    \/ \E w \in Workers : ReadGone(w) \/ ReadProject(w) \/ ReadBroken(w) \/ Judged(w) \/ Kill(w)
    \/ StartGc \/ SweepObjects \/ SweepRecords \/ Age \/ Damage

Spec == Init /\ [][Next]_vars

-----------------------------------------------------------------------------
\* What a sync found or stored, other than an archive, is in the cache until it has placed it:
\* gc does not run meanwhile, and on a file system without locks the grace covers what the
\* sync itself stored (Cache::hold, sweep_with_stop).
FoundStays ==
    \A p \in Projects : pc[p] \in {"write", "place"} =>
      \A item \in Asks(job[p].want) \ {"archive"} :
        \/ cache[item] # "gone"
        \/ ~Locks /\ (now \/ item \notin job[p].stored)

\* Neither gc nor a sync that drops its archive takes from a registered project what placing
\* its data.lock needs, unless that lock is replaced while it is read; a project on a drive
\* that is not plugged in loses nothing to a sync (needed_with, add_with_stop, drop_archives).
KeepsNeeded ==
    \A w \in Workers : pc[w] \in {"drop", "objects", "records"} /\ pc'[w] # pc[w] =>
      \A p \in registered \cap job[w].steady :
        lock[p] # None /\ Served(lock[p]) => Served(lock[p])'
KeptForProjects == Locks => [][KeepsNeeded]_vars

-----------------------------------------------------------------------------
(***************************************************************************)
(* Why it does.                                                            *)
(***************************************************************************)
Pinned == {"plain", "packed", "tree", None}
SyncLabels == {"idle", "fetch", "write", "place", "register", "read", "drop"}
GcLabels == {"idle", "read", "objects", "records"}

JobsFor(ps) ==
    [want : Pinned, stored : SUBSET Items, unpacked : BOOLEAN,
     todo : SUBSET ps, needed : SUBSET Items, complete : BOOLEAN, steady : SUBSET ps]

FilesTyped(ps) ==
    /\ now \in BOOLEAN
    /\ cache \in [Items -> {"gone", "fresh", "old", "bad"}] /\ cache["record"] # "bad"
    /\ lock \in [ps -> Pinned] /\ reach \in [ps -> {"here", "gone", "broken"}]
    /\ registered \subseteq ps

\* A project that rests has stored nothing, one that syncs wants something
RunsTyped(ps) ==
    /\ pc \in [ps \cup {Gc} -> SyncLabels \cup GcLabels]
    /\ job \in [ps \cup {Gc} -> JobsFor(ps)]
    /\ pc[Gc] \in GcLabels
    /\ \A p \in ps : /\ pc[p] \in SyncLabels
                     /\ IF pc[p] = "idle" THEN job[p].stored = {} ELSE job[p].want # None

TypeOK == FilesTyped(Projects) /\ RunsTyped(Projects)

GcAlone == Holding(Gc) => \A p \in Projects : ~Holding(p)

\* gc knows all that the projects it has read need
GcKnows ==
    /\ pc[Gc] \in {"read", "objects"} =>
         \A p \in job[Gc].steady \ job[Gc].todo :
            lock[p] # None => Needs(lock[p]) \subseteq job[Gc].needed
    /\ pc[Gc] \in {"objects", "records"} => job[Gc].todo = {}
    /\ pc[Gc] = "records" =>
         \A p \in job[Gc].steady :
            lock[p] = "tree" => cache["record"] = "gone" \/ "record" \in job[Gc].needed

\* A sync that drops the archive leaves p what it needs
Spares(w, p) ==
    /\ lock[p] = "packed" => "archive" \in job[w].needed
    /\ lock[p] = "tree" => \/ "archive" \in job[w].needed
                           \/ cache["record"] # "gone" /\ Good("member")

SyncsKnow ==
    \A w \in Projects :
        /\ pc[w] \in {"read", "drop"} /\ job[w].complete =>
             \A p \in job[w].steady \ job[w].todo : Spares(w, p)
        /\ pc[w] = "drop" => job[w].todo = {} /\ job[w].complete

LockedInv == TypeOK /\ GcAlone /\ FoundStays /\ GcKnows /\ SyncsKnow

\* Without locks, what a sync stored stays fresh until it ends
StoredIsFresh ==
    \A p \in Projects : ~now =>
        \A item \in job[p].stored \ {"archive"} : cache[item] = "fresh"

UnlockedInv == TypeOK /\ StoredIsFresh
=============================================================================
