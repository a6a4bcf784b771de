------------------------------ MODULE Commands ------------------------------
(***************************************************************************)
(* The commands of one project and the files they keep (cli/project.rs,    *)
(* cli/sync.rs, cli/sync/draft.rs): `add`, `remove`, `sync`, `sync         *)
(* --locked`, `lock`, `lock --upgrade` and `path`, each failing or killed  *)
(* at any step, while a person edits data.toml, restores either file from  *)
(* git, deletes placed files, and the sources release new versions.        *)
(*                                                                         *)
(* What the project hold is made of is ProjectHold's; here it lets one     *)
(* command in at a time.  How files are placed is Placing's; here it is    *)
(* one step that may stop half way.  Two texts of a file are equal when    *)
(* they say the same, so the settled shortcut is taken at least as often   *)
(* as in the program.                                                      *)
(***************************************************************************)
EXTENDS Naturals, FiniteSets

CONSTANTS
    Procs,      \* processes that run one command after another
    Jobs,       \* those of them that run `path`, as the jobs of a cluster do
    Datasets,   \* names of datasets
    Asks,       \* what data.toml may say of each: a ref, and whether all files are wanted
    Heads,      \* the data.toml a project may have at first
    Last,       \* the last version the sources release
    Clashing,   \* the versions whose files cannot all land
    Most,       \* how many incidents there are: failures, kills, edits, releases
    Absent,     \* no such file
    None,
    Partial     \* a part of a dataset's files

VARIABLES
    toml, lock,     \* data.toml and data.lock: Absent, or what they say of each dataset
    files,          \* what the data folder has of each dataset: a pin's files, None, or Partial
    known,          \* the datasets whose files, as far as they are there, the state records
    record,         \* what the state recorded as synced
    upstream,       \* the version the sources serve
    step, run,      \* where each command is, and what it knows
    said,           \* how the command ended whose end was the last step, if it was one
    disturbed,      \* the commands since whose first read a person changed something
    incidents,
    head            \* data.toml and data.lock as git has them

vars == <<toml, lock, files, known, record, upstream, step, run, said, disturbed, incidents, head>>
project == <<toml, lock, files, known, record>>
world == <<upstream, head>>

Versions == 1 .. Last
Pins == [ask : UNION {Asks[d] : d \in Datasets}, version : Versions]
Nothing == [d \in Datasets |-> None]
NoRecord == [toml |-> Absent, lock |-> Absent, complete |-> FALSE, files |-> Nothing]
NoRun == [cmd |-> None]

Locked(pins) == IF pins = Absent THEN Nothing ELSE pins
Listed(asked) == IF asked = Absent THEN Nothing ELSE asked

-----------------------------------------------------------------------------
(***************************************************************************)
(* data.lock against data.toml.                                            *)
(***************************************************************************)
\* check: a dataset missing, changed or no longer asked for
Stale(asked, pins) ==
    \E d \in Datasets :
        IF asked[d] = None THEN pins[d] # None ELSE pins[d] = None \/ pins[d].ask # asked[d]

\* Mutant: what data.lock pinned is no reason to ask for it again
PinnedNewest(ask, previous, upgrading) == upstream

\* pinned, and what Draft carries over: the version a changed dataset is resolved to
Pinned(ask, previous, upgrading) ==
    IF previous # None /\ ~upgrading /\ previous.ask.ref = ask.ref
    THEN previous.version ELSE upstream

Keeps(ask, previous, upgrading) == previous # None /\ previous.ask = ask /\ ~upgrading

\* The dataset add resolved before it asks for it: the listing it was given, but a link that
\* data.lock still has, without an entry in data.toml, keeps its pin.
Given(r, previous) ==
    {r.listing} \cup
        IF previous # None /\ previous.ask.ref = r.ask.ref THEN {previous.version} ELSE {}

\* relock: the locks that may come of it
Relocked(r, asked, pins) ==
    LET version(d) ==
            IF asked[d] = None THEN {None}
            ELSE IF Keeps(asked[d], pins[d], d \in r.upgrade) THEN {pins[d].version}
            ELSE IF r.cmd = "add" /\ d = r.name THEN Given(r, pins[d])
            ELSE {Pinned(asked[d], pins[d], d \in r.upgrade)}
        pin(d, v) == IF asked[d] = None THEN None ELSE [ask |-> asked[d], version |-> v]
    IN  {[d \in Datasets |-> pin(d, f[d])] :
            f \in {g \in [Datasets -> Versions \cup {None}] : \A d \in Datasets : g[d] \in version(d)}}

\* plan::from_cache: whether every file has a place of its own
Clash(asked, pins) ==
    \E d \in Datasets :
        /\ asked[d] # None /\ pins[d] # None
        /\ pins[d].ask.all /\ pins[d].version \in Clashing

\* What the data folder has once a lock is placed
Placed(asked, pins) == [d \in Datasets |-> IF asked[d] = None THEN None ELSE pins[d]]

\* ready: locked as asked, and every file in place as recorded
Fresh(asked, name) == lock # Absent /\ lock[name] # None /\ lock[name].ask = asked[name]
Ready(asked, name) == Fresh(asked, name) /\ name \in known /\ files[name] = lock[name]
Unready(asked, name) == Fresh(asked, name) /\ Clash(asked, lock)     \* an error

-----------------------------------------------------------------------------
(***************************************************************************)
(* A command, from its start to its first read of the project.             *)
(***************************************************************************)
Happens == incidents < Most /\ incidents' = incidents + 1

Holding(p) == step[p] \notin {"idle", "look", "wait"}
HoldFree == \A p \in Procs : ~Holding(p)

Goes(p, s) == step' = [step EXCEPT ![p] = s] /\ said' = None /\ UNCHANGED disturbed
Knows(p, r) == run' = [run EXCEPT ![p] = r]
Ends(p, how) ==
    /\ step' = [step EXCEPT ![p] = "idle"] /\ said' = how
    /\ Knows(p, NoRun) /\ disturbed' = disturbed \ {p}

Runs ==
    {[cmd |-> c, upgrade |-> {}, name |-> None] : c \in {"add", "sync", "locked", "lock"}}
    \cup {[cmd |-> "lock", upgrade |-> {d}, name |-> None] : d \in Datasets}
    \cup {[cmd |-> "remove", upgrade |-> {}, name |-> d] : d \in Datasets}

\* What a command refuses at its first read: a project or a dataset there is none of, and
\* `sync --locked` a lock out of date.
Refused(r) ==
    \/ r.cmd # "add" /\ toml = Absent
    \/ \E d \in (r.upgrade \cup {r.name}) \ {None} : Listed(toml)[d] = None
    \/ r.cmd = "locked" /\ (lock = Absent \/ Stale(Listed(toml), Locked(lock)))

First(cmd) ==
    CASE cmd = "add" -> "resolve"
      [] cmd = "remove" -> "toml"
      [] cmd \in {"sync", "locked"} -> "settle"
      [] cmd = "lock" -> "relock"
      [] cmd = "path" -> "ready"

\* The project as it is read
Begun(r) ==
    LET read == [toml |-> toml, lock |-> lock]
    IN  [cmd |-> r.cmd, upgrade |-> r.upgrade, name |-> r.name, ask |-> None, listing |-> None,
         pins |-> None, before |-> read, read |-> read]

\* A command takes the hold before it reads the project; while it waits it knows nothing.
Start(p) ==
    /\ p \notin Jobs /\ step[p] = "idle" /\ HoldFree
    /\ \E r \in Runs : ~Refused(r) /\ Knows(p, Begun(r)) /\ Goes(p, First(r.cmd))
    /\ UNCHANGED <<project, world>>

Path(p) ==
    /\ p \in Jobs /\ step[p] = "idle"
    /\ \E d \in Datasets : Knows(p, [cmd |-> "path", upgrade |-> {}, name |-> d])
    /\ Goes(p, "look")
    /\ UNCHANGED <<project, world>>

\* path asks without the hold first, and then waits for it.
LookFirst(p) ==
    LET r == run[p]
    IN  /\ step[p] = "look"
        /\ IF Refused(r) \/ Unready(Listed(toml), r.name) THEN Ends(p, "failed")
           ELSE IF Ready(Listed(toml), r.name) THEN Ends(p, "done")
           ELSE Goes(p, "wait") /\ UNCHANGED run
        /\ UNCHANGED <<project, world>>

Wait(p) ==
    /\ step[p] = "wait" /\ HoldFree
    /\ IF Refused(run[p]) THEN Ends(p, "failed")
       ELSE /\ Knows(p, Begun(run[p])) /\ step' = [step EXCEPT ![p] = "ready"] /\ said' = None
            /\ disturbed' = disturbed \ {p}
    /\ UNCHANGED <<project, world>>

\* ... and once it has the hold.
LookAgain(p) ==
    /\ step[p] = "ready"
    /\ IF Unready(Listed(run[p].read.toml), run[p].name) THEN Ends(p, "failed")
       ELSE IF Ready(Listed(run[p].read.toml), run[p].name) THEN Ends(p, "done")
       ELSE Goes(p, "relock") /\ UNCHANGED run
    /\ UNCHANGED <<project, world>>

\* resolve_add: the listing as it is served, and only then data.lock is read.
Resolved(r, d, a) ==
    [r EXCEPT !.name = d, !.ask = a, !.listing = upstream, !.read.lock = lock, !.before.lock = lock]

Present(r, a) == {d \in Datasets : Listed(r.read.toml)[d] # None /\ Listed(r.read.toml)[d].ref = a.ref}

Resolve(p) ==
    /\ step[p] = "resolve"
    /\ \E d \in Datasets : \E a \in Asks[d] :
         /\ Present(run[p], a) = {} /\ Listed(run[p].read.toml)[d] = None
         /\ Knows(p, Resolved(run[p], d, a)) /\ Goes(p, "toml")
    /\ UNCHANGED <<project, world>>

\* An add of a link that data.toml has syncs it as it is, and refuses other settings.
Again(p) ==
    /\ step[p] = "resolve"
    /\ \E d \in Datasets : \E a \in Asks[d] :
         /\ d \in Present(run[p], a)
         /\ IF Listed(run[p].read.toml)[d] = a
            THEN /\ Knows(p, [Resolved(run[p], None, None) EXCEPT !.cmd = "again"])
                 /\ Goes(p, "relock")
            ELSE Ends(p, "failed")
    /\ UNCHANGED <<project, world>>

-----------------------------------------------------------------------------
(***************************************************************************)
(* The steps that write.                                                   *)
(***************************************************************************)
\* A failed command ends, and an add whose sync failed puts both files back first.
Fallen(p) ==
    IF run[p].cmd = "add" /\ step[p] \notin {"resolve", "toml", "render"}
    THEN Goes(p, "restore toml") /\ UNCHANGED run ELSE Ends(p, "failed")

\* data.toml with the dataset, or without it, as the text read says the rest.
Updated(r) == [Listed(r.before.toml) EXCEPT ![r.name] = r.ask]

\* data.lock without a dataset that is removed
Without(r) == [Locked(r.before.lock) EXCEPT ![r.name] = None]

Refuses(p) ==
    /\ Fallen(p) /\ UNCHANGED <<project, world>>

WriteToml(p) ==
    /\ step[p] = "toml"
    /\ IF run[p].cmd = "remove" /\ Clash(Updated(run[p]), Without(run[p])) THEN Refuses(p)
       ELSE /\ toml' = Updated(run[p])
            /\ Knows(p, [run[p] EXCEPT !.read.toml = Updated(run[p])])
            /\ Goes(p, IF run[p].cmd = "remove" THEN "drop" ELSE "relock")
            /\ UNCHANGED <<lock, files, known, record, world>>

\* remove writes the lock without the dataset, and then removes the files.
DropLocked(p) ==
    /\ step[p] = "drop"
    /\ lock' = Without(run[p])
    /\ Goes(p, "clear")
    /\ UNCHANGED <<toml, files, known, record, run, world>>

\* Files no dataset needs are removed if the state records them.
Cleared(goal) ==
    [d \in Datasets |-> IF goal[d] = None /\ d \in known THEN None ELSE files[d]]

\* Mutant: remove leaves the state saying that the project is synced
StillSynced(gone) == [record EXCEPT !.files = [d \in Datasets |-> IF d \in gone THEN None ELSE @[d]]]

Unsynced(gone) == NoRecord

Kept(p) == Placed(run[p].read.toml, Without(run[p]))

RemoveOnly(p) ==
    LET goal == Kept(p)
    IN  /\ step[p] = "clear"
        /\ files' = Cleared(goal)
        /\ record' = Unsynced({d \in Datasets : goal[d] = None})
        /\ Ends(p, "done")
        /\ UNCHANGED <<toml, lock, known, world>>

\* untouched: nothing to do, when both files and what the state records in the data folder are
\* as a complete sync left them.
Untouched(r) ==
    /\ record.complete
    /\ record.toml = r.read.toml /\ record.lock = r.read.lock
    /\ \A d \in Datasets : record.files[d] # None => d \in known /\ files[d] = record.files[d]

Settle(p) ==
    /\ step[p] = "settle"
    /\ IF Untouched(run[p]) THEN Ends(p, "done") ELSE Goes(p, "relock") /\ UNCHANGED run
    /\ UNCHANGED <<project, world>>

\* relock: resolves and downloads what is not pinned yet.
Relock(p) ==
    /\ step[p] = "relock"
    /\ \E pins \in Relocked(run[p], Listed(run[p].read.toml), Locked(run[p].read.lock)) :
         Knows(p, [run[p] EXCEPT !.pins = pins])
    /\ Goes(p, "write")
    /\ UNCHANGED <<project, world>>

\* A plan whose files clash is refused before data.lock is written; `lock` makes no plan.
\* write_lock writes nothing when data.lock, as read, holds the same.
WriteLock(p) ==
    LET r == run[p]
    IN  /\ step[p] = "write"
        /\ IF r.cmd # "lock" /\ Clash(Listed(r.read.toml), r.pins) THEN Refuses(p)
           ELSE /\ IF r.read.lock = r.pins THEN UNCHANGED lock ELSE lock' = r.pins
                /\ IF r.cmd = "lock" THEN Ends(p, "done") ELSE Goes(p, "place") /\ UNCHANGED run
                /\ UNCHANGED <<toml, files, known, record, world>>

Synced(r, complete, placed) ==
    IF ~complete THEN NoRecord
    ELSE [toml |-> r.read.toml, lock |-> r.pins, files |-> placed, complete |-> TRUE]

\* Files the state does not record and that differ from the pinned ones are a person's: they are
\* kept.  Of a dataset in part there, some may.
Foreign(goal) ==
    {kept \in SUBSET {d \in Datasets : goal[d] # None /\ d \notin known
                                      /\ files[d] \notin {None, goal[d]}} :
        \A d \in Datasets :
            goal[d] # None /\ d \notin known /\ files[d] \notin {None, goal[d], Partial}
                => d \in kept}

Place(p) ==
    LET goal == Placed(Listed(run[p].read.toml), run[p].pins)
    IN  /\ step[p] = "place"
        /\ \E kept \in Foreign(goal) :
             /\ files' = [d \in Datasets |-> IF goal[d] = None \/ d \in kept
                                             THEN Cleared(goal)[d] ELSE goal[d]]
             /\ known' = (known \cup {d \in Datasets : goal[d] # None}) \ kept
             /\ record' = Synced(run[p], kept = {}, goal)
        /\ IF run[p].cmd \in {"add", "again"} THEN Goes(p, "render") /\ UNCHANGED run
           ELSE Ends(p, "done")
        /\ UNCHANGED <<toml, lock, world>>

\* render_add, and again: the data folder goes in .gitignore, and what is told is planned from
\* data.lock as it now reads.
Render(p) ==
    /\ step[p] = "render"
    /\ Ends(p, IF Clash(Listed(run[p].read.toml), Locked(lock)) THEN "failed" ELSE "done")
    /\ UNCHANGED <<project, world>>

-----------------------------------------------------------------------------
(***************************************************************************)
(* Failures and kills.                                                     *)
(***************************************************************************)
Fails(p) ==
    /\ Happens
    /\ step[p] \in {"resolve", "toml", "drop", "settle", "relock", "write", "ready", "render"}
    /\ Refuses(p)

\* What a placement or a removal that stops half way leaves.
Goal(p) ==
    IF step[p] = "clear" THEN Cleared(Kept(p))
    ELSE LET goal == Placed(Listed(run[p].read.toml), run[p].pins)
         IN  [d \in Datasets |-> IF goal[d] = None THEN Cleared(goal)[d] ELSE goal[d]]

HalfDone(p) ==
    {f \in [Datasets -> {files[d] : d \in Datasets} \cup {Goal(p)[d] : d \in Datasets}
                          \cup {Partial}] :
        \A d \in Datasets : f[d] \in IF d \notin known /\ files[d] # None THEN {files[d]}
                                    ELSE IF files[d] = Goal(p)[d] THEN {files[d]}
                                    ELSE {files[d], Goal(p)[d], Partial}}

\* What was done without being recorded looks like a person's.
Unrecorded(f) == known' = {d \in known : f[d] = files[d] \/ f[d] = None}

\* A failed placement records what it placed, as incomplete, and a failed removal that nothing
\* is synced, unless that fails too.
PlaceFails(p) ==
    /\ Happens
    /\ step[p] \in {"place", "clear"}
    /\ \E f \in HalfDone(p) :
         /\ files' = f
         /\ \/ Unrecorded(f) /\ UNCHANGED record
            \/ /\ step[p] = "place"
               /\ known' = known \cup {d \in Datasets : f[d] # files[d]}
               /\ record' = Synced(run[p], FALSE, f)
    /\ Fallen(p)
    /\ UNCHANGED <<toml, lock, world>>

\* restore: each file may fail to be put back; the command then says which.
RestoreToml(p) ==
    /\ step[p] = "restore toml"
    /\ \/ toml' = run[p].before.toml /\ Goes(p, "restore lock") /\ UNCHANGED incidents
       \/ UNCHANGED toml /\ Goes(p, "restore lock only") /\ Happens
    /\ UNCHANGED <<lock, files, known, record, run, world>>

\* Mutant: only data.toml is put back
LockAsItIs(p) == lock

LockBefore(p) == run[p].before.lock

RestoreLock(p) ==
    /\ step[p] \in {"restore lock", "restore lock only"}
    /\ \/ /\ lock' = LockBefore(p)
          /\ Ends(p, IF step[p] = "restore lock" THEN "failed" ELSE "not restored")
          /\ UNCHANGED incidents
       \/ UNCHANGED lock /\ Ends(p, "not restored") /\ Happens
    /\ UNCHANGED <<toml, files, known, record, world>>

\* A kill at any point of a command; in a placement or a removal it leaves part of it done.
Kill(p) ==
    /\ Happens
    /\ Holding(p)
    /\ Ends(p, "killed")
    /\ \E f \in IF step[p] \in {"place", "clear"} THEN HalfDone(p) ELSE {files} :
         files' = f /\ Unrecorded(f)
    /\ UNCHANGED <<toml, lock, record, world>>

-----------------------------------------------------------------------------
(***************************************************************************)
(* A person and the world.                                                 *)
(***************************************************************************)
Disturbs ==
    /\ Happens
    /\ disturbed' = {p \in Procs : step[p] # "idle"} /\ said' = None
    /\ UNCHANGED <<known, record, step, run, head, upstream>>

EditToml ==
    /\ toml # Absent
    /\ \E d \in Datasets : \E a \in Asks[d] \cup {None} :
         toml[d] # a /\ toml' = [toml EXCEPT ![d] = a]
    /\ Disturbs /\ UNCHANGED <<lock, files>>

Checkout ==
    /\ \/ toml' = head.toml /\ UNCHANGED lock
       \/ lock' = head.lock /\ UNCHANGED toml
    /\ <<toml, lock>>' # <<toml, lock>>
    /\ Disturbs /\ UNCHANGED files

\* Files that are edited instead are Placing's.
Delete ==
    /\ \E d \in Datasets : files[d] # None /\ files' = [files EXCEPT ![d] = Partial]
    /\ Disturbs /\ UNCHANGED <<toml, lock>>

Release ==
    /\ upstream < Last /\ upstream' = upstream + 1 /\ Happens
    /\ said' = None
    /\ UNCHANGED <<project, step, run, disturbed, head>>

-----------------------------------------------------------------------------
\* A folder without a project, or a synced one with some datasets, as committed
Init ==
    /\ \E asked \in Heads :
         LET pins == [d \in Datasets |-> IF asked[d] = None THEN None
                                         ELSE [ask |-> asked[d], version |-> 1]]
         IN  IF asked = Absent
             THEN /\ toml = Absent /\ lock = Absent /\ files = Nothing /\ known = {}
                  /\ record = NoRecord
             ELSE /\ toml = asked /\ lock = pins /\ files = pins
                  /\ known = {d \in Datasets : asked[d] # None}
                  /\ record = [toml |-> asked, lock |-> pins, complete |-> TRUE, files |-> pins]
    /\ upstream = 1
    /\ step = [p \in Procs |-> "idle"] /\ run = [p \in Procs |-> NoRun] /\ said = None
    /\ disturbed = {} /\ incidents = 0
    /\ head = [toml |-> toml, lock |-> lock]

Command(p) ==
    \/ /\ \/ Start(p) \/ Path(p) \/ LookFirst(p) \/ Wait(p) \/ LookAgain(p) \/ Resolve(p) \/ Again(p)
          \/ WriteToml(p) \/ DropLocked(p) \/ RemoveOnly(p)
          \/ Settle(p) \/ Relock(p) \/ WriteLock(p) \/ Place(p) \/ Render(p)
       /\ UNCHANGED incidents
    \/ Fails(p) \/ PlaceFails(p) \/ RestoreToml(p) \/ RestoreLock(p) \/ Kill(p)

Next ==
    \/ \E p \in Procs : Command(p)
    \/ EditToml \/ Checkout \/ Delete \/ Release

Spec == Init /\ [][Next]_vars

-----------------------------------------------------------------------------
TypeOK ==
    /\ toml = Absent \/ \A d \in Datasets : toml[d] \in Asks[d] \cup {None}
    /\ lock = Absent \/ \A d \in Datasets : lock[d] \in Pins \cup {None}
    /\ files \in [Datasets -> Pins \cup {None, Partial}]
    /\ known \subseteq Datasets /\ disturbed \subseteq Procs
    /\ upstream \in Versions /\ incidents \in 0 .. Most

Writes(p) == step[p] = "write" /\ step'[p] # "write"
InDate == toml # Absent /\ lock # Absent /\ ~Stale(toml, lock)
InPlace == \A d \in Datasets : Listed(toml)[d] # None => files[d] = lock[d]

\* A sync that says there is nothing to do is right: data.lock is in date with data.toml and every
\* file they ask for is in place, whatever failed, was killed, removed or restored from git
\* before.  And one that says the project is synced leaves it so, unless it kept a person's files.
SuccessInSync ==
    \A p \in Procs :
      /\ step[p] \in {"settle", "place", "render"} /\ step'[p] = "idle" /\ said' = "done"
      /\ p \notin disturbed
      => InDate' /\ (step[p] = "settle" \/ record'.complete => InPlace')

\* No command moves the data a dataset of data.toml is pinned to, as long as its ref is the one it
\* was pinned for and nobody asks for an upgrade: "tidying data.toml never moves data" (pinned).
PinsStay ==
    \A p \in Procs, d \in Datasets :
      /\ Writes(p) /\ lock # Absent /\ lock' # Absent
      /\ p \notin disturbed /\ d \notin run[p].upgrade /\ Listed(run[p].before.toml)[d] # None
      /\ lock[d] # None /\ lock'[d] # None /\ lock[d].ask.ref = lock'[d].ask.ref
      => lock[d].version = lock'[d].version

\* `sync --locked` never changes data.lock: what its check lets through, relock keeps.
LockedKeepsLock ==
    \A p \in Procs : Writes(p) /\ run[p].cmd = "locked" => lock' = lock

\* An add whose sync fails leaves data.toml and data.lock as it found them, or says that it could
\* not (restore).  One that fails after its sync, in .gitignore or as it tells what it added, takes
\* nothing back: both files are as the sync left them, in date, and the files in place.
FailedAddUndone ==
    \A p \in Procs :
      run[p].cmd = "add" /\ step'[p] = "idle" /\ said' = "failed" /\ p \notin disturbed
      => IF step[p] = "render"
         THEN toml' = run[p].read.toml /\ InDate' /\ (record'.complete => InPlace')
         ELSE toml' = run[p].before.toml /\ lock' = run[p].before.lock

-----------------------------------------------------------------------------
(***************************************************************************)
(* Why the commands keep their word.                                       *)
(***************************************************************************)
Tomls ==
    {f \in [Datasets -> (UNION {Asks[d] : d \in Datasets}) \cup {None}] :
        \A d \in Datasets : f[d] \in Asks[d] \cup {None}}
Locks == [Datasets -> Pins \cup {None}]

CommandsAssumption ==
    /\ Heads \subseteq Tomls \cup {Absent} /\ Absent \notin Tomls \cup Locks
    /\ Last \in Nat \ {0} /\ None \notin Pins \cup Datasets
    /\ \A d \in Datasets : None \notin Asks[d]
    /\ None \notin {"add", "again", "remove", "sync", "locked", "lock", "path", "done", "failed"}

\* What a command knows before it has the hold, and with it
Looking == [cmd : {"path"}, upgrade : {{}}, name : Datasets]
Read == [toml : Tomls \cup {Absent}, lock : Locks \cup {Absent}]
Knowing ==
    [cmd : {"add", "again", "remove", "sync", "locked", "lock", "path"}, upgrade : SUBSET Datasets,
     name : Datasets \cup {None}, ask : (UNION {Asks[d] : d \in Datasets}) \cup {None},
     listing : Versions \cup {None}, pins : Locks \cup {None}, before : Read, read : Read]

Reading == {"resolve", "toml", "settle", "relock", "write", "ready"}
Writing == {"drop", "clear", "place", "render", "restore toml", "restore lock", "restore lock only"}
Steps == Reading \cup Writing \cup {"idle", "look", "wait"}
Types ==
    /\ toml \in Tomls \cup {Absent} /\ lock \in Locks \cup {Absent} /\ head \in Read
    /\ upstream \in Versions
    /\ step \in [Procs -> Steps]
    /\ run \in [Procs -> Knowing \cup Looking \cup {NoRun}]

HoldInv == \A p, q \in Procs : Holding(p) /\ Holding(q) => p = q

\* A lock made anew pins what is asked for, and moves nothing nobody asked for
Repins(r) ==
    \A d \in Datasets :
        LET asked == Listed(r.read.toml)[d]
            previous == Locked(r.read.lock)[d]
        IN  IF asked = None THEN r.pins[d] = None
            ELSE /\ r.pins[d] \in Pins /\ r.pins[d].ask = asked
                 /\ (/\ previous # None /\ previous.ask.ref = asked.ref
                     /\ d \notin r.upgrade /\ Listed(r.before.toml)[d] # None)
                    => r.pins[d].version = previous.version

\* What a command that has the hold knows follows from what it read
Follows(s, r) ==
    /\ r.before.lock = r.read.lock
    /\ s \in {"resolve", "toml"} \/ r.cmd \notin {"add", "remove"} => r.before.toml = r.read.toml
    /\ s \notin {"resolve", "toml"} => r.read.toml # Absent
    /\ s = "resolve" => r.cmd = "add"
    /\ s = "toml" => r.cmd \in {"add", "remove"} /\ r.name \in Datasets /\ r.ask \in Asks[r.name] \cup {None}
    /\ s = "ready" => r.cmd = "path"
    /\ r.cmd = "add" /\ s # "resolve" =>
         r.name \in Datasets /\ r.listing \in Versions /\ Listed(r.before.toml)[r.name] = None
    /\ r.cmd = "locked" =>
         /\ r.upgrade = {} /\ r.read.lock # Absent
         /\ ~Stale(Listed(r.read.toml), Locked(r.read.lock))
    /\ s \in {"write", "place", "render"} => r.pins \in Locks /\ Repins(r)

\* ... and is so, if nobody disturbed it
Current(s, r) ==
    /\ s \in Reading \cup {"place", "render"} => toml = r.read.toml
    /\ s \in Reading => lock = r.read.lock
    /\ s \in {"place", "render"} => lock = r.pins
    /\ s = "render" /\ record.complete => InPlace
    /\ s = "restore lock" => toml = r.before.toml

Sound(p) ==
    /\ step[p] = "idle" => run[p] = NoRun
    /\ step[p] \in {"look", "wait"} => run[p] \in Looking
    /\ Holding(p) =>
         /\ run[p] \in Knowing /\ Follows(step[p], run[p])
         /\ p \notin disturbed => Current(step[p], run[p])

\* What the state says is synced was in date and placed
RecordInv ==
    record.complete =>
        /\ record.toml \in Tomls /\ record.lock \in Locks /\ ~Stale(record.toml, record.lock)
        /\ \A d \in Datasets : record.toml[d] # None => record.files[d] = record.lock[d]

IInv == Types /\ HoldInv /\ RecordInv /\ \A p \in Procs : Sound(p)
=============================================================================
