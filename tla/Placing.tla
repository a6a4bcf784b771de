------------------------------ MODULE Placing ------------------------------
(***************************************************************************)
(* How a project's data folder is made to match data.lock (cli/sync/*,     *)
(* place.rs, project/state.rs) while a person edits the folder and pulls   *)
(* another data.lock at any moment, and the program is killed or the power *)
(* goes at any step: `sync` and `remove`, of which the project hold        *)
(* lets one run at a time.                                                 *)
(*                                                                         *)
(* fetchloom knows the files it placed by how they look: size and          *)
(* modification time, which comes from a clock with a coarse step.  The    *)
(* state file records the looks, and its own time says which of them can   *)
(* be trusted.                                                             *)
(*                                                                         *)
(* Files are placed as copies, flushed in one batch.  data.toml and        *)
(* data.lock are one value, the hash each path is locked to.               *)
(***************************************************************************)
EXTENDS Integers, FiniteSets

CONSTANTS
    Paths,
    Upstream,   \* the contents datasets serve, each its own hash
    Own,        \* the contents a person may write
    Size,       \* how long each content is
    Projects,   \* projects, their disks and what happens to them: see below
    Gaps,       \* whether an edit can fall between a look and the step it allows
    Absent, Nothing, None, Torn

(***************************************************************************)
(* A project: `locks` is what its data.lock may say, a hash for each path  *)
(* or Nothing, and a person changes its `paths` up to `edits` times.       *)
(* `file` is the step of the file times of its data folder, and `own` that *)
(* of the state file's time; `apart` says that these are on two devices.   *)
(* `last` bounds the time.  Coarse is the coarsest step there is.          *)
(***************************************************************************)
Coarse == 2

Contents == Upstream \cup Own

ASSUME ContentsAssumption ==
    /\ Upstream \cap Own = {} /\ Size \in [Contents -> Nat]
    /\ {Absent, Nothing, None, Torn} \cap Contents = {}
ASSUME ProjectsAssumption ==
    /\ Projects # {}
    /\ \A j \in Projects :
         /\ j.paths \subseteq Paths
         /\ j.locks # {} /\ j.locks \subseteq [Paths -> Upstream \cup {Nothing}]
         /\ {j.file, j.own} \subseteq 1 .. Coarse /\ j.apart \in BOOLEAN
         /\ j.apart \/ j.file = j.own
         /\ j.last \in Nat /\ j.edits \in Nat
ASSUME GapsAssumption == Gaps \in BOOLEAN
ASSUME AbsenceAssumption ==
    LET look == [size : Int, modified : Nat]
    IN  /\ Absent \notin look
        /\ Absent \notin [bytes : Contents \cup {Torn}, look : look, durable : BOOLEAN]
        /\ None \notin {"sync", "remove"} \cup [bytes : Upstream, look : look]

VARIABLES
    project,    \* the project, chosen once
    now,
    disk,       \* what each path of the data folder names
    hidden,     \* the hidden copy beside each path, if any
    state,      \* .fetchloom/state and its time
    pc, run,    \* where the running command is, and what it knows
    touched,    \* the paths a person changed since the command began
    late,       \* the paths whose bytes no look can tell from recorded ones
    edits

vars == <<project, now, disk, hidden, state, pc, run, touched, late, edits>>

-----------------------------------------------------------------------------
\* Files, looks and times

Stamp(step) == now - (now % step)
FileTime == Stamp(project.file)
OwnTime == Stamp(project.own)

NewFile(c, flushed) ==
    [bytes |-> c, look |-> [size |-> Size[c], modified |-> FileTime], durable |-> flushed]
Empty == [p \in Paths |-> Absent]
LookOf(file) == IF file = Absent THEN Absent ELSE file.look
Holds(p, c) == disk[p] # Absent /\ disk[p].bytes = c
Record(c, look) == [bytes |-> c, look |-> look]
\* Mutant: a hidden edit stays recorded with the look it has
Unsmudged(record) == record
\* The size no file has, as smudge_edited writes it
Smudged(record) == [record EXCEPT !.look.size = -1]

Times == 0 .. project.last
Looks == [size : {Size[c] : c \in Contents}, modified : Times]
Files == [bytes : Contents \cup {Torn}, look : Looks, durable : BOOLEAN]
Records == [bytes : Upstream,
            look : [size : {Size[c] : c \in Contents} \cup {-1}, modified : Times]]
Recorded == [Paths -> Records \cup {None}]
NoState == [files |-> [p \in Paths |-> None], written |-> 0, synced |-> None, complete |-> FALSE]

NoRun == [kind |-> None]

-----------------------------------------------------------------------------
\* What a command decides

Known(p) == run.files[p] # None
Wants(p) == run.lock[p] # Nothing
SeenAsRecorded(p) == Known(p) /\ run.disk[p] = run.files[p].look

\* Mutant: no allowance for a folder whose clock is coarser than the state's
WrittenExactly == state.written

\* What the state's time is compared with
Written ==
    IF ~project.apart THEN state.written
    ELSE IF state.written < Coarse THEN 0 ELSE state.written - Coarse

\* A file as new as the state, whose look proves nothing
Racy(p) == SeenAsRecorded(p) /\ run.disk[p].modified >= Written

Unchanged(p) == SeenAsRecorded(p) /\ p \notin run.edited

\* untouched: nothing to do, found without planning
Settled ==
    /\ run.kind = "sync"
    /\ state.complete /\ state.synced = run.lock
    /\ ~run.needsWriting /\ run.edited = {} /\ hidden = Empty
    /\ \A p \in Paths : Known(p) => SeenAsRecorded(p)

\* decide, for a path locked to a hash
Action(p, c) ==
    CASE run.disk[p] = Absent -> "Place"
      [] Unchanged(p) /\ run.files[p].bytes = c -> "Keep"
      [] Unchanged(p) /\ run.files[p].bytes # c -> "Replace"
      [] OTHER -> IF Holds(p, c) /\ run.disk[p].size = Size[c] THEN "Adopt"
                  ELSE IF run.force THEN "Replace" ELSE "Leave"

\* The steps a decision takes: look at the file again, take it away, put the
\* new one there, and so on up to the look that is recorded
First(p, l) ==
    IF l[p] = Nothing THEN IF Unchanged(p) THEN "look" ELSE "done"
    ELSE IF run.kind = "remove" THEN "done"
    ELSE CASE Action(p, l[p]) = "Place" -> "put"
           [] Action(p, l[p]) = "Replace" -> "look"
           [] OTHER -> "done"
After(p) == IF Wants(p) THEN "put" ELSE "done"

Adopts(p, l) == run.kind # "remove" /\ l[p] # Nothing /\ Action(p, l[p]) = "Adopt"
Leaves(p, l) ==
    IF l[p] = Nothing THEN Known(p) /\ run.disk[p] # Absent /\ ~Unchanged(p)
                      ELSE run.kind # "remove" /\ Action(p, l[p]) = "Leave"

\* remove_unwanted, adoption and smudge_edited, on the copy of the state's records
Decided(p, l) ==
    LET kept == IF l[p] = Nothing THEN None
                ELSE IF Adopts(p, l) THEN Record(l[p], run.disk[p]) ELSE run.files[p]
    IN  IF p \in run.edited /\ kept # None THEN Smudged(kept) ELSE kept

\* A file nobody recorded that went before decide could hash it fails the command
Gone(p, l) ==
    /\ ~Known(p) /\ l[p] # Nothing /\ disk[p] = Absent
    /\ run.disk[p] # Absent /\ run.disk[p].size = Size[l[p]]

\* What a command may lock: `remove` only drops a dataset
LockedBy(kind, l) == kind = "remove" => \A p \in Paths : l[p] \in {run.lock[p], Nothing}

-----------------------------------------------------------------------------
\* The command

Go(next) == pc' = next
All(steps) == \A p \in Paths : run.step[p] \in steps
Quit == pc' = "idle" /\ run' = NoRun /\ touched' = {}

\* The command reads data.lock, which may be any since the last, as a person
\* pulls and edits it, and the state, and Survey::read lists the folder
Begin(kind, force, l) ==
    /\ pc = "idle" /\ Go("survey")
    /\ kind = "remove" => ~force
    /\ run' = [kind |-> kind, force |-> force, lock |-> l, files |-> state.files,
               disk |-> [p \in Paths |-> LookOf(disk[p])], edited |-> {},
               needsWriting |-> FALSE, changed |-> FALSE, kept |-> FALSE, failed |-> FALSE,
               step |-> [p \in Paths |-> "done"]]
    /\ UNCHANGED <<project, now, disk, hidden, state, touched, late, edits>>

\* hash_racy
HashRacy ==
    LET racy == {p \in Paths : Racy(p)}
        edited == {p \in racy : ~Holds(p, run.files[p].bytes)}
    IN  /\ pc = "survey" /\ Go("surveyed")
        /\ run' = [run EXCEPT !.edited = edited, !.needsWriting = racy # edited]
        /\ UNCHANGED <<project, now, disk, hidden, state, touched, late, edits>>

\* untouched finds the folder as a complete sync left it
Untouched ==
    /\ pc = "surveyed" /\ Settled /\ Go("settled")
    /\ UNCHANGED <<project, now, disk, hidden, state, run, touched, late, edits>>

End ==
    /\ pc = "settled" /\ Quit
    /\ UNCHANGED <<project, now, disk, hidden, state, late, edits>>

\* The command makes the new lock, by resolving what data.toml asks for anew
\* or by dropping a dataset, and decides; commands such as `add` plan even if
\* nothing changed.  What apply does to its copy of the records before it
\* places a file shows in nothing else and is done here.  What the cache lacks
\* is then downloaded, which may take hours.
Decide(l) ==
    /\ pc = "surveyed" /\ Go("unwanted")
    /\ LockedBy(run.kind, l) /\ \A p \in Paths : ~Gone(p, l)
    /\ run' = [run EXCEPT
           !.lock = l,
           !.step = [p \in Paths |-> First(p, l)],
           !.files = [p \in Paths |-> Decided(p, l)],
           !.edited = {},
           !.needsWriting = FALSE,
           !.changed = \/ run.needsWriting
                       \/ \E p \in Paths : Adopts(p, l) \/ (l[p] = Nothing /\ Known(p)),
           !.kept = \E p \in Paths : Leaves(p, l)]
    /\ UNCHANGED <<project, now, disk, hidden, state, touched, late, edits>>

\* The network or the disk fails, or a file cannot be removed: nothing is recorded
Fails ==
    /\ pc \in {"surveyed", "unwanted", "place"} /\ Quit
    /\ pc = "place" => All({"done"}) \/ \E p \in Paths : run.step[p] = "take"
    /\ UNCHANGED <<project, now, disk, hidden, state, late, edits>>

\* A file about to be removed or replaced is looked at again
LookAgain(p) ==
    /\ pc \in {"unwanted", "place"} /\ run.step[p] = "look"
    /\ Wants(p) <=> pc = "place"
    /\ run' = IF disk[p] = Absent THEN [run EXCEPT !.step[p] = After(p)]
              ELSE IF LookOf(disk[p]) # run.disk[p]
                   THEN [run EXCEPT !.step[p] = "done", !.kept = TRUE]
                   ELSE [run EXCEPT !.step[p] = "take"]
    /\ UNCHANGED <<project, now, disk, hidden, state, pc, touched, late, edits>>

Take(p) ==
    /\ run # NoRun /\ run.step[p] = "take" /\ disk[p] # Absent
    /\ disk' = [disk EXCEPT ![p] = Absent]
    /\ late' = late \ {p}
    /\ run' = [run EXCEPT !.step[p] = After(p)]
    /\ UNCHANGED <<project, now, hidden, state, pc, touched, edits>>

\* sweep deletes the hidden copies an earlier command left; `remove` does not
Sweep ==
    /\ pc = "unwanted" /\ Go("place")
    /\ \A p \in Paths : ~Wants(p) => run.step[p] = "done"
    /\ hidden' = IF run.kind = "remove" THEN hidden ELSE Empty
    /\ UNCHANGED <<project, now, disk, state, run, touched, late, edits>>

\* settle ends before any file is placed
Cleared == All({"put", "staged", "done"})

\* put: a copy under a hidden name, unless the disk or the cache fails
Put(p) ==
    /\ pc = "place" /\ run.step[p] = "put" /\ Cleared
    /\ hidden' = [hidden EXCEPT ![p] = NewFile(run.lock[p], FALSE)]
    /\ run' = [run EXCEPT !.step[p] = "staged"]
    /\ UNCHANGED <<project, now, disk, state, pc, touched, late, edits>>

PutFails(p) ==
    /\ pc = "place" /\ run.step[p] = "put" /\ Cleared
    /\ run' = [run EXCEPT !.step[p] = "done", !.failed = TRUE]
    /\ UNCHANGED <<project, now, disk, hidden, state, pc, touched, late, edits>>

\* Mutant: copies take their names unflushed
FlushNothing ==
    /\ pc = "place" /\ All({"staged", "done"}) /\ ~All({"done"})
    /\ run' = [run EXCEPT !.step = [p \in Paths |-> IF @[p] = "staged" THEN "flushed" ELSE @[p]]]
    /\ UNCHANGED <<project, now, disk, hidden, state, pc, touched, late, edits>>

\* publish_flushed: all copies are flushed at once before any is named
Staged == {p \in Paths : run.step[p] = "staged"}
Flush ==
    /\ pc = "place" /\ All({"staged", "done"}) /\ Staged # {}
    /\ hidden' = [p \in Paths |-> IF p \in Staged THEN [hidden[p] EXCEPT !.durable = TRUE]
                                                  ELSE hidden[p]]
    /\ run' = [run EXCEPT !.step = [p \in Paths |-> IF p \in Staged THEN "flushed" ELSE @[p]]]
    /\ UNCHANGED <<project, now, disk, state, pc, touched, late, edits>>

FlushFails ==
    /\ pc = "place" /\ All({"staged", "done"}) /\ Staged # {}
    /\ hidden' = [p \in Paths |-> IF p \in Staged THEN Absent ELSE hidden[p]]
    /\ run' = [run EXCEPT !.step = [p \in Paths |-> "done"], !.failed = TRUE]
    /\ UNCHANGED <<project, now, disk, state, pc, touched, late, edits>>

\* Staged::publish, which fails where a file is
Publish(p) ==
    /\ pc = "place" /\ run.step[p] = "flushed" /\ disk[p] = Absent
    /\ disk' = [disk EXCEPT ![p] = hidden[p]]
    /\ hidden' = [hidden EXCEPT ![p] = Absent]
    /\ run' = [run EXCEPT !.step[p] = "named"]
    /\ UNCHANGED <<project, now, state, pc, touched, late, edits>>

PublishFails(p) ==
    /\ pc = "place" /\ run.step[p] = "flushed"
    /\ hidden' = [hidden EXCEPT ![p] = Absent]
    /\ run' = [run EXCEPT !.step[p] = "done", !.failed = TRUE]
    /\ UNCHANGED <<project, now, disk, state, pc, touched, late, edits>>

\* The look of the placed file, which put_all records
LookPlaced(p) ==
    /\ pc = "place" /\ run.step[p] = "named"
    /\ run' = IF disk[p] = Absent
              THEN [run EXCEPT !.step[p] = "done", !.failed = TRUE]
              ELSE [run EXCEPT !.step[p] = "done", !.changed = TRUE,
                               !.files[p] = Record(run.lock[p], LookOf(disk[p]))]
    /\ UNCHANGED <<project, now, disk, hidden, state, pc, touched, late, edits>>

\* Mutant: a sync that left files alone counts as complete
OutcomeOfFailures ==
    [files |-> run.files, written |-> OwnTime,
     synced |-> IF run.kind = "remove" THEN None ELSE run.lock,
     complete |-> run.kind # "remove" /\ ~run.failed]

\* The state is written if anything in it changed
Outcome ==
    [files |-> run.files, written |-> OwnTime,
     synced |-> IF run.kind = "remove" THEN None ELSE run.lock,
     complete |-> run.kind # "remove" /\ ~run.failed /\ ~run.kept]

WriteState ==
    /\ pc = "place" /\ All({"done"}) /\ Quit
    /\ state' = IF run.changed
                   \/ Outcome.synced # state.synced \/ Outcome.complete # state.complete
                THEN Outcome ELSE state
    /\ UNCHANGED <<project, now, disk, hidden, late, edits>>

\* The program is killed, or the power goes and takes what was not flushed
Tear(files) == [p \in Paths |-> IF files[p] # Absent /\ ~files[p].durable
                                THEN [files[p] EXCEPT !.bytes = Torn] ELSE files[p]]
Crash(power) ==
    /\ pc # "idle" /\ Quit
    /\ disk' = IF power THEN Tear(disk) ELSE disk
    /\ hidden' = IF power THEN Tear(hidden) ELSE hidden
    /\ UNCHANGED <<project, now, state, late, edits>>

-----------------------------------------------------------------------------
\* The person, the clock and the disk

\* Whether a person's change to p falls where the command cannot see it: the
\* file still looks as the command knows it, or the change falls in a gap
InGap(p) == run # NoRun /\ run.step[p] \in {"take", "named"}
Unseen(p, look) ==
    run # NoRun /\ (InGap(p) \/ run.disk[p] = look \/ (Known(p) /\ run.files[p].look = look))

\* The person writes a file, new or in place
Edit(p, c) ==
    /\ edits < project.edits /\ edits' = edits + 1
    /\ Gaps \/ ~InGap(p)
    /\ disk' = [disk EXCEPT ![p] = NewFile(c, TRUE)]
    /\ touched' = IF pc = "idle" THEN touched ELSE touched \cup {p}
    /\ late' = IF Unseen(p, LookOf(disk'[p])) THEN late \cup {p} ELSE late \ {p}
    /\ UNCHANGED <<project, now, hidden, state, pc, run>>

Delete(p) ==
    /\ edits < project.edits /\ edits' = edits + 1
    /\ disk[p] # Absent
    /\ disk' = [disk EXCEPT ![p] = Absent]
    /\ touched' = IF pc = "idle" THEN touched ELSE touched \cup {p}
    /\ late' = late \ {p}
    /\ UNCHANGED <<project, now, hidden, state, pc, run>>

Tick ==
    /\ now < project.last /\ now' = now + 1
    /\ UNCHANGED <<project, disk, hidden, state, pc, run, touched, late, edits>>

-----------------------------------------------------------------------------
\* A project just cloned, or with data that was there before fetchloom
Init ==
    /\ project \in Projects /\ now = 0
    /\ \E there \in [Paths -> Contents \cup {Absent}] :
          disk = [p \in Paths |-> IF p \notin project.paths \/ there[p] = Absent THEN Absent ELSE
                    [bytes |-> there[p], durable |-> TRUE,
                     look |-> [size |-> Size[there[p]], modified |-> 0]]]
    /\ hidden = Empty /\ state = NoState
    /\ pc = "idle" /\ run = NoRun
    /\ touched = {} /\ late = {} /\ edits = 0

Command ==
    \/ \E kind \in {"sync", "remove"}, force \in BOOLEAN, l \in project.locks :
          Begin(kind, force, l)
    \/ HashRacy \/ Untouched \/ End \/ Fails \/ Sweep
    \/ \E l \in project.locks : Decide(l)
    \/ \E p \in Paths : LookAgain(p) \/ Take(p) \/ Put(p) \/ PutFails(p)
                         \/ Publish(p) \/ PublishFails(p) \/ LookPlaced(p)
    \/ Flush \/ FlushFails \/ WriteState
    \/ \E power \in BOOLEAN : Crash(power)

Person ==
    \E p \in project.paths : Delete(p) \/ \E c \in Own : Edit(p, c)

Next == Command \/ Person \/ Tick

Spec == Init /\ [][Next]_vars

-----------------------------------------------------------------------------
\* Properties

\* The command knows what it saw, and nothing is decided yet; or it works on what it decided
Surveying == {"survey", "surveyed", "settled"}
Working == {"unwanted", "place"}

Steps == {"look", "take", "put", "staged", "flushed", "named", "done"}
Run ==
    [kind : {"sync", "remove"}, force : BOOLEAN, lock : project.locks, files : Recorded,
     disk : [Paths -> Looks \cup {Absent}], edited : SUBSET Paths, needsWriting : BOOLEAN,
     changed : BOOLEAN, kept : BOOLEAN, failed : BOOLEAN,
     step : [Paths -> Steps]]

\* The state and the survey hold what State, Placed and Survey may hold: each
\* record has a look, and each path a command works on has one step
TypeOK ==
    /\ project \in Projects /\ now \in Times /\ edits \in 0 .. project.edits
    /\ disk \in [Paths -> Files \cup {Absent}] /\ hidden \in [Paths -> Files \cup {Absent}]
    /\ state \in [files : Recorded, written : Times, synced : project.locks \cup {None},
                  complete : BOOLEAN]
    /\ touched \subseteq Paths /\ late \subseteq Paths
    /\ pc \in Surveying \cup Working \cup {"idle"}
    /\ IF pc = "idle" THEN run = NoRun /\ touched = {} ELSE run \in Run

\* README.md: sync keeps a person's edits.  A command takes a person's bytes
\* away only if it was forced to and they were there when it looked at the
\* folder, or if their look cannot be told from what it knew of the path.
EditsKept ==
    [][\A p \in Paths :
         Take(p) /\ disk[p].bytes \in Own =>
            p \in late \/ (run.force /\ p \notin touched)]_vars

\* A power cut never leaves part of a file where the project expects one
NamesAreWhole == \A p \in Paths : disk[p] # Absent => disk[p].durable

\* The state vouches for a file that looks as recorded and is not new enough
\* to be hashed first
Vouched(p) ==
    LET record == state.files[p]
    IN  /\ record # None /\ LookOf(disk[p]) = record.look
        /\ record.look.modified < Written

\* No file the state vouches for holds other bytes than it records, unless a
\* person changed it while the command that recorded it ran, and it does not show
StateVouches == \A p \in Paths : Vouched(p) => Holds(p, state.files[p].bytes) \/ p \in late

\* A sync that finds nothing to do, without planning and without hashing,
\* leaves every locked file in place and none it placed before and needs no more
SettledInSync ==
    pc = "settled" =>
        \A p \in Paths \ (touched \cup late) :
            IF Wants(p) THEN Holds(p, run.lock[p]) ELSE ~Known(p)

\* state.rs: hand edits are noticed without hashing, except for a file as new
\* as the state itself.  That is StateVouches without its exception.
EditsNoticed == \A p \in Paths : Vouched(p) => Holds(p, state.files[p].bytes)

-----------------------------------------------------------------------------
\* What makes it so

\* Whatever takes a path from now on is not older than what the state's time is compared with
InTime ==
    /\ Written <= FileTime
    /\ \A p \in Paths :
         pc = "place" /\ run.step[p] \in {"staged", "flushed"} => Written <= hidden[p].look.modified

\* A complete state records every locked file, and no other
CompleteIsSynced ==
    state.complete =>
        \A p \in Paths : IF state.synced[p] = Nothing THEN state.files[p] = None
                         ELSE state.files[p] # None /\ state.files[p].bytes = state.synced[p]

\* A path that looks as the command knows it is as it was, unless a change does not show; and so it
\* has the bytes recorded for that look, or is hashed, or was
LooksAsSeen(p) == disk[p] # Absent /\ LookOf(disk[p]) = run.disk[p]
LooksAsRecorded(p) == Known(p) /\ LookOf(disk[p]) = run.files[p].look
SurveyHolds ==
    pc \in Surveying =>
        /\ run.files = state.files /\ run.step = [p \in Paths |-> "done"]
        /\ \A p \in Paths :
             /\ p \notin touched => LookOf(disk[p]) = run.disk[p]
             /\ p \in touched /\ LooksAsSeen(p) => p \in late
             /\ LooksAsRecorded(p) =>
                   \/ Holds(p, run.files[p].bytes) \/ p \in late
                   \/ IF pc = "survey" THEN Racy(p) ELSE p \in run.edited

\* What is recorded of a path is so, unless a change does not show; only a file just named is not
\* recorded yet
RecordsHold ==
    pc \in Working =>
        \A p \in Paths :
            IF run.step[p] = "named" THEN disk[p] # Absent => Holds(p, run.lock[p]) \/ p \in late
            ELSE LooksAsRecorded(p) => Holds(p, run.files[p].bytes) \/ p \in late

\* A person's file is taken away only where a force asked for it, or a change does not show
MayTake(p) == disk[p].bytes \in Own => p \in late \/ (run.force /\ p \notin touched)
TakesRightly ==
    pc \in Working =>
        \A p \in Paths :
            /\ run.step[p] = "look" /\ LooksAsSeen(p) => MayTake(p)
            /\ run.step[p] = "take" /\ disk[p] # Absent => MayTake(p)

\* Copies have the locked bytes, on the disk before they are named
CopiesAreWhole ==
    pc \in Working =>
        \A p \in Paths :
            /\ run.step[p] \in {"put", "staged", "flushed", "named"} => Wants(p)
            /\ run.step[p] \in {"staged", "flushed"} =>
                  pc = "place" /\ hidden[p] # Absent /\ hidden[p].bytes = run.lock[p]
            /\ run.step[p] = "flushed" => hidden[p].durable
            /\ run.step[p] = "named" => pc = "place"

\* A path a sync is done with is recorded as it is locked, or something was left or failed
DoneIsRecorded ==
    pc \in Working =>
        \A p \in Paths :
            /\ ~Wants(p) => ~Known(p)
            /\ /\ Wants(p) /\ run.kind = "sync" /\ run.step[p] = "done"
               /\ ~run.failed /\ ~run.kept
               => Known(p) /\ run.files[p].bytes = run.lock[p]

IInv ==
    /\ TypeOK /\ NamesAreWhole /\ StateVouches /\ SettledInSync
    /\ InTime /\ CompleteIsSynced /\ SurveyHolds /\ RecordsHold /\ TakesRightly
    /\ CopiesAreWhole /\ DoneIsRecorded
=============================================================================
