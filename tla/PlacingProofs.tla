---------------------------- MODULE PlacingProofs ----------------------------
(***************************************************************************)
(* What commands leave in a project's folder and its state, for any paths, *)
(* contents, locks, disks and clocks of steps of one or two, any number of *)
(* commands, edits, kills and power cuts, and any length of time.          *)
(***************************************************************************)
EXTENDS Placing, TLAPS

\* A project is what the assumption says.
LEMMA ProjectFacts ==
  ASSUME project \in Projects
  PROVE  /\ project.file \in 1 .. 2 /\ project.own \in 1 .. 2 /\ project.apart \in BOOLEAN
         /\ project.apart \/ project.file = project.own
         /\ project.last \in Nat /\ project.edits \in Nat /\ project.paths \subseteq Paths
         /\ \A l \in project.locks : l \in [Paths -> Upstream \cup {Nothing}]
         /\ Times \subseteq Nat
  BY ProjectsAssumption DEF Coarse, Times

\* A stamp is the time, or the one before it, and never goes back.
LEMMA StampFacts ==
  ASSUME NEW n \in Nat, NEW step \in 1 .. 2
  PROVE  /\ n - (n % step) \in 0 .. n /\ n - (n % step) >= n - 1
         /\ n - (n % step) <= (n + 1) - ((n + 1) % step)
<1>1. CASE step = 1
  BY <1>1
<1>2. CASE step = 2
  BY <1>2
<1>q. QED BY <1>1, <1>2

\* The times of files and states.
LEMMA TimeFacts ==
  ASSUME TypeOK
  PROVE  /\ now \in Nat /\ state.written \in Nat
         /\ FileTime \in Times /\ FileTime \in Nat /\ FileTime <= now /\ FileTime >= now - 1
         /\ OwnTime \in Times /\ OwnTime \in Nat /\ OwnTime <= now
         /\ ~project.apart => OwnTime = FileTime
         /\ Written \in Nat
<1>1. /\ project.file \in 1 .. 2 /\ project.own \in 1 .. 2 /\ project.last \in Nat
      /\ project.apart \/ project.file = project.own
  BY ProjectFacts DEF TypeOK
<1>2. now \in 0 .. project.last /\ state.written \in 0 .. project.last
  BY DEF TypeOK, Times
<1>3. /\ FileTime \in 0 .. now /\ FileTime >= now - 1 /\ OwnTime \in 0 .. now
  BY <1>1, <1>2, StampFacts DEF FileTime, OwnTime, Stamp
<1>4. ~project.apart => OwnTime = FileTime
  BY <1>1 DEF FileTime, OwnTime
<1>5. Written \in Nat
  BY <1>2 DEF Written, Coarse
<1>q. QED BY <1>1, <1>2, <1>3, <1>4, <1>5 DEF Times

\* Sizes are numbers, and nothing stands for a look, a file or a record.
LEMMA LookFacts ==
  ASSUME TypeOK
  PROVE  /\ Absent \notin Looks /\ Absent \notin Files /\ None \notin Records
         /\ \A look \in Looks : look.size \in Nat /\ look.modified \in Nat
         /\ \A f \in Files : f.look \in Looks
<1>1. Times \subseteq Nat
  BY ProjectFacts DEF TypeOK
<1>2. \A c \in Contents : Size[c] \in Nat
  BY ContentsAssumption
<1>3. Looks \subseteq [size : Int, modified : Nat]
  <2>1. {Size[c] : c \in Contents} \subseteq Int
    BY <1>2
  <2>q. QED BY <1>1, <2>1 DEF Looks
<1>4. Absent \notin Looks /\ Absent \notin Files
  BY <1>3, AbsenceAssumption DEF Files
<1>5. None \notin Records
  <2>1. [size : {Size[c] : c \in Contents} \cup {-1}, modified : Times] \subseteq [size : Int, modified : Nat]
    BY <1>1, <1>2
  <2>q. QED BY <2>1, AbsenceAssumption DEF Records
<1>6. \A look \in Looks : look.size \in Nat /\ look.modified \in Nat
  BY <1>1, <1>2 DEF Looks
<1>q. QED BY <1>4, <1>5, <1>6 DEF Files

\* A recorded look is no absence, and that of a hidden edit is no file's.
LEMMA RecordFacts ==
  ASSUME TypeOK, NEW r \in Records
  PROVE  /\ r.look # Absent /\ r.bytes \in Upstream /\ r # None /\ r.look.modified \in Nat
         /\ Smudged(r) \in Records /\ Smudged(r) # None /\ Smudged(r).bytes = r.bytes
         /\ Smudged(r).look \notin Looks
<1>1. Times \subseteq Nat /\ {Size[c] : c \in Contents} \subseteq Int
  BY ProjectFacts, ContentsAssumption DEF TypeOK
<1>2. r.look \in [size : {Size[c] : c \in Contents} \cup {-1}, modified : Times]
  BY DEF Records
<1>3. r.look \in [size : Int, modified : Nat]
  <2>1. {Size[c] : c \in Contents} \cup {-1} \subseteq Int
    BY <1>1
  <2>q. QED BY <1>1, <1>2, <2>1
<1>4. /\ Smudged(r).bytes = r.bytes /\ Smudged(r).look.size = -1
      /\ Smudged(r).look = [size |-> -1, modified |-> r.look.modified]
      /\ Smudged(r) \in [bytes : Upstream, look : [size : {-1}, modified : Times]]
  BY <1>2 DEF Smudged, Records
<1>5. Smudged(r) \in Records
  BY <1>4 DEF Records
<1>q. QED BY <1>2, <1>3, <1>4, <1>5, LookFacts, AbsenceAssumption DEF Records

\* A path that names nothing, or a file with its look.
LEMMA DiskFacts ==
  ASSUME TypeOK, NEW p \in Paths
  PROVE  /\ disk[p] = Absent => LookOf(disk[p]) = Absent
         /\ disk[p] # Absent => /\ disk[p] \in Files /\ LookOf(disk[p]) = disk[p].look
                                /\ disk[p].look \in Looks /\ disk[p].look # Absent
         /\ LookOf(disk[p]) \in Looks \cup {Absent}
         /\ state.files[p] # None => state.files[p] \in Records
  BY LookFacts DEF TypeOK, LookOf, Recorded

\* What a running command knows.
LEMMA RunFacts ==
  ASSUME TypeOK, pc # "idle"
  PROVE  /\ run \in Run /\ run # NoRun /\ run.lock \in [Paths -> Upstream \cup {Nothing}]
         /\ \A p \in Paths : /\ Known(p) => run.files[p] \in Records /\ run.files[p].bytes \in Upstream
                             /\ Wants(p) => run.lock[p] \in Upstream
<1>1. run \in Run /\ run.kind \in {"sync", "remove"} /\ run.lock \in project.locks
  BY DEF TypeOK, Run
<1>2. run # NoRun
  BY <1>1, AbsenceAssumption DEF NoRun
<1>3. run.lock \in [Paths -> Upstream \cup {Nothing}]
  BY <1>1, ProjectFacts DEF TypeOK
<1>4. run.files \in Recorded
  BY <1>1 DEF Run
<1>q. QED BY <1>1, <1>2, <1>3, <1>4 DEF Known, Wants, Recorded, Records

\* A file made now.
LEMMA NewFacts ==
  ASSUME TypeOK, NEW c \in Contents, NEW flushed \in BOOLEAN
  PROVE  /\ NewFile(c, flushed) \in Files /\ NewFile(c, flushed) # Absent
         /\ NewFile(c, flushed).bytes = c /\ NewFile(c, flushed).durable = flushed
         /\ NewFile(c, flushed).look.modified = FileTime
<1>1. [size |-> Size[c], modified |-> FileTime] \in Looks
  BY TimeFacts DEF Looks
<1>2. NewFile(c, flushed) \in Files
  BY <1>1 DEF NewFile, Files
<1>q. QED BY <1>2, LookFacts DEF NewFile

-----------------------------------------------------------------------------
(* Steps of a command that works                                           *)
-----------------------------------------------------------------------------

\* What the invariant says of a path a command works on.
Fine(p) ==
  /\ disk[p] # Absent => disk[p].durable
  /\ Vouched(p) => Holds(p, state.files[p].bytes) \/ p \in late
  /\ pc = "place" /\ run.step[p] \in {"staged", "flushed"} => Written <= hidden[p].look.modified
  /\ IF run.step[p] = "named" THEN disk[p] # Absent => Holds(p, run.lock[p]) \/ p \in late
     ELSE LooksAsRecorded(p) => Holds(p, run.files[p].bytes) \/ p \in late
  /\ run.step[p] = "look" /\ LooksAsSeen(p) => MayTake(p)
  /\ run.step[p] = "take" /\ disk[p] # Absent => MayTake(p)
  /\ run.step[p] \in {"put", "staged", "flushed", "named"} => Wants(p)
  /\ run.step[p] \in {"staged", "flushed"} =>
        pc = "place" /\ hidden[p] # Absent /\ hidden[p].bytes = run.lock[p]
  /\ run.step[p] = "flushed" => hidden[p].durable
  /\ run.step[p] = "named" => pc = "place"
  /\ ~Wants(p) => ~Known(p)
  /\ Wants(p) /\ run.kind = "sync" /\ run.step[p] = "done" /\ ~run.failed /\ ~run.kept
     => Known(p) /\ run.files[p].bytes = run.lock[p]

\* What the invariant comes to while a command works.
LEMMA WhileWorking ==
  ASSUME IInv, pc \in Working
  PROVE  /\ Written <= FileTime /\ CompleteIsSynced /\ \A p \in Paths : Fine(p)
         /\ pc # "idle" /\ run \in Run /\ run # NoRun
<1>1. pc \notin Surveying /\ pc # "idle" /\ pc # "settled"
  BY DEF Working, Surveying
<1>2. run \in Run /\ run # NoRun
  BY <1>1, RunFacts DEF IInv
<1>3. Written <= FileTime /\ CompleteIsSynced
  BY DEF IInv, InTime
<1>4. ASSUME NEW p \in Paths PROVE Fine(p)
  BY DEF Fine, IInv, InTime, NamesAreWhole, StateVouches, RecordsHold, TakesRightly,
         CopiesAreWhole, DoneIsRecorded
<1>q. QED BY <1>1, <1>2, <1>3, <1>4

LEMMA WorkingAgain ==
  ASSUME pc' \in Working, TypeOK', (Written <= FileTime)', CompleteIsSynced',
         \A p \in Paths : Fine(p)'
  PROVE  IInv'
<1>1. pc' \notin Surveying /\ pc' # "idle" /\ pc' # "settled"
  BY DEF Working, Surveying
<1>2. NamesAreWhole'
  BY DEF Fine, NamesAreWhole
<1>3. StateVouches'
  BY DEF Fine, StateVouches
<1>4. InTime'
  BY DEF Fine, InTime
<1>5. RecordsHold'
  BY DEF Fine, RecordsHold
<1>6. TakesRightly'
  BY DEF Fine, TakesRightly
<1>7. CopiesAreWhole'
  BY DEF Fine, CopiesAreWhole
<1>8. DoneIsRecorded'
  BY DEF Fine, DoneIsRecorded
<1>9. SettledInSync' /\ SurveyHolds'
  BY <1>1 DEF SettledInSync, SurveyHolds
<1>q. QED BY <1>2, <1>3, <1>4, <1>5, <1>6, <1>7, <1>8, <1>9 DEF IInv

\* A step of a command at one path changes nothing of the others.
LEMMA OnePath ==
  ASSUME IInv, pc \in Working, pc' = pc, UNCHANGED <<project, now, state, touched>>, TypeOK',
         NEW p \in Paths, Fine(p)',
         run'.kind = run.kind, run'.force = run.force, run'.lock = run.lock, run'.disk = run.disk,
         run.failed => run'.failed, run.kept => run'.kept,
         \A q \in Paths \ {p} :
            /\ run'.step[q] = run.step[q] /\ run'.files[q] = run.files[q]
            /\ disk'[q] = disk[q] /\ hidden'[q] = hidden[q] /\ (q \in late' <=> q \in late)
  PROVE  IInv'
<1>1. Written' = Written /\ FileTime' = FileTime /\ CompleteIsSynced' = CompleteIsSynced
  BY DEF Written, FileTime, Stamp, CompleteIsSynced
<1>2. ASSUME NEW q \in Paths \ {p} PROVE Fine(q)'
  <2>1. Fine(q)
    BY WhileWorking
  <2>2. /\ Holds(q, state.files[q].bytes)' = Holds(q, state.files[q].bytes)
        /\ Holds(q, run.lock[q])' = Holds(q, run.lock[q])
        /\ Holds(q, run.files[q].bytes)' = Holds(q, run.files[q].bytes)
    BY DEF Holds
  <2>3. /\ Vouched(q)' = Vouched(q) /\ LooksAsRecorded(q)' = LooksAsRecorded(q)
        /\ LooksAsSeen(q)' = LooksAsSeen(q) /\ MayTake(q)' = MayTake(q)
        /\ Known(q)' = Known(q) /\ Wants(q)' = Wants(q)
    BY <1>1 DEF Vouched, LooksAsRecorded, LooksAsSeen, MayTake, Known, Wants, LookOf
  <2>q. QED BY <1>1, <2>1, <2>2, <2>3 DEF Fine
<1>q. QED BY <1>1, <1>2, WhileWorking, WorkingAgain

\* A path takes its next step.
LEMMA StepFacts ==
  ASSUME NEW r \in Run, NEW p \in Paths, NEW s \in Steps
  PROVE  /\ [r EXCEPT !.step[p] = s] \in Run
         /\ [r EXCEPT !.step[p] = s].step[p] = s
         /\ \A q \in Paths \ {p} : [r EXCEPT !.step[p] = s].step[q] = r.step[q]
         /\ [r EXCEPT !.step[p] = s].kind = r.kind /\ [r EXCEPT !.step[p] = s].force = r.force
         /\ [r EXCEPT !.step[p] = s].lock = r.lock /\ [r EXCEPT !.step[p] = s].disk = r.disk
         /\ [r EXCEPT !.step[p] = s].files = r.files /\ [r EXCEPT !.step[p] = s].failed = r.failed
         /\ [r EXCEPT !.step[p] = s].kept = r.kept
<1>1. r.step \in [Paths -> Steps]
  BY DEF Run
<1>2. [r.step EXCEPT ![p] = s] \in [Paths -> Steps]
  BY <1>1
<1>q. QED BY <1>1, <1>2 DEF Run

\* The type of what a command's step leaves, if the clock, the project and the state stay.
LEMMA TypeAgain ==
  ASSUME TypeOK, pc' \in Surveying \cup Working, run' \in Run,
         UNCHANGED <<project, now, state>>,
         touched' \subseteq Paths, late' \subseteq Paths, edits' \in 0 .. project.edits,
         disk' \in [Paths -> Files \cup {Absent}], hidden' \in [Paths -> Files \cup {Absent}]
  PROVE  TypeOK'
<1>1. pc' # "idle" /\ Run' = Run
  BY DEF Surveying, Working, Run, Looks, Times, Recorded, Records
<1>q. QED BY <1>1 DEF TypeOK, Times, Files, Looks, Recorded, Records

LEMMA LookAgainKeeps ==
  ASSUME IInv, NEW p \in Paths, LookAgain(p)
  PROVE  IInv'
<1> DEFINE left == [run EXCEPT !.step[p] = "done", !.kept = TRUE]
<1>1. /\ pc \in Working /\ run.step[p] = "look" /\ pc' = pc /\ TypeOK /\ run \in Run /\ Fine(p)
      /\ UNCHANGED <<project, now, disk, hidden, state, pc, touched, late, edits>>
  BY WhileWorking DEF LookAgain, Working, IInv
<1>2. /\ left \in Run /\ left.step[p] = "done" /\ left.kept /\ left.failed = run.failed
      /\ \A q \in Paths \ {p} : left.step[q] = run.step[q]
      /\ left.kind = run.kind /\ left.force = run.force /\ left.lock = run.lock
      /\ left.disk = run.disk /\ left.files = run.files
  BY <1>1 DEF Run, Steps
<1>3. /\ run' \in Run /\ run'.kind = run.kind /\ run'.force = run.force /\ run'.lock = run.lock
      /\ run'.disk = run.disk /\ run'.files = run.files /\ run'.failed = run.failed
      /\ run.kept => run'.kept
      /\ \A q \in Paths \ {p} : run'.step[q] = run.step[q]
      /\ \/ run'.step[p] = "put" /\ Wants(p)
         \/ run'.step[p] = "done" /\ (~Wants(p) \/ run'.kept)
         \/ run'.step[p] = "take" /\ LooksAsSeen(p)
  <2> HIDE DEF left
  <2>1. CASE disk[p] = Absent
    <3>1. run' = [run EXCEPT !.step[p] = After(p)] /\ After(p) \in Steps
      BY <2>1 DEF LookAgain, After, Steps
    <3>q. QED BY <1>1, <3>1, StepFacts DEF After
  <2>2. CASE disk[p] # Absent /\ LookOf(disk[p]) # run.disk[p]
    BY <1>1, <1>2, <2>2 DEF LookAgain, left
  <2>3. CASE disk[p] # Absent /\ LookOf(disk[p]) = run.disk[p]
    <3>1. run' = [run EXCEPT !.step[p] = "take"] /\ "take" \in Steps
      BY <2>3 DEF LookAgain, Steps
    <3>q. QED BY <1>1, <2>3, <3>1, StepFacts DEF LooksAsSeen
  <2>q. QED BY <2>1, <2>2, <2>3
<1>4. TypeOK'
  BY <1>1, <1>3, TypeAgain DEF TypeOK
<1>5. /\ Vouched(p)' = Vouched(p) /\ LooksAsRecorded(p)' = LooksAsRecorded(p)
      /\ MayTake(p)' = MayTake(p) /\ Known(p)' = Known(p) /\ Wants(p)' = Wants(p)
      /\ Holds(p, state.files[p].bytes)' = Holds(p, state.files[p].bytes)
      /\ Holds(p, run.files[p].bytes)' = Holds(p, run.files[p].bytes)
  BY <1>1, <1>3 DEF Vouched, LooksAsRecorded, MayTake, Known, Wants, Holds, LookOf, Written
<1>6. Fine(p)'
  BY <1>1, <1>3, <1>5 DEF Fine
<1>q. QED BY <1>1, <1>3, <1>4, <1>6, OnePath

LEMMA TakeKeeps ==
  ASSUME IInv, NEW p \in Paths, Take(p)
  PROVE  IInv'
<1>1. pc \in Working /\ TypeOK
  BY DEF Take, IInv, TypeOK, SurveyHolds
<1>2. /\ run.step[p] = "take" /\ run \in Run /\ Fine(p)
      /\ disk' = [disk EXCEPT ![p] = Absent] /\ late' = late \ {p}
      /\ UNCHANGED <<project, now, hidden, state, pc, touched, edits>>
      /\ After(p) \in Steps /\ run' = [run EXCEPT !.step[p] = After(p)]
  BY <1>1, WhileWorking DEF Take, After, Steps
<1>3. /\ run' \in Run /\ run'.kind = run.kind /\ run'.force = run.force /\ run'.lock = run.lock
      /\ run'.disk = run.disk /\ run'.files = run.files /\ run'.failed = run.failed
      /\ run'.kept = run.kept /\ run'.step[p] = After(p)
      /\ \A q \in Paths \ {p} : run'.step[q] = run.step[q]
  BY <1>2, StepFacts
<1>4. disk' \in [Paths -> Files \cup {Absent}] /\ late' \subseteq Paths
      /\ disk'[p] = Absent /\ \A q \in Paths \ {p} : disk'[q] = disk[q]
  BY <1>1, <1>2 DEF TypeOK
<1>5. TypeOK'
  BY <1>1, <1>2, <1>3, <1>4, TypeAgain DEF TypeOK
<1>6. ~Vouched(p)' /\ ~LooksAsRecorded(p)' /\ ~LooksAsSeen(p)'
  <2>1. Absent \notin Looks /\ \A look \in Looks \cup {Absent} : look.size \in Nat \/ look = Absent
    BY <1>1, LookFacts
  <2>2. \A r \in Records : r.look # Absent
    BY <1>1, RecordFacts
  <2>3. Known(p)' => run'.files[p] \in Records
    BY <1>3 DEF Known, Run, Recorded
  <2>4. state'.files[p] # None => state'.files[p] \in Records
    BY <1>1, <1>2, DiskFacts
  <2>q. QED BY <1>4, <2>2, <2>3, <2>4 DEF Vouched, LooksAsRecorded, LooksAsSeen, LookOf
<1>7. Known(p)' = Known(p) /\ Wants(p)' = Wants(p)
  BY <1>3 DEF Known, Wants
<1>8. Fine(p)'
  BY <1>2, <1>3, <1>4, <1>6, <1>7 DEF Fine, After
<1>9. \A q \in Paths \ {p} : q \in late' <=> q \in late
  BY <1>2
<1>q. QED BY <1>1, <1>2, <1>3, <1>4, <1>5, <1>8, <1>9, OnePath

LEMMA PutKeeps ==
  ASSUME IInv, NEW p \in Paths, Put(p)
  PROVE  IInv'
<1>1. /\ pc \in Working /\ pc = "place" /\ TypeOK /\ run \in Run /\ Fine(p) /\ run.step[p] = "put"
      /\ Wants(p) /\ Written <= FileTime /\ run.lock[p] \in Contents
      /\ UNCHANGED <<project, now, disk, state, pc, touched, late, edits>>
      /\ hidden' = [hidden EXCEPT ![p] = NewFile(run.lock[p], FALSE)]
      /\ "staged" \in Steps /\ run' = [run EXCEPT !.step[p] = "staged"]
  <2>1. pc \in Working /\ TypeOK
    BY DEF Put, Working, IInv
  <2>2. Fine(p) /\ run.step[p] = "put" /\ run \in Run /\ pc # "idle" /\ Written <= FileTime
    BY <2>1, WhileWorking DEF Put
  <2>3. Wants(p)
    BY <2>2 DEF Fine
  <2>q. QED BY <2>1, <2>2, <2>3, RunFacts DEF Put, Contents, Steps
<1>2. /\ run' \in Run /\ run'.kind = run.kind /\ run'.force = run.force /\ run'.lock = run.lock
      /\ run'.disk = run.disk /\ run'.files = run.files /\ run'.failed = run.failed
      /\ run'.kept = run.kept /\ run'.step[p] = "staged"
      /\ \A q \in Paths \ {p} : run'.step[q] = run.step[q]
  BY <1>1, StepFacts
<1>3. /\ hidden' \in [Paths -> Files \cup {Absent}]
      /\ hidden'[p] # Absent /\ hidden'[p].bytes = run.lock[p]
      /\ hidden'[p].look.modified = FileTime
      /\ \A q \in Paths \ {p} : hidden'[q] = hidden[q]
  BY <1>1, NewFacts DEF TypeOK
<1>4. TypeOK'
  BY <1>1, <1>2, <1>3, TypeAgain DEF TypeOK
<1>5. /\ Vouched(p)' = Vouched(p) /\ LooksAsRecorded(p)' = LooksAsRecorded(p)
      /\ Known(p)' = Known(p) /\ Wants(p)' = Wants(p) /\ Written' = Written
      /\ Holds(p, state.files[p].bytes)' = Holds(p, state.files[p].bytes)
      /\ Holds(p, run.files[p].bytes)' = Holds(p, run.files[p].bytes)
  BY <1>1, <1>2 DEF Vouched, LooksAsRecorded, Known, Wants, Holds, LookOf, Written
<1>6. Fine(p)'
  BY <1>1, <1>2, <1>3, <1>5 DEF Fine
<1>q. QED BY <1>1, <1>2, <1>3, <1>4, <1>6, OnePath

\* A placement that fails says so.
LEMMA FailedFacts ==
  ASSUME NEW r \in Run, NEW p \in Paths
  PROVE  LET left == [r EXCEPT !.step[p] = "done", !.failed = TRUE]
         IN  /\ left \in Run /\ left.step[p] = "done" /\ left.failed /\ left.kept = r.kept
             /\ \A q \in Paths \ {p} : left.step[q] = r.step[q]
             /\ left.kind = r.kind /\ left.force = r.force /\ left.lock = r.lock
             /\ left.disk = r.disk /\ left.files = r.files
  BY DEF Run, Steps

\* The placement of a path fails, and its hidden copy may go.
LEMMA PlaceFailsKeeps ==
  ASSUME IInv, NEW p \in Paths, pc = "place", run.step[p] \in {"put", "flushed", "named"},
         run.step[p] = "named" => disk[p] = Absent,
         run' = [run EXCEPT !.step[p] = "done", !.failed = TRUE],
         UNCHANGED <<project, now, disk, state, pc, touched, late, edits>>,
         hidden' \in {hidden, [hidden EXCEPT ![p] = Absent]}
  PROVE  IInv'
<1>1. pc \in Working /\ TypeOK /\ run \in Run /\ Fine(p)
  BY WhileWorking DEF Working, IInv
<1>2. /\ run' \in Run /\ run'.kind = run.kind /\ run'.force = run.force /\ run'.lock = run.lock
      /\ run'.disk = run.disk /\ run'.files = run.files /\ run'.failed
      /\ run'.kept = run.kept /\ run'.step[p] = "done"
      /\ \A q \in Paths \ {p} : run'.step[q] = run.step[q]
  BY ZenonT(40), <1>1, FailedFacts
<1>3. /\ hidden' \in [Paths -> Files \cup {Absent}]
      /\ \A q \in Paths \ {p} : hidden'[q] = hidden[q]
  BY <1>1 DEF TypeOK
<1>4. TypeOK'
  BY <1>1, <1>2, <1>3, TypeAgain DEF TypeOK
<1>5. /\ Vouched(p)' = Vouched(p) /\ LooksAsRecorded(p)' = LooksAsRecorded(p)
      /\ Known(p)' = Known(p) /\ Wants(p)' = Wants(p)
      /\ Holds(p, state.files[p].bytes)' = Holds(p, state.files[p].bytes)
      /\ Holds(p, run.files[p].bytes)' = Holds(p, run.files[p].bytes)
  BY <1>1, <1>2 DEF Vouched, LooksAsRecorded, Known, Wants, Holds, LookOf, Written
<1>6. disk[p] = Absent => ~LooksAsRecorded(p)
  BY <1>1, RunFacts, RecordFacts DEF LooksAsRecorded, LookOf, Working
<1>7. Fine(p)'
  BY <1>1, <1>2, <1>5, <1>6 DEF Fine
<1>q. QED BY <1>1, <1>2, <1>3, <1>4, <1>7, OnePath

LEMMA PutFailsKeeps ==
  ASSUME IInv, NEW p \in Paths, PutFails(p)
  PROVE  IInv'
<1>q. QED BY PlaceFailsKeeps DEF PutFails

LEMMA PublishFailsKeeps ==
  ASSUME IInv, NEW p \in Paths, PublishFails(p)
  PROVE  IInv'
<1>q. QED BY PlaceFailsKeeps DEF PublishFails

LEMMA PublishKeeps ==
  ASSUME IInv, NEW p \in Paths, Publish(p)
  PROVE  IInv'
<1>1. /\ pc \in Working /\ pc = "place" /\ TypeOK /\ run \in Run /\ Fine(p)
      /\ run.step[p] = "flushed" /\ disk' = [disk EXCEPT ![p] = hidden[p]]
      /\ hidden' = [hidden EXCEPT ![p] = Absent]
      /\ UNCHANGED <<project, now, state, pc, touched, late, edits>>
      /\ "named" \in Steps /\ run' = [run EXCEPT !.step[p] = "named"]
  BY WhileWorking DEF Publish, Working, Steps, IInv
<1>2. /\ run' \in Run /\ run'.kind = run.kind /\ run'.force = run.force /\ run'.lock = run.lock
      /\ run'.disk = run.disk /\ run'.files = run.files /\ run'.failed = run.failed
      /\ run'.kept = run.kept /\ run'.step[p] = "named"
      /\ \A q \in Paths \ {p} : run'.step[q] = run.step[q]
  BY <1>1, StepFacts
<1>3. /\ Wants(p) /\ hidden[p] # Absent /\ hidden[p].bytes = run.lock[p] /\ hidden[p].durable
      /\ Written <= hidden[p].look.modified /\ hidden[p] \in Files
  BY <1>1 DEF Fine, TypeOK
<1>4. /\ disk' \in [Paths -> Files \cup {Absent}] /\ hidden' \in [Paths -> Files \cup {Absent}]
      /\ disk'[p] = hidden[p]
      /\ \A q \in Paths \ {p} : disk'[q] = disk[q] /\ hidden'[q] = hidden[q]
  BY <1>1 DEF TypeOK
<1>5. TypeOK'
  BY <1>1, <1>2, <1>4, TypeAgain DEF TypeOK
<1>6. ~Vouched(p)'
  <2>1. Written' = Written /\ LookOf(disk[p])' = hidden[p].look
    BY <1>1, <1>3, <1>4 DEF Written, LookOf
  <2>2. Written \in Nat /\ hidden[p].look.modified \in Nat
    BY <1>1, <1>3, TimeFacts, LookFacts
  <2>q. QED BY <1>3, <2>1, <2>2 DEF Vouched
<1>7. Holds(p, run.lock[p])' /\ Wants(p)' /\ Wants(p)
  BY <1>2, <1>3, <1>4 DEF Holds, Wants
<1>8. Fine(p)'
  BY <1>1, <1>2, <1>3, <1>4, <1>6, <1>7 DEF Fine
<1>q. QED BY <1>1, <1>2, <1>4, <1>5, <1>8, OnePath

LEMMA LookPlacedKeeps ==
  ASSUME IInv, NEW p \in Paths, LookPlaced(p)
  PROVE  IInv'
<1>1. /\ pc \in Working /\ pc = "place" /\ TypeOK /\ run \in Run /\ Fine(p)
      /\ run.step[p] = "named"
      /\ UNCHANGED <<project, now, disk, hidden, state, pc, touched, late, edits>>
  BY WhileWorking DEF LookPlaced, Working, IInv
<1>2. CASE disk[p] = Absent
  BY <1>1, <1>2, PlaceFailsKeeps DEF LookPlaced
<1>3. CASE disk[p] # Absent
  <2> DEFINE record == Record(run.lock[p], LookOf(disk[p]))
  <2>1. Wants(p) /\ run.lock[p] \in Upstream
    BY <1>1, RunFacts DEF Fine, Working
  <2>2. record \in Records /\ record.bytes = run.lock[p] /\ record.look = LookOf(disk[p])
        /\ record # None
    <3>1. LookOf(disk[p]) \in Looks
      BY <1>1, <1>3, DiskFacts
    <3>2. record \in Records
      BY <2>1, <3>1 DEF Record, Records, Looks
    <3>q. QED BY <1>1, <3>2, RecordFacts DEF Record
  <2>3. run' = [run EXCEPT !.step[p] = "done", !.changed = TRUE, !.files[p] = record]
    BY <1>3 DEF LookPlaced
  <2> HIDE DEF record
  <2>4. /\ run' \in Run /\ run'.kind = run.kind /\ run'.force = run.force /\ run'.lock = run.lock
        /\ run'.disk = run.disk /\ run'.failed = run.failed /\ run'.kept = run.kept
        /\ run'.step[p] = "done" /\ run'.files[p] = record
        /\ \A q \in Paths \ {p} : run'.step[q] = run.step[q] /\ run'.files[q] = run.files[q]
    <3>1. /\ run.step \in [Paths -> Steps] /\ run.files \in [Paths -> Records \cup {None}]
          /\ "done" \in Steps
      BY <1>1 DEF Run, Recorded, Steps
    <3>2. /\ [run.step EXCEPT ![p] = "done"] \in [Paths -> Steps]
          /\ [run.files EXCEPT ![p] = record] \in [Paths -> Records \cup {None}]
      BY <2>2, <3>1
    <3>3. run' \in Run
      BY <1>1, <2>3, <3>2 DEF Run, Recorded
    <3>q. QED BY <1>1, <2>3, <3>1, <3>3 DEF Run
  <2>5. TypeOK'
    BY <1>1, <2>4, TypeAgain DEF TypeOK
  <2>6. /\ Vouched(p)' = Vouched(p) /\ Known(p)' /\ Wants(p)'
        /\ Holds(p, state.files[p].bytes)' = Holds(p, state.files[p].bytes)
        /\ Holds(p, run.files[p].bytes)' = Holds(p, run.lock[p])
    BY <1>1, <2>1, <2>2, <2>4 DEF Vouched, Known, Wants, Holds, LookOf, Written
  <2>7. Fine(p)'
    BY <1>1, <1>3, <2>2, <2>4, <2>6 DEF Fine
  <2>q. QED BY <1>1, <2>4, <2>5, <2>7, OnePath
<1>q. QED BY <1>2, <1>3

\* A step of a command that leaves the data folder and what is recorded as they are, at all paths.
LEMMA AllPaths ==
  ASSUME IInv, pc \in Working, pc' \in Working, TypeOK', run'.kind = run.kind,
         run'.force = run.force, run'.lock = run.lock, run'.disk = run.disk, run'.files = run.files,
         UNCHANGED <<project, now, disk, state, touched, late>>,
         \A p \in Paths :
            /\ \/ run'.step[p] = run.step[p]
               \/ run'.step[p] = "flushed" /\ run.step[p] = "staged" /\ hidden'[p].durable
               \/ run'.step[p] = "done" /\ run.step[p] # "named" /\ run'.failed
            /\ run'.step[p] \in {"staged", "flushed"} =>
                  /\ pc' = pc /\ hidden'[p] # Absent /\ hidden'[p].bytes = hidden[p].bytes
                  /\ hidden'[p].look = hidden[p].look
                  /\ hidden[p].durable => hidden'[p].durable
            /\ run'.step[p] = "named" => pc' = pc,
         run.failed => run'.failed, run'.kept = run.kept
  PROVE  IInv'
<1>1. Written' = Written /\ FileTime' = FileTime /\ CompleteIsSynced' = CompleteIsSynced
  BY DEF Written, FileTime, Stamp, CompleteIsSynced
<1>2. ASSUME NEW p \in Paths PROVE Fine(p)'
  <2>1. Fine(p)
    BY WhileWorking
  <2>2. /\ Holds(p, state.files[p].bytes)' = Holds(p, state.files[p].bytes)
        /\ Holds(p, run.lock[p])' = Holds(p, run.lock[p])
        /\ Holds(p, run.files[p].bytes)' = Holds(p, run.files[p].bytes)
    BY DEF Holds
  <2>3. /\ Vouched(p)' = Vouched(p) /\ LooksAsRecorded(p)' = LooksAsRecorded(p)
        /\ LooksAsSeen(p)' = LooksAsSeen(p) /\ MayTake(p)' = MayTake(p)
        /\ Known(p)' = Known(p) /\ Wants(p)' = Wants(p)
    BY <1>1 DEF Vouched, LooksAsRecorded, LooksAsSeen, MayTake, Known, Wants, LookOf
  <2>4. CASE run'.step[p] = run.step[p]
    BY <1>1, <2>1, <2>2, <2>3, <2>4 DEF Fine
  <2>5. CASE run'.step[p] = "flushed" /\ run.step[p] = "staged" /\ hidden'[p].durable
    BY <1>1, <2>1, <2>2, <2>3, <2>5 DEF Fine
  <2>6. CASE run'.step[p] = "done" /\ run.step[p] # "named" /\ run'.failed
    BY <1>1, <2>1, <2>2, <2>3, <2>6 DEF Fine
  <2>q. QED BY <2>4, <2>5, <2>6
<1>q. QED BY <1>1, <1>2, WhileWorking, WorkingAgain

LEMMA SweepKeeps == ASSUME IInv, Sweep PROVE IInv'
<1>a. pc \in Working /\ TypeOK
  BY DEF Sweep, Working, IInv
<1>1. /\ run \in Run /\ pc' = "place" /\ pc' \in Working /\ pc = "unwanted"
      /\ UNCHANGED <<project, now, disk, state, run, touched, late, edits>>
      /\ hidden' = hidden \/ hidden' = Empty
  <2>1. hidden' = hidden \/ hidden' = Empty
    BY DEF Sweep
  <2>q. QED BY <1>a, <2>1, WhileWorking DEF Sweep, Working, Go
<1>2. TypeOK'
  BY <1>a, <1>1, TypeAgain DEF TypeOK, Empty
<1>3. \A p \in Paths : run.step[p] \notin {"staged", "flushed", "named"}
  BY <1>a, <1>1, WhileWorking DEF Fine
<1>q. QED BY <1>a, <1>1, <1>2, <1>3, AllPaths

LEMMA FlushKeeps == ASSUME IInv, Flush PROVE IInv'
<1> DEFINE hid == [p \in Paths |-> IF p \in Staged THEN [hidden[p] EXCEPT !.durable = TRUE]
                                   ELSE hidden[p]]
           steps == [p \in Paths |-> IF p \in Staged THEN "flushed" ELSE run.step[p]]
<1>1. /\ pc \in Working /\ pc' = pc /\ TypeOK /\ run \in Run /\ \A p \in Paths : Fine(p)
      /\ UNCHANGED <<project, now, disk, state, touched, late, edits>>
      /\ hidden' = hid
  BY WhileWorking DEF Flush, Working, IInv
<1>2. run' = [run EXCEPT !.step = steps]
  BY DEF Flush
<1>3. steps \in [Paths -> Steps]
  BY <1>1 DEF Run, Steps
<1> HIDE DEF steps
<1>4. /\ run' \in Run /\ run'.kind = run.kind /\ run'.force = run.force /\ run'.lock = run.lock
      /\ run'.disk = run.disk /\ run'.files = run.files /\ run'.failed = run.failed
      /\ run'.kept = run.kept /\ run'.step = steps
  BY <1>1, <1>2, <1>3 DEF Run
<1>5. ASSUME NEW p \in Staged
      PROVE  /\ p \in Paths /\ run.step[p] = "staged" /\ steps[p] = "flushed"
             /\ hidden'[p] \in Files /\ hidden'[p] # Absent /\ hidden'[p].durable
             /\ hidden'[p].bytes = hidden[p].bytes /\ hidden'[p].look = hidden[p].look
  <2>1. p \in Paths /\ run.step[p] = "staged" /\ hidden[p] \in Files
    BY <1>1 DEF Staged, Fine, TypeOK
  <2>2. hidden'[p] = [hidden[p] EXCEPT !.durable = TRUE] /\ steps[p] = "flushed"
    BY <1>1, <2>1 DEF steps
  <2>q. QED BY <1>1, <2>1, <2>2, LookFacts DEF Files
<1>6. ASSUME NEW p \in Paths \ Staged PROVE hidden'[p] = hidden[p] /\ steps[p] = run.step[p]
  BY <1>1 DEF steps
<1>7. hidden' \in [Paths -> Files \cup {Absent}]
  <2>1. \A p \in Paths : hid[p] \in Files \cup {Absent}
    BY <1>1, <1>5, <1>6 DEF TypeOK
  <2>q. QED BY <1>1, <2>1
<1> HIDE DEF hid
<1>8. TypeOK'
  BY <1>1, <1>4, <1>7, TypeAgain DEF TypeOK
<1>9. ASSUME NEW p \in Paths \ Staged PROVE run.step[p] \in {"staged", "flushed"} => hidden[p] # Absent
  BY <1>1 DEF Fine
<1>q. QED BY <1>1, <1>4, <1>5, <1>6, <1>8, <1>9, AllPaths

LEMMA FlushFailsKeeps == ASSUME IInv, FlushFails PROVE IInv'
<1> DEFINE steps == [p \in Paths |-> "done"]
<1>1. /\ pc \in Working /\ pc' = pc /\ TypeOK /\ run \in Run
      /\ UNCHANGED <<project, now, disk, state, touched, late, edits>>
      /\ hidden' = [p \in Paths |-> IF p \in Staged THEN Absent ELSE hidden[p]]
      /\ \A p \in Paths : run.step[p] # "named"
  BY WhileWorking DEF FlushFails, Working, IInv, All
<1>2. run' = [run EXCEPT !.step = steps, !.failed = TRUE]
  BY DEF FlushFails
<1>3. steps \in [Paths -> Steps] /\ \A p \in Paths : steps[p] = "done"
  BY DEF Steps
<1> HIDE DEF steps
<1>4. /\ run' \in Run /\ run'.kind = run.kind /\ run'.force = run.force /\ run'.lock = run.lock
      /\ run'.disk = run.disk /\ run'.files = run.files /\ run'.failed
      /\ run'.kept = run.kept /\ run'.step = steps
  BY <1>1, <1>2, <1>3 DEF Run
<1>5. hidden' \in [Paths -> Files \cup {Absent}]
  BY <1>1 DEF TypeOK
<1>6. TypeOK'
  BY <1>1, <1>4, <1>5, TypeAgain DEF TypeOK
<1>q. QED BY <1>1, <1>3, <1>4, <1>6, AllPaths

-----------------------------------------------------------------------------
(* The end of a command                                                    *)
-----------------------------------------------------------------------------

\* Nothing torn by a power cut was flushed, and no file of the folder was not.
LEMMA TearFacts ==
  ASSUME IInv
  PROVE  /\ Tear(disk) = disk /\ Tear(hidden) \in [Paths -> Files \cup {Absent}]
<1>1. TypeOK /\ NamesAreWhole
  BY DEF IInv
<1>2. Tear(disk) = disk
  BY <1>1 DEF Tear, NamesAreWhole, TypeOK
<1>3. ASSUME NEW p \in Paths, hidden[p] # Absent
      PROVE  [hidden[p] EXCEPT !.bytes = Torn] \in Files
  <2>1. hidden[p] \in Files
    BY <1>1, <1>3 DEF TypeOK
  <2>q. QED BY <2>1 DEF Files
<1>4. Tear(hidden) \in [Paths -> Files \cup {Absent}]
  BY <1>1, <1>3 DEF Tear, TypeOK
<1>q. QED BY <1>2, <1>4

\* A command that ends leaves its project as the state says.
LEMMA QuitKeeps ==
  ASSUME IInv, Quit, UNCHANGED <<project, now, disk, late, edits>>,
         hidden' \in [Paths -> Files \cup {Absent}],
         state' \in [files : Recorded, written : Times, synced : project.locks \cup {None},
                     complete : BOOLEAN],
         (Written <= FileTime)', CompleteIsSynced', StateVouches'
  PROVE  IInv'
<1>1. pc' = "idle" /\ run' = NoRun /\ touched' = {}
  BY DEF Quit
<1>2. TypeOK'
  BY <1>1 DEF IInv, TypeOK, Times, Files, Looks, Recorded, Records
<1>3. NamesAreWhole'
  BY DEF IInv, NamesAreWhole
<1>4. SettledInSync' /\ InTime' /\ SurveyHolds' /\ RecordsHold' /\ TakesRightly' /\ CopiesAreWhole'
      /\ DoneIsRecorded'
  BY <1>1 DEF SettledInSync, InTime, SurveyHolds, RecordsHold, TakesRightly, CopiesAreWhole,
              DoneIsRecorded, Surveying, Working
<1>q. QED BY <1>2, <1>3, <1>4 DEF IInv

\* A command that writes no state changes nothing that outlives it but hidden copies.
LEMMA GivesUpKeeps ==
  ASSUME IInv, Quit, UNCHANGED <<project, now, state, disk, late, edits>>,
         hidden' \in [Paths -> Files \cup {Absent}]
  PROVE  IInv'
<1>1. (Written <= FileTime)' /\ CompleteIsSynced'
  BY DEF IInv, InTime, Written, FileTime, Stamp, CompleteIsSynced
<1>2. StateVouches'
  BY DEF IInv, StateVouches, Vouched, Holds, LookOf, Written
<1>q. QED BY <1>1, <1>2, QuitKeeps DEF IInv, TypeOK

LEMMA EndsKeep == ASSUME IInv, End \/ Fails \/ \E power \in BOOLEAN : Crash(power) PROVE IInv'
<1>1. ASSUME NEW power \in BOOLEAN, Crash(power) PROVE IInv'
  BY <1>1, TearFacts, GivesUpKeeps DEF Crash, IInv, TypeOK
<1>q. QED BY <1>1, GivesUpKeeps DEF End, Fails, IInv, TypeOK

LEMMA WriteStateKeeps == ASSUME IInv, WriteState PROVE IInv'
<1>1. /\ pc \in Working /\ TypeOK /\ run \in Run /\ \A p \in Paths : Fine(p) /\ run.step[p] = "done"
      /\ Quit /\ UNCHANGED <<project, now, disk, hidden, late, edits>>
  BY WhileWorking DEF WriteState, Working, IInv, All
<1>2. CASE state' = state
  BY <1>1, <1>2, GivesUpKeeps DEF TypeOK
<1>3. CASE state' = Outcome
  <2>1. /\ state'.files = run.files /\ state'.written = OwnTime
        /\ state'.complete => run.kind = "sync" /\ ~run.failed /\ ~run.kept /\ state'.synced = run.lock
    BY <1>1, <1>3 DEF Outcome, Run
  <2>2. state' \in [files : Recorded, written : Times, synced : project.locks \cup {None},
                    complete : BOOLEAN]
    BY <1>1, <1>3, TimeFacts DEF Outcome, Run
  <2>3. (Written <= FileTime)'
    <3>1. /\ Written' = IF ~project.apart THEN OwnTime ELSE IF OwnTime < 2 THEN 0 ELSE OwnTime - 2
          /\ FileTime' = FileTime
      BY <1>1, <2>1 DEF Written, Coarse, FileTime, Stamp
    <3>q. QED BY <1>1, <3>1, TimeFacts
  <2>4. CompleteIsSynced'
    BY <1>1, <2>1 DEF CompleteIsSynced, Fine, Known, Wants
  <2>5. StateVouches'
    <3>1. ASSUME NEW p \in Paths, Vouched(p)' PROVE Holds(p, run.files[p].bytes) \/ p \in late
      <4>1. LooksAsRecorded(p)
        BY <1>1, <2>1, <3>1 DEF Vouched, LooksAsRecorded, Known, LookOf
      <4>q. QED BY <1>1, <4>1 DEF Fine
    <3>q. QED BY <1>1, <2>1, <3>1 DEF StateVouches, Holds
  <2>q. QED BY <1>1, <2>2, <2>3, <2>4, <2>5, QuitKeeps DEF TypeOK
<1>q. QED BY <1>2, <1>3 DEF WriteState

-----------------------------------------------------------------------------
(* The survey and the decision                                             *)
-----------------------------------------------------------------------------

\* A step of the survey keeps what no command's work is about.
LEMMA Surveys ==
  ASSUME IInv, pc' \in Surveying, TypeOK', SurveyHolds', SettledInSync',
         UNCHANGED <<project, now, disk, state, late>>
  PROVE  IInv'
<1>1. pc' \notin Working /\ pc' # "place"
  BY DEF Surveying, Working
<1>2. RecordsHold' /\ TakesRightly' /\ CopiesAreWhole' /\ DoneIsRecorded'
  BY <1>1 DEF RecordsHold, TakesRightly, CopiesAreWhole, DoneIsRecorded
<1>3. InTime' /\ CompleteIsSynced' /\ NamesAreWhole'
  BY <1>1 DEF IInv, InTime, Written, FileTime, Stamp, CompleteIsSynced, NamesAreWhole
<1>4. StateVouches'
  BY DEF IInv, StateVouches, Vouched, Holds, LookOf, Written
<1>q. QED BY <1>2, <1>3, <1>4 DEF IInv

LEMMA BeginKeeps ==
  ASSUME IInv, NEW kind \in {"sync", "remove"}, NEW force \in BOOLEAN, NEW l \in project.locks,
         Begin(kind, force, l)
  PROVE  IInv'
<1>1. /\ TypeOK /\ touched = {} /\ pc' = "survey"
      /\ UNCHANGED <<project, now, disk, hidden, state, touched, late, edits>>
  BY DEF Begin, IInv, TypeOK, Go
<1>2. /\ run'.files = state.files /\ run'.disk = [p \in Paths |-> LookOf(disk[p])]
      /\ run'.step = [p \in Paths |-> "done"]
  BY DEF Begin
<1>3. run' \in Run
  <2>1. [p \in Paths |-> LookOf(disk[p])] \in [Paths -> Looks \cup {Absent}]
    BY <1>1, DiskFacts
  <2>2. [p \in Paths |-> "done"] \in [Paths -> Steps] /\ state.files \in Recorded
    BY <1>1 DEF Steps, TypeOK
  <2>q. QED BY <2>1, <2>2 DEF Begin, Run
<1>4. TypeOK'
  BY <1>1, <1>3, TypeAgain DEF TypeOK, Surveying
<1>5. SurveyHolds'
  <2>1. ASSUME NEW p \in Paths
        PROVE  /\ LookOf(disk[p])' = run'.disk[p]
               /\ LooksAsRecorded(p)' =>
                     Holds(p, run.files[p].bytes)' \/ p \in late' \/ Racy(p)'
    <3>1. LookOf(disk[p])' = run'.disk[p] /\ LookOf(disk[p])' = LookOf(disk[p])
      BY <1>1, <1>2 DEF LookOf
    <3>2. ASSUME LooksAsRecorded(p)' PROVE Racy(p)' \/ Vouched(p)
      <4>1. /\ state.files[p] # None /\ LookOf(disk[p]) = state.files[p].look
            /\ state.files[p] \in Records
        BY <1>1, <1>2, <3>1, <3>2, DiskFacts DEF LooksAsRecorded, Known
      <4>2. SeenAsRecorded(p)' /\ run'.disk[p] = state.files[p].look
        BY <1>2, <3>1, <4>1 DEF SeenAsRecorded, Known
      <4>3. Written' = Written /\ Written \in Nat /\ state.files[p].look.modified \in Nat
        BY <1>1, <4>1, TimeFacts, RecordFacts DEF Written
      <4>q. QED BY <4>1, <4>2, <4>3 DEF Racy, Vouched
    <3>3. Vouched(p) => Holds(p, run.files[p].bytes)' \/ p \in late'
      BY <1>1, <1>2 DEF IInv, StateVouches, Holds
    <3>q. QED BY <3>1, <3>2, <3>3
  <2>q. QED BY <1>1, <1>2, <2>1 DEF SurveyHolds
<1>6. SettledInSync' /\ pc' \in Surveying
  BY <1>1 DEF SettledInSync, Surveying
<1>q. QED BY <1>1, <1>4, <1>5, <1>6, Surveys

LEMMA HashRacyKeeps == ASSUME IInv, HashRacy PROVE IInv'
<1> DEFINE racy == {p \in Paths : Racy(p)}
           edited == {p \in racy : ~Holds(p, run.files[p].bytes)}
<1>1. /\ TypeOK /\ pc = "survey" /\ pc' = "surveyed" /\ run \in Run
      /\ UNCHANGED <<project, now, disk, hidden, state, touched, late, edits>>
      /\ run' = [run EXCEPT !.edited = edited, !.needsWriting = racy # edited]
  BY DEF HashRacy, IInv, TypeOK, Go
<1>2. (racy # edited) \in BOOLEAN /\ edited \subseteq Paths
      /\ \A p \in Paths : Racy(p) => Holds(p, run.files[p].bytes) \/ p \in edited
  <2>1. (racy # edited) \in BOOLEAN
    BY Zenon
  <2>q. QED BY <2>1
<1> HIDE DEF racy, edited
<1>3. /\ run' \in Run /\ run'.files = run.files /\ run'.disk = run.disk /\ run'.step = run.step
      /\ run'.edited = edited
  BY <1>1, <1>2 DEF Run
<1>4. TypeOK'
  BY <1>1, <1>3, TypeAgain DEF TypeOK, Surveying
<1>5. SurveyHolds'
  BY <1>1, <1>2, <1>3 DEF SurveyHolds, IInv, LooksAsRecorded, LooksAsSeen, Known, LookOf, Holds, Surveying
<1>6. SettledInSync' /\ pc' \in Surveying
  BY <1>1 DEF SettledInSync, Surveying
<1>q. QED BY <1>1, <1>4, <1>5, <1>6, Surveys

LEMMA UntouchedKeeps == ASSUME IInv, Untouched PROVE IInv'
<1>1. /\ TypeOK /\ pc = "surveyed" /\ pc' = "settled" /\ run \in Run /\ Settled /\ SurveyHolds
      /\ UNCHANGED <<project, now, disk, hidden, state, run, touched, late, edits>>
  BY DEF Untouched, IInv, TypeOK, Go
<1>2. TypeOK'
  BY <1>1, TypeAgain DEF TypeOK, Surveying
<1>3. SurveyHolds'
  BY <1>1 DEF SurveyHolds, LooksAsRecorded, LooksAsSeen, Known, LookOf, Holds, Surveying
<1>4. SettledInSync'
  <2>1. ASSUME NEW p \in Paths \ (touched \cup late)
        PROVE  IF Wants(p) THEN Holds(p, run.lock[p]) ELSE ~Known(p)
    <3>1. run.files = state.files /\ state.synced = run.lock /\ run.edited = {}
          /\ (Known(p) => SeenAsRecorded(p)) /\ LookOf(disk[p]) = run.disk[p]
      BY <1>1 DEF SurveyHolds, Settled, Surveying
    <3>2. IF Wants(p) THEN Known(p) /\ run.files[p].bytes = run.lock[p] ELSE ~Known(p)
      BY <1>1, <3>1 DEF Settled, IInv, CompleteIsSynced, Wants, Known
    <3>3. Known(p) => Holds(p, run.files[p].bytes)
      BY <1>1, <3>1 DEF SurveyHolds, Surveying, LooksAsRecorded, SeenAsRecorded
    <3>q. QED BY <3>2, <3>3
  <2>q. QED BY <1>1, <2>1 DEF SettledInSync, Wants, Holds, Known
<1>5. pc' \in Surveying
  BY <1>1 DEF Surveying
<1>q. QED BY <1>1, <1>2, <1>3, <1>4, <1>5, Surveys

\* What is recorded of a path once its lock is decided.
LEMMA DecidedFacts ==
  ASSUME IInv, pc = "surveyed", NEW p \in Paths, NEW l \in [Paths -> Upstream \cup {Nothing}]
  PROVE  /\ Decided(p, l) \in Records \cup {None} /\ First(p, l) \in {"look", "put", "done"}
         /\ l[p] = Nothing => Decided(p, l) = None
         /\ Adopts(p, l) => Decided(p, l) # None /\ Decided(p, l).bytes = l[p] /\ Holds(p, l[p])
         /\ l[p] # Nothing /\ ~Adopts(p, l) /\ Known(p) =>
               Decided(p, l) # None /\ Decided(p, l).bytes = run.files[p].bytes
         /\ Decided(p, l) # None /\ LookOf(disk[p]) = Decided(p, l).look =>
               Holds(p, Decided(p, l).bytes) \/ p \in late
<1>1. TypeOK /\ run \in Run /\ SurveyHolds
  BY DEF IInv, TypeOK
<1>2. /\ Known(p) => run.files[p] \in Records
      /\ ~Known(p) => run.files[p] = None
      /\ run.disk[p] \in Looks \cup {Absent} /\ LookOf(disk[p]) \in Looks \cup {Absent}
      /\ l[p] # Nothing => l[p] \in Upstream
  BY <1>1, DiskFacts DEF Known, Run, Recorded
<1>3. Adopts(p, l) => run.disk[p] # Absent /\ Holds(p, l[p]) /\ l[p] # Nothing
  BY DEF Adopts, Action
<1> DEFINE kept == IF l[p] = Nothing THEN None
                   ELSE IF Adopts(p, l) THEN Record(l[p], run.disk[p]) ELSE run.files[p]
<1>4. /\ kept \in Records \cup {None}
      /\ l[p] = Nothing => kept = None
      /\ Adopts(p, l) => kept \in Records /\ kept.bytes = l[p]
      /\ l[p] # Nothing /\ ~Adopts(p, l) => kept = run.files[p]
  <2>1. CASE l[p] = Nothing
    BY <1>3, <2>1
  <2>2. CASE l[p] # Nothing /\ Adopts(p, l)
    <3>1. run.disk[p] \in Looks /\ l[p] \in Upstream
      BY <1>2, <1>3, <2>2
    <3>2. kept = [bytes |-> l[p], look |-> run.disk[p]]
      BY <2>2 DEF Record
    <3>q. QED BY <2>2, <3>1, <3>2 DEF Records, Looks
  <2>3. CASE l[p] # Nothing /\ ~Adopts(p, l)
    BY <1>2, <2>3
  <2>q. QED BY <2>1, <2>2, <2>3
<1>5. Decided(p, l) = IF p \in run.edited /\ kept # None THEN Smudged(kept) ELSE kept
  BY DEF Decided
<1> HIDE DEF kept
<1>6. None \notin Records
  BY <1>1, LookFacts
<1>7. /\ Decided(p, l) \in Records \cup {None} /\ (kept = None <=> Decided(p, l) = None)
      /\ kept # None => Decided(p, l).bytes = kept.bytes
      /\ p \in run.edited /\ kept # None => Decided(p, l).look \notin Looks \cup {Absent}
  <2>1. kept # None => /\ Smudged(kept) \in Records /\ Smudged(kept).bytes = kept.bytes
                       /\ Smudged(kept) # None /\ Smudged(kept).look \notin Looks \cup {Absent}
    BY <1>1, <1>4, RecordFacts
  <2>q. QED BY <1>4, <1>5, <2>1
<1>8. ASSUME Decided(p, l) # None, LookOf(disk[p]) = Decided(p, l).look
      PROVE  Holds(p, Decided(p, l).bytes) \/ p \in late
  <2>1. kept # None /\ p \notin run.edited /\ Decided(p, l) = kept
    BY <1>2, <1>5, <1>7, <1>8
  <2>2. CASE Adopts(p, l)
    BY <1>3, <1>4, <2>1, <2>2
  <2>3. CASE ~Adopts(p, l)
    <3>1. kept = run.files[p] /\ LooksAsRecorded(p)
      BY <1>4, <1>8, <2>1, <2>3 DEF LooksAsRecorded, Known
    <3>q. QED BY <1>1, <2>1, <3>1 DEF SurveyHolds, Surveying
  <2>q. QED BY <2>2, <2>3
<1>9. First(p, l) \in {"look", "put", "done"}
  BY DEF First
<1>q. QED BY <1>3, <1>4, <1>6, <1>7, <1>8, <1>9 DEF Known

\* What is done first at a path is right, and a path nothing is done at is recorded or left.
LEMMA FirstFacts ==
  ASSUME IInv, pc = "surveyed", NEW p \in Paths, NEW l \in [Paths -> Upstream \cup {Nothing}]
  PROVE  /\ First(p, l) = "put" => l[p] # Nothing
         /\ First(p, l) = "look" /\ LooksAsSeen(p) => MayTake(p)
         /\ First(p, l) = "done" /\ l[p] # Nothing /\ run.kind = "sync" =>
               \/ Adopts(p, l) \/ Leaves(p, l)
               \/ Known(p) /\ run.files[p].bytes = l[p] /\ ~Adopts(p, l)
<1>1. TypeOK /\ run \in Run /\ SurveyHolds /\ pc # "idle"
  BY DEF IInv, TypeOK
<1>2. First(p, l) = "put" => l[p] # Nothing
  BY DEF First
<1>3. ASSUME First(p, l) = "look", LooksAsSeen(p) PROVE MayTake(p)
  <2>1. Unchanged(p) \/ run.force
    BY <1>3 DEF First, Action
  <2>2. CASE Unchanged(p)
    <3>1. LooksAsRecorded(p) /\ p \notin run.edited
      BY <1>3, <2>2 DEF LooksAsRecorded, LooksAsSeen, Unchanged, SeenAsRecorded
    <3>2. Holds(p, run.files[p].bytes) \/ p \in late
      BY <1>1, <3>1 DEF SurveyHolds, Surveying
    <3>3. run.files[p].bytes \in Upstream
      BY <1>1, <3>1, RunFacts DEF LooksAsRecorded
    <3>q. QED BY <3>2, <3>3, ContentsAssumption DEF MayTake, Holds
  <2>3. CASE run.force
    BY <1>1, <1>3, <2>3 DEF SurveyHolds, Surveying, MayTake
  <2>q. QED BY <2>1, <2>2, <2>3
<1>4. ASSUME First(p, l) = "done", l[p] # Nothing, run.kind = "sync"
      PROVE  \/ Adopts(p, l) \/ Leaves(p, l)
             \/ Known(p) /\ run.files[p].bytes = l[p] /\ ~Adopts(p, l)
  <2>1. Action(p, l[p]) \notin {"Place", "Replace"}
    BY <1>4 DEF First
  <2>2. \/ Action(p, l[p]) = "Adopt" \/ Action(p, l[p]) = "Leave"
        \/ Unchanged(p) /\ run.files[p].bytes = l[p] /\ Action(p, l[p]) = "Keep"
    BY <2>1 DEF Action
  <2>q. QED BY <1>4, <2>2 DEF Adopts, Leaves, Unchanged, SeenAsRecorded
<1>q. QED BY <1>2, <1>3, <1>4

LEMMA DecideKeeps ==
  ASSUME IInv, NEW l \in project.locks, Decide(l)
  PROVE  IInv'
<1> DEFINE steps == [p \in Paths |-> First(p, l)]
           files == [p \in Paths |-> Decided(p, l)]
           changed == \/ run.needsWriting
                      \/ \E p \in Paths : Adopts(p, l) \/ (l[p] = Nothing /\ Known(p))
           left == \E p \in Paths : Leaves(p, l)
<1>1. /\ TypeOK /\ pc = "surveyed" /\ pc' = "unwanted" /\ pc' \in Working /\ run \in Run
      /\ l \in [Paths -> Upstream \cup {Nothing}]
      /\ UNCHANGED <<project, now, disk, hidden, state, touched, late, edits>>
  BY ProjectFacts DEF Decide, IInv, TypeOK, Go, Working
<1>2. run' = [run EXCEPT !.lock = l, !.step = steps, !.files = files, !.edited = {},
                         !.needsWriting = FALSE, !.changed = changed, !.kept = left]
  BY DEF Decide
<1>3. changed \in BOOLEAN /\ left \in BOOLEAN
  <2>1. changed \in BOOLEAN
    BY Zenon
  <2>2. left \in BOOLEAN
    BY Zenon
  <2>q. QED BY <2>1, <2>2
<1>4. steps \in [Paths -> Steps] /\ files \in Recorded
  BY <1>1, DecidedFacts DEF Steps, Recorded
<1>5. left <=> \E p \in Paths : Leaves(p, l)
  OBVIOUS
<1>6. \A p \in Paths : steps[p] = First(p, l) /\ files[p] = Decided(p, l)
  OBVIOUS
<1> HIDE DEF steps, files, changed, left
<1>7. /\ run' \in Run /\ run'.kind = run.kind /\ run'.force = run.force /\ run'.disk = run.disk
      /\ run'.lock = l /\ run'.step = steps /\ run'.files = files /\ run'.kept = left
  BY <1>1, <1>2, <1>3, <1>4 DEF Run
<1>8. TypeOK'
  BY <1>1, <1>7, TypeAgain DEF TypeOK
<1>9. ASSUME NEW p \in Paths PROVE Fine(p)'
  <2>1. /\ disk[p] # Absent => disk[p].durable
        /\ Vouched(p) => Holds(p, state.files[p].bytes) \/ p \in late
    BY DEF IInv, NamesAreWhole, StateVouches
  <2>2. /\ Vouched(p)' = Vouched(p) /\ LooksAsSeen(p)' = LooksAsSeen(p) /\ MayTake(p)' = MayTake(p)
        /\ Holds(p, state.files[p].bytes)' = Holds(p, state.files[p].bytes)
        /\ Holds(p, run.files[p].bytes)' = Holds(p, files[p].bytes)
    BY <1>1, <1>7 DEF Vouched, LooksAsSeen, MayTake, Holds, LookOf, Written
  <2>3. /\ run'.step[p] = First(p, l) /\ run'.step[p] \in {"look", "put", "done"}
        /\ Wants(p)' = (l[p] # Nothing) /\ Known(p)' = (files[p] # None)
        /\ files[p] = Decided(p, l)
    BY <1>1, <1>6, <1>7, DecidedFacts DEF Wants, Known
  <2>4. LooksAsRecorded(p)' => Holds(p, files[p].bytes) \/ p \in late
    BY <1>1, <1>7, <2>3, DecidedFacts DEF LooksAsRecorded, Known, LookOf
  <2>5. /\ run'.step[p] = "look" /\ LooksAsSeen(p) => MayTake(p)
        /\ run'.step[p] = "put" => l[p] # Nothing
    BY <1>1, <2>3, FirstFacts
  <2>6. l[p] = Nothing => files[p] = None
    BY <1>1, <2>3, DecidedFacts
  <2>7. ASSUME l[p] # Nothing, run.kind = "sync", run'.step[p] = "done", ~left
        PROVE  files[p] # None /\ files[p].bytes = l[p]
    <3>1. \/ Adopts(p, l)
          \/ Known(p) /\ run.files[p].bytes = l[p] /\ ~Adopts(p, l)
      BY <1>1, <1>5, <2>3, <2>7, FirstFacts
    <3>q. QED BY <1>1, <2>3, <2>7, <3>1, DecidedFacts
  <2>q. QED BY <1>1, <1>7, <2>1, <2>2, <2>3, <2>4, <2>5, <2>6, <2>7 DEF Fine
<1>10. (Written <= FileTime)' /\ CompleteIsSynced'
  BY <1>1 DEF IInv, InTime, Written, FileTime, Stamp, CompleteIsSynced
<1>q. QED BY <1>1, <1>8, <1>9, <1>10, WorkingAgain

-----------------------------------------------------------------------------
(* The person and the clock                                                *)
-----------------------------------------------------------------------------

\* A file a person changes is not vouched for, and if the command cannot tell, that is known.
LEMMA PersonKeeps ==
  ASSUME IInv, NEW p \in Paths, NEW file \in Files \cup {Absent},
         disk' = [disk EXCEPT ![p] = file],
         file # Absent => file.durable /\ file.look.modified >= Written,
         edits' \in 0 .. project.edits, late' \subseteq Paths,
         touched' = IF pc = "idle" THEN touched ELSE touched \cup {p},
         \A q \in Paths \ {p} : q \in late' <=> q \in late,
         pc # "idle" /\ file # Absent
            /\ (run.step[p] = "take" \/ run.step[p] = "named" \/ run.disk[p] = file.look
                  \/ (Known(p) /\ run.files[p].look = file.look)) => p \in late',
         UNCHANGED <<project, now, hidden, state, pc, run>>
  PROVE  IInv'
<1>1. TypeOK /\ Written' = Written /\ FileTime' = FileTime
  BY DEF IInv, Written, FileTime, Stamp
<1>2. /\ disk' \in [Paths -> Files \cup {Absent}] /\ disk'[p] = file
      /\ \A q \in Paths \ {p} : disk'[q] = disk[q]
  BY <1>1 DEF TypeOK
<1>3. TypeOK'
  BY <1>1, <1>2 DEF TypeOK, Times, Files, Looks, Recorded, Records, Run, NoRun
<1>4. /\ file = Absent => LookOf(disk[p])' = Absent
      /\ file # Absent => LookOf(disk[p])' = file.look
  BY <1>2 DEF LookOf
<1>5. ~Vouched(p)'
  <2>1. state.files[p] # None => state.files[p].look # Absent /\ state.files[p].look.modified \in Nat
    BY <1>1, DiskFacts, RecordFacts
  <2>2. Written \in Nat /\ (file # Absent => file.look.modified \in Nat)
    BY <1>1, TimeFacts, LookFacts
  <2>q. QED BY <1>1, <1>4, <2>1, <2>2 DEF Vouched
<1>6. ASSUME NEW q \in Paths \ {p}
      PROVE  /\ Vouched(q)' = Vouched(q) /\ LooksAsSeen(q)' = LooksAsSeen(q)
             /\ LooksAsRecorded(q)' = LooksAsRecorded(q) /\ MayTake(q)' = MayTake(q)
             /\ \A c : Holds(q, c)' = Holds(q, c)
             /\ LookOf(disk[q])' = LookOf(disk[q])
             /\ q \in touched' <=> q \in touched
  BY <1>1, <1>2 DEF Vouched, LooksAsSeen, LooksAsRecorded, MayTake, Holds, LookOf, Known
<1>7. pc # "idle" => /\ LooksAsSeen(p)' => p \in late'
                     /\ LooksAsRecorded(p)' => p \in late'
                     /\ run.step[p] \in {"take", "named"} /\ disk'[p] # Absent => p \in late'
                     /\ p \in touched'
  <2>1. pc # "idle" /\ Known(p) => run.files[p].look # Absent
    BY <1>1, RunFacts, RecordFacts
  <2>q. QED BY <1>2, <1>4, <2>1 DEF LooksAsSeen, LooksAsRecorded, Known
<1>8. NamesAreWhole' /\ InTime' /\ CompleteIsSynced' /\ CopiesAreWhole' /\ DoneIsRecorded'
  BY <1>1, <1>2 DEF IInv, NamesAreWhole, InTime, CompleteIsSynced, CopiesAreWhole, DoneIsRecorded,
                    Wants, Known
<1>9. StateVouches'
  BY <1>5, <1>6 DEF IInv, StateVouches
<1>10. SettledInSync'
  BY <1>6, <1>7 DEF IInv, SettledInSync, Wants, Known
<1>11. SurveyHolds'
  BY <1>1, <1>6, <1>7 DEF IInv, SurveyHolds, Racy, SeenAsRecorded, Known, Surveying
<1>12. RecordsHold' /\ TakesRightly'
  <2>1. pc \in Working => pc # "idle"
    BY DEF Working
  <2>2. ASSUME p \in late' PROVE MayTake(p)'
    BY <2>2 DEF MayTake
  <2>q. QED BY <1>2, <1>6, <1>7, <2>1, <2>2 DEF IInv, RecordsHold, TakesRightly
<1>q. QED BY <1>3, <1>8, <1>9, <1>10, <1>11, <1>12 DEF IInv

LEMMA EditKeeps ==
  ASSUME IInv, NEW p \in Paths, NEW c \in Own, Edit(p, c)
  PROVE  IInv'
<1> DEFINE file == NewFile(c, TRUE)
<1>1. TypeOK /\ c \in Contents /\ Written <= FileTime
  BY DEF IInv, InTime, Contents
<1>2. /\ file \in Files /\ file # Absent /\ file.durable /\ file.look.modified = FileTime
  BY <1>1, NewFacts
<1>3. /\ disk' = [disk EXCEPT ![p] = file]
      /\ edits' \in 0 .. project.edits
      /\ touched' = IF pc = "idle" THEN touched ELSE touched \cup {p}
      /\ UNCHANGED <<project, now, hidden, state, pc, run>>
  BY <1>1, ProjectFacts DEF Edit, TypeOK
<1> HIDE DEF file
<1>4. disk'[p] = file /\ LookOf(disk'[p]) = file.look
  BY <1>1, <1>2, <1>3 DEF TypeOK, LookOf
<1>5. /\ late' \subseteq Paths /\ \A q \in Paths \ {p} : q \in late' <=> q \in late
      /\ Unseen(p, file.look) => p \in late'
  BY <1>1, <1>4 DEF Edit, TypeOK
<1>6. pc # "idle" => run # NoRun
  BY <1>1, RunFacts
<1>7. pc # "idle" /\ (run.step[p] = "take" \/ run.step[p] = "named" \/ run.disk[p] = file.look
         \/ (Known(p) /\ run.files[p].look = file.look)) => p \in late'
  BY <1>5, <1>6 DEF Unseen, InGap
<1>q. QED BY <1>1, <1>2, <1>3, <1>5, <1>7, PersonKeeps

LEMMA DeleteKeeps ==
  ASSUME IInv, NEW p \in Paths, Delete(p)
  PROVE  IInv'
<1>1. TypeOK /\ edits' \in 0 .. project.edits
  BY ProjectFacts DEF IInv, Delete, TypeOK
<1>2. late' \subseteq Paths /\ \A q \in Paths \ {p} : q \in late' <=> q \in late
  BY <1>1 DEF Delete, TypeOK
<1>q. QED BY <1>1, <1>2, PersonKeeps DEF Delete

LEMMA TickKeeps == ASSUME IInv, Tick PROVE IInv'
<1>1. /\ TypeOK /\ now \in Nat /\ now' = now + 1 /\ now < project.last
      /\ UNCHANGED <<project, disk, hidden, state, pc, run, touched, late, edits>>
      /\ project.file \in 1 .. 2 /\ project.last \in Nat
  BY TimeFacts, ProjectFacts DEF IInv, TypeOK, Tick
<1>2. now' \in Times /\ Times' = Times
  BY <1>1 DEF Times
<1>3. TypeOK'
  BY <1>1, <1>2 DEF TypeOK, Files, Looks, Recorded, Records, Run, NoRun
<1>4. Written' = Written /\ FileTime <= FileTime'
  BY <1>1, StampFacts DEF Written, FileTime, Stamp
<1>5. FileTime' \in Nat /\ FileTime \in Nat /\ Written \in Nat
  <2>1. now' \in Nat
    BY <1>1
  <2>q. QED BY <1>1, <2>1, StampFacts, TimeFacts DEF FileTime, Stamp
<1>6. InTime'
  BY <1>1, <1>4, <1>5 DEF IInv, InTime
<1>7. /\ \A p \in Paths : /\ Vouched(p)' = Vouched(p) /\ LooksAsSeen(p)' = LooksAsSeen(p)
                          /\ LooksAsRecorded(p)' = LooksAsRecorded(p) /\ MayTake(p)' = MayTake(p)
                          /\ Known(p)' = Known(p) /\ Wants(p)' = Wants(p) /\ Racy(p)' = Racy(p)
                          /\ LookOf(disk[p])' = LookOf(disk[p])
                          /\ \A c : Holds(p, c)' = Holds(p, c)
  BY <1>1, <1>4 DEF Vouched, LooksAsSeen, LooksAsRecorded, MayTake, Holds, LookOf, Known, Wants,
                    Racy, SeenAsRecorded
<1>8. NamesAreWhole' /\ CompleteIsSynced' /\ CopiesAreWhole' /\ DoneIsRecorded'
  BY <1>1, <1>7 DEF IInv, NamesAreWhole, CompleteIsSynced, CopiesAreWhole, DoneIsRecorded
<1>9. StateVouches' /\ SettledInSync' /\ SurveyHolds' /\ RecordsHold' /\ TakesRightly'
  BY <1>1, <1>7 DEF IInv, StateVouches, SettledInSync, SurveyHolds, RecordsHold, TakesRightly
<1>q. QED BY <1>3, <1>6, <1>8, <1>9 DEF IInv

\* Nothing is lost while nothing happens.
LEMMA StutterKeeps == ASSUME IInv, UNCHANGED vars PROVE IInv'
<1>1. /\ pc' = pc
      /\ UNCHANGED <<project, now, disk, hidden, state, run, touched, late, edits>>
  BY DEF vars
<1>2. TypeOK'
  BY <1>1 DEF IInv, TypeOK, Times, Files, Looks, Recorded, Records, Run, NoRun
<1>3. Written' = Written /\ FileTime' = FileTime
  BY <1>1 DEF Written, FileTime, Stamp
<1>7. /\ \A p \in Paths : /\ Vouched(p)' = Vouched(p) /\ LooksAsSeen(p)' = LooksAsSeen(p)
                          /\ LooksAsRecorded(p)' = LooksAsRecorded(p) /\ MayTake(p)' = MayTake(p)
                          /\ Known(p)' = Known(p) /\ Wants(p)' = Wants(p) /\ Racy(p)' = Racy(p)
                          /\ LookOf(disk[p])' = LookOf(disk[p])
                          /\ \A c : Holds(p, c)' = Holds(p, c)
  BY <1>1, <1>3 DEF Vouched, LooksAsSeen, LooksAsRecorded, MayTake, Holds, LookOf, Known, Wants,
                    Racy, SeenAsRecorded
<1>8. NamesAreWhole' /\ CompleteIsSynced' /\ CopiesAreWhole' /\ DoneIsRecorded' /\ InTime'
  BY <1>1, <1>3, <1>7 DEF IInv, NamesAreWhole, CompleteIsSynced, CopiesAreWhole, DoneIsRecorded,
                          InTime
<1>9. StateVouches' /\ SettledInSync' /\ SurveyHolds' /\ RecordsHold' /\ TakesRightly'
  BY <1>1, <1>7 DEF IInv, StateVouches, SettledInSync, SurveyHolds, RecordsHold, TakesRightly
<1>q. QED BY <1>2, <1>8, <1>9 DEF IInv

-----------------------------------------------------------------------------
(* The theorems                                                            *)
-----------------------------------------------------------------------------

LEMMA InitOK == Init => IInv
<1> SUFFICES ASSUME Init PROVE IInv
  OBVIOUS
<1>1. project \in Projects /\ now = 0 /\ state = NoState /\ pc = "idle" /\ hidden = Empty
      /\ run = NoRun /\ touched = {} /\ late = {} /\ edits = 0
  BY DEF Init
<1>2. /\ project.last \in Nat /\ project.edits \in Nat /\ project.file \in 1 .. 2
      /\ 0 \in Times
  BY <1>1, ProjectFacts DEF Times
<1>3. \A p \in Paths : disk[p] = Absent \/ (disk[p] \in Files /\ disk[p].durable)
  <2>1. PICK there \in [Paths -> Contents \cup {Absent}] :
          disk = [p \in Paths |-> IF p \notin project.paths \/ there[p] = Absent THEN Absent ELSE
                    [bytes |-> there[p], durable |-> TRUE,
                     look |-> [size |-> Size[there[p]], modified |-> 0]]]
    BY DEF Init
  <2>2. ASSUME NEW p \in Paths, disk[p] # Absent
        PROVE  /\ there[p] \in Contents
               /\ disk[p] = [bytes |-> there[p], durable |-> TRUE,
                             look |-> [size |-> Size[there[p]], modified |-> 0]]
    BY <2>1, <2>2
  <2>3. ASSUME NEW c \in Contents
        PROVE  LET file == [bytes |-> c, durable |-> TRUE,
                            look |-> [size |-> Size[c], modified |-> 0]]
               IN  file \in Files /\ file.durable
    <3>1. [size |-> Size[c], modified |-> 0] \in Looks
      BY <1>2 DEF Looks
    <3>q. QED BY <3>1 DEF Files
  <2>q. QED BY <2>2, <2>3, Zenon
<1>4. disk \in [Paths -> Files \cup {Absent}]
  <2>1. disk = [p \in Paths |-> disk[p]]
    BY DEF Init
  <2>q. QED BY <1>3, <2>1
<1>5. TypeOK
  <2>1. state \in [files : Recorded, written : Times, synced : project.locks \cup {None},
                   complete : BOOLEAN]
    BY <1>1, <1>2 DEF NoState, Recorded
  <2>q. QED BY <1>1, <1>2, <1>4, <2>1 DEF TypeOK, Empty
<1>6. NamesAreWhole
  BY <1>3 DEF NamesAreWhole
<1>7. StateVouches /\ CompleteIsSynced
  BY <1>1 DEF StateVouches, Vouched, CompleteIsSynced, NoState
<1>8. InTime
  <2>1. Written = 0
    BY <1>1 DEF Written, NoState, Coarse
  <2>2. 0 <= FileTime
    BY <1>5, TimeFacts
  <2>q. QED BY <1>1, <2>1, <2>2 DEF InTime
<1>9. SettledInSync /\ SurveyHolds /\ RecordsHold /\ TakesRightly /\ CopiesAreWhole /\ DoneIsRecorded
  BY <1>1 DEF SettledInSync, SurveyHolds, RecordsHold, TakesRightly, CopiesAreWhole,
              DoneIsRecorded, Surveying, Working
<1>q. QED BY <1>5, <1>6, <1>7, <1>8, <1>9 DEF IInv

\* Every step of a command, of the person and of the clock keeps the invariant.
LEMMA StepKeeps == ASSUME IInv, [Next]_vars PROVE IInv'
<1>1. CASE Command
  <2>1. project \in Projects
    BY DEF IInv, TypeOK
  <2>q. QED BY <1>1, BeginKeeps, HashRacyKeeps, UntouchedKeeps, EndsKeep, SweepKeeps, DecideKeeps,
               LookAgainKeeps, TakeKeeps, PutKeeps, PutFailsKeeps, PublishKeeps, PublishFailsKeeps,
               LookPlacedKeeps, FlushKeeps, FlushFailsKeeps, WriteStateKeeps DEF Command
<1>2. CASE Person
  <2>1. project.paths \subseteq Paths
    BY ProjectFacts DEF IInv, TypeOK
  <2>q. QED BY <1>2, <2>1, EditKeeps, DeleteKeeps DEF Person
<1>3. CASE Tick
  BY <1>3, TickKeeps
<1>4. CASE UNCHANGED vars
  BY <1>4, StutterKeeps
<1>q. QED BY <1>1, <1>2, <1>3, <1>4 DEF Next

\* The invariant is inductive: every state of every project's folder satisfies it.
THEOREM Invariance == Spec => []IInv
<1>1. IInv /\ [Next]_vars => IInv'
  BY StepKeeps
<1>q. QED BY InitOK, <1>1, PTL DEF Spec

\* place.rs: no path of the data folder ever names a file the power can still tear.
THEOREM FoldersAreWhole == Spec => []NamesAreWhole
<1>1. IInv => NamesAreWhole
  BY DEF IInv
<1>q. QED BY <1>1, Invariance, PTL

\* project/state.rs: what the state vouches for is so, or a change does not show.
THEOREM RecordsAreTrue == Spec => []StateVouches
<1>1. IInv => StateVouches
  BY DEF IInv
<1>q. QED BY <1>1, Invariance, PTL

\* cli/sync.rs, untouched: a sync that does nothing leaves a folder that is as it is locked.
THEOREM NothingToDo == Spec => []SettledInSync
<1>1. IInv => SettledInSync
  BY DEF IInv
<1>q. QED BY <1>1, Invariance, PTL

\* README.md: sync keeps a person's edits.
THEOREM EditsSurvive == Spec => EditsKept
<1>1. IInv => [\A p \in Paths : Take(p) /\ disk[p].bytes \in Own =>
                  p \in late \/ (run.force /\ p \notin touched)]_vars
  <2>1. ASSUME IInv, NEW p \in Paths, Take(p), disk[p].bytes \in Own
        PROVE  p \in late \/ (run.force /\ p \notin touched)
    <3>1. pc \in Working
      BY <2>1 DEF Take, IInv, TypeOK, SurveyHolds
    <3>2. MayTake(p)
      BY <2>1, <3>1, WhileWorking DEF Take, Fine
    <3>q. QED BY <2>1, <3>2 DEF MayTake
  <2>q. QED BY <2>1
<1>q. QED BY <1>1, Invariance, PTL DEF EditsKept
=============================================================================
