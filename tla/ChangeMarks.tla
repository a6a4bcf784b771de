---------------------------- MODULE ChangeMarks ----------------------------
(***************************************************************************)
(* What becomes of an object that no longer holds its bytes                *)
(* (cache/changed.rs, cache.rs, cli/sync/disk.rs): one hash, the file its  *)
(* name has in the cache, and a project that placed it as a hardlink.      *)
(*                                                                         *)
(* A damaged file shows nothing: whoever hashes it writes a mark, and the  *)
(* times of marks and files say whom the mark doubts.  Runs share the      *)
(* cache, so a mark may land late, and a repair swaps the object between   *)
(* two marks.                                                              *)
(*                                                                         *)
(* Time is in seconds.  A file's time is exact, or rounded to the step of  *)
(* a coarse file system: down on one, up on another.                       *)
(***************************************************************************)
EXTENDS Integers

CONSTANTS
    Workers,    \* runs that share the cache
    Owner,      \* the worker that syncs the project
    Last,       \* bounds the time
    None

VARIABLES
    now,
    up,         \* whether the file system rounds times up, chosen once
    object,     \* the file the hash names in the cache
    link,       \* the file the project has
    shared,     \* whether these are one file
    record,     \* what the project's state says of its file
    mark,       \* changed/<hash>
    pc, job     \* where each run is, and what it knows

vars == <<now, up, object, link, shared, record, mark, pc, job>>

Coarse == 2
Greater(a, b) == IF a > b THEN a ELSE b

\* The time as a file may show it
Stamps == {now, IF up THEN now + (now % Coarse) ELSE now - (now % Coarse)}

\* `found` says that a mark was written while the file was damaged
Sealed(time) == [good |-> TRUE, writable |-> FALSE, modified |-> time, found |-> FALSE]
Damaged(f) == f # None /\ ~f.good
Intact(f) == f # None /\ f.good
Found(f) == IF Damaged(f) THEN [f EXCEPT !.found = TRUE] ELSE f

NoJob == [source |-> None, written |-> None, started |-> None, marks |-> None]

-----------------------------------------------------------------------------
\* Whom a mark doubts

\* The time an object must be newer than to be out of doubt
DoubtSince(m) == IF m.replacement = None THEN m.found ELSE m.replacement - 3 * Coarse

Doubted(f, m) ==
    f.writable \/ (m # None /\ DoubtSince(m) + Coarse >= f.modified)

\* Mutant: the clock's coarseness is forgotten
MayFollowExactly(marked, time) == marked > time

\* A mark may tell of a change after `time`; a placed link was checked as its run's scan began
MayFollow(marked, time) == marked + Coarse > time

LooksPlaced == link # None /\ link.modified = record.modified

\* The project's link, when a mark puts it in doubt
LinkDoubted ==
    /\ LooksPlaced /\ mark # None
    /\ MayFollow(mark.found, Greater(record.modified, record.checked))
    /\ ~(mark.replacement = record.modified /\ shared)

-----------------------------------------------------------------------------
Goto(w, label) == pc' = [pc EXCEPT ![w] = label]
Finish(w) == Goto(w, "idle") /\ job' = [job EXCEPT ![w] = NoJob]
Project == <<link, shared, record>>
Clock == <<now, up>>

Init ==
    /\ now = 0 /\ up \in BOOLEAN
    /\ object = None /\ link = None /\ shared = FALSE /\ record = None /\ mark = None
    /\ pc = [w \in Workers |-> "idle"] /\ job = [w \in Workers |-> NoJob]

\* mark_changed
WriteMark ==
    /\ \E t \in Stamps : mark' = [found |-> t, replacement |-> None]
    /\ object' = Found(object) /\ link' = Found(link)
    /\ UNCHANGED <<shared, record, now, up>>

\* A mark that cannot be written ends the run
MarkFails(w) ==
    /\ pc[w] \in {"mark", "doubt", "distrust"}
    /\ Finish(w)
    /\ UNCHANGED <<Clock, object, Project, mark>>

\* cache verify, or a failed unpack, hashes the object
Verify(w) ==
    /\ w # Owner /\ pc[w] = "idle" /\ Damaged(object)
    /\ Goto(w, "mark")
    /\ UNCHANGED <<Clock, object, Project, mark, job>>

MarkChanged(w) == pc[w] = "mark" /\ WriteMark /\ Finish(w)

-----------------------------------------------------------------------------
\* link_new: a sealed copy of the bytes arrives

Fetch(w) ==
    /\ pc[w] = "fetch" \/ (w # Owner /\ pc[w] = "idle")
    /\ \E t \in Stamps : \E s \in {now, t} :
         job' = [job EXCEPT ![w].source = Sealed(t), ![w].written = s]
    /\ Goto(w, "link")
    /\ UNCHANGED <<Clock, object, Project, mark>>

\* The next step of a run whose bytes are in: the owner places them
Stored(w) ==
    IF w = Owner THEN Goto(w, "place") /\ job' = [job EXCEPT ![w].source = None, ![w].written = None]
    ELSE Finish(w)

LinkNew(w) ==
    /\ pc[w] = "link"
    /\ \/ object = None /\ object' = job[w].source /\ Stored(w)
       \/ Intact(object) /\ Stored(w) /\ UNCHANGED object
       \/ Damaged(object) /\ Goto(w, "doubt") /\ UNCHANGED <<job, object>>
    /\ UNCHANGED <<Clock, Project, mark>>

\* The mark before the swap
Doubt(w) == pc[w] = "doubt" /\ WriteMark /\ Goto(w, "replace") /\ UNCHANGED job

Replace(w) ==
    /\ pc[w] = "replace"
    /\ object' = job[w].source /\ shared' = FALSE
    /\ Goto(w, "remark")
    /\ UNCHANGED <<Clock, link, record, mark, job>>

\* The swap fails: another repair may have made it
ReplaceFails(w) ==
    /\ pc[w] = "replace"
    /\ IF Intact(object) THEN Stored(w) ELSE Finish(w)
    /\ UNCHANGED <<Clock, object, Project, mark>>

\* mark_replaced
MarkReplaced(w) ==
    /\ pc[w] = "remark"
    /\ \E t \in Stamps : mark' = [found |-> t, replacement |-> job[w].written]
    /\ link' = Found(link)
    /\ Stored(w)
    /\ UNCHANGED <<Clock, object, shared, record>>

\* Its failure is ignored, and the object stays in doubt
RemarkFails(w) ==
    /\ pc[w] = "remark" /\ Stored(w)
    /\ UNCHANGED <<Clock, object, Project, mark>>

-----------------------------------------------------------------------------
\* The project's sync

\* The scan starts, the marks are read, and a link in doubt is hashed: an intact one is
\* vouched for as of the scan's start, a changed one is replaced
Survey ==
    /\ pc[Owner] = "idle"
    /\ \/ link = None /\ UNCHANGED Project
       \/ LinkDoubted /\ Damaged(link) /\ link' = None /\ shared' = FALSE /\ record' = None
    /\ job' = [job EXCEPT ![Owner].started = now]
    /\ Goto(Owner, "trust")
    /\ UNCHANGED <<Clock, object, mark>>

Vouch ==
    /\ pc[Owner] = "idle" /\ LinkDoubted /\ Intact(link)
    /\ record' = [record EXCEPT !.checked = now]
    /\ UNCHANGED <<Clock, object, link, shared, mark, pc, job>>

\* audit: a link that was visibly edited has its object hashed, and stays
Audit ==
    /\ pc[Owner] = "idle" /\ link # None /\ ~LooksPlaced /\ Damaged(object)
    /\ Goto(Owner, "mark")
    /\ UNCHANGED <<Clock, object, Project, mark, job>>

\* missing: the marks are read once, before any object is looked at
ReadDoubts ==
    /\ pc[Owner] = "trust"
    /\ job' = [job EXCEPT ![Owner].marks = mark] /\ Goto(Owner, "find")
    /\ UNCHANGED <<Clock, object, Project, mark>>

\* trusted: an object in doubt is hashed, and sealed again or left for a repair
Trusted ==
    /\ pc[Owner] = "find"
    /\ \/ object = None /\ Goto(Owner, "fetch") /\ UNCHANGED <<object, link>>
       \/ /\ object # None /\ ~Doubted(object, job[Owner].marks)
          /\ Goto(Owner, "place") /\ UNCHANGED <<object, link>>
       \/ /\ Intact(object) /\ Doubted(object, job[Owner].marks)
          /\ object' = [object EXCEPT !.writable = FALSE]
          /\ link' = IF shared THEN object' ELSE link
          /\ Goto(Owner, "place")
       \/ /\ Damaged(object) /\ Doubted(object, job[Owner].marks)
          /\ Goto(Owner, "distrust") /\ UNCHANGED <<object, link>>
    /\ UNCHANGED <<Clock, shared, record, mark, job>>

Distrust == pc[Owner] = "distrust" /\ WriteMark /\ Goto(Owner, "fetch") /\ UNCHANGED job

Place ==
    /\ pc[Owner] = "place"
    /\ IF object = None THEN UNCHANGED Project
       ELSE /\ link' = object /\ shared' = TRUE
            /\ record' = [modified |-> object.modified, checked |-> job[Owner].started]
    /\ Finish(Owner)
    /\ UNCHANGED <<Clock, object, mark>>

-----------------------------------------------------------------------------
\* The disk, the clock, people, and gc

\* Bytes change, by an edit through some project's link or on the disk itself; the time and the
\* flag may show it or not.  Not between a repair's swap and its mark
Damages(f) ==
    {[good |-> FALSE, writable |-> w, modified |-> t, found |-> FALSE] :
        w \in BOOLEAN, t \in {f.modified, now}}

DamageObject ==
    /\ Intact(object) /\ \A w \in Workers : pc[w] # "remark"
    /\ object' \in Damages(object)
    /\ link' = IF shared THEN object' ELSE link
    /\ UNCHANGED <<Clock, shared, record, mark, pc, job>>

DamageLink ==
    /\ ~shared /\ Intact(link) /\ \A w \in Workers : pc[w] # "remark"
    /\ link' \in Damages(link)
    /\ UNCHANGED <<Clock, object, shared, record, mark, pc, job>>

\* A person deletes the placed file
Unlink ==
    /\ link # None /\ pc[Owner] = "idle"
    /\ link' = None /\ shared' = FALSE /\ record' = None
    /\ UNCHANGED <<Clock, object, mark, pc, job>>

\* drop_object, an unpacked archive's, while other runs go on
DropObject ==
    /\ object # None /\ object' = None /\ shared' = FALSE
    /\ UNCHANGED <<Clock, link, record, mark, pc, job>>

Tick ==
    /\ now < Last /\ now' = now + 1
    /\ UNCHANGED <<up, object, Project, mark, pc, job>>

\* gc, alone in the cache, forgets a mark when its object is gone and no project needs it
Forget ==
    /\ \A w \in Workers : pc[w] = "idle"
    /\ mark # None /\ object = None /\ link = None
    /\ mark' = None
    /\ UNCHANGED <<Clock, object, Project, pc, job>>

Next ==
    \/ \E w \in Workers :
         \/ Verify(w) \/ MarkChanged(w) \/ MarkFails(w) \/ Fetch(w) \/ LinkNew(w) \/ Doubt(w)
         \/ Replace(w) \/ ReplaceFails(w) \/ MarkReplaced(w) \/ RemarkFails(w)
    \/ Survey \/ Vouch \/ Audit \/ ReadDoubts \/ Trusted \/ Distrust \/ Place
    \/ DamageObject \/ DamageLink \/ Unlink \/ DropObject \/ Tick \/ Forget

Spec == Init /\ [][Next]_vars

-----------------------------------------------------------------------------
\* An object that a mark was written for stays in doubt until another file takes its name,
\* whichever repairs, late marks and rounded times come between (doubted, mark_replaced).
FoundDamageStaysInDoubt ==
    object # None /\ object.found => Doubted(object, mark)

\* A project never goes on trusting its hardlink to a file found damaged: its next survey
\* hashes it, also when the object was repaired before or while the link was placed
\* (Survey::doubted, and the scan's start as the time of the check).
LinkedDamageIsNoticed ==
    pc[Owner] = "idle" /\ LooksPlaced /\ link.found => LinkDoubted

\* A damaged object that was found so stays in doubt until it is replaced, and a project whose file
\* is the damaged object itself notices it when it syncs.
DamageIsNoticed == FoundDamageStaysInDoubt /\ LinkedDamageIsNoticed

-----------------------------------------------------------------------------
\* What makes it so
File == [good : BOOLEAN, writable : BOOLEAN, modified : Int, found : BOOLEAN]
Record == [modified : Int, checked : Int]
Mark == [found : Int, replacement : Int \cup {None}]
Job == [source : File \cup {None}, written : Int \cup {None}, started : Int \cup {None},
        marks : Mark \cup {None}]
Bringing == {"link", "doubt", "replace", "remark"}
Trusting == Bringing \cup {"fetch", "place"}
Syncing == Trusting \cup {"trust", "find", "distrust"}

\* What the values of the constants are
MarksAssumption ==
    /\ Owner \in Workers
    /\ None \notin Int /\ None \notin File /\ None \notin Record /\ None \notin Mark

TypeOK ==
    /\ now \in Int /\ up \in BOOLEAN
    /\ object \in File \cup {None} /\ link \in File \cup {None} /\ shared \in BOOLEAN
    /\ record \in Record \cup {None} /\ mark \in Mark \cup {None}
    /\ pc \in [Workers -> Syncing \cup {"idle", "mark"}] /\ job \in [Workers -> Job]

\* No file is newer than the clock shows, and no check is of a later time
Latest == IF up THEN now + 1 ELSE now
InTime ==
    /\ object # None => object.modified <= Latest
    /\ link # None => link.modified <= Latest /\ record # None
    /\ record # None => record.checked <= now
    /\ \A w \in Workers : job[w].source # None => job[w].source.modified <= Latest
    /\ pc[Owner] \in Syncing => job[Owner].started \in Int /\ job[Owner].started <= now

\* Repairs bring good files, and until the mark after the swap is written the object is good
Repairs ==
    \A w \in Workers :
        /\ pc[w] \in Bringing =>
              /\ job[w].source # None /\ job[w].source.good /\ ~job[w].source.found
              /\ job[w].written \in Int
        /\ pc[w] = "remark" /\ object # None => object.good

OneFile == shared => object # None /\ link = object

\* The mark of an object found damaged is newer than the object, and of no repair
ObjectFound ==
    object # None /\ object.found =>
        /\ ~object.good /\ mark # None /\ mark.replacement = None
        /\ mark.found + Coarse > object.modified

\* The mark of a link found damaged is newer than its last check
LinkFound ==
    link # None /\ link.found =>
        /\ ~link.good /\ mark # None
        /\ link.modified = record.modified =>
              mark.found + Coarse > record.modified /\ mark.found + Coarse > record.checked

\* An object found damaged that the project may go on to place was found after its scan began
FoundSince ==
    object # None /\ object.found =>
        /\ pc[Owner] = "find" =>
              Doubted(object, job[Owner].marks) \/ mark.found + Coarse > job[Owner].started
        /\ pc[Owner] \in Trusting => mark.found + Coarse > job[Owner].started

IInv ==
    /\ TypeOK /\ InTime /\ Repairs /\ OneFile
    /\ ObjectFound /\ LinkFound /\ FoundSince
=============================================================================
