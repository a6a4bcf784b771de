----------------------------- MODULE CacheProofs -----------------------------
(***************************************************************************)
(* What the parts of CacheParts promise, for any number of processes,      *)
(* files, drives and trees: each promise as the run of these parts checks  *)
(* it.  Linking, change marks, the hash of a download, what gc keeps, the  *)
(* commands and archives are proved here, the other parts in modules of    *)
(* their own.                                                              *)
(***************************************************************************)
EXTENDS CacheParts, Integers, FiniteSetTheorems, SequenceTheorems, WellFoundedInduction, TLAPS

\* At the start nothing is learned and nothing copied.
LEMMA InitOK == ASSUME N!LinkingAssumption, N!Init PROVE N!IInv
  BY DEF N!LinkingAssumption, N!Init, N!IInv, N!TypeOK, N!Truth, N!LearnedIsTrue, N!AskedInTurn, N!Copying, N!NeverTheObject

\* The fields of drives and files are booleans.
LEMMA FieldTypes ==
  ASSUME N!LinkingAssumption, N!IInv
  PROVE  /\ drive.reflinks \in BOOLEAN /\ drive.links \in BOOLEAN
         /\ drive.apart \in BOOLEAN /\ drive.synced \in BOOLEAN
         /\ \A o \in Orders : /\ kind[o].writable \in BOOLEAN
                              /\ kind[o].foreign \in BOOLEAN /\ kind[o].taken \in BOOLEAN
  BY DEF N!LinkingAssumption, N!IInv, N!TypeOK

\* The drive and the files stay what they are.
Kept == UNCHANGED <<drive, kind>>

\* A thread starts on a file or reads what was learned of its drive; it is told what is true so far.
LEMMA StartStep ==
  ASSUME N!LinkingAssumption, N!IInv, Kept, NEW o \in Orders, N!Start(o) PROVE N!IInv'
  BY DEF N!LinkingAssumption, Kept, N!IInv, N!TypeOK, N!Truth, N!LearnedIsTrue, N!AskedInTurn, N!Copying, N!NeverTheObject,
         N!Linkable, N!Start, N!Goto, N!learned

\* A reflink is tried, and sealed as a copy of its own, or its refusal is taken for what it says.
LEMMA ReflinkStep ==
  ASSUME N!LinkingAssumption, N!IInv, Kept, NEW o \in Orders, N!Reflink(o) PROVE N!IInv'
<1>1. CASE ~canReflink
  BY <1>1, FieldTypes DEF N!LinkingAssumption, Kept, N!IInv, N!TypeOK, N!Truth, N!LearnedIsTrue,
       N!AskedInTurn, N!Copying, N!NeverTheObject, N!Linkable, N!Goto, N!Ends, N!Reflink
<1>2. CASE canReflink
  <2>1. PICK answer \in N!ReflinkAnswers(o) :
          /\ \/ answer = "made" /\ N!Ends(o, "reflink")
             \/ answer = "exists" /\ N!Ends(o, "failed")
             \/ answer \notin {"made", "exists"} /\ N!Goto(o, "hardlink") /\ UNCHANGED result
          /\ canReflink' \in BOOLEAN /\ (canReflink' <=> answer \notin {"crosses", "refuses"})
          /\ unlucky' = IF answer = "passing" THEN unlucky \cup {o} ELSE unlucky
          /\ UNCHANGED <<canHardlink, otherVolume, probed>>
          /\ pc[o] = "reflink"
    <3>1. PICK answer \in N!ReflinkAnswers(o) :
            /\ CASE answer = "made" -> N!Ends(o, "reflink")
                 [] answer = "exists" -> N!Ends(o, "failed")
                 [] OTHER -> N!Goto(o, "hardlink") /\ UNCHANGED result
            /\ canReflink' = (answer \notin {"crosses", "refuses"})
            /\ unlucky' = IF answer = "passing" THEN unlucky \cup {o} ELSE unlucky
      BY <1>2, Zenon DEF N!Reflink
    <3>2. canReflink' \in BOOLEAN /\ (canReflink' <=> answer \notin {"crosses", "refuses"})
      BY <3>1, Zenon
    <3>3. \/ answer = "made" /\ N!Ends(o, "reflink")
          \/ answer = "exists" /\ N!Ends(o, "failed")
          \/ answer \notin {"made", "exists"} /\ N!Goto(o, "hardlink") /\ UNCHANGED result
      BY <3>1
    <3>q. QED BY <3>1, <3>2, <3>3 DEF N!Reflink
  <2>2. /\ answer = "made" => drive.reflinks /\ ~drive.apart
        /\ answer = "crosses" => drive.apart
        /\ answer = "refuses" => ~drive.reflinks
    BY FieldTypes DEF N!ReflinkAnswers
  <2>3. N!TypeOK'
    BY <2>1 DEF Kept, N!IInv, N!TypeOK, N!Truth, N!Goto, N!Ends
  <2>4. N!LearnedIsTrue'
    BY <2>1, <2>2 DEF Kept, N!IInv, N!LearnedIsTrue
  <2>5. N!AskedInTurn'
    <3>1. \/ pc'[o] = "done" /\ result'[o] \in {"reflink", "failed"}
          \/ /\ pc'[o] = "hardlink" /\ result'[o] = result[o]
             /\ ~drive.reflinks \/ drive.apart \/ o \in unlucky'
      BY <2>1, <2>2 DEF N!ReflinkAnswers, N!IInv, N!TypeOK, N!Goto, N!Ends
    <3>2. /\ \A u \in Orders \ {o} : pc'[u] = pc[u] /\ result'[u] = result[u]
          /\ unlucky \subseteq unlucky' /\ result[o] = Nobody
      BY <2>1 DEF N!IInv, N!TypeOK, N!AskedInTurn, N!Goto, N!Ends
    <3>q. QED BY <2>1, <3>1, <3>2, FieldTypes DEF Kept, N!IInv, N!AskedInTurn, N!Copying, N!Linkable, N!LinkingAssumption
  <2>6. N!NeverTheObject'
    BY <2>1 DEF Kept, N!IInv, N!TypeOK, N!NeverTheObject, N!Goto, N!Ends
  <2>q. QED BY <2>3, <2>4, <2>5, <2>6 DEF N!IInv
<1>q. QED BY <1>1, <1>2 DEF N!IInv, N!TypeOK

\* A hardlink is tried, and what it shares with the object is sealed first.
LEMMA HardlinkStep ==
  ASSUME N!LinkingAssumption, N!IInv, Kept, NEW o \in Orders, N!Hardlink(o) PROVE N!IInv'
<1>1. CASE ~canHardlink \/ kind[o].writable \/ drive.synced
  BY <1>1, FieldTypes DEF N!LinkingAssumption, Kept, N!IInv, N!TypeOK, N!Truth, N!LearnedIsTrue,
       N!AskedInTurn, N!Copying, N!NeverTheObject, N!Linkable, N!Goto, N!Ends, N!Hardlink,
       N!learned
<1>2. CASE ~(~canHardlink \/ kind[o].writable \/ drive.synced)
  <2>1. PICK answer \in N!HardlinkAnswers(o) :
          /\ \/ answer = "made" /\ N!Ends(o, "hardlink")
             \/ answer = "exists" /\ N!Ends(o, "failed")
             \/ answer = "passing" /\ N!Goto(o, "copy") /\ UNCHANGED result
             \/ answer \in {"crosses", "refuses"} /\ N!Goto(o, answer) /\ UNCHANGED result
          /\ UNCHANGED <<canReflink, canHardlink, otherVolume, probed>>
          /\ unlucky' = IF answer = "passing" THEN unlucky \cup {o} ELSE unlucky
          /\ pc[o] = "hardlink"
    BY <1>2 DEF N!Hardlink, N!HardlinkAnswers, N!learned
  <2>2. /\ answer = "made" => drive.links /\ ~drive.apart
        /\ answer = "crosses" => drive.apart
        /\ answer = "refuses" => ~drive.links \/ kind[o].foreign
    BY FieldTypes DEF N!HardlinkAnswers
  <2>q. QED BY <1>2, <2>1, <2>2, FieldTypes DEF N!LinkingAssumption, Kept, N!IInv, N!TypeOK, N!Truth, N!LearnedIsTrue,
       N!AskedInTurn, N!Copying, N!NeverTheObject, N!Linkable, N!Goto, N!Ends
<1>q. QED BY <1>1, <1>2

\* What is learned of a drive is what was just answered, so it stays true.
LEMMA LearnStep ==
  ASSUME N!LinkingAssumption, N!IInv, Kept, NEW o \in Orders, N!Learn(o) PROVE N!IInv'
<1>1. PICK links \in N!Probes :
        /\ probed' = links
        /\ canHardlink' = (canHardlink /\ pc[o] # "crosses" /\ ~N!LearnsNoLinks(pc[o], links))
        /\ otherVolume' = \/ pc[o] = "crosses" /\ links # "none"
                          \/ pc[o] = "refuses" /\ otherVolume /\ ~N!LearnsNoLinks(pc[o], links)
  BY DEF N!Learn
<1>2. /\ pc[o] \in {"crosses", "refuses"} /\ pc' = [pc EXCEPT ![o] = "copy"]
      /\ UNCHANGED <<canReflink, result, unlucky>>
  BY DEF N!Learn, N!Goto
<1>3. links \in {Nobody, N!Truth} /\ (links = "none" => ~drive.links)
  BY FieldTypes DEF N!Probes, N!Truth, N!IInv, N!TypeOK, N!LinkingAssumption
<1>b. otherVolume' \in BOOLEAN /\ canHardlink' \in BOOLEAN
  BY <1>1
<1>p. probed' \in {Nobody, N!Truth'}
  BY <1>1, <1>3 DEF Kept, N!Truth
<1>t. pc' \in [Orders -> {"waits", "reflink", "hardlink", "crosses", "refuses", "copy", "done"}]
  BY <1>2 DEF N!IInv, N!TypeOK
<1>4. N!TypeOK'
  BY <1>2, <1>b, <1>p, <1>t DEF Kept, N!IInv, N!TypeOK
<1>5. /\ otherVolume' => drive.apart
      /\ ~canHardlink' => otherVolume' \/ ~drive.links
      /\ otherVolume => otherVolume' \/ ~drive.links
      /\ pc[o] = "crosses" => otherVolume' \/ ~drive.links
  <2>1. CASE pc[o] = "crosses"
    BY <1>1, <1>3, <2>1 DEF N!IInv, N!AskedInTurn
  <2>2. CASE pc[o] = "refuses"
    BY <1>1, <1>3, <2>2 DEF N!IInv, N!TypeOK, N!LearnedIsTrue, N!LearnsNoLinks
  <2>q. QED BY <1>2, <2>1, <2>2
<1>6. N!LearnedIsTrue'
  BY <1>2, <1>5 DEF Kept, N!IInv, N!LearnedIsTrue
<1>7. N!AskedInTurn'
  BY <1>2, <1>5, FieldTypes DEF Kept, N!IInv, N!TypeOK, N!Truth, N!AskedInTurn, N!Copying, N!Linkable
<1>8. N!NeverTheObject'
  BY <1>2 DEF Kept, N!IInv, N!NeverTheObject
<1>q. QED BY <1>4, <1>6, <1>7, <1>8 DEF N!IInv

\* A copy is made only on the way every link was refused, or this file met a passing error.
LEMMA CopyStep ==
  ASSUME N!LinkingAssumption, N!IInv, Kept, NEW o \in Orders, N!Copy(o) PROVE N!IInv'
  BY FieldTypes DEF N!LinkingAssumption, Kept, N!IInv, N!TypeOK, N!Truth, N!LearnedIsTrue, N!AskedInTurn, N!Copying,
         N!NeverTheObject, N!Linkable, N!Copy, N!Goto, N!Ends, N!learned

\* Nothing is lost while nothing happens.
LEMMA StutterStep == ASSUME N!IInv, UNCHANGED N!vars PROVE N!IInv'
  BY DEF N!vars, N!IInv, N!TypeOK, N!Truth, N!LearnedIsTrue, N!AskedInTurn, N!Copying, N!NeverTheObject, N!Linkable

\* The invariant is inductive.
THEOREM Invariance == ASSUME N!LinkingAssumption PROVE N!Spec => []N!IInv
<1>1. N!Init => N!IInv
  BY InitOK
<1>2. N!IInv /\ [N!Next]_(N!vars) => N!IInv'
  BY StartStep, ReflinkStep, HardlinkStep, LearnStep, CopyStep, StutterStep DEF N!Next, Kept
<1>q. QED BY <1>1, <1>2, PTL DEF N!Spec

\* Whatever files meet, in whatever order: a file is copied only where no link was possible or it
\* met a passing error itself, what is told of copies is so, and no link lets the object be written.
THEOREM LinksOrTells == ASSUME N!LinkingAssumption PROVE N!Spec => []LinkedOrTold
<1>1. ASSUME N!IInv PROVE LinkedOrTold
  <2>1. N!CopiedForAReason
    BY <1>1 DEF N!IInv, N!AskedInTurn, N!Copying, N!CopiedForAReason
  <2>2. N!ToldRight
    BY <1>1, FieldTypes DEF N!IInv, N!TypeOK, N!Truth, N!LearnedIsTrue, N!AskedInTurn, N!Copying, N!ToldRight, N!Unlinked
  <2>q. QED BY <1>1, <2>1, <2>2 DEF N!IInv, N!LinkedOrTold, LinkedOrTold
<1>q. QED BY <1>1, Invariance, PTL

-----------------------------------------------------------------------------
(***************************************************************************)
(* Change marks, for any number of runs and any length of time.            *)
(***************************************************************************)
USE DEF C!Coarse

\* A file's time is a second off at most, and never where it would hide a mark.
LEMMA StampFacts ==
  ASSUME C!TypeOK, NEW t \in C!Stamps
  PROVE  /\ t \in Int /\ t <= C!Latest /\ t + 2 > C!Latest /\ t + 2 > now
         /\ now <= C!Latest /\ C!Latest \in Int
  BY DEF C!TypeOK, C!Stamps, C!Latest

\* What the invariant says of one file that a mark is written for.
LEMMA FoundFile ==
  ASSUME C!MarksAssumption, NEW f \in C!File \cup {Nobody}
  PROVE  /\ C!Found(f) \in C!File \cup {Nobody}
         /\ (C!Found(f) = Nobody) <=> (f = Nobody)
         /\ f # Nobody => /\ C!Found(f).good = f.good /\ C!Found(f).modified = f.modified
                          /\ C!Found(f).writable = f.writable
                          /\ C!Found(f).found => f.found \/ ~f.good
         /\ f # Nobody /\ f.good => C!Found(f) = f
<1>1. CASE f = Nobody
  BY <1>1 DEF C!Found, C!Damaged
<1>2. CASE f # Nobody /\ f.good
  BY <1>2 DEF C!Found, C!Damaged, C!File
<1>3. CASE f # Nobody /\ ~f.good
  <2>1. C!Found(f) = [f EXCEPT !.found = TRUE] /\ f \in C!File
    BY <1>3 DEF C!Found, C!Damaged
  <2>q. QED BY <2>1, <1>3 DEF C!File, C!MarksAssumption
<1>q. QED BY <1>1, <1>2, <1>3

\* A mark is newer than every file and every scan.
LEMMA Written ==
  ASSUME C!MarksAssumption, C!IInv, C!WriteMark
  PROVE  /\ mark' \in C!Mark /\ mark'.replacement = Nobody /\ mark' # Nobody
         /\ mark'.found \in Int /\ mark'.found + 2 > C!Latest /\ mark'.found + 2 > now
         /\ UNCHANGED <<shared, record, now, up>> /\ C!Latest' = C!Latest
         /\ object' \in C!File \cup {Nobody} /\ link' \in C!File \cup {Nobody}
         /\ (object' = Nobody) <=> (object = Nobody)
         /\ (link' = Nobody) <=> (link = Nobody)
         /\ object # Nobody => /\ object'.good = object.good /\ object'.modified = object.modified
                               /\ object'.found => ~object'.good
         /\ link # Nobody => /\ link'.good = link.good /\ link'.modified = link.modified
                             /\ link'.found => ~link'.good
         /\ link = object => link' = object'
<1>1. PICK t \in C!Stamps : mark' = [found |-> t, replacement |-> Nobody]
  BY DEF C!WriteMark
<1>2. object' = C!Found(object) /\ link' = C!Found(link) /\ UNCHANGED <<shared, record, now, up>>
  BY DEF C!WriteMark
<1>3. t \in Int /\ t + 2 > C!Latest /\ t + 2 > now
  BY StampFacts DEF C!IInv
<1>4. object \in C!File \cup {Nobody} /\ link \in C!File \cup {Nobody}
  BY DEF C!IInv, C!TypeOK
<1>5. mark' \in C!Mark /\ mark'.replacement = Nobody /\ mark'.found = t /\ mark' # Nobody
  BY <1>1, <1>3 DEF C!Mark, C!MarksAssumption
<1>6. /\ object # Nobody /\ object.found => ~object.good
      /\ link # Nobody /\ link.found => ~link.good
  BY DEF C!IInv, C!ObjectFound, C!LinkFound
<1>7. C!Latest' = C!Latest
  BY <1>2 DEF C!Latest
<1>8. /\ object' \in C!File \cup {Nobody}
      /\ (object' = Nobody) <=> (object = Nobody)
      /\ object # Nobody => /\ object'.good = object.good /\ object'.modified = object.modified
                            /\ object'.found => ~object'.good
  BY <1>2, <1>4, <1>6, FoundFile
<1>9. /\ link' \in C!File \cup {Nobody}
      /\ (link' = Nobody) <=> (link = Nobody)
      /\ link # Nobody => /\ link'.good = link.good /\ link'.modified = link.modified
                          /\ link'.found => ~link'.good
  BY <1>2, <1>4, <1>6, FoundFile
<1>q. QED BY <1>2, <1>3, <1>5, <1>7, <1>8, <1>9

\* A run that does nothing knows nothing.
LEMMA NoJobType == C!NoJob \in C!Job
  BY DEF C!NoJob, C!Job

\* The newest time a file may show.
LEMMA LatestType == ASSUME C!TypeOK PROVE C!Latest \in Int /\ now <= C!Latest
  BY DEF C!TypeOK, C!Latest

\* Whoever writes a mark makes it newer than what it is about.
LEMMA MarkIsNewer ==
  ASSUME C!MarksAssumption, C!IInv, C!WriteMark PROVE C!ObjectFound' /\ C!LinkFound'
<1>1. C!ObjectFound'
  BY Written, LatestType DEF C!MarksAssumption, C!IInv, C!TypeOK, C!InTime, C!ObjectFound, C!File
<1>2. ASSUME link' # Nobody, link'.found, link'.modified = record'.modified
      PROVE  mark'.found + 2 > record'.modified /\ mark'.found + 2 > record'.checked
  <2>1. link # Nobody /\ record # Nobody /\ record \in C!Record /\ link \in C!File /\ record' = record
    BY <1>2, Written DEF C!IInv, C!TypeOK, C!InTime
  <2>2. link.modified <= C!Latest /\ record.checked <= now /\ record.modified = link.modified
    BY <1>2, <2>1, Written DEF C!IInv, C!InTime
  <2>q. QED BY <2>1, <2>2, Written, LatestType DEF C!IInv, C!TypeOK, C!File, C!Record
<1>3. C!LinkFound'
  BY <1>2, Written DEF C!LinkFound, C!MarksAssumption, C!IInv
<1>q. QED BY <1>1, <1>3

\* At the start nothing is in the cache and nothing is marked.
LEMMA MarksInitOK == ASSUME C!MarksAssumption, C!Init PROVE C!IInv
<1>1. C!TypeOK
  <2>1. pc \in [Sharers -> C!Syncing \cup {"idle", "mark"}] /\ job \in [Sharers -> C!Job]
    BY NoJobType DEF C!Init
  <2>2. now \in Int /\ up \in BOOLEAN
    BY DEF C!Init
  <2>4. shared \in BOOLEAN
    BY Zenon DEF C!Init
  <2>3. object = Nobody /\ link = Nobody /\ record = Nobody /\ mark = Nobody
    BY DEF C!Init
  <2>q. QED BY <2>1, <2>2, <2>3, <2>4 DEF C!TypeOK
<1>2. C!InTime /\ C!Repairs /\ C!OneFile /\ C!ObjectFound /\ C!LinkFound /\ C!FoundSince
  BY DEF C!MarksAssumption, C!Init, C!InTime, C!Repairs, C!OneFile, C!ObjectFound, C!LinkFound,
     C!FoundSince, C!NoJob, C!Syncing, C!Trusting, C!Bringing
<1>q. QED BY <1>1, <1>2 DEF C!IInv

\* A mark that cannot be written ends its run and nothing else.
LEMMA MarkFailsStep ==
  ASSUME C!MarksAssumption, C!IInv, NEW w \in Sharers, C!MarkFails(w) PROVE C!IInv'
  BY DEF C!MarksAssumption, C!IInv, C!TypeOK, C!InTime, C!Latest, C!Repairs, C!OneFile,
     C!ObjectFound, C!LinkFound, C!FoundSince, C!Doubted, C!DoubtSince, C!Syncing, C!Trusting,
     C!Bringing, C!MarkFails, C!Finish, C!Goto, C!NoJob, C!Job, C!Clock, C!Project

\* Looking at an object changes nothing.
LEMMA VerifyStep == ASSUME C!MarksAssumption, C!IInv, NEW w \in Sharers, C!Verify(w) PROVE C!IInv'
  BY DEF C!MarksAssumption, C!IInv, C!TypeOK, C!InTime, C!Latest, C!Repairs, C!OneFile,
     C!ObjectFound, C!LinkFound, C!FoundSince, C!Doubted, C!DoubtSince, C!Syncing, C!Trusting,
     C!Bringing, C!Verify, C!Goto, C!Clock, C!Project

\* A mark for a damaged file is newer than the file and its last check.
LEMMA MarkChangedStep ==
  ASSUME C!MarksAssumption, C!IInv, NEW w \in Sharers, C!MarkChanged(w) PROVE C!IInv'
<1>1. C!TypeOK'
    BY Written DEF C!MarksAssumption, C!IInv, C!TypeOK, C!Syncing, C!Trusting, C!Bringing,
       C!MarkChanged, C!Finish, C!Goto, C!NoJob, C!Job
<1>2. C!InTime'
    BY Written DEF C!MarksAssumption, C!IInv, C!TypeOK, C!InTime, C!Latest, C!Syncing, C!Trusting,
       C!Bringing, C!MarkChanged, C!Finish, C!Goto, C!NoJob, C!Job
<1>3. C!Repairs'
    BY Written DEF C!MarksAssumption, C!IInv, C!TypeOK, C!Repairs, C!Bringing, C!MarkChanged,
       C!Finish, C!Goto, C!NoJob, C!Job
<1>4. C!OneFile'
  BY Written DEF C!MarksAssumption, C!IInv, C!TypeOK, C!OneFile, C!MarkChanged, C!Finish, C!Goto,
     C!NoJob, C!Job
<1>5. C!ObjectFound'
    BY Written, MarkIsNewer DEF C!MarksAssumption, C!IInv, C!TypeOK, C!Repairs, C!ObjectFound,
       C!MarkChanged, C!Finish, C!Goto, C!NoJob, C!Job
<1>6. C!LinkFound'
    BY Written, MarkIsNewer DEF C!MarksAssumption, C!IInv, C!TypeOK, C!InTime, C!Repairs, C!OneFile,
       C!ObjectFound, C!LinkFound, C!MarkChanged, C!Finish, C!Goto, C!NoJob, C!Job
<1>7. C!FoundSince'
    BY Written DEF C!MarksAssumption, C!IInv, C!TypeOK, C!InTime, C!Repairs, C!ObjectFound,
       C!FoundSince, C!Doubted, C!DoubtSince, C!Syncing, C!Trusting, C!Bringing, C!MarkChanged,
       C!Finish, C!Goto, C!NoJob, C!Job
<1>q. QED BY <1>1, <1>2, <1>3, <1>4, <1>5, <1>6, <1>7 DEF C!IInv

\* So is the mark before a swap,
LEMMA DoubtStep == ASSUME C!MarksAssumption, C!IInv, NEW w \in Sharers, C!Doubt(w) PROVE C!IInv'
<1>1. C!TypeOK'
  BY Written DEF C!MarksAssumption, C!IInv, C!TypeOK, C!Syncing, C!Trusting, C!Bringing, C!Doubt,
     C!Goto
<1>2. C!InTime'
    BY Written DEF C!MarksAssumption, C!IInv, C!TypeOK, C!InTime, C!Latest, C!Syncing, C!Trusting,
       C!Bringing, C!Doubt, C!Goto
<1>3. C!Repairs'
  BY Written DEF C!MarksAssumption, C!IInv, C!TypeOK, C!Repairs, C!Bringing, C!Doubt, C!Goto
<1>4. C!OneFile'
  BY Written DEF C!MarksAssumption, C!IInv, C!TypeOK, C!OneFile, C!Doubt, C!Goto
<1>5. C!ObjectFound'
  BY Written, MarkIsNewer DEF C!MarksAssumption, C!IInv, C!TypeOK, C!Repairs, C!ObjectFound,
     C!Doubt, C!Goto
<1>6. C!LinkFound'
    BY Written, MarkIsNewer DEF C!MarksAssumption, C!IInv, C!TypeOK, C!InTime, C!Repairs, C!OneFile,
       C!ObjectFound, C!LinkFound, C!Doubt, C!Goto
<1>7. C!FoundSince'
    BY Written DEF C!MarksAssumption, C!IInv, C!TypeOK, C!InTime, C!Repairs, C!ObjectFound,
       C!FoundSince, C!Doubted, C!DoubtSince, C!Syncing, C!Trusting, C!Bringing, C!Doubt, C!Goto
<1>q. QED BY <1>1, <1>2, <1>3, <1>4, <1>5, <1>6, <1>7 DEF C!IInv

\* and that of an object a sync does not trust: what is found later was found since its scan.
LEMMA DistrustStep == ASSUME C!MarksAssumption, C!IInv, C!Distrust PROVE C!IInv'
<1>1. C!TypeOK'
  BY Written DEF C!MarksAssumption, C!IInv, C!TypeOK, C!Syncing, C!Trusting, C!Bringing, C!Distrust,
     C!Goto
<1>2. C!InTime'
    BY Written DEF C!MarksAssumption, C!IInv, C!TypeOK, C!InTime, C!Latest, C!Syncing, C!Trusting,
       C!Bringing, C!Distrust, C!Goto
<1>3. C!Repairs'
  BY Written DEF C!MarksAssumption, C!IInv, C!TypeOK, C!Repairs, C!Bringing, C!Distrust, C!Goto
<1>4. C!OneFile'
  BY Written DEF C!MarksAssumption, C!IInv, C!TypeOK, C!OneFile, C!Distrust, C!Goto
<1>5. C!ObjectFound'
  BY Written, MarkIsNewer DEF C!MarksAssumption, C!IInv, C!TypeOK, C!Repairs, C!ObjectFound,
     C!Distrust, C!Goto
<1>6. C!LinkFound'
    BY Written, MarkIsNewer DEF C!MarksAssumption, C!IInv, C!TypeOK, C!InTime, C!Repairs, C!OneFile,
       C!ObjectFound, C!LinkFound, C!Distrust, C!Goto
<1>7. C!FoundSince'
    BY Written DEF C!MarksAssumption, C!IInv, C!TypeOK, C!InTime, C!Repairs, C!ObjectFound,
       C!FoundSince, C!Doubted, C!DoubtSince, C!Syncing, C!Trusting, C!Bringing, C!Distrust, C!Goto
<1>q. QED BY <1>1, <1>2, <1>3, <1>4, <1>5, <1>6, <1>7 DEF C!IInv

\* What arrives is good and sealed.
LEMMA FetchStep == ASSUME C!MarksAssumption, C!IInv, NEW w \in Sharers, C!Fetch(w) PROVE C!IInv'
<1>a. /\ UNCHANGED <<C!Clock, object, C!Project, mark>>
      /\ job' \in [Sharers -> C!Job] /\ pc' = [pc EXCEPT ![w] = "link"]
      /\ w # Owner \/ pc[w] = "fetch"
      /\ \E f \in C!File : \E s \in Int :
            /\ job' = [job EXCEPT ![w] = [@ EXCEPT !.source = f, !.written = s]]
            /\ f # Nobody /\ f.good /\ ~f.found /\ f.modified <= C!Latest
  <2>1. PICK t \in C!Stamps : \E s \in {now, t} :
          job' = [job EXCEPT ![w].source = C!Sealed(t), ![w].written = s]
    BY DEF C!Fetch
  <2>2. t \in Int /\ t <= C!Latest /\ now \in Int
    BY StampFacts DEF C!IInv, C!TypeOK
  <2>3. C!Sealed(t).good /\ ~C!Sealed(t).found /\ C!Sealed(t).modified <= C!Latest
    BY <2>2 DEF C!Sealed
  <2>4. C!Sealed(t) \in C!File
    BY <2>2 DEF C!Sealed, C!File
  <2>5. C!Sealed(t) # Nobody
    BY <2>4 DEF C!MarksAssumption
  <2>6. job[w] \in C!Job /\ job \in [Sharers -> C!Job]
    BY DEF C!IInv, C!TypeOK
  <2>7. PICK s \in {now, t} : job' = [job EXCEPT ![w].source = C!Sealed(t), ![w].written = s]
    BY <2>1
  <2>8. job' = [job EXCEPT ![w] = [@ EXCEPT !.source = C!Sealed(t), !.written = s]] /\ s \in Int
    BY <2>2, <2>6, <2>7 DEF C!Job
  <2>9. job' \in [Sharers -> C!Job]
    BY <2>4, <2>6, <2>8 DEF C!Job
  <2>q. QED BY <2>2, <2>3, <2>4, <2>5, <2>8, <2>9 DEF C!Fetch, C!Goto
<1>1. C!TypeOK'
  BY <1>a DEF C!MarksAssumption, C!IInv, C!TypeOK, C!Syncing, C!Trusting, C!Bringing, C!Goto,
     C!Clock, C!Project, C!Job
<1>2. C!InTime'
    BY <1>a DEF C!MarksAssumption, C!IInv, C!TypeOK, C!InTime, C!Latest, C!Syncing, C!Trusting,
       C!Bringing, C!Goto, C!Clock, C!Project
<1>3. C!Repairs'
  BY <1>a DEF C!MarksAssumption, C!IInv, C!TypeOK, C!Repairs, C!Bringing, C!Goto, C!Clock, C!Project
<1>4. C!OneFile'
  BY <1>a DEF C!MarksAssumption, C!IInv, C!TypeOK, C!OneFile, C!Goto, C!Clock, C!Project
<1>5. C!ObjectFound'
  BY <1>a DEF C!MarksAssumption, C!IInv, C!TypeOK, C!Repairs, C!ObjectFound, C!Goto, C!Clock,
     C!Project
<1>6. C!LinkFound'
    BY <1>a DEF C!MarksAssumption, C!IInv, C!TypeOK, C!InTime, C!Repairs, C!OneFile, C!ObjectFound,
       C!LinkFound, C!Goto, C!Clock, C!Project
<1>7. C!FoundSince'
    BY <1>a DEF C!MarksAssumption, C!IInv, C!TypeOK, C!InTime, C!Repairs, C!ObjectFound,
       C!FoundSince, C!Doubted, C!DoubtSince, C!Syncing, C!Trusting, C!Bringing, C!Goto, C!Clock,
       C!Project
<1>q. QED BY <1>1, <1>2, <1>3, <1>4, <1>5, <1>6, <1>7 DEF C!IInv

\* A sealed copy takes an empty name only.
LEMMA LinkNewStep == ASSUME C!MarksAssumption, C!IInv, NEW w \in Sharers, C!LinkNew(w) PROVE C!IInv'
  BY SMTT(30) DEF C!MarksAssumption, C!IInv, C!TypeOK, C!InTime, C!Latest, C!Repairs, C!OneFile,
     C!ObjectFound, C!LinkFound, C!FoundSince, C!Doubted, C!DoubtSince, C!Syncing, C!Trusting,
     C!Bringing, C!LinkNew, C!Stored, C!Finish, C!Goto, C!NoJob, C!Intact, C!Damaged, C!Job,
     C!Clock, C!Project

\* The swap puts a good file there, which the project does not have.
LEMMA ReplaceStep == ASSUME C!MarksAssumption, C!IInv, NEW w \in Sharers, C!Replace(w) PROVE C!IInv'
  BY DEF C!MarksAssumption, C!IInv, C!TypeOK, C!InTime, C!Latest, C!Repairs, C!OneFile,
     C!ObjectFound, C!LinkFound, C!FoundSince, C!Doubted, C!DoubtSince, C!Syncing, C!Trusting,
     C!Bringing, C!Replace, C!Goto, C!Clock, C!Job

\* A failed swap changes no file.
LEMMA ReplaceFailsStep ==
  ASSUME C!MarksAssumption, C!IInv, NEW w \in Sharers, C!ReplaceFails(w) PROVE C!IInv'
  BY SMTT(30) DEF C!MarksAssumption, C!IInv, C!TypeOK, C!InTime, C!Latest, C!Repairs, C!OneFile,
     C!ObjectFound, C!LinkFound, C!FoundSince, C!Doubted, C!DoubtSince, C!Syncing, C!Trusting,
     C!Bringing, C!ReplaceFails, C!Stored, C!Finish, C!Goto, C!NoJob, C!Intact, C!Job, C!Clock,
     C!Project

\* A failed mark after the swap leaves the older one.
LEMMA RemarkFailsStep ==
  ASSUME C!MarksAssumption, C!IInv, NEW w \in Sharers, C!RemarkFails(w) PROVE C!IInv'
<1>1. C!TypeOK'
  BY DEF C!MarksAssumption, C!IInv, C!TypeOK, C!Syncing, C!Trusting, C!Bringing, C!RemarkFails,
     C!Stored, C!Finish, C!Goto, C!NoJob, C!Job, C!Clock, C!Project
<1>2. C!InTime'
  BY DEF C!MarksAssumption, C!IInv, C!TypeOK, C!InTime, C!Latest, C!Syncing, C!Trusting, C!Bringing,
     C!RemarkFails, C!Stored, C!Finish, C!Goto, C!NoJob, C!Job, C!Clock, C!Project
<1>3. C!Repairs'
  BY DEF C!MarksAssumption, C!IInv, C!TypeOK, C!Repairs, C!Bringing, C!RemarkFails, C!Stored,
     C!Finish, C!Goto, C!NoJob, C!Job, C!Clock, C!Project
<1>4. C!OneFile'
  BY DEF C!MarksAssumption, C!IInv, C!TypeOK, C!OneFile, C!RemarkFails, C!Stored, C!Finish, C!Goto,
     C!NoJob, C!Job, C!Clock, C!Project
<1>5. C!ObjectFound'
  BY DEF C!MarksAssumption, C!IInv, C!TypeOK, C!Repairs, C!ObjectFound, C!RemarkFails, C!Stored,
     C!Finish, C!Goto, C!NoJob, C!Job, C!Clock, C!Project
<1>6. C!LinkFound'
  BY DEF C!MarksAssumption, C!IInv, C!TypeOK, C!InTime, C!Repairs, C!OneFile, C!ObjectFound,
     C!LinkFound, C!RemarkFails, C!Stored, C!Finish, C!Goto, C!NoJob, C!Job, C!Clock, C!Project
<1>7. C!FoundSince'
  BY DEF C!MarksAssumption, C!IInv, C!TypeOK, C!InTime, C!Repairs, C!ObjectFound, C!FoundSince,
     C!Doubted, C!DoubtSince, C!Syncing, C!Trusting, C!Bringing, C!RemarkFails, C!Stored, C!Finish,
     C!Goto, C!NoJob, C!Job, C!Clock, C!Project
<1>q. QED BY <1>1, <1>2, <1>3, <1>4, <1>5, <1>6, <1>7 DEF C!IInv

\* The mark after the swap is about the old file, which a project may still have.
LEMMA MarkReplacedStep ==
  ASSUME C!MarksAssumption, C!IInv, NEW w \in Sharers, C!MarkReplaced(w) PROVE C!IInv'
<1>l. C!LinkFound'
  <2>1. PICK t \in C!Stamps : mark' = [found |-> t, replacement |-> job[w].written]
    BY DEF C!MarkReplaced
  <2>2. /\ mark' # Nobody /\ mark'.found = t /\ t + 2 > C!Latest /\ t + 2 > now /\ t \in Int
        /\ C!Latest \in Int
    BY <2>1, StampFacts DEF C!IInv, C!TypeOK, C!Repairs, C!Bringing, C!MarkReplaced, C!Mark,
       C!MarksAssumption
  <2>3. link' = C!Found(link) /\ record' = record /\ link \in C!File \cup {Nobody}
    BY DEF C!MarkReplaced, C!IInv, C!TypeOK
  <2>4. /\ (link' = Nobody) <=> (link = Nobody)
        /\ link # Nobody => /\ link'.modified = link.modified /\ link'.good = link.good
                            /\ link'.found => ~link'.good
    BY <2>3, FoundFile DEF C!IInv, C!LinkFound
  <2>5. link # Nobody => link.modified <= C!Latest /\ record # Nobody /\ record.checked <= now
    BY DEF C!IInv, C!InTime
  <2>q. QED BY <2>2, <2>3, <2>4, <2>5 DEF C!LinkFound, C!IInv, C!TypeOK, C!File, C!Record
<1>1. C!TypeOK'
    BY StampFacts, FoundFile DEF C!MarksAssumption, C!IInv, C!TypeOK, C!Syncing, C!Trusting,
       C!Bringing, C!MarkReplaced, C!Stored, C!Finish, C!Goto, C!NoJob, C!Job, C!Mark, C!Clock,
       C!Repairs
<1>2. C!InTime'
    BY StampFacts, FoundFile DEF C!MarksAssumption, C!IInv, C!TypeOK, C!InTime, C!Latest, C!Syncing,
       C!Trusting, C!Bringing, C!MarkReplaced, C!Stored, C!Finish, C!Goto, C!NoJob, C!Job, C!Mark,
       C!Clock
<1>3. C!Repairs'
    BY StampFacts, FoundFile DEF C!MarksAssumption, C!IInv, C!TypeOK, C!Repairs, C!Bringing,
       C!MarkReplaced, C!Stored, C!Finish, C!Goto, C!NoJob, C!Job, C!Mark, C!Clock
<1>4. C!OneFile'
    BY StampFacts, FoundFile DEF C!MarksAssumption, C!IInv, C!TypeOK, C!OneFile, C!MarkReplaced,
       C!Stored, C!Finish, C!Goto, C!NoJob, C!Job, C!Mark, C!Clock, C!Repairs
<1>5. C!ObjectFound'
    BY StampFacts, FoundFile DEF C!MarksAssumption, C!IInv, C!TypeOK, C!Repairs, C!ObjectFound,
       C!MarkReplaced, C!Stored, C!Finish, C!Goto, C!NoJob, C!Job, C!Mark, C!Clock
<1>6. C!LinkFound'
    BY StampFacts, FoundFile, <1>l DEF C!MarksAssumption, C!IInv, C!TypeOK, C!InTime, C!Repairs,
       C!OneFile, C!ObjectFound, C!LinkFound, C!MarkReplaced, C!Stored, C!Finish, C!Goto, C!NoJob,
       C!Job, C!Mark, C!Clock
<1>7. C!FoundSince'
    BY StampFacts, FoundFile DEF C!MarksAssumption, C!IInv, C!TypeOK, C!InTime, C!Repairs,
       C!ObjectFound, C!FoundSince, C!Doubted, C!DoubtSince, C!Syncing, C!Trusting, C!Bringing,
       C!MarkReplaced, C!Stored, C!Finish, C!Goto, C!NoJob, C!Job, C!Mark, C!Clock
<1>q. QED BY <1>1, <1>2, <1>3, <1>4, <1>5, <1>6, <1>7 DEF C!IInv

\* A scan that starts now is not earlier than any check.
LEMMA SurveyStep == ASSUME C!MarksAssumption, C!IInv, C!Survey PROVE C!IInv'
<1>1. C!TypeOK'
  BY ZenonT(40) DEF C!MarksAssumption, C!IInv, C!TypeOK, C!Syncing, C!Trusting, C!Bringing, C!Survey, C!Goto,
     C!Job, C!Clock, C!Project
<1>2. C!InTime'
  BY DEF C!MarksAssumption, C!IInv, C!TypeOK, C!InTime, C!Latest, C!Syncing, C!Trusting, C!Bringing,
     C!Survey, C!Goto, C!Job, C!Clock, C!Project
<1>3. C!Repairs'
  BY DEF C!MarksAssumption, C!IInv, C!TypeOK, C!Repairs, C!Bringing, C!Survey, C!Goto, C!Job,
     C!Clock, C!Project
<1>4. C!OneFile'
  BY DEF C!MarksAssumption, C!IInv, C!TypeOK, C!OneFile, C!Survey, C!Goto, C!Job, C!Clock, C!Project
<1>5. C!ObjectFound'
  BY DEF C!MarksAssumption, C!IInv, C!TypeOK, C!Repairs, C!ObjectFound, C!Survey, C!Goto, C!Job,
     C!Clock, C!Project
<1>6. C!LinkFound'
  BY DEF C!MarksAssumption, C!IInv, C!TypeOK, C!InTime, C!Repairs, C!OneFile, C!ObjectFound,
     C!LinkFound, C!Survey, C!Goto, C!Job, C!Clock, C!Project
<1>7. C!FoundSince'
  BY DEF C!MarksAssumption, C!IInv, C!TypeOK, C!InTime, C!Repairs, C!ObjectFound, C!FoundSince,
     C!Doubted, C!DoubtSince, C!Syncing, C!Trusting, C!Bringing, C!Survey, C!Goto, C!Job, C!Clock,
     C!Project
<1>q. QED BY <1>1, <1>2, <1>3, <1>4, <1>5, <1>6, <1>7 DEF C!IInv

\* Only an intact link is vouched for.
LEMMA VouchStep == ASSUME C!MarksAssumption, C!IInv, C!Vouch PROVE C!IInv'
<1>a. /\ link # Nobody /\ link.good /\ UNCHANGED <<C!Clock, object, link, shared, mark, pc, job>>
      /\ record \in C!Record /\ record' \in C!Record /\ record' # Nobody
      /\ record'.modified = record.modified /\ record'.checked = now
    BY DEF C!Vouch, C!LinkDoubted, C!LooksPlaced, C!Intact, C!IInv, C!TypeOK, C!InTime, C!Record,
       C!MarksAssumption, C!Clock
<1>1. C!TypeOK'
  BY <1>a DEF C!MarksAssumption, C!IInv, C!TypeOK, C!Syncing, C!Trusting, C!Bringing, C!Clock
<1>2. C!InTime'
  BY <1>a DEF C!MarksAssumption, C!IInv, C!TypeOK, C!InTime, C!Latest, C!Syncing, C!Trusting,
     C!Bringing, C!Clock
<1>3. C!Repairs'
  BY <1>a DEF C!MarksAssumption, C!IInv, C!TypeOK, C!Repairs, C!Bringing, C!Clock
<1>4. C!OneFile'
  BY <1>a DEF C!MarksAssumption, C!IInv, C!TypeOK, C!OneFile, C!Clock
<1>5. C!ObjectFound'
  BY <1>a DEF C!MarksAssumption, C!IInv, C!TypeOK, C!Repairs, C!ObjectFound, C!Clock
<1>6. C!LinkFound'
  BY <1>a DEF C!MarksAssumption, C!IInv, C!TypeOK, C!InTime, C!Repairs, C!OneFile, C!ObjectFound,
     C!LinkFound, C!Clock
<1>7. C!FoundSince'
    BY <1>a DEF C!MarksAssumption, C!IInv, C!TypeOK, C!InTime, C!Repairs, C!ObjectFound,
       C!FoundSince, C!Doubted, C!DoubtSince, C!Syncing, C!Trusting, C!Bringing, C!Clock
<1>q. QED BY <1>1, <1>2, <1>3, <1>4, <1>5, <1>6, <1>7 DEF C!IInv

\* A visibly edited link stays.
LEMMA AuditStep == ASSUME C!MarksAssumption, C!IInv, C!Audit PROVE C!IInv'
  BY DEF C!MarksAssumption, C!IInv, C!TypeOK, C!InTime, C!Latest, C!Repairs, C!OneFile,
     C!ObjectFound, C!LinkFound, C!FoundSince, C!Doubted, C!DoubtSince, C!Syncing, C!Trusting,
     C!Bringing, C!Audit, C!Goto, C!Clock, C!Project

\* The marks a sync reads doubt every object found damaged by then.
LEMMA ReadDoubtsStep == ASSUME C!MarksAssumption, C!IInv, C!ReadDoubts PROVE C!IInv'
<1>1. C!TypeOK'
  BY DEF C!MarksAssumption, C!IInv, C!TypeOK, C!Syncing, C!Trusting, C!Bringing, C!ReadDoubts,
     C!Goto, C!Job, C!Clock, C!Project
<1>2. C!InTime'
  BY DEF C!MarksAssumption, C!IInv, C!TypeOK, C!InTime, C!Latest, C!Syncing, C!Trusting, C!Bringing,
     C!ReadDoubts, C!Goto, C!Job, C!Clock, C!Project
<1>3. C!Repairs'
  BY DEF C!MarksAssumption, C!IInv, C!TypeOK, C!Repairs, C!Bringing, C!ReadDoubts, C!Goto, C!Job,
     C!Clock, C!Project
<1>4. C!OneFile'
  BY DEF C!MarksAssumption, C!IInv, C!TypeOK, C!OneFile, C!ReadDoubts, C!Goto, C!Job, C!Clock,
     C!Project
<1>5. C!ObjectFound'
  BY DEF C!MarksAssumption, C!IInv, C!TypeOK, C!Repairs, C!ObjectFound, C!ReadDoubts, C!Goto, C!Job,
     C!Clock, C!Project
<1>6. C!LinkFound'
  BY DEF C!MarksAssumption, C!IInv, C!TypeOK, C!InTime, C!Repairs, C!OneFile, C!ObjectFound,
     C!LinkFound, C!ReadDoubts, C!Goto, C!Job, C!Clock, C!Project
<1>7. C!FoundSince'
  BY DEF C!MarksAssumption, C!IInv, C!TypeOK, C!InTime, C!Repairs, C!ObjectFound, C!FoundSince,
     C!Doubted, C!DoubtSince, C!Syncing, C!Trusting, C!Bringing, C!ReadDoubts, C!Goto, C!Job,
     C!Clock, C!Project, C!Mark, C!File
<1>q. QED BY <1>1, <1>2, <1>3, <1>4, <1>5, <1>6, <1>7 DEF C!IInv

\* What a sync goes on with was not doubted, or was hashed: found damaged since, if at all.
LEMMA TrustedStep == ASSUME C!MarksAssumption, C!IInv, C!Trusted PROVE C!IInv'
<1>a. /\ UNCHANGED <<C!Clock, shared, record, mark, job>> /\ pc[Owner] = "find"
      /\ object' \in C!File \cup {Nobody} /\ link' \in C!File \cup {Nobody}
      /\ (object' = Nobody) <=> (object = Nobody)
      /\ object # Nobody => /\ object'.good = object.good /\ object'.modified = object.modified
                            /\ object'.found = object.found
      /\ (link' = Nobody) <=> (link = Nobody)
      /\ link # Nobody => /\ link'.good = link.good /\ link'.modified = link.modified
                          /\ link'.found = link.found
      /\ shared => link' = object'
      /\ pc' \in {[pc EXCEPT ![Owner] = label] : label \in {"fetch", "place", "distrust"}}
      /\ pc'[Owner] \in C!Trusting /\ object # Nobody
         => ~C!Doubted(object, job[Owner].marks) \/ object.good
  <2>0. object \in C!File \cup {Nobody} /\ link \in C!File \cup {Nobody} /\ Nobody \notin C!File
    BY DEF C!IInv, C!TypeOK, C!MarksAssumption
  <2>1. CASE UNCHANGED <<object, link>>
    BY <2>0, <2>1 DEF C!Trusted, C!Goto, C!IInv, C!OneFile, C!TypeOK, C!MarksAssumption, C!Trusting,
       C!Bringing, C!Intact
  <2>2. CASE /\ C!Intact(object) /\ object' = [object EXCEPT !.writable = FALSE]
             /\ link' = (IF shared THEN object' ELSE link) /\ C!Goto(Owner, "place")
    <3>1. /\ object' \in C!File /\ object' # Nobody /\ object # Nobody /\ object.good
          /\ object'.good = object.good /\ object'.modified = object.modified
          /\ object'.found = object.found
      BY <2>0, <2>2 DEF C!Intact, C!File
    <3>q. QED BY <2>0, <2>2, <3>1 DEF C!Trusted, C!Goto, C!IInv, C!OneFile
  <2>q. QED BY <2>1, <2>2 DEF C!Trusted
<1>1. C!TypeOK'
  BY <1>a DEF C!MarksAssumption, C!IInv, C!TypeOK, C!Syncing, C!Trusting, C!Bringing, C!Goto,
     C!Clock
<1>2. C!InTime'
    BY <1>a DEF C!MarksAssumption, C!IInv, C!TypeOK, C!InTime, C!Latest, C!Syncing, C!Trusting,
       C!Bringing, C!Goto, C!Clock
<1>3. C!Repairs'
  BY <1>a DEF C!MarksAssumption, C!IInv, C!TypeOK, C!Repairs, C!Bringing, C!Goto, C!Clock
<1>4. C!OneFile'
  BY <1>a DEF C!MarksAssumption, C!IInv, C!TypeOK, C!OneFile, C!Goto, C!Clock
<1>5. C!ObjectFound'
  BY <1>a DEF C!MarksAssumption, C!IInv, C!TypeOK, C!Repairs, C!ObjectFound, C!Goto, C!Clock
<1>6. C!LinkFound'
    BY <1>a DEF C!MarksAssumption, C!IInv, C!TypeOK, C!InTime, C!Repairs, C!OneFile, C!ObjectFound,
       C!LinkFound, C!Goto, C!Clock
<1>7. C!FoundSince'
    BY <1>a DEF C!MarksAssumption, C!IInv, C!TypeOK, C!InTime, C!Repairs, C!ObjectFound,
       C!FoundSince, C!Doubted, C!DoubtSince, C!Syncing, C!Trusting, C!Bringing, C!Goto, C!Clock
<1>q. QED BY <1>1, <1>2, <1>3, <1>4, <1>5, <1>6, <1>7 DEF C!IInv

\* So a link to an object found damaged is checked earlier than it was found.
LEMMA PlaceStep == ASSUME C!MarksAssumption, C!IInv, C!Place PROVE C!IInv'
<1>a. /\ pc[Owner] = "place" /\ pc' = [pc EXCEPT ![Owner] = "idle"]
      /\ job' = [job EXCEPT ![Owner] = C!NoJob] /\ UNCHANGED <<C!Clock, object, mark>>
      /\ \/ object = Nobody /\ UNCHANGED C!Project
         \/ /\ object # Nobody /\ link' = object /\ shared' \in BOOLEAN
            /\ record' \in C!Record /\ record' # Nobody
            /\ record'.modified = object.modified /\ record'.checked = job[Owner].started
  <2>1. ASSUME object # Nobody
        PROVE  LET new == [modified |-> object.modified, checked |-> job[Owner].started]
               IN  new \in C!Record /\ new # Nobody
    BY <2>1 DEF C!IInv, C!TypeOK, C!InTime, C!File, C!Record, C!MarksAssumption, C!Place, C!Syncing,
       C!Trusting
  <2>2. object # Nobody => shared' \in BOOLEAN
    BY Zenon DEF C!Place
  <2>q. QED BY <2>1, <2>2 DEF C!Place, C!Finish, C!Goto
<1>1. C!TypeOK'
    BY <1>a, NoJobType DEF C!MarksAssumption, C!IInv, C!TypeOK, C!Syncing, C!Trusting, C!Bringing,
       C!NoJob, C!Clock, C!Project
<1>2. C!InTime'
    BY <1>a, NoJobType DEF C!MarksAssumption, C!IInv, C!TypeOK, C!InTime, C!Latest, C!Syncing,
       C!Trusting, C!Bringing, C!NoJob, C!Clock, C!Project
<1>3. C!Repairs'
  BY <1>a, NoJobType DEF C!MarksAssumption, C!IInv, C!TypeOK, C!Repairs, C!Bringing, C!NoJob,
     C!Clock, C!Project
<1>4. C!OneFile'
  BY <1>a, NoJobType DEF C!MarksAssumption, C!IInv, C!TypeOK, C!OneFile, C!NoJob, C!Clock, C!Project
<1>5. C!ObjectFound'
  BY <1>a, NoJobType DEF C!MarksAssumption, C!IInv, C!TypeOK, C!Repairs, C!ObjectFound, C!NoJob,
     C!Clock, C!Project
<1>6. C!LinkFound'
    BY <1>a, NoJobType DEF C!MarksAssumption, C!IInv, C!TypeOK, C!InTime, C!Repairs, C!OneFile,
       C!ObjectFound, C!LinkFound, C!NoJob, C!Clock, C!Project, C!FoundSince, C!Trusting, C!Record
<1>7. C!FoundSince'
    BY <1>a, NoJobType DEF C!MarksAssumption, C!IInv, C!TypeOK, C!InTime, C!Repairs, C!ObjectFound,
       C!FoundSince, C!Doubted, C!DoubtSince, C!Syncing, C!Trusting, C!Bringing, C!NoJob, C!Clock,
       C!Project
<1>q. QED BY <1>1, <1>2, <1>3, <1>4, <1>5, <1>6, <1>7 DEF C!IInv

\* Damage is not found by itself,
LEMMA DamageObjectStep == ASSUME C!MarksAssumption, C!IInv, C!DamageObject PROVE C!IInv'
<1>a. /\ UNCHANGED <<C!Clock, shared, record, mark, pc, job>>
      /\ \A w \in Sharers : pc[w] # "remark"
      /\ object # Nobody /\ object' \in C!File /\ object' # Nobody /\ ~object'.found
      /\ object'.modified \in {object.modified, now}
      /\ link' = IF shared THEN object' ELSE link
  <2>1. /\ \A w \in Sharers : pc[w] # "remark"
        /\ C!Intact(object) /\ object' \in C!Damages(object)
        /\ UNCHANGED <<C!Clock, shared, record, mark, pc, job>>
    BY DEF C!DamageObject
  <2>2. object # Nobody /\ object \in C!File /\ now \in Int
    BY <2>1 DEF C!Intact, C!IInv, C!TypeOK
  <2>3. PICK w \in BOOLEAN, t \in {object.modified, now} :
          object' = [good |-> FALSE, writable |-> w, modified |-> t, found |-> FALSE]
    BY <2>1 DEF C!Damages
  <2>4. t \in Int
    BY <2>2, <2>3 DEF C!File
  <2>5. object' \in C!File /\ ~object'.found /\ object'.modified = t
    BY <2>3, <2>4 DEF C!File
  <2>q. QED BY <2>1, <2>2, <2>3, <2>5 DEF C!DamageObject, C!MarksAssumption
<1>b. object'.modified <= C!Latest
  BY <1>a, LatestType DEF C!IInv, C!InTime, C!TypeOK
<1>1. C!TypeOK'
  BY <1>a DEF C!MarksAssumption, C!IInv, C!TypeOK, C!Syncing, C!Trusting, C!Bringing, C!Clock
<1>2. C!InTime'
    BY <1>a, <1>b DEF C!MarksAssumption, C!IInv, C!TypeOK, C!InTime, C!Latest, C!Syncing,
       C!Trusting, C!Bringing, C!Clock, C!OneFile
<1>3. C!Repairs'
  BY <1>a DEF C!MarksAssumption, C!IInv, C!TypeOK, C!Repairs, C!Bringing, C!Clock
<1>4. C!OneFile'
  BY <1>a DEF C!MarksAssumption, C!IInv, C!TypeOK, C!OneFile, C!Clock
<1>5. C!ObjectFound'
  BY <1>a DEF C!MarksAssumption, C!IInv, C!TypeOK, C!Repairs, C!ObjectFound, C!Clock
<1>6. C!LinkFound'
  BY <1>a DEF C!MarksAssumption, C!IInv, C!TypeOK, C!InTime, C!Repairs, C!OneFile, C!ObjectFound,
     C!LinkFound, C!Clock
<1>7. C!FoundSince'
    BY <1>a DEF C!MarksAssumption, C!IInv, C!TypeOK, C!InTime, C!Repairs, C!ObjectFound,
       C!FoundSince, C!Doubted, C!DoubtSince, C!Syncing, C!Trusting, C!Bringing, C!Clock
<1>q. QED BY <1>1, <1>2, <1>3, <1>4, <1>5, <1>6, <1>7 DEF C!IInv

\* neither that of a link that is a file of its own.
LEMMA DamageLinkStep == ASSUME C!MarksAssumption, C!IInv, C!DamageLink PROVE C!IInv'
<1>a. /\ UNCHANGED <<C!Clock, object, shared, record, mark, pc, job>>
      /\ \A w \in Sharers : pc[w] # "remark"
      /\ link # Nobody /\ link' \in C!File /\ link' # Nobody /\ ~link'.found
      /\ link'.modified \in {link.modified, now}
      /\ ~shared
  <2>1. /\ \A w \in Sharers : pc[w] # "remark"
        /\ C!Intact(link) /\ link' \in C!Damages(link)
        /\ UNCHANGED <<C!Clock, object, shared, record, mark, pc, job>>
    BY DEF C!DamageLink
  <2>2. link # Nobody /\ link \in C!File /\ now \in Int
    BY <2>1 DEF C!Intact, C!IInv, C!TypeOK
  <2>3. PICK w \in BOOLEAN, t \in {link.modified, now} :
          link' = [good |-> FALSE, writable |-> w, modified |-> t, found |-> FALSE]
    BY <2>1 DEF C!Damages
  <2>4. t \in Int
    BY <2>2, <2>3 DEF C!File
  <2>5. link' \in C!File /\ ~link'.found /\ link'.modified = t
    BY <2>3, <2>4 DEF C!File
  <2>q. QED BY <2>1, <2>2, <2>3, <2>5 DEF C!DamageLink, C!MarksAssumption
<1>1. C!TypeOK'
  BY <1>a DEF C!MarksAssumption, C!IInv, C!TypeOK, C!Syncing, C!Trusting, C!Bringing, C!Clock
<1>2. C!InTime'
    BY <1>a, LatestType DEF C!MarksAssumption, C!IInv, C!TypeOK, C!InTime, C!Latest, C!Syncing,
       C!Trusting, C!Bringing, C!Clock
<1>3. C!Repairs'
  BY <1>a DEF C!MarksAssumption, C!IInv, C!TypeOK, C!Repairs, C!Bringing, C!Clock
<1>4. C!OneFile'
  BY <1>a DEF C!MarksAssumption, C!IInv, C!TypeOK, C!OneFile, C!Clock
<1>5. C!ObjectFound'
  BY <1>a DEF C!MarksAssumption, C!IInv, C!TypeOK, C!Repairs, C!ObjectFound, C!Clock
<1>6. C!LinkFound'
  BY <1>a DEF C!MarksAssumption, C!IInv, C!TypeOK, C!InTime, C!Repairs, C!OneFile, C!ObjectFound,
     C!LinkFound, C!Clock
<1>7. C!FoundSince'
    BY <1>a DEF C!MarksAssumption, C!IInv, C!TypeOK, C!InTime, C!Repairs, C!ObjectFound,
       C!FoundSince, C!Doubted, C!DoubtSince, C!Syncing, C!Trusting, C!Bringing, C!Clock
<1>q. QED BY <1>1, <1>2, <1>3, <1>4, <1>5, <1>6, <1>7 DEF C!IInv

\* A deleted link is nobody's concern.
LEMMA UnlinkStep == ASSUME C!MarksAssumption, C!IInv, C!Unlink PROVE C!IInv'
  BY DEF C!MarksAssumption, C!IInv, C!TypeOK, C!InTime, C!Latest, C!Repairs, C!OneFile,
     C!ObjectFound, C!LinkFound, C!FoundSince, C!Doubted, C!DoubtSince, C!Syncing, C!Trusting,
     C!Bringing, C!Unlink, C!Clock

\* A dropped object keeps being the project's file.
LEMMA DropObjectStep == ASSUME C!MarksAssumption, C!IInv, C!DropObject PROVE C!IInv'
  BY DEF C!MarksAssumption, C!IInv, C!TypeOK, C!InTime, C!Latest, C!Repairs, C!OneFile,
     C!ObjectFound, C!LinkFound, C!FoundSince, C!Doubted, C!DoubtSince, C!Syncing, C!Trusting,
     C!Bringing, C!DropObject, C!Clock

\* Time only makes files older.
LEMMA TickStep == ASSUME C!MarksAssumption, C!IInv, C!Tick PROVE C!IInv'
  BY DEF C!MarksAssumption, C!IInv, C!TypeOK, C!InTime, C!Latest, C!Repairs, C!OneFile,
     C!ObjectFound, C!LinkFound, C!FoundSince, C!Doubted, C!DoubtSince, C!Syncing, C!Trusting,
     C!Bringing, C!Tick, C!Project, C!File, C!Record, C!Job

\* A mark goes only when no file is left.
LEMMA ForgetStep == ASSUME C!MarksAssumption, C!IInv, C!Forget PROVE C!IInv'
  BY DEF C!MarksAssumption, C!IInv, C!TypeOK, C!InTime, C!Latest, C!Repairs, C!OneFile,
     C!ObjectFound, C!LinkFound, C!FoundSince, C!Doubted, C!DoubtSince, C!Syncing, C!Trusting,
     C!Bringing, C!Forget, C!Clock, C!Project

\* A step of others changes nothing.
LEMMA MarksStutterStep == ASSUME C!IInv, UNCHANGED C!vars PROVE C!IInv'
  BY DEF C!vars, C!IInv, C!TypeOK, C!InTime, C!Latest, C!Repairs, C!OneFile, C!ObjectFound,
     C!LinkFound, C!FoundSince, C!Doubted, C!DoubtSince

\* Every step keeps the invariant.
LEMMA MarksNextOK == ASSUME C!MarksAssumption PROVE C!IInv /\ [C!Next]_(C!vars) => C!IInv'
<1>. SUFFICES ASSUME C!IInv, [C!Next]_(C!vars) PROVE C!IInv'
  OBVIOUS
<1>1. ASSUME NEW w \in Sharers,
             \/ C!Verify(w) \/ C!MarkChanged(w) \/ C!MarkFails(w) \/ C!Fetch(w)
             \/ C!LinkNew(w) \/ C!Doubt(w)
             \/ C!Replace(w) \/ C!ReplaceFails(w) \/ C!MarkReplaced(w) \/ C!RemarkFails(w)
      PROVE  C!IInv'
  BY <1>1, VerifyStep, MarkChangedStep, MarkFailsStep, FetchStep, LinkNewStep, DoubtStep,
     ReplaceStep, ReplaceFailsStep, MarkReplacedStep, RemarkFailsStep
<1>2. CASE C!Survey \/ C!Vouch \/ C!Audit \/ C!ReadDoubts \/ C!Trusted \/ C!Distrust \/ C!Place
  BY <1>2, SurveyStep, VouchStep, AuditStep, ReadDoubtsStep, TrustedStep, DistrustStep, PlaceStep
<1>3. CASE C!DamageObject \/ C!DamageLink \/ C!Unlink \/ C!DropObject \/ C!Tick \/ C!Forget
  BY <1>3, DamageObjectStep, DamageLinkStep, UnlinkStep, DropObjectStep, TickStep, ForgetStep
<1>4. CASE UNCHANGED C!vars
  BY <1>4, MarksStutterStep
<1>q. QED BY <1>1, <1>2, <1>3, <1>4 DEF C!Next

\* The invariant holds for any number of runs, and any length of time.
THEOREM MarksInvariance == ASSUME C!MarksAssumption PROVE C!Spec => []C!IInv
<1>1. C!Init => C!IInv
  BY MarksInitOK
<1>q. QED BY <1>1, MarksNextOK, PTL DEF C!Spec

\* However late marks land, whatever repairs, drops and edits come between and however times are
\* rounded: an object found damaged stays in doubt, and a project's link to it is noticed.
THEOREM Noticed == ASSUME C!MarksAssumption PROVE C!Spec => []DamageIsNoticed
<1>1. ASSUME C!IInv PROVE C!FoundDamageStaysInDoubt
  BY <1>1 DEF C!IInv, C!TypeOK, C!ObjectFound, C!FoundDamageStaysInDoubt, C!Doubted, C!DoubtSince,
     C!File, C!Mark
<1>2. ASSUME C!IInv PROVE C!LinkedDamageIsNoticed
  <2>. SUFFICES ASSUME C!LooksPlaced, link.found PROVE C!LinkDoubted
    BY DEF C!LinkedDamageIsNoticed
  <2>1. /\ link # Nobody /\ link.modified = record.modified /\ record # Nobody
        /\ link \in C!File /\ record \in C!Record /\ mark # Nobody /\ mark \in C!Mark
    BY <1>2 DEF C!IInv, C!TypeOK, C!InTime, C!LinkFound, C!LooksPlaced
  <2>2. mark.found + 2 > record.modified /\ mark.found + 2 > record.checked
    BY <1>2, <2>1 DEF C!IInv, C!LinkFound
  <2>3. C!MayFollow(mark.found, C!Greater(record.modified, record.checked))
    BY <2>2 DEF C!MayFollow, C!Greater
  <2>4. shared => mark.replacement # record.modified
    BY <1>2, <2>1 DEF C!IInv, C!OneFile, C!ObjectFound, C!Record, C!MarksAssumption
  <2>q. QED BY <2>1, <2>3, <2>4 DEF C!LinkDoubted
<1>q. QED BY <1>1, <1>2, MarksInvariance, PTL DEF C!DamageIsNoticed, DamageIsNoticed

-----------------------------------------------------------------------------
(***************************************************************************)
(* The hash of a download, for files, buffers and queues of any size.      *)
(***************************************************************************)
\* Where the bytes of a stretch are, and that stretches that meet join.
LEMMA BytesAre ==
  ASSUME NEW a \in Nat, NEW b \in Nat, a <= b
  PROVE  /\ H!Bytes(a, b) \in Seq(Nat) /\ Len(H!Bytes(a, b)) = b - a
         /\ \A i \in 1 .. b - a : H!Bytes(a, b)[i] = a + i - 1
<1>1. b - a \in Nat
  OBVIOUS
<1>2. \A i \in 1 .. b - a : a + i - 1 \in Nat
  OBVIOUS
<1>3. H!Bytes(a, b) \in [1 .. b - a -> Nat]
  BY <1>2 DEF H!Bytes
<1>4. H!Bytes(a, b) \in Seq(Nat)
  BY <1>1, <1>3, SeqDef
<1>q. QED BY <1>1, <1>3, <1>4, LenProperties DEF H!Bytes

LEMMA BytesNone == ASSUME NEW a \in Nat PROVE H!Bytes(a, a) = <<>>
<1>1. H!Bytes(a, a) \in Seq(Nat) /\ Len(H!Bytes(a, a)) = 0
  BY BytesAre
<1>q. QED BY <1>1, EmptySeq

LEMMA BytesSome ==
  ASSUME NEW a \in Nat, NEW b \in Nat, a < b PROVE H!Bytes(a, b) # <<>>
  BY BytesAre, EmptySeq

LEMMA BytesJoin ==
  ASSUME NEW a \in Nat, NEW b \in Nat, NEW c \in Nat, a <= b, b <= c
  PROVE  H!Bytes(a, b) \o H!Bytes(b, c) = H!Bytes(a, c)
<1> DEFINE s == H!Bytes(a, b) t == H!Bytes(b, c) u == H!Bytes(a, c)
<1>1. /\ s \in Seq(Nat) /\ Len(s) = b - a /\ \A i \in 1 .. b - a : s[i] = a + i - 1
      /\ t \in Seq(Nat) /\ Len(t) = c - b /\ \A i \in 1 .. c - b : t[i] = b + i - 1
      /\ u \in Seq(Nat) /\ Len(u) = c - a /\ \A i \in 1 .. c - a : u[i] = a + i - 1
  BY BytesAre, a <= c
<1> HIDE DEF s, t, u
<1>2. /\ s \o t \in Seq(Nat) /\ Len(s \o t) = c - a
      /\ \A i \in 1 .. c - a : (s \o t)[i] = IF i <= b - a THEN s[i] ELSE t[i - (b - a)]
  <2>1. Len(s) + Len(t) = c - a
    BY <1>1
  <2>2. /\ s \o t \in Seq(Nat) /\ Len(s \o t) = Len(s) + Len(t)
        /\ \A i \in 1 .. Len(s) + Len(t) : (s \o t)[i] = IF i <= Len(s) THEN s[i] ELSE t[i - Len(s)]
    BY <1>1, ConcatProperties, Zenon
  <2>q. QED BY <1>1, <2>1, <2>2
<1>3. ASSUME NEW i \in 1 .. c - a PROVE (s \o t)[i] = u[i]
  <2>1. u[i] = a + i - 1
    BY <1>1
  <2>2. CASE i <= b - a
    BY <1>1, <1>2, <2>1, <2>2, i \in 1 .. b - a
  <2>3. CASE ~(i <= b - a)
    <3>1. i - (b - a) \in 1 .. c - b
      BY <2>3
    <3>2. t[i - (b - a)] = b + (i - (b - a)) - 1
      BY <1>1, <3>1
    <3>q. QED BY <1>2, <2>1, <2>3, <3>2
  <2>q. QED BY <2>2, <2>3
<1>4. s \o t = u
  BY <1>1, <1>2, <1>3, SeqEqual
<1>q. QED BY <1>4 DEF s, t, u

\* What hash_range reads of bytes that are on the disk.
LEMMA ReadsBytes ==
  ASSUME NEW a \in Nat, NEW b \in Nat, a .. b - 1 \subseteq disk
  PROVE  H!Read(a, b) = H!Bytes(a, b)
<1>1. \A i \in 1 .. b - a : a + i - 1 \in disk
  OBVIOUS
<1>q. QED BY <1>1 DEF H!Read, H!Bytes

LEMMA ReadFits ==
  ASSUME H!HashPipeAssumption, NEW b \in Nat, H!Read(0, b) = H!Bytes(0, b)
  PROVE  0 .. b - 1 \subseteq disk
<1> SUFFICES ASSUME NEW p \in 0 .. b - 1, p \notin disk PROVE FALSE
  OBVIOUS
<1>1. p + 1 \in 1 .. b - 0 /\ 0 + (p + 1) - 1 = p
  OBVIOUS
<1>2. H!Read(0, b)[p + 1] = Hole
  BY <1>1 DEF H!Read
<1>3. H!Bytes(0, b)[p + 1] = p
  BY <1>1 DEF H!Bytes
<1>q. QED BY <1>2, <1>3 DEF H!HashPipeAssumption

-----------------------------------------------------------------------------
\* A set of places that is not empty has a first and a last one.
LEMMA HasLast ==
  ASSUME NEW n \in Nat, NEW X \in SUBSET (0 .. n), X # {}
  PROVE  \E m \in X : \A y \in X : y <= m
<1> DEFINE Above == {A \in SUBSET X : A # {} /\ \A x \in A, y \in X : x <= y => y \in A}
<1>0. IsFiniteSet(X)
  BY FS_Interval, FS_Subset, 0 \in Int, n \in Int
<1>1. FiniteSubsetsOf(X) = SUBSET X
  BY <1>0, FS_FiniteSubsetsOfFinite
<1>2. IsWellFoundedOn(StrictSubsetOrdering(X), SUBSET X)
  BY <1>0, <1>1, FS_StrictSubsetOrderingWellFounded
<1>3. X \in Above /\ Above \subseteq SUBSET X
  OBVIOUS
<1>4. Above # {}
  BY <1>3
<1> HIDE DEF Above
<1>5. PICK A \in Above : \A B \in Above : <<B, A>> \notin StrictSubsetOrdering(X)
  BY <1>2, <1>3, <1>4, WFMin
<1>6. A \in SUBSET X /\ A # {} /\ \A x \in A, y \in X : x <= y => y \in A
  BY DEF Above
<1>7. PICK m \in A : TRUE
  BY <1>6
<1>8. m \in X
  BY <1>6
<1>9. ASSUME NEW y \in X, ~(y <= m) PROVE FALSE
  <2> DEFINE B == {z \in X : y <= z}
  <2>0. X \subseteq Int
    OBVIOUS
  <2>1. y \in B /\ B \subseteq A /\ m \notin B
    <3>1. y <= y /\ m <= y
      BY <1>8, <1>9, <2>0
    <3>2. y \in A
      BY <1>6, <1>7, <3>1
    <3>q. QED BY <1>6, <1>9, <3>1, <3>2
  <2>2. B \in Above
    BY <2>1 DEF Above
  <2>3. <<B, A>> \in StrictSubsetOrdering(X)
    BY <2>1, <1>6 DEF StrictSubsetOrdering
  <2>q. QED BY <1>5, <2>2, <2>3
<1>q. QED BY <1>8, <1>9

LEMMA HasFirst ==
  ASSUME NEW n \in Nat, NEW X \in SUBSET (0 .. n), X # {}
  PROVE  H!Min(X) \in X /\ \A y \in X : H!Min(X) <= y
<1> DEFINE T == {n - x : x \in X}
<1>1. T \in SUBSET (0 .. n) /\ T # {}
  <2>1. \A x \in X : n - x \in 0 .. n
    OBVIOUS
  <2>q. QED BY <2>1
<1>2. PICK m \in T : \A y \in T : y <= m
  BY <1>1, HasLast
<1>3. PICK x \in X : m = n - x
  BY <1>2
<1>4. \A y \in X : x <= y
  <2> TAKE y \in X
  <2>1. n - y <= n - x
    BY <1>2, <1>3
  <2>q. QED BY <2>1
<1>5. \E z \in X : \A y \in X : z <= y
  BY <1>4
<1>q. QED BY <1>5 DEF H!Min

\* absorb goes on to a place where no run begins, and passes only places that runs cover.
LEMMA ReachesFar ==
  ASSUME H!HashPipeAssumption, NEW at \in 0 .. FileSize, NEW ranges \in SUBSET H!Ranges
  PROVE  /\ H!Reaches(at, ranges) \in at .. FileSize
         /\ \A p \in at .. H!Reaches(at, ranges) - 1 :
              \E r \in ranges : r[1] <= p /\ p < r[2]
<1> DEFINE Ends == {at} \cup {r[2] : r \in ranges}
           Stops == {e \in Ends : at <= e /\ \A r \in ranges : r[1] # e}
           From(p) == {e \in Ends : at <= e /\ e <= p}
<1>1. /\ FileSize \in Nat /\ at \in Nat
      /\ \A r \in ranges : r[1] \in 0 .. FileSize /\ r[2] \in 0 .. FileSize /\ r[1] < r[2]
  BY DEF H!Ranges, H!HashPipeAssumption
<1>2. Ends \in SUBSET (0 .. FileSize) /\ at \in Ends
  BY <1>1
<1>3. \A r \in ranges : r[2] \in Ends
  OBVIOUS
<1> HIDE DEF Ends
<1>4. ASSUME NEW p \in at .. FileSize
      PROVE  \E e \in From(p) : \A y \in From(p) : y <= e
  <2>1. at \in From(p)
    BY <1>1, <1>2
  <2>2. From(p) \in SUBSET (0 .. FileSize)
    BY <1>2
  <2>q. QED BY <1>1, <2>1, <2>2, HasLast
<1>5. Stops # {}
  <2>1. PICK e \in From(FileSize) : \A y \in From(FileSize) : y <= e
    BY <1>1, <1>4
  <2>2. ASSUME NEW r \in ranges, r[1] = e PROVE FALSE
    <3>1. r[2] \in From(FileSize) /\ r[2] > e
      BY <1>1, <1>2, <1>3, <2>1, <2>2
    <3>q. QED BY <1>1, <1>2, <2>1, <3>1
  <2>q. QED BY <2>1, <2>2
<1>6. Stops \in SUBSET (0 .. FileSize)
  BY <1>2
<1>7. H!Reaches(at, ranges) = H!Min(Stops)
  BY DEF H!Reaches, Ends
<1>8. H!Min(Stops) \in Stops /\ \A y \in Stops : H!Min(Stops) <= y
  BY <1>1, <1>5, <1>6, HasFirst
<1>9. ASSUME NEW p \in at .. H!Min(Stops) - 1
      PROVE  \E r \in ranges : r[1] <= p /\ p < r[2]
  <2>a. H!Min(Stops) \in 0 .. FileSize
    BY <1>6, <1>8
  <2>0. p \in at .. FileSize /\ p < H!Min(Stops)
    BY <1>1, <2>a
  <2>1. PICK e \in From(p) : \A y \in From(p) : y <= e
    BY <1>4, <2>0
  <2>2. e \notin Stops /\ e \in 0 .. FileSize
    <3>1. e \in 0 .. FileSize /\ e <= p
      BY <1>2, <2>1
    <3>2. ~(H!Min(Stops) <= e)
      BY <2>a, <2>0, <3>1
    <3>q. QED BY <1>8, <3>1, <3>2
  <2>3. PICK r \in ranges : r[1] = e
    BY <2>1, <2>2
  <2>4. ~(r[2] <= p)
    BY <1>1, <1>3, <2>0, <2>1, <2>3
  <2>q. QED BY <1>1, <2>0, <2>1, <2>3, <2>4
<1>10. H!Min(Stops) \in at .. FileSize
  <2>1. H!Min(Stops) \in 0 .. FileSize /\ at <= H!Min(Stops)
    BY <1>6, <1>8
  <2>q. QED BY <1>1, <2>1
<1>q. QED BY <1>7, <1>9, <1>10

-----------------------------------------------------------------------------
\* What each message stands for.
LEMMA ChunksAre ==
  ASSUME H!HashPipeAssumption, NEW a \in 0 .. FileSize, NEW b \in 0 .. FileSize, a < b
  PROVE  LET m == H!Chunks(H!Bytes(a, b)) IN
         /\ m \in H!Messages /\ m.kind = "chunks" /\ m.bytes = H!Bytes(a, b)
         /\ H!Begins(m) = a /\ H!Closes(m) = b
<1>1. <<a, b>> \in H!Ranges /\ a \in Nat /\ b \in Nat
  BY DEF H!Ranges, H!HashPipeAssumption
<1>2. H!Bytes(a, b)[1] = a /\ Len(H!Bytes(a, b)) = b - a /\ H!Bytes(a, b)[b - a] = b - 1
  <2>1. 1 \in 1 .. b - a /\ b - a \in 1 .. b - a /\ a <= b
    BY <1>1
  <2>2. H!Bytes(a, b)[1] = a + 1 - 1 /\ H!Bytes(a, b)[b - a] = a + (b - a) - 1
    BY <1>1, <2>1, BytesAre
  <2>q. QED BY <1>1, <2>1, <2>2, BytesAre
<1>3. H!Chunks(H!Bytes(a, b)) \in H!Messages
  BY <1>1 DEF H!Messages
<1>q. QED BY <1>1, <1>2, <1>3 DEF H!Chunks, H!Begins, H!Closes

LEMMA ARangeIs ==
  ASSUME NEW a \in 0 .. FileSize, NEW b \in 0 .. FileSize, a < b
  PROVE  LET m == H!ARange(a, b) IN
         /\ m \in H!Messages /\ m.kind = "range" /\ m.from = a /\ m.to = b
         /\ H!Begins(m) = a /\ H!Closes(m) = b
<1>1. <<a, b>> \in H!Ranges
  BY DEF H!Ranges
<1>2. H!ARange(a, b) \in H!Messages
  BY <1>1 DEF H!Messages
<1>q. QED BY <1>2 DEF H!ARange, H!Begins, H!Closes

LEMMA CheckpointIs ==
  ASSUME NEW n \in 0 .. FileSize
  PROVE  LET m == H!Checkpoint(n) IN
         /\ m \in H!Messages /\ m.kind = "checkpoint" /\ m.received = n
         /\ H!Begins(m) = n /\ H!Closes(m) = n
  BY DEF H!Messages, H!Checkpoint, H!Begins, H!Closes

LEMMA MessageIs ==
  ASSUME H!HashPipeAssumption, NEW m \in H!Messages
  PROVE  /\ H!Begins(m) \in 0 .. FileSize /\ H!Closes(m) \in 0 .. FileSize
         /\ \/ m.kind = "chunks" /\ m.bytes = H!Bytes(H!Begins(m), H!Closes(m)) /\ H!Begins(m) < H!Closes(m)
            \/ m.kind = "range" /\ m.from = H!Begins(m) /\ m.to = H!Closes(m) /\ H!Begins(m) < H!Closes(m)
            \/ m.kind = "checkpoint" /\ m.received = H!Begins(m) /\ m.received = H!Closes(m)
<1>1. ASSUME NEW r \in H!Ranges, m = H!Chunks(H!Bytes(r[1], r[2]))
      PROVE  /\ H!Begins(m) = r[1] /\ H!Closes(m) = r[2] /\ r[1] < r[2]
             /\ r[1] \in 0 .. FileSize /\ r[2] \in 0 .. FileSize
             /\ m.kind = "chunks" /\ m.bytes = H!Bytes(r[1], r[2])
  <2>1. r[1] \in 0 .. FileSize /\ r[2] \in 0 .. FileSize /\ r[1] < r[2]
    BY DEF H!Ranges
  <2>q. QED BY <1>1, <2>1, ChunksAre
<1>2. ASSUME NEW r \in H!Ranges, m = H!ARange(r[1], r[2])
      PROVE  /\ H!Begins(m) = r[1] /\ H!Closes(m) = r[2] /\ r[1] < r[2]
             /\ r[1] \in 0 .. FileSize /\ r[2] \in 0 .. FileSize
             /\ m.kind = "range" /\ m.from = r[1] /\ m.to = r[2]
  <2>1. r[1] \in 0 .. FileSize /\ r[2] \in 0 .. FileSize /\ r[1] < r[2]
    BY DEF H!Ranges
  <2>q. QED BY <1>2, <2>1, ARangeIs
<1>3. ASSUME NEW n \in 0 .. FileSize, m = H!Checkpoint(n)
      PROVE  /\ H!Begins(m) = n /\ H!Closes(m) = n
             /\ m.kind = "checkpoint" /\ m.received = n
  BY <1>3, CheckpointIs
<1>q. QED BY <1>1, <1>2, <1>3 DEF H!Messages

-----------------------------------------------------------------------------
\* What is on its way from a place `at` to another: messages in order, and bytes not sent yet.
Flows(messages, at, bytes, to) ==
  /\ H!InOrder(messages, at)
  /\ H!EndOf(messages, at) \in 0 .. to
  /\ bytes = H!Bytes(H!EndOf(messages, at), to)

\* A message that begins where the last one ended goes behind it.
LEMMA Pushed ==
  ASSUME NEW s \in Seq(H!Messages), NEW at \in Nat, NEW m \in H!Messages,
         H!InOrder(s, at), H!Begins(m) = H!EndOf(s, at)
  PROVE  LET t == s \o <<m>> IN
         /\ t \in Seq(H!Messages) /\ H!InOrder(t, at) /\ H!EndOf(t, at) = H!Closes(m)
         /\ Len(t) = Len(s) + 1 /\ t[Len(t)] = m /\ \A i \in 1 .. Len(s) : t[i] = s[i]
<1> DEFINE t == s \o <<m>>
<1>0. <<m>> \in Seq(H!Messages) /\ Len(<<m>>) = 1 /\ <<m>>[1] = m /\ Len(s) \in Nat
  OBVIOUS
<1>1. t \in Seq(H!Messages) /\ Len(t) = Len(s) + 1
  BY <1>0, ConcatProperties
<1>2. t[Len(s) + 1] = m
  BY <1>0
<1>3. \A i \in 1 .. Len(s) : t[i] = s[i]
  BY <1>0
<1> HIDE DEF t
<1>4. H!EndOf(t, at) = H!Closes(m)
  BY <1>0, <1>1, <1>2, EmptySeq DEF H!EndOf
<1>5. ASSUME NEW i \in 1 .. Len(t)
      PROVE  H!Begins(t[i]) = IF i = 1 THEN at ELSE H!Closes(t[i - 1])
  <2>1. CASE i <= Len(s)
    <3>1. t[i] = s[i] /\ (i # 1 => t[i - 1] = s[i - 1])
      BY <1>0, <1>1, <1>3, <2>1
    <3>2. i \in 1 .. Len(s)
      BY <1>0, <1>1, <2>1
    <3>q. QED BY <3>1, <3>2 DEF H!InOrder
  <2>2. CASE i = Len(s) + 1 /\ Len(s) = 0
    <3>1. s = <<>> /\ i = 1 /\ t[i] = m
      BY <1>2, <2>2, EmptySeq
    <3>q. QED BY <3>1 DEF H!EndOf
  <2>3. CASE i = Len(s) + 1 /\ Len(s) # 0
    <3>1. s # <<>> /\ i # 1 /\ t[i] = m /\ i - 1 = Len(s) /\ i - 1 \in 1 .. Len(s)
      BY <1>0, <1>2, <2>3, EmptySeq
    <3>2. t[i - 1] = s[Len(s)]
      BY <1>3, <3>1
    <3>q. QED BY <3>1, <3>2 DEF H!EndOf
  <2>q. QED BY <1>0, <1>1, <2>1, <2>2, <2>3
<1>6. H!InOrder(t, at)
  BY <1>5 DEF H!InOrder
<1>q. QED BY <1>1, <1>2, <1>3, <1>4, <1>6 DEF t

\* What was gathered goes behind the messages.
LEMMA GatheredPushed ==
  ASSUME H!HashPipeAssumption, NEW s \in Seq(H!Messages), NEW at \in Nat, NEW g, NEW p \in 0 .. FileSize,
         Flows(s, at, g, p)
  PROVE  LET t == s \o (IF g = <<>> THEN <<>> ELSE <<H!Chunks(g)>>) IN
         /\ t \in Seq(H!Messages) /\ Flows(t, at, <<>>, p) /\ H!EndOf(t, at) = p
         /\ \A i \in 1 .. Len(t) : t[i].kind = "chunks" \/ (i \in 1 .. Len(s) /\ t[i] = s[i])
<1> DEFINE e == H!EndOf(s, at)
<1>1. /\ H!InOrder(s, at) /\ e \in 0 .. p /\ g = H!Bytes(e, p)
      /\ e \in Nat /\ p \in Nat /\ e <= p /\ e \in 0 .. FileSize
  BY DEF Flows, H!HashPipeAssumption
<1>2. H!Bytes(p, p) = <<>>
  BY <1>1, BytesNone
<1> HIDE DEF e
<1>3. CASE e = p
  <2>1. g = <<>> /\ s \o <<>> = s
    BY <1>1, <1>2, <1>3
  <2>q. QED BY <1>1, <1>2, <1>3, <2>1 DEF Flows, e
<1>4. CASE e < p
  <2>1. g # <<>>
    BY <1>1, <1>4, BytesSome
  <2>2. /\ H!Chunks(g) \in H!Messages /\ H!Begins(H!Chunks(g)) = e /\ H!Closes(H!Chunks(g)) = p
        /\ H!Chunks(g).kind = "chunks"
    BY <1>1, <1>4, ChunksAre
  <2> DEFINE t == s \o <<H!Chunks(g)>>
  <2>3. /\ t \in Seq(H!Messages) /\ H!InOrder(t, at) /\ H!EndOf(t, at) = p
        /\ Len(t) = Len(s) + 1 /\ t[Len(t)] = H!Chunks(g) /\ \A i \in 1 .. Len(s) : t[i] = s[i]
    BY <1>1, <2>2, Pushed DEF e
  <2> HIDE DEF t
  <2>4. Flows(t, at, <<>>, p)
    BY <1>1, <1>2, <2>3 DEF Flows
  <2>5. ASSUME NEW i \in 1 .. Len(t)
        PROVE  t[i].kind = "chunks" \/ (i \in 1 .. Len(s) /\ t[i] = s[i])
    <3>1. Len(s) \in Nat
      OBVIOUS
    <3>2. i = Len(t) \/ i \in 1 .. Len(s)
      BY <2>3, <3>1
    <3>3. CASE i = Len(t)
      <4>1. t[i] = H!Chunks(g)
        BY <2>3, <3>3, Zenon
      <4>q. QED BY <2>2, <4>1, Zenon
    <3>4. CASE i \in 1 .. Len(s)
      BY <2>3, <3>4
    <3>q. QED BY <3>2, <3>3, <3>4
  <2>6. t = s \o (IF g = <<>> THEN <<>> ELSE <<H!Chunks(g)>>)
    BY <2>1 DEF t
  <2>q. QED BY <2>3, <2>4, <2>5, <2>6
<1>q. QED BY <1>1, <1>3, <1>4

\* A range of what follows, and the question for the hash so far.
LEMMA RangePushed ==
  ASSUME H!HashPipeAssumption, NEW s \in Seq(H!Messages), NEW at \in Nat,
         NEW p \in 0 .. FileSize, NEW q \in 0 .. FileSize, p < q, Flows(s, at, <<>>, p), H!EndOf(s, at) = p
  PROVE  LET t == s \o <<H!ARange(p, q)>> IN
         /\ t \in Seq(H!Messages) /\ Flows(t, at, <<>>, q)
         /\ \A i \in 1 .. Len(t) : t[i] = H!ARange(p, q) \/ (i \in 1 .. Len(s) /\ t[i] = s[i])
<1> DEFINE t == s \o <<H!ARange(p, q)>>
<1>1. H!ARange(p, q) \in H!Messages /\ H!Begins(H!ARange(p, q)) = p /\ H!Closes(H!ARange(p, q)) = q
  BY ARangeIs
<1>2. /\ t \in Seq(H!Messages) /\ H!InOrder(t, at) /\ H!EndOf(t, at) = q
      /\ Len(t) = Len(s) + 1 /\ t[Len(t)] = H!ARange(p, q) /\ \A i \in 1 .. Len(s) : t[i] = s[i]
  BY <1>1, Pushed DEF Flows
<1> HIDE DEF t
<1>3. q \in Nat /\ H!Bytes(q, q) = <<>>
  BY BytesNone DEF H!HashPipeAssumption
<1>4. Flows(t, at, <<>>, q)
  BY <1>2, <1>3 DEF Flows
<1>5. \A i \in 1 .. Len(t) : i = Len(t) \/ i \in 1 .. Len(s)
  <2>1. Len(s) \in Nat
    OBVIOUS
  <2>q. QED BY <1>2, <2>1
<1>6. ASSUME NEW i \in 1 .. Len(t)
      PROVE  t[i] = H!ARange(p, q) \/ (i \in 1 .. Len(s) /\ t[i] = s[i])
  <2>1. CASE i = Len(t)
    BY <1>2, <2>1, Zenon
  <2>2. CASE i \in 1 .. Len(s)
    BY <1>2, <2>2, Zenon
  <2>q. QED BY <1>5, <2>1, <2>2
<1>q. QED BY <1>2, <1>4, <1>6, Zenon DEF t

LEMMA CheckpointPushed ==
  ASSUME H!HashPipeAssumption, NEW s \in Seq(H!Messages), NEW at \in Nat,
         NEW p \in 0 .. FileSize, Flows(s, at, <<>>, p), H!EndOf(s, at) = p
  PROVE  LET t == s \o <<H!Checkpoint(p)>> IN
         /\ t \in Seq(H!Messages) /\ Flows(t, at, <<>>, p)
         /\ \A i \in 1 .. Len(t) :
              (i = Len(t) /\ t[i] = H!Checkpoint(p)) \/ (i \in 1 .. Len(s) /\ t[i] = s[i])
<1> DEFINE t == s \o <<H!Checkpoint(p)>>
<1>1. H!Checkpoint(p) \in H!Messages /\ H!Begins(H!Checkpoint(p)) = p /\ H!Closes(H!Checkpoint(p)) = p
  BY CheckpointIs
<1>2. /\ t \in Seq(H!Messages) /\ H!InOrder(t, at) /\ H!EndOf(t, at) = p
      /\ Len(t) = Len(s) + 1 /\ t[Len(t)] = H!Checkpoint(p) /\ \A i \in 1 .. Len(s) : t[i] = s[i]
  BY <1>1, Pushed DEF Flows
<1> HIDE DEF t
<1>3. Flows(t, at, <<>>, p)
  BY <1>2 DEF Flows
<1>4. \A i \in 1 .. Len(t) : i = Len(t) \/ i \in 1 .. Len(s)
  <2>1. Len(s) \in Nat
    OBVIOUS
  <2>q. QED BY <1>2, <2>1
<1>5. ASSUME NEW i \in 1 .. Len(t)
      PROVE  (i = Len(t) /\ t[i] = H!Checkpoint(p)) \/ (i \in 1 .. Len(s) /\ t[i] = s[i])
  <2>1. CASE i = Len(t)
    BY <1>2, <2>1, Zenon
  <2>2. CASE i \in 1 .. Len(s)
    BY <1>2, <2>2, Zenon
  <2>q. QED BY <1>4, <2>1, <2>2
<1>q. QED BY <1>2, <1>3, <1>5, Zenon DEF t

\* The worker takes the first message, and the others go on from where it ends.
LEMMA Taken ==
  ASSUME H!HashPipeAssumption, NEW s \in Seq(H!Messages), s # <<>>, NEW at \in Nat, NEW g, NEW p \in Nat,
         Flows(s, at, g, p)
  PROVE  /\ s[1] \in H!Messages /\ H!Begins(s[1]) = at /\ Tail(s) \in Seq(H!Messages)
         /\ Len(Tail(s)) = Len(s) - 1 /\ \A i \in 1 .. Len(Tail(s)) : Tail(s)[i] = s[i + 1]
         /\ Flows(Tail(s), H!Closes(s[1]), g, p)
<1> DEFINE t == Tail(s) n == H!Closes(s[1])
<1>1. /\ Len(s) \in Nat /\ Len(s) >= 1 /\ 1 \in 1 .. Len(s) /\ s[1] \in H!Messages
      /\ t \in Seq(H!Messages) /\ Len(t) = Len(s) - 1
      /\ \A i \in 1 .. Len(t) : t[i] = s[i + 1]
  BY HeadTailProperties, EmptySeq, ElementOfSeq
<1> HIDE DEF t
<1>2. H!Begins(s[1]) = at
  BY <1>1 DEF Flows, H!InOrder
<1>3. H!InOrder(t, n)
  <2>1. SUFFICES ASSUME NEW i \in 1 .. Len(t)
                 PROVE  H!Begins(t[i]) = IF i = 1 THEN n ELSE H!Closes(t[i - 1])
    BY DEF H!InOrder
  <2>2. /\ i + 1 \in 1 .. Len(s) /\ i + 1 # 1 /\ (i + 1) - 1 = i
        /\ t[i] = s[i + 1] /\ (i # 1 => t[i - 1] = s[i])
    <3>1. i \in Nat /\ 1 <= i /\ i <= Len(s) - 1
      BY <1>1
    <3>2. i # 1 => i - 1 \in 1 .. Len(t) /\ (i - 1) + 1 = i
      BY <1>1, <3>1
    <3>q. QED BY <1>1, <3>1, <3>2
  <2>3. H!Begins(s[i + 1]) = H!Closes(s[i])
    BY <2>2 DEF Flows, H!InOrder
  <2>q. QED BY <2>2, <2>3
<1>4. H!EndOf(t, n) = H!EndOf(s, at)
  <2>1. CASE Len(s) = 1
    BY <1>1, <2>1, EmptySeq DEF H!EndOf
  <2>2. CASE Len(s) # 1
    <3>1. t # <<>> /\ Len(t) \in 1 .. Len(t) /\ Len(t) + 1 = Len(s)
      BY <1>1, <2>2, EmptySeq
    <3>q. QED BY <1>1, <3>1 DEF H!EndOf
  <2>q. QED BY <2>1, <2>2
<1>q. QED BY <1>1, <1>2, <1>3, <1>4 DEF Flows, t

-----------------------------------------------------------------------------
\* What the invariant says of the messages, and how it follows.
LEMMA PipeFlows ==
  ASSUME H!HashPipeAssumption, H!IInv
  PROVE  /\ H!Sent \in Seq(H!Messages) /\ Flows(H!Sent, Len(sum), gathered, prefix)
         /\ Len(sum) \in 0 .. FileSize /\ Len(sum) \in Nat /\ prefix \in 0 .. FileSize /\ prefix \in Nat
         /\ FileSize \in Nat /\ FileSize \in 0 .. FileSize
  BY ConcatProperties DEF H!HashPipeAssumption, H!IInv, H!TypeOK, H!PipeInv, H!Sent, Flows

LEMMA FlowsPipe ==
  ASSUME Flows(H!Sent, Len(sum), gathered, prefix), worker # "failed",
         sum = H!Bytes(0, Len(sum)), Len(sum) \in 0 .. FileSize
  PROVE  H!PipeInv
  BY DEF H!PipeInv, Flows

LEMMA FlowsPipeNext ==
  ASSUME Flows(H!Sent', Len(sum'), gathered', prefix'), worker' # "failed",
         sum' = H!Bytes(0, Len(sum')), Len(sum') \in 0 .. FileSize
  PROVE  H!PipeInv'
  BY DEF H!PipeInv, Flows

\* A writer that is closed has nothing on its way.
LEMMA ClosedOK ==
  ASSUME H!HashPipeAssumption, H!Closed, disk' \subseteq H!Places, record' \in H!Records \cup {Nobody},
         H!RecordCovers', H!StoredUnderItsHash'
  PROVE  H!IInv'
<1>1. H!Bytes(0, 0) = <<>> /\ 0 \in 0 .. FileSize
  BY BytesNone DEF H!HashPipeAssumption
<1>2. H!Sent' = <<>> /\ Len(sum') = 0
  BY DEF H!Closed, H!Sent
<1>3. H!TypeOK'
  BY <1>1 DEF H!Closed, H!TypeOK
<1>4. H!PipeInv'
  BY <1>1, <1>2, FlowsPipeNext DEF H!Closed, Flows, H!InOrder, H!EndOf
<1>5. H!MessagesInv'
  BY <1>2 DEF H!Closed, H!MessagesInv
<1>6. H!DiskInv' /\ H!ClosedInv'
  BY DEF H!Closed, H!DiskInv, H!ClosedInv
<1>q. QED BY <1>3, <1>4, <1>5, <1>6 DEF H!IInv, H!Closed

LEMMA HashInitOK == ASSUME H!HashPipeAssumption, H!Init PROVE H!IInv
<1>1. H!Bytes(0, 0) = <<>> /\ 0 \in 0 .. FileSize
  BY BytesNone DEF H!HashPipeAssumption
<1>2. H!Sent = <<>> /\ Len(sum) = 0
  BY DEF H!Init, H!Sent
<1>3. H!TypeOK
  BY <1>1 DEF H!Init, H!TypeOK
<1>4. H!PipeInv
  BY <1>1, <1>2, FlowsPipe DEF H!Init, Flows, H!InOrder, H!EndOf
<1>5. H!MessagesInv
  BY <1>2 DEF H!Init, H!MessagesInv
<1>6. H!DiskInv /\ H!ClosedInv
  BY DEF H!Init, H!DiskInv, H!ClosedInv
<1>q. QED BY <1>3, <1>4, <1>5, <1>6 DEF H!IInv, H!Init, H!RecordCovers, H!StoredUnderItsHash

\* A run starts or resumes: what it hashed again is what the record says, and is on the disk.
LEMMA OpenStep == ASSUME H!HashPipeAssumption, H!IInv, H!Open PROVE H!IInv'
<1> DEFINE at == H!Offset
           saved(keep) == {r \in IF keep /\ record # Nobody THEN record.ranges ELSE {} :
                            \A i \in r[1] .. r[2] - 1 : i \in disk}
<1>1. PICK keep \in BOOLEAN :
        /\ disk' = IF keep THEN disk ELSE disk \cap (0 .. at - 1)
        /\ H!Absorb(at, saved(keep), <<>>)
  BY DEF H!Open
<1> DEFINE ranges == saved(keep) end == H!Reaches(at, ranges)
<1>2. /\ at \in 0 .. FileSize /\ at \in Nat /\ FileSize \in Nat /\ 0 \in 0 .. FileSize
      /\ at > 0 => record # Nobody /\ record.sum = H!Bytes(0, at)
  BY DEF H!Offset, H!IInv, H!TypeOK, H!Records, H!RecordCovers, H!HashPipeAssumption
<1>3. H!Read(0, at) = H!Bytes(0, at) /\ 0 .. at - 1 \subseteq disk
  <2>1. CASE at = 0
    <3>1. 0 .. at - 1 = {}
      BY <2>1
    <3>q. QED BY <1>2, <3>1, ReadsBytes
  <2>2. CASE at > 0
    <3>1. H!Read(0, at) = H!Bytes(0, at)
      BY <1>2, <2>2 DEF H!Open, H!RecordedSum
    <3>q. QED BY <1>2, <3>1, ReadFits
  <2>q. QED BY <1>2, <2>1, <2>2
<1>4. ranges \in SUBSET H!Ranges /\ \A r \in ranges : r[1] .. r[2] - 1 \subseteq disk
  BY DEF H!IInv, H!TypeOK, H!Records
<1>5. ~keep => ranges = {}
  OBVIOUS
<1> HIDE DEF saved
<1>6. /\ prefix' = end /\ runs' = {r \in ranges : r[1] >= end}
      /\ IF end = at THEN gathered' = <<>> /\ out' = out
         ELSE /\ gathered' = <<>>
              /\ out' = out \o (IF <<>> = <<>> THEN <<>> ELSE <<H!Chunks(<<>>)>>)
                            \o <<H!ARange(at, end)>>
  BY <1>1 DEF H!Absorb
<1> HIDE DEF ranges, at
<1>7. end \in at .. FileSize /\ \A p \in at .. end - 1 : \E r \in ranges : r[1] <= p /\ p < r[2]
  BY <1>2, <1>4, ReachesFar
<1> HIDE DEF end
<1>8. end \in Nat /\ at <= end /\ end \in 0 .. FileSize
  BY <1>2, <1>7
<1>9. /\ pc = "closed" /\ stored = Nobody /\ out = <<>> /\ queue = <<>> /\ reply = Nobody
      /\ pending' = 0 /\ sum' = H!Bytes(0, at) /\ worker' = "on" /\ pc' = "opened"
      /\ queue' = <<>> /\ reply' = Nobody /\ record' = record /\ stored' = Nobody
  <2>1. pc = "closed" => reply = Nobody
    BY DEF H!IInv, H!MessagesInv
  <2>q. QED BY <1>3, <2>1 DEF H!Open, H!IInv, H!ClosedInv, at
<1>10. \A r \in ranges : /\ r[1] \in 0 .. FileSize /\ r[2] \in 0 .. FileSize /\ r[1] < r[2]
  BY <1>4 DEF H!Ranges
<1>11. 0 .. end - 1 \subseteq disk'
  <2>1. SUFFICES ASSUME NEW p \in 0 .. end - 1 PROVE p \in disk'
    OBVIOUS
  <2>2. CASE p < at
    BY <1>1, <1>2, <1>3, <2>2 DEF at
  <2>3. CASE ~(p < at)
    <3>1. p \in at .. end - 1
      BY <1>2, <1>8, <2>3
    <3>2. PICK r \in ranges : r[1] <= p /\ p < r[2]
      BY <1>7, <3>1
    <3>3. keep /\ p \in r[1] .. r[2] - 1
      BY <1>5, <1>10, <3>1, <3>2
    <3>q. QED BY <1>1, <1>4, <3>2, <3>3
  <2>q. QED BY <2>2, <2>3
<1>12. disk' \subseteq disk /\ (keep => disk' = disk)
  BY <1>1
<1>13. Len(sum') = at
  BY <1>2, <1>9, BytesAre
<1>14. /\ H!Sent' \in Seq(H!Messages) /\ Flows(H!Sent', at, <<>>, end)
       /\ out' \in Seq(H!Messages)
       /\ \A i \in 1 .. Len(H!Sent') : H!Sent'[i] = H!ARange(at, end) /\ at < end
  <2>0. Flows(<<>>, at, <<>>, at) /\ H!EndOf(<<>>, at) = at /\ <<>> \in Seq(H!Messages)
    BY <1>2, BytesNone DEF Flows, H!InOrder, H!EndOf
  <2>1. CASE end = at
    <3>1. out' = <<>> /\ H!Sent' = <<>>
      BY <1>6, <1>9, <2>1 DEF H!Sent
    <3>q. QED BY <2>0, <2>1, <3>1
  <2>2. CASE end # at
    <3>1. out' = <<>> \o <<H!ARange(at, end)>>
      BY <1>6, <1>9, <2>2
    <3>2. at < end
      BY <1>2, <1>8, <2>2
    <3>3. <<H!ARange(at, end)>> \in Seq(H!Messages)
      BY <1>2, <1>8, <3>2, ARangeIs
    <3>4. H!Sent' = <<>> \o <<H!ARange(at, end)>> /\ out' = <<H!ARange(at, end)>>
      BY <1>9, <3>1, <3>3, ConcatEmptySeq DEF H!Sent
    <3>5. /\ H!Sent' \in Seq(H!Messages) /\ Flows(H!Sent', at, <<>>, end)
          /\ \A i \in 1 .. Len(H!Sent') : H!Sent'[i] = H!ARange(at, end) \/ i \in 1 .. 0
      <4>1. Len(<<>>) = 0
        OBVIOUS
      <4> DEFINE u == <<>> \o <<H!ARange(at, end)>>
      <4>2. /\ u \in Seq(H!Messages) /\ Flows(u, at, <<>>, end)
            /\ \A i \in 1 .. Len(u) :
                 u[i] = H!ARange(at, end) \/ (i \in 1 .. Len(<<>>) /\ u[i] = <<>>[i])
        BY <1>2, <1>8, <2>0, <3>2, RangePushed
      <4>3. H!Sent' = u
        BY <3>4
      <4> HIDE DEF u
      <4>q. QED BY <4>1, <4>2, <4>3
    <3>q. QED BY <3>2, <3>3, <3>4, <3>5
  <2>q. QED BY <2>1, <2>2
<1>15. H!TypeOK'
  BY <1>4, <1>6, <1>8, <1>9, <1>12, <1>14 DEF H!IInv, H!TypeOK
<1>16. H!PipeInv'
  BY <1>2, <1>6, <1>9, <1>13, <1>14, FlowsPipeNext
<1>17. H!MessagesInv'
  <2>1. ASSUME NEW i \in 1 .. Len(H!Sent')
        PROVE  H!Sent'[i].kind = "range" /\ H!Sent'[i].to = end
    BY <1>2, <1>8, <1>14, ARangeIs
  <2>2. prefix' - pending' = end
    BY <1>6, <1>8, <1>9
  <2>3. \A i \in 1 .. Len(H!Sent') : H!Sent'[i].kind # "checkpoint" /\ H!Sent'[i].to <= prefix' - pending'
    BY <1>8, <2>1, <2>2
  <2>q. QED BY <1>9, <2>3 DEF H!MessagesInv
<1>18. H!DiskInv'
  <2>1. ASSUME NEW r \in runs' PROVE prefix' <= r[1] /\ r[1] .. r[2] - 1 \subseteq disk'
    BY <1>4, <1>5, <1>6, <1>8, <1>10, <1>12
  <2>q. QED BY <1>6, <1>8, <1>9, <1>11, <2>1 DEF H!DiskInv
<1>19. H!ClosedInv' /\ H!RecordCovers' /\ H!StoredUnderItsHash'
  BY <1>9 DEF H!IInv, H!ClosedInv, H!RecordCovers, H!StoredUnderItsHash
<1>q. QED BY <1>9, <1>15, <1>16, <1>17, <1>18, <1>19 DEF H!IInv

\* A record that is wrong is never the record of a file that was stored.
LEMMA DiscardStep == ASSUME H!HashPipeAssumption, H!IInv, H!Discard PROVE H!IInv'
<1>1. stored = Nobody
  <2>1. SUFFICES ASSUME stored # Nobody PROVE H!RecordedSum(H!Offset)
    BY DEF H!Discard
  <2>2. record # Nobody /\ H!Offset = record.received /\ record \in H!Records
    BY DEF H!Discard, H!Offset, H!IInv, H!TypeOK
  <2>3. H!Offset \in 0 .. FileSize /\ record.sum = H!Bytes(0, H!Offset) /\ disk = H!Places
    BY <2>1, <2>2 DEF H!Records, H!IInv, H!RecordCovers, H!StoredUnderItsHash
  <2>4. 0 .. H!Offset - 1 \subseteq disk /\ H!Offset \in Nat
    BY <2>3 DEF H!Places, H!HashPipeAssumption
  <2>5. H!Read(0, H!Offset) = H!Bytes(0, H!Offset)
    BY <2>4, ReadsBytes
  <2>q. QED BY <2>3, <2>5 DEF H!RecordedSum
<1>2. prefix = 0 /\ pending = 0 /\ runs = {}
  BY DEF H!Discard, H!IInv, H!ClosedInv, H!TypeOK
<1>3. /\ disk' = {} /\ record' = Nobody /\ H!Sent' = H!Sent
      /\ UNCHANGED <<prefix, pending, runs, gathered, out, queue, sum, worker, reply, pc, stored>>
  BY DEF H!Discard, H!writer, H!Sent
<1>4. H!TypeOK'
  BY <1>2, <1>3 DEF H!IInv, H!TypeOK
<1>5. H!PipeInv' /\ H!MessagesInv' /\ H!ClosedInv'
  BY <1>3 DEF H!IInv, H!PipeInv, H!MessagesInv, H!ClosedInv
<1>6. H!DiskInv'
  BY <1>2, <1>3 DEF H!DiskInv
<1>q. QED BY <1>1, <1>3, <1>4, <1>5, <1>6 DEF H!IInv, H!RecordCovers, H!StoredUnderItsHash

\* The writer has bytes that extend the prefix: they are gathered, or sent, with the runs they meet
\* behind them.
LEMMA ReadyFacts ==
  ASSUME H!HashPipeAssumption, H!IInv, H!Ready
  PROVE  /\ pc = "write" /\ out = <<>> /\ H!Sent = queue /\ queue \in Seq(H!Messages)
         /\ Flows(queue, Len(sum), gathered, prefix) /\ reply = Nobody /\ stored = Nobody
         /\ Len(sum) \in 0 .. FileSize /\ Len(sum) \in Nat /\ FileSize \in Nat
         /\ prefix \in 0 .. FileSize /\ prefix \in Nat /\ pending \in 0 .. prefix /\ pending \in Nat
         /\ worker # "failed" /\ sum = H!Bytes(0, Len(sum))
         /\ \A i \in 1 .. Len(queue) : /\ queue[i].kind # "checkpoint"
                                       /\ queue[i].kind = "range" => queue[i].to <= prefix - pending
<1>1. H!Sent = queue /\ queue \in Seq(H!Messages) /\ out = <<>> /\ pc = "write"
  BY ConcatEmptySeq DEF H!Ready, H!IInv, H!TypeOK, H!Sent
<1>2. prefix \in 0 .. FileSize /\ pending \in 0 .. prefix /\ FileSize \in Nat
  BY DEF H!IInv, H!TypeOK, H!HashPipeAssumption
<1>3. prefix \in Nat /\ pending \in Nat
  BY <1>2
<1>4. /\ reply = Nobody /\ stored = Nobody /\ worker # "failed" /\ sum = H!Bytes(0, Len(sum))
      /\ \A i \in 1 .. Len(queue) : /\ queue[i].kind # "checkpoint"
                                    /\ queue[i].kind = "range" => queue[i].to <= prefix - pending
  BY <1>1 DEF H!IInv, H!MessagesInv, H!PipeInv
<1>q. QED BY <1>1, <1>2, <1>3, <1>4, PipeFlows

LEMMA ExtendStep == ASSUME H!HashPipeAssumption, H!IInv, H!Extend PROVE H!IInv'
<1>0. H!Ready
  BY DEF H!Extend
<1>1. PICK end \in prefix + 1 .. FileSize :
        LET meets == \E r \in runs : r[1] = end
            left == H!Pends(end, meets) IN
        /\ ~H!Overlaps(prefix, end)
        /\ disk' = disk \cup (prefix - pending .. end - left - 1)
        /\ pending' = left
        /\ IF meets
           THEN H!Absorb(end, runs, gathered \o H!Bytes(prefix, end))
           ELSE prefix' = end /\ H!Update(H!Bytes(prefix, end)) /\ UNCHANGED runs
  BY DEF H!Extend
<1> DEFINE meets == \E r \in runs : r[1] = end
           left == H!Pends(end, meets)
           more == gathered \o H!Bytes(prefix, end)
           s == queue \o (IF more = <<>> THEN <<>> ELSE <<H!Chunks(more)>>)
<1>2. /\ ~H!Overlaps(prefix, end) /\ pending' = left
      /\ disk' = disk \cup (prefix - pending .. end - left - 1)
      /\ IF meets
         THEN H!Absorb(end, runs, more)
         ELSE prefix' = end /\ H!Update(H!Bytes(prefix, end)) /\ UNCHANGED runs
  BY <1>1
<1>3. /\ end \in 0 .. FileSize /\ end \in Nat /\ prefix < end /\ prefix <= end
      /\ prefix \in Nat /\ pending \in Nat /\ pending <= prefix
  BY ReadyFacts, <1>0
<1>4. left \in 0 .. end /\ (left # 0 => end - left >= prefix - pending) /\ (meets => left = 0)
  BY <1>3 DEF H!Pends, H!HashPipeAssumption
<1> HIDE DEF meets, left
<1>5. left \in Nat /\ left <= end /\ prefix - pending <= end - left
  <2>1. left \in Nat /\ left <= end
    BY <1>3, <1>4
  <2>2. CASE left = 0
    BY <1>3, <2>2
  <2>3. CASE left # 0
    BY <1>3, <1>4, <2>1, <2>3
  <2>q. QED BY <2>1, <2>2, <2>3
<1>6. Flows(queue, Len(sum), more, end)
  <2>1. /\ H!EndOf(queue, Len(sum)) \in 0 .. prefix /\ H!InOrder(queue, Len(sum))
        /\ gathered = H!Bytes(H!EndOf(queue, Len(sum)), prefix)
    BY ReadyFacts, <1>0 DEF Flows
  <2>2. H!EndOf(queue, Len(sum)) \in Nat /\ H!EndOf(queue, Len(sum)) <= prefix
        /\ H!EndOf(queue, Len(sum)) \in 0 .. end
    BY <1>3, <2>1
  <2>3. more = H!Bytes(H!EndOf(queue, Len(sum)), end)
    BY <1>3, <2>1, <2>2, BytesJoin
  <2> HIDE DEF more
  <2>q. QED BY <2>1, <2>2, <2>3 DEF Flows
<1> HIDE DEF more
<1>7. \A r \in runs : /\ r[1] \in 0 .. FileSize /\ r[2] \in 0 .. FileSize /\ r[1] < r[2]
                      /\ end <= r[1] /\ r[1] .. r[2] - 1 \subseteq disk
  <2>1. ASSUME NEW r \in runs
        PROVE  /\ r[1] \in 0 .. FileSize /\ r[2] \in 0 .. FileSize /\ r[1] < r[2]
               /\ end <= r[1] /\ r[1] .. r[2] - 1 \subseteq disk
    <3>1. /\ r[1] \in 0 .. FileSize /\ r[2] \in 0 .. FileSize /\ r[1] < r[2] /\ prefix <= r[1]
          /\ r[1] .. r[2] - 1 \subseteq disk
      BY DEF H!IInv, H!TypeOK, H!Ranges, H!DiskInv
    <3>2. ~(prefix < r[2] /\ r[1] < end)
      BY <1>2 DEF H!Overlaps
    <3>q. QED BY <1>3, <3>1, <3>2
  <2>q. QED BY <2>1
<1>8. runs \in SUBSET H!Ranges /\ disk \subseteq H!Places /\ 0 .. prefix - pending - 1 \subseteq disk
  BY DEF H!IInv, H!TypeOK, H!DiskInv
<1>9. 0 .. end - left - 1 \subseteq disk' /\ disk \subseteq disk' /\ disk' \subseteq H!Places
  <2>1. ASSUME NEW p \in 0 .. end - left - 1 PROVE p \in disk'
    <3>1. p \in 0 .. prefix - pending - 1 \/ p \in prefix - pending .. end - left - 1
      BY <1>3, <1>5
    <3>q. QED BY <1>2, <1>8, <3>1
  <2>2. prefix - pending .. end - left - 1 \subseteq H!Places
    BY <1>3, <1>5, FileSize \in Nat DEF H!Places, H!HashPipeAssumption
  <2>q. QED BY <1>2, <1>8, <2>1, <2>2
<1>10. /\ s \in Seq(H!Messages) /\ Flows(s, Len(sum), <<>>, end) /\ H!EndOf(s, Len(sum)) = end
       /\ \A i \in 1 .. Len(s) : s[i].kind = "chunks" \/ (i \in 1 .. Len(queue) /\ s[i] = queue[i])
  <2>1. queue \in Seq(H!Messages) /\ Len(sum) \in Nat
    BY <1>0, ReadyFacts
  <2>2. end \in 0 .. FileSize
    BY <1>3
  <2>3. /\ queue \o (IF more = <<>> THEN <<>> ELSE <<H!Chunks(more)>>) \in Seq(H!Messages)
        /\ Flows(queue \o (IF more = <<>> THEN <<>> ELSE <<H!Chunks(more)>>), Len(sum), <<>>, end)
        /\ H!EndOf(queue \o (IF more = <<>> THEN <<>> ELSE <<H!Chunks(more)>>), Len(sum)) = end
        /\ \A i \in 1 .. Len(queue \o (IF more = <<>> THEN <<>> ELSE <<H!Chunks(more)>>)) :
              \/ (queue \o (IF more = <<>> THEN <<>> ELSE <<H!Chunks(more)>>))[i].kind = "chunks"
              \/ /\ i \in 1 .. Len(queue)
                 /\ (queue \o (IF more = <<>> THEN <<>> ELSE <<H!Chunks(more)>>))[i] = queue[i]
    <3> HIDE DEF s
    <3>q. QED BY <1>6, <2>1, <2>2, GatheredPushed
  <2>q. QED BY <2>3
<1>11. \A i \in 1 .. Len(queue) : /\ queue[i].kind # "checkpoint"
                                  /\ queue[i].kind = "range" => queue[i].to <= prefix - pending
  BY <1>0, ReadyFacts
<1>12. /\ pc = "write" /\ out = <<>> /\ queue \in Seq(H!Messages)
       /\ reply = Nobody /\ stored = Nobody /\ worker # "failed" /\ sum = H!Bytes(0, Len(sum))
       /\ Len(sum) \in 0 .. FileSize /\ Len(sum) \in Nat /\ FileSize \in Nat
       /\ UNCHANGED <<record, queue, sum, worker, reply, pc, stored>>
  BY <1>0, ReadyFacts DEF H!Extend
<1>13. ASSUME NEW m \in H!Messages, m.kind = "range" => m.to <= prefix - pending
       PROVE  m.kind = "range" => m.to <= end - left
  <2>1. m.kind = "range" => m.to \in 0 .. FileSize
    BY MessageIs
  <2>q. QED BY <1>3, <1>5, <1>13, <2>1
<1>14. CASE ~meets
  <2>1. prefix' = end /\ runs' = runs /\ H!Update(H!Bytes(prefix, end))
    BY <1>2, <1>14
  <2>2. \/ gathered' = more /\ out' = out
        \/ gathered' = <<>> /\ out' = <<H!Chunks(more)>>
    BY <2>1 DEF H!Update, more
  <2>3. /\ out' \in Seq(H!Messages) /\ Flows(H!Sent', Len(sum), gathered', end)
        /\ H!Sent' \in Seq(H!Messages)
        /\ \A i \in 1 .. Len(H!Sent') :
             H!Sent'[i].kind = "chunks" \/ (i \in 1 .. Len(queue) /\ H!Sent'[i] = queue[i])
    <3>1. CASE gathered' = more /\ out' = out
      <4>1. H!Sent' = queue /\ out' = <<>>
        BY <1>12, <3>1, ConcatEmptySeq DEF H!Sent
      <4>q. QED BY <1>6, <1>12, <3>1, <4>1
    <3>2. CASE gathered' = <<>> /\ out' = <<H!Chunks(more)>>
      <4>1. H!Chunks(more) \in H!Messages /\ more # <<>>
        <5>1. /\ H!EndOf(queue, Len(sum)) \in 0 .. prefix
          BY <1>0, ReadyFacts DEF Flows
        <5>2. more = H!Bytes(H!EndOf(queue, Len(sum)), end)
          BY <1>6 DEF Flows
        <5> DEFINE e == H!EndOf(queue, Len(sum))
        <5> HIDE DEF e
        <5>3. e \in 0 .. prefix
          BY <5>1 DEF e
        <5>4. e \in 0 .. FileSize /\ e \in Nat /\ e < end
          BY <1>3, <1>12, <5>3
        <5>5. more = H!Bytes(e, end)
          BY <5>2 DEF e
        <5>q. QED BY <1>3, <5>4, <5>5, ChunksAre, BytesSome
      <4>2. H!Sent' = s
        BY <1>12, <3>2, <4>1 DEF H!Sent
      <4>3. out' \in Seq(H!Messages)
        BY <3>2, <4>1
      <4> HIDE DEF s
      <4>q. QED BY <1>10, <3>2, <4>2, <4>3
    <3>q. QED BY <2>2, <3>1, <3>2
  <2>4. H!TypeOK'
    BY <1>3, <1>4, <1>9, <1>12, <2>1, <2>3, <1>2 DEF H!IInv, H!TypeOK
  <2>5. H!PipeInv'
    BY <1>12, <2>1, <2>3, FlowsPipeNext
  <2>6. H!MessagesInv'
    <3>1. ASSUME NEW i \in 1 .. Len(H!Sent')
          PROVE  /\ H!Sent'[i].kind = "range" => H!Sent'[i].to <= end - left
                 /\ H!Sent'[i].kind # "checkpoint"
      <4>1. H!Sent'[i] \in H!Messages
        BY <2>3, ElementOfSeq
      <4>2. CASE H!Sent'[i].kind = "chunks"
        BY <4>2
      <4>3. CASE i \in 1 .. Len(queue) /\ H!Sent'[i] = queue[i]
        BY <1>11, <1>13, <4>1, <4>3
      <4>q. QED BY <2>3, <4>2, <4>3
    <3>q. QED BY <1>2, <1>12, <2>1, <3>1 DEF H!MessagesInv
  <2>7. H!DiskInv'
    BY <1>2, <1>7, <1>9, <2>1 DEF H!DiskInv
  <2>8. H!ClosedInv' /\ H!RecordCovers' /\ H!StoredUnderItsHash'
    BY <1>12 DEF H!IInv, H!ClosedInv, H!RecordCovers, H!StoredUnderItsHash
  <2>q. QED BY <1>12, <2>4, <2>5, <2>6, <2>7, <2>8 DEF H!IInv
<1>15. CASE meets
  <2> DEFINE far == H!Reaches(end, runs)
  <2>1. /\ prefix' = far /\ runs' = {r \in runs : r[1] >= far}
        /\ IF far = end THEN gathered' = more /\ out' = out
           ELSE /\ gathered' = <<>>
                /\ out' = out \o (IF more = <<>> THEN <<>> ELSE <<H!Chunks(more)>>)
                              \o <<H!ARange(end, far)>>
    BY <1>2, <1>15 DEF H!Absorb
  <2>2. far \in end .. FileSize /\ \A p \in end .. far - 1 : \E r \in runs : r[1] <= p /\ p < r[2]
    BY <1>3, <1>8, ReachesFar
  <2> HIDE DEF far
  <2>3. far \in Nat /\ end <= far /\ far \in 0 .. FileSize
    BY <1>3, <2>2
  <2>4. left = 0
    BY <1>4, <1>15
  <2>5. 0 .. far - 1 \subseteq disk'
    <3>1. ASSUME NEW p \in 0 .. far - 1 PROVE p \in disk'
      <4>1. CASE p < end
        BY <1>3, <1>9, <2>4, <4>1
      <4>2. CASE ~(p < end)
        <5>1. p \in end .. far - 1
          BY <1>3, <2>3, <4>2
        <5>2. PICK r \in runs : r[1] <= p /\ p < r[2]
          BY <2>2, <5>1
        <5>3. p \in r[1] .. r[2] - 1
          BY <1>7, <5>1, <5>2
        <5>q. QED BY <1>7, <1>9, <5>2, <5>3
      <4>q. QED BY <4>1, <4>2
    <3>q. QED BY <3>1
  <2>6. /\ out' \in Seq(H!Messages) /\ H!Sent' \in Seq(H!Messages)
        /\ Flows(H!Sent', Len(sum), gathered', far)
        /\ \A i \in 1 .. Len(H!Sent') :
             \/ H!Sent'[i].kind = "chunks"
             \/ i \in 1 .. Len(queue) /\ H!Sent'[i] = queue[i]
             \/ H!Sent'[i] = H!ARange(end, far) /\ end < far
    <3>1. CASE far = end
      <4>1. gathered' = more /\ out' = <<>> /\ H!Sent' = queue
        BY <1>12, <2>1, <3>1, ConcatEmptySeq DEF H!Sent
      <4>q. QED BY <1>6, <1>12, <3>1, <4>1
    <3>2. CASE far # end
      <4> DEFINE x == IF more = <<>> THEN <<>> ELSE <<H!Chunks(more)>>
                 y == <<H!ARange(end, far)>>
      <4>1. end < far
        BY <1>3, <2>3, <3>2
      <4>2. gathered' = <<>> /\ out' = <<>> \o x \o y
        BY <1>12, <2>1, <3>2
      <4>3. x \in Seq(H!Messages) /\ y \in Seq(H!Messages)
        <5>1. y \in Seq(H!Messages)
          BY <1>3, <2>3, <4>1, ARangeIs
        <5>2. ASSUME more # <<>> PROVE H!Chunks(more) \in H!Messages
          <6> DEFINE e == H!EndOf(queue, Len(sum))
          <6>1. e \in 0 .. end /\ more = H!Bytes(e, end)
            BY <1>6 DEF Flows
          <6> HIDE DEF e
          <6>2. e # end
            BY <1>3, <5>2, <6>1, BytesNone
          <6>3. e \in 0 .. FileSize /\ e < end
            BY <1>3, <1>12, <6>1, <6>2
          <6>q. QED BY <1>3, <6>1, <6>3, ChunksAre
        <5>q. QED BY <5>1, <5>2
      <4>4. s = queue \o x
        OBVIOUS
      <4> HIDE DEF x, y, s
      <4>5. out' = x \o y /\ x \o y \in Seq(H!Messages)
        BY <4>2, <4>3, ConcatEmptySeq, ConcatProperties
      <4>6. H!Sent' = s \o y
        <5>1. H!Sent' = queue \o (x \o y)
          BY <1>12, <4>5 DEF H!Sent
        <5>2. (queue \o x) \o y = queue \o (x \o y)
          BY <1>12, <4>3, ConcatAssociative, SMTT(30)
        <5>q. QED BY <4>4, <5>1, <5>2
      <4> DEFINE u == s \o y
      <4>7. /\ u \in Seq(H!Messages) /\ Flows(u, Len(sum), <<>>, far)
            /\ \A i \in 1 .. Len(u) : u[i] = H!ARange(end, far) \/ (i \in 1 .. Len(s) /\ u[i] = s[i])
        <5>1. s \in Seq(H!Messages) /\ Flows(s, Len(sum), <<>>, end) /\ H!EndOf(s, Len(sum)) = end
          BY <1>10, Zenon
        <5>2. Len(sum) \in Nat /\ end \in 0 .. FileSize /\ far \in 0 .. FileSize
          BY <1>3, <1>12, <2>3, Zenon
        <5>3. u = s \o <<H!ARange(end, far)>>
          BY DEF y
        <5> HIDE DEF u
        <5>q. QED BY <4>1, <5>1, <5>2, <5>3, RangePushed
      <4> HIDE DEF u
      <4>8. H!Sent' = u
        BY <4>6 DEF u
      <4>9. ASSUME NEW i \in 1 .. Len(u)
            PROVE  \/ u[i].kind = "chunks"
                   \/ i \in 1 .. Len(queue) /\ u[i] = queue[i]
                   \/ u[i] = H!ARange(end, far) /\ end < far
        <5>1. CASE u[i] = H!ARange(end, far)
          BY <4>1, <5>1
        <5>2. CASE i \in 1 .. Len(s) /\ u[i] = s[i]
          BY <1>10, <5>2, Zenon
        <5>q. QED BY <4>7, <5>1, <5>2
      <4>q. QED BY <4>2, <4>5, <4>7, <4>8, <4>9
    <3>q. QED BY <3>1, <3>2
  <2>7. H!TypeOK'
    BY <1>2, <1>8, <1>9, <1>12, <2>1, <2>3, <2>4, <2>6 DEF H!IInv, H!TypeOK
  <2>8. H!PipeInv'
    BY <1>12, <2>1, <2>6, FlowsPipeNext
  <2>9. H!MessagesInv'
    <3>1. ASSUME NEW i \in 1 .. Len(H!Sent')
          PROVE  /\ H!Sent'[i].kind = "range" => H!Sent'[i].to <= far
                 /\ H!Sent'[i].kind # "checkpoint"
      <4>1. H!Sent'[i] \in H!Messages
        BY <2>6, ElementOfSeq
      <4>2. CASE H!Sent'[i].kind = "chunks"
        BY <4>2
      <4>3. CASE i \in 1 .. Len(queue) /\ H!Sent'[i] = queue[i]
        <5>1. H!Sent'[i].kind = "range" => H!Sent'[i].to <= end - left
          BY <1>11, <1>13, <4>1, <4>3
        <5>2. H!Sent'[i].kind = "range" => H!Sent'[i].to \in 0 .. FileSize
          BY <4>1, MessageIs
        <5>q. QED BY <1>3, <1>11, <2>3, <2>4, <4>3, <5>1, <5>2
      <4>4. CASE H!Sent'[i] = H!ARange(end, far) /\ end < far
        <5>1. H!ARange(end, far).kind = "range" /\ H!ARange(end, far).to = far
          BY <1>3, <2>3, <4>4, ARangeIs
        <5>q. QED BY <2>3, <4>4, <5>1
      <4>q. QED BY <2>6, <4>2, <4>3, <4>4
    <3>q. QED BY <1>2, <1>12, <2>1, <2>3, <2>4, <3>1 DEF H!MessagesInv
  <2>10. H!DiskInv'
    <3>1. \A r \in runs' : prefix' <= r[1] /\ r[1] .. r[2] - 1 \subseteq disk'
      BY <1>7, <1>9, <2>1, <2>3
    <3>q. QED BY <1>2, <2>1, <2>3, <2>4, <2>5, <3>1 DEF H!DiskInv
  <2>11. H!ClosedInv' /\ H!RecordCovers' /\ H!StoredUnderItsHash'
    BY <1>12 DEF H!IInv, H!ClosedInv, H!RecordCovers, H!StoredUnderItsHash
  <2>q. QED BY <1>12, <2>7, <2>8, <2>9, <2>10, <2>11 DEF H!IInv
<1>q. QED BY <1>14, <1>15

\* Bytes past the prefix are on the disk at once, alone or behind a run they extend.
LEMMA WritePastStep == ASSUME H!HashPipeAssumption, H!IInv, H!WritePast PROVE H!IInv'
<1>1. PICK at \in prefix + 1 .. FileSize - 1 : \E end \in at + 1 .. FileSize :
        /\ ~H!Overlaps(at, end)
        /\ disk' = disk \cup (at .. end - 1)
        /\ LET before == {r \in runs : r[2] = at} IN
           runs' = (runs \ before) \cup
                     {<<IF before = {} THEN at ELSE (CHOOSE r \in before : TRUE)[1], end>>}
  BY DEF H!WritePast
<1>2. PICK end \in at + 1 .. FileSize :
        /\ disk' = disk \cup (at .. end - 1)
        /\ LET before == {r \in runs : r[2] = at} IN
           runs' = (runs \ before) \cup
                     {<<IF before = {} THEN at ELSE (CHOOSE r \in before : TRUE)[1], end>>}
  BY <1>1
<1> DEFINE before == {r \in runs : r[2] = at}
           from == IF before = {} THEN at ELSE (CHOOSE r \in before : TRUE)[1]
<1>3. runs' = (runs \ before) \cup {<<from, end>>}
  BY <1>2
<1>4. H!Ready /\ prefix \in Nat /\ FileSize \in Nat /\ prefix < at /\ at < end /\ end <= FileSize /\ at \in Nat
      /\ end \in Nat
  BY ReadyFacts DEF H!WritePast
<1>5. \A r \in runs : /\ r[1] \in 0 .. FileSize /\ r[2] \in 0 .. FileSize /\ r[1] < r[2] /\ prefix <= r[1]
                      /\ r[1] .. r[2] - 1 \subseteq disk
  BY DEF H!IInv, H!TypeOK, H!Ranges, H!DiskInv
<1>6. /\ from \in 0 .. FileSize /\ prefix <= from /\ from < end
      /\ from .. end - 1 \subseteq disk \cup (at .. end - 1)
  <2>1. CASE before = {}
    BY <1>4, <2>1
  <2>2. CASE before # {}
    <3>1. PICK r \in before : r = CHOOSE q \in before : TRUE
      BY <2>2
    <3>2. from = r[1] /\ r \in runs /\ r[2] = at
      BY <2>2, <3>1
    <3> HIDE DEF from, before
    <3>3. r[1] \in 0 .. FileSize /\ r[1] < at /\ prefix <= r[1] /\ r[1] .. at - 1 \subseteq disk
      BY <1>5, <3>2
    <3>4. ASSUME NEW p \in r[1] .. end - 1 PROVE p \in disk \cup (at .. end - 1)
      <4>1. p \in r[1] .. at - 1 \/ p \in at .. end - 1
        BY <1>4, <3>3
      <4>q. QED BY <3>3, <4>1
    <3>q. QED BY <1>4, <3>2, <3>3, <3>4
  <2>q. QED BY <2>1, <2>2
<1> HIDE DEF from
<1>7. <<from, end>> \in H!Ranges /\ runs' \subseteq runs \cup {<<from, end>>}
  BY <1>3, <1>4, <1>6 DEF H!Ranges
<1>8. disk \subseteq disk' /\ disk' \subseteq H!Places
  BY <1>2, <1>4 DEF H!IInv, H!TypeOK, H!Places
<1>9. UNCHANGED <<record, prefix, pending, gathered, out, queue, sum, worker, reply, pc, stored>>
      /\ H!Sent' = H!Sent /\ pc = "write" /\ stored = Nobody
  BY <1>4, ReadyFacts DEF H!WritePast, H!Sent
<1>10. H!TypeOK'
  BY <1>7, <1>8, <1>9 DEF H!IInv, H!TypeOK
<1>11. H!PipeInv' /\ H!MessagesInv' /\ H!ClosedInv' /\ H!RecordCovers' /\ H!StoredUnderItsHash'
  BY <1>9 DEF H!IInv, H!PipeInv, H!MessagesInv, H!ClosedInv, H!RecordCovers, H!StoredUnderItsHash
<1>12. H!DiskInv'
  <2>1. ASSUME NEW r \in runs' PROVE prefix' <= r[1] /\ r[1] .. r[2] - 1 \subseteq disk'
    <3>1. CASE r \in runs
      BY <1>5, <1>8, <1>9, <3>1
    <3>2. CASE r = <<from, end>>
      BY <1>2, <1>6, <1>9, <3>2
    <3>q. QED BY <1>7, <3>1, <3>2
  <2>2. 0 .. prefix - pending - 1 \subseteq disk
    BY DEF H!IInv, H!DiskInv
  <2>q. QED BY <1>8, <1>9, <2>1, <2>2 DEF H!DiskInv
<1>q. QED BY <1>9, <1>10, <1>11, <1>12 DEF H!IInv

\* Writing what was held back puts the whole prefix on the disk.
LEMMA FlushedFacts ==
  ASSUME H!HashPipeAssumption, H!IInv
  PROVE  /\ 0 .. prefix - 1 \subseteq H!Flushed /\ disk \subseteq H!Flushed /\ H!Flushed \subseteq H!Places
<1>1. /\ prefix \in Nat /\ pending \in Nat /\ pending <= prefix /\ prefix <= FileSize /\ FileSize \in Nat
      /\ 0 .. prefix - pending - 1 \subseteq disk /\ disk \subseteq H!Places
  BY DEF H!IInv, H!TypeOK, H!DiskInv, H!HashPipeAssumption
<1>2. ASSUME NEW p \in 0 .. prefix - 1 PROVE p \in H!Flushed
  <2>1. p \in 0 .. prefix - pending - 1 \/ p \in prefix - pending .. prefix - 1
    BY <1>1
  <2>q. QED BY <1>1, <2>1 DEF H!Flushed
<1>3. prefix - pending .. prefix - 1 \subseteq H!Places
  BY <1>1 DEF H!Places
<1>q. QED BY <1>1, <1>2, <1>3 DEF H!Flushed

\* The question goes behind everything the writer has.
LEMMA AskFacts ==
  ASSUME H!HashPipeAssumption, H!IInv, H!Ask, queue' = queue, out = <<>>, reply = Nobody
  PROVE  /\ out' \in Seq(H!Messages) /\ H!Sent' \in Seq(H!Messages)
         /\ Flows(H!Sent', Len(sum), <<>>, prefix) /\ gathered' = <<>>
         /\ \A i \in 1 .. Len(H!Sent') :
              \/ H!Sent'[i].kind = "chunks"
              \/ i \in 1 .. Len(H!Sent) /\ H!Sent'[i] = H!Sent[i]
              \/ H!Sent'[i].kind = "checkpoint" /\ i = Len(H!Sent')
<1> DEFINE x == IF gathered = <<>> THEN <<>> ELSE <<H!Chunks(gathered)>>
           y == <<H!Checkpoint(prefix)>>
           s == queue \o x
           u == s \o y
<1>1. /\ H!Sent = queue /\ queue \in Seq(H!Messages) /\ Flows(queue, Len(sum), gathered, prefix)
      /\ prefix \in 0 .. FileSize /\ Len(sum) \in Nat /\ prefix \in Nat
  BY PipeFlows, ConcatEmptySeq DEF H!Sent, H!IInv, H!TypeOK
<1>2. y \in Seq(H!Messages)
  BY <1>1, CheckpointIs
<1>3. x \in Seq(H!Messages)
  <2>1. ASSUME gathered # <<>> PROVE H!Chunks(gathered) \in H!Messages
    <3> DEFINE e == H!EndOf(queue, Len(sum))
    <3>1. e \in 0 .. prefix /\ gathered = H!Bytes(e, prefix)
      BY <1>1 DEF Flows
    <3> HIDE DEF e
    <3>2. e # prefix
      BY <1>1, <2>1, <3>1, BytesNone
    <3>3. e \in 0 .. FileSize /\ e < prefix
      BY <1>1, <3>1, <3>2, PipeFlows
    <3>q. QED BY <1>1, <3>1, <3>3, ChunksAre
  <2>q. QED BY <2>1
<1>4. /\ s \in Seq(H!Messages) /\ Flows(s, Len(sum), <<>>, prefix) /\ H!EndOf(s, Len(sum)) = prefix
      /\ \A i \in 1 .. Len(s) : s[i].kind = "chunks" \/ (i \in 1 .. Len(queue) /\ s[i] = queue[i])
  <2>1. /\ queue \in Seq(H!Messages) /\ Len(sum) \in Nat /\ prefix \in 0 .. FileSize
        /\ Flows(queue, Len(sum), gathered, prefix)
    BY <1>1, Zenon
  <2>q. QED BY <2>1, GatheredPushed
<1>5. out' = <<>> \o x \o y /\ gathered' = <<>>
  BY DEF H!Ask
<1>6. (queue \o x) \o y = queue \o (x \o y)
  <2> HIDE DEF x, y
  <2>q. QED BY <1>1, <1>2, <1>3, ConcatAssociative, SMTT(30)
<1>7. s = queue \o x
  OBVIOUS
<1> HIDE DEF x, s
<1>8. /\ u \in Seq(H!Messages) /\ Flows(u, Len(sum), <<>>, prefix)
      /\ \A i \in 1 .. Len(u) :
           (i = Len(u) /\ u[i] = H!Checkpoint(prefix)) \/ (i \in 1 .. Len(s) /\ u[i] = s[i])
  BY <1>1, <1>4, CheckpointPushed
<1> HIDE DEF y
<1>9. out' = x \o y /\ x \o y \in Seq(H!Messages)
  BY <1>2, <1>3, <1>5, ConcatEmptySeq, ConcatProperties
<1>10. H!Sent' = u
  BY <1>6, <1>7, <1>9 DEF H!Sent
<1> HIDE DEF u
<1>11. ASSUME NEW i \in 1 .. Len(u)
       PROVE  \/ u[i].kind = "chunks"
              \/ i \in 1 .. Len(queue) /\ u[i] = queue[i]
              \/ u[i].kind = "checkpoint" /\ i = Len(u)
  <2>1. CASE i = Len(u) /\ u[i] = H!Checkpoint(prefix)
    BY <1>1, <2>1, CheckpointIs
  <2>2. CASE i \in 1 .. Len(s) /\ u[i] = s[i]
    BY <1>4, <2>2, Zenon
  <2>q. QED BY <1>8, <2>1, <2>2
<1>q. QED BY <1>1, <1>5, <1>8, <1>9, <1>10, <1>11

LEMMA AskedMessages ==
  ASSUME H!HashPipeAssumption, H!IInv, H!Ask, queue' = queue, out = <<>>, reply = Nobody, reply' = Nobody,
         pc \notin {"asked", "save"}, pc' \in {"asked", "save"},
         prefix' = prefix, pending' \in {0, pending}
  PROVE  H!MessagesInv'
<1>1. prefix \in Nat /\ pending \in Nat /\ pending <= prefix
  BY DEF H!IInv, H!TypeOK, H!HashPipeAssumption
<1>2. ASSUME NEW i \in 1 .. Len(H!Sent')
      PROVE  /\ H!Sent'[i].kind = "range" => H!Sent'[i].to <= prefix' - pending'
             /\ H!Sent'[i].kind = "checkpoint" => i = Len(H!Sent')
  <2>1. CASE H!Sent'[i].kind = "chunks"
    BY <2>1
  <2>2. CASE i \in 1 .. Len(H!Sent) /\ H!Sent'[i] = H!Sent[i]
    <3>1. H!Sent'[i] \in H!Messages
      BY AskFacts, ElementOfSeq
    <3>2. /\ H!Sent'[i].kind = "range" => H!Sent'[i].to <= prefix - pending
          /\ H!Sent'[i].kind # "checkpoint"
      BY <2>2 DEF H!IInv, H!MessagesInv
    <3>3. H!Sent'[i].kind = "range" => H!Sent'[i].to \in 0 .. FileSize
      BY <3>1, MessageIs
    <3>q. QED BY <1>1, <3>2, <3>3
  <2>3. CASE H!Sent'[i].kind = "checkpoint" /\ i = Len(H!Sent')
    BY <2>3
  <2>q. QED BY <2>1, <2>2, <2>3, AskFacts
<1>q. QED BY <1>2, AskFacts DEF H!MessagesInv

LEMMA SaveStep == ASSUME H!HashPipeAssumption, H!IInv, H!Save PROVE H!IInv'
<1>1. /\ H!Ready /\ H!Ask /\ disk' = H!Flushed /\ pending' = 0 /\ pc' = "save" /\ pc = "write"
      /\ out = <<>> /\ reply = Nobody /\ reply' = Nobody /\ stored = Nobody /\ prefix \in Nat
      /\ UNCHANGED <<record, prefix, runs, queue, sum, worker, reply, stored>>
  BY ReadyFacts DEF H!Save
<1>2. H!TypeOK'
  BY <1>1, AskFacts, FlushedFacts DEF H!IInv, H!TypeOK
<1>3. H!PipeInv'
  BY <1>1, AskFacts, FlowsPipeNext, ReadyFacts
<1>4. H!MessagesInv'
  BY <1>1, AskedMessages
<1>5. H!DiskInv'
  <2>1. \A r \in runs : prefix <= r[1] /\ r[1] .. r[2] - 1 \subseteq disk
    BY DEF H!IInv, H!DiskInv
  <2>q. QED BY <1>1, <2>1, FlushedFacts DEF H!DiskInv
<1>6. H!ClosedInv' /\ H!RecordCovers' /\ H!StoredUnderItsHash'
  BY <1>1 DEF H!IInv, H!ClosedInv, H!RecordCovers, H!StoredUnderItsHash
<1>q. QED BY <1>1, <1>2, <1>3, <1>4, <1>5, <1>6 DEF H!IInv

LEMMA AskOpenedStep == ASSUME H!HashPipeAssumption, H!IInv, H!AskOpened PROVE H!IInv'
<1>1. /\ H!Ask /\ pc' = "asked" /\ pc = "opened" /\ out = <<>> /\ pending' = pending
      /\ UNCHANGED <<disk, record, prefix, pending, runs, queue, sum, worker, reply, stored>>
  BY DEF H!AskOpened
<1>2. reply = Nobody /\ reply' = Nobody /\ stored = Nobody
  BY <1>1 DEF H!IInv, H!MessagesInv
<1>3. H!TypeOK'
  BY <1>1, <1>2, AskFacts DEF H!IInv, H!TypeOK
<1>4. H!PipeInv'
  BY <1>1, <1>2, AskFacts, FlowsPipeNext DEF H!IInv, H!PipeInv
<1>5. H!MessagesInv'
  BY <1>1, <1>2, AskedMessages
<1>6. H!DiskInv' /\ H!ClosedInv' /\ H!RecordCovers' /\ H!StoredUnderItsHash'
  BY <1>1 DEF H!IInv, H!DiskInv, H!ClosedInv, H!RecordCovers, H!StoredUnderItsHash
<1>q. QED BY <1>1, <1>2, <1>3, <1>4, <1>5, <1>6 DEF H!IInv

\* A message that enters the queue stays where it was on its way.
LEMMA SendStep == ASSUME H!HashPipeAssumption, H!IInv, H!Send PROVE H!IInv'
<1>1. /\ out # <<>> /\ queue' = Append(queue, Head(out)) /\ out' = Tail(out)
      /\ UNCHANGED <<disk, record, prefix, pending, runs, gathered, sum, worker, reply, pc, stored>>
  BY DEF H!Send, H!writer
<1>2. queue \in Seq(H!Messages) /\ out \in Seq(H!Messages)
  BY DEF H!IInv, H!TypeOK
<1>3. Head(out) \in H!Messages /\ Tail(out) \in Seq(H!Messages) /\ out = <<Head(out)>> \o Tail(out)
  BY <1>1, <1>2
<1>4. Append(queue, Head(out)) = queue \o <<Head(out)>> /\ <<Head(out)>> \in Seq(H!Messages)
  BY <1>2, <1>3
<1>5. H!Sent' = H!Sent
  <2>1. (queue \o <<Head(out)>>) \o Tail(out) = queue \o (<<Head(out)>> \o Tail(out))
    BY <1>2, <1>3, <1>4, ConcatAssociative
  <2>q. QED BY <1>1, <1>3, <1>4, <2>1 DEF H!Sent
<1>6. pc # "closed"
  BY <1>1 DEF H!IInv, H!ClosedInv
<1>7. H!TypeOK'
  BY <1>1, <1>2, <1>3 DEF H!IInv, H!TypeOK
<1>8. H!PipeInv' /\ H!MessagesInv' /\ H!DiskInv' /\ H!RecordCovers' /\ H!StoredUnderItsHash'
  BY <1>1, <1>5 DEF H!IInv, H!PipeInv, H!MessagesInv, H!DiskInv, H!RecordCovers, H!StoredUnderItsHash
<1>9. H!ClosedInv'
  BY <1>1, <1>6 DEF H!IInv, H!ClosedInv
<1>q. QED BY <1>1, <1>7, <1>8, <1>9 DEF H!IInv

\* What the worker answers is the hash of the prefix, which has not moved meanwhile.
LEMMA AnsweredStep == ASSUME H!HashPipeAssumption, H!IInv, H!Answered PROVE H!IInv'
<1>1. /\ reply # Nobody /\ reply' = Nobody /\ pc \in {"save", "asked"} /\ pc' = "write"
      /\ record' = IF pc = "save" THEN [received |-> prefix, sum |-> reply, ranges |-> runs]
                   ELSE record
      /\ UNCHANGED <<disk, prefix, pending, runs, gathered, out, queue, sum, worker, stored>>
      /\ H!Sent' = H!Sent
  BY DEF H!Answered, H!writer, H!Sent
<1>2. H!Sent = <<>> /\ reply = H!Bytes(0, prefix)
  BY <1>1 DEF H!IInv, H!MessagesInv
<1>3. prefix \in 0 .. FileSize /\ 0 <= prefix /\ prefix \in Nat /\ runs \subseteq H!Ranges
  BY DEF H!IInv, H!TypeOK, H!HashPipeAssumption
<1>4. reply \in Seq(Nat \cup {Hole})
  BY <1>2, <1>3, BytesAre, SeqMonotonic
<1>5. H!TypeOK'
  <2>1. record' \in H!Records \cup {Nobody}
    BY <1>1, <1>3, <1>4 DEF H!IInv, H!TypeOK, H!Records
  <2>q. QED BY <1>1, <2>1 DEF H!IInv, H!TypeOK
<1>6. H!PipeInv' /\ H!DiskInv'
  BY <1>1 DEF H!IInv, H!PipeInv, H!DiskInv
<1>7. H!MessagesInv'
  BY <1>1, <1>2 DEF H!MessagesInv
<1>8. H!ClosedInv' /\ H!RecordCovers' /\ H!StoredUnderItsHash'
  BY <1>1, <1>2 DEF H!IInv, H!ClosedInv, H!RecordCovers, H!StoredUnderItsHash
<1>q. QED BY <1>1, <1>5, <1>6, <1>7, <1>8 DEF H!IInv

\* All bytes are there: the last ones go to the disk and to the worker.
LEMMA FinishStep == ASSUME H!HashPipeAssumption, H!IInv, H!Finish PROVE H!IInv'
<1> DEFINE s == queue \o (IF gathered = <<>> THEN <<>> ELSE <<H!Chunks(gathered)>>)
<1>1. /\ H!Ready /\ prefix = FileSize /\ runs = {} /\ disk' = H!Flushed /\ pending' = 0
      /\ out' = (IF gathered = <<>> THEN <<>> ELSE <<H!Chunks(gathered)>>)
      /\ gathered' = <<>> /\ pc' = "finish" /\ stored = Nobody /\ reply = Nobody
      /\ UNCHANGED <<record, prefix, runs, queue, sum, worker, reply, stored>>
  BY ReadyFacts DEF H!Finish
<1>2. H!Sent' = s /\ prefix \in 0 .. FileSize /\ prefix \in Nat
  BY <1>1, ReadyFacts DEF H!Sent
<1>3. /\ s \in Seq(H!Messages) /\ Flows(s, Len(sum), <<>>, prefix)
      /\ \A i \in 1 .. Len(s) : s[i].kind = "chunks" \/ (i \in 1 .. Len(queue) /\ s[i] = queue[i])
  BY <1>1, <1>2, ReadyFacts, GatheredPushed
<1>4. out' \in Seq(H!Messages)
  <2>1. ASSUME gathered # <<>> PROVE H!Chunks(gathered) \in H!Messages
    <3> DEFINE e == H!EndOf(queue, Len(sum))
    <3>1. e \in 0 .. prefix /\ gathered = H!Bytes(e, prefix)
      BY <1>1, ReadyFacts DEF Flows
    <3> HIDE DEF e
    <3>2. e # prefix
      BY <1>2, <2>1, <3>1, BytesNone
    <3>3. e \in 0 .. FileSize /\ e < prefix
      BY <1>2, <3>1, <3>2, PipeFlows
    <3>q. QED BY <1>2, <3>1, <3>3, ChunksAre
  <2>q. QED BY <1>1, <2>1
<1> HIDE DEF s
<1>5. H!TypeOK'
  BY <1>1, <1>4, FlushedFacts DEF H!IInv, H!TypeOK
<1>6. H!PipeInv'
  BY <1>1, <1>2, <1>3, ReadyFacts, FlowsPipeNext
<1>7. H!MessagesInv'
  <2>1. ASSUME NEW i \in 1 .. Len(s)
        PROVE  /\ s[i].kind = "range" => s[i].to <= prefix
               /\ s[i].kind # "checkpoint"
    <3>1. CASE s[i].kind = "chunks"
      BY <3>1
    <3>2. CASE i \in 1 .. Len(queue) /\ s[i] = queue[i]
      <4>1. s[i] \in H!Messages
        BY <1>3, ElementOfSeq
      <4>2. s[i].kind = "range" => s[i].to \in 0 .. FileSize
        BY <4>1, MessageIs
      <4>3. /\ s[i].kind # "checkpoint" /\ (s[i].kind = "range" => s[i].to <= prefix - pending)
            /\ pending \in Nat
        BY <1>1, <3>2, ReadyFacts
      <4>q. QED BY <1>2, <4>2, <4>3
    <3>q. QED BY <1>3, <3>1, <3>2
  <2>q. QED BY <1>1, <1>2, <2>1 DEF H!MessagesInv
<1>8. H!DiskInv'
  BY <1>1, <1>2, FlushedFacts DEF H!DiskInv
<1>9. H!ClosedInv' /\ H!RecordCovers' /\ H!StoredUnderItsHash'
  BY <1>1 DEF H!IInv, H!ClosedInv, H!RecordCovers, H!StoredUnderItsHash
<1>q. QED BY <1>1, <1>5, <1>6, <1>7, <1>8, <1>9 DEF H!IInv

\* The queue is drained, so the worker has hashed the whole file, which is on the disk.
LEMMA JoinStep == ASSUME H!HashPipeAssumption, H!IInv, H!Join PROVE H!IInv'
<1>1. /\ pc = "finish" /\ out = <<>> /\ queue = <<>> /\ H!Closed /\ UNCHANGED <<disk, record>>
      /\ stored' \in {sum, stored} /\ stored = Nobody
  BY DEF H!Join, H!IInv
<1>2. H!Sent = <<>>
  BY <1>1 DEF H!Sent
<1>3. /\ prefix = FileSize /\ pending = 0 /\ gathered = <<>> /\ FileSize \in Nat
      /\ sum = H!Bytes(0, Len(sum)) /\ Len(sum) \in 0 .. FileSize /\ gathered = H!Bytes(Len(sum), prefix)
  BY <1>1, <1>2 DEF H!IInv, H!ClosedInv, H!PipeInv, H!EndOf, H!HashPipeAssumption
<1>4. Len(sum) = FileSize
  <2>1. Len(sum) < FileSize => H!Bytes(Len(sum), FileSize) # <<>>
    BY <1>3, BytesSome
  <2>q. QED BY <1>3, <2>1
<1>5. disk = H!Places
  <2>1. 0 .. prefix - pending - 1 \subseteq disk /\ disk \subseteq H!Places
    BY DEF H!IInv, H!TypeOK, H!DiskInv
  <2>2. prefix - pending - 1 = FileSize - 1
    BY <1>3
  <2>q. QED BY <2>1, <2>2 DEF H!Places
<1>6. H!StoredUnderItsHash'
  BY <1>1, <1>3, <1>4, <1>5 DEF H!StoredUnderItsHash
<1>7. H!RecordCovers'
  BY <1>1 DEF H!IInv, H!RecordCovers, H!Closed
<1>q. QED BY <1>1, <1>6, <1>7, ClosedOK DEF H!IInv, H!TypeOK

LEMMA DropStep == ASSUME H!HashPipeAssumption, H!IInv, H!Drop PROVE H!IInv'
<1>1. H!RecordCovers' /\ H!StoredUnderItsHash'
  BY DEF H!IInv, H!RecordCovers, H!StoredUnderItsHash, H!Drop, H!Closed
<1>q. QED BY <1>1, ClosedOK DEF H!IInv, H!TypeOK, H!Drop

LEMMA PowerCutStep == ASSUME H!HashPipeAssumption, H!IInv, H!PowerCut PROVE H!IInv'
<1>1. H!RecordCovers' /\ H!StoredUnderItsHash'
  BY DEF H!IInv, H!RecordCovers, H!StoredUnderItsHash, H!PowerCut, H!Closed
<1>2. disk' \subseteq H!Places /\ record' \in H!Records \cup {Nobody} /\ H!Closed
  BY SMTT(30) DEF H!IInv, H!TypeOK, H!PowerCut
<1>q. QED BY <1>1, <1>2, ClosedOK

-----------------------------------------------------------------------------
\* What the worker takes begins where it is.
LEMMA TakeFacts ==
  ASSUME H!HashPipeAssumption, H!IInv, H!Take, UNCHANGED out
  PROVE  LET m == Head(queue) IN
         /\ m \in H!Messages /\ H!Begins(m) = Len(sum) /\ queue' \in Seq(H!Messages)
         /\ Flows(H!Sent', H!Closes(m), gathered, prefix) /\ m = H!Sent[1] /\ 1 \in 1 .. Len(H!Sent)
         /\ Len(H!Sent') = Len(H!Sent) - 1 /\ \A i \in 1 .. Len(H!Sent') : H!Sent'[i] = H!Sent[i + 1]
         /\ pc # "closed" /\ stored = Nobody /\ reply = Nobody
<1>1. /\ queue # <<>> /\ queue' = Tail(queue) /\ queue \in Seq(H!Messages) /\ out \in Seq(H!Messages)
      /\ out' = out
  BY DEF H!Take, H!IInv, H!TypeOK
<1>2. /\ Head(queue) \in H!Messages /\ Tail(queue) \in Seq(H!Messages)
      /\ queue = <<Head(queue)>> \o Tail(queue) /\ <<Head(queue)>> \in Seq(H!Messages)
  BY <1>1
<1> DEFINE h == <<Head(queue)>> rest == Tail(queue) \o out
<1>3. rest \in Seq(H!Messages) /\ H!Sent' = rest
  BY <1>1, <1>2, ConcatProperties DEF H!Sent
<1>4. H!Sent = h \o rest
  <2>1. (h \o Tail(queue)) \o out = h \o (Tail(queue) \o out)
    BY <1>1, <1>2, ConcatAssociative
  <2>q. QED BY <1>2, <2>1 DEF H!Sent
<1>5. H!Sent # <<>> /\ H!Sent[1] = Head(queue) /\ Tail(H!Sent) = rest /\ 1 \in 1 .. Len(H!Sent)
  <2> HIDE DEF rest
  <2>1. h \in Seq(H!Messages) /\ Len(h) = 1 /\ h[1] = Head(queue)
    BY <1>2
  <2>2. /\ H!Sent \in Seq(H!Messages) /\ Len(H!Sent) = 1 + Len(rest) /\ Len(rest) \in Nat
        /\ \A i \in 1 .. 1 + Len(rest) : H!Sent[i] = IF i <= 1 THEN h[i] ELSE rest[i - 1]
    BY <1>3, <1>4, <2>1, ConcatProperties
  <2>3. H!Sent # <<>> /\ H!Sent[1] = Head(queue) /\ 1 \in 1 .. Len(H!Sent)
    BY <2>1, <2>2
  <2>4. /\ Tail(H!Sent) \in Seq(H!Messages) /\ Len(Tail(H!Sent)) = Len(rest)
        /\ \A i \in 1 .. Len(Tail(H!Sent)) : Tail(H!Sent)[i] = H!Sent[i + 1]
    BY <2>2, <2>3, HeadTailProperties
  <2>5. \A i \in 1 .. Len(rest) : Tail(H!Sent)[i] = rest[i]
    <3> TAKE i \in 1 .. Len(rest)
    <3>1. i + 1 \in 1 .. 1 + Len(rest) /\ ~(i + 1 <= 1) /\ (i + 1) - 1 = i
      BY <2>2
    <3>q. QED BY <2>2, <2>4, <3>1
  <2>6. Tail(H!Sent) = rest
    BY <1>3, <2>4, <2>5, SeqEqual
  <2>q. QED BY <2>3, <2>6
<1> HIDE DEF rest
<1>6. /\ H!Begins(H!Sent[1]) = Len(sum)
      /\ Len(Tail(H!Sent)) = Len(H!Sent) - 1 /\ \A i \in 1 .. Len(Tail(H!Sent)) : Tail(H!Sent)[i] = H!Sent[i + 1]
      /\ Flows(Tail(H!Sent), H!Closes(H!Sent[1]), gathered, prefix)
  BY <1>5, PipeFlows, Taken
<1>7. pc # "closed" /\ stored = Nobody /\ reply = Nobody
  BY <1>1, <1>5 DEF H!IInv, H!ClosedInv, H!MessagesInv
<1>q. QED BY <1>1, <1>2, <1>3, <1>5, <1>6, <1>7, Zenon

\* The messages that are left keep to the places they had.
LEMMA LeftMessages ==
  ASSUME H!HashPipeAssumption, H!IInv, H!Take, UNCHANGED <<out, prefix, pending, pc, gathered>>, reply' = Nobody
  PROVE  H!MessagesInv'
<1>1. /\ Len(H!Sent') = Len(H!Sent) - 1 /\ \A i \in 1 .. Len(H!Sent') : H!Sent'[i] = H!Sent[i + 1]
      /\ Len(H!Sent) \in Nat
  BY TakeFacts, PipeFlows
<1>2. ASSUME NEW i \in 1 .. Len(H!Sent')
      PROVE  /\ H!Sent'[i].kind = "range" => H!Sent'[i].to <= prefix - pending
             /\ H!Sent'[i].kind = "checkpoint" => i = Len(H!Sent') /\ pc \in {"asked", "save"}
  <2>1. i + 1 \in 1 .. Len(H!Sent) /\ H!Sent'[i] = H!Sent[i + 1]
    BY <1>1
  <2>2. /\ H!Sent[i + 1].kind = "range" => H!Sent[i + 1].to <= prefix - pending
        /\ H!Sent[i + 1].kind = "checkpoint" => i + 1 = Len(H!Sent) /\ pc \in {"asked", "save"}
    BY <2>1 DEF H!IInv, H!MessagesInv
  <2>q. QED BY <1>1, <2>1, <2>2
<1>3. pc \in {"asked", "save"} => gathered = <<>>
  BY DEF H!IInv, H!MessagesInv
<1>q. QED BY <1>2, <1>3 DEF H!MessagesInv

\* Bytes that follow what was hashed are hashed.
LEMMA HashedOn ==
  ASSUME H!HashPipeAssumption, H!IInv, H!Take, NEW b \in 0 .. FileSize, Head(queue).kind # "checkpoint",
         H!Closes(Head(queue)) = b, Len(sum) <= b, sum' = sum \o H!Bytes(Len(sum), b),
         UNCHANGED <<disk, record, H!writer, out, worker, reply, pc, stored>>
  PROVE  H!IInv'
<1>1. /\ sum = H!Bytes(0, Len(sum)) /\ Len(sum) \in Nat /\ Len(sum) \in 0 .. FileSize /\ b \in Nat /\ 0 <= b
      /\ worker # "failed"
  BY DEF H!IInv, H!PipeInv, H!HashPipeAssumption
<1>2. sum' = H!Bytes(0, b)
  <2>1. H!Bytes(0, Len(sum)) \o H!Bytes(Len(sum), b) = H!Bytes(0, b)
    <3>1. 0 \in Nat /\ 0 <= Len(sum)
      BY <1>1
    <3>q. QED BY <1>1, <3>1, BytesJoin
  <2>q. QED BY <1>1, <2>1
<1>3. Len(sum') = b
  BY <1>1, <1>2, BytesAre
<1>4. /\ UNCHANGED <<disk, record, prefix, pending, runs, gathered, out, worker, reply, pc, stored>>
      /\ reply' = Nobody
  BY TakeFacts DEF H!writer
<1>5. H!PipeInv'
  BY <1>1, <1>2, <1>3, <1>4, TakeFacts, FlowsPipeNext
<1>6. H!MessagesInv'
  BY <1>4, LeftMessages
<1>7. H!TypeOK'
  BY <1>4, TakeFacts DEF H!IInv, H!TypeOK
<1>8. H!DiskInv' /\ H!RecordCovers' /\ H!StoredUnderItsHash'
  BY <1>4 DEF H!IInv, H!DiskInv, H!RecordCovers, H!StoredUnderItsHash
<1>9. H!ClosedInv'
  BY <1>4, TakeFacts DEF H!IInv, H!ClosedInv
<1>q. QED BY <1>4, <1>5, <1>6, <1>7, <1>8, <1>9 DEF H!IInv

LEMMA HashChunksStep == ASSUME H!HashPipeAssumption, H!IInv, H!HashChunks PROVE H!IInv'
<1> DEFINE m == Head(queue)
<1>1. H!Take /\ m.kind = "chunks" /\ sum' = sum \o m.bytes
      /\ UNCHANGED <<disk, record, H!writer, out, worker, reply, pc, stored>>
  BY DEF H!HashChunks
<1>2. m \in H!Messages /\ H!Begins(m) = Len(sum)
  BY <1>1, TakeFacts
<1> HIDE DEF m
<1>3. m.bytes = H!Bytes(Len(sum), H!Closes(m)) /\ Len(sum) < H!Closes(m) /\ H!Closes(m) \in 0 .. FileSize
  BY <1>1, <1>2, MessageIs
<1>4. Len(sum) <= H!Closes(m) /\ m.kind # "checkpoint"
  BY <1>1, <1>3, PipeFlows
<1>q. QED BY <1>1, <1>3, <1>4, HashedOn DEF m

\* A range is read from the disk, where its bytes are.
LEMMA HashRangeStep == ASSUME H!HashPipeAssumption, H!IInv, H!HashRange PROVE H!IInv'
<1> DEFINE m == Head(queue)
<1>1. /\ H!Take /\ m.kind = "range"
      /\ IF Len(sum) = m.from
         THEN sum' = sum \o H!Read(m.from, m.to) /\ UNCHANGED worker
         ELSE worker' = "failed" /\ UNCHANGED sum
      /\ UNCHANGED <<disk, record, H!writer, out, reply, pc, stored>>
  BY DEF H!HashRange
<1>2. m \in H!Messages /\ H!Begins(m) = Len(sum) /\ m = H!Sent[1] /\ 1 \in 1 .. Len(H!Sent)
  BY <1>1, TakeFacts
<1>3. m.to <= prefix - pending
  BY <1>1, <1>2 DEF H!IInv, H!MessagesInv
<1> HIDE DEF m
<1>4. /\ m.from = Len(sum) /\ m.to = H!Closes(m) /\ Len(sum) < H!Closes(m) /\ H!Closes(m) \in 0 .. FileSize
      /\ m.kind # "checkpoint"
  BY <1>1, <1>2, MessageIs
<1>5. sum' = sum \o H!Read(m.from, m.to) /\ UNCHANGED worker
  BY <1>1, <1>4
<1>6. H!Read(m.from, m.to) = H!Bytes(Len(sum), H!Closes(m))
  <2>1. Len(sum) \in Nat /\ H!Closes(m) \in Nat /\ prefix \in Nat /\ pending \in Nat /\ pending <= prefix
    BY <1>4, PipeFlows DEF H!IInv, H!TypeOK
  <2>2. 0 .. prefix - pending - 1 \subseteq disk
    BY DEF H!IInv, H!DiskInv
  <2>3. Len(sum) .. H!Closes(m) - 1 \subseteq 0 .. prefix - pending - 1
    BY <1>3, <1>4, <2>1
  <2>q. QED BY <1>4, <2>1, <2>2, <2>3, ReadsBytes
<1>7. Len(sum) <= H!Closes(m)
  BY <1>4, PipeFlows
<1>q. QED BY <1>1, <1>4, <1>5, <1>6, <1>7, HashedOn DEF m

\* The question is the last message, so the worker has hashed the whole prefix.
LEMMA HashCheckpointStep == ASSUME H!HashPipeAssumption, H!IInv, H!HashCheckpoint PROVE H!IInv'
<1> DEFINE m == Head(queue)
<1>1. /\ H!Take /\ m.kind = "checkpoint"
      /\ IF Len(sum) = m.received
         THEN reply' = sum /\ UNCHANGED worker
         ELSE worker' = "failed" /\ UNCHANGED reply
      /\ UNCHANGED <<disk, record, prefix, pending, runs, gathered, out, sum, pc, stored>>
  BY DEF H!HashCheckpoint, H!writer
<1>2. /\ m \in H!Messages /\ H!Begins(m) = Len(sum) /\ m = H!Sent[1] /\ 1 \in 1 .. Len(H!Sent)
      /\ Len(H!Sent') = Len(H!Sent) - 1 /\ queue' \in Seq(H!Messages)
      /\ Flows(H!Sent', H!Closes(m), gathered, prefix) /\ pc # "closed" /\ stored = Nobody
  BY <1>1, TakeFacts
<1>3. 1 = Len(H!Sent) /\ pc \in {"asked", "save"} /\ gathered = <<>>
  BY <1>1, <1>2 DEF H!IInv, H!MessagesInv
<1> HIDE DEF m
<1>4. m.received = Len(sum) /\ H!Closes(m) = Len(sum) /\ Len(sum) \in 0 .. FileSize
  BY <1>1, <1>2, MessageIs
<1>5. reply' = sum /\ UNCHANGED worker
  BY <1>1, <1>4
<1>6. Len(H!Sent') = 0 /\ H!Sent' = <<>>
  <2>1. H!Sent' \in Seq(H!Messages)
    BY <1>1, <1>2, ConcatProperties DEF H!Sent, H!IInv, H!TypeOK
  <2>2. Len(H!Sent') = 0
    <3>1. Len(H!Sent') = Len(H!Sent) - 1
      BY <1>2, Zenon
    <3>2. Len(H!Sent) = 1
      BY <1>3, Zenon
    <3>q. QED BY <3>1, <3>2
  <2>q. QED BY <2>1, <2>2, EmptySeq
<1>7. Len(sum) = prefix
  <2>1. Len(sum) \in 0 .. prefix /\ gathered = H!Bytes(Len(sum), prefix)
    BY <1>2, <1>4, <1>6 DEF Flows, H!EndOf
  <2>2. prefix \in Nat /\ Len(sum) \in Nat
    BY PipeFlows
  <2>3. Len(sum) < prefix => H!Bytes(Len(sum), prefix) # <<>>
    BY <2>2, BytesSome
  <2>q. QED BY <1>3, <2>1, <2>2, <2>3
<1>8. sum = H!Bytes(0, Len(sum)) /\ worker # "failed"
  BY DEF H!IInv, H!PipeInv
<1>9. H!PipeInv'
  BY <1>1, <1>2, <1>4, <1>5, <1>8, FlowsPipeNext
<1>10. H!MessagesInv'
  BY <1>1, <1>3, <1>5, <1>6, <1>7, <1>8 DEF H!MessagesInv
<1>11. H!TypeOK'
  BY <1>1, <1>2, <1>5 DEF H!IInv, H!TypeOK
<1>12. H!DiskInv' /\ H!RecordCovers' /\ H!StoredUnderItsHash' /\ H!ClosedInv'
  BY <1>1, <1>2, <1>5 DEF H!IInv, H!DiskInv, H!RecordCovers, H!StoredUnderItsHash, H!ClosedInv
<1>q. QED BY <1>1, <1>2, <1>9, <1>10, <1>11, <1>12 DEF H!IInv

LEMMA HashStutterStep == ASSUME H!IInv, UNCHANGED H!vars PROVE H!IInv'
<1>1. /\ UNCHANGED <<disk, record, prefix, pending, runs, gathered, out, queue, sum, worker, reply, pc, stored>>
      /\ H!Sent' = H!Sent
  BY DEF H!vars, H!writer, H!Sent
<1>q. QED BY <1>1 DEF H!IInv, H!TypeOK, H!PipeInv, H!MessagesInv, H!DiskInv, H!ClosedInv, H!RecordCovers, H!StoredUnderItsHash

THEOREM HashInvariance == ASSUME H!HashPipeAssumption PROVE H!Spec => []H!IInv
<1>1. H!Init => H!IInv
  BY HashInitOK
<1>2. H!IInv /\ [H!Next]_(H!vars) => H!IInv'
  BY OpenStep, DiscardStep, ExtendStep, WritePastStep, SaveStep, AskOpenedStep, SendStep,
     AnsweredStep, FinishStep, JoinStep, DropStep, PowerCutStep, HashChunksStep, HashRangeStep,
     HashCheckpointStep, HashStutterStep DEF H!Next
<1>q. QED BY <1>1, <1>2, PTL DEF H!Spec

\* However far the worker is behind, whatever order bytes come in and wherever the power goes: a
\* record's hash is that of its prefix, no message is out of order, and what is stored is named by
\* the bytes that are on the disk.
THEOREM NamedByItsBytes == ASSUME H!HashPipeAssumption PROVE H!Spec => []HashedAsWritten
<1>1. H!IInv => HashedAsWritten
  BY DEF H!IInv, HashedAsWritten
<1>q. QED BY <1>1, HashInvariance, PTL

-----------------------------------------------------------------------------
(***************************************************************************)
(* What the cache keeps, for any number of projects, and of locks of each. *)
(* The types are kept alike with and without locks, so they are stated for *)
(* the projects ps of a cache.                                             *)
(***************************************************************************)
\* A job is made of its fields, and stays one whichever of them a run sets.
LEMMA JobFields ==
  ASSUME NEW ps, NEW j \in R!JobsFor(ps)
  PROVE  /\ \A x \in R!Pinned : [j EXCEPT !.want = x] \in R!JobsFor(ps)
         /\ \A x \in SUBSET ps, c \in BOOLEAN :
              [j EXCEPT !.todo = x, !.complete = c] \in R!JobsFor(ps)
         /\ \A x, y \in SUBSET ps : [j EXCEPT !.todo = x, !.steady = y] \in R!JobsFor(ps)
         /\ \A x \in SUBSET ps, y \in SUBSET R!Items :
              [j EXCEPT !.todo = x, !.needed = y] \in R!JobsFor(ps)
         /\ \A y \in SUBSET R!Items : [j EXCEPT !.needed = y] \in R!JobsFor(ps)
         /\ \A x \in SUBSET ps : [j EXCEPT !.steady = x] \in R!JobsFor(ps)
         /\ \A x \in SUBSET R!Items, b \in BOOLEAN :
              [j EXCEPT !.stored = x, !.unpacked = b] \in R!JobsFor(ps)
  BY DEF R!JobsFor

LEMMA NoJobIs == ASSUME NEW ps PROVE R!NoJob \in R!JobsFor(ps)
  BY DEF R!NoJob, R!JobsFor, R!Pinned

\* What a data.lock asks for and needs are items of the cache.
LEMMA NeedsAre ==
  ASSUME NEW wanted \in {"plain", "packed", "tree"}
  PROVE  R!Needs(wanted) \subseteq R!Items /\ R!Asks(wanted) \subseteq R!Items
  BY DEF R!Needs, R!Asks, R!Items

\* A run's step keeps the types if it goes to a place of its own with a job.
LEMMA RunStep ==
  ASSUME NEW ps, Dropper \notin ps, R!RunsTyped(ps), NEW w \in ps \cup {Dropper}, NEW l, NEW j \in R!JobsFor(ps),
         pc' = [pc EXCEPT ![w] = l], job' = [job EXCEPT ![w] = j],
         w = Dropper => l \in R!GcLabels,
         w # Dropper => l \in R!SyncLabels /\ IF l = "idle" THEN j.stored = {} ELSE j.want # Nobody
  PROVE  R!RunsTyped(ps)'
<1>1. /\ pc' \in [ps \cup {Dropper} -> R!SyncLabels \cup R!GcLabels]
      /\ pc'[Dropper] \in R!GcLabels
  BY DEF R!RunsTyped
<1>2. job' \in [ps \cup {Dropper} -> R!JobsFor(ps)]
  BY DEF R!RunsTyped
<1>3. ASSUME NEW p \in ps
      PROVE  pc'[p] \in R!SyncLabels /\ IF pc'[p] = "idle" THEN job'[p].stored = {} ELSE job'[p].want # Nobody
  <2>1. CASE p = w
    BY <2>1 DEF R!RunsTyped
  <2>2. CASE p # w
    BY <2>2 DEF R!RunsTyped
  <2>q. QED BY <2>1, <2>2
<1>q. QED BY <1>1, <1>2, <1>3 DEF R!RunsTyped

\* A run that only goes on, or only learns.
LEMMA OnlyGoes ==
  ASSUME NEW ps, Dropper \notin ps, R!RunsTyped(ps), NEW w \in ps \cup {Dropper}, NEW l, R!Goto(w, l), job' = job,
         w = Dropper => l \in R!GcLabels,
         w # Dropper => pc[w] # "idle" /\ l \in R!SyncLabels \ {"idle"}
  PROVE  R!RunsTyped(ps)'
<1>1. job' = [job EXCEPT ![w] = job[w]] /\ job[w] \in R!JobsFor(ps)
  BY DEF R!RunsTyped
<1>2. w # Dropper => job[w].want # Nobody
  BY DEF R!RunsTyped
<1>q. QED BY <1>1, <1>2, RunStep DEF R!Goto

LEMMA OnlyLearns ==
  ASSUME NEW ps, Dropper \notin ps, R!RunsTyped(ps), NEW w \in ps \cup {Dropper}, NEW j \in R!JobsFor(ps),
         pc' = pc, pc[w] # "idle", job' = [job EXCEPT ![w] = j], j.want = job[w].want
  PROVE  R!RunsTyped(ps)'
<1>1. pc' = [pc EXCEPT ![w] = pc[w]]
  BY DEF R!RunsTyped
<1>2. w = Dropper => pc[w] \in R!GcLabels
  BY DEF R!RunsTyped
<1>3. w # Dropper => pc[w] \in R!SyncLabels /\ j.want # Nobody
  BY DEF R!RunsTyped
<1>q. QED BY <1>1, <1>2, <1>3, RunStep

LEMMA Ends ==
  ASSUME NEW ps, Dropper \notin ps, R!RunsTyped(ps), NEW w \in ps \cup {Dropper}, R!End(w)
  PROVE  R!RunsTyped(ps)'
<1>1. R!NoJob \in R!JobsFor(ps) /\ R!NoJob.stored = {}
  BY NoJobIs DEF R!NoJob
<1>q. QED BY <1>1, RunStep DEF R!End, R!Goto, R!SyncLabels, R!GcLabels

-----------------------------------------------------------------------------
\* A sync's steps keep the types.

LEMMA HoldTypes ==
  ASSUME NEW ps, Dropper \notin ps, R!RunsTyped(ps), NEW p \in ps,
         KindsOf(p) \subseteq {"plain", "packed", "tree"}, Nobody \notin {"plain", "packed", "tree"},
         R!Goto(p, "fetch"), \E wanted \in KindsOf(p) : job' = [job EXCEPT ![p].want = wanted]
  PROVE  R!RunsTyped(ps)'
<1>1. PICK wanted \in KindsOf(p) : job' = [job EXCEPT ![p].want = wanted]
  OBVIOUS
<1>2. job[p] \in R!JobsFor(ps)
  BY DEF R!RunsTyped
<1> DEFINE j == [job[p] EXCEPT !.want = wanted]
<1>3. j \in R!JobsFor(ps)
  BY <1>2, JobFields DEF R!Pinned
<1>4. j.want # Nobody
  BY <1>2 DEF R!JobsFor
<1>5. job' = [job EXCEPT ![p] = j]
  BY <1>1
<1> HIDE DEF j
<1>q. QED BY <1>3, <1>4, <1>5, RunStep DEF R!Goto, R!SyncLabels

\* What a fetch does: it goes on when nothing lacks, and stores something otherwise.
LEMMA Fetches ==
  ASSUME NEW ps, Dropper \notin ps, R!RunsTyped(ps), NEW p \in ps, R!Fetch(p)
  PROVE  \/ /\ R!Goto(p, "write") /\ UNCHANGED <<cache, job>>
            /\ \A item \in R!Asks(job[p].want) : R!Good(item)
         \/ UNCHANGED pc /\ \E items \in SUBSET R!Items : R!Store(p, items)
<1>1. job[p].want \in {"plain", "packed", "tree"}
  BY DEF R!Fetch, R!RunsTyped, R!JobsFor, R!Pinned
<1>2. R!Asks(job[p].want) \in SUBSET R!Items
  BY <1>1, NeedsAre
<1>3. CASE \A item \in R!Asks(job[p].want) : R!Good(item)
  BY <1>3 DEF R!Fetch
<1>4. CASE ~\A item \in R!Asks(job[p].want) : R!Good(item)
  <2>1. CASE job[p].want # "tree"
    BY <1>2, <1>4, <2>1 DEF R!Fetch
  <2>2. CASE job[p].want = "tree" /\ R!Good("archive") /\ R!Good("member")
    <3>1. R!Store(p, {"record"} \cup {}) /\ UNCHANGED pc
      BY <1>4, <2>2 DEF R!Fetch
    <3>2. {"record"} \cup {} \in SUBSET R!Items
      BY DEF R!Items
    <3>q. QED BY <3>1, <3>2
  <2>3. CASE job[p].want = "tree" /\ R!Good("archive") /\ ~R!Good("member")
    <3>1. R!Store(p, {"record"} \cup {"member"}) /\ UNCHANGED pc
      BY <1>4, <2>3 DEF R!Fetch
    <3>2. {"record"} \cup {"member"} \in SUBSET R!Items
      BY DEF R!Items
    <3>q. QED BY <3>1, <3>2
  <2>4. CASE job[p].want = "tree" /\ ~R!Good("archive")
    <3>1. R!Store(p, {"archive"}) /\ UNCHANGED pc
      BY <1>4, <2>4 DEF R!Fetch
    <3>2. {"archive"} \in SUBSET R!Items
      BY DEF R!Items
    <3>q. QED BY <3>1, <3>2
  <2>q. QED BY <2>1, <2>2, <2>3, <2>4
<1>q. QED BY <1>3, <1>4

\* What is stored is fresh, and the job knows it.
LEMMA Stores ==
  ASSUME NEW ps, R!RunsTyped(ps), NEW p \in ps, NEW items \in SUBSET R!Items, R!Store(p, items)
  PROVE  \E j \in R!JobsFor(ps) :
            /\ job' = [job EXCEPT ![p] = j]
            /\ j.want = job[p].want /\ j.stored = job[p].stored \cup items
<1>1. job[p] \in R!JobsFor(ps)
  BY DEF R!RunsTyped
<1> DEFINE s == job[p].stored \cup items
           b == job[p].unpacked \/ "record" \in items
           j == [job[p] EXCEPT !.stored = s, !.unpacked = b]
<1>2. s \in SUBSET R!Items /\ b \in BOOLEAN
  BY <1>1 DEF R!JobsFor
<1>3. job' = [job EXCEPT ![p] = j]
  BY DEF R!Store, R!RunsTyped
<1> HIDE DEF s, b
<1>4. j \in R!JobsFor(ps)
  BY <1>1, <1>2, JobFields
<1>5. j.want = job[p].want /\ j.stored = s
  BY <1>1 DEF R!JobsFor
<1>q. QED BY <1>3, <1>4, <1>5 DEF s

LEMMA FetchTypes ==
  ASSUME NEW ps, Dropper \notin ps, R!RunsTyped(ps), NEW p \in ps, R!Fetch(p) PROVE R!RunsTyped(ps)'
<1>1. pc[p] = "fetch"
  BY DEF R!Fetch
<1>2. CASE R!Goto(p, "write") /\ UNCHANGED <<cache, job>>
  BY <1>1, <1>2, OnlyGoes DEF R!SyncLabels
<1>3. ASSUME UNCHANGED pc, NEW items \in SUBSET R!Items, R!Store(p, items) PROVE R!RunsTyped(ps)'
  BY <1>1, <1>3, Stores, OnlyLearns
<1>q. QED BY <1>2, <1>3, Fetches

LEMMA WriteLockTypes ==
  ASSUME NEW ps, Dropper \notin ps, R!RunsTyped(ps), NEW p \in ps, pc[p] = "write", R!Goto(p, "place"),
         job' = [w \in ps \cup {Dropper} |-> [job[w] EXCEPT !.steady = @ \ {p}]]
  PROVE  R!RunsTyped(ps)'
<1>1. ASSUME NEW w \in ps \cup {Dropper}
      PROVE  job'[w] \in R!JobsFor(ps) /\ job'[w].want = job[w].want /\ job'[w].stored = job[w].stored
  <2>1. job[w] \in R!JobsFor(ps) /\ job'[w] = [job[w] EXCEPT !.steady = job[w].steady \ {p}]
    BY DEF R!RunsTyped
  <2>2. job[w].steady \ {p} \in SUBSET ps
    BY <2>1 DEF R!JobsFor
  <2>3. job'[w] \in R!JobsFor(ps) /\ job'[w].want = job[w].want /\ job'[w].stored = job[w].stored
    BY <2>1, <2>2, JobFields DEF R!JobsFor
  <2>q. QED BY <2>3
<1>2. job' \in [ps \cup {Dropper} -> R!JobsFor(ps)]
  BY <1>1
<1>3. pc' \in [ps \cup {Dropper} -> R!SyncLabels \cup R!GcLabels] /\ pc'[Dropper] \in R!GcLabels
  BY DEF R!Goto, R!RunsTyped, R!SyncLabels
<1>4. ASSUME NEW q \in ps
      PROVE  pc'[q] \in R!SyncLabels /\ IF pc'[q] = "idle" THEN job'[q].stored = {} ELSE job'[q].want # Nobody
  <2>1. CASE q = p
    BY <1>1, <2>1 DEF R!Goto, R!RunsTyped, R!SyncLabels
  <2>2. CASE q # p
    BY <1>1, <2>2 DEF R!Goto, R!RunsTyped
  <2>q. QED BY <2>1, <2>2
<1>q. QED BY <1>2, <1>3, <1>4 DEF R!RunsTyped

LEMMA StartsReading ==
  ASSUME NEW ps, Dropper \notin ps, R!RunsTyped(ps), NEW w \in ps \cup {Dropper}, w # Dropper => pc[w] # "idle",
         registered \subseteq ps, R!Goto(w, "read"),
         job' = [job EXCEPT ![w].todo = registered, ![w].steady = registered]
  PROVE  R!RunsTyped(ps)'
<1>1. job[w] \in R!JobsFor(ps) /\ (w # Dropper => job[w].want # Nobody)
  BY DEF R!RunsTyped
<1> DEFINE j == [job[w] EXCEPT !.todo = registered, !.steady = registered]
<1>2. job' = [job EXCEPT ![w] = j]
  BY DEF R!RunsTyped
<1>3. j.want = job[w].want
  BY <1>1 DEF R!JobsFor
<1>4. j \in R!JobsFor(ps)
  BY <1>1, JobFields
<1> HIDE DEF j
<1>q. QED BY <1>1, <1>2, <1>3, <1>4, RunStep DEF R!Goto, R!SyncLabels, R!GcLabels

LEMMA PlaceTypes ==
  ASSUME NEW ps, Dropper \notin ps, R!RunsTyped(ps), registered \subseteq ps, NEW p \in ps, R!Place(p)
  PROVE  R!RunsTyped(ps)'
<1>1. pc[p] = "place" /\ p # Dropper
  BY DEF R!Place
<1>2. \/ R!End(p)
      \/ R!Goto(p, "read") /\ job' = [job EXCEPT ![p].todo = registered, ![p].steady = registered]
      \/ R!Goto(p, "register") /\ UNCHANGED job
  BY DEF R!Place
<1>3. CASE R!End(p)
  BY <1>3, Ends
<1>4. CASE R!Goto(p, "read") /\ job' = [job EXCEPT ![p].todo = registered, ![p].steady = registered]
  BY <1>1, <1>4, StartsReading
<1>5. CASE R!Goto(p, "register") /\ UNCHANGED job
  BY <1>1, <1>5, OnlyGoes DEF R!SyncLabels
<1>q. QED BY <1>2, <1>3, <1>4, <1>5

-----------------------------------------------------------------------------
\* Reading what projects need keeps the types, whoever reads.

LEMMA SkipTypes ==
  ASSUME NEW ps, Dropper \notin ps, R!RunsTyped(ps), NEW w \in ps \cup {Dropper}, R!Judging(w), pc' = pc,
         NEW q, R!Skip(w, q)
  PROVE  R!RunsTyped(ps)'
<1>1. job[w] \in R!JobsFor(ps) /\ pc[w] # "idle"
  BY DEF R!RunsTyped, R!Judging
<1> DEFINE x == job[w].todo \ {q}
           j == [job[w] EXCEPT !.todo = x, !.complete = FALSE]
<1>2. job' = [job EXCEPT ![w] = j]
  BY DEF R!Skip, R!RunsTyped
<1>3. x \in SUBSET ps /\ j.want = job[w].want
  BY <1>1 DEF R!JobsFor
<1> HIDE DEF x
<1>4. j \in R!JobsFor(ps)
  BY <1>1, <1>3, JobFields
<1> HIDE DEF j
<1>q. QED BY <1>1, <1>2, <1>3, <1>4, OnlyLearns

LEMMA ForgetTypes ==
  ASSUME NEW ps, Dropper \notin ps, R!RunsTyped(ps), R!Judging(Dropper), pc' = pc, NEW q,
         job' = [job EXCEPT ![Dropper].todo = @ \ {q}, ![Dropper].steady = @ \ {q}]
  PROVE  R!RunsTyped(ps)'
<1>1. job[Dropper] \in R!JobsFor(ps) /\ pc[Dropper] # "idle" /\ Dropper \in ps \cup {Dropper}
  BY DEF R!RunsTyped, R!Judging
<1> DEFINE x == job[Dropper].todo \ {q}
           y == job[Dropper].steady \ {q}
           j == [job[Dropper] EXCEPT !.todo = x, !.steady = y]
<1>2. job' = [job EXCEPT ![Dropper] = j]
  BY DEF R!RunsTyped
<1>3. x \in SUBSET ps /\ y \in SUBSET ps /\ j.want = job[Dropper].want
  BY <1>1 DEF R!JobsFor
<1> HIDE DEF x, y
<1>4. j \in R!JobsFor(ps)
  BY <1>1, <1>3, JobFields
<1> HIDE DEF j
<1>q. QED BY <1>1, <1>2, <1>3, <1>4, OnlyLearns

LEMMA ReadGoneTypes ==
  ASSUME NEW ps, Dropper \notin ps, R!RunsTyped(ps), registered \subseteq ps, NEW w \in ps \cup {Dropper}, R!ReadGone(w)
  PROVE  R!RunsTyped(ps)' /\ registered' \subseteq ps
<1>1. PICK q \in job[w].todo :
        IF w = Dropper
        THEN /\ registered' = registered \ {q}
             /\ job' = [job EXCEPT ![w].todo = @ \ {q}, ![w].steady = @ \ {q}]
        ELSE R!Skip(w, q) /\ UNCHANGED registered
  BY DEF R!ReadGone
<1>2. R!Judging(w) /\ pc' = pc
  BY DEF R!ReadGone
<1>3. CASE w = Dropper
  BY <1>1, <1>2, <1>3, ForgetTypes
<1>4. CASE w # Dropper
  BY <1>1, <1>2, <1>4, SkipTypes
<1>q. QED BY <1>3, <1>4

\* What a reader learns of a project.
LEMMA Learns ==
  ASSUME NEW ps, R!RunsTyped(ps), lock \in [ps -> R!Pinned], NEW w \in ps \cup {Dropper}, R!ReadProject(w)
  PROVE  \E q \in job[w].todo \cap ps, j \in R!JobsFor(ps) :
           /\ job' = [job EXCEPT ![w] = j]
           /\ j.want = job[w].want /\ j.complete = job[w].complete /\ j.steady = job[w].steady
           /\ j.stored = job[w].stored /\ j.todo = job[w].todo \ {q}
           /\ lock[q] = Nobody => j.needed = job[w].needed
           /\ lock[q] # Nobody => j.needed = job[w].needed \cup R!Needs(lock[q])
<1>1. job[w] \in R!JobsFor(ps)
  BY DEF R!RunsTyped
<1>2. PICK q \in job[w].todo :
        job' = [job EXCEPT ![w].todo = @ \ {q},
                           ![w].needed = @ \cup IF lock[q] = Nobody THEN {} ELSE R!Needs(lock[q])]
  BY DEF R!ReadProject
<1> DEFINE n == IF lock[q] = Nobody THEN {} ELSE R!Needs(lock[q])
           x == job[w].todo \ {q}
           y == job[w].needed \cup n
           j == [job[w] EXCEPT !.todo = x, !.needed = y]
<1>3. q \in ps /\ n \in SUBSET R!Items
  <2>1. q \in ps /\ lock[q] \in R!Pinned
    BY <1>1 DEF R!JobsFor
  <2>q. QED BY <2>1, NeedsAre DEF R!Pinned
<1>4. job' = [job EXCEPT ![w] = j]
  BY <1>2 DEF R!RunsTyped
<1>5. x \in SUBSET ps /\ y \in SUBSET R!Items
  <2> HIDE DEF n
  <2>q. QED BY <1>1, <1>3 DEF R!JobsFor
<1>6. /\ lock[q] = Nobody => y = job[w].needed
      /\ lock[q] # Nobody => y = job[w].needed \cup R!Needs(lock[q])
  OBVIOUS
<1> HIDE DEF x, y
<1>7. j \in R!JobsFor(ps)
  BY <1>1, <1>5, JobFields
<1>8. /\ j.want = job[w].want /\ j.complete = job[w].complete /\ j.steady = job[w].steady
      /\ j.stored = job[w].stored /\ j.todo = x /\ j.needed = y
  BY <1>1 DEF R!JobsFor
<1> HIDE DEF j
<1>q. QED BY <1>3, <1>4, <1>6, <1>7, <1>8 DEF x

LEMMA ReadProjectTypes ==
  ASSUME NEW ps, Dropper \notin ps, R!RunsTyped(ps), lock \in [ps -> R!Pinned], NEW w \in ps \cup {Dropper},
         R!ReadProject(w)
  PROVE  R!RunsTyped(ps)'
<1>1. pc[w] # "idle" /\ pc' = pc
  BY DEF R!ReadProject, R!Judging
<1>2. PICK j \in R!JobsFor(ps) : job' = [job EXCEPT ![w] = j] /\ j.want = job[w].want
  BY Learns
<1>q. QED BY <1>1, <1>2, OnlyLearns

LEMMA ReadBrokenTypes ==
  ASSUME NEW ps, Dropper \notin ps, R!RunsTyped(ps), NEW w \in ps \cup {Dropper}, R!ReadBroken(w)
  PROVE  R!RunsTyped(ps)'
<1>1. CASE w = Dropper
  BY <1>1, Ends DEF R!ReadBroken
<1>2. CASE w # Dropper
  BY <1>2, OnlyGoes DEF R!ReadBroken, R!Judging, R!SyncLabels
<1>q. QED BY <1>1, <1>2

LEMMA JudgedTypes ==
  ASSUME NEW ps, Dropper \notin ps, R!RunsTyped(ps), Nobody \notin {"plain", "packed", "tree"},
         NEW w \in ps \cup {Dropper}, R!Judged(w)
  PROVE  R!RunsTyped(ps)'
<1>1. pc[w] = "read"
  BY DEF R!Judged, R!Judging
<1>2. CASE w = Dropper
  BY <1>1, <1>2, OnlyGoes DEF R!Judged, R!GcLabels
<1>3. CASE w # Dropper /\ R!Goto(w, "register") /\ UNCHANGED job
  BY <1>1, <1>3, OnlyGoes DEF R!SyncLabels
<1>4. CASE /\ w # Dropper /\ R!Goto(w, "drop")
           /\ job' = [job EXCEPT ![w].needed = @ \cup R!Needs(job[w].want)]
  <2>1. job[w] \in R!JobsFor(ps) /\ job[w].want # Nobody
    BY <1>1, <1>4 DEF R!RunsTyped
  <2> DEFINE y == job[w].needed \cup R!Needs(job[w].want)
             j == [job[w] EXCEPT !.needed = y]
  <2>2. job' = [job EXCEPT ![w] = j]
    BY <1>4 DEF R!RunsTyped
  <2>3. y \in SUBSET R!Items
    BY <2>1, NeedsAre DEF R!JobsFor, R!Pinned
  <2> HIDE DEF y
  <2>4. j \in R!JobsFor(ps)
    BY <2>1, <2>3, JobFields
  <2>5. j.want = job[w].want
    BY <2>1 DEF R!JobsFor
  <2> HIDE DEF j
  <2>q. QED BY <1>4, <2>1, <2>2, <2>4, <2>5, RunStep DEF R!Goto, R!SyncLabels
<1>q. QED BY <1>2, <1>3, <1>4 DEF R!Judged

-----------------------------------------------------------------------------
CacheTyped(ps) == R!FilesTyped(ps) /\ R!RunsTyped(ps)

\* A sync begins, gc begins, or a lock is written, whoever holds the cache.
SyncBegins(p) ==
  /\ R!Goto(p, "fetch") /\ UNCHANGED <<R!Files, cache>>
  /\ \E wanted \in KindsOf(p) : job' = [job EXCEPT ![p].want = wanted]
SyncLocks(ps, p) ==
  /\ pc[p] = "write" /\ R!Goto(p, "place") /\ UNCHANGED <<now, cache, reach, registered>>
  /\ lock' = [lock EXCEPT ![p] = job[p].want]
  /\ job' = [w \in ps \cup {Dropper} |-> [job[w] EXCEPT !.steady = @ \ {p}]]
DropperBegins ==
  /\ R!Goto(Dropper, "read") /\ UNCHANGED <<R!Files, cache>>
  /\ job' = [job EXCEPT ![Dropper].todo = registered, ![Dropper].steady = registered]

\* Time and damage touch only the items.
ItemsTurn ==
  /\ UNCHANGED <<R!Files, pc, job>>
  /\ \/ \E i \in R!Items : cache' = [cache EXCEPT ![i] = "old"]
     \/ cache' = [cache EXCEPT !["member"] = "bad"]

\* Every step is one of these, for the projects ps of a cache with or without locks.
RunSteps(ps) ==
  \/ \E p \in ps : \/ SyncBegins(p) \/ R!Fetch(p) \/ SyncLocks(ps, p) \/ R!Place(p)
                   \/ R!Register(p) \/ R!Drop(p) \/ R!Reach(p)
  \/ \E w \in ps \cup {Dropper} : R!ReadGone(w) \/ R!ReadProject(w) \/ R!ReadBroken(w) \/ R!Judged(w) \/ R!Kill(w)
  \/ DropperBegins \/ R!SweepObjects \/ R!SweepRecords
CacheSteps(ps) == RunSteps(ps) \/ ItemsTurn

LEMMA FilesStay ==
  ASSUME NEW ps, R!FilesTyped(ps), UNCHANGED now, lock' \in [ps -> R!Pinned],
         reach' \in [ps -> {"here", "gone", "broken"}], registered' \subseteq ps,
         cache' = cache \/ (cache' \in [R!Items -> {"gone", "fresh", "old", "bad"}] /\ cache'["record"] # "bad")
  PROVE  R!FilesTyped(ps)'
BY DEF R!FilesTyped

\* A sweep only takes items away.
LEMMA RemoveTypes ==
  ASSUME NEW items, cache \in [R!Items -> {"gone", "fresh", "old", "bad"}], cache["record"] # "bad",
         R!Remove(items)
  PROVE  /\ cache' \in [R!Items -> {"gone", "fresh", "old", "bad"}] /\ cache'["record"] # "bad"
         /\ \A i \in R!Items : cache'[i] = cache[i] \/ (i \in items /\ cache'[i] = "gone")
<1>1. PICK left \in SUBSET items :
        cache' = [i \in R!Items |-> IF i \in items \ left THEN "gone" ELSE cache[i]]
  BY DEF R!Remove
<1>2. "record" \in R!Items
  BY DEF R!Items
<1>q. QED BY <1>1, <1>2

LEMMA SyncStepTypes ==
  ASSUME NEW ps, Dropper \notin ps, CacheTyped(ps), Nobody \notin {"plain", "packed", "tree"},
         \A p \in ps : KindsOf(p) \subseteq {"plain", "packed", "tree"}, NEW p \in ps,
         \/ SyncBegins(p) \/ R!Fetch(p) \/ SyncLocks(ps, p) \/ R!Place(p) \/ R!Register(p) \/ R!Drop(p) \/ R!Reach(p)
  PROVE  CacheTyped(ps)'
<1>0. R!FilesTyped(ps) /\ R!RunsTyped(ps) /\ registered \subseteq ps
  BY DEF CacheTyped, R!FilesTyped
<1>1. CASE SyncBegins(p)
  <2>1. R!RunsTyped(ps)'
    BY <1>0, <1>1, HoldTypes DEF SyncBegins
  <2>q. QED BY <1>0, <1>1, <2>1 DEF SyncBegins, R!Files, CacheTyped, R!FilesTyped
<1>2. CASE R!Fetch(p)
  <2>1. R!RunsTyped(ps)'
    BY <1>0, <1>2, FetchTypes
  <2>2. ASSUME NEW items \in SUBSET R!Items, R!Store(p, items)
        PROVE  cache' \in [R!Items -> {"gone", "fresh", "old", "bad"}] /\ cache'["record"] # "bad"
    BY <1>0, <2>2 DEF R!Store, R!FilesTyped, R!Items
  <2>3. cache' = cache \/ (cache' \in [R!Items -> {"gone", "fresh", "old", "bad"}] /\ cache'["record"] # "bad")
    BY <1>0, <1>2, <2>2, Fetches
  <2>q. QED BY <1>0, <1>2, <2>1, <2>3 DEF R!Fetch, R!Files, CacheTyped, R!FilesTyped
<1>3. CASE SyncLocks(ps, p)
  <2>1. R!RunsTyped(ps)'
    BY <1>0, <1>3, WriteLockTypes DEF SyncLocks
  <2>2. job[p].want \in R!Pinned
    BY <1>0 DEF R!RunsTyped, R!JobsFor
  <2>q. QED BY <1>0, <1>3, <2>1, <2>2 DEF SyncLocks, CacheTyped, R!FilesTyped
<1>4. CASE R!Place(p)
  <2>1. R!RunsTyped(ps)'
    BY <1>0, <1>4, PlaceTypes
  <2>q. QED BY <1>0, <1>4, <2>1 DEF R!Place, R!Files, CacheTyped, R!FilesTyped
<1>5. CASE R!Register(p)
  <2>1. R!RunsTyped(ps)'
    BY <1>0, <1>5, Ends DEF R!Register
  <2>q. QED BY <1>0, <1>5, <2>1 DEF R!Register, CacheTyped, R!FilesTyped
<1>6. CASE R!Drop(p)
  <2>1. R!RunsTyped(ps)'
    BY <1>0, <1>6, OnlyGoes DEF R!Drop, R!SyncLabels
  <2>2. cache' = cache \/ cache' = [cache EXCEPT !["archive"] = "gone"]
    BY <1>6 DEF R!Drop
  <2>q. QED BY <1>0, <1>6, <2>1, <2>2 DEF R!Drop, R!Files, CacheTyped, R!FilesTyped, R!Items
<1>7. CASE R!Reach(p)
  <2>1. R!RunsTyped(ps)'
    BY <1>0, <1>7 DEF R!Reach, R!RunsTyped
  <2>q. QED BY <1>0, <1>7, <2>1 DEF R!Reach, CacheTyped, R!FilesTyped
<1>q. QED BY <1>1, <1>2, <1>3, <1>4, <1>5, <1>6, <1>7

\* The types are kept by every step, with and without locks.
LEMMA StepTypes ==
  ASSUME NEW ps, Dropper \notin ps, CacheTyped(ps), Nobody \notin {"plain", "packed", "tree"},
         \A p \in ps : KindsOf(p) \subseteq {"plain", "packed", "tree"}, CacheSteps(ps)
  PROVE  CacheTyped(ps)'
<1>0. R!FilesTyped(ps) /\ R!RunsTyped(ps) /\ registered \subseteq ps /\ lock \in [ps -> R!Pinned]
  BY DEF CacheTyped, R!FilesTyped
<1>1. ASSUME NEW w \in ps \cup {Dropper}, R!ReadGone(w) \/ R!ReadProject(w) \/ R!ReadBroken(w) \/ R!Judged(w) \/ R!Kill(w)
      PROVE  CacheTyped(ps)'
  <2>1. CASE R!ReadGone(w)
    <3>1. R!RunsTyped(ps)' /\ registered' \subseteq ps
      BY <1>0, <2>1, ReadGoneTypes
    <3>q. QED BY <1>0, <2>1, <3>1 DEF R!ReadGone, CacheTyped, R!FilesTyped
  <2>2. CASE R!ReadProject(w)
    <3>1. R!RunsTyped(ps)'
      BY <1>0, <2>2, ReadProjectTypes
    <3>q. QED BY <1>0, <2>2, <3>1 DEF R!ReadProject, R!Files, CacheTyped, R!FilesTyped
  <2>3. CASE R!ReadBroken(w)
    <3>1. R!RunsTyped(ps)'
      BY <1>0, <2>3, ReadBrokenTypes
    <3>q. QED BY <1>0, <2>3, <3>1 DEF R!ReadBroken, R!Files, CacheTyped, R!FilesTyped
  <2>4. CASE R!Judged(w)
    <3>1. R!RunsTyped(ps)'
      BY <1>0, <2>4, JudgedTypes
    <3>q. QED BY <1>0, <2>4, <3>1 DEF R!Judged, R!Files, CacheTyped, R!FilesTyped
  <2>5. CASE R!Kill(w)
    <3>1. R!RunsTyped(ps)'
      BY <1>0, <2>5, Ends DEF R!Kill
    <3>q. QED BY <1>0, <2>5, <3>1 DEF R!Kill, R!Files, CacheTyped, R!FilesTyped
  <2>q. QED BY <1>1, <2>1, <2>2, <2>3, <2>4, <2>5
<1>2. CASE DropperBegins
  <2>1. R!RunsTyped(ps)'
    BY <1>0, <1>2, StartsReading DEF DropperBegins
  <2>q. QED BY <1>0, <1>2, <2>1 DEF DropperBegins, R!Files, CacheTyped, R!FilesTyped
<1>3. CASE R!SweepObjects
  <2>1. R!RunsTyped(ps)'
    BY <1>0, <1>3, OnlyGoes DEF R!SweepObjects, R!GcLabels
  <2>2. cache' \in [R!Items -> {"gone", "fresh", "old", "bad"}] /\ cache'["record"] # "bad"
    BY <1>0, <1>3, RemoveTypes DEF R!SweepObjects, R!FilesTyped
  <2>q. QED BY <1>0, <1>3, <2>1, <2>2 DEF R!SweepObjects, R!Files, CacheTyped, R!FilesTyped
<1>4. CASE R!SweepRecords
  <2>1. R!RunsTyped(ps)'
    BY <1>0, <1>4, Ends DEF R!SweepRecords
  <2>2. cache' \in [R!Items -> {"gone", "fresh", "old", "bad"}] /\ cache'["record"] # "bad"
    BY <1>0, <1>4, RemoveTypes DEF R!SweepRecords, R!FilesTyped
  <2>q. QED BY <1>0, <1>4, <2>1, <2>2 DEF R!SweepRecords, R!Files, CacheTyped, R!FilesTyped
<1>5. CASE ItemsTurn
  <2>1. R!RunsTyped(ps)'
    BY <1>0, <1>5 DEF ItemsTurn, R!RunsTyped
  <2>2. cache' \in [R!Items -> {"gone", "fresh", "old", "bad"}] /\ cache'["record"] # "bad"
    BY <1>0, <1>5 DEF ItemsTurn, R!FilesTyped, R!Items
  <2>q. QED BY <1>0, <1>5, <2>1, <2>2 DEF ItemsTurn, R!Files, CacheTyped, R!FilesTyped
<1>q. QED BY <1>1, <1>2, <1>3, <1>4, <1>5, SyncStepTypes DEF CacheSteps, RunSteps

-----------------------------------------------------------------------------
\* With locks, syncs and gc take turns, so a step of the one leaves what the other knows.

LEMMA GcRests ==
  ASSUME pc'[Dropper] = "idle" PROVE R!GcAlone' /\ R!GcKnows'
BY DEF R!GcAlone, R!Holding, R!GcKnows

LEMMA SyncsRest ==
  ASSUME \A p \in Sharers : pc'[p] = "idle" PROVE R!GcAlone' /\ R!FoundStays' /\ R!SyncsKnow'
BY DEF R!GcAlone, R!Holding, R!FoundStays, R!SyncsKnow

\* No step but a drop, a sweep or damage makes the cache worse.
NoWorse == \A i \in R!Items \ {"archive"} :
             (cache[i] # "gone" => cache'[i] # "gone") /\ (R!Good(i) => R!Good(i)')

\* What a sync found stays while the cache gets no worse for it.
LEMMA FoundStaysStep ==
  ASSUME R!TypeOK', R!FoundStays, NoWorse,
         \A p \in Sharers : pc'[p] \in {"write", "place"} =>
            \/ pc[p] \in {"write", "place"} /\ job'[p].want = job[p].want
            \/ \A item \in R!Asks(job'[p].want) : cache'[item] # "gone"
  PROVE  R!FoundStays'
<1>1. ASSUME NEW p \in Sharers, pc'[p] \in {"write", "place"},
             NEW item \in R!Asks(job'[p].want) \ {"archive"}
      PROVE  cache'[item] # "gone"
  <2>1. job'[p].want \in {"plain", "packed", "tree"}
    BY <1>1 DEF R!TypeOK, R!RunsTyped, R!JobsFor, R!Pinned
  <2>2. item \in R!Items \ {"archive"}
    BY <1>1, <2>1, NeedsAre
  <2>3. CASE pc[p] \in {"write", "place"} /\ job'[p].want = job[p].want
    BY <1>1, <2>2, <2>3 DEF R!FoundStays, NoWorse
  <2>q. QED BY <1>1, <2>3
<1>2. \A wanted : R!Asks(wanted)' = R!Asks(wanted)
  BY DEF R!Asks
<1>q. QED BY <1>1, <1>2 DEF R!FoundStays

\* What a sync knows of the projects it spares stays so while their locks stay.
LEMMA SparesStay ==
  ASSUME NoWorse, NEW w, NEW q, lock'[q] = lock[q], R!Spares(w, q),
         job[w].needed \subseteq job'[w].needed
  PROVE  R!Spares(w, q)'
<1>1. {"record", "member"} \subseteq R!Items \ {"archive"}
  BY DEF R!Items
<1>2. CASE lock[q] = "packed"
  BY <1>2 DEF R!Spares
<1>3. CASE lock[q] = "tree"
  <2>1. CASE "archive" \in job[w].needed
    BY <1>3, <2>1 DEF R!Spares
  <2>2. CASE cache["record"] # "gone" /\ R!Good("member")
    <3>1. cache'["record"] # "gone" /\ R!Good("member")'
      BY <1>1, <2>2 DEF NoWorse
    <3>q. QED BY <1>3, <3>1 DEF R!Spares
  <2>q. QED BY <1>3, <2>1, <2>2 DEF R!Spares
<1>q. QED BY <1>2, <1>3 DEF R!Spares

LEMMA SyncsKnowStep ==
  ASSUME R!SyncsKnow, NoWorse,
         \A w \in Sharers : pc'[w] \in {"read", "drop"} =>
            \/ /\ pc[w] \in {"read", "drop"}
               /\ pc'[w] = "drop" => pc[w] = "drop" \/ (job'[w].todo = {} /\ job'[w].complete)
               /\ job'[w].complete => job[w].complete
               /\ pc[w] = "drop" => job'[w].todo = job[w].todo /\ job'[w].complete = job[w].complete
               /\ job[w].needed \subseteq job'[w].needed
               /\ \A q \in job'[w].steady \ job'[w].todo :
                    \/ q \in job[w].steady \ job[w].todo /\ lock'[q] = lock[q]
                    \/ R!Spares(w, q)'
            \/ pc'[w] = "read" /\ job'[w].steady \subseteq job'[w].todo
  PROVE  R!SyncsKnow'
<1>1. ASSUME NEW w \in Sharers, pc'[w] \in {"read", "drop"}, job'[w].complete,
             NEW q \in job'[w].steady \ job'[w].todo
      PROVE  R!Spares(w, q)'
  <2>1. CASE q \in job[w].steady \ job[w].todo /\ lock'[q] = lock[q]
    <3>1. R!Spares(w, q) /\ job[w].needed \subseteq job'[w].needed
      BY <1>1, <2>1 DEF R!SyncsKnow
    <3>q. QED BY <2>1, <3>1, SparesStay
  <2>q. QED BY <1>1, <2>1
<1>2. ASSUME NEW w \in Sharers, pc'[w] = "drop" PROVE job'[w].todo = {} /\ job'[w].complete
  BY <1>2 DEF R!SyncsKnow
<1>q. QED BY <1>1, <1>2 DEF R!SyncsKnow

\* The step of one sync, the others resting or going on as they are.
LEMMA OneSync ==
  ASSUME R!LockedInv, R!TypeOK', NoWorse, NEW p \in Sharers, pc[Dropper] = "idle", p # Dropper,
         \A w \in R!Workers \ {p} : pc'[w] = pc[w] /\ job'[w] = job[w],
         lock' = lock,
         pc'[p] \in {"write", "place"} =>
            \/ pc[p] \in {"write", "place"} /\ job'[p].want = job[p].want
            \/ \A item \in R!Asks(job'[p].want) : cache'[item] # "gone",
         pc'[p] \in {"read", "drop"} =>
            \/ /\ pc[p] \in {"read"}
               /\ pc'[p] = "drop" => job'[p].todo = {} /\ job'[p].complete
               /\ job'[p].complete => job[p].complete
               /\ job[p].needed \subseteq job'[p].needed
               /\ \A q \in job'[p].steady \ job'[p].todo :
                    q \in job[p].steady \ job[p].todo \/ R!Spares(p, q)'
            \/ pc'[p] = "read" /\ job'[p].steady \subseteq job'[p].todo
  PROVE  R!LockedInv'
<1>1. R!GcAlone' /\ R!GcKnows'
  BY GcRests DEF R!Workers
<1>2. \A w \in Sharers : w = p \/ (pc'[w] = pc[w] /\ job'[w] = job[w])
  BY DEF R!Workers
<1>3. R!FoundStays'
  BY <1>2, FoundStaysStep DEF R!LockedInv
<1>4. R!SyncsKnow'
  BY <1>2, SyncsKnowStep DEF R!LockedInv
<1>q. QED BY <1>1, <1>3, <1>4 DEF R!LockedInv

-----------------------------------------------------------------------------
\* A sync that runs has the cache to itself and other syncs.
LEMMA GcIdle == ASSUME R!LockedInv, NEW p \in Sharers, R!Holding(p) PROVE pc[Dropper] = "idle"
  BY DEF R!LockedInv, R!GcAlone, R!Holding

\* Unchanged items get no worse.
LEMMA SameNoWorse == ASSUME UNCHANGED cache PROVE NoWorse
  BY DEF NoWorse, R!Good

LEMMA HoldLocked ==
  ASSUME R!RetentionAssumption, R!LockedInv, R!TypeOK', NEW p \in Sharers, R!Hold(p) PROVE R!LockedInv'
<1>1. pc[Dropper] = "idle" /\ p # Dropper
  BY DEF R!Hold, R!MayHold, R!Holding, R!RetentionAssumption
<1>2. \A w \in R!Workers \ {p} : pc'[w] = pc[w] /\ job'[w] = job[w]
  BY DEF R!Hold, R!Goto, R!LockedInv, R!TypeOK, R!RunsTyped, R!Workers
<1>3. pc'[p] = "fetch"
  BY DEF R!Hold, R!Goto, R!LockedInv, R!TypeOK, R!RunsTyped
<1>4. lock' = lock /\ NoWorse
  BY SameNoWorse DEF R!Hold, R!Files
<1>q. QED BY <1>1, <1>2, <1>3, <1>4, OneSync

LEMMA FetchLocked ==
  ASSUME R!RetentionAssumption, R!LockedInv, R!TypeOK', NEW p \in Sharers, R!Fetch(p) PROVE R!LockedInv'
<1>1. pc[p] = "fetch" /\ pc[Dropper] = "idle" /\ p # Dropper /\ lock' = lock
  BY GcIdle DEF R!Fetch, R!Files, R!Holding, R!RetentionAssumption
<1>2. R!RunsTyped(Sharers) /\ Dropper \notin Sharers
  BY DEF R!LockedInv, R!TypeOK, R!RetentionAssumption
<1>3. CASE R!Goto(p, "write") /\ UNCHANGED <<cache, job>> /\ \A item \in R!Asks(job[p].want) : R!Good(item)
  <2>1. /\ \A w \in R!Workers \ {p} : pc'[w] = pc[w] /\ job'[w] = job[w]
        /\ pc'[p] = "write"
    BY <1>2, <1>3 DEF R!Goto, R!RunsTyped, R!Workers
  <2>2. \A item \in R!Asks(job'[p].want) : cache'[item] # "gone"
    BY <1>3 DEF R!Good
  <2>3. NoWorse
    BY <1>3, SameNoWorse
  <2>q. QED BY <1>1, <2>1, <2>2, <2>3, OneSync
<1>4. ASSUME UNCHANGED pc, NEW items \in SUBSET R!Items, R!Store(p, items) PROVE R!LockedInv'
  <2>1. \A w \in R!Workers \ {p} : pc'[w] = pc[w] /\ job'[w] = job[w]
    BY <1>2, <1>4, Stores DEF R!RunsTyped, R!Workers
  <2>2. NoWorse
    BY <1>4 DEF R!Store, NoWorse, R!Good
  <2>q. QED BY <1>1, <1>4, <2>1, <2>2, OneSync
<1>q. QED BY <1>2, <1>3, <1>4, Fetches

LEMMA PlaceLocked ==
  ASSUME R!RetentionAssumption, R!LockedInv, R!TypeOK', NEW p \in Sharers, R!Place(p) PROVE R!LockedInv'
<1>1. pc[p] = "place" /\ pc[Dropper] = "idle" /\ p # Dropper /\ lock' = lock /\ NoWorse
  BY GcIdle, SameNoWorse DEF R!Place, R!Files, R!Holding, R!RetentionAssumption
<1>2. R!RunsTyped(Sharers) /\ job[p] \in R!JobsFor(Sharers) /\ p \in R!Workers
  BY DEF R!LockedInv, R!TypeOK, R!RunsTyped, R!Workers
<1>3. CASE R!End(p)
  <2>1. /\ \A w \in R!Workers \ {p} : pc'[w] = pc[w] /\ job'[w] = job[w]
        /\ pc'[p] = "idle"
    BY <1>2, <1>3 DEF R!End, R!Goto, R!RunsTyped, R!Workers
  <2>q. QED BY <1>1, <2>1, OneSync
<1>4. CASE R!Goto(p, "read") /\ job' = [job EXCEPT ![p].todo = registered, ![p].steady = registered]
  <2>1. /\ \A w \in R!Workers \ {p} : pc'[w] = pc[w] /\ job'[w] = job[w]
        /\ pc'[p] = "read"
    BY <1>2, <1>4 DEF R!Goto, R!RunsTyped, R!Workers
  <2>2. job'[p] = [job[p] EXCEPT !.todo = registered, !.steady = registered]
    BY <1>2, <1>4 DEF R!RunsTyped
  <2>3. job'[p].steady = registered /\ job'[p].todo = registered
    BY <1>2, <2>2 DEF R!JobsFor
  <2>q. QED BY <1>1, <2>1, <2>3, OneSync
<1>5. CASE R!Goto(p, "register") /\ UNCHANGED job
  <2>1. /\ \A w \in R!Workers \ {p} : pc'[w] = pc[w] /\ job'[w] = job[w]
        /\ pc'[p] = "register"
    BY <1>2, <1>5 DEF R!Goto, R!RunsTyped, R!Workers
  <2>q. QED BY <1>1, <2>1, OneSync
<1>q. QED BY <1>3, <1>4, <1>5 DEF R!Place

\* A project that registers, or is killed, forgets what it did.
LEMMA EndLocked ==
  ASSUME R!RetentionAssumption, R!LockedInv, R!TypeOK', NEW p \in Sharers, R!Holding(p), R!End(p),
         UNCHANGED <<cache, lock>>
  PROVE  R!LockedInv'
<1>1. pc[Dropper] = "idle" /\ p # Dropper /\ lock' = lock /\ NoWorse
  BY GcIdle, SameNoWorse DEF R!RetentionAssumption
<1>2. /\ \A w \in R!Workers \ {p} : pc'[w] = pc[w] /\ job'[w] = job[w]
      /\ pc'[p] = "idle"
  BY DEF R!End, R!Goto, R!LockedInv, R!TypeOK, R!RunsTyped, R!Workers
<1>q. QED BY <1>1, <1>2, OneSync

LEMMA DropLocked ==
  ASSUME R!RetentionAssumption, R!LockedInv, R!TypeOK', NEW p \in Sharers, R!Drop(p) PROVE R!LockedInv'
<1>1. pc[p] = "drop" /\ pc[Dropper] = "idle" /\ p # Dropper /\ lock' = lock
  BY GcIdle DEF R!Drop, R!Files, R!Holding, R!RetentionAssumption
<1>2. /\ \A w \in R!Workers \ {p} : pc'[w] = pc[w] /\ job'[w] = job[w]
      /\ pc'[p] = "register"
  BY DEF R!Drop, R!Goto, R!LockedInv, R!TypeOK, R!RunsTyped, R!Workers
<1>3. \A i \in R!Items \ {"archive"} : cache'[i] = cache[i]
  BY DEF R!Drop, R!LockedInv, R!TypeOK, R!FilesTyped
<1>4. NoWorse
  BY <1>3 DEF NoWorse, R!Good
<1>q. QED BY <1>1, <1>2, <1>4, OneSync

\* Reading for a sync: a project out of reach leaves the sync without all it had to know.
LEMMA SyncReadsLocked ==
  ASSUME R!RetentionAssumption, R!LockedInv, R!TypeOK', NEW p \in Sharers,
         R!ReadGone(p) \/ R!ReadProject(p) \/ R!ReadBroken(p) \/ R!Judged(p)
  PROVE  R!LockedInv'
<1>1. pc[p] = "read" /\ pc[Dropper] = "idle" /\ p # Dropper /\ lock' = lock /\ NoWorse
  BY GcIdle, SameNoWorse DEF R!ReadGone, R!ReadProject, R!ReadBroken, R!Judged, R!Judging, R!Files, R!Holding, R!RetentionAssumption
<1>2. /\ R!RunsTyped(Sharers) /\ job[p] \in R!JobsFor(Sharers) /\ p \in R!Workers
      /\ lock \in [Sharers -> R!Pinned]
  BY DEF R!LockedInv, R!TypeOK, R!RunsTyped, R!Workers, R!FilesTyped
<1>3. CASE R!ReadGone(p)
  <2>1. PICK q \in job[p].todo : R!Skip(p, q) /\ pc' = pc
    BY <1>1, <1>3 DEF R!ReadGone
  <2>2. job'[p] = [job[p] EXCEPT !.todo = job[p].todo \ {q}, !.complete = FALSE]
    BY <1>2, <2>1 DEF R!Skip, R!RunsTyped
  <2>3. ~job'[p].complete /\ job'[p].needed = job[p].needed
    BY <1>2, <2>2 DEF R!JobsFor
  <2>4. \A w \in R!Workers \ {p} : pc'[w] = pc[w] /\ job'[w] = job[w]
    BY <1>2, <2>1 DEF R!Skip, R!RunsTyped, R!Workers
  <2>5. R!GcAlone' /\ R!GcKnows'
    BY <1>1, <2>1, GcRests
  <2>6. \A w \in Sharers : w = p \/ (pc'[w] = pc[w] /\ job'[w] = job[w])
    BY <2>4 DEF R!Workers
  <2>7. R!FoundStays'
    BY <1>1, <2>1, <2>6, FoundStaysStep DEF R!LockedInv
  <2>8. R!SyncsKnow'
    <3>1. ASSUME NEW w \in Sharers, w # p, pc'[w] \in {"read", "drop"}, job'[w].complete,
                 NEW q2 \in job'[w].steady \ job'[w].todo
          PROVE  R!Spares(w, q2)'
      <4>1. R!Spares(w, q2) /\ job'[w].needed = job[w].needed
        BY <2>1, <2>6, <3>1 DEF R!LockedInv, R!SyncsKnow
      <4>q. QED BY <1>1, <4>1, SparesStay
    <3>2. \A w \in Sharers : pc'[w] = "drop" => job'[w].todo = {} /\ job'[w].complete
      BY <1>1, <2>1, <2>6 DEF R!LockedInv, R!SyncsKnow
    <3>q. QED BY <1>1, <2>1, <2>3, <3>1, <3>2 DEF R!SyncsKnow
  <2>q. QED BY <2>5, <2>7, <2>8 DEF R!LockedInv
<1>4. CASE R!ReadProject(p)
  <2>1. PICK q \in job[p].todo \cap Sharers, j \in R!JobsFor(Sharers) :
           /\ job' = [job EXCEPT ![p] = j]
           /\ j.complete = job[p].complete /\ j.steady = job[p].steady /\ j.todo = job[p].todo \ {q}
           /\ lock[q] = Nobody => j.needed = job[p].needed
           /\ lock[q] # Nobody => j.needed = job[p].needed \cup R!Needs(lock[q])
    BY <1>2, <1>4, Learns
  <2>2. /\ \A w \in R!Workers \ {p} : pc'[w] = pc[w] /\ job'[w] = job[w]
        /\ pc' = pc /\ job'[p] = j /\ cache' = cache
    BY <1>2, <1>4, <2>1 DEF R!ReadProject, R!RunsTyped, R!Workers
  <2>3. R!Spares(p, q)'
    <3>1. Nobody \notin {"packed", "tree"}
      BY DEF R!RetentionAssumption
    <3>2. lock[q] = "packed" => "archive" \in R!Needs(lock[q])
      BY DEF R!Needs, R!Asks
    <3>3. lock[q] = "tree" => "archive" \in R!Needs(lock[q]) \/ (cache["record"] # "gone" /\ R!Good("member"))
      BY DEF R!Needs
    <3>q. QED BY <1>1, <2>1, <2>2, <3>1, <3>2, <3>3 DEF R!Spares, R!Good
  <2>q. QED BY <1>1, <2>1, <2>2, <2>3, OneSync
<1>5. CASE R!ReadBroken(p)
  <2>1. /\ \A w \in R!Workers \ {p} : pc'[w] = pc[w] /\ job'[w] = job[w]
        /\ pc'[p] = "register"
    BY <1>1, <1>2, <1>5 DEF R!ReadBroken, R!Goto, R!RunsTyped, R!Workers
  <2>q. QED BY <1>1, <2>1, OneSync
<1>6. CASE R!Judged(p) /\ R!Goto(p, "register") /\ UNCHANGED job
  <2>1. /\ \A w \in R!Workers \ {p} : pc'[w] = pc[w] /\ job'[w] = job[w]
        /\ pc'[p] = "register"
    BY <1>2, <1>6 DEF R!Goto, R!RunsTyped, R!Workers
  <2>q. QED BY <1>1, <2>1, OneSync
<1>7. CASE /\ R!Judged(p) /\ R!Goto(p, "drop") /\ job[p].complete
           /\ job' = [job EXCEPT ![p].needed = @ \cup R!Needs(job[p].want)]
  <2>1. /\ \A w \in R!Workers \ {p} : pc'[w] = pc[w] /\ job'[w] = job[w]
        /\ pc'[p] = "drop" /\ job[p].todo = {}
    BY <1>2, <1>7 DEF R!Goto, R!RunsTyped, R!Workers, R!Judged
  <2>2. job'[p] = [job[p] EXCEPT !.needed = job[p].needed \cup R!Needs(job[p].want)]
    BY <1>2, <1>7 DEF R!RunsTyped
  <2>3. /\ job[p].needed \subseteq job'[p].needed /\ job'[p].todo = job[p].todo
        /\ job'[p].steady = job[p].steady /\ job'[p].complete = job[p].complete
    BY <1>2, <2>2 DEF R!JobsFor
  <2>q. QED BY <1>1, <1>7, <2>1, <2>3, OneSync
<1>q. QED BY <1>1, <1>3, <1>4, <1>5, <1>6, <1>7 DEF R!Judged

LEMMA WriteLockLocked ==
  ASSUME R!RetentionAssumption, R!LockedInv, R!TypeOK', NEW p \in Sharers, R!WriteLock(p) PROVE R!LockedInv'
<1>1. pc[p] = "write" /\ pc[Dropper] = "idle" /\ p # Dropper /\ NoWorse
  BY GcIdle, SameNoWorse DEF R!WriteLock, R!Holding, R!RetentionAssumption
<1>2. R!RunsTyped(Sharers) /\ lock \in [Sharers -> R!Pinned]
  BY DEF R!LockedInv, R!TypeOK, R!FilesTyped
<1>3. \A w \in R!Workers \ {p} : pc'[w] = pc[w]
  BY <1>2 DEF R!WriteLock, R!Goto, R!RunsTyped, R!Workers
<1>4. ASSUME NEW w \in Sharers
      PROVE  /\ job'[w].steady = job[w].steady \ {p} /\ job'[w].want = job[w].want
             /\ job'[w].todo = job[w].todo /\ job'[w].complete = job[w].complete
             /\ job'[w].needed = job[w].needed /\ job[w].steady \subseteq Sharers
  <2>1. job[w] \in R!JobsFor(Sharers)
    BY <1>2 DEF R!RunsTyped
  <2>2. job'[w] = [job[w] EXCEPT !.steady = job[w].steady \ {p}]
    BY DEF R!WriteLock, R!Workers
  <2>q. QED BY <2>1, <2>2 DEF R!JobsFor
<1>5. R!GcAlone' /\ R!GcKnows'
  BY <1>1, <1>3, GcRests DEF R!Workers
<1>6. pc'[p] = "place"
  BY <1>2 DEF R!WriteLock, R!Goto, R!RunsTyped
<1>7. R!FoundStays'
  <2>1. \A w \in Sharers : pc'[w] \in {"write", "place"} => pc[w] \in {"write", "place"}
    BY <1>1, <1>3 DEF R!Workers
  <2>q. QED BY <1>1, <1>4, <2>1, FoundStaysStep DEF R!LockedInv
<1>8. R!SyncsKnow'
  <2>1. ASSUME NEW w \in Sharers, pc'[w] \in {"read", "drop"}, job'[w].complete,
               NEW q \in job'[w].steady \ job'[w].todo
        PROVE  R!Spares(w, q)'
    <3>1. w # p /\ pc'[w] = pc[w]
      BY <1>3, <1>6, <2>1 DEF R!Workers
    <3>2. q \in job[w].steady \ job[w].todo /\ q # p /\ q \in Sharers
      BY <1>4, <2>1
    <3>3. R!Spares(w, q)
      BY <1>4, <2>1, <3>1, <3>2 DEF R!LockedInv, R!SyncsKnow
    <3>4. lock'[q] = lock[q]
      BY <1>2, <3>2 DEF R!WriteLock
    <3>q. QED BY <1>1, <1>4, <3>3, <3>4, SparesStay
  <2>2. ASSUME NEW w \in Sharers, pc'[w] = "drop" PROVE job'[w].todo = {} /\ job'[w].complete
    <3>1. w # p /\ pc'[w] = pc[w]
      BY <1>3, <1>6, <2>2 DEF R!Workers
    <3>q. QED BY <1>4, <2>2, <3>1 DEF R!LockedInv, R!SyncsKnow
  <2>q. QED BY <2>1, <2>2 DEF R!SyncsKnow
<1>q. QED BY <1>5, <1>7, <1>8 DEF R!LockedInv

\* While gc runs, no sync does.
LEMMA SyncsIdle == ASSUME R!LockedInv, R!Holding(Dropper) PROVE \A p \in Sharers : pc[p] = "idle"
  BY DEF R!LockedInv, R!GcAlone, R!Holding

\* A step of gc alone needs only keep what gc knows.
LEMMA OneGc ==
  ASSUME R!RetentionAssumption, R!TypeOK', \A p \in Sharers : pc[p] = "idle",
         \A p \in Sharers : pc'[p] = pc[p], R!GcKnows'
  PROVE  R!LockedInv'
<1>1. R!GcAlone' /\ R!FoundStays' /\ R!SyncsKnow'
  BY SyncsRest
<1>q. QED BY <1>1 DEF R!LockedInv

LEMMA StartGcLocked ==
  ASSUME R!RetentionAssumption, R!LockedInv, R!TypeOK', R!StartGc PROVE R!LockedInv'
<1>1. /\ \A p \in Sharers : pc[p] = "idle" /\ pc'[p] = pc[p]
      /\ pc'[Dropper] = "read"
  BY DEF R!StartGc, R!MayHold, R!Holding, R!Goto, R!LockedInv, R!TypeOK, R!RunsTyped, R!RetentionAssumption
<1>2. job[Dropper] \in R!JobsFor(Sharers) /\ job'[Dropper] = [job[Dropper] EXCEPT !.todo = registered, !.steady = registered]
  BY DEF R!StartGc, R!LockedInv, R!TypeOK, R!RunsTyped
<1>3. job'[Dropper].steady \ job'[Dropper].todo = {}
  BY <1>2 DEF R!JobsFor
<1>4. R!GcKnows'
  BY <1>1, <1>3 DEF R!GcKnows
<1>q. QED BY <1>1, <1>4, OneGc

LEMMA GcReadsLocked ==
  ASSUME R!RetentionAssumption, R!LockedInv, R!TypeOK',
         R!ReadGone(Dropper) \/ R!ReadProject(Dropper) \/ R!ReadBroken(Dropper) \/ R!Judged(Dropper)
  PROVE  R!LockedInv'
<1>1. /\ pc[Dropper] = "read" /\ lock' = lock /\ cache' = cache
      /\ \A p \in Sharers : pc[p] = "idle"
  BY SyncsIdle DEF R!ReadGone, R!ReadProject, R!ReadBroken, R!Judged, R!Judging, R!Files, R!Holding
<1>2. /\ R!RunsTyped(Sharers) /\ job[Dropper] \in R!JobsFor(Sharers) /\ Dropper \notin Sharers
      /\ lock \in [Sharers -> R!Pinned] /\ Dropper \in Sharers \cup {Dropper}
  BY DEF R!LockedInv, R!TypeOK, R!RunsTyped, R!FilesTyped, R!RetentionAssumption
<1>3. \A p \in Sharers : pc'[p] = pc[p]
  BY <1>2 DEF R!ReadGone, R!ReadProject, R!ReadBroken, R!Judged, R!End, R!Goto, R!RunsTyped
<1>4. \A wanted : R!Needs(wanted)' = R!Needs(wanted)
  BY <1>1 DEF R!Needs, R!Asks, R!Good
<1>5. CASE R!ReadGone(Dropper)
  <2>1. PICK q \in job[Dropper].todo :
          job' = [job EXCEPT ![Dropper].todo = job[Dropper].todo \ {q}, ![Dropper].steady = job[Dropper].steady \ {q}]
    BY <1>5 DEF R!ReadGone
  <2>2. job'[Dropper] = [job[Dropper] EXCEPT !.todo = job[Dropper].todo \ {q}, !.steady = job[Dropper].steady \ {q}]
    BY <1>2, <2>1 DEF R!RunsTyped
  <2>3. /\ job'[Dropper].steady \ job'[Dropper].todo \subseteq job[Dropper].steady \ job[Dropper].todo
        /\ job'[Dropper].needed = job[Dropper].needed
    BY <1>2, <2>2 DEF R!JobsFor
  <2>4. pc'[Dropper] = "read"
    BY <1>1, <1>5 DEF R!ReadGone
  <2>5. R!GcKnows'
    BY <1>1, <1>4, <2>3, <2>4 DEF R!LockedInv, R!GcKnows
  <2>q. QED BY <1>1, <1>3, <2>5, OneGc
<1>6. CASE R!ReadProject(Dropper)
  <2>1. PICK q \in job[Dropper].todo \cap Sharers, j \in R!JobsFor(Sharers) :
           /\ job' = [job EXCEPT ![Dropper] = j]
           /\ j.steady = job[Dropper].steady /\ j.todo = job[Dropper].todo \ {q}
           /\ lock[q] = Nobody => j.needed = job[Dropper].needed
           /\ lock[q] # Nobody => j.needed = job[Dropper].needed \cup R!Needs(lock[q])
    BY <1>2, <1>6, Learns
  <2>2. job'[Dropper] = j /\ pc'[Dropper] = "read"
    BY <1>1, <1>2, <1>6, <2>1 DEF R!ReadProject, R!RunsTyped
  <2>3. \A p \in job'[Dropper].steady \ job'[Dropper].todo : lock'[p] # Nobody => R!Needs(lock'[p]) \subseteq job'[Dropper].needed
    BY <1>1, <2>1, <2>2 DEF R!LockedInv, R!GcKnows
  <2>4. R!GcKnows'
    BY <1>4, <2>2, <2>3 DEF R!GcKnows
  <2>q. QED BY <1>1, <1>3, <2>4, OneGc
<1>7. CASE R!ReadBroken(Dropper)
  <2>1. pc'[Dropper] = "idle"
    BY <1>2, <1>7 DEF R!ReadBroken, R!End, R!Goto, R!RunsTyped
  <2>q. QED BY <1>1, <1>3, <2>1, OneGc, GcRests
<1>8. CASE R!Judged(Dropper)
  <2>1. pc'[Dropper] = "objects" /\ job' = job /\ job[Dropper].todo = {}
    BY <1>2, <1>8 DEF R!Judged, R!Goto, R!RunsTyped
  <2>2. R!GcKnows'
    BY <1>1, <1>4, <2>1 DEF R!LockedInv, R!GcKnows
  <2>q. QED BY <1>1, <1>3, <2>2, OneGc
<1>q. QED BY <1>5, <1>6, <1>7, <1>8

LEMMA SweepLocked ==
  ASSUME R!RetentionAssumption, R!LockedInv, R!TypeOK', R!SweepObjects \/ R!SweepRecords PROVE R!LockedInv'
<1>1. pc[Dropper] \in {"objects", "records"} /\ \A p \in Sharers : pc[p] = "idle"
  BY SyncsIdle DEF R!SweepObjects, R!SweepRecords, R!Holding
<1>2. R!RunsTyped(Sharers) /\ Dropper \notin Sharers /\ R!FilesTyped(Sharers)
  BY DEF R!LockedInv, R!TypeOK, R!RetentionAssumption
<1>3. \A p \in Sharers : pc'[p] = pc[p]
  BY <1>2 DEF R!SweepObjects, R!SweepRecords, R!End, R!Goto, R!RunsTyped
<1>4. CASE R!SweepObjects
  <2>1. pc'[Dropper] = "records" /\ job' = job /\ lock' = lock /\ pc[Dropper] = "objects"
    BY <1>2, <1>4 DEF R!SweepObjects, R!Goto, R!RunsTyped, R!Files
  <2>2. cache'["record"] = cache["record"]
    BY <1>2, <1>4, RemoveTypes DEF R!SweepObjects, R!FilesTyped, R!Items
  <2>3. ASSUME NEW p \in job[Dropper].steady, lock[p] = "tree"
        PROVE  cache["record"] = "gone" \/ "record" \in job[Dropper].needed
    <3>1. R!Needs("tree") \subseteq job[Dropper].needed
      BY <2>1, <2>3 DEF R!LockedInv, R!GcKnows, R!RetentionAssumption
    <3>2. cache["record"] # "gone" => "record" \in R!Needs("tree")
      BY DEF R!Needs
    <3>q. QED BY <3>1, <3>2
  <2>4. job[Dropper].todo = {}
    BY <2>1 DEF R!LockedInv, R!GcKnows
  <2>5. R!GcKnows'
    BY <2>1, <2>2, <2>3, <2>4 DEF R!GcKnows
  <2>q. QED BY <1>1, <1>3, <2>5, OneGc
<1>5. CASE R!SweepRecords
  <2>1. pc'[Dropper] = "idle"
    BY <1>2, <1>5 DEF R!SweepRecords, R!End, R!Goto, R!RunsTyped
  <2>q. QED BY <1>1, <1>3, <2>1, OneGc, GcRests
<1>q. QED BY <1>4, <1>5

LEMMA KillGcLocked ==
  ASSUME R!RetentionAssumption, R!LockedInv, R!TypeOK', R!Kill(Dropper) PROVE R!LockedInv'
<1>1. /\ \A p \in Sharers : pc[p] = "idle" /\ pc'[p] = pc[p]
      /\ pc'[Dropper] = "idle"
  BY SyncsIdle DEF R!Kill, R!End, R!Goto, R!LockedInv, R!TypeOK, R!RunsTyped, R!RetentionAssumption
<1>q. QED BY <1>1, OneGc, GcRests

\* Projects come and go, and items age, or are damaged while nobody judges by them.
LEMMA WorldLocked ==
  ASSUME R!RetentionAssumption, R!LockedInv, R!TypeOK',
         (\E p \in Sharers : R!Reach(p)) \/ R!Age \/ R!Damage \/ UNCHANGED R!vars
  PROVE  R!LockedInv'
<1>1. UNCHANGED <<lock, pc, job>>
  BY DEF R!Reach, R!Age, R!Damage, R!Files, R!vars
<1>2. CASE UNCHANGED cache
  <2>1. R!GcAlone' /\ R!FoundStays'
    BY <1>1, <1>2 DEF R!LockedInv, R!GcAlone, R!FoundStays, R!Holding, R!Asks
  <2>2. \A wanted : R!Needs(wanted)' = R!Needs(wanted)
    BY <1>2 DEF R!Needs, R!Asks, R!Good
  <2>3. R!GcKnows'
    BY <1>1, <1>2, <2>2 DEF R!LockedInv, R!GcKnows
  <2>4. R!SyncsKnow'
    BY <1>1, <1>2 DEF R!LockedInv, R!SyncsKnow, R!Spares, R!Good
  <2>q. QED BY <2>1, <2>3, <2>4 DEF R!LockedInv
<1>3. CASE R!Age
  <2>1. \A p \in Sharers : pc[p] = "idle" /\ pc'[p] = pc[p]
    BY <1>1, <1>3 DEF R!Age, R!Holding
  <2>2. \A i \in R!Items : (cache'[i] = "gone" <=> cache[i] = "gone") /\ (R!Good(i)' <=> R!Good(i))
    BY <1>3 DEF R!Age, R!Good, R!LockedInv, R!TypeOK, R!FilesTyped
  <2>3. cache'["record"] = "gone" <=> cache["record"] = "gone"
    BY <2>2 DEF R!Items
  <2>4. ASSUME NEW wanted PROVE R!Needs(wanted)' = R!Needs(wanted)
    <3>1. R!Good("member")' <=> R!Good("member")
      BY <2>2 DEF R!Items
    <3>2. R!Asks(wanted)' = R!Asks(wanted)
      BY DEF R!Asks
    <3> HIDE DEF R!Asks
    <3>3. CASE R!Good("member")
      BY <2>3, <3>1, <3>2, <3>3 DEF R!Needs
    <3>4. CASE ~R!Good("member")
      BY <2>3, <3>1, <3>2, <3>4 DEF R!Needs
    <3>q. QED BY <3>3, <3>4
  <2>5. R!GcKnows'
    BY <1>1, <2>3, <2>4 DEF R!LockedInv, R!GcKnows
  <2>q. QED BY <2>1, <2>5, OneGc
<1>4. CASE R!Damage
  <2>1. \A w \in R!Workers : pc'[w] \in {"idle", "register"}
    BY <1>1, <1>4 DEF R!Damage
  <2>2. pc'[Dropper] = "idle" /\ \A p \in Sharers : pc'[p] \in {"idle", "register"}
    BY <2>1 DEF R!Workers, R!TypeOK, R!RunsTyped, R!GcLabels
  <2>3. R!GcAlone' /\ R!GcKnows'
    BY <2>2, GcRests
  <2>4. R!FoundStays' /\ R!SyncsKnow'
    BY <2>2 DEF R!FoundStays, R!SyncsKnow
  <2>q. QED BY <2>3, <2>4 DEF R!LockedInv
<1>q. QED BY <1>2, <1>3, <1>4 DEF R!Reach, R!vars

\* Every step with locks is one of those that keep the types.
LEMMA LockedSteps ==
  ASSUME R!RetentionAssumption, R!TypeOK, R!Next PROVE CacheSteps(Sharers)
<1>1. ASSUME NEW p \in Sharers,
             \/ R!Hold(p) \/ R!Fetch(p) \/ R!WriteLock(p) \/ R!Place(p) \/ R!Register(p) \/ R!Drop(p) \/ R!Reach(p)
      PROVE  CacheSteps(Sharers)
  <2>1. R!Hold(p) => SyncBegins(p)
    BY DEF R!Hold, SyncBegins
  <2>2. R!WriteLock(p) => SyncLocks(Sharers, p)
    BY DEF R!WriteLock, SyncLocks, R!Workers
  <2>q. QED BY <1>1, <2>1, <2>2 DEF CacheSteps, RunSteps
<1>2. R!StartGc => DropperBegins
  BY DEF R!StartGc, DropperBegins
<1>3. R!Age => ItemsTurn
  BY DEF R!Age, ItemsTurn
<1>4. R!Damage => ItemsTurn
  BY DEF R!Damage, ItemsTurn
<1>q. QED BY <1>1, <1>2, <1>3, <1>4 DEF R!Next, CacheSteps, RunSteps, R!Workers

LEMMA LockedTypes ==
  ASSUME R!RetentionAssumption, R!TypeOK, [R!Next]_(R!vars) PROVE R!TypeOK'
<1>1. CASE R!Next
  <2>1. CacheTyped(Sharers)'
    BY <1>1, LockedSteps, StepTypes DEF R!TypeOK, CacheTyped, R!RetentionAssumption
  <2>q. QED BY <2>1 DEF R!TypeOK, CacheTyped
<1>2. CASE UNCHANGED R!vars
  BY <1>2 DEF R!TypeOK, R!FilesTyped, R!RunsTyped, R!vars
<1>q. QED BY <1>1, <1>2

LEMMA InitTyped == ASSUME R!RetentionAssumption, R!Init PROVE R!TypeOK
<1>1. \A w \in Sharers \cup {Dropper} : pc[w] = "idle" /\ job[w] = R!NoJob
  BY DEF R!Init, R!Workers
<1>2. R!NoJob.stored = {}
  BY DEF R!NoJob
<1>3. R!RunsTyped(Sharers)
  BY <1>1, <1>2, NoJobIs DEF R!Init, R!Workers, R!RunsTyped, R!SyncLabels, R!GcLabels
<1>4. R!FilesTyped(Sharers)
  BY DEF R!Init, R!FilesTyped, R!Items, R!Pinned
<1>q. QED BY <1>3, <1>4 DEF R!TypeOK

LEMMA LockedNext ==
  ASSUME R!RetentionAssumption, R!LockedInv, [R!Next]_(R!vars) PROVE R!LockedInv'
<1>1. R!TypeOK'
  BY LockedTypes DEF R!LockedInv
<1>2. ASSUME NEW p \in Sharers,
             \/ R!Hold(p) \/ R!Fetch(p) \/ R!WriteLock(p) \/ R!Place(p) \/ R!Register(p) \/ R!Drop(p) \/ R!Reach(p)
      PROVE  R!LockedInv'
  <2>1. R!Register(p) => R!Holding(p) /\ R!End(p) /\ UNCHANGED <<cache, lock>>
    BY DEF R!Register, R!Holding
  <2>q. QED BY <1>1, <1>2, <2>1, HoldLocked, FetchLocked, WriteLockLocked, PlaceLocked, EndLocked, DropLocked, WorldLocked
<1>3. ASSUME NEW p \in Sharers,
             \/ R!ReadGone(p) \/ R!ReadProject(p) \/ R!ReadBroken(p) \/ R!Judged(p) \/ R!Kill(p)
      PROVE  R!LockedInv'
  <2>1. R!Kill(p) => R!Holding(p) /\ R!End(p) /\ UNCHANGED <<cache, lock>>
    BY DEF R!Kill, R!Files
  <2>q. QED BY <1>1, <1>3, <2>1, SyncReadsLocked, EndLocked
<1>4. CASE R!ReadGone(Dropper) \/ R!ReadProject(Dropper) \/ R!ReadBroken(Dropper) \/ R!Judged(Dropper)
  BY <1>1, <1>4, GcReadsLocked
<1>5. CASE R!StartGc \/ R!SweepObjects \/ R!SweepRecords \/ R!Kill(Dropper)
  BY <1>1, <1>5, StartGcLocked, SweepLocked, KillGcLocked
<1>6. CASE R!Age \/ R!Damage \/ UNCHANGED R!vars
  BY <1>1, <1>6, WorldLocked
<1>q. QED BY <1>2, <1>3, <1>4, <1>5, <1>6 DEF R!Next, R!Workers

THEOREM RetentionInvariance == ASSUME R!RetentionAssumption PROVE R!Spec => []R!LockedInv
<1>1. R!Init => R!LockedInv
  <2>1. ASSUME R!Init PROVE R!LockedInv
    <3>1. \A w \in Sharers \cup {Dropper} : pc[w] = "idle"
      BY <2>1 DEF R!Init, R!Workers
    <3>2. R!GcAlone /\ R!FoundStays /\ R!GcKnows /\ R!SyncsKnow
      BY <3>1 DEF R!GcAlone, R!FoundStays, R!GcKnows, R!SyncsKnow, R!Holding
    <3>q. QED BY <2>1, <3>2, InitTyped DEF R!LockedInv
  <2>q. QED BY <2>1
<1>2. R!LockedInv /\ [R!Next]_(R!vars) => R!LockedInv'
  BY LockedNext
<1>q. QED BY <1>1, <1>2, PTL DEF R!Spec

-----------------------------------------------------------------------------
\* Whoever frees something leaves registered projects what they need.

\* Only a drop, a sweep or a kill ends what a run was freeing.
LEMMA WhoFrees ==
  ASSUME R!RetentionAssumption, R!LockedInv, [R!Next]_(R!vars), NEW w \in R!Workers,
         pc[w] \in {"drop", "objects", "records"}, pc'[w] # pc[w]
  PROVE  \/ w \in Sharers /\ R!Drop(w)
         \/ w = Dropper /\ (R!SweepObjects \/ R!SweepRecords)
         \/ UNCHANGED <<cache, lock>>
<1>1. R!RunsTyped(Sharers) /\ Dropper \notin Sharers /\ w \in Sharers \cup {Dropper}
  BY DEF R!LockedInv, R!TypeOK, R!RetentionAssumption, R!Workers
<1>2. ASSUME NEW p \in Sharers, R!Hold(p) \/ R!Fetch(p) \/ R!WriteLock(p) \/ R!Place(p) \/ R!Register(p) PROVE FALSE
  <2>1. pc[p] \notin {"drop", "objects", "records"}
    BY <1>2 DEF R!Hold, R!Fetch, R!WriteLock, R!Place, R!Register, R!Holding
  <2>2. w # p
    BY <2>1
  <2>3. PICK l : pc' = [pc EXCEPT ![p] = l] \/ pc' = pc
    <3>1. CASE R!Hold(p)
      BY <3>1 DEF R!Hold, R!Goto
    <3>2. CASE R!Fetch(p)
      <4>1. R!Goto(p, "write") \/ UNCHANGED pc
        BY <1>1, <3>2, Fetches
      <4>q. QED BY <4>1 DEF R!Goto
    <3>3. CASE R!WriteLock(p)
      BY <3>3 DEF R!WriteLock, R!Goto
    <3>4. CASE R!Place(p)
      <4>1. R!End(p) \/ R!Goto(p, "read") \/ R!Goto(p, "register")
        BY <3>4 DEF R!Place
      <4>q. QED BY <4>1 DEF R!End, R!Goto
    <3>5. CASE R!Register(p)
      BY <3>5 DEF R!Register, R!End, R!Goto
    <3>q. QED BY <1>2, <3>1, <3>2, <3>3, <3>4, <3>5
  <2>q. QED BY <1>1, <2>2, <2>3 DEF R!RunsTyped
<1>3. ASSUME NEW p \in Sharers, R!Drop(p) PROVE w = p
  BY <1>1, <1>3 DEF R!Drop, R!Goto, R!RunsTyped
<1>4. CASE R!SweepObjects \/ R!SweepRecords
  BY <1>1, <1>4 DEF R!SweepObjects, R!SweepRecords, R!End, R!Goto, R!RunsTyped
<1>5. ASSUME NEW v \in R!Workers, R!ReadGone(v) \/ R!ReadProject(v) \/ R!ReadBroken(v) \/ R!Judged(v) \/ R!Kill(v)
      PROVE  UNCHANGED <<cache, lock>>
  BY <1>5 DEF R!ReadGone, R!ReadProject, R!ReadBroken, R!Judged, R!Kill, R!Files
<1>6. CASE R!StartGc \/ R!Age \/ R!Damage \/ UNCHANGED R!vars
  BY <1>1, <1>6 DEF R!StartGc, R!Files, R!Age, R!Damage, R!vars
<1>7. ASSUME NEW p \in Sharers, R!Reach(p) PROVE UNCHANGED <<cache, lock>>
  BY <1>7 DEF R!Reach
<1>q. QED BY <1>2, <1>3, <1>4, <1>5, <1>6, <1>7 DEF R!Next

LEMMA LockIs == ASSUME R!LockedInv, NEW p \in registered, lock[p] # Nobody
                PROVE  lock[p] \in {"plain", "packed", "tree"}
  BY DEF R!LockedInv, R!TypeOK, R!FilesTyped, R!Pinned

LEMMA DropSpares ==
  ASSUME R!LockedInv, NEW w \in Sharers, R!Drop(w), NEW p \in registered \cap job[w].steady,
         lock[p] # Nobody, R!Served(lock[p])
  PROVE  R!Served(lock[p])'
<1>1. lock' = lock /\ lock[p] \in {"plain", "packed", "tree"}
  BY LockIs DEF R!Drop, R!Files
<1>2. R!Spares(w, p)
  BY DEF R!Drop, R!LockedInv, R!SyncsKnow
<1>3. /\ cache' = cache \/ ("archive" \notin job[w].needed /\ cache' = [cache EXCEPT !["archive"] = "gone"])
      /\ \A i \in R!Items \ {"archive"} : cache'[i] = cache[i]
  BY DEF R!Drop, R!LockedInv, R!TypeOK, R!FilesTyped
<1>4. cache'["record"] = cache["record"] /\ cache'["member"] = cache["member"]
  BY <1>3 DEF R!Items
<1>5. CASE lock[p] = "plain"
  BY <1>1, <1>4, <1>5 DEF R!Served, R!Asks, R!Good
<1>6. CASE lock[p] = "packed"
  BY <1>1, <1>2, <1>3, <1>6 DEF R!Served, R!Asks, R!Good, R!Spares
<1>7. CASE lock[p] = "tree" /\ "archive" \in job[w].needed
  BY <1>1, <1>3, <1>7 DEF R!Served, R!Asks, R!Good
<1>8. CASE lock[p] = "tree" /\ cache["record"] # "gone" /\ R!Good("member")
  <2>1. cache["record"] \in {"fresh", "old"}
    BY <1>8 DEF R!LockedInv, R!TypeOK, R!FilesTyped, R!Items
  <2>q. QED BY <1>1, <1>4, <1>8, <2>1 DEF R!Served, R!Asks, R!Good
<1>q. QED BY <1>1, <1>2, <1>5, <1>6, <1>7, <1>8 DEF R!Spares

LEMMA SweepObjectsSpares ==
  ASSUME R!LockedInv, R!SweepObjects, NEW p \in registered \cap job[Dropper].steady, lock[p] # Nobody, R!Served(lock[p])
  PROVE  R!Served(lock[p])'
<1>1. lock' = lock /\ lock[p] \in {"plain", "packed", "tree"}
  BY LockIs DEF R!SweepObjects, R!Files
<1>2. R!Needs(lock[p]) \subseteq job[Dropper].needed
  BY DEF R!SweepObjects, R!LockedInv, R!GcKnows
<1>3. \A i \in R!Items : cache'[i] = cache[i] \/ i \in {"archive", "member"} \ job[Dropper].needed
  BY RemoveTypes DEF R!SweepObjects, R!LockedInv, R!TypeOK, R!FilesTyped
<1>4. cache'["record"] = cache["record"]
  BY <1>3 DEF R!Items
<1>5. /\ "archive" \in job[Dropper].needed => cache'["archive"] = cache["archive"]
      /\ "member" \in job[Dropper].needed => cache'["member"] = cache["member"]
  BY <1>3 DEF R!Items
<1>6. CASE lock[p] = "plain"
  BY <1>1, <1>2, <1>5, <1>6 DEF R!Served, R!Needs, R!Asks, R!Good
<1>7. CASE lock[p] = "packed"
  BY <1>1, <1>2, <1>5, <1>7 DEF R!Served, R!Needs, R!Asks, R!Good
<1>8. CASE lock[p] = "tree"
  <2>1. CASE cache["record"] = "gone"
    BY <1>1, <1>2, <1>5, <1>8, <2>1 DEF R!Served, R!Needs, R!Asks, R!Good
  <2>2. CASE cache["record"] # "gone" /\ R!Good("member")
    <3>1. "member" \in job[Dropper].needed
      BY <1>2, <1>8, <2>2 DEF R!Needs
    <3>2. cache["record"] \in {"fresh", "old"}
      BY <2>2 DEF R!LockedInv, R!TypeOK, R!FilesTyped, R!Items
    <3>q. QED BY <1>1, <1>4, <1>5, <1>8, <2>2, <3>1, <3>2 DEF R!Served, R!Asks, R!Good
  <2>3. CASE cache["record"] # "gone" /\ ~R!Good("member")
    <3>1. "archive" \in job[Dropper].needed
      BY <1>2, <1>8, <2>3 DEF R!Needs
    <3>q. QED BY <1>1, <1>5, <1>8, <2>3, <3>1 DEF R!Served, R!Asks, R!Good
  <2>q. QED BY <2>1, <2>2, <2>3
<1>q. QED BY <1>1, <1>6, <1>7, <1>8

LEMMA SweepRecordsSpares ==
  ASSUME R!LockedInv, R!SweepRecords, NEW p \in registered \cap job[Dropper].steady, lock[p] # Nobody, R!Served(lock[p])
  PROVE  R!Served(lock[p])'
<1>1. lock' = lock /\ lock[p] \in {"plain", "packed", "tree"}
  BY LockIs DEF R!SweepRecords, R!Files
<1>2. lock[p] = "tree" => cache["record"] = "gone" \/ "record" \in job[Dropper].needed
  BY DEF R!SweepRecords, R!LockedInv, R!GcKnows
<1>3. \A i \in R!Items : cache'[i] = cache[i] \/ i \in {"record"} \ job[Dropper].needed
  BY RemoveTypes DEF R!SweepRecords, R!LockedInv, R!TypeOK, R!FilesTyped
<1>4. cache'["archive"] = cache["archive"] /\ cache'["member"] = cache["member"]
  BY <1>3 DEF R!Items
<1>5. CASE lock[p] # "tree"
  BY <1>1, <1>4, <1>5 DEF R!Served, R!Asks, R!Good
<1>6. CASE lock[p] = "tree" /\ "record" \in job[Dropper].needed
  <2>1. cache'["record"] = cache["record"]
    BY <1>3, <1>6 DEF R!Items
  <2>q. QED BY <1>1, <1>4, <1>6, <2>1 DEF R!Served, R!Asks, R!Good
<1>7. CASE lock[p] = "tree" /\ cache["record"] = "gone"
  BY <1>1, <1>4, <1>7 DEF R!Served, R!Asks, R!Good
<1>q. QED BY <1>2, <1>5, <1>6, <1>7

LEMMA FreesSpare ==
  ASSUME R!RetentionAssumption, R!LockedInv, [R!Next]_(R!vars) PROVE R!KeepsNeeded
<1>1. ASSUME NEW w \in R!Workers, pc[w] \in {"drop", "objects", "records"}, pc'[w] # pc[w],
             NEW p \in registered \cap job[w].steady, lock[p] # Nobody, R!Served(lock[p])
      PROVE  R!Served(lock[p])'
  <2>1. CASE UNCHANGED <<cache, lock>>
    BY <1>1, <2>1 DEF R!Served, R!Asks, R!Good
  <2>q. QED BY <1>1, <2>1, WhoFrees, DropSpares, SweepObjectsSpares, SweepRecordsSpares
<1>q. QED BY <1>1 DEF R!KeepsNeeded

-----------------------------------------------------------------------------
\* What a sync stored is fresh, with or without locks.
Fresh(ps) == \A p \in ps : ~now => \A item \in job[p].stored \ {"archive"} : cache[item] = "fresh"

\* A step that stores nothing and spares what is fresh keeps that.
LEMMA FreshStep ==
  ASSUME NEW ps, R!RunsTyped(ps), Fresh(ps), now' = now,
         \A p \in ps : job'[p].stored \in {job[p].stored, {}},
         \A i \in R!Items \ {"archive"} : (~now /\ cache[i] = "fresh") => cache'[i] = "fresh"
  PROVE  Fresh(ps)'
<1>1. ASSUME NEW p \in ps, ~now, NEW item \in job'[p].stored \ {"archive"} PROVE cache'[item] = "fresh"
  <2>1. item \in job[p].stored \ {"archive"} /\ job[p].stored \subseteq R!Items
    BY <1>1 DEF R!RunsTyped, R!JobsFor
  <2>q. QED BY <1>1, <2>1 DEF Fresh
<1>q. QED BY <1>1 DEF Fresh

\* One run whose job says it stored what it did, or nothing any more.
LEMMA OneStored ==
  ASSUME NEW ps, R!RunsTyped(ps), NEW w \in ps \cup {Dropper}, NEW j, job' = [job EXCEPT ![w] = j],
         j.stored \in {job[w].stored, {}}
  PROVE  \A p \in ps : job'[p].stored \in {job[p].stored, {}}
BY DEF R!RunsTyped

LEMMA EndStored ==
  ASSUME NEW ps, R!RunsTyped(ps), NEW w \in ps \cup {Dropper}, R!End(w)
  PROVE  \A p \in ps : job'[p].stored \in {job[p].stored, {}}
<1>1. R!NoJob.stored = {}
  BY DEF R!NoJob
<1>q. QED BY <1>1, OneStored DEF R!End

LEMMA SyncStored ==
  ASSUME NEW ps, Dropper \notin ps, R!RunsTyped(ps), NEW p \in ps,
         \/ SyncBegins(p) \/ SyncLocks(ps, p) \/ R!Place(p) \/ R!Register(p) \/ R!Drop(p) \/ R!Reach(p)
  PROVE  \A q \in ps : job'[q].stored \in {job[q].stored, {}}
<1>0. job[p] \in R!JobsFor(ps) /\ p \in ps \cup {Dropper}
  BY DEF R!RunsTyped
<1>1. CASE SyncBegins(p)
  <2>1. PICK wanted \in KindsOf(p) : job' = [job EXCEPT ![p].want = wanted]
    BY <1>1 DEF SyncBegins
  <2> DEFINE j == [job[p] EXCEPT !.want = wanted]
  <2>2. job' = [job EXCEPT ![p] = j]
    BY <2>1 DEF R!RunsTyped
  <2>3. j.stored = job[p].stored
    BY <1>0 DEF R!JobsFor
  <2> HIDE DEF j
  <2>q. QED BY <1>0, <2>2, <2>3, OneStored
<1>2. CASE SyncLocks(ps, p)
  <2>1. ASSUME NEW q \in ps PROVE job'[q].stored = job[q].stored
    <3>1. job[q] \in R!JobsFor(ps) /\ job'[q] = [job[q] EXCEPT !.steady = job[q].steady \ {p}]
      BY <1>2 DEF R!RunsTyped, SyncLocks
    <3>q. QED BY <3>1 DEF R!JobsFor
  <2>q. QED BY <2>1
<1>3. CASE R!Place(p)
  <2>1. CASE job' = [job EXCEPT ![p].todo = registered, ![p].steady = registered]
    <3> DEFINE j == [job[p] EXCEPT !.todo = registered, !.steady = registered]
    <3>1. job' = [job EXCEPT ![p] = j]
      BY <2>1 DEF R!RunsTyped
    <3>2. j.stored = job[p].stored
      BY <1>0 DEF R!JobsFor
    <3> HIDE DEF j
    <3>q. QED BY <1>0, <3>1, <3>2, OneStored
  <2>2. CASE R!End(p)
    BY <1>0, <2>2, EndStored
  <2>q. QED BY <1>3, <2>1, <2>2 DEF R!Place
<1>4. CASE R!Register(p)
  BY <1>0, <1>4, EndStored DEF R!Register
<1>5. CASE R!Drop(p) \/ R!Reach(p)
  BY <1>5 DEF R!Drop, R!Reach
<1>q. QED BY <1>1, <1>2, <1>3, <1>4, <1>5

LEMMA ReadStored ==
  ASSUME NEW ps, Dropper \notin ps, R!RunsTyped(ps), lock \in [ps -> R!Pinned], NEW w \in ps \cup {Dropper},
         R!ReadGone(w) \/ R!ReadProject(w) \/ R!ReadBroken(w) \/ R!Judged(w) \/ R!Kill(w)
  PROVE  \A q \in ps : job'[q].stored \in {job[q].stored, {}}
<1>0. job[w] \in R!JobsFor(ps)
  BY DEF R!RunsTyped
<1>1. CASE R!ReadGone(w)
  <2>1. CASE w = Dropper
    BY <1>1, <2>1 DEF R!ReadGone, R!RunsTyped
  <2>2. CASE w # Dropper
    <3>1. PICK q : R!Skip(w, q)
      BY <1>1, <2>2 DEF R!ReadGone
    <3> DEFINE j == [job[w] EXCEPT !.todo = job[w].todo \ {q}, !.complete = FALSE]
    <3>2. job' = [job EXCEPT ![w] = j]
      BY <3>1 DEF R!Skip, R!RunsTyped
    <3>3. j.stored = job[w].stored
      BY <1>0 DEF R!JobsFor
    <3> HIDE DEF j
    <3>q. QED BY <3>2, <3>3, OneStored
  <2>q. QED BY <2>1, <2>2
<1>2. CASE R!ReadProject(w)
  <2>1. PICK j \in R!JobsFor(ps) : job' = [job EXCEPT ![w] = j] /\ j.stored = job[w].stored
    BY <1>2, Learns
  <2>q. QED BY <2>1, OneStored
<1>3. CASE R!ReadBroken(w) \/ R!Kill(w)
  BY <1>3, EndStored DEF R!ReadBroken, R!Kill
<1>4. CASE R!Judged(w)
  <2>1. CASE job' = [job EXCEPT ![w].needed = @ \cup R!Needs(job[w].want)]
    <3> DEFINE j == [job[w] EXCEPT !.needed = job[w].needed \cup R!Needs(job[w].want)]
    <3>1. job' = [job EXCEPT ![w] = j]
      BY <2>1 DEF R!RunsTyped
    <3>2. j.stored = job[w].stored
      BY <1>0 DEF R!JobsFor
    <3> HIDE DEF j
    <3>q. QED BY <3>1, <3>2, OneStored
  <2>q. QED BY <1>4, <2>1 DEF R!Judged
<1>q. QED BY <1>1, <1>2, <1>3, <1>4

\* What runs do keeps it.
LEMMA FreshSteps ==
  ASSUME NEW ps, Dropper \notin ps, CacheTyped(ps), Fresh(ps), RunSteps(ps)
  PROVE  Fresh(ps)'
<1>0. R!RunsTyped(ps) /\ R!FilesTyped(ps) /\ lock \in [ps -> R!Pinned]
  BY DEF CacheTyped, R!FilesTyped
<1>1. ASSUME NEW p \in ps,
             \/ SyncBegins(p) \/ SyncLocks(ps, p) \/ R!Place(p) \/ R!Register(p) \/ R!Drop(p) \/ R!Reach(p)
      PROVE  Fresh(ps)'
  <2>1. now' = now
    BY <1>1 DEF SyncBegins, SyncLocks, R!Place, R!Register, R!Drop, R!Reach, R!Files
  <2>2. \A i \in R!Items \ {"archive"} : cache'[i] = cache[i]
    BY <1>0, <1>1 DEF SyncBegins, SyncLocks, R!Place, R!Register, R!Drop, R!Reach, R!Files, R!FilesTyped
  <2>q. QED BY <1>0, <1>1, <2>1, <2>2, SyncStored, FreshStep
<1>2. ASSUME NEW p \in ps, R!Fetch(p) PROVE Fresh(ps)'
  <2>1. now' = now
    BY <1>2 DEF R!Fetch, R!Files
  <2>2. CASE UNCHANGED <<cache, job>>
    BY <2>1, <2>2 DEF Fresh
  <2>3. ASSUME NEW items \in SUBSET R!Items, R!Store(p, items) PROVE Fresh(ps)'
    <3>1. PICK j : job' = [job EXCEPT ![p] = j] /\ j.stored = job[p].stored \cup items
      BY <1>0, <2>3, Stores
    <3>2. ASSUME NEW q \in ps, ~now, NEW item \in job'[q].stored \ {"archive"} PROVE cache'[item] = "fresh"
      <4>1. item \in job[q].stored \cup items
        BY <1>0, <3>1, <3>2 DEF R!RunsTyped
      <4>2. item \in items \/ cache[item] = "fresh"
        BY <3>2, <4>1 DEF Fresh
      <4>3. item \in R!Items
        BY <1>0, <4>1 DEF R!RunsTyped, R!JobsFor
      <4>q. QED BY <2>3, <4>2, <4>3 DEF R!Store
    <3>q. QED BY <2>1, <3>2 DEF Fresh
  <2>q. QED BY <1>0, <1>2, <2>2, <2>3, Fetches
<1>3. ASSUME NEW w \in ps \cup {Dropper}, R!ReadGone(w) \/ R!ReadProject(w) \/ R!ReadBroken(w) \/ R!Judged(w) \/ R!Kill(w)
      PROVE  Fresh(ps)'
  <2>1. UNCHANGED <<now, cache>>
    BY <1>3 DEF R!ReadGone, R!ReadProject, R!ReadBroken, R!Judged, R!Kill, R!Files
  <2>q. QED BY <1>0, <1>3, <2>1, ReadStored, FreshStep
<1>4. CASE DropperBegins
  BY <1>0, <1>4, FreshStep DEF DropperBegins, R!Files, R!RunsTyped
<1>5. CASE R!SweepObjects \/ R!SweepRecords
  <2>1. PICK items : R!Remove({i \in items : R!Unused(i)}) /\ now' = now
    BY <1>5 DEF R!SweepObjects, R!SweepRecords, R!Files
  <2>2. \A i \in R!Items : cache'[i] = cache[i] \/ R!Unused(i)
    BY <1>0, <2>1, RemoveTypes DEF R!FilesTyped
  <2>3. \A i \in R!Items : (~now /\ cache[i] = "fresh") => cache'[i] = "fresh"
    BY <2>2 DEF R!Unused
  <2>4. \A p \in ps : job'[p].stored \in {job[p].stored, {}}
    BY <1>0, <1>5, EndStored DEF R!SweepObjects, R!SweepRecords
  <2>q. QED BY <1>0, <2>1, <2>3, <2>4, FreshStep
<1>q. QED BY <1>1, <1>2, <1>3, <1>4, <1>5 DEF RunSteps

\* Time that passes while nothing runs, or damage of an old file, touches nothing a sync stored.
LEMMA FreshTurns ==
  ASSUME NEW ps, CacheTyped(ps), Fresh(ps), ItemsTurn,
         \/ \A p \in ps : pc[p] = "idle"
         \/ cache["member"] = "old" /\ cache' = [cache EXCEPT !["member"] = "bad"]
  PROVE  Fresh(ps)'
<1>0. R!RunsTyped(ps) /\ R!FilesTyped(ps)
  BY DEF CacheTyped
<1>1. CASE \A p \in ps : pc[p] = "idle"
  <2>1. \A p \in ps : job'[p].stored = {}
    BY <1>0, <1>1 DEF ItemsTurn, R!RunsTyped
  <2>q. QED BY <2>1 DEF Fresh
<1>2. CASE cache["member"] = "old" /\ cache' = [cache EXCEPT !["member"] = "bad"]
  <2>1. now' = now /\ job' = job
    BY <1>2 DEF ItemsTurn, R!Files
  <2>2. \A i \in R!Items : cache[i] = "fresh" => cache'[i] = "fresh"
    BY <1>0, <1>2 DEF R!FilesTyped
  <2>q. QED BY <1>0, <2>1, <2>2, FreshStep
<1>q. QED BY <1>1, <1>2

-----------------------------------------------------------------------------
\* With locks, gc takes nothing from under a sync that found it, and neither gc nor a sync takes
\* from a registered project what placing its data.lock needs.
THEOREM KeptLocked ==
  ASSUME R!RetentionAssumption
  PROVE  IsOf("locked retention") /\ R!Spec => GcKeepsWhatIsNeeded
<1>1. component = "locked retention" /\ R!LockedInv /\ R!LockedInv' /\ [R!Next]_(R!vars)
      => [/\ component = "locked retention" => R!FoundStays' /\ R!KeepsNeeded
          /\ component = "unlocked retention" => RU!FoundStays']_retaining
  BY FreesSpare DEF R!LockedInv
<1>2. component = "locked retention" /\ [UNCHANGED component]_component
      => (component = "locked retention")'
  OBVIOUS
<1>3. IsOf("locked retention") => [](component = "locked retention")
  BY <1>2, PTL DEF IsOf
<1>q. QED BY <1>1, <1>3, RetentionInvariance, PTL DEF GcKeepsWhatIsNeeded, R!Spec

\* Without locks the steps are the same, but that nobody waits for gc.
LEMMA UnlockedSteps ==
  ASSUME R!RetentionAssumption, RU!Next
  PROVE  RunSteps(Sharers \ {Owner}) \/ (ItemsTurn /\ (RU!Age \/ RU!Damage))
<1> DEFINE ps == Sharers \ {Owner}
<1>1. ASSUME NEW p \in ps
      PROVE  /\ RU!Hold(p) => SyncBegins(p)
             /\ RU!Fetch(p) => R!Fetch(p)
             /\ RU!WriteLock(p) => SyncLocks(ps, p)
             /\ RU!Place(p) => R!Place(p)
             /\ RU!Register(p) => R!Register(p)
             /\ RU!Drop(p) => R!Drop(p)
             /\ RU!Reach(p) => R!Reach(p)
  <2>1. RU!Hold(p) => SyncBegins(p)
    BY DEF RU!Hold, SyncBegins, RU!Goto, R!Goto, RU!Files, R!Files
  <2>2. RU!Fetch(p) => R!Fetch(p)
    BY DEF RU!Fetch, R!Fetch, RU!Goto, R!Goto, RU!Files, R!Files, RU!Asks, R!Asks, RU!Good, R!Good,
           RU!Store, R!Store, RU!Items, R!Items
  <2>3. RU!WriteLock(p) => SyncLocks(ps, p)
    BY DEF RU!WriteLock, SyncLocks, RU!Goto, R!Goto, RU!Workers
  <2>4. RU!Place(p) => R!Place(p)
    BY DEF RU!Place, R!Place, RU!Goto, R!Goto, RU!Files, R!Files, RU!Asks, R!Asks, RU!End, R!End,
           RU!NoJob, R!NoJob
  <2>5. RU!Register(p) => R!Register(p)
    BY DEF RU!Register, R!Register, RU!Goto, R!Goto, RU!End, R!End, RU!NoJob, R!NoJob
  <2>6. RU!Drop(p) => R!Drop(p)
    BY DEF RU!Drop, R!Drop, RU!Goto, R!Goto, RU!Files, R!Files
  <2>7. RU!Reach(p) => R!Reach(p)
    BY DEF RU!Reach, R!Reach, RU!Holding, R!Holding
  <2>q. QED BY <2>1, <2>2, <2>3, <2>4, <2>5, <2>6, <2>7
<1>2. ASSUME NEW w \in ps \cup {Dropper}
      PROVE  /\ RU!ReadGone(w) => R!ReadGone(w)
             /\ RU!ReadProject(w) => R!ReadProject(w)
             /\ RU!ReadBroken(w) => R!ReadBroken(w)
             /\ RU!Judged(w) => R!Judged(w)
             /\ RU!Kill(w) => R!Kill(w)
  <2>1. RU!ReadGone(w) => R!ReadGone(w)
    BY DEF RU!ReadGone, R!ReadGone, RU!Judging, R!Judging, RU!Skip, R!Skip
  <2>2. RU!ReadProject(w) => R!ReadProject(w)
    BY DEF RU!ReadProject, R!ReadProject, RU!Judging, R!Judging, RU!Files, R!Files, RU!Needs, R!Needs,
           RU!Asks, R!Asks, RU!Good, R!Good
  <2>3. RU!ReadBroken(w) => R!ReadBroken(w)
    BY DEF RU!ReadBroken, R!ReadBroken, RU!Judging, R!Judging, RU!Files, R!Files, RU!Goto, R!Goto,
           RU!End, R!End, RU!NoJob, R!NoJob
  <2>4. RU!Judged(w) => R!Judged(w)
    BY DEF RU!Judged, R!Judged, RU!Judging, R!Judging, RU!Files, R!Files, RU!Goto, R!Goto,
           RU!Needs, R!Needs, RU!Asks, R!Asks, RU!Good, R!Good
  <2>5. RU!Kill(w) => R!Kill(w)
    BY DEF RU!Kill, R!Kill, RU!Holding, R!Holding, RU!Files, R!Files, RU!Goto, R!Goto,
           RU!End, R!End, RU!NoJob, R!NoJob
  <2>q. QED BY <2>1, <2>2, <2>3, <2>4, <2>5
<1>3. RU!StartGc => DropperBegins
  BY DEF RU!StartGc, DropperBegins, RU!Goto, R!Goto, RU!Files, R!Files
<1>4. RU!SweepObjects => R!SweepObjects
  BY DEF RU!SweepObjects, R!SweepObjects, RU!Goto, R!Goto, RU!Files, R!Files, RU!Remove, R!Remove,
         RU!Unused, R!Unused, RU!Items, R!Items
<1>5. RU!SweepRecords => R!SweepRecords
  BY DEF RU!SweepRecords, R!SweepRecords, RU!Goto, R!Goto, RU!Files, R!Files, RU!Remove, R!Remove,
         RU!Unused, R!Unused, RU!Items, R!Items, RU!End, R!End, RU!NoJob, R!NoJob
<1>6. RU!Age \/ RU!Damage => ItemsTurn
  BY DEF RU!Age, RU!Damage, ItemsTurn, RU!Files, R!Files, RU!Items, R!Items
<1>7. RU!Workers = ps \cup {Dropper}
  BY DEF RU!Workers
<1> HIDE DEF ps
<1>8. RunSteps(ps) \/ (ItemsTurn /\ (RU!Age \/ RU!Damage))
  BY <1>1, <1>2, <1>3, <1>4, <1>5, <1>6, <1>7 DEF RunSteps, RU!Next, ps
<1>q. QED BY <1>8 DEF ps

LEMMA UnlockedNext ==
  ASSUME R!RetentionAssumption, CacheTyped(Sharers \ {Owner}), Fresh(Sharers \ {Owner}), [RU!Next]_(RU!vars)
  PROVE  CacheTyped(Sharers \ {Owner})' /\ Fresh(Sharers \ {Owner})'
<1> DEFINE ps == Sharers \ {Owner}
<1>1. /\ Dropper \notin ps /\ Nobody \notin {"plain", "packed", "tree"}
      /\ \A p \in ps : KindsOf(p) \subseteq {"plain", "packed", "tree"}
  BY DEF R!RetentionAssumption
<1>2. CASE RU!Next
  <2>1. CacheTyped(ps) /\ Fresh(ps) /\ (RunSteps(ps) \/ (ItemsTurn /\ (RU!Age \/ RU!Damage)))
    BY <1>2, UnlockedSteps
  <2>2. RU!Age => \A p \in ps : pc[p] = "idle"
    BY DEF RU!Age, RU!Holding
  <2>3. RU!Damage => cache["member"] = "old" /\ cache' = [cache EXCEPT !["member"] = "bad"]
    BY DEF RU!Damage
  <2> HIDE DEF ps
  <2>4. CacheTyped(ps)'
    BY <1>1, <2>1, StepTypes DEF CacheSteps
  <2>5. CASE RunSteps(ps)
    <3>1. Fresh(ps)'
      BY <1>1, <2>1, <2>5, FreshSteps
    <3>q. QED BY <2>4, <3>1 DEF ps
  <2>6. CASE ItemsTurn /\ (RU!Age \/ RU!Damage)
    <3>1. Fresh(ps)'
      BY <2>1, <2>2, <2>3, <2>6, FreshTurns
    <3>q. QED BY <2>4, <3>1 DEF ps
  <2>q. QED BY <2>1, <2>5, <2>6
<1>3. CASE UNCHANGED RU!vars
  <2>1. UNCHANGED <<now, cache, lock, reach, registered, pc, job>>
    BY <1>3 DEF RU!vars
  <2>2. R!FilesTyped(ps)' /\ R!RunsTyped(ps)'
    <3>1. R!FilesTyped(ps) /\ R!RunsTyped(ps)
      BY DEF CacheTyped
    <3> HIDE DEF ps
    <3>2. R!FilesTyped(ps)'
      BY <2>1, <3>1 DEF R!FilesTyped
    <3>3. R!RunsTyped(ps)'
      BY <2>1, <3>1 DEF R!RunsTyped
    <3>q. QED BY <3>2, <3>3
  <2>3. Fresh(ps)'
    BY <2>1 DEF Fresh
  <2>q. QED BY <2>2, <2>3 DEF CacheTyped
<1>q. QED BY <1>2, <1>3

\* Without locks, what a sync stored itself stays until it has placed it, as it is younger than
\* the grace of gc.
THEOREM KeptUnlocked ==
  ASSUME R!RetentionAssumption
  PROVE  IsOf("unlocked retention") /\ RU!Spec => GcKeepsWhatIsNeeded
<1> DEFINE ps == Sharers \ {Owner}
           Inv == CacheTyped(ps) /\ Fresh(ps)
<1>1. RU!Init => Inv
  <2>1. ASSUME RU!Init PROVE Inv
    <3>1. \A w \in ps \cup {Dropper} : pc[w] = "idle" /\ job[w] = R!NoJob
      BY <2>1 DEF RU!Init, RU!Workers, RU!NoJob, R!NoJob
    <3>2. R!NoJob.stored = {}
      BY DEF R!NoJob
    <3>3. R!RunsTyped(ps)
      BY <2>1, <3>1, <3>2, NoJobIs DEF RU!Init, RU!Workers, R!RunsTyped, R!SyncLabels, R!GcLabels
    <3>4. R!FilesTyped(ps)
      BY <2>1 DEF RU!Init, R!FilesTyped, RU!Items, R!Items, R!Pinned
    <3>q. QED BY <3>1, <3>2, <3>3, <3>4 DEF CacheTyped, Fresh
  <2>q. QED BY <2>1
<1>2. Inv /\ [RU!Next]_(RU!vars) => Inv'
  BY UnlockedNext
<1>3. Inv => RU!FoundStays
  BY DEF Fresh, RU!FoundStays
<1>4. component = "unlocked retention" /\ Inv' /\ [RU!Next]_(RU!vars)
      => [/\ component = "locked retention" => R!FoundStays' /\ R!KeepsNeeded
          /\ component = "unlocked retention" => RU!FoundStays']_retaining
  <2>1. Inv' => RU!FoundStays'
    BY <1>3, PTL
  <2> HIDE DEF Inv
  <2>q. QED BY <2>1 DEF retaining, R!vars, RU!vars
<1>5. component = "unlocked retention" /\ [UNCHANGED component]_component
      => (component = "unlocked retention")'
  OBVIOUS
<1>6. IsOf("unlocked retention") => [](component = "unlocked retention")
  BY <1>5, PTL DEF IsOf
<1>q. QED
  <2> HIDE DEF Inv
  <2>1. RU!Spec => []Inv
    BY <1>1, <1>2, PTL DEF RU!Spec
  <2>q. QED BY <1>4, <1>6, <2>1, PTL DEF GcKeepsWhatIsNeeded, RU!Spec

-----------------------------------------------------------------------------
(***************************************************************************)
(* The commands of a project, for any number of processes and datasets: the *)
(* one that has the hold knows what it read, and that is so unless a person *)
(* changed it.                                                             *)
(***************************************************************************)

\* At the start no command runs, and the project is synced as its data.lock says or is none.
LEMMA CommandsInit == ASSUME K!CommandsAssumption PROVE K!Init => K!IInv
<1> SUFFICES ASSUME K!Init PROVE K!IInv
  OBVIOUS
<1>1. PICK asked \in AtFirst :
        LET pins == [d \in Datasets |-> IF asked[d] = Nobody THEN Nobody
                                        ELSE [ask |-> asked[d], version |-> 1]]
        IN  IF asked = Absent
            THEN /\ toml = Absent /\ lock = Absent /\ files = K!Nothing /\ known = {}
                 /\ record = K!NoRecord
            ELSE /\ toml = asked /\ lock = pins /\ files = pins
                 /\ known = {d \in Datasets : asked[d] # Nobody}
                 /\ record = [toml |-> asked, lock |-> pins, complete |-> TRUE, files |-> pins]
  BY DEF K!Init
<1>2. 1 \in K!Versions /\ upstream = 1
  BY DEF K!Init, K!Versions, K!CommandsAssumption
<1>3. toml \in K!Tomls \cup {Absent} /\ lock \in K!Locks \cup {Absent} /\ K!RecordInv
  <2>1. CASE asked = Absent
    BY <1>1, <2>1 DEF K!RecordInv, K!NoRecord
  <2>2. CASE asked # Absent
    <3> DEFINE pins == [d \in Datasets |-> IF asked[d] = Nobody THEN Nobody
                                           ELSE [ask |-> asked[d], version |-> 1]]
    <3>1. asked \in K!Tomls
      BY <2>2 DEF K!CommandsAssumption
    <3>2. \A d \in Datasets : pins[d] \in K!Pins \cup {Nobody}
      BY <1>2, <3>1 DEF K!Tomls, K!Pins
    <3>3. pins \in K!Locks
      BY <3>2 DEF K!Locks
    <3>4. \A d \in Datasets : IF asked[d] = Nobody THEN pins[d] = Nobody
                              ELSE pins[d] \in K!Pins /\ pins[d].ask = asked[d]
      BY <1>2, <3>1 DEF K!Tomls, K!Pins
    <3>5. toml = asked /\ lock = pins /\ record.toml = asked /\ record.lock = pins /\ record.files = pins
      BY <1>1, <2>2
    <3> HIDE DEF pins
    <3>6. ~K!Stale(asked, pins)
      BY <3>4 DEF K!Stale, K!CommandsAssumption
    <3> QED
      BY <3>1, <3>3, <3>5, <3>6 DEF K!RecordInv
  <2> QED
    BY <2>1, <2>2
<1>4. step = [p \in Sharers |-> "idle"] /\ run = [p \in Sharers |-> K!NoRun] /\ head = [toml |-> toml,
      lock |-> lock]
  BY DEF K!Init
<1>5. K!Types
  BY <1>2, <1>3, <1>4 DEF K!Types, K!Read, K!Steps
<1>6. K!HoldInv /\ \A p \in Sharers : K!Sound(p)
  BY <1>4 DEF K!HoldInv, K!Sound, K!Holding
<1> QED
  BY <1>3, <1>5, <1>6 DEF K!IInv

-----------------------------------------------------------------------------
\* One process acts: the hold keeps others from the project while it changes.
LEMMA OneActs ==
  ASSUME K!IInv, NEW p \in Sharers,
         NEW s \in K!Steps,
         NEW r \in K!Knowing \cup K!Looking \cup {K!NoRun},
         step' = [step EXCEPT ![p] = s], run' = [run EXCEPT ![p] = r],
         toml' \in K!Tomls \cup {Absent}, lock' \in K!Locks \cup {Absent},
         UNCHANGED K!world, K!RecordInv',
         \/ K!Holding(p)
         \/ /\ UNCHANGED <<toml, lock, files, record>>
            /\ s \notin {"idle", "look", "wait"} => K!HoldFree,
         \A q \in Sharers \ {p} : q \in disturbed => q \in disturbed',
         s = "idle" => r = K!NoRun,
         s \in {"look", "wait"} => r \in K!Looking,
         s \notin {"idle", "look", "wait"} =>
            /\ r \in K!Knowing /\ K!Follows(s, r)
            /\ p \notin disturbed' => K!Current(s, r)'
  PROVE  K!IInv'
<1>1. step \in [Sharers -> K!Steps]
      /\ run \in [Sharers -> K!Knowing \cup K!Looking \cup {K!NoRun}]
  BY DEF K!IInv, K!Types
<1>2. step'[p] = s /\ run'[p] = r /\ \A q \in Sharers \ {p} : step'[q] = step[q] /\ run'[q] = run[q]
  BY <1>1
<1>3. K!Types'
  BY <1>1 DEF K!IInv, K!Types, K!world
<1>4. \A q \in Sharers \ {p} : K!Holding(q)' <=> K!Holding(q)
  BY <1>2 DEF K!Holding
<1>5. K!Holding(p)' => K!Holding(p) \/ K!HoldFree
  BY <1>2 DEF K!Holding
<1>6. K!HoldInv'
  <2> SUFFICES ASSUME NEW a \in Sharers, NEW b \in Sharers, K!Holding(a)', K!Holding(b)'
               PROVE  a = b
    BY DEF K!HoldInv
  <2>1. \A q \in Sharers \ {p} : K!Holding(q) => ~K!Holding(p) /\ ~K!HoldFree
    BY DEF K!IInv, K!HoldInv, K!HoldFree
  <2>2. CASE a = p
    BY <1>4, <1>5, <2>1, <2>2
  <2>3. CASE b = p
    BY <1>4, <1>5, <2>1, <2>3
  <2>4. CASE a # p /\ b # p
    BY <1>4, <2>4 DEF K!IInv, K!HoldInv
  <2> QED
    BY <2>2, <2>3, <2>4
<1>7. K!Sound(p)'
  <2>1. K!Holding(p)' <=> s \notin {"idle", "look", "wait"}
    BY <1>2 DEF K!Holding
  <2>2. K!Follows(s, r) <=> K!Follows(step[p], run[p])'
    BY <1>2 DEF K!Follows
  <2>3. K!Current(s, r)' <=> K!Current(step[p], run[p])'
    BY <1>2 DEF K!Current
  <2> QED
    BY <1>2, <2>1, <2>2, <2>3 DEF K!Sound
<1>8. ASSUME NEW q \in Sharers \ {p} PROVE K!Sound(q)'
  <2>1. K!Sound(q) /\ step'[q] = step[q] /\ run'[q] = run[q] /\ (K!Holding(q)' <=> K!Holding(q))
    BY <1>2, <1>4 DEF K!IInv
  <2>2. K!Holding(q) => UNCHANGED <<toml, lock, files, record>>
    BY DEF K!IInv, K!HoldInv
  <2>3. K!Follows(step[q], run[q])' <=> K!Follows(step[q], run[q])
    BY <2>1 DEF K!Follows
  <2>4. K!Holding(q) => (K!Current(step[q], run[q])' <=> K!Current(step[q], run[q]))
    BY <2>1, <2>2 DEF K!Current, K!InPlace
  <2> QED
    BY <2>1, <2>3, <2>4 DEF K!Sound
<1> QED
  BY <1>3, <1>6, <1>7, <1>8 DEF K!IInv

\* What is known of a command that has the hold.
LEMMA HolderKnows ==
  ASSUME K!IInv, NEW p \in Sharers, K!Holding(p)
  PROVE  /\ run[p] \in K!Knowing /\ K!Follows(step[p], run[p])
         /\ p \notin disturbed => K!Current(step[p], run[p])
         /\ run[p].before \in K!Read /\ run[p].read \in K!Read
         /\ run[p].before.toml \in K!Tomls \cup {Absent} /\ run[p].before.lock \in K!Locks \cup {Absent}
         /\ run[p].read.toml \in K!Tomls \cup {Absent} /\ run[p].read.lock \in K!Locks \cup {Absent}
<1>1. /\ run[p] \in K!Knowing /\ K!Follows(step[p], run[p])
      /\ p \notin disturbed => K!Current(step[p], run[p])
  BY DEF K!IInv, K!Sound
<1>2. run[p].before \in K!Read /\ run[p].read \in K!Read
  BY <1>1 DEF K!Knowing
<1> QED
  BY <1>1, <1>2 DEF K!Read

\* A command ends.
LEMMA CommandEnds ==
  ASSUME K!IInv, NEW p \in Sharers, NEW how, K!Ends(p, how),
         toml' \in K!Tomls \cup {Absent}, lock' \in K!Locks \cup {Absent},
         UNCHANGED K!world, K!RecordInv',
         K!Holding(p) \/ UNCHANGED <<toml, lock, files, record>>
  PROVE  K!IInv'
<1>1. /\ step' = [step EXCEPT ![p] = "idle"] /\ run' = [run EXCEPT ![p] = K!NoRun]
      /\ disturbed' = disturbed \ {p}
  BY DEF K!Ends, K!Knows
<1> QED
  BY <1>1, OneActs DEF K!Steps

\* A command that has the hold, or just got it, goes on.
LEMMA CommandGoes ==
  ASSUME K!IInv, NEW p \in Sharers,
         NEW s \in K!Reading \cup K!Writing,
         NEW r \in K!Knowing, step' = [step EXCEPT ![p] = s], run' = [run EXCEPT ![p] = r],
         UNCHANGED disturbed \/ disturbed' = disturbed \ {p},
         toml' \in K!Tomls \cup {Absent}, lock' \in K!Locks \cup {Absent},
         UNCHANGED K!world, K!RecordInv',
         K!Holding(p) \/ (UNCHANGED <<toml, lock, files, record>> /\ K!HoldFree),
         K!Follows(s, r), p \notin disturbed' => K!Current(s, r)'
  PROVE  K!IInv'
<1>1. s \notin {"idle", "look", "wait"}
  BY DEF K!Reading, K!Writing
<1> QED
  BY <1>1, OneActs DEF K!Steps

\* What the state says is synced stays so while the state does.
LEMMA SyncedStays == ASSUME K!RecordInv, UNCHANGED record PROVE K!RecordInv'
  BY DEF K!RecordInv, K!Stale

\* A step that leaves the project alone.
LEMMA ProjectStays ==
  ASSUME K!IInv, UNCHANGED <<K!project, K!world>>
  PROVE  /\ toml' \in K!Tomls \cup {Absent} /\ lock' \in K!Locks \cup {Absent} /\ K!RecordInv'
         /\ UNCHANGED <<toml, lock, files, record, K!world>>
  BY SyncedStays DEF K!IInv, K!Types, K!project

-----------------------------------------------------------------------------
\* A failed command that has the hold ends, or starts to put back what it wrote.
LEMMA CommandFalls ==
  ASSUME K!IInv, NEW p \in Sharers, K!Holding(p), K!Fallen(p),
         toml' \in K!Tomls \cup {Absent}, lock' \in K!Locks \cup {Absent},
         UNCHANGED K!world, K!RecordInv'
  PROVE  K!IInv'
<1>1. CASE run[p].cmd = "add" /\ step[p] \notin {"resolve", "toml", "render"}
  <2>0. PICK r : r = run[p]
    OBVIOUS
  <2>1. step' = [step EXCEPT ![p] = "restore toml"] /\ UNCHANGED disturbed /\ UNCHANGED run
    BY <1>1 DEF K!Fallen, K!Goes
  <2>2. r \in K!Knowing /\ K!Follows(step[p], r)
    BY <2>0, HolderKnows
  <2>3. run' = [run EXCEPT ![p] = r]
    BY <2>0, <2>1 DEF K!IInv, K!Types
  <2>4. K!Follows("restore toml", r)
    BY <1>1, <2>0, <2>2 DEF K!Follows
  <2>5. K!Current("restore toml", r)'
    BY DEF K!Current, K!Reading
  <2> QED
    BY <2>1, <2>2, <2>3, <2>4, <2>5, CommandGoes DEF K!Writing
<1>2. CASE ~(run[p].cmd = "add" /\ step[p] \notin {"resolve", "toml", "render"})
  BY <1>2, CommandEnds DEF K!Fallen
<1> QED
  BY <1>1, <1>2

\* What a command knows as it begins.
LEMMA CommandBegins ==
  ASSUME K!IInv, NEW r, r.cmd \in {"add", "remove", "sync", "locked", "lock", "path"},
         r.upgrade \in SUBSET Datasets, r.name \in Datasets \cup {Nobody}
  PROVE  /\ K!Begun(r) \in K!Knowing
         /\ K!Begun(r).cmd = r.cmd /\ K!Begun(r).upgrade = r.upgrade /\ K!Begun(r).name = r.name
         /\ K!Begun(r).ask = Nobody
         /\ K!Begun(r).before = K!Begun(r).read
         /\ K!Begun(r).read.toml = toml /\ K!Begun(r).read.lock = lock
<1>1. [toml |-> toml, lock |-> lock] \in K!Read
  BY DEF K!IInv, K!Types, K!Read
<1>2. /\ K!Begun(r).cmd = r.cmd /\ K!Begun(r).upgrade = r.upgrade /\ K!Begun(r).name = r.name
      /\ K!Begun(r).ask = Nobody
      /\ K!Begun(r).before = K!Begun(r).read
      /\ K!Begun(r).read.toml = toml /\ K!Begun(r).read.lock = lock
  BY DEF K!Begun
<1>3. ASSUME NEW cmd \in {"add", "again", "remove", "sync", "locked", "lock", "path"},
             NEW upgrade \in SUBSET Datasets, NEW name \in Datasets \cup {Nobody}, NEW read \in K!Read
      PROVE  [cmd |-> cmd, upgrade |-> upgrade, name |-> name, ask |-> Nobody, listing |-> Nobody,
              pins |-> Nobody, before |-> read, read |-> read] \in K!Knowing
  BY DEF K!Knowing
<1>4. K!Begun(r) \in K!Knowing
  BY <1>1, <1>3 DEF K!Begun
<1> QED
  BY <1>2, <1>4

\* A command takes the hold and reads the project.
LEMMA CommandStarts == ASSUME K!CommandsAssumption, K!IInv, NEW p \in Sharers, K!Start(p) PROVE K!IInv'
<1>1. /\ step[p] = "idle" /\ K!HoldFree /\ UNCHANGED <<K!project, K!world>>
  BY DEF K!Start
<1>2. PICK a \in K!Runs : ~K!Refused(a) /\ K!Knows(p, K!Begun(a)) /\ K!Goes(p, K!First(a.cmd))
  BY DEF K!Start
<1>a. PICK s, r : s = K!First(a.cmd) /\ r = K!Begun(a)
  OBVIOUS
<1>3. /\ a.cmd \in {"add", "remove", "sync", "locked", "lock"}
      /\ a.upgrade \in SUBSET Datasets /\ a.name \in Datasets \cup {Nobody}
      /\ a.cmd = "remove" => a.name \in Datasets
      /\ a.cmd = "locked" => a.upgrade = {}
  BY <1>2 DEF K!Runs
<1>4. /\ r \in K!Knowing /\ r.cmd = a.cmd /\ r.upgrade = a.upgrade /\ r.name = a.name /\ r.ask = Nobody
      /\ r.before = r.read /\ r.read.toml = toml /\ r.read.lock = lock
  BY <1>3, <1>a, CommandBegins
<1>5. /\ s \in {"resolve", "toml", "settle", "relock"}
      /\ (s = "resolve" <=> a.cmd = "add") /\ (s = "toml" <=> a.cmd = "remove")
  BY <1>3, <1>a DEF K!First
<1>6. /\ a.cmd # "add" => toml # Absent
      /\ a.cmd = "locked" => lock # Absent /\ ~K!Stale(K!Listed(toml), K!Locked(lock))
  BY <1>2 DEF K!Refused
<1>7. step' = [step EXCEPT ![p] = s] /\ run' = [run EXCEPT ![p] = r] /\ UNCHANGED disturbed
  BY <1>2, <1>a DEF K!Goes, K!Knows
<1>8. K!Follows(s, r)
  BY <1>3, <1>4, <1>5, <1>6 DEF K!Follows
<1>9. K!Current(s, r)'
  BY <1>1, <1>4, <1>5 DEF K!Current, K!project
<1> QED
  BY <1>1, <1>4, <1>5, <1>7, <1>8, <1>9, ProjectStays, CommandGoes DEF K!Reading

\* A job of a cluster asks for a path.
LEMMA PathStarts == ASSUME K!IInv, NEW p \in Sharers, K!Path(p) PROVE K!IInv'
<1>1. PICK d \in Datasets : K!Knows(p, [cmd |-> "path", upgrade |-> {}, name |-> d])
  BY DEF K!Path
<1>a. PICK r : r = [cmd |-> "path", upgrade |-> {}, name |-> d]
  OBVIOUS
<1>2. r \in K!Looking
  BY <1>a DEF K!Looking
<1>3. /\ step' = [step EXCEPT ![p] = "look"] /\ run' = [run EXCEPT ![p] = r] /\ UNCHANGED disturbed
      /\ UNCHANGED <<K!project, K!world>>
  BY <1>1, <1>a DEF K!Path, K!Goes, K!Knows
<1> QED
  BY <1>2, <1>3, ProjectStays, OneActs DEF K!Steps

\* path ends without the hold, or waits for it.
LEMMA PathLooks == ASSUME K!IInv, NEW p \in Sharers, K!LookFirst(p) PROVE K!IInv'
<1>1. step[p] = "look" /\ UNCHANGED <<K!project, K!world>>
  BY DEF K!LookFirst
<1>2. ASSUME NEW how, K!Ends(p, how) PROVE K!IInv'
  BY <1>1, <1>2, ProjectStays, CommandEnds
<1>3. CASE K!Goes(p, "wait") /\ UNCHANGED run
  <2>a. PICK r : r = run[p]
    OBVIOUS
  <2>1. r \in K!Looking
    BY <1>1, <2>a DEF K!IInv, K!Sound
  <2>2. /\ step' = [step EXCEPT ![p] = "wait"] /\ run' = [run EXCEPT ![p] = r] /\ UNCHANGED disturbed
    BY <1>3, <2>a DEF K!Goes, K!IInv, K!Types
  <2> QED
    BY <1>1, <2>1, <2>2, ProjectStays, OneActs DEF K!Steps
<1> QED
  BY <1>2, <1>3 DEF K!LookFirst

\* path takes the hold and reads the project.
LEMMA PathWaits == ASSUME K!CommandsAssumption, K!IInv, NEW p \in Sharers, K!Wait(p) PROVE K!IInv'
<1>1. step[p] = "wait" /\ K!HoldFree /\ UNCHANGED <<K!project, K!world>>
  BY DEF K!Wait
<1>2. CASE K!Ends(p, "failed")
  BY <1>1, <1>2, ProjectStays, CommandEnds
<1>3. CASE /\ ~K!Refused(run[p]) /\ K!Knows(p, K!Begun(run[p])) /\ step' = [step EXCEPT ![p] = "ready"]
           /\ disturbed' = disturbed \ {p}
  <2>a. PICK r : r = K!Begun(run[p])
    OBVIOUS
  <2>1. run[p] \in K!Looking
    BY <1>1 DEF K!IInv, K!Sound
  <2>2. run[p].cmd = "path" /\ run[p].upgrade = {} /\ run[p].name \in Datasets
    BY <2>1 DEF K!Looking
  <2>3. /\ r \in K!Knowing /\ r.cmd = "path" /\ r.upgrade = {} /\ r.before = r.read
        /\ r.read.toml = toml /\ r.read.lock = lock
    BY <2>2, <2>a, CommandBegins
  <2>4. toml # Absent
    BY <1>3, <2>2 DEF K!Refused
  <2>5. run' = [run EXCEPT ![p] = r]
    BY <1>3, <2>a DEF K!Knows
  <2>6. K!Follows("ready", r) /\ K!Current("ready", r)'
    BY <1>1, <2>3, <2>4 DEF K!Follows, K!Current, K!project
  <2> QED
    BY <1>1, <1>3, <2>3, <2>5, <2>6, ProjectStays, CommandGoes DEF K!Reading
<1> QED
  BY <1>2, <1>3 DEF K!Wait

\* A command goes on to a step that follows from what it knows.
LEMMA CommandGoesOn ==
  ASSUME K!IInv, NEW p \in Sharers, K!Holding(p), UNCHANGED run, UNCHANGED <<K!project, K!world>>,
         NEW s \in K!Reading, K!Goes(p, s), step[p] \in K!Reading, K!Follows(s, run[p])
  PROVE  K!IInv'
<1>a. PICK r : r = run[p]
  OBVIOUS
<1>1. /\ r \in K!Knowing
      /\ p \notin disturbed => K!Current(step[p], r)
  BY <1>a, HolderKnows
<1>2. /\ step' = [step EXCEPT ![p] = s] /\ run' = [run EXCEPT ![p] = r] /\ UNCHANGED disturbed
  BY <1>a DEF K!Goes, K!IInv, K!Types
<1>3. p \notin disturbed' => K!Current(s, r)'
  BY <1>1, <1>2 DEF K!Current, K!project, K!Reading
<1>4. K!Follows(s, r)
  BY <1>a
<1> QED
  BY <1>1, <1>2, <1>3, <1>4, ProjectStays, CommandGoes

\* path ends, or syncs the dataset it was asked for.
LEMMA PathLooksAgain == ASSUME K!IInv, NEW p \in Sharers, K!LookAgain(p) PROVE K!IInv'
<1>1. step[p] = "ready" /\ K!Holding(p) /\ UNCHANGED <<K!project, K!world>>
  BY DEF K!LookAgain, K!Holding
<1>2. ASSUME NEW how, K!Ends(p, how) PROVE K!IInv'
  BY <1>1, <1>2, ProjectStays, CommandEnds
<1>3. CASE K!Goes(p, "relock") /\ UNCHANGED run
  <2>1. K!Follows(step[p], run[p])
    BY <1>1, HolderKnows
  <2>2. K!Follows("relock", run[p])
    BY <1>1, <2>1 DEF K!Follows
  <2> QED
    BY <1>1, <1>3, <2>2, CommandGoesOn DEF K!Reading
<1> QED
  BY <1>2, <1>3 DEF K!LookAgain

\* A sync ends with nothing to do, or relocks.
LEMMA CommandSettles == ASSUME K!IInv, NEW p \in Sharers, K!Settle(p) PROVE K!IInv'
<1>1. step[p] = "settle" /\ K!Holding(p) /\ UNCHANGED <<K!project, K!world>>
  BY DEF K!Settle, K!Holding
<1>2. ASSUME NEW how, K!Ends(p, how) PROVE K!IInv'
  BY <1>1, <1>2, ProjectStays, CommandEnds
<1>3. CASE K!Goes(p, "relock") /\ UNCHANGED run
  <2>1. K!Follows(step[p], run[p])
    BY <1>1, HolderKnows
  <2>2. K!Follows("relock", run[p])
    BY <1>1, <2>1 DEF K!Follows
  <2> QED
    BY <1>1, <1>3, <2>2, CommandGoesOn DEF K!Reading
<1> QED
  BY <1>2, <1>3 DEF K!Settle

\* The parts of what a command knows.
LEMMA RunParts ==
  ASSUME NEW r \in K!Knowing
  PROVE  /\ r.cmd \in {"add", "again", "remove", "sync", "locked", "lock", "path"}
         /\ r.upgrade \in SUBSET Datasets /\ r.name \in Datasets \cup {Nobody}
         /\ r.ask \in (UNION {Asked[d] : d \in Datasets}) \cup {Nobody}
         /\ r.listing \in K!Versions \cup {Nobody} /\ r.pins \in K!Locks \cup {Nobody}
         /\ r.before \in K!Read /\ r.read \in K!Read
         /\ r.before.toml \in K!Tomls \cup {Absent} /\ r.before.lock \in K!Locks \cup {Absent}
         /\ r.read.toml \in K!Tomls \cup {Absent} /\ r.read.lock \in K!Locks \cup {Absent}
<1>1. r.before \in K!Read /\ r.read \in K!Read
  BY DEF K!Knowing
<1> QED
  BY <1>1 DEF K!Knowing, K!Read

\* What an add knows once the link is resolved.
LEMMA LinkResolved ==
  ASSUME K!IInv, NEW r \in K!Knowing, NEW d \in Datasets \cup {Nobody},
         NEW a \in (UNION {Asked[e] : e \in Datasets}) \cup {Nobody}
  PROVE  LET n == K!Resolved(r, d, a)
         IN  /\ n \in K!Knowing /\ n.cmd = r.cmd /\ n.upgrade = r.upgrade /\ n.pins = r.pins
             /\ n.name = d /\ n.ask = a /\ n.listing = upstream
             /\ n.read.toml = r.read.toml /\ n.before.toml = r.before.toml
             /\ n.read.lock = lock /\ n.before.lock = lock
<1> DEFINE n == K!Resolved(r, d, a)
<1>1. lock \in K!Locks \cup {Absent} /\ upstream \in K!Versions
  BY DEF K!IInv, K!Types
<1>2. /\ n = [r EXCEPT !.name = d, !.ask = a, !.listing = upstream,
                       !.read = [r.read EXCEPT !.lock = lock],
                       !.before = [r.before EXCEPT !.lock = lock]]
  BY DEF K!Resolved, K!Knowing
<1>3. [r.read EXCEPT !.lock = lock] \in K!Read /\ [r.before EXCEPT !.lock = lock] \in K!Read
  BY <1>1, RunParts DEF K!Read
<1>4. /\ n.cmd = r.cmd /\ n.upgrade = r.upgrade /\ n.pins = r.pins
      /\ n.name = d /\ n.ask = a /\ n.listing = upstream
      /\ n.read = [r.read EXCEPT !.lock = lock] /\ n.before = [r.before EXCEPT !.lock = lock]
  BY <1>2 DEF K!Knowing
<1>5. /\ n.read.toml = r.read.toml /\ n.before.toml = r.before.toml
      /\ n.read.lock = lock /\ n.before.lock = lock
  BY <1>4, RunParts DEF K!Read
<1>6. n \in K!Knowing
  BY <1>1, <1>2, <1>3 DEF K!Knowing
<1> QED
  BY <1>4, <1>5, <1>6

\* An add of a new link knows the lock that is there, and the data.toml it read.
LEMMA AddResolves == ASSUME K!CommandsAssumption, K!IInv, NEW p \in Sharers, K!Resolve(p) PROVE K!IInv'
<1>1. step[p] = "resolve" /\ K!Holding(p) /\ UNCHANGED <<K!project, K!world>>
  BY DEF K!Resolve, K!Holding
<1>2. PICK d \in Datasets : \E a \in Asked[d] :
         /\ K!Listed(run[p].read.toml)[d] = Nobody
         /\ K!Knows(p, K!Resolved(run[p], d, a)) /\ K!Goes(p, "toml")
  BY DEF K!Resolve
<1>3. PICK a \in Asked[d] :
         /\ K!Listed(run[p].read.toml)[d] = Nobody
         /\ K!Knows(p, K!Resolved(run[p], d, a)) /\ K!Goes(p, "toml")
  BY <1>2
<1>4. /\ run[p] \in K!Knowing /\ K!Follows("resolve", run[p])
      /\ p \notin disturbed => K!Current("resolve", run[p])
  BY <1>1, HolderKnows
<1>5. PICK r : r = K!Resolved(run[p], d, a)
  OBVIOUS
<1>6. /\ r \in K!Knowing /\ r.cmd = run[p].cmd
      /\ r.name = d /\ r.ask = a /\ r.listing = upstream
      /\ r.read.toml = run[p].read.toml /\ r.before.toml = run[p].before.toml
      /\ r.read.lock = lock /\ r.before.lock = lock
  BY <1>4, <1>5, LinkResolved
<1>7. K!Follows("toml", r)
  <2>1. run[p].cmd = "add" /\ run[p].before.toml = run[p].read.toml /\ upstream \in K!Versions
    BY <1>4 DEF K!Follows, K!IInv, K!Types
  <2> QED
    BY <1>3, <1>6, <2>1 DEF K!Follows
<1>8. /\ step' = [step EXCEPT ![p] = "toml"] /\ run' = [run EXCEPT ![p] = r] /\ UNCHANGED disturbed
  BY <1>3, <1>5 DEF K!Goes, K!Knows
<1>9. p \notin disturbed' => K!Current("toml", r)'
  BY <1>1, <1>4, <1>6, <1>8 DEF K!Current, K!project, K!Reading
<1> QED
  BY <1>1, <1>6, <1>7, <1>8, <1>9, ProjectStays, CommandGoes DEF K!Reading

\* An add of a link that data.toml has goes on as a sync.
LEMMA AddAgain == ASSUME K!CommandsAssumption, K!IInv, NEW p \in Sharers, K!Again(p) PROVE K!IInv'
<1>1. step[p] = "resolve" /\ K!Holding(p) /\ UNCHANGED <<K!project, K!world>>
  BY DEF K!Again, K!Holding
<1>2. ASSUME NEW how, K!Ends(p, how) PROVE K!IInv'
  BY <1>1, <1>2, ProjectStays, CommandEnds
<1>3. ASSUME NEW d \in Datasets, NEW a \in Asked[d], K!Listed(run[p].read.toml)[d] = a,
             K!Knows(p, [K!Resolved(run[p], Nobody, Nobody) EXCEPT !.cmd = "again"]), K!Goes(p, "relock")
      PROVE  K!IInv'
  <2>1. /\ run[p] \in K!Knowing /\ K!Follows("resolve", run[p])
        /\ p \notin disturbed => K!Current("resolve", run[p])
    BY <1>1, HolderKnows
  <2>2. PICK n : n = K!Resolved(run[p], Nobody, Nobody)
    OBVIOUS
  <2>3. /\ n \in K!Knowing /\ n.cmd = run[p].cmd
        /\ n.read.toml = run[p].read.toml /\ n.before.toml = run[p].before.toml
        /\ n.read.lock = lock /\ n.before.lock = lock
    <3>1. Nobody \in Datasets \cup {Nobody}
          /\ Nobody \in (UNION {Asked[e] : e \in Datasets}) \cup {Nobody}
      OBVIOUS
    <3>2. /\ K!Resolved(run[p], Nobody, Nobody) \in K!Knowing
          /\ K!Resolved(run[p], Nobody, Nobody).cmd = run[p].cmd
          /\ K!Resolved(run[p], Nobody, Nobody).read.toml = run[p].read.toml
          /\ K!Resolved(run[p], Nobody, Nobody).before.toml = run[p].before.toml
          /\ K!Resolved(run[p], Nobody, Nobody).read.lock = lock
          /\ K!Resolved(run[p], Nobody, Nobody).before.lock = lock
      BY <2>1, <3>1, LinkResolved
    <3> QED
      BY <2>2, <3>2
  <2>4. PICK r : r = [n EXCEPT !.cmd = "again"]
    OBVIOUS
  <2>5. r \in K!Knowing /\ r.cmd = "again" /\ r.read = n.read /\ r.before = n.before
    BY <2>3, <2>4 DEF K!Knowing
  <2>6. run[p].read.toml # Absent
    BY <1>3 DEF K!Listed, K!Nothing, K!CommandsAssumption
  <2>7. K!Follows("relock", r)
    <3>1. run[p].before.toml = run[p].read.toml
      BY <2>1 DEF K!Follows
    <3> QED
      BY <2>3, <2>5, <2>6, <3>1 DEF K!Follows
  <2>8. /\ step' = [step EXCEPT ![p] = "relock"] /\ run' = [run EXCEPT ![p] = r] /\ UNCHANGED disturbed
    BY <1>3, <2>2, <2>4 DEF K!Goes, K!Knows
  <2>9. p \notin disturbed' => K!Current("relock", r)'
    BY <1>1, <2>1, <2>3, <2>5, <2>8 DEF K!Current, K!project, K!Reading
  <2> QED
    BY <1>1, <2>5, <2>7, <2>8, <2>9, ProjectStays, CommandGoes DEF K!Reading
<1> QED
  BY <1>2, <1>3 DEF K!Again

\* data.toml as a command writes it, and data.lock as remove does.
LEMMA TextsWritten ==
  ASSUME K!CommandsAssumption, NEW r \in K!Knowing
  PROVE  /\ r.name \in Datasets /\ r.ask \in Asked[r.name] \cup {Nobody} => K!Updated(r) \in K!Tomls
         /\ K!Without(r) \in K!Locks
<1>1. K!Nothing \in K!Tomls /\ K!Nothing \in K!Locks
  BY DEF K!Nothing, K!Tomls, K!Locks
<1>2. K!Listed(r.before.toml) \in K!Tomls /\ K!Locked(r.before.lock) \in K!Locks
  BY <1>1, RunParts DEF K!Listed, K!Locked
<1>3. ASSUME NEW f \in K!Tomls, NEW d \in Datasets, NEW a \in Asked[d] \cup {Nobody}
      PROVE  [f EXCEPT ![d] = a] \in K!Tomls
  BY DEF K!Tomls
<1>4. ASSUME NEW f \in K!Locks, NEW d PROVE [f EXCEPT ![d] = Nobody] \in K!Locks
  BY DEF K!Locks
<1> QED
  BY <1>2, <1>3, <1>4 DEF K!Updated, K!Without

\* data.toml is what the command that wrote it takes it for.
LEMMA TomlWritten == ASSUME K!CommandsAssumption, K!IInv, NEW p \in Sharers, K!WriteToml(p) PROVE K!IInv'
<1>1. step[p] = "toml" /\ K!Holding(p)
  BY DEF K!WriteToml, K!Holding
<1>2. CASE K!Refuses(p)
  BY <1>1, <1>2, ProjectStays, CommandFalls DEF K!Refuses
<1>3. CASE /\ toml' = K!Updated(run[p])
           /\ K!Knows(p, [run[p] EXCEPT !.read.toml = K!Updated(run[p])])
           /\ K!Goes(p, IF run[p].cmd = "remove" THEN "drop" ELSE "relock")
           /\ UNCHANGED <<lock, files, known, record, K!world>>
  <2>1. PICK s, r : /\ s = IF run[p].cmd = "remove" THEN "drop" ELSE "relock"
                    /\ r = [run[p] EXCEPT !.read = [run[p].read EXCEPT !.toml = K!Updated(run[p])]]
    OBVIOUS
  <2>2. /\ run[p] \in K!Knowing /\ K!Follows("toml", run[p])
        /\ p \notin disturbed => K!Current("toml", run[p])
    BY <1>1, HolderKnows
  <2>3. /\ run[p].cmd \in {"add", "remove"} /\ run[p].name \in Datasets
        /\ run[p].ask \in Asked[run[p].name] \cup {Nobody}
    BY <2>2 DEF K!Follows
  <2>4. K!Updated(run[p]) \in K!Tomls /\ K!Updated(run[p]) # Absent
    BY <2>2, <2>3, TextsWritten DEF K!CommandsAssumption
  <2>5. [run[p].read EXCEPT !.toml = K!Updated(run[p])] \in K!Read
    BY <2>2, <2>4, RunParts DEF K!Read
  <2>6. /\ r \in K!Knowing /\ r.cmd = run[p].cmd /\ r.upgrade = run[p].upgrade /\ r.name = run[p].name
        /\ r.listing = run[p].listing /\ r.before = run[p].before
        /\ r.read = [run[p].read EXCEPT !.toml = K!Updated(run[p])]
    BY <2>1, <2>2, <2>5 DEF K!Knowing
  <2>7. r.read.toml = K!Updated(run[p]) /\ r.read.lock = run[p].read.lock
    BY <2>2, <2>6, RunParts DEF K!Read
  <2>8. K!Follows(s, r)
    BY <2>1, <2>2, <2>3, <2>4, <2>6, <2>7 DEF K!Follows
  <2>9. run' = [run EXCEPT ![p] = r] /\ step' = [step EXCEPT ![p] = s] /\ UNCHANGED disturbed
    BY <1>3, <2>1, <2>2 DEF K!Knows, K!Goes, K!Knowing
  <2>10. p \notin disturbed' => K!Current(s, r)'
    BY <1>3, <2>1, <2>2, <2>7, <2>9 DEF K!Current, K!Reading
  <2>11. toml' \in K!Tomls \cup {Absent} /\ lock' \in K!Locks \cup {Absent} /\ UNCHANGED K!world
         /\ K!RecordInv'
    BY <1>3, <2>4, SyncedStays DEF K!IInv, K!Types
  <2>12. s \in K!Reading \cup {"drop"}
    BY <2>1 DEF K!Reading
  <2> QED
    BY <1>1, <2>6, <2>8, <2>9, <2>10, <2>11, <2>12, CommandGoes DEF K!Writing
<1> QED
  BY <1>2, <1>3 DEF K!WriteToml

\* remove writes the lock without the dataset.
LEMMA LockDropped == ASSUME K!CommandsAssumption, K!IInv, NEW p \in Sharers, K!DropLocked(p) PROVE K!IInv'
<1>1. /\ step[p] = "drop" /\ K!Holding(p) /\ lock' = K!Without(run[p]) /\ K!Goes(p, "clear")
      /\ UNCHANGED <<toml, record, run, K!world>>
  BY DEF K!DropLocked, K!Holding
<1>2. PICK r : r = run[p]
  OBVIOUS
<1>3. r \in K!Knowing /\ K!Follows("drop", r)
  BY <1>1, <1>2, HolderKnows
<1>4. K!Follows("clear", r) /\ K!Current("clear", r)'
  BY <1>3 DEF K!Follows, K!Current, K!Reading
<1>5. /\ step' = [step EXCEPT ![p] = "clear"] /\ run' = [run EXCEPT ![p] = r] /\ UNCHANGED disturbed
  BY <1>1, <1>2 DEF K!Goes, K!IInv, K!Types
<1>6. toml' \in K!Tomls \cup {Absent} /\ lock' \in K!Locks \cup {Absent} /\ K!RecordInv'
  BY <1>1, <1>2, <1>3, TextsWritten, SyncedStays DEF K!IInv, K!Types
<1> QED
  BY <1>1, <1>3, <1>4, <1>5, <1>6, CommandGoes DEF K!Writing

\* A removal leaves nothing recorded as synced.
LEMMA FilesRemoved == ASSUME K!IInv, NEW p \in Sharers, K!RemoveOnly(p) PROVE K!IInv'
<1>1. /\ K!Ends(p, "done") /\ K!Holding(p) /\ UNCHANGED <<toml, lock, K!world>> /\ record' = K!NoRecord
  BY DEF K!RemoveOnly, K!Unsynced, K!Holding
<1>2. K!RecordInv'
  BY <1>1 DEF K!RecordInv, K!NoRecord
<1>3. toml' \in K!Tomls \cup {Absent} /\ lock' \in K!Locks \cup {Absent}
  BY <1>1 DEF K!IInv, K!Types
<1> QED
  BY <1>1, <1>2, <1>3, CommandEnds

\* relock pins what is asked for, and moves nothing nobody asked for.
LEMMA Repinning ==
  ASSUME K!CommandsAssumption, K!IInv, NEW r \in K!Knowing, K!Follows("relock", r),
         NEW pins \in K!Relocked(r, K!Listed(r.read.toml), K!Locked(r.read.lock)),
         NEW n, n.pins = pins, n.read = r.read, n.before = r.before, n.upgrade = r.upgrade
  PROVE  pins \in K!Locks /\ K!Repins(n)
<1> DEFINE asked == K!Listed(r.read.toml)
           before == K!Locked(r.read.lock)
           version(d) ==
             IF asked[d] = Nobody THEN {Nobody}
             ELSE IF K!Keeps(asked[d], before[d], d \in r.upgrade) THEN {before[d].version}
             ELSE IF r.cmd = "add" /\ d = r.name THEN K!Given(r, before[d])
             ELSE {K!Pinned(asked[d], before[d], d \in r.upgrade)}
<1>1. PICK f \in [Datasets -> K!Versions \cup {Nobody}] :
         /\ \A d \in Datasets : f[d] \in version(d)
         /\ pins = [d \in Datasets |-> IF asked[d] = Nobody THEN Nobody
                                       ELSE [ask |-> asked[d], version |-> f[d]]]
  BY DEF K!Relocked
<1>2. /\ asked \in K!Tomls /\ before \in K!Locks /\ upstream \in K!Versions
  <2>1. K!Nothing \in K!Tomls /\ K!Nothing \in K!Locks
    BY DEF K!Nothing, K!Tomls, K!Locks
  <2> QED
    BY <2>1, RunParts DEF K!Listed, K!Locked, K!IInv, K!Types
<1>3. r.cmd = "add" => r.listing \in K!Versions /\ K!Listed(r.before.toml)[r.name] = Nobody
  BY DEF K!Follows
<1> HIDE DEF asked, before
<1>4. ASSUME NEW d \in Datasets, asked[d] # Nobody
      PROVE  /\ f[d] \in K!Versions
             /\ (/\ before[d] # Nobody /\ before[d].ask.ref = asked[d].ref
                 /\ d \notin r.upgrade /\ K!Listed(r.before.toml)[d] # Nobody)
                => f[d] = before[d].version
  <2>1. f[d] \in version(d) /\ (before[d] # Nobody => before[d] \in K!Pins)
    BY <1>1, <1>2 DEF K!Locks
  <2>2. before[d] # Nobody => before[d].version \in K!Versions
    BY <2>1 DEF K!Pins
  <2>3. CASE K!Keeps(asked[d], before[d], d \in r.upgrade)
    BY <1>4, <2>1, <2>2, <2>3 DEF K!Keeps
  <2>4. CASE ~K!Keeps(asked[d], before[d], d \in r.upgrade) /\ r.cmd = "add" /\ d = r.name
    BY <1>3, <1>4, <2>1, <2>2, <2>4 DEF K!Given
  <2>5. CASE ~K!Keeps(asked[d], before[d], d \in r.upgrade) /\ ~(r.cmd = "add" /\ d = r.name)
    <3>1. f[d] = K!Pinned(asked[d], before[d], d \in r.upgrade)
      BY <1>4, <2>1, <2>5
    <3> QED
      BY <1>2, <2>2, <3>1 DEF K!Pinned
  <2> QED
    BY <2>3, <2>4, <2>5
<1>5. ASSUME NEW d \in Datasets, asked[d] # Nobody
      PROVE  pins[d] \in K!Pins /\ pins[d].ask = asked[d] /\ pins[d].version = f[d]
  <2>1. asked[d] \in UNION {Asked[e] : e \in Datasets}
    BY <1>2, <1>5 DEF K!Tomls
  <2> QED
    BY <1>1, <1>4, <1>5, <2>1 DEF K!Pins
<1>6. \A d \in Datasets : asked[d] = Nobody => pins[d] = Nobody
  BY <1>1
<1>7. pins \in K!Locks
  BY <1>1, <1>5, <1>6 DEF K!Locks
<1>8. K!Listed(n.read.toml) = asked /\ K!Locked(n.read.lock) = before
  BY DEF asked, before
<1>9. K!Repins(n)
  BY <1>4, <1>5, <1>6, <1>8 DEF K!Repins
<1> QED
  BY <1>7, <1>9

\* A lock made anew follows from what was read.
LEMMA CommandRelocks == ASSUME K!CommandsAssumption, K!IInv, NEW p \in Sharers, K!Relock(p) PROVE K!IInv'
<1>1. step[p] = "relock" /\ K!Holding(p) /\ UNCHANGED <<K!project, K!world>> /\ K!Goes(p, "write")
  BY DEF K!Relock, K!Holding
<1>2. PICK pins \in K!Relocked(run[p], K!Listed(run[p].read.toml), K!Locked(run[p].read.lock)) :
         K!Knows(p, [run[p] EXCEPT !.pins = pins])
  BY DEF K!Relock
<1>3. /\ run[p] \in K!Knowing /\ K!Follows("relock", run[p])
      /\ p \notin disturbed => K!Current("relock", run[p])
  BY <1>1, HolderKnows
<1>4. PICK r : r = [run[p] EXCEPT !.pins = pins]
  OBVIOUS
<1>5. /\ r.pins = pins /\ r.read = run[p].read /\ r.before = run[p].before
      /\ r.upgrade = run[p].upgrade /\ r.cmd = run[p].cmd /\ r.name = run[p].name
      /\ r.listing = run[p].listing
  BY <1>3, <1>4 DEF K!Knowing
<1>6. pins \in K!Locks /\ K!Repins(r)
  BY <1>2, <1>3, <1>5, Repinning
<1>7. r \in K!Knowing
  BY <1>3, <1>4, <1>6 DEF K!Knowing
<1>8. K!Follows("write", r)
  BY <1>3, <1>5, <1>6 DEF K!Follows
<1>9. /\ step' = [step EXCEPT ![p] = "write"] /\ run' = [run EXCEPT ![p] = r] /\ UNCHANGED disturbed
  BY <1>1, <1>2, <1>4 DEF K!Goes, K!Knows
<1>10. p \notin disturbed' => K!Current("write", r)'
  BY <1>1, <1>3, <1>5, <1>9 DEF K!Current, K!project, K!Reading
<1> QED
  BY <1>1, <1>7, <1>8, <1>9, <1>10, ProjectStays, CommandGoes DEF K!Reading

\* data.lock is what the command that wrote it takes it for.
LEMMA LockWritten == ASSUME K!CommandsAssumption, K!IInv, NEW p \in Sharers, K!WriteLock(p) PROVE K!IInv'
<1>1. step[p] = "write" /\ K!Holding(p)
  BY DEF K!WriteLock, K!Holding
<1>2. CASE K!Refuses(p)
  BY <1>1, <1>2, ProjectStays, CommandFalls DEF K!Refuses
<1>3. CASE /\ IF run[p].read.lock = run[p].pins THEN UNCHANGED lock ELSE lock' = run[p].pins
           /\ IF run[p].cmd = "lock" THEN K!Ends(p, "done") ELSE K!Goes(p, "place") /\ UNCHANGED run
           /\ UNCHANGED <<toml, files, known, record, K!world>>
  <2>1. PICK r : r = run[p]
    OBVIOUS
  <2>2. /\ r \in K!Knowing /\ K!Follows("write", r)
        /\ p \notin disturbed => K!Current("write", r)
    BY <1>1, <2>1, HolderKnows
  <2>3. r.pins \in K!Locks
    BY <2>2 DEF K!Follows
  <2>4. toml' \in K!Tomls \cup {Absent} /\ lock' \in K!Locks \cup {Absent} /\ UNCHANGED K!world
        /\ K!RecordInv'
    BY <1>3, <2>1, <2>3, SyncedStays DEF K!IInv, K!Types
  <2>5. CASE K!Ends(p, "done")
    BY <1>1, <2>4, <2>5, CommandEnds
  <2>6. CASE K!Goes(p, "place") /\ UNCHANGED run
    <3>1. /\ step' = [step EXCEPT ![p] = "place"] /\ run' = [run EXCEPT ![p] = r] /\ UNCHANGED disturbed
      BY <2>1, <2>6 DEF K!Goes, K!IInv, K!Types
    <3>2. K!Follows("place", r)
      BY <2>2 DEF K!Follows
    <3>3. p \notin disturbed' => K!Current("place", r)'
      BY <1>3, <2>1, <2>2, <3>1 DEF K!Current, K!Reading
    <3> QED
      BY <1>1, <2>2, <2>4, <3>1, <3>2, <3>3, CommandGoes DEF K!Writing
  <2> QED
    BY <1>3, <2>5, <2>6
<1> QED
  BY <1>2, <1>3 DEF K!WriteLock

\* A lock made anew is in date.
LEMMA RepinsInDate ==
  ASSUME K!CommandsAssumption, NEW r \in K!Knowing, r.read.toml # Absent, K!Repins(r)
  PROVE  /\ r.read.toml \in K!Tomls /\ K!Listed(r.read.toml) = r.read.toml
         /\ ~K!Stale(r.read.toml, r.pins)
         /\ \A d \in Datasets : IF r.read.toml[d] = Nobody THEN r.pins[d] = Nobody
                                ELSE r.pins[d] \in K!Pins /\ r.pins[d] # Nobody
                                     /\ r.pins[d].ask = r.read.toml[d]
<1>1. r.read.toml \in K!Tomls
  BY RunParts
<1>2. K!Listed(r.read.toml) = r.read.toml
  BY DEF K!Listed
<1>3. \A d \in Datasets : IF r.read.toml[d] = Nobody THEN r.pins[d] = Nobody
                          ELSE r.pins[d] \in K!Pins /\ r.pins[d] # Nobody
                                /\ r.pins[d].ask = r.read.toml[d]
  BY <1>2 DEF K!Repins, K!CommandsAssumption
<1>4. ~K!Stale(r.read.toml, r.pins)
  BY <1>3 DEF K!Stale
<1> QED
  BY <1>1, <1>2, <1>3, <1>4

\* What a placement leaves, if nobody disturbed the command.
LEMMA PlacedInSync ==
  ASSUME K!CommandsAssumption, K!IInv, NEW p \in Sharers, K!Place(p), p \notin disturbed
  PROVE  K!InDate' /\ (record'.complete => K!InPlace')
<1>1. step[p] = "place" /\ K!Holding(p) /\ UNCHANGED <<toml, lock>>
  BY DEF K!Place, K!Holding
<1>2. PICK r : r = run[p]
  OBVIOUS
<1>3. r \in K!Knowing /\ K!Follows("place", r) /\ K!Current("place", r)
  BY <1>1, <1>2, HolderKnows
<1> DEFINE goal == K!Placed(K!Listed(r.read.toml), r.pins)
<1>4. PICK theirs \in K!Foreign(goal) :
         /\ files' = [d \in Datasets |-> IF goal[d] = Nobody \/ d \in theirs
                                         THEN K!Cleared(goal)[d] ELSE goal[d]]
         /\ record' = K!Synced(r, theirs = {}, goal)
  BY <1>2 DEF K!Place
<1>5. toml = r.read.toml /\ lock = r.pins /\ r.read.toml # Absent /\ r.pins \in K!Locks /\ K!Repins(r)
  BY <1>3 DEF K!Current, K!Follows, K!Reading
<1>6. /\ K!Listed(toml) = toml /\ ~K!Stale(toml, lock) /\ lock # Absent
      /\ \A d \in Datasets : IF toml[d] = Nobody THEN lock[d] = Nobody ELSE lock[d] # Nobody
  BY <1>3, <1>5, RepinsInDate DEF K!CommandsAssumption
<1>7. K!InDate'
  BY <1>1, <1>5, <1>6 DEF K!InDate, K!Stale
<1>8. record'.complete => theirs = {}
  BY <1>4 DEF K!Synced, K!NoRecord
<1>9. \A d \in Datasets : goal[d] = IF toml[d] = Nobody THEN Nobody ELSE lock[d]
  BY <1>5, <1>6 DEF K!Placed
<1>10. theirs = {} => \A d \in Datasets : toml[d] # Nobody => files'[d] = lock[d]
  BY <1>4, <1>6, <1>9
<1>11. record'.complete => K!InPlace'
  BY <1>1, <1>6, <1>8, <1>10 DEF K!InPlace, K!Listed
<1> QED
  BY <1>7, <1>11

\* A placement records as synced what is in date and placed.
LEMMA CommandPlaces == ASSUME K!CommandsAssumption, K!IInv, NEW p \in Sharers, K!Place(p) PROVE K!IInv'
<1>1. /\ step[p] = "place" /\ K!Holding(p) /\ UNCHANGED <<toml, lock, K!world>>
      /\ K!Ends(p, "done") \/ (K!Goes(p, "render") /\ UNCHANGED run)
  BY DEF K!Place, K!Holding
<1>2. PICK r : r = run[p]
  OBVIOUS
<1>3. PICK complete \in BOOLEAN : record' = K!Synced(r, complete, K!Placed(K!Listed(r.read.toml), r.pins))
  BY <1>2 DEF K!Place
<1>4. r \in K!Knowing /\ K!Follows("place", r) /\ (p \notin disturbed => K!Current("place", r))
  BY <1>1, <1>2, HolderKnows
<1>5. r.read.toml # Absent /\ r.pins \in K!Locks /\ K!Repins(r)
  BY <1>4 DEF K!Follows
<1>6. K!RecordInv'
  <2>1. CASE ~complete
    BY <1>3, <2>1 DEF K!RecordInv, K!Synced, K!NoRecord
  <2>2. CASE complete
    <3> DEFINE goal == K!Placed(r.read.toml, r.pins)
    <3>1. /\ r.read.toml \in K!Tomls /\ K!Listed(r.read.toml) = r.read.toml
          /\ ~K!Stale(r.read.toml, r.pins)
      BY <1>4, <1>5, RepinsInDate
    <3>2. record'.toml = r.read.toml /\ record'.lock = r.pins /\ record'.files = goal
      BY <1>3, <2>2, <3>1 DEF K!Synced
    <3>3. \A d \in Datasets : r.read.toml[d] # Nobody => goal[d] = r.pins[d]
      BY DEF K!Placed
    <3> QED
      BY <1>5, <3>1, <3>2, <3>3 DEF K!RecordInv, K!Stale
  <2> QED
    BY <2>1, <2>2
<1>7. toml' \in K!Tomls \cup {Absent} /\ lock' \in K!Locks \cup {Absent}
  BY <1>1 DEF K!IInv, K!Types
<1>8. CASE K!Ends(p, "done")
  BY <1>1, <1>6, <1>7, <1>8, CommandEnds
<1>9. CASE K!Goes(p, "render") /\ UNCHANGED run
  <2>1. /\ step' = [step EXCEPT ![p] = "render"] /\ run' = [run EXCEPT ![p] = r] /\ UNCHANGED disturbed
    BY <1>2, <1>9 DEF K!Goes, K!IInv, K!Types
  <2>2. K!Follows("render", r)
    BY <1>4 DEF K!Follows
  <2>3. p \notin disturbed => (record'.complete => K!InPlace')
    BY PlacedInSync
  <2>4. p \notin disturbed' => K!Current("render", r)'
    BY <1>1, <1>4, <2>1, <2>3 DEF K!Current, K!Reading
  <2> QED
    BY <1>1, <1>4, <1>6, <1>7, <2>1, <2>2, <2>4, CommandGoes DEF K!Writing
<1> QED
  BY <1>1, <1>8, <1>9

\* An add ends once what it added is told, or cannot be.
LEMMA AddRendered == ASSUME K!IInv, NEW p \in Sharers, K!Render(p) PROVE K!IInv'
<1>1. K!Holding(p) /\ UNCHANGED <<K!project, K!world>>
  BY DEF K!Render, K!Holding
<1>2. PICK how : K!Ends(p, how)
  BY DEF K!Render
<1> QED
  BY <1>1, <1>2, ProjectStays, CommandEnds

\* An add that has placed its files and that nobody disturbed is in date, and in place as far as the
\* state says so.
LEMMA AddInSync ==
  ASSUME K!CommandsAssumption, K!IInv, NEW p \in Sharers, step[p] = "render", p \notin disturbed
  PROVE  K!InDate /\ (record.complete => K!InPlace) /\ toml = run[p].read.toml
<1>1. PICK r : r = run[p]
  OBVIOUS
<1>2. r \in K!Knowing /\ K!Follows("render", r) /\ K!Current("render", r)
  BY <1>1, HolderKnows DEF K!Holding
<1>3. toml = r.read.toml /\ lock = r.pins /\ r.read.toml # Absent /\ r.pins \in K!Locks /\ K!Repins(r)
  BY <1>2 DEF K!Current, K!Follows, K!Reading
<1>4. ~K!Stale(toml, lock) /\ lock # Absent
  BY <1>2, <1>3, RepinsInDate DEF K!CommandsAssumption
<1> QED
  BY <1>1, <1>2, <1>3, <1>4 DEF K!InDate, K!Current

\* A command fails before it places anything, or after.
LEMMA CommandFails == ASSUME K!IInv, NEW p \in Sharers, K!Fails(p) PROVE K!IInv'
<1>1. K!Holding(p) /\ K!Refuses(p)
  BY DEF K!Fails, K!Holding
<1> QED
  BY <1>1, ProjectStays, CommandFalls DEF K!Refuses

\* A placement or a removal fails half way, and nothing is recorded as synced.
LEMMA PlaceFailing == ASSUME K!IInv, NEW p \in Sharers, K!PlaceFails(p) PROVE K!IInv'
<1>1. K!Holding(p) /\ K!Fallen(p) /\ UNCHANGED <<toml, lock, K!world>>
  BY DEF K!PlaceFails, K!Holding
<1>2. UNCHANGED record \/ record' = K!NoRecord
  BY DEF K!PlaceFails, K!Synced
<1>3. K!RecordInv'
  BY <1>2, SyncedStays DEF K!IInv, K!RecordInv, K!NoRecord
<1>4. toml' \in K!Tomls \cup {Absent} /\ lock' \in K!Locks \cup {Absent}
  BY <1>1 DEF K!IInv, K!Types
<1> QED
  BY <1>1, <1>3, <1>4, CommandFalls

\* An add puts data.toml back, or cannot.
LEMMA TomlRestored == ASSUME K!IInv, NEW p \in Sharers, K!RestoreToml(p) PROVE K!IInv'
<1>1. /\ step[p] = "restore toml" /\ K!Holding(p) /\ UNCHANGED <<lock, record, run, K!world>>
  BY DEF K!RestoreToml, K!Holding
<1>2. PICK s \in {"restore lock", "restore lock only"} :
        /\ K!Goes(p, s)
        /\ toml' = IF s = "restore lock" THEN run[p].before.toml ELSE toml
  BY DEF K!RestoreToml
<1>3. PICK r : r = run[p]
  OBVIOUS
<1>4. r \in K!Knowing /\ K!Follows("restore toml", r)
  BY <1>1, <1>3, HolderKnows
<1>5. K!Follows(s, r)
  BY <1>4 DEF K!Follows
<1>6. K!Current(s, r)'
  BY <1>2, <1>3 DEF K!Current, K!Reading
<1>7. toml' \in K!Tomls \cup {Absent} /\ lock' \in K!Locks \cup {Absent} /\ K!RecordInv'
  BY <1>1, <1>2, <1>3, <1>4, RunParts, SyncedStays DEF K!IInv, K!Types
<1>8. /\ step' = [step EXCEPT ![p] = s] /\ run' = [run EXCEPT ![p] = r] /\ UNCHANGED disturbed
  BY <1>1, <1>2, <1>3 DEF K!Goes, K!IInv, K!Types
<1> QED
  BY <1>1, <1>4, <1>5, <1>6, <1>7, <1>8, CommandGoes DEF K!Writing

\* An add puts data.lock back, or cannot.
LEMMA LockRestored == ASSUME K!IInv, NEW p \in Sharers, K!RestoreLock(p) PROVE K!IInv'
<1>1. K!Holding(p) /\ UNCHANGED <<toml, record, K!world>>
  BY DEF K!RestoreLock, K!Holding
<1>2. PICK how : K!Ends(p, how)
  BY DEF K!RestoreLock
<1>3. lock' = run[p].before.lock \/ UNCHANGED lock
  BY DEF K!RestoreLock, K!LockBefore
<1>4. toml' \in K!Tomls \cup {Absent} /\ lock' \in K!Locks \cup {Absent} /\ K!RecordInv'
  BY <1>1, <1>3, HolderKnows, SyncedStays DEF K!IInv, K!Types
<1> QED
  BY <1>1, <1>2, <1>4, CommandEnds

\* A command is killed.
LEMMA CommandKilled == ASSUME K!IInv, NEW p \in Sharers, K!Kill(p) PROVE K!IInv'
<1>1. K!Holding(p) /\ K!Ends(p, "killed") /\ UNCHANGED <<toml, lock, record, K!world>>
  BY DEF K!Kill
<1>2. toml' \in K!Tomls \cup {Absent} /\ lock' \in K!Locks \cup {Absent} /\ K!RecordInv'
  BY <1>1, SyncedStays DEF K!IInv, K!Types
<1> QED
  BY <1>1, <1>2, CommandEnds

\* What a person changes, the commands that run do not know, and are not held to.
LEMMA PersonChanges ==
  ASSUME K!IInv, K!Disturbs, toml' \in K!Tomls \cup {Absent}, lock' \in K!Locks \cup {Absent}
  PROVE  K!IInv'
<1>1. UNCHANGED <<record, step, run, K!world>> /\ disturbed' = {p \in Sharers : step[p] # "idle"}
  BY DEF K!Disturbs, K!world
<1>2. K!Types' /\ K!HoldInv' /\ K!RecordInv'
  BY <1>1, SyncedStays DEF K!IInv, K!Types, K!HoldInv, K!Holding, K!world
<1>3. ASSUME NEW p \in Sharers PROVE K!Sound(p)'
  <2>1. K!Sound(p) /\ step'[p] = step[p] /\ run'[p] = run[p] /\ (K!Holding(p)' <=> K!Holding(p))
    BY <1>1 DEF K!IInv, K!Holding
  <2>2. K!Holding(p) => p \in disturbed'
    BY <1>1 DEF K!Holding
  <2>3. K!Follows(step[p], run[p])' <=> K!Follows(step[p], run[p])
    BY <2>1 DEF K!Follows
  <2> QED
    BY <2>1, <2>2, <2>3 DEF K!Sound
<1> QED
  BY <1>2, <1>3 DEF K!IInv

\* A person edits data.toml.
LEMMA TomlEdited == ASSUME K!CommandsAssumption, K!IInv, K!EditToml PROVE K!IInv'
<1>1. toml \in K!Tomls /\ K!Disturbs /\ UNCHANGED lock
  BY DEF K!EditToml, K!IInv, K!Types
<1>2. PICK d \in Datasets : \E a \in Asked[d] \cup {Nobody} : toml' = [toml EXCEPT ![d] = a]
  BY DEF K!EditToml
<1>3. toml' \in K!Tomls
  BY <1>1, <1>2 DEF K!Tomls
<1> QED
  BY <1>1, <1>3, PersonChanges DEF K!IInv, K!Types

\* A person restores a file from git.
LEMMA CheckedOut == ASSUME K!IInv, K!Checkout PROVE K!IInv'
<1>1. K!Disturbs /\ toml' \in {toml, head.toml} /\ lock' \in {lock, head.lock}
  BY DEF K!Checkout
<1>2. head.toml \in K!Tomls \cup {Absent} /\ head.lock \in K!Locks \cup {Absent}
  BY DEF K!IInv, K!Types, K!Read
<1> QED
  BY <1>1, <1>2, PersonChanges DEF K!IInv, K!Types

\* A person deletes placed files.
LEMMA FilesDeleted == ASSUME K!IInv, K!Delete PROVE K!IInv'
  BY PersonChanges DEF K!Delete, K!IInv, K!Types

\* The sources release a version.
LEMMA VersionReleased == ASSUME K!CommandsAssumption, K!IInv, K!Release PROVE K!IInv'
<1>a. upstream \in K!Versions /\ upstream < LastVersion /\ upstream' = upstream + 1
  BY DEF K!Release, K!IInv, K!Types
<1>1. UNCHANGED <<K!project, step, run, disturbed, head>> /\ upstream' \in K!Versions
  BY <1>a DEF K!Release, K!Versions, K!CommandsAssumption
<1>2. K!Types' /\ K!HoldInv' /\ K!RecordInv'
  BY <1>1, SyncedStays DEF K!IInv, K!Types, K!HoldInv, K!Holding, K!project
<1>3. ASSUME NEW p \in Sharers PROVE K!Sound(p)'
  <2>1. K!Sound(p) /\ step'[p] = step[p] /\ run'[p] = run[p] /\ (K!Holding(p)' <=> K!Holding(p))
    BY <1>1 DEF K!IInv, K!Holding
  <2>2. K!Follows(step[p], run[p])' <=> K!Follows(step[p], run[p])
    BY <2>1 DEF K!Follows
  <2>3. K!Current(step[p], run[p])' <=> K!Current(step[p], run[p])
    BY <1>1, <2>1 DEF K!Current, K!InPlace, K!project
  <2> QED
    BY <1>1, <2>1, <2>2, <2>3 DEF K!Sound
<1> QED
  BY <1>2, <1>3 DEF K!IInv

\* Nothing happens.
LEMMA CommandsStutter == ASSUME K!IInv, UNCHANGED K!vars PROVE K!IInv'
<1>1. UNCHANGED <<K!project, K!world, step, run, disturbed>>
  BY DEF K!vars, K!project, K!world
<1>2. K!Types' /\ K!HoldInv' /\ K!RecordInv'
  BY <1>1, SyncedStays DEF K!IInv, K!Types, K!HoldInv, K!Holding, K!project, K!world
<1>3. ASSUME NEW p \in Sharers PROVE K!Sound(p)'
  <2>1. K!Sound(p) /\ step'[p] = step[p] /\ run'[p] = run[p] /\ (K!Holding(p)' <=> K!Holding(p))
    BY <1>1 DEF K!IInv, K!Holding
  <2>2. K!Follows(step[p], run[p])' <=> K!Follows(step[p], run[p])
    BY <2>1 DEF K!Follows
  <2>3. K!Current(step[p], run[p])' <=> K!Current(step[p], run[p])
    BY <1>1, <2>1 DEF K!Current, K!InPlace, K!project
  <2> QED
    BY <1>1, <2>1, <2>2, <2>3 DEF K!Sound
<1> QED
  BY <1>2, <1>3 DEF K!IInv

\* Every step keeps IInv.
LEMMA CommandsNext == ASSUME K!CommandsAssumption, K!IInv, [K!Next]_(K!vars) PROVE K!IInv'
<1>1. CASE K!EditToml \/ K!Checkout \/ K!Delete \/ K!Release
  BY <1>1, TomlEdited, CheckedOut, FilesDeleted, VersionReleased
<1>2. ASSUME NEW p \in Sharers, K!Command(p) PROVE K!IInv'
  <2>1. CASE \/ K!Start(p) \/ K!Path(p) \/ K!LookFirst(p) \/ K!Wait(p) \/ K!LookAgain(p)
             \/ K!Resolve(p) \/ K!Again(p)
    BY <2>1, CommandStarts, PathStarts, PathLooks, PathWaits, PathLooksAgain, AddResolves, AddAgain
  <2>2. CASE \/ K!WriteToml(p) \/ K!DropLocked(p) \/ K!RemoveOnly(p)
             \/ K!Settle(p) \/ K!Relock(p) \/ K!WriteLock(p) \/ K!Place(p) \/ K!Render(p)
    BY <2>2, TomlWritten, LockDropped, FilesRemoved, CommandSettles, CommandRelocks, LockWritten,
       CommandPlaces, AddRendered
  <2>3. CASE K!Fails(p) \/ K!PlaceFails(p) \/ K!RestoreToml(p) \/ K!RestoreLock(p) \/ K!Kill(p)
    BY <2>3, CommandFails, PlaceFailing, TomlRestored, LockRestored, CommandKilled
  <2> QED
    BY <1>2, <2>1, <2>2, <2>3 DEF K!Command
<1> QED
  BY <1>1, <1>2, CommandsStutter DEF K!Next

-----------------------------------------------------------------------------
\* A command goes to no step but its own.
LEMMA OthersStand ==
  ASSUME NEW p \in Sharers, K!Command(p) PROVE \E s : step' = [step EXCEPT ![p] = s]
<1>1. ASSUME NEW how, K!Ends(p, how) PROVE \E s : step' = [step EXCEPT ![p] = s]
  BY <1>1 DEF K!Ends
<1>2. ASSUME NEW s, K!Goes(p, s) PROVE \E t : step' = [step EXCEPT ![p] = t]
  BY <1>2 DEF K!Goes
<1>3. ASSUME K!Fallen(p) PROVE \E s : step' = [step EXCEPT ![p] = s]
  BY <1>1, <1>2, <1>3 DEF K!Fallen
<1>4. CASE \/ K!Start(p) \/ K!Path(p) \/ K!LookFirst(p) \/ K!Wait(p) \/ K!LookAgain(p)
           \/ K!Resolve(p) \/ K!Again(p)
  BY <1>1, <1>2, <1>4 DEF K!Start, K!Path, K!LookFirst, K!Wait, K!LookAgain, K!Resolve, K!Again
<1>5. CASE \/ K!WriteToml(p) \/ K!DropLocked(p) \/ K!RemoveOnly(p)
           \/ K!Settle(p) \/ K!Relock(p) \/ K!WriteLock(p) \/ K!Place(p) \/ K!Render(p)
  BY <1>1, <1>2, <1>3, <1>5 DEF K!WriteToml, K!DropLocked, K!RemoveOnly, K!Settle, K!Relock,
     K!WriteLock, K!Place, K!Render, K!Refuses
<1>6. CASE K!Fails(p) \/ K!PlaceFails(p) \/ K!RestoreToml(p) \/ K!RestoreLock(p) \/ K!Kill(p)
  BY <1>1, <1>2, <1>3, <1>6 DEF K!Fails, K!PlaceFails, K!RestoreToml, K!RestoreLock, K!Kill,
     K!Refuses
<1> QED
  BY <1>4, <1>5, <1>6 DEF K!Command

\* Whoever stands elsewhere after a step took it.
LEMMA WhoActs ==
  ASSUME K!IInv, NEW p \in Sharers, [K!Next]_(K!vars), step'[p] # step[p] PROVE K!Command(p)
<1>1. step \in [Sharers -> K!Steps]
  BY DEF K!IInv, K!Types
<1>2. CASE UNCHANGED K!vars \/ K!EditToml \/ K!Checkout \/ K!Delete \/ K!Release
  BY <1>2 DEF K!vars, K!EditToml, K!Checkout, K!Delete, K!Release, K!Disturbs
<1>3. ASSUME NEW q \in Sharers, K!Command(q) PROVE K!Command(p)
  <2>1. PICK s : step' = [step EXCEPT ![q] = s]
    BY <1>3, OthersStand
  <2>2. q = p
    BY <1>1, <2>1
  <2> QED
    BY <1>3, <2>2
<1> QED
  BY <1>2, <1>3 DEF K!Next

\* An add fails before it writes, once both files are back, or after its sync.
LEMMA UndoneStep ==
  ASSUME K!CommandsAssumption, K!IInv, [K!Next]_(K!vars) PROVE K!FailedAddUndone
<1> SUFFICES ASSUME NEW p \in Sharers, run[p].cmd = "add", step'[p] = "idle", said' = "failed",
                    p \notin disturbed
             PROVE  IF step[p] = "render"
                    THEN toml' = run[p].read.toml /\ K!InDate' /\ (record'.complete => K!InPlace')
                    ELSE toml' = run[p].before.toml /\ lock' = run[p].before.lock
  BY DEF K!FailedAddUndone
<1>1. step[p] # "idle" /\ step[p] \notin {"look", "wait"}
  <2>1. K!NoRun.cmd # "add"
    BY DEF K!NoRun, K!CommandsAssumption
  <2>2. \A r \in K!Looking : r.cmd # "add"
    BY DEF K!Looking
  <2> QED
    BY <2>1, <2>2 DEF K!IInv, K!Sound
<1>2. K!Holding(p) /\ K!Command(p)
  BY <1>1, WhoActs DEF K!Holding
<1>3. run[p] \in K!Knowing /\ K!Follows(step[p], run[p]) /\ K!Current(step[p], run[p])
  BY <1>2, HolderKnows
<1>4. said' # Nobody
  BY DEF K!CommandsAssumption
<1>5. CASE step[p] \in {"resolve", "toml"}
  <2>1. toml = run[p].before.toml /\ lock = run[p].before.lock
    BY <1>3, <1>5 DEF K!Follows, K!Current, K!Reading
  <2>2. ~K!WriteToml(p) \/ K!Refuses(p)
    BY <1>4 DEF K!WriteToml, K!Goes
  <2>a. ~K!Place(p) /\ ~K!Render(p)
    BY <1>5 DEF K!Place, K!Render
  <2>3. UNCHANGED <<toml, lock>>
    BY <1>1, <1>2, <1>4, <1>5, <2>2, <2>a DEF K!Command, K!Start, K!Path, K!LookFirst, K!Wait,
       K!LookAgain, K!Resolve, K!Again, K!DropLocked, K!RemoveOnly, K!Settle, K!Relock, K!WriteLock,
       K!Fails, K!PlaceFails, K!RestoreToml, K!RestoreLock, K!Kill, K!Refuses, K!project
  <2> QED
    BY <1>5, <2>1, <2>3
<1>6. CASE step[p] \notin {"resolve", "toml", "render"}
  <2>1. ~K!Fallen(p)
    BY <1>4, <1>6 DEF K!Fallen, K!Goes
  <2>2. step[p] # "ready"
    BY <1>3 DEF K!Follows
  <2>3. K!RestoreLock(p)
    BY <1>1, <1>2, <1>4, <1>6, <2>1, <2>2 DEF K!Command, K!Start, K!Path, K!LookFirst, K!Wait,
       K!LookAgain, K!Resolve, K!Again, K!WriteToml, K!DropLocked, K!RemoveOnly, K!Settle, K!Relock,
       K!WriteLock, K!Place, K!Render, K!Fails, K!PlaceFails, K!RestoreToml, K!Kill, K!Refuses, K!Goes, K!Ends
  <2>4. step[p] = "restore lock" /\ lock' = run[p].before.lock /\ UNCHANGED toml
    BY <2>3 DEF K!RestoreLock, K!Ends, K!LockBefore
  <2> QED
    BY <1>3, <1>6, <2>4 DEF K!Current
<1>7. CASE step[p] = "render"
  <2>1. UNCHANGED K!project
    BY <1>1, <1>2, <1>4, <1>7 DEF K!Command, K!Start, K!Path, K!LookFirst, K!Wait,
       K!LookAgain, K!Resolve, K!Again, K!WriteToml, K!DropLocked, K!RemoveOnly, K!Settle, K!Relock,
       K!WriteLock, K!Place, K!Render, K!Fails, K!PlaceFails, K!RestoreToml, K!RestoreLock, K!Kill,
       K!Refuses, K!Ends
  <2>2. K!InDate /\ (record.complete => K!InPlace) /\ toml = run[p].read.toml
    BY <1>7, AddInSync
  <2>3. K!InDate' /\ (record'.complete => K!InPlace') /\ toml' = run[p].read.toml
    BY <2>1, <2>2 DEF K!InDate, K!InPlace, K!Stale, K!project
  <2> QED
    BY <1>7, <2>3
<1> QED
  BY <1>5, <1>6, <1>7

\* data.lock is left alone, or written as it was relocked.
LEMMA WhoWrites ==
  ASSUME K!IInv, [K!Next]_(K!vars), NEW p \in Sharers, K!Writes(p)
  PROVE  /\ K!Holding(p) /\ run[p] \in K!Knowing /\ K!Follows("write", run[p])
         /\ p \notin disturbed => K!Current("write", run[p])
         /\ \/ UNCHANGED lock
            \/ lock' = run[p].pins /\ run[p].read.lock # run[p].pins
<1>1. step[p] = "write" /\ step'[p] # step[p]
  BY DEF K!Writes
<1>2. K!Command(p) /\ K!Holding(p)
  BY <1>1, WhoActs DEF K!Holding
<1>3. /\ run[p] \in K!Knowing /\ K!Follows("write", run[p])
      /\ p \notin disturbed => K!Current("write", run[p])
  BY <1>1, <1>2, HolderKnows
<1>4. \/ UNCHANGED lock
      \/ lock' = run[p].pins /\ run[p].read.lock # run[p].pins
  BY <1>1, <1>2 DEF K!Command, K!Start, K!Path, K!LookFirst, K!Wait, K!LookAgain, K!Resolve,
     K!Again, K!WriteToml, K!DropLocked, K!RemoveOnly, K!Settle, K!Relock, K!WriteLock, K!Place,
     K!Render, K!Fails, K!PlaceFails, K!RestoreToml, K!RestoreLock, K!Kill, K!Refuses, K!project
<1> QED
  BY <1>2, <1>3, <1>4

\* What is written pins the versions that were read, but those asked to move.
LEMMA PinsStayStep ==
  ASSUME K!CommandsAssumption, K!IInv, [K!Next]_(K!vars) PROVE K!PinsStay
<1> SUFFICES ASSUME NEW p \in Sharers, NEW d \in Datasets,
                    K!Writes(p), lock # Absent, lock' # Absent,
                    p \notin disturbed, d \notin run[p].upgrade, K!Listed(run[p].before.toml)[d] # Nobody,
                    lock[d] # Nobody, lock'[d] # Nobody, lock[d].ask.ref = lock'[d].ask.ref
             PROVE  lock[d].version = lock'[d].version
  BY DEF K!PinsStay
<1>1. CASE UNCHANGED lock
  BY <1>1
<1>2. CASE lock' = run[p].pins
  <2>1. /\ run[p] \in K!Knowing /\ K!Follows("write", run[p]) /\ K!Current("write", run[p])
    BY WhoWrites
  <2>2. lock = run[p].read.lock /\ K!Repins(run[p]) /\ run[p].read.toml # Absent
    BY <2>1 DEF K!Current, K!Follows, K!Reading
  <2>3. K!Locked(run[p].read.lock) = lock
    BY <2>2 DEF K!Locked
  <2> QED
    BY <1>2, <2>2, <2>3 DEF K!Repins
<1> QED
  BY <1>1, <1>2, WhoWrites

\* A lock in date is relocked as it is.
LEMMA LockedKeepsStep ==
  ASSUME K!CommandsAssumption, K!IInv, [K!Next]_(K!vars) PROVE K!LockedKeepsLock
<1> SUFFICES ASSUME NEW p \in Sharers, K!Writes(p), run[p].cmd = "locked"
             PROVE  lock' = lock
  BY DEF K!LockedKeepsLock
<1> DEFINE r == run[p]
<1>1. r \in K!Knowing /\ K!Follows("write", r)
  BY WhoWrites
<1> HIDE DEF r
<1>2. /\ r.read.toml # Absent /\ r.before.toml = r.read.toml /\ r.upgrade = {} /\ r.read.lock # Absent
      /\ ~K!Stale(K!Listed(r.read.toml), K!Locked(r.read.lock)) /\ r.pins \in K!Locks /\ K!Repins(r)
  BY <1>1 DEF K!Follows, r
<1>3. K!Listed(r.read.toml) = r.read.toml /\ K!Locked(r.read.lock) = r.read.lock
      /\ r.read.lock \in K!Locks
  BY <1>1, <1>2, RunParts DEF K!Listed, K!Locked
<1>4. ASSUME NEW d \in Datasets PROVE r.pins[d] = r.read.lock[d]
  <2>1. CASE r.read.toml[d] = Nobody
    BY <1>2, <1>3, <2>1 DEF K!Stale, K!Repins
  <2>2. CASE r.read.toml[d] # Nobody
    <3>1. r.read.lock[d] # Nobody /\ r.read.lock[d].ask = r.read.toml[d]
      BY <1>2, <1>3, <2>2 DEF K!Stale
    <3>2. /\ r.pins[d] \in K!Pins /\ r.pins[d].ask = r.read.toml[d]
          /\ r.pins[d].version = r.read.lock[d].version
      BY <1>2, <1>3, <2>2, <3>1 DEF K!Repins
    <3>3. r.read.lock[d] \in K!Pins
      BY <1>3, <3>1 DEF K!Locks
    <3> QED
      BY <3>1, <3>2, <3>3 DEF K!Pins
  <2> QED
    BY <2>1, <2>2
<1>5. r.pins = r.read.lock
  BY <1>2, <1>3, <1>4 DEF K!Locks
<1> QED
  BY <1>5, WhoWrites DEF r

\* A sync with nothing to do finds what the last complete one recorded, and a placement ends with
\* every file in place or records less.
LEMMA InSyncStep ==
  ASSUME K!CommandsAssumption, K!IInv, [K!Next]_(K!vars) PROVE K!SuccessInSync
<1> SUFFICES ASSUME NEW p \in Sharers, step[p] \in {"settle", "place", "render"}, step'[p] = "idle",
                    said' = "done", p \notin disturbed
             PROVE  K!InDate' /\ (step[p] = "settle" \/ record'.complete => K!InPlace')
  BY DEF K!SuccessInSync
<1>1. K!Holding(p) /\ K!Command(p)
  BY WhoActs DEF K!Holding
<1> DEFINE r == run[p]
<1>2. r \in K!Knowing /\ K!Follows(step[p], r) /\ K!Current(step[p], r)
  BY <1>1, HolderKnows
<1>3. said' # Nobody
  BY DEF K!CommandsAssumption
<1>4. K!Settle(p) \/ K!Place(p) \/ K!Render(p)
  BY <1>1, <1>3 DEF K!Command, K!Start, K!Path, K!LookFirst, K!Wait, K!LookAgain, K!Resolve,
     K!Again, K!WriteToml, K!DropLocked, K!RemoveOnly, K!Relock, K!WriteLock, K!Fails, K!PlaceFails,
     K!RestoreToml, K!RestoreLock, K!Kill, K!Refuses, K!Fallen, K!Goes, K!Ends
<1>5. CASE K!Settle(p)
  <2>1. step[p] = "settle" /\ K!Untouched(r) /\ UNCHANGED K!project
    BY <1>3, <1>5 DEF K!Settle, K!Goes
  <2>2. /\ record.complete /\ toml = record.toml /\ lock = record.lock
        /\ \A d \in Datasets : record.files[d] # Nobody => files[d] = record.files[d]
    BY <1>2, <2>1 DEF K!Untouched, K!Current, K!Reading
  <2>3. /\ toml \in K!Tomls /\ lock \in K!Locks /\ ~K!Stale(toml, lock)
        /\ \A d \in Datasets : toml[d] # Nobody => record.files[d] = lock[d]
    BY <2>2 DEF K!IInv, K!RecordInv
  <2>4. toml # Absent /\ lock # Absent
    BY <2>3 DEF K!CommandsAssumption
  <2>5. \A d \in Datasets : toml[d] # Nobody => files[d] = lock[d]
    BY <2>2, <2>3 DEF K!Stale
  <2>6. K!InDate /\ K!InPlace
    BY <2>3, <2>4, <2>5 DEF K!InDate, K!InPlace, K!Listed
  <2>7. K!InDate' /\ K!InPlace'
    BY <2>1, <2>6 DEF K!InDate, K!InPlace, K!Stale, K!project
  <2> QED
    BY <2>7
<1>6. CASE K!Place(p)
  <2>1. K!InDate' /\ (record'.complete => K!InPlace')
    BY <1>6, PlacedInSync
  <2>2. step[p] = "place"
    BY <1>6 DEF K!Place
  <2> QED
    BY <2>1, <2>2
<1>7. CASE K!Render(p)
  <2>1. step[p] = "render" /\ UNCHANGED K!project
    BY <1>7 DEF K!Render
  <2>2. K!InDate /\ (record.complete => K!InPlace)
    BY <2>1, AddInSync
  <2>3. K!InDate' /\ (record'.complete => K!InPlace')
    BY <2>1, <2>2 DEF K!InDate, K!InPlace, K!Stale, K!project
  <2> QED
    BY <2>1, <2>3
<1> QED
  BY <1>4, <1>5, <1>6, <1>7

\* What holds in every state of the commands of any number of processes.
THEOREM CommandsInvariance == ASSUME K!CommandsAssumption PROVE K!Spec => []K!IInv
<1>q. QED BY CommandsInit, CommandsNext, PTL DEF K!Spec

\* For any datasets, versions and processes, and any number of failures, kills, edits, checkouts and
\* releases: a sync that says there is nothing to do, or that the project is synced, is right.  With
\* Sharers a single process and no job it is the theorem about KA.
THEOREM SyncsSayRight ==
  ASSUME K!CommandsAssumption
  PROVE  IsOf("commands") /\ K!Spec => SuccessInSync
<1>1. component = "commands" /\ K!IInv /\ [K!Next]_(K!vars)
      => [/\ component = "commands" => K!SuccessInSync
          /\ component = "one command" => KA!SuccessInSync]_commanding
  BY InSyncStep
<1>2. component = "commands" /\ [UNCHANGED component]_component => (component = "commands")'
  OBVIOUS
<1>3. IsOf("commands") => [](component = "commands")
  BY <1>2, PTL DEF IsOf
<1>q. QED BY <1>1, <1>3, CommandsInvariance, PTL DEF SuccessInSync, K!Spec

\* ... no command moves what it was not asked to move, and `sync --locked` moves nothing ...
THEOREM LocksMoveWhenAsked ==
  ASSUME K!CommandsAssumption
  PROVE  IsOf("commands") /\ K!Spec => LockMovesWhenAsked
<1>1. component = "commands" /\ K!IInv /\ [K!Next]_(K!vars)
      => [/\ component = "commands" => K!PinsStay /\ K!LockedKeepsLock
          /\ component = "one command" => KA!PinsStay /\ KA!LockedKeepsLock]_commanding
  BY PinsStayStep, LockedKeepsStep
<1>2. component = "commands" /\ [UNCHANGED component]_component => (component = "commands")'
  OBVIOUS
<1>3. IsOf("commands") => [](component = "commands")
  BY <1>2, PTL DEF IsOf
<1>q. QED BY <1>1, <1>3, CommandsInvariance, PTL DEF LockMovesWhenAsked, K!Spec

\* ... and an add whose sync fails leaves both files as it found them, unless it says that it could
\* not, while one that fails after its sync keeps them, in date, and the files in place.
THEOREM FailedAddsUndo ==
  ASSUME K!CommandsAssumption
  PROVE  IsOf("commands") /\ K!Spec => FailedAddUndone
<1>1. component = "commands" /\ K!IInv /\ [K!Next]_(K!vars)
      => [/\ component = "commands" => K!FailedAddUndone
          /\ component = "one command" => KA!FailedAddUndone]_commanding
  BY UndoneStep
<1>2. component = "commands" /\ [UNCHANGED component]_component => (component = "commands")'
  OBVIOUS
<1>3. IsOf("commands") => [](component = "commands")
  BY <1>2, PTL DEF IsOf
<1>q. QED BY <1>1, <1>3, CommandsInvariance, PTL DEF FailedAddUndone, K!Spec

-----------------------------------------------------------------------------
(***************************************************************************)
(* What archives unpack to, for names and limits of any kind: what was     *)
(* seen is apart and below its folders, and what came out is counted once. *)
(***************************************************************************)
\* Names in NFC.
Composed == {Nfc[n] : n \in DOMAIN Nfc}

\* Folding a path folds each of its names.
LEMMA FoldedNames ==
  ASSUME NEW s \in Seq(Composed)
  PROVE  /\ DOMAIN M!Folded(s) = 1 .. Len(s)
         /\ \A n \in 1 .. Len(s) : M!Folded(s)[n] = Fold[s[n]]
         /\ M!Folded(s) \in Seq({Fold[n] : n \in Composed})
         /\ Len(M!Folded(s)) = Len(s)
<1>1. DOMAIN s = 1 .. Len(s) /\ Len(s) \in Nat BY LenProperties
<1>2. \A n \in 1 .. Len(s) : s[n] \in Composed BY ElementOfSeq
<1>3. M!Folded(s) \in [1 .. Len(s) -> {Fold[n] : n \in Composed}] BY <1>1, <1>2 DEF M!Folded
<1>4. M!Folded(s) \in Seq({Fold[n] : n \in Composed}) BY <1>1, <1>3, SeqDef
<1>5. Len(M!Folded(s)) = Len(s) BY <1>1, <1>3, <1>4, LenProperties
<1>q. QED BY <1>1, <1>3, <1>4, <1>5 DEF M!Folded

\* What an entry spells is a path in NFC, as long.
LEMMA SpelledWell ==
  ASSUME M!MembersAssumption, NEW raw \in Spellings, raw # <<>>
  PROVE  M!Spelled(raw) \in M!Paths
<1>1. raw \in Seq(DOMAIN Nfc) BY DEF M!MembersAssumption
<1>2. DOMAIN raw = 1 .. Len(raw) /\ Len(raw) \in Nat /\ Len(raw) # 0 BY <1>1, LenProperties, EmptySeq
<1>3. \A n \in 1 .. Len(raw) : raw[n] \in DOMAIN Nfc BY <1>1, ElementOfSeq
<1>4. M!Spelled(raw) \in [1 .. Len(raw) -> Composed] BY <1>2, <1>3 DEF M!Spelled, Composed
<1>5. M!Spelled(raw) \in Seq(Composed) BY <1>2, <1>4, SeqDef
<1>6. Len(M!Spelled(raw)) = Len(raw) BY <1>2, <1>4, <1>5, LenProperties
<1>q. QED BY <1>2, <1>5, <1>6, EmptySeq DEF M!Paths, Composed

\* The folders above a path are the shorter ones it begins with.
LEMMA FoldersAbove ==
  ASSUME NEW X, NEW s \in Seq(X), NEW n \in 1 .. Len(s)
  PROVE  /\ SubSeq(s, 1, n) \in Seq(X) /\ Len(SubSeq(s, 1, n)) = n
         /\ \A m \in 1 .. n : SubSeq(s, 1, n)[m] = s[m]
         /\ \A m \in 1 .. n : SubSeq(SubSeq(s, 1, n), 1, m) = SubSeq(s, 1, m)
<1>1. Len(s) \in Nat BY LenProperties
<1>2. \A m \in 1 .. n : s[m] \in X BY <1>1, ElementOfSeq
<1>3. /\ SubSeq(s, 1, n) \in Seq(X) /\ Len(SubSeq(s, 1, n)) = n
      /\ \A m \in 1 .. n - 1 + 1 : SubSeq(s, 1, n)[m] = s[1 + m - 1]
  BY <1>1, <1>2, SubSeqProperties
<1>4. ASSUME NEW m \in 1 .. n PROVE SubSeq(SubSeq(s, 1, n), 1, m) = SubSeq(s, 1, m)
  <2>1. 1 \in 1 .. Len(s) /\ 1 \in 1 .. n - 1 + 1 /\ m \in 1 .. n - 1 + 1 BY <1>1
  <2>2. SubSeq(SubSeq(s, 1, n), 1, m) = SubSeq(s, 1 + 1 - 1, 1 + m - 1) BY <2>1, SubSeqOfSubSeq
  <2>q. QED BY <2>2
<1>q. QED BY <1>1, <1>3, <1>4

\* Paths that begin alike fold alike there.
LEMMA FoldedFolders ==
  ASSUME NEW s \in Seq(Composed), NEW n \in 1 .. Len(s)
  PROVE  M!Folded(SubSeq(s, 1, n)) = SubSeq(M!Folded(s), 1, n)
<1> DEFINE F == {Fold[t] : t \in Composed}
<1>1. /\ SubSeq(s, 1, n) \in Seq(Composed) /\ Len(SubSeq(s, 1, n)) = n
      /\ \A m \in 1 .. n : SubSeq(s, 1, n)[m] = s[m]
  BY FoldersAbove
<1>2. /\ M!Folded(s) \in Seq(F) /\ Len(M!Folded(s)) = Len(s)
      /\ \A m \in 1 .. Len(s) : M!Folded(s)[m] = Fold[s[m]]
  BY FoldedNames
<1>3. /\ SubSeq(M!Folded(s), 1, n) \in Seq(F) /\ Len(SubSeq(M!Folded(s), 1, n)) = n
      /\ \A m \in 1 .. n : SubSeq(M!Folded(s), 1, n)[m] = M!Folded(s)[m]
  BY <1>2, FoldersAbove
<1>4. /\ M!Folded(SubSeq(s, 1, n)) \in Seq(F) /\ Len(M!Folded(SubSeq(s, 1, n))) = n
      /\ \A m \in 1 .. n : M!Folded(SubSeq(s, 1, n))[m] = Fold[SubSeq(s, 1, n)[m]]
  BY <1>1, FoldedNames
<1>5. Len(s) \in Nat /\ n \in Nat /\ n <= Len(s) BY LenProperties
<1>6. ASSUME NEW m \in 1 .. n PROVE M!Folded(SubSeq(s, 1, n))[m] = SubSeq(M!Folded(s), 1, n)[m]
  BY <1>1, <1>2, <1>3, <1>4, <1>5
<1>q. QED BY <1>3, <1>4, <1>6, SeqEqual

\* A node is what the entry names, or a folder above.
Flagged(node, last, dir) ==
  (last => node = M!Node(node.path, dir)) /\ (~last => node = M!Node(node.path, TRUE))

\* What an entry names: its path, and as folders what its path begins with.
LEMMA NodesOf ==
  ASSUME M!MembersAssumption, NEW raw \in Spellings, raw # <<>>, NEW dir \in BOOLEAN
  PROVE  \A node : node \in M!Nodes(raw, dir) <=>
           \E n \in 1 .. Len(M!Spelled(raw)) :
             /\ node.path = SubSeq(M!Spelled(raw), 1, n)
             /\ Flagged(node, n = Len(M!Spelled(raw)), dir)
<1> DEFINE s == M!Spelled(raw)
<1>1. s \in M!Paths BY SpelledWell
<1>2. s \in Seq(Composed) /\ Len(s) \in Nat \ {0} BY <1>1, EmptySeq DEF M!Paths, Composed
<1>3. SubSeq(s, 1, Len(s)) = s BY <1>2, SubSeqFull
<1> HIDE DEF s
<1>4. M!Nodes(raw, dir) = {M!Node(p, TRUE) : p \in M!Above(s)} \cup {M!Node(s, dir)} BY DEF M!Nodes, s
<1>5. ASSUME NEW node, node \in M!Nodes(raw, dir)
      PROVE  \E n \in 1 .. Len(s) :
               /\ node.path = SubSeq(s, 1, n)
               /\ Flagged(node, n = Len(s), dir)
  <2>1. CASE node = M!Node(s, dir)
    <3>1. node.path = s BY <2>1 DEF M!Node
    <3>2. Len(s) \in 1 .. Len(s) BY <1>2
    <3>q. QED BY <2>1, <3>1, <3>2, <1>3 DEF Flagged
  <2>2. CASE node \in {M!Node(p, TRUE) : p \in M!Above(s)}
    <3>1. PICK p \in M!Above(s) : node = M!Node(p, TRUE) BY <2>2
    <3>2. PICK n \in 1 .. Len(s) - 1 : p = SubSeq(s, 1, n) BY <3>1 DEF M!Above
    <3>3. node.path = p BY <3>1 DEF M!Node
    <3>4. n \in 1 .. Len(s) /\ n # Len(s) BY <3>2, <1>2
    <3>q. QED BY <3>1, <3>2, <3>3, <3>4 DEF Flagged
  <2>q. QED BY <1>4, <1>5, <2>1, <2>2
<1>6. ASSUME NEW node, NEW n \in 1 .. Len(s), node.path = SubSeq(s, 1, n),
             Flagged(node, n = Len(s), dir)
      PROVE  node \in M!Nodes(raw, dir)
  <2>1. CASE n = Len(s) BY <2>1, <1>3, <1>4, <1>6 DEF Flagged
  <2>2. CASE n # Len(s)
    <3>1. n \in 1 .. Len(s) - 1 BY <2>2, <1>2
    <3>2. node.path \in M!Above(s) BY <3>1, <1>6 DEF M!Above
    <3>q. QED BY <2>2, <3>2, <1>4, <1>6 DEF Flagged
  <2>q. QED BY <2>1, <2>2
<1>q. QED BY <1>5, <1>6 DEF s

\* An entry that clashes with nothing keeps what is seen apart and below its folders.
LEMMA EntrySeen ==
  ASSUME M!MembersAssumption, seen \subseteq [path : M!Paths, folder : BOOLEAN], M!SeenApart, M!SeenBelow,
         NEW raw \in Spellings, raw # <<>>, NEW dir \in BOOLEAN,
         \A node \in M!Nodes(raw, dir) : ~M!Clashes(node),
         seen' = seen \cup M!Fresh(raw, dir)
  PROVE  /\ seen' \subseteq [path : M!Paths, folder : BOOLEAN]
         /\ M!SeenApart' /\ M!SeenBelow' /\ M!Node(M!Spelled(raw), dir) \in seen'
<1> DEFINE s == M!Spelled(raw)
<1>1. s \in M!Paths BY SpelledWell
<1>2. s \in Seq(Composed) /\ Len(s) \in Nat \ {0} BY <1>1, EmptySeq DEF M!Paths, Composed
<1>3. SubSeq(s, 1, Len(s)) = s BY <1>2, SubSeqFull
<1>4. \A node : node \in M!Nodes(raw, dir) <=>
        \E n \in 1 .. Len(s) : /\ node.path = SubSeq(s, 1, n)
                               /\ Flagged(node, n = Len(s), dir)
  BY NodesOf
<1>e. M!Node(s, dir) \in M!Nodes(raw, dir) BY DEF M!Nodes, s
<1> HIDE DEF s
<1>5. ASSUME NEW n \in 1 .. Len(s)
      PROVE  /\ SubSeq(s, 1, n) \in M!Paths /\ Len(SubSeq(s, 1, n)) = n
             /\ \A m \in 1 .. n : SubSeq(SubSeq(s, 1, n), 1, m) = SubSeq(s, 1, m)
  <2>1. /\ SubSeq(s, 1, n) \in Seq(Composed) /\ Len(SubSeq(s, 1, n)) = n
        /\ \A m \in 1 .. n : SubSeq(SubSeq(s, 1, n), 1, m) = SubSeq(s, 1, m)
    BY <1>2, FoldersAbove
  <2>2. n # 0 BY <1>2
  <2>3. SubSeq(s, 1, n) # <<>> BY <2>1, <2>2, EmptySeq
  <2>q. QED BY <2>1, <2>3 DEF M!Paths, Composed
<1>6. M!Nodes(raw, dir) \subseteq [path : M!Paths, folder : BOOLEAN]
  <2>1. SUFFICES ASSUME NEW node \in M!Nodes(raw, dir) PROVE node \in [path : M!Paths, folder : BOOLEAN]
    OBVIOUS
  <2>2. PICK n \in 1 .. Len(s) : /\ node.path = SubSeq(s, 1, n)
                                 /\ Flagged(node, n = Len(s), dir)
    BY <1>4
  <2>3. node.path \in M!Paths BY <1>5, <2>2
  <2>4. \A b \in BOOLEAN : M!Node(node.path, b) \in [path : M!Paths, folder : BOOLEAN] BY <2>3 DEF M!Node
  <2>q. QED BY <2>2, <2>4 DEF Flagged
<1>7. M!Fresh(raw, dir) = {node \in M!Nodes(raw, dir) : ~(node.folder /\ node \in seen)}
  BY DEF M!Fresh, M!Taken
<1>8. M!Nodes(raw, dir) \subseteq seen' BY <1>7
<1>9. ASSUME NEW x \in M!Nodes(raw, dir), NEW y \in M!Nodes(raw, dir), M!Folded(x.path) = M!Folded(y.path)
      PROVE  x = y
  <2>1. PICK n \in 1 .. Len(s) : /\ x.path = SubSeq(s, 1, n)
                                 /\ Flagged(x, n = Len(s), dir)
    BY <1>4
  <2>2. PICK m \in 1 .. Len(s) : /\ y.path = SubSeq(s, 1, m)
                                 /\ Flagged(y, m = Len(s), dir)
    BY <1>4
  <2>3. Len(x.path) = n /\ Len(y.path) = m /\ x.path \in Seq(Composed) /\ y.path \in Seq(Composed)
    BY <2>1, <2>2, <1>5 DEF M!Paths, Composed
  <2>4. Len(M!Folded(x.path)) = n /\ Len(M!Folded(y.path)) = m BY <2>3, FoldedNames
  <2>5. n = m BY <2>4, <1>9
  <2>q. QED BY <2>1, <2>2, <2>5 DEF Flagged
<1>10. ASSUME NEW x \in seen, NEW y \in M!Fresh(raw, dir), M!Folded(x.path) = M!Folded(y.path) PROVE FALSE
  <2>1. y \in M!Nodes(raw, dir) /\ ~(y.folder /\ y \in seen) BY <1>7
  <2>2. ~M!Clashes(y) BY <2>1
  <2>q. QED BY <2>1, <2>2, <1>10 DEF M!Clashes
<1>11. seen' \subseteq [path : M!Paths, folder : BOOLEAN] BY <1>6, <1>7
<1>12. ASSUME NEW x \in seen', NEW y \in seen', M!Folded(x.path) = M!Folded(y.path) PROVE x = y
  <2>1. CASE x \in seen /\ y \in seen BY <2>1, <1>12 DEF M!SeenApart
  <2>2. CASE x \in M!Fresh(raw, dir) /\ y \in M!Fresh(raw, dir) BY <2>2, <1>7, <1>9, <1>12
  <2>3. CASE x \in seen /\ y \in M!Fresh(raw, dir) BY <2>3, <1>10, <1>12
  <2>4. CASE x \in M!Fresh(raw, dir) /\ y \in seen BY <2>4, <1>10, <1>12
  <2>q. QED BY <2>1, <2>2, <2>3, <2>4
<1>13. ASSUME NEW x \in seen', NEW p \in M!Above(x.path) PROVE M!Node(p, TRUE) \in seen'
  <2>1. CASE x \in seen BY <2>1 DEF M!SeenBelow
  <2>2. CASE x \in M!Fresh(raw, dir)
    <3>1. x \in M!Nodes(raw, dir) BY <2>2, <1>7
    <3>2. PICK n \in 1 .. Len(s) : /\ x.path = SubSeq(s, 1, n)
                                   /\ Flagged(x, n = Len(s), dir)
      BY <3>1, <1>4
    <3>3. Len(x.path) = n BY <3>2, <1>5
    <3>4. PICK m \in 1 .. n - 1 : p = SubSeq(x.path, 1, m) BY <3>3 DEF M!Above
    <3>5. m \in 1 .. n /\ m \in 1 .. Len(s) /\ m # Len(s) BY <1>2, <3>4
    <3>6. p = SubSeq(s, 1, m) BY <3>2, <3>4, <3>5, <1>5
    <3>7. M!Node(p, TRUE).path = p BY DEF M!Node
    <3>8. M!Node(p, TRUE) \in M!Nodes(raw, dir) BY <3>5, <3>6, <3>7, <1>4 DEF Flagged
    <3>q. QED BY <3>8, <1>8
  <2>q. QED BY <2>1, <2>2
<1>14. M!SeenApart' BY <1>12 DEF M!SeenApart, M!Folded
<1>15. M!SeenBelow' BY <1>13 DEF M!SeenBelow, M!Above, M!Node
<1>q. QED BY <1>11, <1>14, <1>15, <1>e, <1>8 DEF s

\* A piece given for what was read, or one more of it, leaves in proportion what was.
LEMMA ReadsMore ==
  ASSUME compressed \in Nat, Ratio \in Nat, NEW read \in 0 .. Compressed, M!Reads(read)
  PROVE  /\ read \in Nat /\ compressed * Ratio \in Nat /\ read * Ratio \in Nat
         /\ compressed * Ratio <= read * Ratio
<1>1. read = compressed \/ read = compressed + 1
  BY DEF M!Reads
<1>2. (compressed + 1) * Ratio = compressed * Ratio + Ratio
  OBVIOUS
<1>q. QED BY <1>1, <1>2

\* What the names say of the members.
NamesKept == M!SeenApart /\ M!SeenBelow /\ M!MembersSeen
Named == seen \subseteq [path : M!Paths, folder : BOOLEAN]

\* What the names say stays as long as nothing is named.
LEMMA NamesStay ==
  ASSUME NamesKept, Named, UNCHANGED seen, (kept \cup files)' \subseteq kept \cup files
  PROVE  NamesKept' /\ Named'
BY DEF NamesKept, Named, M!SeenApart, M!SeenBelow, M!MembersSeen, M!Folded, M!Above, M!Node

\* An entry is named: a folder adds no member, a file adds its own.
LEMMA EntryNames ==
  ASSUME M!MembersAssumption, NamesKept, Named, NEW raw \in Spellings, NEW dir \in BOOLEAN,
         raw # <<>>, ~M!Refused(raw, dir), seen' = seen \cup M!Fresh(raw, dir),
         (kept \cup files)' \subseteq (kept \cup files) \cup (IF dir THEN {} ELSE {M!Spelled(raw)})
  PROVE  NamesKept' /\ Named'
<1>1. \A node \in M!Nodes(raw, dir) : ~M!Clashes(node)
  BY DEF M!Refused
<1>2. M!SeenApart' /\ M!SeenBelow' /\ Named' /\ M!Node(M!Spelled(raw), dir) \in seen'
  BY <1>1, EntrySeen DEF NamesKept, Named
<1>3. ASSUME NEW path \in (kept \cup files)' PROVE M!Node(path, FALSE) \in seen'
  <2>1. CASE path \in kept \cup files
    BY <2>1 DEF NamesKept, M!MembersSeen
  <2>2. CASE ~dir /\ path = M!Spelled(raw)
    BY <2>2, <1>2
  <2>q. QED BY <2>1, <2>2
<1>4. M!MembersSeen'
  BY <1>3 DEF M!MembersSeen, M!Node
<1>q. QED BY <1>2, <1>4 DEF NamesKept

\* What comes out of an archive, and what it is counted as.
Counted == {written, skipped, headers, compressed, out} \subseteq Nat
CountInv == Counted /\ M!InProportion /\ M!StaysInProportion

\* The invariant says so of names and of counts.
LEMMA MembersParts == M!IInv <=> NamesKept /\ Named /\ CountInv
BY DEF M!IInv, NamesKept, Named, CountInv, Counted, M!TypeOK

\* A step keeps it that keeps both.
LEMMA MembersKept == ASSUME NamesKept', Named', CountInv' PROVE M!IInv'
BY DEF M!IInv, NamesKept, Named, CountInv, Counted, M!TypeOK

\* Counts stay in proportion where nothing is read.
LEMMA CountsKept ==
  ASSUME CountInv, UNCHANGED <<format, written, skipped, headers, compressed, out>>,
         \/ step' \in {"refused", step}
         \/ step # "refused" /\ step' # "trailing" /\ (step' = "body" => format = "zip")
  PROVE  CountInv'
BY DEF CountInv, Counted, M!InProportion, M!StaysInProportion, M!TooDense

\* An archive is refused: nothing more comes of it.
LEMMA ArchiveRefused == ASSUME M!IInv, M!Refuse PROVE M!IInv'
<1>1. NamesKept' /\ Named'
  BY NamesStay, MembersParts DEF M!Refuse
<1>2. CountInv'
  BY CountsKept, MembersParts DEF M!Refuse
<1>q. QED BY <1>1, <1>2, MembersKept

\* The headers of a member are let go where they are not too dense.
LEMMA HeadersLetGo ==
  ASSUME M!MembersAssumption, CountInv, step # "refused", M!Skip,
         UNCHANGED <<format, written, compressed, out>>,
         step' = "refused" \/ ~M!TooDense(written + skipped + headers, compressed),
         step' = "trailing" => format # "zip"
  PROVE  CountInv'
<1>1. /\ {written, skipped, headers, compressed, out} \subseteq Nat
      /\ {Ratio, RatioFloor, HeadersCap, MostBytes} \subseteq Nat
      /\ skipped' = skipped + headers /\ headers' = 0
  BY DEF M!MembersAssumption, CountInv, Counted, M!Skip
<1>2. compressed * Ratio \in Nat
  BY <1>1
<1>3. /\ out = written + skipped + headers /\ written <= MostBytes /\ headers <= HeadersCap
      /\ M!StaysInProportion
  BY DEF CountInv, M!InProportion
<1>4. M!InProportion'
  BY <1>1, <1>2, <1>3 DEF M!InProportion, M!TooDense
<1>5. M!StaysInProportion'
  BY <1>1, <1>2, <1>3 DEF M!StaysInProportion
<1>6. Counted'
  BY <1>1 DEF Counted
<1>q. QED BY <1>4, <1>5, <1>6 DEF CountInv

\* Headers are counted until there are too many.
LEMMA HeadersCounted ==
  ASSUME M!MembersAssumption, CountInv, step \in {"open", "entry", "trailing"},
         NEW read \in 0 .. Compressed, M!Reads(read), compressed' = read,
         headers' = headers + 1, M!Gives,
         step' = "refused" \/ (headers + 1 <= HeadersCap /\ step' # "body"),
         format # "zip",
         UNCHANGED <<format, written, skipped>>
  PROVE  CountInv'
<1>1. /\ {written, skipped, headers, compressed, out} \subseteq Nat
      /\ {Ratio, RatioFloor, HeadersCap, MostBytes} \subseteq Nat
      /\ out' = out + 1
  BY DEF M!MembersAssumption, CountInv, Counted, M!Gives
<1>2. /\ out = written + skipped + headers /\ written <= MostBytes /\ headers <= HeadersCap
      /\ ~M!TooDense(written + skipped, compressed)
  BY DEF CountInv, M!InProportion
<1>3. read \in Nat /\ compressed * Ratio \in Nat /\ read * Ratio \in Nat
      /\ compressed * Ratio <= read * Ratio
  BY <1>1, ReadsMore
<1>4. written + skipped < RatioFloor \/ written + skipped <= compressed * Ratio
  BY <1>1, <1>2, <1>3 DEF M!TooDense
<1>5. M!InProportion'
  <2>1. ~M!TooDense(written + skipped, read)
    BY <1>1, <1>3, <1>4 DEF M!TooDense
  <2>2. ~M!TooDense(written' + skipped', compressed')
    BY <2>1
  <2>q. QED BY <1>1, <1>2, <2>2 DEF M!InProportion, M!TooDense
<1>6. M!StaysInProportion'
  BY <1>1, <1>2, <1>3, <1>4 DEF M!StaysInProportion
<1>7. Counted'
  BY <1>1, <1>3 DEF Counted
<1>q. QED BY <1>5, <1>6, <1>7 DEF CountInv

\* A piece of a member is counted, and is the last where there is too much.
LEMMA PieceWritten == ASSUME M!MembersAssumption, M!IInv, M!Piece PROVE M!IInv'
<1>1. PICK read \in 0 .. Compressed :
        /\ M!Reads(read) /\ compressed' = read
        /\ written' = written + 1 /\ M!Gives
        /\ step' = IF written + 1 > MostBytes \/ M!TooDense(written + 1 + skipped, read)
                   THEN "refused" ELSE "body"
  BY DEF M!Piece
<1>2. NamesKept' /\ Named'
  BY NamesStay, MembersParts DEF M!Piece
<1>3. CountInv
  BY MembersParts
<1>4. /\ {written, skipped, headers, compressed, out} \subseteq Nat
      /\ {Ratio, RatioFloor, HeadersCap, MostBytes} \subseteq Nat
      /\ out' = out + 1
  BY <1>1, <1>3 DEF M!MembersAssumption, CountInv, Counted, M!Gives
<1>5. /\ out = written + skipped + headers /\ written <= MostBytes /\ headers = 0
      /\ ~M!TooDense(written + skipped, compressed)
  BY <1>3 DEF CountInv, M!InProportion, M!Piece
<1>6. read \in Nat /\ compressed * Ratio \in Nat /\ read * Ratio \in Nat
      /\ compressed * Ratio <= read * Ratio
  BY <1>1, <1>4, ReadsMore
<1>7. written + skipped < RatioFloor \/ written + skipped <= compressed * Ratio
  BY <1>4, <1>5, <1>6 DEF M!TooDense
<1>8. UNCHANGED <<format, skipped, headers>>
  BY DEF M!Piece
<1>9. M!InProportion'
  <2>1. step' # "refused" => written + 1 <= MostBytes /\ ~M!TooDense(written + 1 + skipped, read)
    BY <1>1, <1>4
  <2>2. step' # "refused" => written' <= MostBytes /\ ~M!TooDense(written' + skipped', compressed')
    BY <2>1, <1>1, <1>8
  <2>3. out' = written' + skipped' + headers'
    BY <1>1, <1>4, <1>5, <1>8
  <2>4. step' # "trailing"
    BY <1>1
  <2>q. QED BY <1>4, <1>5, <1>8, <2>2, <2>3, <2>4 DEF M!InProportion, M!TooDense
<1>10. M!StaysInProportion'
  BY <1>1, <1>4, <1>5, <1>6, <1>7, <1>8 DEF M!StaysInProportion
<1>11. Counted'
  BY <1>1, <1>4, <1>6, <1>8 DEF Counted
<1>q. QED BY <1>2, <1>9, <1>10, <1>11, MembersKept DEF CountInv

\* Headers are read before an entry.
LEMMA HeadersRead == ASSUME M!MembersAssumption, M!IInv, M!Header PROVE M!IInv'
<1>1. NamesKept' /\ Named'
  BY NamesStay, MembersParts DEF M!Header
<1>2. headers \in Nat /\ HeadersCap \in Nat /\ CountInv
  BY MembersParts DEF M!MembersAssumption, CountInv, Counted
<1>3. PICK read \in 0 .. Compressed :
        /\ M!Reads(read) /\ compressed' = read
        /\ headers' = headers + 1 /\ M!Gives
        /\ step' = IF headers + 1 > HeadersCap THEN "refused" ELSE "entry"
  BY DEF M!Header
<1>4. step' = "refused" \/ (headers + 1 <= HeadersCap /\ step' # "body")
  BY <1>2, <1>3
<1>5. step \in {"open", "entry", "trailing"} /\ format # "zip" /\ UNCHANGED <<format, written, skipped>>
  BY DEF M!Header
<1>6. CountInv'
  BY <1>2, <1>3, <1>4, <1>5, HeadersCounted
<1>q. QED BY <1>1, <1>6, MembersKept

\* What follows the end of a compressed tar is read like headers, and let go.
LEMMA TrailingRead == ASSUME M!MembersAssumption, M!IInv, M!Trailing PROVE M!IInv'
<1>1. NamesKept' /\ Named'
  BY NamesStay, MembersParts DEF M!Trailing
<1>2. headers \in Nat /\ HeadersCap \in Nat /\ CountInv /\ format # "zip"
  BY MembersParts DEF M!MembersAssumption, CountInv, Counted, M!InProportion, M!Trailing
<1>3. step = "trailing" /\ UNCHANGED <<format, written>>
  BY DEF M!Trailing
<1>4. ASSUME NEW read \in 0 .. Compressed, M!Reads(read), compressed' = read, headers' = headers + 1,
             M!Gives, step' = IF headers + 1 > HeadersCap THEN "refused" ELSE "trailing",
             UNCHANGED skipped
      PROVE  CountInv'
  <2>1. step' = "refused" \/ (headers + 1 <= HeadersCap /\ step' # "body")
    BY <1>2, <1>4
  <2>2. step \in {"open", "entry", "trailing"} /\ format # "zip"
    BY <1>2, <1>3
  <2>q. QED BY <1>2, <1>3, <1>4, <2>1, <2>2, HeadersCounted
<1>5. ASSUME M!Skip, step' = IF M!TooDense(written + skipped + headers,
             compressed) THEN "refused" ELSE "done",
             UNCHANGED <<compressed, out>>
      PROVE  CountInv'
  BY <1>2, <1>3, <1>5, HeadersLetGo
<1>6. CountInv'
  BY <1>4, <1>5 DEF M!Trailing
<1>q. QED BY <1>1, <1>6, MembersKept

\* A tar ends: what was read since its last member is let go.
LEMMA TarEnded == ASSUME M!MembersAssumption, M!IInv, M!TarEnds PROVE M!IInv'
<1>1. CASE M!Refuse
  BY <1>1, ArchiveRefused
<1>2. CASE ~M!TooDense(written + skipped + headers, compressed)
  <2>1. NamesKept' /\ Named'
    BY <1>2, NamesStay, MembersParts DEF M!TarEnds
  <2>2. CountInv'
    BY <1>2, HeadersLetGo, MembersParts DEF M!TarEnds
  <2>q. QED BY <2>1, <2>2, MembersKept
<1>q. QED BY <1>1, <1>2 DEF M!TarEnds

\* An entry of a tar is refused, or named and its headers let go.
LEMMA EntryTaken ==
  ASSUME M!MembersAssumption, M!IInv, NEW raw \in Spellings, NEW type \in M!Types, M!Entry(raw, type)
  PROVE  M!IInv'
<1>1. CASE M!Refuse
  BY <1>1, ArchiveRefused
<1>2. CASE ~M!Refuse
  <2>1. /\ ~M!TooDense(written + skipped + headers, compressed)
        /\ type \in {"file", "folder", "global"}
        /\ type = "global" \/ raw = <<>> \/ ~M!Refused(raw, type = "folder")
        /\ M!Skip
        /\ IF type = "global" \/ raw = <<>>
           THEN UNCHANGED <<seen, names>>
           ELSE /\ seen' = seen \cup M!Fresh(raw, type = "folder")
                /\ names' = names + M!Cost(raw, type = "folder")
        /\ IF type = "file" /\ raw # <<>>
           THEN step' = "body" /\ kept' = kept \cup {M!Spelled(raw)}
           ELSE step' = "open" /\ kept' = kept
        /\ UNCHANGED <<format, files, written, compressed, out>>
        /\ step = "entry"
    BY <1>2 DEF M!Entry
  <2>2. CountInv'
    BY <2>1, HeadersLetGo, MembersParts
  <2>3. CASE type = "global" \/ raw = <<>>
    <3>1. NamesKept' /\ Named'
      BY <2>1, <2>3, NamesStay, MembersParts
    <3>q. QED BY <2>2, <3>1, MembersKept
  <2>4. CASE type # "global" /\ raw # <<>>
    <3>1. (type = "folder") \in BOOLEAN /\ (type = "file" => ~(type = "folder"))
      BY Zenon
    <3>2. PICK dir \in BOOLEAN : dir = (type = "folder")
      BY <3>1, Zenon
    <3>3. ~M!Refused(raw, dir) /\ seen' = seen \cup M!Fresh(raw, dir)
      BY <2>1, <2>4, <3>2, Zenon
    <3>4. (kept \cup files)' \subseteq (kept \cup files) \cup (IF dir THEN {} ELSE {M!Spelled(raw)})
      <4>1. CASE type = "folder" BY <4>1, <2>1, <3>2
      <4>2. CASE type = "file" BY <4>2, <2>1, <3>2
      <4>q. QED BY <4>1, <4>2, <2>1, <2>4
    <3>5. NamesKept' /\ Named'
      BY <2>4, <3>3, <3>4, EntryNames, MembersParts
    <3>q. QED BY <2>2, <3>5, MembersKept
  <2>q. QED BY <2>3, <2>4
<1>q. QED BY <1>1, <1>2

\* An entry of a zip is refused, or named and kept for later.
LEMMA EntryChecked ==
  ASSUME M!MembersAssumption, M!IInv, NEW raw \in Spellings, NEW type \in M!Types, M!Checked(raw, type)
  PROVE  M!IInv'
<1>1. CASE M!Refuse
  BY <1>1, ArchiveRefused
<1>2. CASE ~M!Refuse
  <2>1. /\ type \in {"file", "folder"}
        /\ raw = <<>> \/ ~M!Refused(raw, type = "folder")
        /\ IF raw = <<>> THEN UNCHANGED <<seen, names>>
           ELSE /\ seen' = seen \cup M!Fresh(raw, type = "folder")
                /\ names' = names + M!Cost(raw, type = "folder")
        /\ files' = IF type = "file" /\ raw # <<>> THEN files \cup {M!Spelled(raw)} ELSE files
        /\ UNCHANGED <<format, step, kept, written, skipped, headers, compressed, out>>
        /\ step = "open"
    BY <1>2 DEF M!Checked
  <2>2. CountInv'
    BY <2>1, CountsKept, MembersParts
  <2>3. CASE raw = <<>>
    <3>1. NamesKept' /\ Named'
      BY <2>1, <2>3, NamesStay, MembersParts
    <3>q. QED BY <2>2, <3>1, MembersKept
  <2>4. CASE raw # <<>>
    <3>1. (type = "folder") \in BOOLEAN /\ (type = "file" => ~(type = "folder"))
      BY Zenon
    <3>2. PICK dir \in BOOLEAN : dir = (type = "folder")
      BY <3>1, Zenon
    <3>3. ~M!Refused(raw, dir) /\ seen' = seen \cup M!Fresh(raw, dir)
      BY <2>1, <2>4, <3>2, Zenon
    <3>4. (kept \cup files)' \subseteq (kept \cup files) \cup (IF dir THEN {} ELSE {M!Spelled(raw)})
      <4>1. CASE type = "folder" BY <4>1, <2>1, <3>2
      <4>2. CASE type = "file" BY <4>2, <2>1, <3>2
      <4>q. QED BY <4>1, <4>2, <2>1
    <3>5. NamesKept' /\ Named'
      BY <2>4, <3>3, <3>4, EntryNames, MembersParts
    <3>q. QED BY <2>2, <3>5, MembersKept
  <2>q. QED BY <2>3, <2>4
<1>q. QED BY <1>1, <1>2

\* A file of a zip that was named becomes a member.
LEMMA FileRead == ASSUME M!IInv, NEW path \in files, M!ReadFile(path) PROVE M!IInv'
<1>1. NamesKept' /\ Named'
  BY NamesStay, MembersParts DEF M!ReadFile
<1>2. CountInv'
  BY CountsKept, MembersParts DEF M!ReadFile
<1>q. QED BY <1>1, <1>2, MembersKept

\* A member ends, or all of them.
LEMMA MemberEnds == ASSUME M!IInv, M!BodyEnds \/ M!ZipEnds PROVE M!IInv'
<1>1. NamesKept' /\ Named'
  BY NamesStay, MembersParts DEF M!BodyEnds, M!ZipEnds
<1>2. CountInv'
  BY CountsKept, MembersParts DEF M!BodyEnds, M!ZipEnds
<1>q. QED BY <1>1, <1>2, MembersKept

\* At the start nothing is named and nothing came out.
LEMMA MembersInit == ASSUME M!MembersAssumption, M!Init PROVE M!IInv
<1>1. written = 0 /\ skipped = 0 /\ headers = 0 /\ out = 0 /\ compressed \in Nat
  BY DEF M!Init, M!MembersAssumption
<1>2. compressed * Ratio \in Nat /\ Ratio \in Nat /\ RatioFloor \in Nat /\ HeadersCap \in Nat
      /\ MostBytes \in Nat
  BY <1>1 DEF M!MembersAssumption
<1>3. ~M!TooDense(0, compressed) /\ written + skipped = 0
  BY <1>1, <1>2 DEF M!TooDense
<1>4. CountInv
  BY <1>1, <1>2, <1>3 DEF M!Init, CountInv, Counted, M!InProportion, M!StaysInProportion
<1>5. NamesKept /\ Named
  BY DEF M!Init, NamesKept, Named, M!SeenApart, M!SeenBelow, M!MembersSeen
<1>q. QED BY <1>4, <1>5, MembersParts

\* Every step keeps IInv.
LEMMA MembersNext == ASSUME M!MembersAssumption, M!IInv, [M!Next]_(M!vars) PROVE M!IInv'
<1>1. CASE UNCHANGED M!vars
  <2>1. NamesKept' /\ Named'
    BY <1>1, NamesStay, MembersParts DEF M!vars
  <2>2. CountInv'
    BY <1>1, CountsKept, MembersParts DEF M!vars
  <2>q. QED BY <2>1, <2>2, MembersKept
<1>2. CASE M!Breaks
  BY <1>2, ArchiveRefused DEF M!Breaks
<1>q. QED
  BY <1>1, <1>2, EntryTaken, EntryChecked, FileRead, HeadersRead, PieceWritten, MemberEnds, TarEnded,
     TrailingRead DEF M!Next

\* What an archive unpacks to is named apart, and counted, in every state.
THEOREM MembersInvariance == ASSUME M!MembersAssumption PROVE M!Spec => []M!IInv
<1>1. M!Init => M!IInv BY MembersInit
<1>2. M!IInv /\ [M!Next]_(M!vars) => M!IInv' BY MembersNext
<1>q. QED BY <1>1, <1>2, PTL DEF M!Spec

\* Members that are seen, apart and below their folders fit any disk.
LEMMA SeenFit == ASSUME M!IInv PROVE M!MembersFit
<1>1. SUFFICES ASSUME NEW a \in kept, NEW b \in kept
      PROVE  /\ a # b => M!Folded(a) # M!Folded(b) /\ ~M!IsBelow(M!Folded(a), M!Folded(b))
             /\ \A p \in M!Above(a), q \in M!Above(b) : M!Folded(p) = M!Folded(q) => p = q
  BY DEF M!MembersFit
<1>2. M!Node(a, FALSE) \in seen /\ M!Node(b, FALSE) \in seen
  BY DEF M!IInv, M!MembersSeen
<1>3. a \in M!Paths /\ b \in M!Paths
  BY <1>2 DEF M!IInv, M!TypeOK, M!Node
<1>4. \A s \in M!Paths : s \in Seq(Composed) /\ Len(s) \in Nat /\ Len(s) >= 1
  BY EmptySeq, LenProperties DEF M!Paths, Composed
<1>5. ASSUME a # b, M!Folded(a) = M!Folded(b) PROVE FALSE
  BY <1>2, <1>5 DEF M!IInv, M!SeenApart, M!Node
<1>6. ASSUME M!IsBelow(M!Folded(a), M!Folded(b)) PROVE FALSE
  <2>1. Len(M!Folded(a)) = Len(a) /\ Len(M!Folded(b)) = Len(b)
    BY <1>3, <1>4, FoldedNames
  <2>2. Len(b) \in 1 .. Len(a) - 1 /\ Len(b) \in 1 .. Len(a) /\ SubSeq(M!Folded(a), 1,
        Len(b)) = M!Folded(b)
    BY <1>3, <1>4, <1>6, <2>1 DEF M!IsBelow
  <2> DEFINE p == SubSeq(a, 1, Len(b))
  <2>3. M!Folded(p) = M!Folded(b)
    BY <1>3, <1>4, <2>2, FoldedFolders
  <2>4. p \in M!Above(a)
    BY <2>2 DEF M!Above
  <2> HIDE DEF p
  <2>5. M!Node(p, TRUE) \in seen
    BY <1>2, <2>4 DEF M!IInv, M!SeenBelow, M!Node
  <2>6. M!Node(p, TRUE) = M!Node(b, FALSE)
    BY <1>2, <2>3, <2>5 DEF M!IInv, M!SeenApart, M!Node
  <2>q. QED BY <2>6 DEF M!Node
<1>7. ASSUME NEW p \in M!Above(a), NEW q \in M!Above(b), M!Folded(p) = M!Folded(q) PROVE p = q
  <2>1. M!Node(p, TRUE) \in seen /\ M!Node(q, TRUE) \in seen
    BY <1>2 DEF M!IInv, M!SeenBelow, M!Node
  <2>2. M!Node(p, TRUE) = M!Node(q, TRUE)
    BY <1>7, <2>1 DEF M!IInv, M!SeenApart, M!Node
  <2>q. QED BY <2>2 DEF M!Node
<1>q. QED BY <1>5, <1>6, <1>7

\* No two members of an archive that unpacks are one name on a disk, none is in the place of a
\* folder of another, and one folder has one spelling; and no archive fills the disk or keeps the
\* decompressor busy for nothing.
THEOREM UnpacksWell == ASSUME M!MembersAssumption PROVE M!Spec => []UnpacksWithinLimits
<1>1. M!IInv => UnpacksWithinLimits
  BY SeenFit DEF M!IInv, UnpacksWithinLimits
<1>q. QED BY <1>1, MembersInvariance, PTL

-----------------------------------------------------------------------------
(***************************************************************************)
(* Unpacking and swapping, with what is proved of them.                    *)
(***************************************************************************)
UP == INSTANCE UnpackingProofs WITH Runs <- Sharers, Locks <- TRUE, Batched <- TRUE,
        Good <- GoodTree, Changed <- ChangedTree, Refused <- RefusedTree, Parts <- MostParts,
        None <- Nobody
UUP == INSTANCE UnpackingProofs WITH Runs <- Sharers, Locks <- FALSE, Batched <- FALSE,
        Good <- GoodTree, Changed <- ChangedTree, Refused <- RefusedTree, Parts <- MostParts,
        None <- Nobody

SP == INSTANCE SwappingProofs WITH
        volume <- job, placed <- link, source <- record, found <- now, sealed <- pending,
        handle <- lock, dropped <- known, killed <- up,
        Writers <- Sharers

\* A recorded tree has all its members in the cache and is the one the lock pins, and no run's
\* staged members go while it works with them: with the locks of a file system ...
THEOREM WholeLocked ==
  ASSUME UP!UnpackingAssumption PROVE IsOf("locked unpacking") /\ UP!Spec => []UnpackedIsWhole
<1>1. UP!UnpackedIsWhole => U!UnpackedIsWhole
  BY DEF U!UnpackedIsWhole, UP!UnpackedIsWhole, U!RecordedIsWhole, UP!RecordedIsWhole,
         U!StagedStays, UP!StagedStays, U!Members, UP!Members, U!Working, UP!Working
<1>2. U!UnpackedIsWhole /\ component = "locked unpacking" => UnpackedIsWhole
  BY DEF UnpackedIsWhole
<1>3. component = "locked unpacking" /\ [UNCHANGED component]_component
      => (component = "locked unpacking")'
  OBVIOUS
<1>q. QED BY <1>1, <1>2, <1>3, UP!Whole, PTL DEF IsOf

\* ... and without them.
THEOREM WholeUnlocked ==
  ASSUME UUP!UnpackingAssumption PROVE IsOf("unlocked unpacking") /\ UUP!Spec => []UnpackedIsWhole
<1>1. UUP!UnpackedIsWhole => UU!UnpackedIsWhole
  BY DEF UU!UnpackedIsWhole, UUP!UnpackedIsWhole, UU!RecordedIsWhole, UUP!RecordedIsWhole,
         UU!StagedStays, UUP!StagedStays, UU!Members, UUP!Members, UU!Working, UUP!Working
<1>2. UU!UnpackedIsWhole /\ component = "unlocked unpacking" => UnpackedIsWhole
  BY DEF UnpackedIsWhole
<1>3. component = "unlocked unpacking" /\ [UNCHANGED component]_component
      => (component = "unlocked unpacking")'
  OBVIOUS
<1>q. QED BY <1>1, <1>2, <1>3, UUP!Whole, PTL DEF IsOf

\* Whoever says it stored an object did, the name of an object is never empty where volumes link,
\* and files keep their read-only flag, whoever races whom.
THEOREM StaySealed == ASSUME SP!SwappingAssumption PROVE SP!Spec => ObjectsStaySealed
<1>1. [SP!NeverEmpty /\ SP!StoredIsThere' /\ SP!FlagsReturn']_(SP!vars)
      => [component = "swapping" => S!NeverEmpty /\ S!StoredIsThere' /\ S!FlagsReturn']_sealing
  BY DEF sealing, S!NeverEmpty, SP!NeverEmpty, S!StoredIsThere, SP!StoredIsThere, S!FlagsReturn,
         SP!FlagsReturn, S!vars, SP!vars, S!Resting, SP!Resting, S!Good, SP!Good, S!Old, SP!Old,
         S!Procs, SP!Procs, S!Idle, SP!Idle
<1>q. QED BY <1>1, SP!StaySealed, PTL DEF ObjectsStaySealed, SP!ObjectsStaySealed
=============================================================================
