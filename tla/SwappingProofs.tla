--------------------------- MODULE SwappingProofs ----------------------------
(***************************************************************************)
(* Swapping's promises, for any number of writers and kinds of volumes.    *)
(***************************************************************************)
EXTENDS Swapping, TLAPS

\* The volume, the project's file and the old one are what they are.
Kept == UNCHANGED <<volume, placed, found>>

\* At the start everything is sealed but what was edited.
LEMMA InitOK == ASSUME SwappingAssumption, Init PROVE IInv
  BY DEF SwappingAssumption, Init, IInv, TypeOK, KindsOfVolumes, OwnFiles, Handles, ServedWell,
     FlagsAttended, Attended, Unlocking, Excused, Names, Early, Linkless, Served, Restoring,
     Dropping, Good, Files, Procs

\* What every step of a writer or the dropper keeps to: a file is opened, and loses its flag, as
\* the object; and whoever took a flag goes on to give it back, or the file has no name any more.
Mild(p) ==
  /\ \A q \in Procs \ {p} : pc'[q] = pc[q] /\ handle'[q] = handle[q]
  /\ p \in Writers => pc'[p] \notin Dropping /\ (pc'[p] \in Early => pc[p] \in Early)
  /\ p = Dropper => pc'[p] \notin Early \cup Served
  /\ pc'[p] \in Restoring \cup {"clear", "drop clear"} => handle'[p] # Nobody
  /\ object' \in {object, Nobody} \/ (object' = p /\ p \in sealed' /\ pc'[p] \notin Early)
  /\ handle'[p] \in {handle[p], object, Nobody}
  /\ \A x \in sealed : x \in sealed' \/ (x = handle[p] /\ (x \notin Names' \/ Attended(x)'))
  /\ pc[p] \in Restoring => \/ handle[p] \in sealed'
                            \/ pc'[p] \in Restoring /\ handle'[p] = handle[p]
                            \/ ~volume.links /\ object' # handle[p]
  /\ pc[p] \in Unlocking => \/ pc'[p] \in Unlocking
                            \/ object' = Nobody \/ object' \in sealed'
  /\ killed' = killed

\* Who restores a flag has the file open.
LEMMA HandlesKept ==
  ASSUME SwappingAssumption, IInv, NEW p \in Procs, Mild(p) PROVE Handles'
<1>1. \A q \in Procs : pc'[q] \in Restoring \cup {"clear", "drop clear"} => handle'[q] # Nobody
  BY DEF Mild, IInv, Handles
<1>2. pc'[Dropper] \notin Early \cup Served
  BY DEF Mild, IInv, Handles, Procs
<1>3. \A w \in Writers : pc'[w] \notin Dropping
  BY DEF Mild, IInv, Handles, Procs
<1>q. QED BY <1>1, <1>2, <1>3 DEF Handles

\* What was never the object nobody opened.
LEMMA OwnFilesKept ==
  ASSUME SwappingAssumption, IInv, NEW p \in Procs, Mild(p) PROVE OwnFiles'
<1>. SUFFICES ASSUME NEW v \in Writers, pc'[v] \in Early
              PROVE  object' # v /\ v \in sealed' /\ \A q \in Procs : handle'[q] # v
  BY DEF OwnFiles
<1>1. pc[v] \in Early /\ v \in Procs /\ v # Nobody
  BY DEF Procs, SwappingAssumption, Mild
<1>2. object # v /\ v \in sealed /\ \A q \in Procs : handle[q] # v
  BY <1>1 DEF IInv, OwnFiles
<1>q. QED BY <1>1, <1>2 DEF Mild

\* Whose flag is gone is attended.
LEMMA FlagsKept ==
  ASSUME SwappingAssumption, IInv, Kept, NEW p \in Procs, Mild(p) PROVE FlagsAttended'
<1>. SUFFICES ASSUME NEW x \in Names', x \notin sealed', ~killed, ~Excused(x), x \notin sealed
              PROVE  Attended(x)'
  BY DEF FlagsAttended, Excused, Kept, Mild
<1>1. x \in Names
  BY DEF Names, Kept, Mild
<1>2. Attended(x)
  BY <1>1 DEF IInv, FlagsAttended
<1>3. CASE \E q \in Procs : pc[q] \in Restoring /\ handle[q] = x
  <2>1. PICK q \in Procs : pc[q] \in Restoring /\ handle[q] = x
    BY <1>3
  <2>2. CASE q # p
    BY <2>1, <2>2 DEF Attended, Mild
  <2>3. CASE q = p
    <3>1. ~volume.links => placed' = Nobody
      BY DEF IInv, KindsOfVolumes, Kept
    <3>2. ~(~volume.links /\ object' # x)
      BY <3>1 DEF Names
    <3>q. QED BY <2>1, <2>3, <3>2 DEF Attended, Mild
  <2>q. QED BY <2>2, <2>3
<1>4. CASE \E w \in Writers : pc[w] \in Unlocking
  <2>1. PICK w \in Writers : pc[w] \in Unlocking
    BY <1>4
  <2>2. x = object'
    BY <2>1 DEF IInv, KindsOfVolumes, Linkless, Unlocking, Kept, Names, Procs
  <2>3. CASE w = p
    BY <2>1, <2>2, <2>3 DEF Attended, Procs, Names, Mild
  <2>4. CASE w # p
    BY <2>1, <2>4 DEF Attended, Procs, Mild
  <2>q. QED BY <2>3, <2>4
<1>q. QED BY <1>2, <1>3, <1>4 DEF Attended

\* A try to rename is mild, whether it succeeds or not.
LEMMA RenameIsMild ==
  ASSUME SwappingAssumption, IInv, NEW w \in Writers,
         pc[w] \in {"rename", "replace", "again", "last"}, UNCHANGED <<sealed, handle, killed>>,
         \A q \in Procs \ {w} : pc'[q] = pc[q],
         \/ object' = w /\ pc'[w] = "stored"
         \/ object' = object /\ pc'[w] \in {"look", "open", "remove old", "check"},
         pc[w] = "again" => pc'[w] \in {"stored", "remove old"}
  PROVE  Mild(w) /\ w \in Procs
<1>1. w \in Procs /\ w \in sealed
  BY DEF IInv, OwnFiles, Early, Procs
<1>2. pc[w] \in Early /\ pc[w] \notin Restoring /\ pc'[w] \notin Dropping \cup Restoring
      /\ pc'[w] \notin {"clear", "drop clear"}
  BY DEF Early, Restoring, Dropping
<1>3. object' \in {object, Nobody} \/ (object' = w /\ w \in sealed' /\ pc'[w] \notin Early)
  BY <1>1 DEF Early
<1>4. pc[w] \in Unlocking => \/ pc'[w] \in Unlocking
                             \/ object' = Nobody \/ object' \in sealed'
  BY <1>1 DEF Unlocking
<1>q. QED BY <1>1, <1>2, <1>3, <1>4 DEF Mild, SwappingAssumption

\* A link takes an empty name.
LEMMA LinkStep ==
  ASSUME SwappingAssumption, IInv, Kept, NEW w \in Writers, Link(w)
  PROVE  IInv'
<1>m. Mild(w) /\ w \in Procs
  <2>1. w \in Procs /\ killed' = killed
    BY DEF SwappingAssumption, IInv, TypeOK, Procs, Link, Goto, Opens, Closes, Rename, Stays
  <2>2. \A q \in Procs \ {w} : pc'[q] = pc[q] /\ handle'[q] = handle[q]
    BY DEF SwappingAssumption, IInv, TypeOK, Procs, Link, Goto, Opens, Closes, Rename, Stays
  <2>3. pc'[w] \notin Dropping /\ (pc'[w] \in Early => pc[w] \in Early)
    BY DEF SwappingAssumption, IInv, TypeOK, Procs, Early, Dropping, Link, Goto, Opens, Closes,
       Rename, Stays
  <2>4. pc'[w] \in Restoring \cup {"clear", "drop clear"} => handle'[w] # Nobody
    BY ZenonT(40) DEF SwappingAssumption, IInv, TypeOK, Handles, Restoring, Procs, Files, Link, Goto, Opens,
       Closes, Rename, Stays
  <2>5. object' \in {object, Nobody} \/ (object' = w /\ w \in sealed' /\ pc'[w] \notin Early)
    BY DEF SwappingAssumption, IInv, TypeOK, OwnFiles, Early, Procs, Link, Goto, Opens, Closes,
       Rename, Stays
  <2>6. handle'[w] \in {handle[w], object, Nobody}
    BY DEF SwappingAssumption, IInv, TypeOK, Procs, Link, Goto, Opens, Closes, Rename, Stays
  <2>7. \A x \in sealed : x \in sealed' \/ (x = handle[w] /\ (x \notin Names' \/ Attended(x)'))
    BY DEF Link, Goto, Opens, Closes, Rename, Stays
  <2>8. pc[w] \in Restoring => \/ handle[w] \in sealed'
                               \/ pc'[w] \in Restoring /\ handle'[w] = handle[w]
                               \/ ~volume.links /\ object' # handle[w]
    BY DEF SwappingAssumption, IInv, TypeOK, KindsOfVolumes, Handles, Linkless, Dropping, Restoring,
       Procs, Link, Goto, Opens, Closes, Rename, Stays
  <2>9. pc[w] \in Unlocking => pc'[w] \in Unlocking \/ object' = Nobody \/ object' \in sealed'
    BY DEF SwappingAssumption, IInv, TypeOK, OwnFiles, Early, Unlocking, Procs, Link, Goto, Opens,
       Closes, Rename, Stays
  <2>q. QED BY <2>1, <2>2, <2>3, <2>4, <2>5, <2>6, <2>7, <2>8, <2>9 DEF Mild, SwappingAssumption
<1>1. TypeOK'
  BY ZenonT(40) DEF SwappingAssumption, IInv, TypeOK, Handles, Kept, Early, Served, Restoring, Dropping, Files,
     Procs, Link, Goto, Opens, Closes, Rename, Stays
<1>2. KindsOfVolumes'
  BY DEF SwappingAssumption, IInv, TypeOK, KindsOfVolumes, Kept, Linkless, Dropping, Procs, Link,
     Goto, Opens, Closes, Rename, Stays
<1>3. ServedWell'
  BY DEF SwappingAssumption, IInv, TypeOK, KindsOfVolumes, ServedWell, Kept, Linkless, Served, Good,
     Files, Procs, Link, Goto, Opens, Closes, Rename, Stays
<1>q. QED BY <1>m, <1>1, <1>2, <1>3, HandlesKept, OwnFilesKept, FlagsKept DEF IInv

\* A rename puts a sealed file there.
LEMMA RenameNewStep ==
  ASSUME SwappingAssumption, IInv, Kept, NEW w \in Writers, RenameNew(w)
  PROVE  IInv'
<1>m. Mild(w) /\ w \in Procs
  <2>1. /\ pc[w] = "rename" /\ UNCHANGED <<sealed, handle, killed>>
        /\ \A q \in Procs \ {w} : pc'[q] = pc[q]
        /\ \/ object' = w /\ pc'[w] = "stored"
           \/ object' = object /\ pc'[w] = "look"
    BY DEF IInv, TypeOK, Procs, RenameNew, Goto, Rename, Stays
  <2>q. QED BY <2>1, RenameIsMild
<1>1. TypeOK'
  BY DEF SwappingAssumption, IInv, TypeOK, Handles, Kept, Early, Served, Restoring, Dropping, Files,
     Procs, RenameNew, Goto, Opens, Closes, Rename, Stays
<1>2. KindsOfVolumes'
  BY DEF SwappingAssumption, IInv, TypeOK, KindsOfVolumes, Kept, Linkless, Dropping, Procs,
     RenameNew, Goto, Opens, Closes, Rename, Stays
<1>3. ServedWell'
  BY DEF SwappingAssumption, IInv, TypeOK, KindsOfVolumes, ServedWell, Kept, Linkless, Served, Good,
     Files, Procs, RenameNew, Goto, Opens, Closes, Rename, Stays
<1>q. QED BY <1>m, <1>1, <1>2, <1>3, HandlesKept, OwnFilesKept, FlagsKept DEF IInv

\* Who finds the object good needs to do nothing.
LEMMA LookStep ==
  ASSUME SwappingAssumption, IInv, Kept, NEW w \in Writers, Look(w)
  PROVE  IInv'
<1>m. Mild(w) /\ w \in Procs
  BY DEF Mild, SwappingAssumption, Kept, IInv, TypeOK, KindsOfVolumes, OwnFiles, Handles, Names,
     Attended, Early, Served, Linkless, Restoring, Unlocking, Dropping, Files, Procs, Look, Goto,
     Opens, Closes, Rename, Stays
<1>1. TypeOK'
  BY DEF SwappingAssumption, IInv, TypeOK, Handles, Kept, Early, Served, Restoring, Dropping, Files,
     Procs, Look, Goto, Opens, Closes, Rename, Stays
<1>2. KindsOfVolumes'
  BY DEF SwappingAssumption, IInv, TypeOK, KindsOfVolumes, Kept, Linkless, Dropping, Procs, Look,
     Goto, Opens, Closes, Rename, Stays
<1>3. ServedWell'
  BY DEF SwappingAssumption, IInv, TypeOK, KindsOfVolumes, ServedWell, Kept, Linkless, Served, Good,
     Files, Procs, Look, Goto, Opens, Closes, Rename, Stays
<1>q. QED BY <1>m, <1>1, <1>2, <1>3, HandlesKept, OwnFilesKept, FlagsKept DEF IInv

\* A repair puts a good file there.
LEMMA ReplaceStep ==
  ASSUME SwappingAssumption, IInv, Kept, NEW w \in Writers, Replace(w)
  PROVE  IInv'
<1>m. Mild(w) /\ w \in Procs
  <2>1. /\ pc[w] = "replace" /\ UNCHANGED <<sealed, handle, killed>>
        /\ \A q \in Procs \ {w} : pc'[q] = pc[q]
        /\ \/ object' = w /\ pc'[w] = "stored"
           \/ object' = object /\ pc'[w] = "open"
    BY DEF IInv, TypeOK, Procs, Replace, Goto, Rename, Stays
  <2>q. QED BY <2>1, RenameIsMild
<1>1. TypeOK'
  BY DEF SwappingAssumption, IInv, TypeOK, Handles, Kept, Early, Served, Restoring, Dropping, Files,
     Procs, Replace, Goto, Opens, Closes, Rename, Stays
<1>2. KindsOfVolumes'
  BY DEF SwappingAssumption, IInv, TypeOK, KindsOfVolumes, Kept, Linkless, Dropping, Procs, Replace,
     Goto, Opens, Closes, Rename, Stays
<1>3. ServedWell'
  BY DEF SwappingAssumption, IInv, TypeOK, KindsOfVolumes, ServedWell, Kept, Linkless, Served, Good,
     Files, Procs, Replace, Goto, Opens, Closes, Rename, Stays
<1>q. QED BY <1>m, <1>1, <1>2, <1>3, HandlesKept, OwnFilesKept, FlagsKept DEF IInv

\* What is opened has been the object.
LEMMA OpenOldStep ==
  ASSUME SwappingAssumption, IInv, Kept, NEW w \in Writers, OpenOld(w)
  PROVE  IInv'
<1>m. Mild(w) /\ w \in Procs
  <2>1. w \in Procs /\ killed' = killed
    BY DEF SwappingAssumption, IInv, TypeOK, Procs, OpenOld, Goto, Opens, Closes, Rename, Stays
  <2>2. \A q \in Procs \ {w} : pc'[q] = pc[q] /\ handle'[q] = handle[q]
    BY DEF SwappingAssumption, IInv, TypeOK, Procs, OpenOld, Goto, Opens, Closes, Rename, Stays
  <2>3. pc'[w] \notin Dropping /\ (pc'[w] \in Early => pc[w] \in Early)
    BY DEF SwappingAssumption, IInv, TypeOK, Procs, Early, Dropping, OpenOld, Goto, Opens, Closes,
       Rename, Stays
  <2>4. pc'[w] \in Restoring \cup {"clear", "drop clear"} => handle'[w] # Nobody
    BY ZenonT(40) DEF SwappingAssumption, IInv, TypeOK, Handles, Restoring, Procs, Files, OpenOld, Goto, Opens,
       Closes, Rename, Stays
  <2>5. object' \in {object, Nobody} \/ (object' = w /\ w \in sealed' /\ pc'[w] \notin Early)
    BY DEF SwappingAssumption, IInv, TypeOK, OwnFiles, Early, Procs, OpenOld, Goto, Opens, Closes,
       Rename, Stays
  <2>6. handle'[w] \in {handle[w], object, Nobody}
    BY DEF SwappingAssumption, IInv, TypeOK, Procs, OpenOld, Goto, Opens, Closes, Rename, Stays
  <2>7. \A x \in sealed : x \in sealed' \/ (x = handle[w] /\ (x \notin Names' \/ Attended(x)'))
    BY DEF OpenOld, Goto, Opens, Closes, Rename, Stays
  <2>8. pc[w] \in Restoring => \/ handle[w] \in sealed'
                               \/ pc'[w] \in Restoring /\ handle'[w] = handle[w]
                               \/ ~volume.links /\ object' # handle[w]
    BY DEF SwappingAssumption, IInv, TypeOK, KindsOfVolumes, Handles, Linkless, Dropping, Restoring,
       Procs, OpenOld, Goto, Opens, Closes, Rename, Stays
  <2>9. pc[w] \in Unlocking => pc'[w] \in Unlocking \/ object' = Nobody \/ object' \in sealed'
    BY DEF SwappingAssumption, IInv, TypeOK, OwnFiles, Early, Unlocking, Procs, OpenOld, Goto, Opens,
       Closes, Rename, Stays
  <2>q. QED BY <2>1, <2>2, <2>3, <2>4, <2>5, <2>6, <2>7, <2>8, <2>9 DEF Mild, SwappingAssumption
<1>1. TypeOK'
  <2>1. pc' \in [Procs -> Early \cup Served \cup Dropping \cup {"failed", "idle", "done"}]
    BY DEF SwappingAssumption, IInv, TypeOK, Early, Dropping, Procs, OpenOld, Goto, Opens, Closes,
       Rename, Stays
  <2>2. handle' \in [Procs -> Files \cup {Nobody}]
    BY DEF SwappingAssumption, IInv, TypeOK, OpenOld, Goto, Opens, Closes, Rename, Stays
  <2>3. sealed' \subseteq Files /\ object' \in Files \cup {Nobody}
    BY DEF SwappingAssumption, IInv, TypeOK, Handles, Restoring, Procs, OpenOld, Goto, Opens, Closes,
       Rename, Stays
  <2>4. dropped' \in BOOLEAN
    BY DEF IInv, TypeOK, OpenOld
  <2>q. QED BY <2>1, <2>2, <2>3, <2>4 DEF IInv, TypeOK, Kept, OpenOld
<1>2. KindsOfVolumes'
  BY DEF SwappingAssumption, IInv, TypeOK, KindsOfVolumes, Kept, Linkless, Dropping, Procs, OpenOld,
     Goto, Opens, Closes, Rename, Stays
<1>3. ServedWell'
  BY DEF SwappingAssumption, IInv, TypeOK, KindsOfVolumes, ServedWell, Kept, Linkless, Served, Good,
     Files, Procs, OpenOld, Goto, Opens, Closes, Rename, Stays
<1>q. QED BY <1>m, <1>1, <1>2, <1>3, HandlesKept, OwnFilesKept, FlagsKept DEF IInv

\* A flag goes only with a handle, or where the file has no other name.
LEMMA ClearStep ==
  ASSUME SwappingAssumption, IInv, Kept, NEW w \in Writers, Clear(w)
  PROVE  IInv'
<1>m. Mild(w) /\ w \in Procs
  <2>1. w \in Procs /\ killed' = killed
    BY DEF SwappingAssumption, IInv, TypeOK, Procs, Clear, LinksNothing, Goto, Opens, Closes, Rename,
       Stays
  <2>2. \A q \in Procs \ {w} : pc'[q] = pc[q] /\ handle'[q] = handle[q]
    BY DEF SwappingAssumption, IInv, TypeOK, Procs, Clear, LinksNothing, Goto, Opens, Closes, Rename,
       Stays
  <2>3. pc'[w] \notin Dropping /\ (pc'[w] \in Early => pc[w] \in Early)
    BY DEF SwappingAssumption, IInv, TypeOK, Procs, Early, Dropping, Clear, LinksNothing, Goto, Opens,
       Closes, Rename, Stays
  <2>4. pc'[w] \in Restoring \cup {"clear", "drop clear"} => handle'[w] # Nobody
    BY DEF SwappingAssumption, IInv, TypeOK, Handles, Restoring, Procs, Files, Clear, LinksNothing,
       Goto, Opens, Closes, Rename, Stays
  <2>5. object' \in {object, Nobody} \/ (object' = w /\ w \in sealed' /\ pc'[w] \notin Early)
    BY DEF SwappingAssumption, IInv, TypeOK, OwnFiles, Early, Procs, Clear, LinksNothing, Goto, Opens,
       Closes, Rename, Stays
  <2>6. handle'[w] \in {handle[w], object, Nobody}
    BY DEF SwappingAssumption, IInv, TypeOK, Procs, Clear, LinksNothing, Goto, Opens, Closes, Rename,
       Stays
  <2>7. \A x \in sealed : x \in sealed' \/ (x = handle[w] /\ (x \notin Names' \/ Attended(x)'))
    BY DEF SwappingAssumption, IInv, TypeOK, KindsOfVolumes, Kept, Names, Attended, Restoring,
       Unlocking, Procs, Clear, LinksNothing, Goto, Opens, Closes, Rename, Stays
  <2>8. pc[w] \in Restoring => \/ handle[w] \in sealed'
                               \/ pc'[w] \in Restoring /\ handle'[w] = handle[w]
                               \/ ~volume.links /\ object' # handle[w]
    BY DEF SwappingAssumption, IInv, TypeOK, KindsOfVolumes, Handles, Linkless, Dropping, Restoring,
       Procs, Clear, LinksNothing, Goto, Opens, Closes, Rename, Stays
  <2>9. pc[w] \in Unlocking => pc'[w] \in Unlocking \/ object' = Nobody \/ object' \in sealed'
    BY DEF SwappingAssumption, IInv, TypeOK, OwnFiles, Early, Unlocking, Procs, Clear, LinksNothing,
       Goto, Opens, Closes, Rename, Stays
  <2>q. QED BY <2>1, <2>2, <2>3, <2>4, <2>5, <2>6, <2>7, <2>8, <2>9 DEF Mild, SwappingAssumption
<1>1. TypeOK'
  <2>1. pc' \in [Procs -> Early \cup Served \cup Dropping \cup {"failed", "idle", "done"}]
    BY DEF SwappingAssumption, IInv, TypeOK, Early, Dropping, Procs, Clear, LinksNothing, Goto, Opens,
       Closes, Rename, Stays
  <2>2. handle' \in [Procs -> Files \cup {Nobody}]
    BY DEF SwappingAssumption, IInv, TypeOK, Clear, LinksNothing, Goto, Opens, Closes, Rename, Stays
  <2>3. sealed' \subseteq Files /\ object' \in Files \cup {Nobody}
    BY DEF SwappingAssumption, IInv, TypeOK, Handles, Restoring, Procs, Clear, LinksNothing, Goto,
       Opens, Closes, Rename, Stays
  <2>4. dropped' \in BOOLEAN
    BY DEF IInv, TypeOK, Clear
  <2>q. QED BY <2>1, <2>2, <2>3, <2>4 DEF IInv, TypeOK, Kept, Clear
<1>2. KindsOfVolumes'
  BY DEF SwappingAssumption, IInv, TypeOK, KindsOfVolumes, Kept, Linkless, Dropping, Procs, Clear,
     LinksNothing, Goto, Opens, Closes, Rename, Stays
<1>3. ServedWell'
  BY DEF SwappingAssumption, IInv, TypeOK, KindsOfVolumes, ServedWell, Kept, Linkless, Served, Good,
     Files, Procs, Clear, LinksNothing, Goto, Opens, Closes, Rename, Stays
<1>q. QED BY <1>m, <1>1, <1>2, <1>3, HandlesKept, OwnFilesKept, FlagsKept DEF IInv

\* The old file keeps its handle.
LEMMA SwapStep ==
  ASSUME SwappingAssumption, IInv, Kept, NEW w \in Writers, Swap(w)
  PROVE  IInv'
<1>m. Mild(w) /\ w \in Procs
  BY ZenonT(40) DEF Mild, SwappingAssumption, Kept, IInv, TypeOK, KindsOfVolumes, OwnFiles, Handles, Names,
     Attended, Early, Served, Linkless, Restoring, Unlocking, Dropping, Files, Procs, Swap, Goto,
     Opens, Closes, Rename, Stays
<1>1. TypeOK'
  BY DEF SwappingAssumption, IInv, TypeOK, Handles, Kept, Early, Served, Restoring, Dropping, Files,
     Procs, Swap, Goto, Opens, Closes, Rename, Stays
<1>2. KindsOfVolumes'
  BY DEF SwappingAssumption, IInv, TypeOK, KindsOfVolumes, Kept, Linkless, Dropping, Procs, Swap,
     Goto, Opens, Closes, Rename, Stays
<1>3. ServedWell'
  BY DEF SwappingAssumption, IInv, TypeOK, KindsOfVolumes, ServedWell, Kept, Linkless, Served, Good,
     Files, Procs, Swap, Goto, Opens, Closes, Rename, Stays
<1>q. QED BY <1>m, <1>1, <1>2, <1>3, HandlesKept, OwnFilesKept, FlagsKept DEF IInv

\* The flag returns by the handle.
LEMMA RestoreStep ==
  ASSUME SwappingAssumption, IInv, Kept, NEW w \in Writers, Restore(w)
  PROVE  IInv'
<1>m. Mild(w) /\ w \in Procs
  BY DEF Mild, SwappingAssumption, Kept, IInv, TypeOK, KindsOfVolumes, OwnFiles, Handles, Names,
     Attended, Early, Served, Linkless, Restoring, Unlocking, Dropping, Files, Procs, Restore, Goto,
     Opens, Closes, Rename, Stays
<1>1. TypeOK'
  BY DEF SwappingAssumption, IInv, TypeOK, Handles, Kept, Early, Served, Restoring, Dropping, Files,
     Procs, Restore, Goto, Opens, Closes, Rename, Stays
<1>2. KindsOfVolumes'
  BY DEF SwappingAssumption, IInv, TypeOK, KindsOfVolumes, Kept, Linkless, Dropping, Procs, Restore,
     Goto, Opens, Closes, Rename, Stays
<1>3. ServedWell'
  BY DEF SwappingAssumption, IInv, TypeOK, KindsOfVolumes, ServedWell, Kept, Linkless, Served, Good,
     Files, Procs, Restore, Goto, Opens, Closes, Rename, Stays
<1>q. QED BY <1>m, <1>1, <1>2, <1>3, HandlesKept, OwnFilesKept, FlagsKept DEF IInv

\* The second try replaces the file that has no flag.
LEMMA AgainStep ==
  ASSUME SwappingAssumption, IInv, Kept, NEW w \in Writers, Again(w)
  PROVE  IInv'
<1>m. Mild(w) /\ w \in Procs
  <2>1. /\ pc[w] = "again" /\ UNCHANGED <<sealed, handle, killed>>
        /\ \A q \in Procs \ {w} : pc'[q] = pc[q]
        /\ \/ object' = w /\ pc'[w] = "stored"
           \/ object' = object /\ pc'[w] = "remove old"
    BY DEF IInv, TypeOK, Procs, Again, Goto, Rename, Stays
  <2>q. QED BY <2>1, RenameIsMild
<1>1. TypeOK'
  BY DEF SwappingAssumption, IInv, TypeOK, Handles, Kept, Early, Served, Restoring, Dropping, Files,
     Procs, Again, Goto, Opens, Closes, Rename, Stays
<1>2. KindsOfVolumes'
  BY DEF SwappingAssumption, IInv, TypeOK, KindsOfVolumes, Kept, Linkless, Dropping, Procs, Again,
     Goto, Opens, Closes, Rename, Stays
<1>3. ServedWell'
  BY DEF SwappingAssumption, IInv, TypeOK, KindsOfVolumes, ServedWell, Kept, Linkless, Served, Good,
     Files, Procs, Again, Goto, Opens, Closes, Rename, Stays
<1>q. QED BY <1>m, <1>1, <1>2, <1>3, HandlesKept, OwnFilesKept, FlagsKept DEF IInv

\* Only where nothing links is an object taken away.
LEMMA RemoveOldStep ==
  ASSUME SwappingAssumption, IInv, Kept, NEW w \in Writers, RemoveOld(w)
  PROVE  IInv'
<1>m. Mild(w) /\ w \in Procs
  BY ZenonT(40) DEF Mild, SwappingAssumption, Kept, IInv, TypeOK, KindsOfVolumes, OwnFiles, Handles, Names,
     Attended, Early, Served, Linkless, Restoring, Unlocking, Dropping, Files, Procs, RemoveOld,
     Goto, Opens, Closes, Rename, Stays
<1>1. TypeOK'
  BY DEF SwappingAssumption, IInv, TypeOK, Handles, Kept, Early, Served, Restoring, Dropping, Files,
     Procs, RemoveOld, Goto, Opens, Closes, Rename, Stays
<1>2. KindsOfVolumes'
  BY DEF SwappingAssumption, IInv, TypeOK, KindsOfVolumes, Kept, Linkless, Dropping, Procs,
     RemoveOld, Goto, Opens, Closes, Rename, Stays
<1>3. ServedWell'
  BY DEF SwappingAssumption, IInv, TypeOK, KindsOfVolumes, ServedWell, Kept, Linkless, Served, Good,
     Files, Procs, RemoveOld, Goto, Opens, Closes, Rename, Stays
<1>q. QED BY <1>m, <1>1, <1>2, <1>3, HandlesKept, OwnFilesKept, FlagsKept DEF IInv

\* The object gets its flag back.
LEMMA ResealStep ==
  ASSUME SwappingAssumption, IInv, Kept, NEW w \in Writers, Reseal(w)
  PROVE  IInv'
<1>m. Mild(w) /\ w \in Procs
  BY DEF Mild, SwappingAssumption, Kept, IInv, TypeOK, KindsOfVolumes, OwnFiles, Handles, Names,
     Attended, Early, Served, Linkless, Restoring, Unlocking, Dropping, Files, Procs, Reseal, Goto,
     Opens, Closes, Rename, Stays
<1>1. TypeOK'
  BY DEF SwappingAssumption, IInv, TypeOK, Handles, Kept, Early, Served, Restoring, Dropping, Files,
     Procs, Reseal, Goto, Opens, Closes, Rename, Stays
<1>2. KindsOfVolumes'
  BY DEF SwappingAssumption, IInv, TypeOK, KindsOfVolumes, Kept, Linkless, Dropping, Procs, Reseal,
     Goto, Opens, Closes, Rename, Stays
<1>3. ServedWell'
  BY DEF SwappingAssumption, IInv, TypeOK, KindsOfVolumes, ServedWell, Kept, Linkless, Served, Good,
     Files, Procs, Reseal, Goto, Opens, Closes, Rename, Stays
<1>q. QED BY <1>m, <1>1, <1>2, <1>3, HandlesKept, OwnFilesKept, FlagsKept DEF IInv

\* The empty name is taken, unless another repair took it.
LEMMA LastStep ==
  ASSUME SwappingAssumption, IInv, Kept, NEW w \in Writers, Last(w)
  PROVE  IInv'
<1>m. Mild(w) /\ w \in Procs
  <2>1. /\ pc[w] = "last" /\ UNCHANGED <<sealed, handle, killed>>
        /\ \A q \in Procs \ {w} : pc'[q] = pc[q]
        /\ \/ object' = w /\ pc'[w] = "stored"
           \/ object' = object /\ pc'[w] = "check"
    BY DEF IInv, TypeOK, Procs, Last, Goto, Rename, Stays
  <2>q. QED BY <2>1, RenameIsMild
<1>1. TypeOK'
  BY DEF SwappingAssumption, IInv, TypeOK, Handles, Kept, Early, Served, Restoring, Dropping, Files,
     Procs, Last, Renames, Goto, Opens, Closes, Rename, Stays
<1>2. KindsOfVolumes'
  BY DEF SwappingAssumption, IInv, TypeOK, KindsOfVolumes, Kept, Linkless, Dropping, Procs, Last,
     Renames, Goto, Opens, Closes, Rename, Stays
<1>3. ServedWell'
  BY DEF SwappingAssumption, IInv, TypeOK, KindsOfVolumes, ServedWell, Kept, Linkless, Served, Good,
     Files, Procs, Last, Renames, Goto, Opens, Closes, Rename, Stays
<1>q. QED BY <1>m, <1>1, <1>2, <1>3, HandlesKept, OwnFilesKept, FlagsKept DEF IInv

\* Another repair was faster.
LEMMA CheckStep ==
  ASSUME SwappingAssumption, IInv, Kept, NEW w \in Writers, Check(w)
  PROVE  IInv'
<1>m. Mild(w) /\ w \in Procs
  BY DEF Mild, SwappingAssumption, Kept, IInv, TypeOK, KindsOfVolumes, OwnFiles, Handles, Names,
     Attended, Early, Served, Linkless, Restoring, Unlocking, Dropping, Files, Procs, Check, Goto,
     Opens, Closes, Rename, Stays
<1>1. TypeOK'
  BY DEF SwappingAssumption, IInv, TypeOK, Handles, Kept, Early, Served, Restoring, Dropping, Files,
     Procs, Check, Goto, Opens, Closes, Rename, Stays
<1>2. KindsOfVolumes'
  BY DEF SwappingAssumption, IInv, TypeOK, KindsOfVolumes, Kept, Linkless, Dropping, Procs, Check,
     Goto, Opens, Closes, Rename, Stays
<1>3. ServedWell'
  BY DEF SwappingAssumption, IInv, TypeOK, KindsOfVolumes, ServedWell, Kept, Linkless, Served, Good,
     Files, Procs, Check, Goto, Opens, Closes, Rename, Stays
<1>q. QED BY <1>m, <1>1, <1>2, <1>3, HandlesKept, OwnFilesKept, FlagsKept DEF IInv

\* The name of one's own is no name of the object.
LEMMA CleanStep ==
  ASSUME SwappingAssumption, IInv, Kept, NEW w \in Writers, Clean(w)
  PROVE  IInv'
<1>m. Mild(w) /\ w \in Procs
  <2>1. w \in Procs /\ killed' = killed
    BY DEF SwappingAssumption, IInv, TypeOK, Procs, Clean, Goto, Opens, Closes, Rename, Stays
  <2>2. \A q \in Procs \ {w} : pc'[q] = pc[q] /\ handle'[q] = handle[q]
    BY DEF SwappingAssumption, IInv, TypeOK, Procs, Clean, Goto, Opens, Closes, Rename, Stays
  <2>3. pc'[w] \notin Dropping /\ (pc'[w] \in Early => pc[w] \in Early)
    BY DEF SwappingAssumption, IInv, TypeOK, Procs, Early, Dropping, Clean, Goto, Opens, Closes,
       Rename, Stays
  <2>4. pc'[w] \in Restoring \cup {"clear", "drop clear"} => handle'[w] # Nobody
    BY DEF SwappingAssumption, IInv, TypeOK, Handles, Restoring, Procs, Files, Clean, Goto, Opens,
       Closes, Rename, Stays
  <2>5. object' \in {object, Nobody} \/ (object' = w /\ w \in sealed' /\ pc'[w] \notin Early)
    BY DEF SwappingAssumption, IInv, TypeOK, OwnFiles, Early, Procs, Clean, Goto, Opens, Closes,
       Rename, Stays
  <2>6. handle'[w] \in {handle[w], object, Nobody}
    BY DEF SwappingAssumption, IInv, TypeOK, Procs, Clean, Goto, Opens, Closes, Rename, Stays
  <2>7. \A x \in sealed : x \in sealed' \/ (x = handle[w] /\ (x \notin Names' \/ Attended(x)'))
    BY DEF Clean, Goto, Opens, Closes, Rename, Stays
  <2>8. pc[w] \in Restoring => \/ handle[w] \in sealed'
                               \/ pc'[w] \in Restoring /\ handle'[w] = handle[w]
                               \/ ~volume.links /\ object' # handle[w]
    BY DEF SwappingAssumption, IInv, TypeOK, KindsOfVolumes, Handles, Linkless, Dropping, Restoring,
       Procs, Clean, Goto, Opens, Closes, Rename, Stays
  <2>9. pc[w] \in Unlocking => pc'[w] \in Unlocking \/ object' = Nobody \/ object' \in sealed'
    BY DEF SwappingAssumption, IInv, TypeOK, OwnFiles, Early, Unlocking, Procs, Clean, Goto, Opens,
       Closes, Rename, Stays
  <2>q. QED BY <2>1, <2>2, <2>3, <2>4, <2>5, <2>6, <2>7, <2>8, <2>9 DEF Mild, SwappingAssumption
<1>1. TypeOK'
  BY DEF SwappingAssumption, IInv, TypeOK, Handles, Kept, Early, Served, Restoring, Dropping, Files,
     Procs, Clean, Goto, Opens, Closes, Rename, Stays
<1>2. KindsOfVolumes'
  BY DEF SwappingAssumption, IInv, TypeOK, KindsOfVolumes, Kept, Linkless, Dropping, Procs, Clean,
     Goto, Opens, Closes, Rename, Stays
<1>3. ServedWell'
  BY DEF SwappingAssumption, IInv, TypeOK, KindsOfVolumes, ServedWell, Kept, Linkless, Served, Good,
     Files, Procs, Clean, Goto, Opens, Closes, Rename, Stays
<1>q. QED BY <1>m, <1>1, <1>2, <1>3, HandlesKept, OwnFilesKept, FlagsKept DEF IInv

\* A dropped object is told.
LEMMA DropStep ==
  ASSUME SwappingAssumption, IInv, Kept, Drop
  PROVE  IInv'
<1>m. Mild(Dropper) /\ Dropper \in Procs
  <2>1. Dropper \in Procs /\ killed' = killed
    BY DEF SwappingAssumption, IInv, TypeOK, Procs, Drop, LinksNothing, Goto, Opens, Closes, Rename,
       Stays
  <2>2. \A q \in Procs \ {Dropper} : pc'[q] = pc[q] /\ handle'[q] = handle[q]
    BY DEF SwappingAssumption, IInv, TypeOK, Procs, Drop, LinksNothing, Goto, Opens, Closes, Rename,
       Stays
  <2>3. Dropper \notin Writers /\ pc'[Dropper] \notin Early \cup Served
    BY ZenonT(40) DEF SwappingAssumption, IInv, TypeOK, Procs, Early, Served, Drop, LinksNothing, Goto, Opens,
       Closes, Rename, Stays
  <2>4. pc'[Dropper] \in Restoring \cup {"clear", "drop clear"} => handle'[Dropper] # Nobody
    BY ZenonT(40) DEF SwappingAssumption, IInv, TypeOK, Handles, Restoring, Procs, Files, Drop, LinksNothing,
       Goto, Opens, Closes, Rename, Stays
  <2>5. object' \in {object, Nobody} \/ (object' = Dropper /\ Dropper \in sealed' /\ pc'[Dropper] \notin Early)
    BY DEF SwappingAssumption, IInv, TypeOK, OwnFiles, Early, Procs, Drop, LinksNothing, Goto, Opens,
       Closes, Rename, Stays
  <2>6. handle'[Dropper] \in {handle[Dropper], object, Nobody}
    BY DEF SwappingAssumption, IInv, TypeOK, Procs, Drop, LinksNothing, Goto, Opens, Closes, Rename,
       Stays
  <2>7. \A x \in sealed : x \in sealed' \/ (x = handle[Dropper] /\ (x \notin Names' \/ Attended(x)'))
    BY DEF Drop, LinksNothing, Goto, Opens, Closes, Rename, Stays
  <2>8. pc[Dropper] \in Restoring => \/ handle[Dropper] \in sealed'
                                     \/ pc'[Dropper] \in Restoring /\ handle'[Dropper] = handle[Dropper]
                                     \/ ~volume.links /\ object' # handle[Dropper]
    BY DEF SwappingAssumption, IInv, TypeOK, KindsOfVolumes, Handles, Linkless, Dropping, Restoring,
       Procs, Drop, LinksNothing, Goto, Opens, Closes, Rename, Stays
  <2>9. pc[Dropper] \in Unlocking => pc'[Dropper] \in Unlocking \/ object' = Nobody \/ object' \in sealed'
    BY DEF SwappingAssumption, IInv, TypeOK, OwnFiles, Early, Unlocking, Procs, Drop, LinksNothing,
       Goto, Opens, Closes, Rename, Stays
  <2>q. QED BY <2>1, <2>2, <2>3, <2>4, <2>5, <2>6, <2>7, <2>8, <2>9 DEF Mild, SwappingAssumption
<1>1. TypeOK'
  <2>1. pc' \in [Procs -> Early \cup Served \cup Dropping \cup {"failed", "idle", "done"}]
    BY DEF SwappingAssumption, IInv, TypeOK, Early, Dropping, Procs, Drop, LinksNothing, Goto, Opens,
       Closes, Rename, Stays
  <2>2. handle' \in [Procs -> Files \cup {Nobody}]
    BY DEF SwappingAssumption, IInv, TypeOK, Drop, LinksNothing, Goto, Opens, Closes, Rename, Stays
  <2>3. sealed' \subseteq Files /\ object' \in Files \cup {Nobody}
    BY DEF SwappingAssumption, IInv, TypeOK, Handles, Restoring, Procs, Drop, LinksNothing, Goto,
       Opens, Closes, Rename, Stays
  <2>4. dropped' \in BOOLEAN
    BY Zenon DEF IInv, TypeOK, Drop
  <2>q. QED BY <2>1, <2>2, <2>3, <2>4 DEF IInv, TypeOK, Kept, Drop
<1>2. KindsOfVolumes'
  BY DEF SwappingAssumption, IInv, TypeOK, KindsOfVolumes, Kept, Linkless, Dropping, Procs, Drop,
     LinksNothing, Goto, Opens, Closes, Rename, Stays
<1>3. ServedWell'
  BY DEF SwappingAssumption, IInv, TypeOK, KindsOfVolumes, ServedWell, Kept, Linkless, Served, Good,
     Files, Procs, Drop, LinksNothing, Goto, Opens, Closes, Rename, Stays
<1>q. QED BY <1>m, <1>1, <1>2, <1>3, HandlesKept, OwnFilesKept, FlagsKept DEF IInv

\* The flag goes where the file has no other name.
LEMMA DropClearStep ==
  ASSUME SwappingAssumption, IInv, Kept, DropClear
  PROVE  IInv'
<1>m. Mild(Dropper) /\ Dropper \in Procs
  BY DEF Mild, SwappingAssumption, Kept, IInv, TypeOK, KindsOfVolumes, OwnFiles, Handles, Names,
     Attended, Early, Served, Linkless, Restoring, Unlocking, Dropping, Files, Procs, DropClear,
     Goto, Opens, Closes, Rename, Stays
<1>1. TypeOK'
  BY DEF SwappingAssumption, IInv, TypeOK, Handles, Kept, Early, Served, Restoring, Dropping, Files,
     Procs, DropClear, Goto, Opens, Closes, Rename, Stays
<1>2. KindsOfVolumes'
  BY DEF SwappingAssumption, IInv, TypeOK, KindsOfVolumes, Kept, Linkless, Dropping, Procs,
     DropClear, Goto, Opens, Closes, Rename, Stays
<1>3. ServedWell'
  BY DEF SwappingAssumption, IInv, TypeOK, KindsOfVolumes, ServedWell, Kept, Linkless, Served, Good,
     Files, Procs, DropClear, Goto, Opens, Closes, Rename, Stays
<1>q. QED BY <1>m, <1>1, <1>2, <1>3, HandlesKept, OwnFilesKept, FlagsKept DEF IInv

\* It returns if the file stays.
LEMMA DropAgainStep ==
  ASSUME SwappingAssumption, IInv, Kept, DropAgain
  PROVE  IInv'
<1>m. Mild(Dropper) /\ Dropper \in Procs
  BY DEF Mild, SwappingAssumption, Kept, IInv, TypeOK, KindsOfVolumes, OwnFiles, Handles, Names,
     Attended, Early, Served, Linkless, Restoring, Unlocking, Dropping, Files, Procs, DropAgain,
     Goto, Opens, Closes, Rename, Stays
<1>1. TypeOK'
  <2>1. pc' \in [Procs -> Early \cup Served \cup Dropping \cup {"failed", "idle", "done"}]
    BY DEF SwappingAssumption, IInv, TypeOK, Early, Dropping, Procs, DropAgain, Goto, Opens, Closes,
       Rename, Stays
  <2>2. handle' \in [Procs -> Files \cup {Nobody}]
    BY DEF SwappingAssumption, IInv, TypeOK, DropAgain, Goto, Opens, Closes, Rename, Stays
  <2>3. sealed' \subseteq Files /\ object' \in Files \cup {Nobody}
    BY DEF SwappingAssumption, IInv, TypeOK, Handles, Restoring, Procs, DropAgain, Goto, Opens,
       Closes, Rename, Stays
  <2>4. dropped' \in BOOLEAN
    BY Zenon DEF IInv, TypeOK, DropAgain
  <2>q. QED BY <2>1, <2>2, <2>3, <2>4 DEF IInv, TypeOK, Kept, DropAgain
<1>2. KindsOfVolumes'
  BY DEF SwappingAssumption, IInv, TypeOK, KindsOfVolumes, Kept, Linkless, Dropping, Procs,
     DropAgain, Goto, Opens, Closes, Rename, Stays
<1>3. ServedWell'
  BY DEF SwappingAssumption, IInv, TypeOK, KindsOfVolumes, ServedWell, Kept, Linkless, Served, Good,
     Files, Procs, DropAgain, Goto, Opens, Closes, Rename, Stays
<1>q. QED BY <1>m, <1>1, <1>2, <1>3, HandlesKept, OwnFilesKept, FlagsKept DEF IInv

\* Who is killed gives no flag back, but makes no claim either.
LEMMA KillStep ==
  ASSUME SwappingAssumption, IInv, Kept, NEW p \in Procs, Kill(p)
  PROVE  IInv'
<1>1. TypeOK'
  BY DEF SwappingAssumption, Kept, IInv, TypeOK, Early, Served, Dropping, Procs, Kill, Goto, Opens,
     Closes, Rename, Stays
<1>2. KindsOfVolumes'
  BY DEF SwappingAssumption, Kept, IInv, TypeOK, KindsOfVolumes, Linkless, Dropping, Procs, Kill,
     Goto, Opens, Closes, Rename, Stays
<1>3. OwnFiles'
  BY DEF SwappingAssumption, IInv, TypeOK, OwnFiles, Early, Procs, Kill, Goto, Opens, Closes,
     Rename, Stays
<1>4. Handles'
  BY DEF SwappingAssumption, IInv, TypeOK, Handles, Early, Served, Dropping, Restoring, Procs, Kill,
     Goto, Opens, Closes, Rename, Stays
<1>5. ServedWell'
  BY DEF SwappingAssumption, Kept, IInv, TypeOK, KindsOfVolumes, Linkless, ServedWell, Served, Good,
     Procs, Kill, Goto, Opens, Closes, Rename, Stays
<1>6. FlagsAttended'
  BY DEF FlagsAttended, Kill
<1>q. QED BY <1>1, <1>2, <1>3, <1>4, <1>5, <1>6 DEF IInv

\* A step of others changes nothing.
LEMMA StutterStep == ASSUME IInv, UNCHANGED vars PROVE IInv'
  BY DEF vars, IInv, TypeOK, KindsOfVolumes, OwnFiles, Handles, ServedWell, FlagsAttended, Attended,
     Unlocking, Excused, Names, Early, Linkless, Served, Restoring, Dropping, Good, Files, Procs

\* Every step keeps the invariant.
LEMMA NextOK == ASSUME SwappingAssumption PROVE IInv /\ [Next]_vars => IInv'
<1>. SUFFICES ASSUME IInv, [Next]_vars PROVE IInv'
  OBVIOUS
<1>1. CASE UNCHANGED vars
  BY <1>1, StutterStep
<1>2. CASE Next
  <2>0. Kept
    BY <1>2 DEF Next, Kept
  <2>1. ASSUME NEW w \in Writers,
               \/ Link(w) \/ RenameNew(w) \/ Look(w) \/ Replace(w) \/ OpenOld(w) \/ Clear(w)
               \/ Swap(w) \/ Restore(w) \/ Again(w) \/ RemoveOld(w) \/ Reseal(w) \/ Last(w)
               \/ Check(w) \/ Clean(w)
        PROVE  IInv'
    BY <2>0, <2>1, LinkStep, RenameNewStep, LookStep, ReplaceStep, OpenOldStep, ClearStep, SwapStep,
       RestoreStep, AgainStep, RemoveOldStep, ResealStep, LastStep, CheckStep, CleanStep
  <2>2. CASE Drop \/ DropClear \/ DropAgain
    BY <2>0, <2>2, DropStep, DropClearStep, DropAgainStep
  <2>3. CASE \E p \in Procs : Kill(p)
    BY <2>0, <2>3, KillStep
  <2>q. QED BY <1>2, <2>1, <2>2, <2>3 DEF Next
<1>q. QED BY <1>1, <1>2

\* The invariant holds for any number of writers.
THEOREM Invariance == ASSUME SwappingAssumption PROVE Spec => []IInv
<1>1. Init => IInv
  BY InitOK
<1>q. QED BY <1>1, NextOK, PTL DEF Spec

\* Where the volume links, only a drop takes the name away.
LEMMA NameStays == ASSUME SwappingAssumption, IInv, [Next]_vars PROVE NeverEmpty
<1>. SUFFICES ASSUME volume.links, object # Nobody, object' = Nobody PROVE dropped'
  BY DEF NeverEmpty
<1>1. \A w \in Writers : w # Nobody /\ pc[w] # "remove old"
  BY DEF IInv, KindsOfVolumes, Linkless, Procs, SwappingAssumption
<1>q. QED BY <1>1 DEF Next, vars, Link, RenameNew, Look, Replace, OpenOld, Clear, Swap, Restore, Again,
                    RemoveOld, Reseal, Last, Check, Clean, Drop, DropClear, DropAgain, Kill, Rename, Stays

\* Whoever says it stored the object did, and when all rest every file has its flag.
LEMMA RestingOK == ASSUME SwappingAssumption, IInv PROVE StoredIsThere /\ FlagsReturn
<1>1. StoredIsThere
  BY DEF IInv, ServedWell, Served, StoredIsThere, Resting, Idle, Procs
<1>2. FlagsReturn
  BY DEF IInv, FlagsAttended, Attended, Unlocking, Excused, Names, Restoring, FlagsReturn, Resting, Idle, Procs
<1>q. QED BY <1>1, <1>2

\* For any number of writers and any volume: whoever says it stored the object did, the name is never
\* empty in between where the volume links, and the flags of files that have names return.
THEOREM StaySealed == ASSUME SwappingAssumption PROVE Spec => ObjectsStaySealed
<1>1. IInv /\ [Next]_vars /\ IInv' => NeverEmpty /\ StoredIsThere' /\ FlagsReturn'
  <2>1. IInv /\ [Next]_vars => NeverEmpty
    BY NameStays
  <2>2. ASSUME IInv PROVE StoredIsThere /\ FlagsReturn
    BY <2>2, RestingOK
  <2>q. QED BY <2>1, <2>2, PTL
<1>q. QED BY <1>1, Invariance, PTL DEF ObjectsStaySealed, Spec
=============================================================================
