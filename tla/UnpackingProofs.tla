--------------------------- MODULE UnpackingProofs ---------------------------
(***************************************************************************)
(* Unpacking's promise, for any number of runs and members, with and       *)
(* without locks and flushes of the whole file system.                     *)
(***************************************************************************)
EXTENDS Unpacking, TLAPS

\* More or fewer files, or another stage of a member, are of the same types.
LEMMA FilesType ==
  ASSUME NEW f \in Folder, NEW fs \in SUBSET Members
  PROVE  /\ [f EXCEPT !.files = fs] \in Folder /\ [f EXCEPT !.files = fs].files = fs
         /\ [f EXCEPT !.files = fs].name = f.name
  BY DEF Folder

\* There is a last member.
LEMMA LastMember == ASSUME UnpackingAssumption PROVE Parts \in Members
  BY DEF UnpackingAssumption, Members

LEMMA StageType ==
  ASSUME NEW p \in [Members -> Stages], NEW m \in Members, NEW stage \in Stages
  PROVE  [p EXCEPT ![m] = stage] \in [Members -> Stages]
  OBVIOUS

\* At the start no run works and nothing is stored.
LEMMA InitOK == ASSUME UnpackingAssumption, Init PROVE IInv
  BY DEF UnpackingAssumption, Init, NoFolder, Unread, IInv, TypeOK, PartsInStep, FoldersHeld,
     ObjectsWhole, RecordedIsWhole, StagedStays, Stored, Trees, Folder, Stages, Members, Working

\* Sweeping takes nobody's folder who works.
LEMMA SweptFolders ==
  ASSUME UnpackingAssumption, IInv
  PROVE  /\ Swept(folder) \in [Runs -> Folder]
         /\ \A r \in Runs : pc[r] \in Working \ {"record"} => Swept(folder)[r] = folder[r]
<1>1. \A r \in Runs : pc[r] \in Working \ {"record"} => ~Abandoned(folder[r])
  BY DEF IInv, TypeOK, FoldersHeld, Abandoned
<1>2. NoFolder \in Folder
  BY DEF NoFolder, Folder
<1>q. QED BY <1>1, <1>2 DEF Swept, IInv, TypeOK

\* A new folder is its run's own.
LEMMA CreateDirStep ==
  ASSUME UnpackingAssumption, IInv, NEW r \in Runs, CreateDir(r)
  PROVE  IInv'
<1>1. TypeOK'
  BY SweptFolders DEF UnpackingAssumption, IInv, TypeOK, Trees, Folder, Stages, Members, Working,
     CreateDir, NoFolder, Goto, Kept
<1>2. PartsInStep'
  BY SweptFolders DEF UnpackingAssumption, IInv, TypeOK, PartsInStep, Stored, Members, Working,
     CreateDir, NoFolder, Goto, Kept
<1>3. FoldersHeld'
  BY SweptFolders DEF UnpackingAssumption, IInv, TypeOK, FoldersHeld, Working, CreateDir, NoFolder,
     Goto, Kept
<1>4. ObjectsWhole'
  BY SweptFolders DEF UnpackingAssumption, IInv, TypeOK, PartsInStep, ObjectsWhole, Members,
     Working, CreateDir, NoFolder, Goto, Kept
<1>5. RecordedIsWhole'
  BY SweptFolders DEF UnpackingAssumption, IInv, TypeOK, PartsInStep, ObjectsWhole, RecordedIsWhole,
     Stored, Members, Working, CreateDir, NoFolder, Goto, Kept
<1>6. StagedStays'
  BY SweptFolders DEF UnpackingAssumption, IInv, TypeOK, PartsInStep, FoldersHeld, StagedStays,
     Members, Working, CreateDir, NoFolder, Goto, Kept
<1>q. QED BY <1>1, <1>2, <1>3, <1>4, <1>5, <1>6 DEF IInv

\* The run that begins to read has its lock, where there are locks.
LEMMA NameLockStep ==
  ASSUME UnpackingAssumption, IInv, NEW r \in Runs, NameLock(r)
  PROVE  IInv'
<1>a. /\ pc[r] = "open" /\ pc' = [pc EXCEPT ![r] = "read"]
      /\ reads' = [reads EXCEPT ![r] = archive] /\ archive \in Trees /\ archive # None
      /\ UNCHANGED <<Kept, part>>
  BY DEF NameLock, Goto, IInv, TypeOK, Trees, UnpackingAssumption
<1>f. /\ folder' \in [Runs -> Folder]
      /\ \A q \in Runs : q # r => folder'[q] = folder[q]
      /\ \/ folder'[r].name = "lock" /\ folder'[r].held
         \/ folder'[r].name = "unlocked" /\ ~folder'[r].old
  <2>1. PICK f \in [name : {"lock", "unlocked"}, held : BOOLEAN, old : {FALSE}, files : SUBSET Members] :
          folder' = [folder EXCEPT ![r] = f] /\ (f.name = "lock" => f.held)
    <3>. DEFINE f == [folder[r] EXCEPT !.name = IF Locks THEN "lock" ELSE "unlocked",
                                       !.held = Locks, !.old = FALSE]
    <3>1. folder' = [folder EXCEPT ![r] = f]
      BY DEF NameLock, IInv, TypeOK, Folder
    <3>2. folder[r] \in Folder
      BY DEF IInv, TypeOK
    <3>3. f \in [name : {"lock", "unlocked"}, held : BOOLEAN, old : {FALSE}, files : SUBSET Members]
      BY <3>2 DEF Folder, UnpackingAssumption
    <3>4. f.name = "lock" => f.held
      BY <3>2 DEF Folder, UnpackingAssumption
    <3>q. QED BY <3>1, <3>3, <3>4
  <2>2. f \in Folder
    BY DEF Folder
  <2>q. QED BY <2>1, <2>2 DEF IInv, TypeOK
<1>1. TypeOK'
  BY <1>a, <1>f DEF UnpackingAssumption, IInv, TypeOK, Trees, Folder, Stages, Members, Working, Kept
<1>2. PartsInStep'
  <2>1. \A m \in Members : part[r][m] = "unread"
    BY <1>a DEF IInv, PartsInStep, Working
  <2>q. QED BY <1>a, <2>1, LastMember DEF IInv, TypeOK, PartsInStep, Stored, Working, Kept
<1>3. FoldersHeld'
  BY <1>a, <1>f DEF UnpackingAssumption, IInv, TypeOK, FoldersHeld, Working, Kept
<1>4. ObjectsWhole'
  BY <1>a, <1>f DEF UnpackingAssumption, IInv, TypeOK, PartsInStep, ObjectsWhole, Members, Working,
     Kept
<1>5. RecordedIsWhole'
  BY <1>a, <1>f DEF UnpackingAssumption, IInv, TypeOK, PartsInStep, ObjectsWhole, RecordedIsWhole,
     Stored, Members, Working, Kept
<1>6. StagedStays'
  BY <1>a, <1>f DEF UnpackingAssumption, IInv, TypeOK, PartsInStep, FoldersHeld, StagedStays,
     Members, Working, Kept
<1>q. QED BY <1>1, <1>2, <1>3, <1>4, <1>5, <1>6 DEF IInv

\* A day passes over no folder of a run that works.
LEMMA AgeStep ==
  ASSUME UnpackingAssumption, IInv, NEW r \in Runs, Age(r)
  PROVE  IInv'
<1>1. TypeOK'
  BY ZenonT(40) DEF UnpackingAssumption, IInv, TypeOK, Trees, Folder, Stages, Members, Working, Age, Goto, Kept
<1>2. PartsInStep'
  BY DEF UnpackingAssumption, IInv, TypeOK, PartsInStep, Stored, Members, Working, Age, Goto, Kept
<1>3. FoldersHeld'
  BY DEF UnpackingAssumption, IInv, TypeOK, FoldersHeld, Working, Age, Goto, Kept
<1>4. ObjectsWhole'
  BY DEF UnpackingAssumption, IInv, TypeOK, PartsInStep, ObjectsWhole, Members, Working, Age, Goto,
     Kept
<1>5. RecordedIsWhole'
  BY DEF UnpackingAssumption, IInv, TypeOK, PartsInStep, ObjectsWhole, RecordedIsWhole, Stored,
     Members, Working, Age, Goto, Kept
<1>6. StagedStays'
  BY DEF UnpackingAssumption, IInv, TypeOK, PartsInStep, FoldersHeld, StagedStays, Members, Working,
     Age, Goto, Kept
<1>q. QED BY <1>1, <1>2, <1>3, <1>4, <1>5, <1>6 DEF IInv

\* The members of an archive that is refused are never all read.
LEMMA KeepStep ==
  ASSUME UnpackingAssumption, IInv, NEW r \in Runs, Keep(r)
  PROVE  IInv'
<1>a. /\ pc[r] = "read" /\ UNCHANGED <<Kept, pc, reads>>
      /\ \E m \in Members : \E stage \in {"queued", "spilled"} :
            /\ part[r][m] = "unread" /\ (reads[r] = Refused => m < Parts)
            /\ part' = [part EXCEPT ![r] = [part[r] EXCEPT ![m] = stage]]
            /\ \/ stage = "queued" /\ folder' = folder
               \/ stage = "spilled" /\ folder' = [folder EXCEPT ![r] = [folder[r] EXCEPT !.files = folder[r].files \cup {m}]]
  BY DEF Keep
<1>1. TypeOK'
  <2>1. PICK m \in Members, stage \in {"queued", "spilled"} :
            /\ part' = [part EXCEPT ![r] = [part[r] EXCEPT ![m] = stage]]
            /\ \/ stage = "queued" /\ folder' = folder
               \/ /\ stage = "spilled"
                  /\ folder' = [folder EXCEPT ![r] = [folder[r] EXCEPT !.files = folder[r].files \cup {m}]]
    BY <1>a
  <2>2. stage \in Stages /\ part[r] \in [Members -> Stages] /\ folder[r] \in Folder
    BY DEF Stages, IInv, TypeOK
  <2>3. folder[r].files \cup {m} \in SUBSET Members
    BY <2>2 DEF Folder
  <2>4. /\ [folder[r] EXCEPT !.files = folder[r].files \cup {m}] \in Folder
        /\ [part[r] EXCEPT ![m] = stage] \in [Members -> Stages]
    BY <2>2, <2>3, FilesType, StageType
  <2>q. QED BY ZenonT(40), <1>a, <2>1, <2>4 DEF IInv, TypeOK, Kept
<1>2. PartsInStep'
  BY <1>a DEF UnpackingAssumption, IInv, TypeOK, PartsInStep, Stored, Members, Working, Kept
<1>3. FoldersHeld'
  <2>1. folder'[r].name = folder[r].name /\ folder'[r].held = folder[r].held
        /\ folder'[r].old = folder[r].old /\ \A q \in Runs : q # r => folder'[q] = folder[q]
    BY <1>a DEF IInv, TypeOK, Folder
  <2>q. QED BY <1>a, <2>1 DEF IInv, FoldersHeld
<1>4. ObjectsWhole'
  BY <1>a DEF UnpackingAssumption, IInv, TypeOK, PartsInStep, ObjectsWhole, Members, Working, Kept
<1>5. RecordedIsWhole'
  BY <1>a DEF UnpackingAssumption, IInv, TypeOK, PartsInStep, ObjectsWhole, RecordedIsWhole, Stored,
     Members, Working, Kept
<1>6. StagedStays'
  <2>1. PICK m \in Members, stage \in {"queued", "spilled"} :
            /\ part' = [part EXCEPT ![r] = [part[r] EXCEPT ![m] = stage]]
            /\ \/ stage = "queued" /\ folder' = folder
               \/ /\ stage = "spilled"
                  /\ folder' = [folder EXCEPT ![r] = [folder[r] EXCEPT !.files = folder[r].files \cup {m}]]
    BY <1>a
  <2>2. CASE stage = "queued"
    BY <1>a, <2>1, <2>2 DEF IInv, TypeOK, StagedStays
  <2>3. CASE stage = "spilled"
    BY <1>a, <2>1, <2>3 DEF IInv, TypeOK, Folder, StagedStays
  <2>q. QED BY <2>2, <2>3
<1>q. QED BY <1>1, <1>2, <1>3, <1>4, <1>5, <1>6 DEF IInv

\* Without a flush of everything each member is flushed.
LEMMA SealStep ==
  ASSUME UnpackingAssumption, IInv, NEW r \in Runs, NEW m \in Members, Seal(r, m)
  PROVE  IInv'
<1>a. /\ pc[r] = "read" /\ part[r][m] \in {"queued", "spilled"} /\ UNCHANGED <<Kept, pc, reads>>
      /\ \E stage \in {"sealed", "lost", "safe"} :
            /\ part' = [part EXCEPT ![r] = [part[r] EXCEPT ![m] = stage]]
            /\ ~Batched => stage = "safe"
      /\ folder' = [folder EXCEPT ![r] = [folder[r] EXCEPT !.files = folder[r].files \cup {m}]]
  BY DEF Seal, UnpackingAssumption
<1>1. TypeOK'
  <2>1. PICK stage \in {"sealed", "lost", "safe"} :
            part' = [part EXCEPT ![r] = [part[r] EXCEPT ![m] = stage]]
    BY <1>a
  <2>2. stage \in Stages /\ part[r] \in [Members -> Stages] /\ folder[r] \in Folder
    BY DEF Stages, IInv, TypeOK
  <2>3. folder[r].files \cup {m} \in SUBSET Members
    BY <2>2 DEF Folder
  <2>4. /\ [folder[r] EXCEPT !.files = folder[r].files \cup {m}] \in Folder
        /\ [part[r] EXCEPT ![m] = stage] \in [Members -> Stages]
    BY <2>2, <2>3, FilesType, StageType
  <2>q. QED BY <1>a, <2>1, <2>4 DEF IInv, TypeOK, Kept
<1>2. PartsInStep'
  BY <1>a DEF UnpackingAssumption, IInv, TypeOK, PartsInStep, Stored, Members, Working, Kept
<1>3. FoldersHeld'
  BY <1>a DEF UnpackingAssumption, IInv, TypeOK, FoldersHeld, Working, Kept
<1>4. ObjectsWhole'
  BY <1>a DEF UnpackingAssumption, IInv, TypeOK, PartsInStep, ObjectsWhole, Members, Working, Kept
<1>5. RecordedIsWhole'
  BY <1>a DEF UnpackingAssumption, IInv, TypeOK, PartsInStep, ObjectsWhole, RecordedIsWhole, Stored,
     Members, Working, Kept
<1>6. StagedStays'
  BY <1>a DEF UnpackingAssumption, IInv, TypeOK, PartsInStep, FoldersHeld, StagedStays, Members,
     Working, Kept
<1>q. QED BY <1>1, <1>2, <1>3, <1>4, <1>5, <1>6 DEF IInv

\* All members are sealed, so the archive is not refused.
LEMMA JoinedStep ==
  ASSUME UnpackingAssumption, IInv, NEW r \in Runs, Joined(r)
  PROVE  IInv'
<1>1. TypeOK'
  BY DEF UnpackingAssumption, IInv, TypeOK, Trees, Folder, Stages, Members, Working, Joined, Goto,
     Kept
<1>2. PartsInStep'
  BY DEF UnpackingAssumption, IInv, TypeOK, PartsInStep, Stored, Members, Working, Joined, Goto,
     Kept
<1>3. FoldersHeld'
  BY DEF UnpackingAssumption, IInv, TypeOK, FoldersHeld, Working, Joined, Goto, Kept
<1>4. ObjectsWhole'
  BY DEF UnpackingAssumption, IInv, TypeOK, PartsInStep, ObjectsWhole, Members, Working, Joined,
     Goto, Kept
<1>5. RecordedIsWhole'
  BY DEF UnpackingAssumption, IInv, TypeOK, PartsInStep, ObjectsWhole, RecordedIsWhole, Stored,
     Members, Working, Joined, Goto, Kept
<1>6. StagedStays'
  BY DEF UnpackingAssumption, IInv, TypeOK, PartsInStep, FoldersHeld, StagedStays, Members, Working,
     Joined, Goto, Kept
<1>q. QED BY <1>1, <1>2, <1>3, <1>4, <1>5, <1>6 DEF IInv

\* A flush that reports nothing took all members.
LEMMA FlushStep ==
  ASSUME UnpackingAssumption, IInv, NEW r \in Runs, Flush(r)
  PROVE  IInv'
<1>1. TypeOK'
  BY DEF UnpackingAssumption, IInv, TypeOK, Trees, Folder, Stages, Members, Working, Flush,
     FlushReports, Goto, Kept
<1>2. PartsInStep'
  BY DEF UnpackingAssumption, IInv, TypeOK, PartsInStep, Stored, Members, Working, Flush,
     FlushReports, Goto, Kept
<1>3. FoldersHeld'
  BY DEF UnpackingAssumption, IInv, TypeOK, FoldersHeld, Working, Flush, FlushReports, Goto, Kept
<1>4. ObjectsWhole'
  BY DEF UnpackingAssumption, IInv, TypeOK, PartsInStep, ObjectsWhole, Members, Working, Flush,
     FlushReports, Goto, Kept
<1>5. RecordedIsWhole'
  BY DEF UnpackingAssumption, IInv, TypeOK, PartsInStep, ObjectsWhole, RecordedIsWhole, Stored,
     Members, Working, Flush, FlushReports, Goto, Kept
<1>6. StagedStays'
  BY DEF UnpackingAssumption, IInv, TypeOK, PartsInStep, FoldersHeld, StagedStays, Members, Working,
     Flush, FlushReports, Goto, Kept
<1>q. QED BY <1>1, <1>2, <1>3, <1>4, <1>5, <1>6 DEF IInv

\* A member that was flushed gets its name, unless the same one has it.
LEMMA PublishStep ==
  ASSUME UnpackingAssumption, IInv, NEW r \in Runs, NEW m \in Members, Publish(r, m)
  PROVE  IInv'
<1>a. /\ pc[r] = "publish" /\ m \in folder[r].files /\ part[r][m] = "safe"
      /\ part' = [part EXCEPT ![r] = [part[r] EXCEPT ![m] = "published"]]
      /\ folder' = [folder EXCEPT ![r] = [folder[r] EXCEPT !.files = folder[r].files \ {m}]]
      /\ UNCHANGED <<archive, pinned, record, pc, reads>>
      /\ reads[r] \in Trees \ {Refused}
  BY DEF Publish, IInv, TypeOK, PartsInStep, Working, Trees
<1>b. objects' = objects \cup {[tree |-> reads[r], part |-> m, safe |-> TRUE]}
  <2>1. CASE \E o \in objects : o.tree = reads[r] /\ o.part = m
    <3>1. PICK o \in objects : o.tree = reads[r] /\ o.part = m
      BY <2>1
    <3>2. o.safe = TRUE /\ o \in [tree : Trees, part : Members, safe : BOOLEAN]
      BY <3>1 DEF IInv, TypeOK, ObjectsWhole
    <3>3. o = [tree |-> reads[r], part |-> m, safe |-> TRUE]
      BY <3>1, <3>2
    <3>q. QED BY <2>1, <3>1, <3>3 DEF Publish
  <2>2. CASE ~\E o \in objects : o.tree = reads[r] /\ o.part = m
    <3>1. (part[r][m] = "safe") = TRUE
      BY <1>a
    <3>q. QED BY <2>2, <3>1 DEF Publish
  <2>q. QED BY <2>1, <2>2
<1>c. [tree |-> reads[r], part |-> m, safe |-> TRUE] \in [tree : Trees, part : Members, safe : BOOLEAN]
  BY <1>a
<1>1. TypeOK'
  <2>1. "published" \in Stages /\ part[r] \in [Members -> Stages] /\ folder[r] \in Folder
    BY DEF Stages, IInv, TypeOK
  <2>2. folder[r].files \ {m} \in SUBSET Members
    BY <2>1 DEF Folder
  <2>3. /\ [folder[r] EXCEPT !.files = folder[r].files \ {m}] \in Folder
        /\ [part[r] EXCEPT ![m] = "published"] \in [Members -> Stages]
    BY <2>1, <2>2, FilesType, StageType
  <2>q. QED BY <1>a, <1>b, <1>c, <2>3 DEF IInv, TypeOK
<1>2. PartsInStep'
  <2>1. /\ reads' = reads /\ pc' = pc
        /\ \A q \in Runs, n \in Members :
              part'[q][n] = IF q = r /\ n = m THEN "published" ELSE part[q][n]
    BY <1>a DEF IInv, TypeOK
  <2>2. \A q \in Runs, n \in Members : part'[q][n] = "published" => Stored(reads[q], n)'
    BY <1>b, <2>1 DEF IInv, PartsInStep, Stored
  <2>q. QED BY <1>a, <2>1, <2>2, LastMember DEF IInv, PartsInStep, Working
<1>3. FoldersHeld'
  BY <1>a, <1>b, <1>c DEF UnpackingAssumption, IInv, TypeOK, FoldersHeld, Working, Kept
<1>4. ObjectsWhole'
  BY <1>a, <1>b, <1>c DEF UnpackingAssumption, IInv, TypeOK, PartsInStep, ObjectsWhole, Members,
     Working, Kept
<1>5. RecordedIsWhole'
  BY <1>a, <1>b, <1>c DEF UnpackingAssumption, IInv, TypeOK, PartsInStep, ObjectsWhole,
     RecordedIsWhole, Stored, Members, Working, Kept
<1>6. StagedStays'
  BY <1>a, <1>b, <1>c DEF UnpackingAssumption, IInv, TypeOK, PartsInStep, FoldersHeld, StagedStays,
     Members, Working, Kept
<1>q. QED BY <1>1, <1>2, <1>3, <1>4, <1>5, <1>6 DEF IInv

\* All members are published.
LEMMA PublishedStep ==
  ASSUME UnpackingAssumption, IInv, NEW r \in Runs, Published(r)
  PROVE  IInv'
<1>1. TypeOK'
  BY DEF UnpackingAssumption, IInv, TypeOK, Trees, Folder, Stages, Members, Working, Published,
     NoFolder, Goto, Kept
<1>2. PartsInStep'
  BY DEF UnpackingAssumption, IInv, TypeOK, PartsInStep, Stored, Members, Working, Published,
     NoFolder, Goto, Kept
<1>3. FoldersHeld'
  BY DEF UnpackingAssumption, IInv, TypeOK, FoldersHeld, Working, Published, NoFolder, Goto, Kept
<1>4. ObjectsWhole'
  BY DEF UnpackingAssumption, IInv, TypeOK, PartsInStep, ObjectsWhole, Members, Working, Published,
     NoFolder, Goto, Kept
<1>5. RecordedIsWhole'
  BY DEF UnpackingAssumption, IInv, TypeOK, PartsInStep, ObjectsWhole, RecordedIsWhole, Stored,
     Members, Working, Published, NoFolder, Goto, Kept
<1>6. StagedStays'
  BY DEF UnpackingAssumption, IInv, TypeOK, PartsInStep, FoldersHeld, StagedStays, Members, Working,
     Published, NoFolder, Goto, Kept
<1>q. QED BY <1>1, <1>2, <1>3, <1>4, <1>5, <1>6 DEF IInv

\* Who fails publishes nothing more.
LEMMA FailStep ==
  ASSUME UnpackingAssumption, IInv, NEW r \in Runs, Fail(r)
  PROVE  IInv'
<1>1. TypeOK'
  BY DEF UnpackingAssumption, IInv, TypeOK, Trees, Folder, Stages, Members, Working, Fail, Clear,
     Unread, NoFolder, Goto, Kept
<1>2. PartsInStep'
  BY DEF UnpackingAssumption, IInv, TypeOK, PartsInStep, Stored, Members, Working, Fail, Clear,
     Unread, NoFolder, Goto, Kept
<1>3. FoldersHeld'
  BY DEF UnpackingAssumption, IInv, TypeOK, FoldersHeld, Working, Fail, Clear, Unread, NoFolder,
     Goto, Kept
<1>4. ObjectsWhole'
  BY DEF UnpackingAssumption, IInv, TypeOK, PartsInStep, ObjectsWhole, Members, Working, Fail,
     Clear, Unread, NoFolder, Goto, Kept
<1>5. RecordedIsWhole'
  BY DEF UnpackingAssumption, IInv, TypeOK, PartsInStep, ObjectsWhole, RecordedIsWhole, Stored,
     Members, Working, Fail, Clear, Unread, NoFolder, Goto, Kept
<1>6. StagedStays'
  BY DEF UnpackingAssumption, IInv, TypeOK, PartsInStep, FoldersHeld, StagedStays, Members, Working,
     Fail, Clear, Unread, NoFolder, Goto, Kept
<1>q. QED BY <1>1, <1>2, <1>3, <1>4, <1>5, <1>6 DEF IInv

\* The tree that is recorded is pinned, now or before.
LEMMA RecordStep ==
  ASSUME UnpackingAssumption, IInv, NEW r \in Runs, Record(r)
  PROVE  IInv'
<1>a. /\ pc[r] = "record" /\ reads[r] \in Trees /\ UNCHANGED <<archive, objects>>
      /\ folder' = [folder EXCEPT ![r] = NoFolder] /\ part' = [part EXCEPT ![r] = Unread]
      /\ reads' = [reads EXCEPT ![r] = None]
      /\ \/ /\ pinned \in {None, reads[r]} /\ pinned' = reads[r] /\ record' = reads[r]
            /\ pc' = [pc EXCEPT ![r] = "idle"]
         \/ UNCHANGED <<record, pinned>> /\ pc' = [pc EXCEPT ![r] = "verify"]
  BY DEF Record, Records, Clear, Goto, IInv, TypeOK, PartsInStep, Working
<1>b. /\ NoFolder \in Folder
      /\ Unread \in [Members -> Stages] /\ \A m \in Members : Unread[m] = "unread"
  BY DEF NoFolder, Folder, Unread, Stages
<1>1. TypeOK'
  BY <1>a, <1>b DEF UnpackingAssumption, IInv, TypeOK, Trees, Folder, Stages, Members, Working, Kept
<1>2. PartsInStep'
  BY <1>a, <1>b DEF UnpackingAssumption, IInv, TypeOK, PartsInStep, Stored, Members, Working, Kept
<1>3. FoldersHeld'
  BY <1>a, <1>b DEF UnpackingAssumption, IInv, TypeOK, FoldersHeld, Working, Kept
<1>4. ObjectsWhole'
  BY <1>a, <1>b DEF UnpackingAssumption, IInv, TypeOK, PartsInStep, ObjectsWhole, Members, Working,
     Kept
<1>5. RecordedIsWhole'
  BY <1>a, <1>b DEF UnpackingAssumption, IInv, TypeOK, PartsInStep, ObjectsWhole, RecordedIsWhole,
     Stored, Members, Working, Kept
<1>6. StagedStays'
  BY <1>a, <1>b DEF UnpackingAssumption, IInv, TypeOK, PartsInStep, FoldersHeld, StagedStays,
     Members, Working, Kept
<1>q. QED BY <1>1, <1>2, <1>3, <1>4, <1>5, <1>6 DEF IInv

\* Another download is no other tree.
LEMMA VerifyArchiveStep ==
  ASSUME UnpackingAssumption, IInv, NEW r \in Runs, VerifyArchive(r)
  PROVE  IInv'
<1>1. TypeOK'
  BY DEF UnpackingAssumption, IInv, TypeOK, Trees, Folder, Stages, Members, Working, VerifyArchive,
     Goto, Kept
<1>2. PartsInStep'
  BY DEF UnpackingAssumption, IInv, TypeOK, PartsInStep, Stored, Members, Working, VerifyArchive,
     Goto, Kept
<1>3. FoldersHeld'
  BY DEF UnpackingAssumption, IInv, TypeOK, FoldersHeld, Working, VerifyArchive, Goto, Kept
<1>4. ObjectsWhole'
  BY DEF UnpackingAssumption, IInv, TypeOK, PartsInStep, ObjectsWhole, Members, Working,
     VerifyArchive, Goto, Kept
<1>5. RecordedIsWhole'
  BY DEF UnpackingAssumption, IInv, TypeOK, PartsInStep, ObjectsWhole, RecordedIsWhole, Stored,
     Members, Working, VerifyArchive, Goto, Kept
<1>6. StagedStays'
  BY DEF UnpackingAssumption, IInv, TypeOK, PartsInStep, FoldersHeld, StagedStays, Members, Working,
     VerifyArchive, Goto, Kept
<1>q. QED BY <1>1, <1>2, <1>3, <1>4, <1>5, <1>6 DEF IInv

\* A killed run leaves what it published.
LEMMA KillStep ==
  ASSUME UnpackingAssumption, IInv, NEW r \in Runs, Kill(r)
  PROVE  IInv'
<1>1. TypeOK'
  <2>1. folder[r] \in Folder
    BY DEF IInv, TypeOK
  <2>2. [folder[r] EXCEPT !.held = FALSE] \in Folder
    BY <2>1 DEF Folder
  <2>3. Unread \in [Members -> Stages]
    BY DEF Unread, Stages
  <2>q. QED BY <2>2, <2>3 DEF Kill, Goto, Kept, IInv, TypeOK
<1>2. PartsInStep'
  BY DEF UnpackingAssumption, IInv, TypeOK, PartsInStep, Stored, Members, Working, Kill, Unread,
     Goto, Kept
<1>3. FoldersHeld'
  BY DEF UnpackingAssumption, IInv, TypeOK, FoldersHeld, Working, Kill, Unread, Goto, Kept
<1>4. ObjectsWhole'
  BY DEF UnpackingAssumption, IInv, TypeOK, PartsInStep, ObjectsWhole, Members, Working, Kill,
     Unread, Goto, Kept
<1>5. RecordedIsWhole'
  BY DEF UnpackingAssumption, IInv, TypeOK, PartsInStep, ObjectsWhole, RecordedIsWhole, Stored,
     Members, Working, Kill, Unread, Goto, Kept
<1>6. StagedStays'
  BY DEF UnpackingAssumption, IInv, TypeOK, PartsInStep, FoldersHeld, StagedStays, Members, Working,
     Kill, Unread, Goto, Kept
<1>q. QED BY <1>1, <1>2, <1>3, <1>4, <1>5, <1>6 DEF IInv

\* A sweep takes nobody's folder who works.
LEMMA SweepStep ==
  ASSUME UnpackingAssumption, IInv, Sweep
  PROVE  IInv'
<1>1. TypeOK'
  BY SweptFolders DEF UnpackingAssumption, IInv, TypeOK, Trees, Folder, Stages, Members, Working,
     Sweep, Goto, Kept
<1>2. PartsInStep'
  BY SweptFolders DEF UnpackingAssumption, IInv, TypeOK, PartsInStep, Stored, Members, Working,
     Sweep, Goto, Kept
<1>3. FoldersHeld'
  BY SweptFolders DEF UnpackingAssumption, IInv, TypeOK, FoldersHeld, Working, Sweep, Goto, Kept
<1>4. ObjectsWhole'
  BY SweptFolders DEF UnpackingAssumption, IInv, TypeOK, PartsInStep, ObjectsWhole, Members,
     Working, Sweep, Goto, Kept
<1>5. RecordedIsWhole'
  BY SweptFolders DEF UnpackingAssumption, IInv, TypeOK, PartsInStep, ObjectsWhole, RecordedIsWhole,
     Stored, Members, Working, Sweep, Goto, Kept
<1>6. StagedStays'
  BY SweptFolders DEF UnpackingAssumption, IInv, TypeOK, PartsInStep, FoldersHeld, StagedStays,
     Members, Working, Sweep, Goto, Kept
<1>q. QED BY <1>1, <1>2, <1>3, <1>4, <1>5, <1>6 DEF IInv

\* Damage is for the next reader.
LEMMA DamageStep ==
  ASSUME UnpackingAssumption, IInv, Damage
  PROVE  IInv'
<1>1. TypeOK'
  BY DEF UnpackingAssumption, IInv, TypeOK, Trees, Folder, Stages, Members, Working, Damage, Goto,
     Kept
<1>2. PartsInStep'
  BY DEF UnpackingAssumption, IInv, TypeOK, PartsInStep, Stored, Members, Working, Damage, Goto,
     Kept
<1>3. FoldersHeld'
  BY DEF UnpackingAssumption, IInv, TypeOK, FoldersHeld, Working, Damage, Goto, Kept
<1>4. ObjectsWhole'
  BY DEF UnpackingAssumption, IInv, TypeOK, PartsInStep, ObjectsWhole, Members, Working, Damage,
     Goto, Kept
<1>5. RecordedIsWhole'
  BY DEF UnpackingAssumption, IInv, TypeOK, PartsInStep, ObjectsWhole, RecordedIsWhole, Stored,
     Members, Working, Damage, Goto, Kept
<1>6. StagedStays'
  BY DEF UnpackingAssumption, IInv, TypeOK, PartsInStep, FoldersHeld, StagedStays, Members, Working,
     Damage, Goto, Kept
<1>q. QED BY <1>1, <1>2, <1>3, <1>4, <1>5, <1>6 DEF IInv

\* A step of others changes nothing.
LEMMA StutterStep == ASSUME IInv, UNCHANGED vars PROVE IInv'
  BY DEF vars, IInv, TypeOK, PartsInStep, FoldersHeld, ObjectsWhole, RecordedIsWhole, StagedStays,
     Stored, Trees, Folder, Stages, Members, Working

\* Every step keeps the invariant.
LEMMA NextOK == ASSUME UnpackingAssumption PROVE IInv /\ [Next]_vars => IInv'
  BY CreateDirStep, NameLockStep, AgeStep, KeepStep, SealStep, JoinedStep, FlushStep, PublishStep,
     PublishedStep, FailStep, RecordStep, VerifyArchiveStep, KillStep, SweepStep, DamageStep,
     StutterStep DEF Next

\* The invariant holds for any number of runs and members.
THEOREM Invariance == ASSUME UnpackingAssumption PROVE Spec => []IInv
<1>1. Init => IInv
  BY InitOK
<1>q. QED BY <1>1, NextOK, PTL DEF Spec

\* However runs race, fail and die, with locks or without: a recorded tree is the pinned one with
\* every member flushed into the cache, and nobody's staged members are swept.
THEOREM Whole == ASSUME UnpackingAssumption PROVE Spec => []UnpackedIsWhole
<1>1. IInv => UnpackedIsWhole
  BY DEF IInv, UnpackedIsWhole
<1>q. QED BY <1>1, Invariance, PTL
=============================================================================
