---------------------------- MODULE DownloadProofs ---------------------------
(***************************************************************************)
(* A batch of downloads never names bytes a power cut could lose, for any  *)
(* number of downloads, links, hashes and files and any group size.  IInv  *)
(* of Deferred is inductive; each action has a lemma of its own below,     *)
(* with one step for each part of IInv.  The second part shows the batch   *)
(* to implement DownloadStore, with AnsweredInv for its invariant: one     *)
(* lemma for each kind of step says which promise it keeps.  The last      *)
(* parts are about Answers, what one download is given, about Relock, what *)
(* data.lock pins, and about Get, what `get` takes away and leaves.        *)
(***************************************************************************)
EXTENDS DownloadParts, SequenceTheorems, NaturalsInduction, WellFoundedInduction, TLAPS

-----------------------------------------------------------------------------
\* The claim and the transfer.

\* A step of one task that touches neither files, finished downloads nor mutexes.
LEMMA QuietStep ==
  ASSUME RestartsAlone, IInv, NEW t \in Tasks, NEW l \in TaskLabels \union Ended,
         pc' = [pc EXCEPT ![t] = l],
         pc[t] \in {"look", "recheck", "verify"},
         l \in {"ok", "claim", "transfer", "failed", "forget"},
         pc[t] = "look" => l \in {"ok", "claim"},
         pc[t] = "recheck" => l \in {"ok", "transfer"},
         pc[t] = "verify" => l \in {"ok", "failed", "forget"},
         l = "forget" => t \in Resumed /\ Expect[t] # None,
         got' \in [Tasks -> Digests \union {None}], \A s \in Tasks : s # t => got'[s] = got[s],
         restarted' \in [Tasks -> BOOLEAN],
         UNCHANGED <<waited, file, items, open, lockVars, publishing, aborted, diskVars>>
  PROVE  IInv'
<1>1. TypeOK'
  BY DEF IInv, TypeOK, lockVars, publishing, diskVars
<1>2. LabelsInv' /\ LocksInv'
  BY TasksAssumption DEF IInv, TypeOK, LabelsInv, LocksInv, lockVars, Threads
<1>3. ClaimInv'
  BY DEF IInv, TypeOK, ClaimInv, Threads, Owning, TaskLabels
<1>4. ItemsInv'
  BY TasksAssumption DEF IInv, TypeOK, Item, ItemsInv, Threads
<1>5. FilesInv'
  BY DEF IInv, TypeOK, FilesInv, diskVars, Threads
<1>6. FlushInv' /\ WaitingKeepsItsBytes' /\ NamedIntact'
  BY DEF IInv, TypeOK, Item, FlushInv, WaitingKeepsItsBytes, NamedIntact, Intact, diskVars,
         publishing, Threads
<1>q. QED BY <1>1, <1>2, <1>3, <1>4, <1>5, <1>6 DEF IInv

\* Looking for a pinned hash touches nothing but the task.
LEMMA LookStep == ASSUME RestartsAlone, IInv, NEW t \in Tasks, Look(t)
   PROVE IInv'
<1>1. got' \in [Tasks -> Digests \union {None}] /\ \A s \in Tasks : s # t => got'[s] = got[s]
  BY FunctionsAssumption DEF Look, IInv, TypeOK
<1>2. PICK l \in {"ok", "claim"} : pc' = [pc EXCEPT ![t] = l]
  BY DEF Look, Goto
<1>q. QED BY <1>1, <1>2, QuietStep DEF Look, IInv, TypeOK, TaskLabels, Ended

\* A claim is given only when neither a download nor a finished one has the link.
LEMMA ClaimStep == ASSUME RestartsAlone, IInv, NEW t \in Tasks, Claim(t)
   PROVE IInv'
<1>a. /\ pc[t] = "claim" /\ ~Claimed(UrlOf[t])
      /\ UNCHANGED <<taskVars, items, open, lockVars, publishing, aborted, diskVars>>
  BY DEF Claim, Goto, Claimed
<1>b. PICK l \in {"recheck", "transfer"} : pc' = [pc EXCEPT ![t] = l]
  BY DEF Claim, Goto
<1>1. TypeOK'
  BY <1>a, <1>b, TasksAssumption DEF IInv, TypeOK, Threads, TaskLabels, Ended, MainLabels, taskVars, lockVars, publishing, diskVars
<1>2. LabelsInv' /\ LocksInv'
  BY <1>a, <1>b, TasksAssumption DEF IInv, TypeOK, LabelsInv, LocksInv, Threads, TaskLabels, Ended, MainLabels, taskVars, lockVars, publishing, diskVars
<1>3. ClaimInv'
  <2>1. \A s \in Tasks : UrlOf[s] = UrlOf[t] => pc[s] \notin Owning
    BY <1>a DEF Claimed
  <2>2. \A x \in items : UrlOf[x.task] # UrlOf[t]
    BY <1>a DEF Claimed
  <2>q. QED BY <2>1, <2>2, <1>a, <1>b DEF IInv, TypeOK, ClaimInv, Threads
<1>4. ItemsInv'
  <2>1. \A x \in items : x.task # t /\ x.at # t
    BY <1>a, TasksAssumption DEF IInv, ItemsInv, Threads, Claimed
  <2>q. QED BY <2>1, <1>a, <1>b, TasksAssumption DEF IInv, TypeOK, Item, ItemsInv, Threads
<1>5. FilesInv'
  BY <1>a, <1>b, TasksAssumption DEF IInv, TypeOK, FilesInv, Threads, taskVars, lockVars, publishing, diskVars
<1>6. FlushInv'
  BY <1>a, <1>b, TasksAssumption DEF IInv, TypeOK, Item, FlushInv, Threads, taskVars, lockVars, publishing, diskVars
<1>7. WaitingKeepsItsBytes' /\ NamedIntact'
  BY <1>a, <1>b, TasksAssumption DEF IInv, TypeOK, Item, WaitingKeepsItsBytes, NamedIntact, Intact, taskVars, lockVars, publishing, diskVars
<1>q. QED BY <1>1, <1>2, <1>3, <1>4, <1>5, <1>6, <1>7 DEF IInv

\* A busy link changes nothing.
LEMMA PollStep == ASSUME RestartsAlone, IInv, NEW t \in Tasks, Poll(t)
   PROVE IInv'
<1>a. /\ waited' = [waited EXCEPT ![t] = TRUE]
      /\ UNCHANGED <<pc, restarted, got, file, items, open, lockVars, publishing, aborted, diskVars>>
  BY DEF Poll, Goto
<1>1. TypeOK'
  BY <1>a, TasksAssumption DEF IInv, TypeOK, Threads, TaskLabels, Ended, MainLabels, lockVars, publishing, diskVars
<1>2. LabelsInv' /\ LocksInv'
  BY <1>a, TasksAssumption DEF IInv, TypeOK, LabelsInv, LocksInv, Threads, TaskLabels, Ended, MainLabels, lockVars, publishing, diskVars
<1>3. ClaimInv'
  BY <1>a, TasksAssumption DEF IInv, TypeOK, ClaimInv, Threads, Owning, TaskLabels, Ended, lockVars, publishing, diskVars
<1>4. ItemsInv'
  BY <1>a, TasksAssumption DEF IInv, TypeOK, Item, ItemsInv, Threads, lockVars, publishing, diskVars
<1>5. FilesInv'
  BY <1>a, TasksAssumption DEF IInv, TypeOK, FilesInv, Threads, lockVars, publishing, diskVars
<1>6. FlushInv'
  BY <1>a, TasksAssumption DEF IInv, TypeOK, Item, FlushInv, Threads, lockVars, publishing, diskVars
<1>7. WaitingKeepsItsBytes' /\ NamedIntact'
  BY <1>a, TasksAssumption DEF IInv, TypeOK, Item, WaitingKeepsItsBytes, NamedIntact, Intact, lockVars, publishing, diskVars
<1>q. QED BY <1>1, <1>2, <1>3, <1>4, <1>5, <1>6, <1>7 DEF IInv

\* Looking again touches nothing but the task.
LEMMA RecheckStep == ASSUME RestartsAlone, IInv, NEW t \in Tasks, Recheck(t)
   PROVE IInv'
<1>1. got' \in [Tasks -> Digests \union {None}] /\ \A s \in Tasks : s # t => got'[s] = got[s]
  BY FunctionsAssumption DEF Recheck, IInv, TypeOK
<1>2. PICK l \in {"ok", "transfer"} : pc' = [pc EXCEPT ![t] = l]
  BY DEF Recheck, Goto
<1>q. QED BY <1>1, <1>2, QuietStep DEF Recheck, IInv, TypeOK, TaskLabels, Ended

\* The writer's file is new, or the link's own partial file, which no hash names.
LEMMA OpenPartStep == ASSUME RestartsAlone, IInv, NEW t \in Tasks, OpenPart(t)
   PROVE IInv'
<1> DEFINE u == UrlOf[t]
<1>u. u \in Urls
  BY FunctionsAssumption
<1>a. PICK i \in Inodes :
        /\ IF Continued(u) THEN i = part[u] ELSE Unused(i)
        /\ part' = [part EXCEPT ![u] = i]
        /\ file' = [file EXCEPT ![t] = i]
        /\ inode' = [inode EXCEPT ![i] =
                        [bytes |-> "unfinished", sealed |-> FALSE,
                         disk |-> IF Continued(u) /\ t \in Resumed /\ @.disk = "lost" THEN "lost" ELSE "dirty"]]
  BY DEF OpenPart
<1>b. pc' = [pc EXCEPT ![t] = "writing"] /\ pc[t] = "transfer"
  BY DEF OpenPart, Goto
<1>c. UNCHANGED <<waited, restarted, got, items, open, lockVars, publishing, aborted, object, lossUnseen>>
  BY DEF OpenPart
<1>d. \A v \in Urls : v # u => part[v] # i
  BY <1>a, <1>u DEF Continued, Unused, IInv, FilesInv
<1>e. \A d \in Digests : object[d] # i
  BY <1>a DEF Continued, Unused, NoOtherName
<1>f. \A s \in Tasks : s # t => file[s] # i
  BY <1>a, <1>b, <1>u, FunctionsAssumption DEF Continued, Unused, IInv, FilesInv, ClaimInv, LabelsInv, Owning, TaskLabels
<1>g. inode'[i].disk = "lost" => inode[i].disk = "lost"
  BY <1>a DEF IInv, TypeOK
<1>g2. /\ \A j \in Inodes : j # i => inode'[j] = inode[j]
       /\ inode'[i].sealed = FALSE
  BY <1>a DEF IInv, TypeOK
<1>h. \A x \in items : UrlOf[x.task] # u /\ part[UrlOf[x.task]] # i /\ UrlOf[x.task] \in Urls /\ part'[UrlOf[x.task]] = part[UrlOf[x.task]]
  BY ZenonT(40), <1>a, <1>b, <1>d, FunctionsAssumption DEF IInv, TypeOK, Item, ClaimInv, ItemsInv, Owning, TaskLabels
<1>1. TypeOK'
  <2>1. pc' \in [Threads -> TaskLabels \union Ended \union MainLabels]
    BY <1>b DEF IInv, TypeOK, TaskLabels
  <2>2. part' \in [Urls -> Inodes \union {None}] /\ file' \in [Tasks -> Inodes \union {None}]
    BY <1>a, <1>u DEF IInv, TypeOK
  <2>3. inode' \in [Inodes -> File]
    BY <1>a DEF IInv, TypeOK, File
  <2>q. QED BY <1>c, <2>1, <2>2, <2>3 DEF IInv, TypeOK, lockVars, publishing
<1>6. FilesInv'
  <2>1. \A s \in Tasks : file'[s] # None <=> pc'[s] \in {"writing", "finish", "own_sync", "own_link"}
    BY <1>a, <1>b, TasksAssumption DEF IInv, TypeOK, FilesInv, Threads
  <2>2. \A s \in Tasks : file'[s] # None => part'[UrlOf[s]] = file'[s]
    BY SMTT(30), <1>a, <1>b, <1>f, <1>u, FunctionsAssumption DEF IInv, TypeOK, FilesInv, ClaimInv, Owning, TaskLabels, Threads
  <2>3. \A s \in Tasks : pc'[s] = "writing" => ~inode'[file'[s]].sealed
    BY <1>a, <1>b, <1>f, <1>g2 DEF IInv, TypeOK, FilesInv, Threads
  <2>4. \A s \in Tasks : pc'[s] = "finish" =>
         got'[s] \in Digests /\ inode'[file'[s]].sealed /\ inode'[file'[s]].bytes = got'[s]
    BY <1>a, <1>b, <1>c, <1>f, <1>g2 DEF IInv, TypeOK, FilesInv, Threads
  <2>5. \A v, w \in Urls : part'[v] # None /\ part'[v] = part'[w] => v = w
    BY <1>a, <1>d, <1>u DEF IInv, TypeOK, FilesInv
  <2>q. QED BY <2>1, <2>2, <2>3, <2>4, <2>5 DEF FilesInv
<1>7. FlushInv'
  <2>1. ASSUME NEW x \in items, x.at # Pending, pc'[x.at] \in {"name", "link", "own_link"}
        PROVE inode'[part'[UrlOf[x.task]]].disk = "durable"
    BY <2>1, <1>b, <1>h, <1>g2 DEF IInv, TypeOK, Item, FlushInv, WaitingKeepsItsBytes
  <2>q. QED BY <2>1, <1>c, <1>g, <1>g2 DEF IInv, FlushInv, publishing
<1>8. WaitingKeepsItsBytes'
  BY <1>h, <1>g2, <1>c DEF IInv, TypeOK, WaitingKeepsItsBytes
<1>9. NamedIntact'
  BY <1>e, <1>g2, <1>c DEF IInv, TypeOK, NamedIntact, Intact
<1>2. LabelsInv' /\ LocksInv'
  BY <1>b, <1>c, TasksAssumption DEF IInv, TypeOK, LabelsInv, LocksInv, Threads, TaskLabels, lockVars
<1>3. ClaimInv'
  BY <1>b, <1>c DEF IInv, TypeOK, ClaimInv, Owning, TaskLabels, Threads
<1>4. ItemsInv'
  BY <1>b, <1>c, TasksAssumption DEF IInv, TypeOK, Item, ItemsInv, Threads
<1>q. QED BY <1>1, <1>2, <1>3, <1>4, <1>6, <1>7, <1>8, <1>9 DEF IInv

\* Only a resumed download starts over, and it has nothing open.
LEMMA StartOverStep == ASSUME RestartsAlone, IInv, NEW t \in Tasks, StartOver(t)
   PROVE IInv'
<1>a. /\ pc[t] = "transfer" /\ t \in Resumed /\ pc' = [pc EXCEPT ![t] = "forget"]
      /\ UNCHANGED <<taskVars, items, open, lockVars, publishing, aborted, diskVars>>
  BY DEF StartOver, Goto
<1>1. TypeOK'
  BY <1>a, TasksAssumption DEF IInv, TypeOK, Threads, TaskLabels, Ended, MainLabels, taskVars, lockVars, publishing, diskVars
<1>2. LabelsInv' /\ LocksInv'
  BY <1>a, TasksAssumption DEF IInv, TypeOK, LabelsInv, LocksInv, Threads, TaskLabels, Ended, MainLabels, taskVars, lockVars, publishing, diskVars
<1>3. ClaimInv'
  BY <1>a, TasksAssumption DEF IInv, TypeOK, ClaimInv, Threads, Owning, TaskLabels, Ended, taskVars, lockVars, publishing, diskVars
<1>4. ItemsInv'
  BY <1>a, TasksAssumption DEF IInv, TypeOK, Item, ItemsInv, Threads, taskVars, lockVars, publishing, diskVars
<1>5. FilesInv'
  BY <1>a, TasksAssumption DEF IInv, TypeOK, FilesInv, Threads, taskVars, lockVars, publishing, diskVars
<1>6. FlushInv'
  BY <1>a, TasksAssumption DEF IInv, TypeOK, Item, FlushInv, Threads, taskVars, lockVars, publishing, diskVars
<1>7. WaitingKeepsItsBytes' /\ NamedIntact'
  BY <1>a, TasksAssumption DEF IInv, TypeOK, Item, WaitingKeepsItsBytes, NamedIntact, Intact, taskVars, lockVars, publishing, diskVars
<1>q. QED BY <1>1, <1>2, <1>3, <1>4, <1>5, <1>6, <1>7 DEF IInv

\* A failed transfer lets its claim go and has no finished download.
LEMMA TransferFailsStep == ASSUME RestartsAlone, IInv, NEW t \in Tasks, TransferFails(t)
   PROVE IInv'
<1>a. /\ pc[t] \in {"transfer", "writing"} /\ file' = [file EXCEPT ![t] = None]
      /\ UNCHANGED <<waited, restarted, got, items, open, lockVars, publishing, aborted, diskVars>>
  BY DEF TransferFails, Goto, Failure
<1>b. PICK l \in {"failed", "fatal"} : pc' = [pc EXCEPT ![t] = l]
  BY DEF TransferFails, Failure, Goto
<1>1. TypeOK'
  BY <1>a, <1>b, TasksAssumption DEF IInv, TypeOK, Threads, TaskLabels, Ended, MainLabels, lockVars, publishing, diskVars
<1>2. LabelsInv' /\ LocksInv'
  BY <1>a, <1>b, TasksAssumption DEF IInv, TypeOK, LabelsInv, LocksInv, Threads, TaskLabels, Ended, MainLabels, lockVars, publishing, diskVars
<1>3. ClaimInv'
  BY <1>a, <1>b, TasksAssumption DEF IInv, TypeOK, ClaimInv, Threads, Owning, TaskLabels, Ended, lockVars, publishing, diskVars
<1>4. ItemsInv'
  BY <1>a, <1>b, TasksAssumption DEF IInv, TypeOK, Item, ItemsInv, Threads, lockVars, publishing, diskVars
<1>5. FilesInv'
  BY <1>a, <1>b, TasksAssumption DEF IInv, TypeOK, FilesInv, Threads, lockVars, publishing, diskVars
<1>6. FlushInv'
  BY <1>a, <1>b, TasksAssumption DEF IInv, TypeOK, Item, FlushInv, Threads, lockVars, publishing, diskVars
<1>7. WaitingKeepsItsBytes' /\ NamedIntact'
  BY <1>a, <1>b, TasksAssumption DEF IInv, TypeOK, Item, WaitingKeepsItsBytes, NamedIntact, Intact, lockVars, publishing, diskVars
<1>q. QED BY <1>1, <1>2, <1>3, <1>4, <1>5, <1>6, <1>7 DEF IInv

\* A finished file is read-only and hashes to what the task was told.
LEMMA SealStep == ASSUME RestartsAlone, IInv, NEW t \in Tasks, NEW d \in Digests, Seal(t, d)
   PROVE IInv'
<1> DEFINE u == UrlOf[t]
           i == file[t]
<1>a. /\ pc[t] = "writing" /\ pc' = [pc EXCEPT ![t] = "finish"]
      /\ got' = [got EXCEPT ![t] = d]
      /\ UNCHANGED <<waited, restarted, file, items, open, lockVars, publishing, aborted,
                     part, object, lossUnseen>>
  BY DEF Seal, Goto
<1>b. u \in Urls /\ i \in Inodes /\ part[u] = i /\ ~inode[i].sealed
  BY <1>a, FunctionsAssumption DEF IInv, TypeOK, FilesInv
<1>c. /\ inode'[i].bytes = d /\ inode'[i].sealed
      /\ inode'[i].disk = "lost" => inode[i].disk = "lost"
      /\ \A j \in Inodes : j # i => inode'[j] = inode[j]
  <2>1. inode' = [inode EXCEPT ![i] =
                     [bytes |-> d, sealed |-> TRUE,
                      disk |-> IF inode[i].disk = "lost" THEN "lost" ELSE "dirty"]]
    BY DEF Seal
  <2>q. QED BY <2>1, <1>b DEF IInv, TypeOK, File
<1>d. \A s \in Tasks : file[s] = i => s = t
  BY <1>a, <1>b, FunctionsAssumption DEF IInv, FilesInv, ClaimInv, Owning, TaskLabels
<1>e. \A x \in items : /\ UrlOf[x.task] \in Urls /\ UrlOf[x.task] # u
                       /\ part[UrlOf[x.task]] # i
  <2>1. \A x \in items : UrlOf[x.task] \in Urls /\ UrlOf[x.task] # u
    BY ZenonT(40), <1>a, FunctionsAssumption DEF IInv, TypeOK, Item, ClaimInv, ItemsInv, Owning, TaskLabels
  <2>q. QED BY <2>1, <1>b, TasksAssumption DEF IInv, FilesInv
<1>1. TypeOK'
  <2>1. pc' \in [Threads -> TaskLabels \union Ended \union MainLabels]
    BY <1>a DEF IInv, TypeOK, TaskLabels
  <2>2. inode' \in [Inodes -> File]
    BY <1>b DEF IInv, TypeOK, File, Seal
  <2>q. QED BY <1>a, <2>1, <2>2 DEF IInv, TypeOK, lockVars, publishing
<1>2. FilesInv'
  BY <1>a, <1>b, <1>c, <1>d, TasksAssumption DEF IInv, TypeOK, FilesInv, Threads
<1>3. FlushInv'
  <2>1. ASSUME NEW x \in items, x.at # Pending, pc'[x.at] \in {"name", "link", "own_link"}
        PROVE inode'[part'[UrlOf[x.task]]].disk = "durable"
    BY <2>1, <1>a, <1>c, <1>e DEF IInv, TypeOK, Item, FlushInv, WaitingKeepsItsBytes
  <2>q. QED BY <2>1, <1>a, <1>c DEF IInv, FlushInv, publishing
<1>4. WaitingKeepsItsBytes'
  BY <1>a, <1>c, <1>e DEF IInv, TypeOK, WaitingKeepsItsBytes
<1>5. NamedIntact'
  BY <1>a, <1>b, <1>c DEF IInv, TypeOK, NamedIntact, Intact
<1>6. LabelsInv' /\ LocksInv'
  BY <1>a, TasksAssumption DEF IInv, TypeOK, LabelsInv, LocksInv, Threads, TaskLabels, lockVars
<1>7. ClaimInv'
  BY <1>a DEF IInv, TypeOK, ClaimInv, Owning, TaskLabels, Threads
<1>8. ItemsInv'
  BY <1>a, TasksAssumption DEF IInv, TypeOK, Item, ItemsInv, Threads
<1>q. QED BY <1>1, <1>2, <1>3, <1>4, <1>5, <1>6, <1>7, <1>8 DEF IInv

-----------------------------------------------------------------------------
\* The batch: defer and publish_group.

\* A deferred download keeps the claim its task had.
LEMMA DeferStep == ASSUME RestartsAlone, IInv, NEW t \in Tasks, Defer(t)
   PROVE IInv'
<1> DEFINE y == [task |-> t, digest |-> got[t], at |-> Pending]
<1>a. /\ pc[t] = "finish" /\ pendingLock = None /\ open
      /\ items' = items \union {y}
      /\ file' = [file EXCEPT ![t] = None]
      /\ UNCHANGED <<waited, restarted, got, open, publishingLock, publishing, aborted, diskVars>>
  BY DEF Defer
<1>b. PICK l \in {"flush_wait", "verify"} :
        pc' = [pc EXCEPT ![t] = l] /\ pendingLock' = IF l = "flush_wait" THEN t ELSE None
  BY <1>a DEF Defer, Goto
<1>c. y \in Item /\ y.task = t /\ y.digest = got[t] /\ y.at = Pending
  BY <1>a DEF IInv, FilesInv, Item
<1> HIDE DEF y
<1>d. \A x \in items : UrlOf[x.task] # UrlOf[t]
  BY <1>a DEF IInv, ClaimInv, ItemsInv, Owning, TaskLabels
<1>1. TypeOK'
  <2>1. pc' \in [Threads -> TaskLabels \union Ended \union MainLabels]
    BY <1>b DEF IInv, TypeOK, TaskLabels
  <2>2. items' \subseteq Item
    BY <1>a, <1>c DEF IInv, TypeOK
  <2>q. QED BY <1>a, <1>b, <2>1, <2>2 DEF IInv, TypeOK, Threads, publishing, diskVars
<1>2. LabelsInv'
  BY <1>a, <1>b, TasksAssumption DEF IInv, TypeOK, LabelsInv, TaskLabels, Threads
<1>3. LocksInv'
  BY <1>a, <1>b, TasksAssumption DEF IInv, TypeOK, LocksInv, Threads
<1>4. ClaimInv'
  BY <1>a, <1>b, <1>c, <1>d DEF IInv, TypeOK, ClaimInv, Owning, TaskLabels, Threads
<1>5. ItemsInv'
  BY <1>a, <1>b, <1>c, TasksAssumption DEF IInv, TypeOK, Item, ItemsInv, Threads
<1>6. FilesInv'
  BY <1>a, <1>b DEF IInv, TypeOK, FilesInv, diskVars, Threads
<1>7. FlushInv'
  BY <1>a, <1>b, <1>c DEF IInv, TypeOK, Item, FlushInv, diskVars, publishing, Threads
<1>8. WaitingKeepsItsBytes'
  BY <1>a, <1>c, TasksAssumption DEF IInv, TypeOK, FilesInv, WaitingKeepsItsBytes, diskVars
<1>9. NamedIntact'
  BY <1>a DEF IInv, NamedIntact, Intact, diskVars
<1>q. QED BY <1>1, <1>2, <1>3, <1>4, <1>5, <1>6, <1>7, <1>8, <1>9 DEF IInv

\* A download finished outside a batch is its own task's.
LEMMA FinishAloneStep == ASSUME RestartsAlone, IInv, NEW t \in Tasks, FinishAlone(t)
   PROVE IInv'
<1> DEFINE y == [task |-> t, digest |-> got[t], at |-> t]
<1>a. /\ pc[t] = "finish" /\ pc' = [pc EXCEPT ![t] = "own_sync"]
      /\ items' = items \union {y}
      /\ UNCHANGED <<taskVars, open, lockVars, publishing, aborted, diskVars>>
  BY DEF FinishAlone, Goto
<1>c. y \in Item /\ y.task = t /\ y.digest = got[t] /\ y.at = t
  BY <1>a DEF IInv, FilesInv, Item, Threads
<1> HIDE DEF y
<1>d. \A x \in items : UrlOf[x.task] # UrlOf[t]
  BY <1>a DEF IInv, ClaimInv, ItemsInv, Owning, TaskLabels
<1>1. TypeOK'
  <2>1. pc' \in [Threads -> TaskLabels \union Ended \union MainLabels]
    BY <1>a DEF IInv, TypeOK, TaskLabels
  <2>2. items' \subseteq Item
    BY <1>a, <1>c DEF IInv, TypeOK
  <2>q. QED BY <1>a, <2>1, <2>2 DEF IInv, TypeOK, taskVars, lockVars, publishing, diskVars
<1>2. LabelsInv' /\ LocksInv'
  BY <1>a, TasksAssumption DEF IInv, TypeOK, LabelsInv, LocksInv, TaskLabels, Threads, lockVars
<1>4. ClaimInv'
  BY <1>a, <1>c, <1>d DEF IInv, TypeOK, ClaimInv, Owning, TaskLabels, Threads
<1>5. ItemsInv'
  BY <1>a, <1>c, <1>d, TasksAssumption DEF IInv, TypeOK, Item, ItemsInv, Threads
<1>6. FilesInv'
  BY <1>a DEF IInv, TypeOK, FilesInv, diskVars, taskVars, Threads
<1>7. FlushInv'
  BY <1>a, <1>c, TasksAssumption DEF IInv, TypeOK, Item, FlushInv, diskVars, publishing, Threads
<1>8. WaitingKeepsItsBytes'
  BY <1>a, <1>c, TasksAssumption DEF IInv, TypeOK, FilesInv, WaitingKeepsItsBytes, diskVars
<1>9. NamedIntact'
  BY <1>a DEF IInv, NamedIntact, Intact, diskVars
<1>q. QED BY <1>1, <1>2, <1>4, <1>5, <1>6, <1>7, <1>8, <1>9 DEF IInv

\* A group changes hands while both mutexes are held.
LEMMA TakeGroupStep == ASSUME RestartsAlone, IInv, NEW p \in Threads, TakeGroup(p)
   PROVE IInv'
<1>a. /\ pc[p] = "flush_wait" /\ pc' = [pc EXCEPT ![p] = "flush"]
      /\ publishingLock = None /\ publishingLock' = p /\ pendingLock' = None
      /\ UNCHANGED <<taskVars, open, publishing, aborted, diskVars>>
  BY DEF TakeGroup, Goto
<1>c. \A x \in items : [x EXCEPT !.at = p] \in Item /\ [x EXCEPT !.at = p].task = x.task
                       /\ [x EXCEPT !.at = p].digest = x.digest /\ [x EXCEPT !.at = p].at = p
  BY DEF IInv, TypeOK, Item
<1>b. \A z \in items' : \/ z \in items /\ z.at # Pending
                        \/ \E x \in items : /\ x.at = Pending /\ z \in Item /\ z.at = p
                                            /\ z.task = x.task /\ z.digest = x.digest
  <2> SUFFICES ASSUME NEW z \in items', ~(z \in items /\ z.at # Pending)
               PROVE \E x \in items : /\ x.at = Pending /\ z \in Item /\ z.at = p
                                     /\ z.task = x.task /\ z.digest = x.digest
    OBVIOUS
  <2>1. PICK x \in items : x.at = Pending /\ z = [x EXCEPT !.at = p]
    BY DEF TakeGroup, Waiting
  <2>q. QED BY <2>1, <1>c
<1>1. TypeOK'
  <2>1. pc' \in [Threads -> TaskLabels \union Ended \union MainLabels]
    BY <1>a DEF IInv, TypeOK, TaskLabels
  <2>2. items' \subseteq Item
    BY <1>b DEF IInv, TypeOK
  <2>q. QED BY <1>a, <2>1, <2>2 DEF IInv, TypeOK, publishing, taskVars, diskVars
<1>8. WaitingKeepsItsBytes'
  BY <1>a, <1>b DEF IInv, WaitingKeepsItsBytes, diskVars
<1>2. LabelsInv' /\ LocksInv'
  BY <1>a, TasksAssumption DEF IInv, TypeOK, LabelsInv, LocksInv, Threads, TaskLabels, MainLabels
<1>3. ClaimInv'
  <2>1. \A r, s \in Tasks :
         pc'[r] \in Owning /\ pc'[s] \in Owning /\ UrlOf[r] = UrlOf[s] => r = s
    BY <1>a DEF IInv, TypeOK, ClaimInv, Owning, TaskLabels, Threads
  <2>2. \A z \in items', s \in Tasks :
         pc'[s] \in Owning /\ UrlOf[z.task] = UrlOf[s] => z.task = s
    BY <1>a, <1>b DEF IInv, TypeOK, ClaimInv, Owning, TaskLabels, Threads
  <2>3. \A z, w \in items' : UrlOf[z.task] = UrlOf[w.task] => z = w
    BY <1>b DEF IInv, TypeOK, Item, ClaimInv
  <2>q. QED BY <2>1, <2>2, <2>3 DEF ClaimInv
<1>4. ItemsInv'
  <2>1. ASSUME NEW z \in items'
        PROVE /\ pc'[z.task] \notin {"look", "claim", "sync", "link", "recheck", "transfer",
                                    "writing", "finish", "remove"}
              /\ pc'[z.task] \in {"own_sync", "own_link"} => z.at = z.task
              /\ z.at # Pending
              /\ \/ z.at = z.task /\ pc'[z.at] \in {"own_sync", "own_link"}
                 \/ /\ z.at \in Tasks \ {z.task} /\ UrlOf[z.at] = UrlOf[z.task]
                    /\ pc'[z.at] \in {"sync", "link"}
                 \/ pc'[z.at] \in {"flush", "name"}
    BY <1>a, <1>b, TasksAssumption DEF IInv, TypeOK, Item, ItemsInv, Threads
  <2>2. \A t \in Tasks : pc'[t] \in {"forget", "forget_wait"} =>
           t \in Resumed /\ (Expect[t] # None \/ \A x \in items' : x.task # t)
    <3>1. \A t \in Tasks : pc'[t] \in {"forget", "forget_wait"} => pc[t] = pc'[t]
      BY <1>a DEF IInv, TypeOK, Threads
    <3>2. \A z \in items' : \E x \in items : x.task = z.task
      BY <1>b
    <3>q. QED BY <3>1, <3>2 DEF IInv, ItemsInv
  <2>q. QED BY <2>1, <2>2 DEF ItemsInv
<1>5. FilesInv'
  BY <1>a DEF IInv, TypeOK, FilesInv, Threads, taskVars, diskVars
<1>6. FlushInv'
  BY <1>a, <1>b, TasksAssumption DEF IInv, TypeOK, Item, FlushInv, Threads, diskVars, publishing
<1>7. NamedIntact'
  BY <1>a DEF IInv, NamedIntact, Intact, diskVars
<1>q. QED BY <1>1, <1>2, <1>3, <1>4, <1>5, <1>6, <1>7, <1>8 DEF IInv

\* A thread whose group is through lets go of what is left of it and of publishing.
LEMMA DropGroupStep ==
  ASSUME IInv, NEW p \in Threads, pc[p] \in {"flush", "name"}, DropGroup(p),
         UNCHANGED <<taskVars, open, pendingLock, aborted, part, object>>,
         failed' \in BOOLEAN, unflushed' \in BOOLEAN, lossUnseen' \in BOOLEAN,
         inode' \in [Inodes -> File],
         \A i \in Inodes : /\ inode'[i].bytes = inode[i].bytes
                           /\ inode'[i].sealed = inode[i].sealed
                           /\ inode[i].disk # "dirty" => inode'[i] = inode[i]
                           /\ inode'[i].disk = "lost" => inode[i].disk = "lost",
         (lossUnseen \/ unflushed) => (lossUnseen' \/ unflushed')
  PROVE  IInv'
<1>a. PICK l \in {"verify", "ok", "failed"} :
        pc' = [pc EXCEPT ![p] = l] /\ (l = "verify" <=> p # Main)
  BY DEF DropGroup, Goto, AfterGroup
<1>b. items' = {x \in items : x.at # p} /\ publishingLock' = None
  BY DEF DropGroup, HeldBy
<1>1. TypeOK'
  BY <1>a, <1>b DEF IInv, TypeOK, TaskLabels, Ended, taskVars
<1>2. LabelsInv'
  BY <1>a, TasksAssumption DEF IInv, TypeOK, LabelsInv, Threads, TaskLabels, MainLabels
<1>3. LocksInv'
  BY <1>a, <1>b, TasksAssumption DEF IInv, TypeOK, LocksInv, Threads
<1>4. ClaimInv'
  BY <1>a, <1>b, TasksAssumption DEF IInv, TypeOK, LabelsInv, ClaimInv, Owning, TaskLabels, MainLabels, Threads
<1>5. ItemsInv'
  BY <1>a, <1>b, TasksAssumption DEF IInv, TypeOK, Item, LabelsInv, ItemsInv, Threads, MainLabels
<1>6. FilesInv'
  <2>1. \A t \in Tasks : file[t] # None => file[t] \in Inodes
    BY DEF IInv, TypeOK
  <2>2. \A t \in Tasks : pc'[t] \in {"writing", "finish"} => pc[t] = pc'[t]
    BY <1>a DEF IInv, TypeOK, Threads
  <2>3. \A t \in Tasks : file[t] # None <=> pc'[t] \in {"writing", "finish", "own_sync", "own_link"}
    BY <1>a DEF IInv, TypeOK, FilesInv, Threads
  <2>q. QED BY <2>1, <2>2, <2>3 DEF IInv, FilesInv, taskVars
<1>7. \A x \in items : part[UrlOf[x.task]] \in Inodes
  BY FunctionsAssumption DEF IInv, TypeOK, Item, WaitingKeepsItsBytes
<1>8. FlushInv'
  <2>1. ASSUME NEW x \in items', x.at # Pending, pc'[x.at] \in {"name", "link", "own_link"}
        PROVE inode'[part'[UrlOf[x.task]]].disk = "durable"
    BY <2>1, <1>a, <1>b, <1>7 DEF IInv, TypeOK, Item, FlushInv
  <2>q. QED BY <2>1 DEF IInv, FlushInv
<1>9. WaitingKeepsItsBytes'
  BY <1>b, <1>7 DEF IInv, WaitingKeepsItsBytes
<1>10. NamedIntact'
  BY DEF IInv, TypeOK, NamedIntact, Intact
<1>q. QED BY <1>1, <1>2, <1>3, <1>4, <1>5, <1>6, <1>8, <1>9, <1>10 DEF IInv

\* A group that is not flushed takes no names.
LEMMA SkipGroupStep == ASSUME RestartsAlone, IInv, NEW p \in Threads, SkipGroup(p)
   PROVE IInv'
BY DropGroupStep DEF SkipGroup, IInv, TypeOK, publishing, diskVars

\* A group that is through has nothing left.
LEMMA GroupNamedStep == ASSUME RestartsAlone, IInv, NEW p \in Threads, GroupNamed(p)
   PROVE IInv'
BY DropGroupStep DEF GroupNamed, IInv, TypeOK, publishing, diskVars

\* A flush changes no bytes, and without a loss makes every file durable.
LEMMA FlushedFiles == ASSUME IInv, inode' = Flushed
  PROVE  /\ inode' \in [Inodes -> File]
         /\ \A i \in Inodes : /\ inode'[i].bytes = inode[i].bytes
                              /\ inode'[i].sealed = inode[i].sealed
                              /\ inode[i].disk # "dirty" => inode'[i] = inode[i]
                              /\ inode[i].disk = "dirty" => inode'[i].disk = "durable"
                              /\ inode'[i].disk = "lost" => inode[i].disk = "lost"
<1>1. ASSUME NEW i \in Inodes
      PROVE  /\ inode'[i] \in File
             /\ inode'[i].bytes = inode[i].bytes /\ inode'[i].sealed = inode[i].sealed
             /\ inode[i].disk # "dirty" => inode'[i] = inode[i]
             /\ inode[i].disk = "dirty" => inode'[i].disk = "durable"
             /\ inode'[i].disk = "lost" => inode[i].disk = "lost"
  <2>1. inode'[i] = IF inode[i].disk = "dirty" THEN [inode[i] EXCEPT !.disk = "durable"] ELSE inode[i]
    BY DEF Flushed
  <2>2. inode[i] \in File
    BY DEF IInv, TypeOK
  <2>q. QED BY <2>1, <2>2 DEF File
<1>2. inode' \in [Inodes -> File]
  BY <1>1 DEF Flushed
<1>q. QED BY <1>1, <1>2

\* After a flush that worked, everything the group has is on the disk.
LEMMA FlushStep == ASSUME RestartsAlone, IInv, NEW p \in Threads, Flush(p)
   PROVE IInv'
<1>a. /\ pc[p] = "flush" /\ ~unflushed /\ ~lossUnseen
      /\ inode' = Flushed /\ pc' = [pc EXCEPT ![p] = "name"]
      /\ UNCHANGED <<taskVars, items, open, lockVars, publishing, aborted, part, object, lossUnseen>>
  BY DEF Flush, Goto
<1>b. /\ inode' \in [Inodes -> File]
      /\ \A i \in Inodes : /\ inode'[i].bytes = inode[i].bytes
                           /\ inode'[i].sealed = inode[i].sealed
                           /\ inode[i].disk # "dirty" => inode'[i] = inode[i]
                           /\ inode[i].disk = "dirty" => inode'[i].disk = "durable"
                           /\ inode'[i].disk = "lost" => inode[i].disk = "lost"
  BY <1>a, FlushedFiles
<1>c. \A i \in Inodes : inode'[i].disk = "durable"
  BY <1>a, <1>b DEF IInv, TypeOK, File, FlushInv
<1>d. \A x \in items : part[UrlOf[x.task]] \in Inodes
  BY FunctionsAssumption DEF IInv, TypeOK, Item, WaitingKeepsItsBytes
<1>1. TypeOK'
  BY <1>a, <1>b DEF IInv, TypeOK, TaskLabels, taskVars, lockVars, publishing
<1>2. LabelsInv' /\ LocksInv'
  BY <1>a, TasksAssumption DEF IInv, TypeOK, LabelsInv, LocksInv, Threads, TaskLabels, MainLabels, lockVars
<1>3. ClaimInv'
  BY <1>a, TasksAssumption DEF IInv, TypeOK, ClaimInv, Owning, TaskLabels, Threads
<1>4. ItemsInv'
  BY <1>a, TasksAssumption DEF IInv, TypeOK, Item, ItemsInv, Threads
<1>5. FilesInv'
  <2>1. \A t \in Tasks : file[t] # None => file[t] \in Inodes
    BY DEF IInv, TypeOK
  <2>2. \A t \in Tasks : pc'[t] \in {"writing", "finish", "own_sync", "own_link"} <=>
                         pc[t] \in {"writing", "finish", "own_sync", "own_link"}
    BY <1>a DEF IInv, TypeOK, Threads
  <2>3. \A t \in Tasks : pc'[t] \in {"writing", "finish"} => pc[t] = pc'[t]
    BY <1>a DEF IInv, TypeOK, Threads
  <2>q. QED BY <1>a, <1>b, <2>1, <2>2, <2>3 DEF IInv, FilesInv, taskVars
<1>6. FlushInv'
  BY <1>a, <1>c, <1>d DEF FlushInv
<1>7. WaitingKeepsItsBytes'
  BY <1>a, <1>b, <1>d DEF IInv, WaitingKeepsItsBytes
<1>8. NamedIntact'
  BY <1>a, <1>b DEF IInv, TypeOK, NamedIntact, Intact
<1>q. QED BY <1>1, <1>2, <1>3, <1>4, <1>5, <1>6, <1>7, <1>8 DEF IInv

\* A failed flush is remembered, and its group takes no names.
LEMMA FlushFailsStep == ASSUME RestartsAlone, IInv, NEW p \in Threads, FlushFails(p)
   PROVE IInv'
<1>1. inode' = Flushed
  BY DEF FlushFails
<1>q. QED BY <1>1, FlushedFiles, DropGroupStep DEF FlushFails

\* Linking a durable download leaves every hash intact and the others' bytes alone.
LEMMA LinkEffects == ASSUME IInv, NEW x \in items, LinkObject(x), items' = items \ {x},
                            inode[part[UrlOf[x.task]]].disk = "durable"
   PROVE /\ part' = [part EXCEPT ![UrlOf[x.task]] = None] /\ UNCHANGED <<inode, lossUnseen>>
         /\ part' \in [Urls -> Inodes \union {None}] /\ object' \in [Digests -> Inodes \union {None}]
         /\ \A u, v \in Urls : part'[u] # None /\ part'[u] = part'[v] => u = v
         /\ \A y \in items' : part'[UrlOf[y.task]] = part[UrlOf[y.task]]
         /\ WaitingKeepsItsBytes' /\ NamedIntact'
<1> DEFINE u == UrlOf[x.task]
           i == part[u]
<1>a. u \in Urls /\ i \in Inodes /\ x.digest \in Digests
  BY FunctionsAssumption DEF IInv, TypeOK, Item, WaitingKeepsItsBytes
<1>b. inode[i] = [bytes |-> x.digest, sealed |-> TRUE, disk |-> "durable"]
  BY <1>a DEF IInv, TypeOK, File, WaitingKeepsItsBytes
<1>c. /\ object' = [object EXCEPT ![x.digest] =
                      IF object[x.digest] # None /\ inode[object[x.digest]].bytes = x.digest
                      THEN object[x.digest] ELSE i]
      /\ part' = [part EXCEPT ![u] = None] /\ UNCHANGED <<inode, lossUnseen>>
  BY DEF LinkObject
<1>1. part' \in [Urls -> Inodes \union {None}] /\ object' \in [Digests -> Inodes \union {None}]
  BY <1>a, <1>c DEF IInv, TypeOK
<1>2. \A v, w \in Urls : part'[v] # None /\ part'[v] = part'[w] => v = w
  BY <1>a, <1>c DEF IInv, TypeOK, FilesInv
<1>3. \A y \in items' : part'[UrlOf[y.task]] = part[UrlOf[y.task]]
  BY <1>a, <1>c, FunctionsAssumption DEF IInv, TypeOK, Item, ClaimInv
<1>4. WaitingKeepsItsBytes'
  BY <1>3, <1>c DEF IInv, WaitingKeepsItsBytes
<1>5. NamedIntact'
  BY <1>a, <1>b, <1>c DEF IInv, TypeOK, NamedIntact, Intact
<1>q. QED BY <1>1, <1>2, <1>3, <1>4, <1>5, <1>c

\* Naming one of a flushed group keeps the rest of the group as it was.
LEMMA NameStep == ASSUME RestartsAlone, IInv, NEW p \in Threads, NEW x \in items, Name(p, x)
   PROVE IInv'
<1>a. /\ pc[p] = "name" /\ x.at = p /\ LinkObject(x) /\ items' = items \ {x}
      /\ UNCHANGED <<pc, taskVars, open, lockVars, publishing, aborted>>
  BY DEF Name, HeldBy
<1>b. inode[part[UrlOf[x.task]]].disk = "durable"
  BY <1>a, TasksAssumption DEF IInv, FlushInv
<1>c. /\ part' = [part EXCEPT ![UrlOf[x.task]] = None] /\ UNCHANGED <<inode, lossUnseen>>
      /\ part' \in [Urls -> Inodes \union {None}] /\ object' \in [Digests -> Inodes \union {None}]
      /\ \A u, v \in Urls : part'[u] # None /\ part'[u] = part'[v] => u = v
      /\ \A y \in items' : part'[UrlOf[y.task]] = part[UrlOf[y.task]]
      /\ WaitingKeepsItsBytes' /\ NamedIntact'
  BY <1>a, <1>b, LinkEffects
<1>d. \A t \in Tasks : file[t] # None => UrlOf[t] # UrlOf[x.task]
  <2> SUFFICES ASSUME NEW t \in Tasks, file[t] # None, UrlOf[t] = UrlOf[x.task] PROVE FALSE
    OBVIOUS
  <2>1. x.task = t /\ pc[t] \in {"writing", "finish", "own_sync", "own_link"}
    BY DEF IInv, ClaimInv, FilesInv, Owning, TaskLabels
  <2>q. QED BY <2>1, <1>a DEF IInv, ItemsInv
<1>1. TypeOK'
  BY <1>a, <1>c DEF IInv, TypeOK, taskVars, lockVars, publishing
<1>2. LabelsInv' /\ LocksInv'
  BY <1>a DEF IInv, LabelsInv, LocksInv, lockVars
<1>3. ClaimInv' /\ ItemsInv'
  BY <1>a DEF IInv, ClaimInv, ItemsInv, taskVars
<1>4. FilesInv'
  BY <1>a, <1>c, <1>d, FunctionsAssumption DEF IInv, TypeOK, FilesInv, taskVars
<1>5. FlushInv'
  BY <1>a, <1>c DEF IInv, FlushInv, publishing
<1>q. QED BY <1>1, <1>2, <1>3, <1>4, <1>5, <1>c DEF IInv

\* A failed link leaves every other download alone.
LEMMA NameFailsStep == ASSUME RestartsAlone, IInv, NEW p \in Threads, NEW x \in items, NameFails(p, x)
   PROVE IInv'
<1>a. /\ pc[p] = "name" /\ items' = items \ {x} /\ failed' = TRUE
      /\ UNCHANGED <<pc, taskVars, open, lockVars, unflushed, aborted, diskVars>>
  BY DEF NameFails, Goto, HeldBy
<1>1. TypeOK'
  BY <1>a, TasksAssumption DEF IInv, TypeOK, Threads, TaskLabels, Ended, MainLabels, taskVars, lockVars, diskVars
<1>2. LabelsInv' /\ LocksInv'
  BY <1>a, TasksAssumption DEF IInv, TypeOK, LabelsInv, LocksInv, Threads, TaskLabels, Ended, MainLabels, taskVars, lockVars, diskVars
<1>3. ClaimInv'
  BY <1>a, TasksAssumption DEF IInv, TypeOK, ClaimInv, Threads, Owning, TaskLabels, Ended, taskVars, lockVars, diskVars
<1>4. ItemsInv'
  BY <1>a, TasksAssumption DEF IInv, TypeOK, Item, ItemsInv, Threads, taskVars, lockVars, diskVars
<1>5. FilesInv'
  BY <1>a, TasksAssumption DEF IInv, TypeOK, FilesInv, Threads, taskVars, lockVars, diskVars
<1>6. FlushInv'
  BY <1>a, TasksAssumption DEF IInv, TypeOK, Item, FlushInv, Threads, taskVars, lockVars, diskVars
<1>7. WaitingKeepsItsBytes' /\ NamedIntact'
  BY <1>a, TasksAssumption DEF IInv, TypeOK, Item, WaitingKeepsItsBytes, NamedIntact, Intact, taskVars, lockVars, diskVars
<1>q. QED BY <1>1, <1>2, <1>3, <1>4, <1>5, <1>6, <1>7 DEF IInv

-----------------------------------------------------------------------------
\* A download put in place with its own flush.

\* The download a task takes over is its own link's, and waits for nobody else.
LEMMA TakeFinishedStep == ASSUME RestartsAlone, IInv, NEW t \in Tasks, NEW x \in items, TakeFinished(t, x)
   PROVE IInv'
<1> DEFINE y == [x EXCEPT !.at = t]
<1>a. /\ pc[t] = "claim" /\ pc' = [pc EXCEPT ![t] = "sync"] /\ open
      /\ x.at = Pending /\ UrlOf[x.task] = UrlOf[t]
      /\ items' = (items \ {x}) \union {y}
      /\ UNCHANGED <<restarted, got, file, open, lockVars, publishing, aborted, diskVars>>
  BY DEF TakeFinished, Goto, Waiting
<1>b. y \in Item /\ y.task = x.task /\ y.digest = x.digest /\ y.at = t
  BY DEF IInv, TypeOK, Item, Threads
<1> HIDE DEF y
<1>4. ClaimInv'
  <2>0. \A z \in items' : z \in items \ {x} \/ z = y
    BY <1>a
  <2>1. \A r, s \in Tasks :
         pc'[r] \in Owning /\ pc'[s] \in Owning /\ UrlOf[r] = UrlOf[s] => r = s
    BY <1>a DEF IInv, TypeOK, ClaimInv, Owning, Threads
  <2>2. \A z \in items', s \in Tasks :
         pc'[s] \in Owning /\ UrlOf[z.task] = UrlOf[s] => z.task = s
    BY <2>0, <1>a, <1>b DEF IInv, TypeOK, ClaimInv, Owning, Threads
  <2>3. \A z, w \in items' : UrlOf[z.task] = UrlOf[w.task] => z = w
    BY <2>0, <1>b DEF IInv, ClaimInv
  <2>q. QED BY <2>1, <2>2, <2>3 DEF ClaimInv
<1>8. WaitingKeepsItsBytes'
  BY <1>a, <1>b DEF IInv, WaitingKeepsItsBytes, diskVars
<1>c. \A z \in items' : z \in items \ {x} \/ z = y
  BY <1>a
<1>1. TypeOK'
  <2>1. pc' \in [Threads -> TaskLabels \union Ended \union MainLabels]
    BY <1>a DEF IInv, TypeOK, TaskLabels
  <2>2. items' \subseteq Item /\ waited' \in [Tasks -> BOOLEAN]
    BY <1>b, <1>c DEF IInv, TypeOK, TakeFinished
  <2>q. QED BY <1>a, <2>1, <2>2 DEF IInv, TypeOK, lockVars, publishing, diskVars
<1>2. LabelsInv' /\ LocksInv'
  BY <1>a, TasksAssumption DEF IInv, TypeOK, LabelsInv, LocksInv, Threads, TaskLabels, lockVars
<1>5. ItemsInv'
  BY <1>a, <1>b, <1>c, TasksAssumption DEF IInv, TypeOK, Item, ItemsInv, Threads
<1>6. FilesInv'
  BY <1>a DEF IInv, TypeOK, FilesInv, Threads, diskVars
<1>7. FlushInv'
  BY <1>a, <1>b, <1>c, TasksAssumption DEF IInv, TypeOK, Item, FlushInv, Threads, diskVars, publishing
<1>9. NamedIntact'
  BY <1>a DEF IInv, NamedIntact, Intact, diskVars
<1>q. QED BY <1>1, <1>2, <1>4, <1>5, <1>6, <1>7, <1>8, <1>9 DEF IInv

\* After fsync the one file is on the disk.
LEMMA SyncStep == ASSUME RestartsAlone, IInv, NEW t \in Tasks, Sync(t)
   PROVE IInv'
<1> DEFINE u == UrlOf[t]
           i == part[u]
<1>a. /\ pc[t] \in {"own_sync", "sync"}
      /\ pc' = [pc EXCEPT ![t] = IF pc[t] = "sync" THEN "link" ELSE "own_link"]
      /\ UNCHANGED <<taskVars, items, open, lockVars, publishing, aborted, part, object, lossUnseen>>
  BY DEF Sync, Goto
<1>b. u \in Urls /\ i \in Inodes /\ i = IF pc[t] = "own_sync" THEN file[t] ELSE part[u]
  BY <1>a, FunctionsAssumption DEF IInv, TypeOK, FilesInv, Sync
<1>c. inode' = [inode EXCEPT ![i] = [@ EXCEPT !.disk = "durable"]]
  BY <1>b DEF Sync
<1>d. /\ inode'[i].disk = "durable" /\ inode'[i].bytes = inode[i].bytes
      /\ inode'[i].sealed = inode[i].sealed
      /\ \A j \in Inodes : j # i => inode'[j] = inode[j]
      /\ inode[i].disk = "durable" => inode'[i] = inode[i]
  BY <1>b, <1>c DEF IInv, TypeOK, File
<1>e. \A x \in items : x.at = t => part[UrlOf[x.task]] = i
  BY <1>a, TasksAssumption DEF IInv, ItemsInv, Threads
<1>1. TypeOK'
  <2>1. pc' \in [Threads -> TaskLabels \union Ended \union MainLabels]
    BY <1>a DEF IInv, TypeOK, TaskLabels
  <2>2. inode' \in [Inodes -> File]
    BY ZenonT(40), <1>c DEF IInv, TypeOK, File
  <2>q. QED BY <1>a, <2>1, <2>2 DEF IInv, TypeOK, lockVars, publishing, taskVars
<1>3. FlushInv'
  <2>1. ASSUME NEW x \in items, x.at # Pending, pc'[x.at] \in {"name", "link", "own_link"}
        PROVE inode'[part'[UrlOf[x.task]]].disk = "durable"
    <3>1. part[UrlOf[x.task]] \in Inodes
      BY FunctionsAssumption DEF IInv, TypeOK, Item, WaitingKeepsItsBytes
    <3>2. CASE x.at = t
      BY <3>2, <1>a, <1>d, <1>e
    <3>3. CASE x.at # t
      BY <2>1, <3>1, <3>3, <1>a, <1>d DEF IInv, TypeOK, Item, FlushInv
    <3>q. QED BY <3>2, <3>3
  <2>q. QED BY <2>1, <1>a, <1>d DEF IInv, FlushInv, publishing
<1>5. NamedIntact'
  BY <1>a, <1>b, <1>d DEF IInv, TypeOK, NamedIntact, Intact
<1>2. LabelsInv' /\ LocksInv'
  BY <1>a, TasksAssumption DEF IInv, TypeOK, LabelsInv, LocksInv, Threads, TaskLabels, lockVars
<1>4. ClaimInv'
  BY <1>a DEF IInv, TypeOK, ClaimInv, Owning, TaskLabels, Threads
<1>6. ItemsInv'
  BY <1>a, TasksAssumption DEF IInv, TypeOK, Item, ItemsInv, Threads
<1>7. FilesInv'
  <2>1. \A s \in Tasks : file[s] # None => file[s] \in Inodes
    BY DEF IInv, TypeOK
  <2>q. QED BY <1>a, <1>b, <1>d, <2>1 DEF IInv, TypeOK, FilesInv, taskVars, Threads
<1>8. WaitingKeepsItsBytes'
  <2>1. \A x \in items : part[UrlOf[x.task]] \in Inodes
    BY FunctionsAssumption DEF IInv, TypeOK, Item, WaitingKeepsItsBytes
  <2>q. QED BY <1>a, <1>d, <2>1 DEF IInv, WaitingKeepsItsBytes
<1>q. QED BY <1>1, <1>2, <1>3, <1>4, <1>5, <1>6, <1>7, <1>8 DEF IInv

\* A download put in place alone was flushed alone.
LEMMA LinkStep == ASSUME RestartsAlone, IInv, NEW t \in Tasks, NEW x \in items, Link(t, x)
   PROVE IInv'
<1>a. /\ pc[t] \in {"own_link", "link"} /\ x.at = t /\ LinkObject(x) /\ items' = items \ {x}
      /\ file' = [file EXCEPT ![t] = None]
      /\ pc' = [pc EXCEPT ![t] = IF pc[t] = "link" THEN "claim" ELSE "verify"]
      /\ UNCHANGED <<waited, restarted, got, open, lockVars, publishing, aborted>>
  BY DEF Link, HeldBy, Goto
<1>b. inode[part[UrlOf[x.task]]].disk = "durable"
  BY <1>a, TasksAssumption DEF IInv, FlushInv, Threads
<1>c. /\ part' = [part EXCEPT ![UrlOf[x.task]] = None] /\ UNCHANGED <<inode, lossUnseen>>
      /\ part' \in [Urls -> Inodes \union {None}] /\ object' \in [Digests -> Inodes \union {None}]
      /\ \A u, v \in Urls : part'[u] # None /\ part'[u] = part'[v] => u = v
      /\ \A y \in items' : part'[UrlOf[y.task]] = part[UrlOf[y.task]]
      /\ WaitingKeepsItsBytes' /\ NamedIntact'
  BY <1>a, <1>b, LinkEffects
<1>d. \A s \in Tasks : file[s] # None /\ s # t => UrlOf[s] # UrlOf[x.task]
  <2> SUFFICES ASSUME NEW s \in Tasks, s # t, file[s] # None, UrlOf[s] = UrlOf[x.task] PROVE FALSE
    OBVIOUS
  <2>1. x.task = s /\ pc[s] \in {"writing", "finish", "own_sync", "own_link"}
    BY DEF IInv, ClaimInv, FilesInv, Owning, TaskLabels
  <2>q. QED BY <2>1, <1>a DEF IInv, ItemsInv
<1>e. \A y \in items' : y.at # t /\ y.task # t
  <2> SUFFICES ASSUME NEW y \in items', y.at = t \/ y.task = t PROVE FALSE
    OBVIOUS
  <2>1. UrlOf[y.task] = UrlOf[t] /\ UrlOf[x.task] = UrlOf[t]
    BY <1>a, TasksAssumption DEF IInv, ItemsInv, Threads
  <2>q. QED BY <2>1, <1>a DEF IInv, ClaimInv
<1>1. TypeOK'
  <2>1. pc' \in [Threads -> TaskLabels \union Ended \union MainLabels]
    BY <1>a DEF IInv, TypeOK, TaskLabels
  <2>q. QED BY <2>1, <1>a, <1>c DEF IInv, TypeOK, lockVars, publishing
<1>2. LabelsInv' /\ LocksInv'
  BY <1>a, TasksAssumption DEF IInv, TypeOK, LabelsInv, LocksInv, lockVars, Threads, TaskLabels, MainLabels
<1>3. ClaimInv'
  BY <1>a DEF IInv, TypeOK, ClaimInv, Threads, Owning, TaskLabels
<1>4. ItemsInv'
  BY <1>a, <1>e, TasksAssumption DEF IInv, TypeOK, Item, ItemsInv, Threads
<1>5. FilesInv'
  <2>1. \A s \in Tasks : /\ file'[s] # None <=> pc'[s] \in {"writing", "finish", "own_sync", "own_link"}
                         /\ file'[s] # None => s # t /\ file'[s] = file[s] /\ pc'[s] = pc[s]
    BY <1>a DEF IInv, TypeOK, FilesInv, Threads
  <2>2. \A s \in Tasks : file'[s] # None => part'[UrlOf[s]] = file'[s]
    BY <2>1, <1>c, <1>d, FunctionsAssumption DEF IInv, TypeOK, FilesInv
  <2>q. QED BY <2>1, <2>2, <1>a, <1>c DEF IInv, FilesInv
<1>6. FlushInv'
  BY <1>a, <1>c, <1>e DEF IInv, TypeOK, Item, FlushInv, publishing
<1>q. QED BY <1>1, <1>2, <1>3, <1>4, <1>5, <1>6, <1>c DEF IInv

\* A failure drops the download with its claim.
LEMMA AloneFailsStep == ASSUME RestartsAlone, IInv, NEW t \in Tasks, AloneFails(t)
   PROVE IInv'
<1>a. /\ pc[t] \in {"own_sync", "sync", "own_link", "link"}
      /\ items' = {x \in items : x.at # t}
      /\ file' = [file EXCEPT ![t] = None]
      /\ UNCHANGED <<waited, restarted, got, open, lockVars, publishing, aborted, diskVars>>
  BY DEF AloneFails, Goto, Failure, HeldBy
<1>b. PICK l \in {"failed", "fatal"} : pc' = [pc EXCEPT ![t] = l]
  BY DEF AloneFails, Failure, Goto
<1>1. TypeOK'
  BY <1>a, <1>b, TasksAssumption DEF IInv, TypeOK, Threads, TaskLabels, Ended, MainLabels, lockVars, publishing, diskVars
<1>2. LabelsInv' /\ LocksInv'
  BY <1>a, <1>b, TasksAssumption DEF IInv, TypeOK, LabelsInv, LocksInv, Threads, TaskLabels, Ended, MainLabels, lockVars, publishing, diskVars
<1>3. ClaimInv'
  BY <1>a, <1>b, TasksAssumption DEF IInv, TypeOK, ClaimInv, Threads, Owning, TaskLabels, Ended, lockVars, publishing, diskVars
<1>4. ItemsInv'
  BY <1>a, <1>b, TasksAssumption DEF IInv, TypeOK, Item, ItemsInv, Threads, lockVars, publishing, diskVars
<1>5. FilesInv'
  BY <1>a, <1>b, TasksAssumption DEF IInv, TypeOK, FilesInv, Threads, lockVars, publishing, diskVars
<1>6. FlushInv'
  BY <1>a, <1>b, TasksAssumption DEF IInv, TypeOK, Item, FlushInv, Threads, lockVars, publishing, diskVars
<1>7. WaitingKeepsItsBytes' /\ NamedIntact'
  BY <1>a, <1>b, TasksAssumption DEF IInv, TypeOK, Item, WaitingKeepsItsBytes, NamedIntact, Intact, lockVars, publishing, diskVars
<1>q. QED BY <1>1, <1>2, <1>3, <1>4, <1>5, <1>6, <1>7 DEF IInv

-----------------------------------------------------------------------------
\* Verify and discard.

\* Comparing hashes touches nothing but the task.
LEMMA VerifyStep == ASSUME RestartsAlone, IInv, NEW t \in Tasks, Verify(t)
   PROVE IInv'
<1>1. restarted' \in [Tasks -> BOOLEAN]
  BY DEF Verify, IInv, TypeOK
<1>2. PICK l \in {"ok", "failed", "forget"} :
        pc' = [pc EXCEPT ![t] = l] /\ (l = "forget" => t \in Resumed /\ Expect[t] # None)
  BY DEF Verify, Goto
<1>q. QED BY <1>1, <1>2, QuietStep DEF Verify, IInv, TypeOK, TaskLabels, Ended

\* Forgetting takes the link's download out of the batch and keeps the batch locked.
LEMMA ForgetStep == ASSUME RestartsAlone, IInv, NEW t \in Tasks, Forget(t)
   PROVE IInv'
<1>a. /\ pc[t] = "forget" /\ pc' = [pc EXCEPT ![t] = "forget_wait"]
      /\ pendingLock = None /\ pendingLock' = t
      /\ items' = items \ {x \in items : x.at = Pending /\ open /\ UrlOf[x.task] = UrlOf[t]}
      /\ UNCHANGED <<taskVars, open, publishingLock, publishing, aborted, diskVars>>
  BY DEF Forget, Goto, Waiting
<1>1. TypeOK'
  BY <1>a, TasksAssumption DEF IInv, TypeOK, Threads, TaskLabels, Ended, MainLabels, taskVars, publishing, diskVars
<1>2. LabelsInv' /\ LocksInv'
  BY <1>a, TasksAssumption DEF IInv, TypeOK, LabelsInv, LocksInv, Threads, TaskLabels, Ended, MainLabels, taskVars, publishing, diskVars
<1>3. ClaimInv'
  BY <1>a, TasksAssumption DEF IInv, TypeOK, ClaimInv, Threads, Owning, TaskLabels, Ended, taskVars, publishing, diskVars
<1>4. ItemsInv'
  <2>1. \A x \in items' : x.task = t => x.at # Pending
    BY <1>a, TasksAssumption DEF IInv, LocksInv, ItemsInv, Threads
  <2>q. QED BY <2>1, <1>a, TasksAssumption DEF IInv, TypeOK, Item, ItemsInv, Threads
<1>5. FilesInv'
  BY <1>a, TasksAssumption DEF IInv, TypeOK, FilesInv, Threads, taskVars, publishing, diskVars
<1>6. FlushInv'
  BY <1>a, TasksAssumption DEF IInv, TypeOK, Item, FlushInv, Threads, taskVars, publishing, diskVars
<1>7. WaitingKeepsItsBytes' /\ NamedIntact'
  BY <1>a, TasksAssumption DEF IInv, TypeOK, Item, WaitingKeepsItsBytes, NamedIntact, Intact, taskVars, publishing, diskVars
<1>q. QED BY <1>1, <1>2, <1>3, <1>4, <1>5, <1>6, <1>7 DEF IInv

\* Once no group is at work, nobody has the link's download.
LEMMA ForgetWaitedStep == ASSUME RestartsAlone, IInv, NEW t \in Tasks, ForgetWaited(t)
   PROVE IInv'
<1>a. /\ pc[t] = "forget_wait" /\ pc' = [pc EXCEPT ![t] = "remove"]
      /\ publishingLock = None /\ pendingLock' = None
      /\ UNCHANGED <<taskVars, items, open, publishingLock, publishing, aborted, diskVars>>
  BY DEF ForgetWaited, Goto
<1>1. TypeOK'
  BY <1>a, TasksAssumption DEF IInv, TypeOK, Threads, TaskLabels, Ended, MainLabels, taskVars, publishing, diskVars
<1>2. LabelsInv' /\ LocksInv'
  BY <1>a, TasksAssumption DEF IInv, TypeOK, LabelsInv, LocksInv, Threads, TaskLabels, Ended, MainLabels, taskVars, publishing, diskVars
<1>3. ClaimInv'
  BY <1>a, TasksAssumption DEF IInv, TypeOK, ClaimInv, Threads, Owning, TaskLabels, Ended, taskVars, publishing, diskVars
<1>4. ItemsInv'
  <2>1. ASSUME NEW x \in items, x.task = t PROVE FALSE
    <3>1. x.at # Pending /\ t \in Resumed /\ Expect[t] # None
      BY <2>1, <1>a DEF IInv, ItemsInv
    <3>2. pc[x.at] \notin {"flush", "name"}
      BY <3>1, <1>a, TasksAssumption DEF IInv, TypeOK, Item, LocksInv
    <3>3. x.at # x.task
      BY <2>1, <1>a DEF IInv, ItemsInv
    <3>4. x.at \in Tasks \ {x.task} /\ UrlOf[x.at] = UrlOf[x.task]
      BY <3>1, <3>2, <3>3 DEF IInv, ItemsInv
    <3>q. QED BY <2>1, <3>1, <3>4 DEF RestartsAlone
  <2>q. QED BY <2>1, <1>a, TasksAssumption DEF IInv, TypeOK, Item, ItemsInv, Threads
<1>5. FilesInv'
  BY <1>a, TasksAssumption DEF IInv, TypeOK, FilesInv, Threads, taskVars, publishing, diskVars
<1>6. FlushInv'
  BY <1>a, TasksAssumption DEF IInv, TypeOK, Item, FlushInv, Threads, taskVars, publishing, diskVars
<1>7. WaitingKeepsItsBytes' /\ NamedIntact'
  BY <1>a, TasksAssumption DEF IInv, TypeOK, Item, WaitingKeepsItsBytes, NamedIntact, Intact, taskVars, publishing, diskVars
<1>q. QED BY <1>1, <1>2, <1>3, <1>4, <1>5, <1>6, <1>7 DEF IInv

\* The partial name removed is the task's own, with no finished download behind it.
LEMMA RemovePartStep == ASSUME RestartsAlone, IInv, NEW t \in Tasks, RemovePart(t)
   PROVE IInv'
<1>a. /\ pc[t] = "remove" /\ pc' = [pc EXCEPT ![t] = "transfer"]
      /\ part' = [part EXCEPT ![UrlOf[t]] = None] /\ got' = [got EXCEPT ![t] = None]
      /\ UNCHANGED <<waited, restarted, file, items, open, lockVars, publishing, aborted, object, inode, lossUnseen>>
  BY DEF RemovePart, Goto
<1>b. /\ \A x \in items : UrlOf[x.task] # UrlOf[t] /\ part'[UrlOf[x.task]] = part[UrlOf[x.task]]
      /\ \A s \in Tasks : file[s] # None => s # t /\ part'[UrlOf[s]] = part[UrlOf[s]]
      /\ \A u \in Urls : part'[u] = part[u] \/ part'[u] = None
  <2>1. \A x \in items : UrlOf[x.task] # UrlOf[t]
    BY <1>a DEF IInv, ClaimInv, ItemsInv, Owning, TaskLabels
  <2>2. \A s \in Tasks : file[s] # None => s # t /\ UrlOf[s] # UrlOf[t]
    BY <1>a DEF IInv, ClaimInv, FilesInv, Owning, TaskLabels
  <2>q. QED BY <2>1, <2>2, <1>a, FunctionsAssumption DEF IInv, TypeOK, Item
<1>1. TypeOK'
  BY <1>a, <1>b, TasksAssumption, FunctionsAssumption DEF IInv, TypeOK, Threads, TaskLabels, Ended, MainLabels, lockVars, publishing
<1>2. LabelsInv' /\ LocksInv'
  BY <1>a, <1>b, TasksAssumption DEF IInv, TypeOK, LabelsInv, LocksInv, Threads, TaskLabels, Ended, MainLabels, lockVars, publishing
<1>3. ClaimInv'
  BY <1>a, <1>b, TasksAssumption DEF IInv, TypeOK, ClaimInv, Threads, Owning, TaskLabels, Ended, lockVars, publishing
<1>4. ItemsInv'
  BY <1>a, <1>b, TasksAssumption DEF IInv, TypeOK, Item, ItemsInv, Threads, lockVars, publishing
<1>5. FilesInv'
  BY <1>a, <1>b, TasksAssumption DEF IInv, TypeOK, FilesInv, Threads, lockVars, publishing
<1>6. FlushInv'
  BY <1>a, <1>b, TasksAssumption DEF IInv, TypeOK, Item, FlushInv, Threads, lockVars, publishing
<1>7. WaitingKeepsItsBytes' /\ NamedIntact'
  BY <1>a, <1>b, TasksAssumption DEF IInv, TypeOK, Item, WaitingKeepsItsBytes, NamedIntact, Intact, lockVars, publishing
<1>q. QED BY <1>1, <1>2, <1>3, <1>4, <1>5, <1>6, <1>7 DEF IInv

-----------------------------------------------------------------------------
\* The end of the batch and the disk.

\* A dropped task lets its claim go; what it finished waits on.
LEMMA DropStep == ASSUME RestartsAlone, IInv, NEW t \in Tasks, Drop(t)
   PROVE IInv'
<1>a. /\ pc[t] \in {"look", "claim", "transfer", "writing", "verify"} /\ pc' = [pc EXCEPT ![t] = "dropped"]
      /\ file' = [file EXCEPT ![t] = None]
      /\ UNCHANGED <<waited, restarted, got, items, open, lockVars, publishing, aborted, diskVars>>
  BY DEF Drop, Goto
<1>1. TypeOK'
  BY <1>a, TasksAssumption DEF IInv, TypeOK, Threads, TaskLabels, Ended, MainLabels, lockVars, publishing, diskVars
<1>2. LabelsInv' /\ LocksInv'
  BY <1>a, TasksAssumption DEF IInv, TypeOK, LabelsInv, LocksInv, Threads, TaskLabels, Ended, MainLabels, lockVars, publishing, diskVars
<1>3. ClaimInv'
  BY <1>a, TasksAssumption DEF IInv, TypeOK, ClaimInv, Threads, Owning, TaskLabels, Ended, lockVars, publishing, diskVars
<1>4. ItemsInv'
  BY <1>a, TasksAssumption DEF IInv, TypeOK, Item, ItemsInv, Threads, lockVars, publishing, diskVars
<1>5. FilesInv'
  BY <1>a, TasksAssumption DEF IInv, TypeOK, FilesInv, Threads, lockVars, publishing, diskVars
<1>6. FlushInv'
  BY <1>a, TasksAssumption DEF IInv, TypeOK, Item, FlushInv, Threads, lockVars, publishing, diskVars
<1>7. WaitingKeepsItsBytes' /\ NamedIntact'
  BY <1>a, TasksAssumption DEF IInv, TypeOK, Item, WaitingKeepsItsBytes, NamedIntact, Intact, lockVars, publishing, diskVars
<1>q. QED BY <1>1, <1>2, <1>3, <1>4, <1>5, <1>6, <1>7 DEF IInv

\* The batch ends with nothing of its own in hand.
LEMMA AllEndedStep == ASSUME RestartsAlone, IInv, AllEnded
   PROVE IInv'
<1>a. /\ pc[Main] = "running" /\ pc' = [pc EXCEPT ![Main] = "publish"]
      /\ UNCHANGED <<taskVars, items, open, lockVars, publishing, aborted, diskVars>>
  BY DEF AllEnded, Goto
<1>1. TypeOK'
  BY <1>a, TasksAssumption DEF IInv, TypeOK, Threads, TaskLabels, Ended, MainLabels, taskVars, lockVars, publishing, diskVars
<1>2. LabelsInv' /\ LocksInv'
  BY <1>a, TasksAssumption DEF IInv, TypeOK, LabelsInv, LocksInv, Threads, TaskLabels, Ended, MainLabels, taskVars, lockVars, publishing, diskVars
<1>3. ClaimInv'
  BY <1>a, TasksAssumption DEF IInv, TypeOK, ClaimInv, Threads, Owning, TaskLabels, Ended, taskVars, lockVars, publishing, diskVars
<1>4. ItemsInv'
  BY <1>a, TasksAssumption DEF IInv, TypeOK, Item, ItemsInv, Threads, taskVars, lockVars, publishing, diskVars
<1>5. FilesInv'
  BY <1>a, TasksAssumption DEF IInv, TypeOK, FilesInv, Threads, taskVars, lockVars, publishing, diskVars
<1>6. FlushInv'
  BY <1>a, TasksAssumption DEF IInv, TypeOK, Item, FlushInv, Threads, taskVars, lockVars, publishing, diskVars
<1>7. WaitingKeepsItsBytes' /\ NamedIntact'
  BY <1>a, TasksAssumption DEF IInv, TypeOK, Item, WaitingKeepsItsBytes, NamedIntact, Intact, taskVars, lockVars, publishing, diskVars
<1>q. QED BY <1>1, <1>2, <1>3, <1>4, <1>5, <1>6, <1>7 DEF IInv

\* Aborting touches no file.
LEMMA AbortStep == ASSUME RestartsAlone, IInv, Abort
   PROVE IInv'
<1>a. /\ pc[Main] = "running" /\ pc' = [pc EXCEPT ![Main] = "publish"] /\ aborted'
      /\ aborted' \in BOOLEAN
      /\ UNCHANGED <<taskVars, items, open, lockVars, publishing, diskVars>>
  BY DEF Abort, Goto
<1>1. TypeOK'
  BY <1>a, TasksAssumption DEF IInv, TypeOK, Threads, TaskLabels, Ended, MainLabels, taskVars, lockVars, publishing, diskVars
<1>2. LabelsInv' /\ LocksInv'
  BY <1>a, TasksAssumption DEF IInv, TypeOK, LabelsInv, LocksInv, Threads, TaskLabels, Ended, MainLabels, taskVars, lockVars, publishing, diskVars
<1>3. ClaimInv'
  BY <1>a, TasksAssumption DEF IInv, TypeOK, ClaimInv, Threads, Owning, TaskLabels, Ended, taskVars, lockVars, publishing, diskVars
<1>4. ItemsInv'
  BY <1>a, TasksAssumption DEF IInv, TypeOK, Item, ItemsInv, Threads, taskVars, lockVars, publishing, diskVars
<1>5. FilesInv'
  BY <1>a, TasksAssumption DEF IInv, TypeOK, FilesInv, Threads, taskVars, lockVars, publishing, diskVars
<1>6. FlushInv'
  BY <1>a, TasksAssumption DEF IInv, TypeOK, Item, FlushInv, Threads, taskVars, lockVars, publishing, diskVars
<1>7. WaitingKeepsItsBytes' /\ NamedIntact'
  BY <1>a, TasksAssumption DEF IInv, TypeOK, Item, WaitingKeepsItsBytes, NamedIntact, Intact, taskVars, lockVars, publishing, diskVars
<1>q. QED BY <1>1, <1>2, <1>3, <1>4, <1>5, <1>6, <1>7 DEF IInv

\* Closing the batch hands what waits to the thread that closes it.
LEMMA PublishDownloadsStep == ASSUME RestartsAlone, IInv, PublishDownloads
   PROVE IInv'
<1>a. PICK l \in {"flush_wait", "ok", "failed"} :
        /\ pc[Main] = "publish" /\ pc' = [pc EXCEPT ![Main] = l]
        /\ pendingLock = None /\ pendingLock' = IF l = "flush_wait" THEN Main ELSE None
        /\ open => l = "flush_wait"
  BY TasksAssumption DEF PublishDownloads, Goto, AfterGroup
<1>b. /\ failed' \in BOOLEAN /\ open' = FALSE
      /\ UNCHANGED <<taskVars, items, publishingLock, unflushed, aborted, diskVars>>
  BY DEF PublishDownloads, IInv, TypeOK
<1>1. TypeOK'
  BY <1>a, <1>b DEF IInv, TypeOK, TaskLabels, Ended, Threads, taskVars, diskVars
<1>2. LabelsInv' /\ LocksInv'
  BY <1>a, <1>b, TasksAssumption DEF IInv, TypeOK, LabelsInv, LocksInv, Threads, MainLabels
<1>3. ClaimInv'
  BY <1>a, <1>b, TasksAssumption DEF IInv, TypeOK, ClaimInv, Threads
<1>4. ItemsInv'
  BY <1>a, <1>b, TasksAssumption DEF IInv, TypeOK, Item, ItemsInv, Threads
<1>5. FilesInv'
  BY <1>a, <1>b, TasksAssumption DEF IInv, TypeOK, FilesInv, Threads, taskVars, diskVars
<1>6. FlushInv' /\ WaitingKeepsItsBytes' /\ NamedIntact'
  BY <1>a, <1>b, TasksAssumption DEF IInv, TypeOK, Item, FlushInv, WaitingKeepsItsBytes,
     NamedIntact, Intact, Threads, diskVars
<1>q. QED BY <1>1, <1>2, <1>3, <1>4, <1>5, <1>6 DEF IInv

\* Only dirty bytes are lost, so no hash names them, and the loss is to be reported.
LEMMA LoseBytesStep == ASSUME RestartsAlone, IInv, NEW i \in Inodes, LoseBytes(i)
   PROVE IInv'
<1>a. /\ inode[i].disk = "dirty" /\ lossUnseen'
      /\ UNCHANGED <<pc, taskVars, items, open, lockVars, publishing, aborted, part, object>>
  BY DEF LoseBytes
<1>b. /\ inode' = [inode EXCEPT ![i] = [inode[i] EXCEPT !.disk = "lost"]]
      /\ lossUnseen' \in BOOLEAN
  BY DEF LoseBytes
<1>c. /\ inode' \in [Inodes -> File]
      /\ \A j \in Inodes : /\ inode'[j].bytes = inode[j].bytes
                           /\ inode'[j].sealed = inode[j].sealed
                           /\ inode[j].disk # "dirty" => inode'[j] = inode[j]
  BY <1>a, <1>b DEF IInv, TypeOK, File
<1>d. \A x \in items : part[UrlOf[x.task]] \in Inodes
  BY FunctionsAssumption DEF IInv, TypeOK, Item, WaitingKeepsItsBytes
<1>1. TypeOK'
  BY <1>a, <1>b, <1>c DEF IInv, TypeOK, taskVars, lockVars, publishing
<1>2. LabelsInv' /\ LocksInv' /\ ClaimInv' /\ ItemsInv'
  BY <1>a DEF IInv, LabelsInv, LocksInv, ClaimInv, ItemsInv, taskVars, lockVars
<1>3. FilesInv'
  <2>1. \A t \in Tasks : file[t] # None => file[t] \in Inodes
    BY DEF IInv, TypeOK
  <2>q. QED BY <1>a, <1>c, <2>1 DEF IInv, FilesInv, taskVars
<1>4. FlushInv' /\ WaitingKeepsItsBytes'
  BY <1>a, <1>c, <1>d DEF IInv, FlushInv, WaitingKeepsItsBytes
<1>5. NamedIntact'
  BY <1>a, <1>c DEF IInv, TypeOK, NamedIntact, Intact
<1>q. QED BY <1>1, <1>2, <1>3, <1>4, <1>5 DEF IInv

-----------------------------------------------------------------------------
\* What earlier runs left has no lost bytes, and nothing is finished yet.
LEMMA InitIInv == ASSUME EarlierLoss = FALSE, Init PROVE IInv
<1>1. PICK left \in [Urls -> Leftovers], hash \in Digests : LeftBehind(left, hash, FALSE)
  BY DEF Init
<1>2. \A i \in Inodes : inode[i] \in File /\ inode[i].disk # "lost"
  <2> SUFFICES ASSUME NEW i \in Inodes
               PROVE LeftFile(left, hash, FALSE, i) \in File /\ LeftFile(left, hash, FALSE, i).disk # "lost"
    BY <1>1 DEF LeftBehind
  <2>q. QED BY DEF LeftFile, File
<1>3. \A d \in Digests : object[d] # None =>
        /\ d = hash
        /\ \E u \in Urls : left[u] = "linked" /\ object[d] = Earlier[u]
  BY <1>1 DEF LeftBehind
<1>4. TypeOK
  <2>1. part \in [Urls -> Inodes \union {None}]
    BY <1>1, FunctionsAssumption DEF LeftBehind
  <2>2. object \in [Digests -> Inodes \union {None}]
    BY <1>1, <1>3, FunctionsAssumption DEF LeftBehind
  <2>3. inode \in [Inodes -> File]
    BY <1>1, <1>2 DEF LeftBehind
  <2>q. QED BY <2>1, <2>2, <2>3 DEF Init, TypeOK, Threads, TaskLabels, MainLabels
<1>5. LabelsInv /\ LocksInv /\ ClaimInv /\ ItemsInv /\ WaitingKeepsItsBytes
  BY TasksAssumption DEF Init, LabelsInv, LocksInv, ClaimInv, ItemsInv, WaitingKeepsItsBytes,
     Threads, TaskLabels, MainLabels, Owning
<1>6. FilesInv
  <2>1. \A u, v \in Urls : part[u] # None /\ part[u] = part[v] => u = v
    BY <1>1, FunctionsAssumption, TasksAssumption DEF LeftBehind
  <2>q. QED BY <2>1, TasksAssumption DEF Init, FilesInv, Threads
<1>7. FlushInv
  BY <1>2 DEF Init, FlushInv
<1>8. NamedIntact
  <2> SUFFICES ASSUME NEW d \in Digests, object[d] # None PROVE Intact(d)
    BY DEF NamedIntact
  <2>1. PICK u \in Urls : left[u] = "linked" /\ object[d] = Earlier[u] /\ d = hash
    BY <1>3
  <2>2. inode[Earlier[u]] = LeftFile(left, hash, FALSE, Earlier[u])
    BY <1>1, FunctionsAssumption DEF LeftBehind
  <2>3. LeftFile(left, hash, FALSE, Earlier[u]) = [bytes |-> hash, sealed |-> TRUE, disk |-> "durable"]
    BY <2>1 DEF LeftFile
  <2>q. QED BY <2>1, <2>2, <2>3 DEF Intact
<1>q. QED BY <1>4, <1>5, <1>6, <1>7, <1>8 DEF IInv

\* Tasks go on by themselves, and the batch stays open until the main thread takes it.
LEMMA TasksLeaveOpen ==
  ASSUME IInv, NEW t \in Tasks, Download(t) \/ Drop(t)
  PROVE  pc'[Main] = pc[Main] /\ open' = open
<1>0. t # Main /\ pc \in [Threads -> TaskLabels \union Ended \union MainLabels] /\ Main \in Threads
  BY TasksAssumption DEF IInv, TypeOK, Threads
<1>1. ASSUME NEW l, pc' = [pc EXCEPT ![t] = l] PROVE pc'[Main] = pc[Main]
  BY <1>0, <1>1
<1>2. CASE Look(t) \/ Claim(t) \/ Poll(t) \/ Recheck(t) \/ OpenPart(t) \/ StartOver(t)
  BY <1>1, <1>2 DEF Look, Claim, Poll, Recheck, OpenPart, StartOver, Goto, taskVars
<1>3. CASE TransferFails(t) \/ (\E d \in Digests : Seal(t, d)) \/ Drop(t) \/ AloneFails(t)
  BY <1>1, <1>3 DEF TransferFails, Seal, Drop, AloneFails, Goto, taskVars
<1>4. CASE Defer(t) \/ FinishAlone(t) \/ Sync(t) \/ Verify(t)
  BY <1>1, <1>4 DEF Defer, FinishAlone, Sync, Verify, Goto, taskVars
<1>5. CASE (\E x \in items : TakeFinished(t, x) \/ Link(t, x))
  BY <1>1, <1>5 DEF TakeFinished, Link, Goto, taskVars
<1>6. CASE Forget(t) \/ ForgetWaited(t) \/ RemovePart(t)
  BY <1>1, <1>6 DEF Forget, ForgetWaited, RemovePart, Goto, taskVars
<1>7. CASE TakeGroup(t) \/ Flush(t)
  BY <1>1, <1>7 DEF TakeGroup, Flush, Goto, taskVars
<1>8. CASE SkipGroup(t) \/ FlushFails(t) \/ GroupNamed(t)
  <2>1. pc' = [pc EXCEPT ![t] = AfterGroup(t)] /\ open' = open
    BY <1>8 DEF SkipGroup, FlushFails, GroupNamed, DropGroup, Goto
  <2>q. QED BY <1>1, <2>1
<1>9. CASE \E x \in items : Name(t, x) \/ NameFails(t, x)
  BY <1>9 DEF Name, NameFails
<1>q. QED BY <1>2, <1>3, <1>4, <1>5, <1>6, <1>7, <1>8, <1>9 DEF Download, Publish

\* Every step of publishing a group keeps IInv.
LEMMA PublishStep == ASSUME RestartsAlone, IInv, NEW p \in Threads, Publish(p)
   PROVE IInv'
BY TakeGroupStep, SkipGroupStep, FlushStep, FlushFailsStep, GroupNamedStep, NameStep, NameFailsStep
   DEF Publish

\* Every step of a task keeps IInv.
LEMMA DownloadStep == ASSUME RestartsAlone, IInv, NEW t \in Tasks, Download(t)
   PROVE IInv'
<1>1. CASE Publish(t)
  BY <1>1, PublishStep DEF Threads
<1>2. CASE ~Publish(t)
  BY <1>2, LookStep, ClaimStep, PollStep, RecheckStep, OpenPartStep, StartOverStep,
     TransferFailsStep, SealStep, DeferStep, FinishAloneStep, SyncStep, AloneFailsStep,
     TakeFinishedStep, LinkStep, VerifyStep, ForgetStep, ForgetWaitedStep, RemovePartStep
     DEF Download
<1>q. QED BY <1>1, <1>2

\* A step that changes nothing keeps IInv.
LEMMA StutterStep == ASSUME IInv, UNCHANGED vars PROVE IInv'
BY DEF IInv, TypeOK, LabelsInv, LocksInv, ClaimInv, ItemsInv, FilesInv, FlushInv,
       WaitingKeepsItsBytes, NamedIntact, Intact, vars, taskVars, lockVars, publishing, diskVars

\* Every step of a batch keeps IInv.
LEMMA BatchStep == ASSUME RestartsAlone, IInv, [Next]_vars PROVE IInv'
<1>1. ASSUME NEW t \in Tasks, Download(t) \/ Drop(t) PROVE IInv'
  BY <1>1, DownloadStep, DropStep
<1>2. CASE Batch
  BY <1>2, AllEndedStep, AbortStep, PublishDownloadsStep, PublishStep DEF Batch, Threads
<1>3. ASSUME NEW i \in Inodes, LoseBytes(i) PROVE IInv'
  BY <1>3, LoseBytesStep
<1>4. CASE UNCHANGED vars
  BY <1>4, StutterStep
<1>q. QED BY <1>1, <1>2, <1>3, <1>4 DEF Next

\* Every state of a batch satisfies the inductive invariant, provided the disk had lost
\* none of the bytes of earlier runs and no task starts over on a link another downloads.
THEOREM Invariance ==
  ASSUME RestartsAlone, EarlierLoss = FALSE
  PROVE  Spec => []IInv
<1>1. Init => IInv
  BY InitIInv
<1>2. IInv /\ [Next]_vars => IInv'
  BY BatchStep
<1>q. QED BY <1>1, <1>2, PTL DEF Spec

\* The variables keep their types.
THEOREM TypeCorrect ==
  ASSUME RestartsAlone, EarlierLoss = FALSE
  PROVE  Spec => []TypeOK
<1>1. IInv => TypeOK
  BY DEF IInv
<1>q. QED BY <1>1, Invariance, PTL

\* Whatever flush fails and however groups, restarts and waiting downloads interleave, a
\* hash only ever names a whole, read-only copy of its bytes that is on the disk.
THEOREM NamedStaysIntact ==
  ASSUME RestartsAlone, EarlierLoss = FALSE
  PROVE  Spec => []NamedIntact
<1>1. IInv => NamedIntact
  BY DEF IInv
<1>q. QED BY <1>1, Invariance, PTL

\* A finished download's bytes stay as they are at its partial name until it is named.
THEOREM WaitingKeeps ==
  ASSUME RestartsAlone, EarlierLoss = FALSE
  PROVE  Spec => []WaitingKeepsItsBytes
<1>1. IInv => WaitingKeepsItsBytes
  BY DEF IInv
<1>q. QED BY <1>1, Invariance, PTL

\* Once publish_downloads has closed the batch, no download waits for a flush that nobody
\* will make: the last group takes what the batch still held, and later ones finish alone.
THEOREM NothingIsLeft ==
  ASSUME RestartsAlone, EarlierLoss = FALSE
  PROVE  Spec => []NothingLeftWaiting
<1> DEFINE Closed == pc[Main] \notin {"running", "publish"} => ~open
<1>1. Init => Closed
  BY DEF Init, Threads
<1>2. ASSUME IInv, Closed, [Next]_vars PROVE Closed'
  <2>0. pc \in [Threads -> TaskLabels \union Ended \union MainLabels] /\ Main \in Threads
    BY <1>2 DEF IInv, TypeOK, Threads
  <2>1. ASSUME NEW t \in Tasks, Download(t) \/ Drop(t) PROVE Closed'
    BY <1>2, <2>1, TasksLeaveOpen
  <2>2. CASE AllEnded \/ Abort
    BY <2>0, <2>2 DEF AllEnded, Abort, Goto
  <2>3. CASE PublishDownloads
    BY <2>3 DEF PublishDownloads
  <2>4. CASE Publish(Main)
    <3>1. pc[Main] \notin {"running", "publish"} /\ open' = open
      BY <2>4 DEF Publish, TakeGroup, SkipGroup, Flush, FlushFails, GroupNamed, Name, NameFails
    <3>q. QED BY <1>2, <3>1
  <2>5. CASE (\E i \in Inodes : LoseBytes(i)) \/ UNCHANGED vars
    BY <1>2, <2>5 DEF LoseBytes, vars
  <2>q. QED BY <1>2, <2>1, <2>2, <2>3, <2>4, <2>5 DEF Next, Batch
<1>3. IInv /\ Closed => NothingLeftWaiting
  BY DEF IInv, ItemsInv, NothingLeftWaiting, Waiting
<1>q. QED BY <1>1, <1>2, <1>3, Invariance, PTL DEF Spec

\* No link is written by two tasks, or while a finished download of it waits for its name.
THEOREM ClaimsExclude ==
  ASSUME RestartsAlone, EarlierLoss = FALSE
  PROVE  Spec => []OneDownloadPerLink
<1>1. IInv => OneDownloadPerLink
  BY DEF IInv, ClaimInv, ItemsInv, OneDownloadPerLink, Owning, TaskLabels
<1>q. QED BY <1>1, Invariance, PTL

-----------------------------------------------------------------------------
(* The batch implements DownloadStore.                                     *)
-----------------------------------------------------------------------------

Named == {d \in Digests : object[d] # None}

\* What the cache holds whole is what has a name.
LEMMA HeldIsNamed == ASSUME IInv PROVE {d \in Digests : Intact(d)} = Named
  BY DEF IInv, NamedIntact, Intact, Named

LEMMA HeldStaysNamed == ASSUME IInv' PROVE {d \in Digests : Intact(d)}' = Named'
<1>1. \A d \in Digests : Intact(d)' <=> (object[d] # None)'
  BY DEF IInv, NamedIntact, Intact
<1>q. QED BY <1>1 DEF Named

\* What a step must do to what callers are told.
Answers == AnswersInv' /\ ReportInv' /\ [Store!Next]_(Store!vars)

\* An answer stays true as long as names stay and nothing that waits is lost untold.
LEMMA AnswersStay ==
  ASSUME AnswersInv,
         \A d \in Digests : object[d] # None => object'[d] # None,
         Sunk => Sunk', \A x \in items' : x.digest = got'[x.task],
         \A t \in Tasks : pc'[t] \in Answering =>
            \/ /\ pc[t] \in Answering /\ got'[t] = got[t]
               /\ Due(t) => Due(t)' \/ object'[got[t]] # None \/ Sunk'
            \/ Stored(t)'
  PROVE  AnswersInv'
<1>1. ASSUME NEW t \in Tasks, pc'[t] \in Answering PROVE Stored(t)'
  <2>1. CASE Stored(t)'
    BY <2>1
  <2>2. CASE ~Stored(t)'
    BY <1>1, <2>2 DEF AnswersInv, Stored
  <2>q. QED BY <2>1, <2>2
<1>q. QED BY <1>1 DEF AnswersInv

\* A step of one thread that answers nobody, names nothing and loses nothing.
LEMMA QuietAnswers ==
  ASSUME AnsweredInv, IInv', NEW p \in Threads, NEW l, pc' = [pc EXCEPT ![p] = l],
         pc[p] \notin Ended, l # "ok",
         p = Main => /\ pc[p] \notin {"running", "publish"} /\ l \in {"flush", "name"},
         p \in Tasks /\ l \in Answering => (pc[p] \in Answering /\ got'[p] = got[p]) \/ Stored(p)',
         \A s \in Tasks \ {p} : got'[s] = got[s],
         \A s \in Tasks : Due(s) /\ pc'[s] \in Answering => Due(s)',
         \A x \in items' : x.digest = got'[x.task],
         UNCHANGED <<object, failed, unflushed, aborted, open>>
  PROVE  Answers
<1>1. /\ \A q \in Threads \ {p} : pc'[q] = pc[q]
      /\ pc'[p] = l /\ Main \notin Tasks
  BY TasksAssumption DEF AnsweredInv, IInv, TypeOK
<1>2. Sunk => Sunk'
  BY <1>1 DEF Sunk, Threads, Ended
<1>3. AnswersInv'
  BY <1>1, <1>2, AnswersStay DEF AnsweredInv, Threads
<1>4. ReportInv'
  BY <1>1 DEF AnsweredInv, ReportInv, Threads, Ended
<1>5. UNCHANGED Store!vars
  <2>1. {d \in Digests : Intact(d)}' = {d \in Digests : Intact(d)}
    BY HeldIsNamed, HeldStaysNamed DEF AnsweredInv, Named
  <2>2. {got[t] : t \in {s \in Tasks : pc[s] = "ok"}}' = {got[t] : t \in {s \in Tasks : pc[s] = "ok"}}
    <3>1. \A t \in Tasks : (pc'[t] = "ok" <=> pc[t] = "ok") /\ (pc[t] = "ok" => got'[t] = got[t])
      BY <1>1 DEF Threads, Ended
    <3>q. QED BY <3>1
  <2>3. (IF pc[Main] \in {"ok", "failed"} THEN pc[Main] ELSE "none")'
           = IF pc[Main] \in {"ok", "failed"} THEN pc[Main] ELSE "none"
    BY <1>1 DEF Threads, Ended
  <2>q. QED BY <2>1, <2>2, <2>3 DEF Store!vars
<1>q. QED BY <1>3, <1>4, <1>5 DEF Answers

\* A task's step that leaves its download as it is.
LEMMA LoneAnswers ==
  ASSUME AnsweredInv, IInv', NEW t \in Tasks, NEW l, pc' = [pc EXCEPT ![t] = l],
         pc[t] \notin Ended, l # "ok", l \in Answering => pc[t] \in Answering /\ got'[t] = got[t],
         \A s \in Tasks \ {t} : got'[s] = got[s], got'[t] = got[t] \/ ~Due(t),
         UNCHANGED <<items, object, failed, unflushed, aborted, open>>
  PROVE  Answers
<1>1. \A x \in items : x.digest = got'[x.task]
  BY DEF AnsweredInv, AnswersInv, IInv, TypeOK, Item, Due
<1>2. \A s \in Tasks : Due(s)' = Due(s)
  BY DEF Due
<1>3. t \in Threads /\ t # Main
  BY TasksAssumption DEF Threads
<1>q. QED BY <1>1, <1>2, <1>3, QuietAnswers

\* Tasks at these steps have nothing that waits.
LEMMA NoneDue ==
  ASSUME IInv, NEW t \in Tasks,
         pc[t] \in {"look", "claim", "sync", "link", "recheck", "transfer", "writing", "finish", "remove"}
  PROVE  ~Due(t)
  BY DEF IInv, ItemsInv, Due

LEMMA LoneSteps ==
  ASSUME AnsweredInv, IInv', NEW t \in Tasks,
         \/ Claim(t) \/ OpenPart(t) \/ StartOver(t) \/ TransferFails(t) \/ Sync(t)
         \/ ForgetWaited(t) \/ RemovePart(t) \/ Drop(t) \/ \E d \in Digests : Seal(t, d)
  PROVE  Answers
<1>0. IInv /\ got \in [Tasks -> Digests \union {None}]
  BY DEF AnsweredInv, IInv, TypeOK
<1>1. CASE Claim(t)
  BY <1>1, LoneAnswers DEF Claim, Goto, Ended, Answering, taskVars, publishing, diskVars
<1>2. CASE OpenPart(t)
  BY <1>2, LoneAnswers DEF OpenPart, Goto, Ended, Answering, publishing
<1>3. CASE StartOver(t)
  BY <1>3, LoneAnswers DEF StartOver, Goto, Ended, Answering, taskVars, publishing, diskVars
<1>4. CASE TransferFails(t)
  BY <1>4, LoneAnswers DEF TransferFails, Failure, Goto, Ended, Answering, publishing, diskVars
<1>5. CASE Sync(t)
  BY <1>5, LoneAnswers DEF Sync, Goto, Ended, Answering, taskVars, publishing
<1>6. CASE ForgetWaited(t)
  BY <1>6, LoneAnswers DEF ForgetWaited, Goto, Ended, Answering, taskVars, publishing, diskVars
<1>7. CASE RemovePart(t)
  BY <1>0, <1>7, NoneDue, LoneAnswers DEF RemovePart, Goto, Ended, Answering, publishing
<1>8. CASE Drop(t)
  BY <1>8, LoneAnswers DEF Drop, Goto, Ended, Answering, publishing, diskVars
<1>9. ASSUME NEW d \in Digests, Seal(t, d) PROVE Answers
  BY <1>0, <1>9, NoneDue, LoneAnswers DEF Seal, Goto, Ended, Answering, publishing
<1>q. QED BY <1>1, <1>2, <1>3, <1>4, <1>5, <1>6, <1>7, <1>8, <1>9

\* What callers see stays when tasks are answered nothing, names stay and the batch goes on.
LEMMA SameStore ==
  ASSUME IInv, IInv', UNCHANGED object,
         \A t \in Tasks : (pc'[t] = "ok" <=> pc[t] = "ok") /\ (pc[t] = "ok" => got'[t] = got[t]),
         (IF pc[Main] \in {"ok", "failed"} THEN pc[Main] ELSE "none")'
            = IF pc[Main] \in {"ok", "failed"} THEN pc[Main] ELSE "none"
  PROVE  UNCHANGED Store!vars
<1>1. {d \in Digests : Intact(d)}' = {d \in Digests : Intact(d)}
  BY HeldIsNamed, HeldStaysNamed DEF Named
<1>2. {got[t] : t \in {s \in Tasks : pc[s] = "ok"}}' = {got[t] : t \in {s \in Tasks : pc[s] = "ok"}}
  OBVIOUS
<1>q. QED BY <1>1, <1>2 DEF Store!vars

\* A task is told a hash that has its bytes, or will, or the batch fails; and no batch that
\* succeeded tells anything.
LEMMA OneAnswer ==
  ASSUME AnsweredInv, IInv', NEW t \in Tasks, pc' = [pc EXCEPT ![t] = "ok"], pc[t] \notin Ended,
         \A s \in Tasks \ {t} : got'[s] = got[s], got'[t] = got[t] \/ ~Due(t), Stored(t)',
         UNCHANGED <<items, object, failed, unflushed, aborted, open>>
  PROVE  Answers
<1>1. /\ \A q \in Threads \ {t} : pc'[q] = pc[q]
      /\ pc'[t] = "ok" /\ Main \notin Tasks /\ pc'[Main] = pc[Main] /\ got'[t] \in Digests
  BY TasksAssumption DEF AnsweredInv, IInv, TypeOK, Threads, Stored
<1>2. Sunk => Sunk'
  BY <1>1 DEF Sunk, Threads, Ended
<1>3. \A x \in items' : x.digest = got'[x.task]
  BY DEF AnsweredInv, AnswersInv, IInv, TypeOK, Item, Due
<1>4. AnswersInv'
  <2>1. \A s \in Tasks : Due(s)' = Due(s)
    BY DEF Due
  <2>q. QED BY <1>1, <1>2, <1>3, <2>1, AnswersStay DEF AnsweredInv, Threads
<1>5. ReportInv' /\ pc[Main] # "ok"
  BY <1>1 DEF AnsweredInv, ReportInv, Threads, Ended
<1>6. {d \in Digests : Intact(d)}' = {d \in Digests : Intact(d)}
  BY HeldIsNamed, HeldStaysNamed DEF AnsweredInv, Named
<1>7. {got[s] : s \in {r \in Tasks : pc[r] = "ok"}}'
         = {got[s] : s \in {r \in Tasks : pc[r] = "ok"}} \union {got'[t]}
  <2>1. {r \in Tasks : pc[r] = "ok"}' = {r \in Tasks : pc[r] = "ok"} \union {t}
    BY <1>1 DEF Threads
  <2>2. \A s \in Tasks : pc[s] = "ok" => s # t
    BY DEF Ended
  <2>q. QED BY <2>1, <2>2
<1>8. (IF pc[Main] \in {"ok", "failed"} THEN pc[Main] ELSE "none")'
         = IF pc[Main] \in {"ok", "failed"} THEN pc[Main] ELSE "none"
  BY <1>1
<1>9. Store!Answer \/ Store!AnswerLate
  BY <1>1, <1>5, <1>6, <1>7, <1>8 DEF Store!Answer, Store!AnswerLate
<1>q. QED BY <1>4, <1>5, <1>9 DEF Answers, Store!Next

\* A pinned hash that is found has a name, and one that is verified is stored or soon will be.
LEMMA LooksAnswer ==
  ASSUME AnsweredInv, IInv', NEW t \in Tasks, Look(t) \/ Recheck(t) \/ Verify(t)
  PROVE  Answers
<1>0. IInv /\ got \in [Tasks -> Digests \union {None}] /\ Expect[t] \in Digests \union {None}
  BY FunctionsAssumption DEF AnsweredInv, IInv, TypeOK
<1>1. CASE Look(t) \/ Recheck(t)
  <2>1. CASE Found(Expect[t])
    <3>1. got' = [got EXCEPT ![t] = Expect[t]] /\ Expect[t] \in Digests /\ object[Expect[t]] # None
      BY <1>0, <1>1, <2>1 DEF Look, Recheck, Found
    <3>2. Stored(t)' /\ UNCHANGED <<items, object, failed, unflushed, aborted, open>>
      BY <1>0, <1>1, <3>1 DEF Look, Recheck, Stored, publishing, diskVars
    <3>3. ~Due(t)
      BY <1>0, <1>1, NoneDue DEF Look, Recheck
    <3>4. pc' = [pc EXCEPT ![t] = "ok"] /\ pc[t] \notin Ended
      BY <1>1, <2>1 DEF Look, Recheck, Goto, Ended
    <3>q. QED BY <1>0, <3>1, <3>2, <3>3, <3>4, OneAnswer
  <2>2. CASE ~Found(Expect[t])
    BY <1>1, <2>2, LoneAnswers DEF Look, Recheck, Goto, Ended, Answering, publishing, diskVars
  <2>q. QED BY <2>1, <2>2
<1>2. CASE Verify(t)
  <2>0. UNCHANGED <<got, items, object, failed, unflushed, aborted, open>> /\ pc[t] = "verify"
    BY <1>2 DEF Verify, publishing, diskVars
  <2>1. CASE pc' = [pc EXCEPT ![t] = "ok"]
    <3>1. Stored(t)
      BY <2>0 DEF AnsweredInv, AnswersInv, Answering
    <3>2. Sunk => Sunk'
      BY <2>0, <2>1 DEF Sunk, AnsweredInv, IInv, TypeOK, Threads
    <3>3. Stored(t)'
      BY <2>0, <3>1, <3>2 DEF Stored, Due
    <3>q. QED BY <2>0, <2>1, <3>3, OneAnswer DEF Ended
  <2>2. CASE pc' = [pc EXCEPT ![t] = "forget"]
    BY <2>0, <2>2, LoneAnswers DEF Ended, Answering
  <2>3. CASE pc' = [pc EXCEPT ![t] = "failed"]
    BY <2>0, <2>3, LoneAnswers DEF Ended, Answering
  <2>q. QED BY <1>2, <2>1, <2>2, <2>3 DEF Verify, Goto
<1>q. QED BY <1>1, <1>2

\* Steps of a task that pass finished downloads on, or throw its own away.
LEMMA PassOnSteps ==
  ASSUME RestartsAlone, AnsweredInv, IInv', NEW t \in Tasks,
         Defer(t) \/ FinishAlone(t) \/ Forget(t) \/ \E x \in items : TakeFinished(t, x)
  PROVE  Answers
<1>0. /\ IInv /\ got \in [Tasks -> Digests \union {None}] /\ t \in Threads /\ t # Main
      /\ items \subseteq Item /\ \A x \in items : x.digest = got[x.task]
  BY TasksAssumption DEF AnsweredInv, AnswersInv, IInv, TypeOK, Threads
<1>1. ASSUME NEW a, NEW l \in Answering \ {"ok"}, pc' = [pc EXCEPT ![t] = l], pc[t] = "finish",
             items' = items \union {[task |-> t, digest |-> got[t], at |-> a]},
             UNCHANGED <<got, object, failed, unflushed, aborted, open>>
      PROVE  Answers
  <2> DEFINE y == [task |-> t, digest |-> got[t], at |-> a]
  <2>1. y.task = t /\ y.digest = got[t] /\ items' = items \union {y}
    BY <1>1
  <2> HIDE DEF y
  <2>2. Due(t)' /\ \A s \in Tasks : Due(s) => Due(s)'
    BY <2>1 DEF Due
  <2>3. got[t] \in Digests
    BY <1>0, <1>1 DEF IInv, FilesInv
  <2>4. Stored(t)'
    BY <1>1, <2>2, <2>3 DEF Stored
  <2>5. \A z \in items' : z.digest = got'[z.task]
    BY <1>0, <1>1, <2>1
  <2>6. pc[t] \notin Ended /\ l # "ok"
    BY <1>1 DEF Ended
  <2>q. QED BY <1>0, <1>1, <2>2, <2>4, <2>5, <2>6, QuietAnswers
<1>2. CASE Defer(t) \/ FinishAlone(t)
  <2>1. pc[t] = "finish" /\ UNCHANGED <<got, object, failed, unflushed, aborted, open>>
    BY <1>2 DEF Defer, FinishAlone, taskVars, publishing, diskVars
  <2>2. CASE Defer(t)
    <3>1. items' = items \union {[task |-> t, digest |-> got[t], at |-> Pending]}
      BY <2>2 DEF Defer
    <3>2. PICK l \in {"flush_wait", "verify"} : pc' = [pc EXCEPT ![t] = l]
      BY <2>2 DEF Defer, Goto
    <3>q. QED BY <1>1, <2>1, <3>1, <3>2 DEF Answering
  <2>3. CASE FinishAlone(t)
    <3>1. /\ items' = items \union {[task |-> t, digest |-> got[t], at |-> t]}
          /\ pc' = [pc EXCEPT ![t] = "own_sync"]
      BY <2>3 DEF FinishAlone, Goto
    <3>q. QED BY <1>1, <2>1, <3>1 DEF Answering
  <2>q. QED BY <1>2, <2>2, <2>3
<1>3. CASE Forget(t)
  <2>1. /\ pc[t] = "forget" /\ items' = items \ {x \in Waiting : open /\ UrlOf[x.task] = UrlOf[t]}
        /\ UNCHANGED <<got, object, failed, unflushed, aborted, open>>
        /\ pc' = [pc EXCEPT ![t] = "forget_wait"]
    BY <1>3 DEF Forget, Goto, taskVars, publishing, diskVars
  <2>2. pc[t] \in Owning
    BY <2>1 DEF Owning, TaskLabels
  <2>3. \A s \in Tasks : Due(s) /\ pc'[s] \in Answering => Due(s)'
    <3>1. ASSUME NEW s \in Tasks, NEW x \in items, x.task = s, pc'[s] \in Answering PROVE Due(s)'
      <4>1. s # t
        BY <1>0, <2>1, <3>1 DEF Answering, IInv, TypeOK
      <4>2. UrlOf[s] # UrlOf[t]
        BY <1>0, <2>2, <3>1, <4>1 DEF IInv, ClaimInv
      <4>q. QED BY <2>1, <3>1, <4>2 DEF Due
    <3>q. QED BY <3>1 DEF Due
  <2>q. QED BY <1>0, <2>1, <2>3, QuietAnswers DEF Ended, Answering
<1>4. ASSUME NEW x \in items, TakeFinished(t, x) PROVE Answers
  <2> DEFINE y == [x EXCEPT !.at = t]
  <2>1. y.task = x.task /\ y.digest = x.digest
    BY <1>0 DEF Item
  <2>2. /\ pc[t] = "claim" /\ items' = (items \ {x}) \union {y}
        /\ UNCHANGED <<got, object, failed, unflushed, aborted, open>>
        /\ pc' = [pc EXCEPT ![t] = "sync"]
    BY <1>4 DEF TakeFinished, Goto, publishing, diskVars
  <2> HIDE DEF y
  <2>3. \A s \in Tasks : Due(s) => Due(s)'
    BY <2>1, <2>2 DEF Due
  <2>4. \A z \in items' : z.digest = got'[z.task]
    BY <1>0, <2>1, <2>2
  <2>q. QED BY <1>0, <2>2, <2>3, <2>4, QuietAnswers DEF Ended, Answering
<1>q. QED BY <1>2, <1>3, <1>4

\* A group is taken, and flushed.
LEMMA GroupSteps ==
  ASSUME AnsweredInv, IInv', NEW p \in Threads, TakeGroup(p) \/ Flush(p)
  PROVE  Answers
<1>0. items \subseteq Item /\ \A x \in items : x.digest = got[x.task]
  BY DEF AnsweredInv, AnswersInv, IInv, TypeOK
<1>1. CASE TakeGroup(p)
  <2>1. /\ pc[p] = "flush_wait" /\ pc' = [pc EXCEPT ![p] = "flush"]
        /\ items' = (items \ Waiting) \union {[x EXCEPT !.at = p] : x \in Waiting}
        /\ UNCHANGED <<got, object, failed, unflushed, aborted, open>>
    BY <1>1 DEF TakeGroup, Goto, taskVars, publishing, diskVars
  <2>2. \A x \in items : [x EXCEPT !.at = p].task = x.task /\ [x EXCEPT !.at = p].digest = x.digest
    BY <1>0 DEF Item
  <2>3. ASSUME NEW s \in Tasks, NEW x \in items, x.task = s PROVE Due(s)'
    <3>1. CASE x \in Waiting
      <4>1. [x EXCEPT !.at = p] \in items'
        BY <2>1, <3>1
      <4>q. QED BY <2>2, <2>3, <4>1 DEF Due
    <3>2. CASE x \notin Waiting
      BY <2>1, <2>3, <3>2 DEF Due
    <3>q. QED BY <3>1, <3>2
  <2>4. \A z \in items' : z.digest = got'[z.task]
    <3>1. ASSUME NEW z \in items' PROVE z.digest = got[z.task]
      <4>1. CASE z \in items
        BY <1>0, <4>1
      <4>2. CASE z \notin items
        <5>1. PICK x \in Waiting : z = [x EXCEPT !.at = p]
          BY <2>1, <4>2
        <5>q. QED BY <1>0, <2>2, <5>1 DEF Waiting
      <4>q. QED BY <4>1, <4>2
    <3>q. QED BY <2>1, <3>1
  <2>q. QED BY <2>1, <2>3, <2>4, QuietAnswers DEF Ended, Answering, Due
<1>2. CASE Flush(p)
  <2>1. /\ pc[p] = "flush" /\ pc' = [pc EXCEPT ![p] = "name"]
        /\ UNCHANGED <<got, items, object, failed, unflushed, aborted, open>>
    BY <1>2 DEF Flush, Goto, taskVars, publishing
  <2>q. QED BY <1>0, <2>1, QuietAnswers DEF Ended, Answering, Due
<1>q. QED BY <1>1, <1>2

\* Steps that neither answer, name, finish nor end anything.
LEMMA StillAnswers ==
  ASSUME AnsweredInv, IInv', UNCHANGED <<pc, got, items, object, failed, unflushed, aborted, open>>
  PROVE  Answers
<1>1. AnswersInv' /\ ReportInv'
  BY DEF AnsweredInv, AnswersInv, ReportInv, Stored, Due, Sunk
<1>2. UNCHANGED Store!vars
  BY SameStore DEF AnsweredInv
<1>q. QED BY <1>1, <1>2 DEF Answers

\* Finished downloads take the names of their hashes.
LEMMA NamesAnswer ==
  ASSUME AnsweredInv, IInv', NEW x \in items, LinkObject(x), items' = items \ {x},
         UNCHANGED <<got, failed, unflushed, aborted, open>>, pc'[Main] = pc[Main],
         \A t \in Tasks : /\ pc'[t] = "ok" <=> pc[t] = "ok"
                          /\ pc[t] \in Ended => pc'[t] = pc[t]
                          /\ pc'[t] \in Answering => pc[t] \in Answering
  PROVE  Answers
<1>0. /\ x.digest \in Digests /\ object \in [Digests -> Inodes \union {None}]
      /\ \A z \in items : z.digest = got[z.task]
  BY DEF AnsweredInv, AnswersInv, IInv, TypeOK, Item
<1>1. /\ \A d \in Digests : d # x.digest => object'[d] = object[d]
      /\ object'[x.digest] # None
  BY <1>0 DEF LinkObject
<1>2. \A d \in Digests : object[d] # None => object'[d] # None
  BY <1>1
<1>3. Sunk => Sunk'
  BY DEF Sunk, Ended
<1>4. \A s \in Tasks : Due(s) => Due(s)' \/ object'[got[s]] # None
  BY <1>0, <1>1 DEF Due
<1>5. \A z \in items' : z.digest = got'[z.task]
  BY <1>0
<1>6. AnswersInv'
  BY <1>2, <1>3, <1>4, <1>5, AnswersStay DEF AnsweredInv
<1>7. ReportInv'
  BY DEF AnsweredInv, ReportInv, Ended
<1>8. {d \in Digests : Intact(d)}' = {d \in Digests : Intact(d)} \union {x.digest}
  <2>1. Named' = Named \union {x.digest}
    BY <1>0, <1>1 DEF Named
  <2>q. QED BY <2>1, HeldIsNamed, HeldStaysNamed DEF AnsweredInv
<1>9. {got[t] : t \in {s \in Tasks : pc[s] = "ok"}}' = {got[t] : t \in {s \in Tasks : pc[s] = "ok"}}
  OBVIOUS
<1>10. Store!Put
  BY <1>0, <1>8, <1>9 DEF Store!Put
<1>q. QED BY <1>6, <1>7, <1>10 DEF Answers, Store!Next

LEMMA NameSteps ==
  ASSUME AnsweredInv, IInv', NEW x \in items,
         (\E p \in Threads : Name(p, x)) \/ (\E t \in Tasks : Link(t, x))
  PROVE  Answers
<1>1. ASSUME NEW p \in Threads, Name(p, x) PROVE Answers
  <2>1. LinkObject(x) /\ items' = items \ {x} /\ UNCHANGED <<pc, got, failed, unflushed, aborted, open>>
    BY <1>1 DEF Name, taskVars, publishing
  <2>q. QED BY <2>1, NamesAnswer
<1>2. ASSUME NEW t \in Tasks, Link(t, x) PROVE Answers
  <2>1. /\ LinkObject(x) /\ items' = items \ {x} /\ UNCHANGED <<got, failed, unflushed, aborted, open>>
        /\ pc[t] \in {"own_link", "link"}
        /\ pc' = [pc EXCEPT ![t] = IF pc[t] = "link" THEN "claim" ELSE "verify"]
    BY <1>2 DEF Link, Goto, publishing
  <2>2. \A q \in Threads : q # t => pc'[q] = pc[q]
    BY <2>1 DEF AnsweredInv, IInv, TypeOK
  <2>3. t \in Threads /\ pc'[t] = IF pc[t] = "link" THEN "claim" ELSE "verify"
    BY <2>1 DEF AnsweredInv, IInv, TypeOK, Threads
  <2>4. pc'[Main] = pc[Main]
    BY <2>2, TasksAssumption DEF Threads
  <2>5. ASSUME NEW s \in Tasks
        PROVE  /\ pc'[s] = "ok" <=> pc[s] = "ok"
               /\ pc[s] \in Ended => pc'[s] = pc[s]
               /\ pc'[s] \in Answering => pc[s] \in Answering
    BY <2>1, <2>2, <2>3 DEF Ended, Answering, Threads
  <2>q. QED BY <2>1, <2>4, <2>5, NamesAnswer
<1>q. QED BY <1>1, <1>2

\* A failure that sinks the batch keeps every answer.
LEMMA SinkingAnswers ==
  ASSUME AnsweredInv, IInv', Sunk', items' \subseteq items, pc[Main] # "ok",
         UNCHANGED <<got, object, unflushed, aborted, open>>, failed => failed', pc'[Main] = pc[Main],
         \A t \in Tasks : /\ pc'[t] = "ok" <=> pc[t] = "ok"
                          /\ pc[t] \in Ended => pc'[t] = pc[t]
                          /\ pc'[t] \in Answering => pc[t] \in Answering
  PROVE  Answers
<1>1. AnswersInv'
  BY DEF AnsweredInv, AnswersInv, Stored
<1>2. ReportInv'
  BY DEF AnsweredInv, ReportInv, Ended
<1>3. UNCHANGED Store!vars
  BY SameStore DEF AnsweredInv
<1>q. QED BY <1>1, <1>2, <1>3 DEF Answers

\* A download that fails on its own sinks the batch, or only its own task waited for it.
LEMMA FailSteps ==
  ASSUME FailuresTell, AnsweredInv, IInv',
         \/ \E p \in Threads, x \in items : NameFails(p, x)
         \/ \E t \in Tasks : AloneFails(t)
  PROVE  Answers
<1>1. ASSUME NEW p \in Threads, NEW x \in items, NameFails(p, x) PROVE Answers
  <2>1. /\ failed' /\ items' \subseteq items
        /\ UNCHANGED <<pc, got, object, unflushed, aborted, open>>
    BY <1>1 DEF NameFails, taskVars, diskVars
  <2>2. pc[Main] # "ok"
    <3>1. pc[p] = "name"
      BY <1>1 DEF NameFails
    <3>q. QED BY <3>1 DEF AnsweredInv, ReportInv, Threads
  <2>q. QED BY <2>1, <2>2, SinkingAnswers DEF Sunk
<1>2. ASSUME NEW t \in Tasks, AloneFails(t) PROVE Answers
  <2>1. /\ items' = items \ HeldBy(t) /\ pc' = [pc EXCEPT ![t] = Failure]
        /\ UNCHANGED <<got, object, failed, unflushed, aborted, open>>
        /\ pc[t] \in {"own_sync", "sync", "own_link", "link"}
    BY <1>2 DEF AloneFails, Goto, publishing, diskVars
  <2>2. t \in Threads /\ pc'[t] = Failure /\ \A q \in Threads : q # t => pc'[q] = pc[q]
    BY <2>1 DEF AnsweredInv, IInv, TypeOK, Threads
  <2>3. CASE ~Apart
    <3>1. pc'[t] = "fatal"
      BY <2>2, <2>3 DEF Failure
    <3>2. Sunk' /\ pc'[Main] = pc[Main]
      BY <2>2, <3>1, TasksAssumption DEF Sunk, Threads
    <3>3. \A s \in Tasks : /\ pc'[s] = "ok" <=> pc[s] = "ok"
                           /\ pc[s] \in Ended => pc'[s] = pc[s]
                           /\ pc'[s] \in Answering => pc[s] \in Answering
      BY <2>1, <2>2, <3>1 DEF Ended, Answering, Threads
    <3>4. pc[Main] # "ok"
      BY <2>1 DEF AnsweredInv, ReportInv
    <3>q. QED BY <2>1, <3>2, <3>3, <3>4, SinkingAnswers
  <2>4. CASE Apart
    <3>1. Failure = "failed"
      BY <2>4 DEF Failure
    <3>2. \A x \in HeldBy(t) : x.task = t
      BY <2>1, <2>4, TasksAssumption
      DEF FailuresTell, HeldBy, AnsweredInv, IInv, TypeOK, Item, ItemsInv, Threads
    <3>3. \A s \in Tasks : Due(s) /\ pc'[s] \in Answering => Due(s)'
      <4>1. ASSUME NEW s \in Tasks, NEW x \in items, x.task = s, pc'[s] \in Answering PROVE Due(s)'
        <5>1. s # t
          BY <2>2, <3>1, <4>1 DEF Answering
        <5>2. x \in items'
          BY <2>1, <3>2, <4>1, <5>1
        <5>q. QED BY <4>1, <5>2 DEF Due
      <4>q. QED BY <4>1 DEF Due
    <3>4. \A x \in items' : x.digest = got'[x.task]
      BY <2>1 DEF AnsweredInv, AnswersInv
    <3>5. t # Main
      BY TasksAssumption DEF Threads
    <3>q. QED BY <2>1, <2>2, <3>1, <3>3, <3>4, <3>5, QuietAnswers DEF Ended, Answering
  <2>q. QED BY <2>3, <2>4
<1>q. QED BY <1>1, <1>2

\* The batch ends its run: all tasks ended, or one stopped it.
LEMMA EndSteps ==
  ASSUME AnsweredInv, IInv', AllEnded \/ Abort
  PROVE  Answers
<1>1. /\ pc[Main] = "running" /\ pc' = [pc EXCEPT ![Main] = "publish"]
      /\ UNCHANGED <<got, items, object, failed, unflushed, open>> /\ (aborted => aborted')
      /\ aborted' \/ \A t \in Tasks : pc[t] \in {"ok", "failed"}
  BY DEF AllEnded, Abort, Goto, taskVars, publishing, diskVars
<1>2. pc'[Main] = "publish" /\ \A t \in Tasks : pc'[t] = pc[t]
  BY <1>1, TasksAssumption DEF AnsweredInv, IInv, TypeOK, Threads
<1>3. AnswersInv'
  BY <1>1, <1>2 DEF AnsweredInv, AnswersInv, Stored, Due, Sunk
<1>4. ReportInv'
  BY <1>1, <1>2 DEF AnsweredInv, ReportInv
<1>5. UNCHANGED Store!vars
  <2>1. (IF pc[Main] \in {"ok", "failed"} THEN pc[Main] ELSE "none")'
           = IF pc[Main] \in {"ok", "failed"} THEN pc[Main] ELSE "none"
    BY <1>1, <1>2
  <2>q. QED BY <1>1, <1>2, <2>1, SameStore DEF AnsweredInv
<1>q. QED BY <1>3, <1>4, <1>5 DEF Answers

\* What is dropped with a group that was not flushed sinks the batch.
LEMMA DropKeeps ==
  ASSUME AnsweredInv, IInv', items' \subseteq items, items' = items \/ failed',
         UNCHANGED <<got, object>>, Sunk => Sunk',
         \A t \in Tasks : pc'[t] \in Answering => pc[t] \in Answering
  PROVE  AnswersInv'
<1>1. ASSUME NEW s \in Tasks, pc'[s] \in Answering, Due(s) PROVE Due(s)' \/ Sunk'
  BY <1>1 DEF Due, Sunk
<1>2. \A x \in items' : x.digest = got'[x.task]
  BY DEF AnsweredInv, AnswersInv
<1>q. QED BY <1>1, <1>2, AnswersStay DEF AnsweredInv

\* When nothing sank the batch, nothing waits any more of what its tasks were told.
LEMMA NothingDue ==
  ASSUME IInv, ReportInv, pc[Main] = "ok", ~Sunk, NEW t \in Tasks, pc[t] = "ok"
  PROVE  ~Due(t)
<1>1. ASSUME NEW x \in items, x.task = t PROVE FALSE
  <2>1. x.at # Pending
    BY <1>1 DEF IInv, ItemsInv, ReportInv
  <2>2. \A s \in Tasks : pc[s] \in {"ok", "failed"}
    BY DEF ReportInv, Sunk
  <2>3. x.at \in Threads
    BY <1>1, <2>1 DEF IInv, TypeOK, Item
  <2>4. pc[x.at] \in {"ok", "failed"}
    BY <2>2, <2>3 DEF Threads
  <2>q. QED BY <1>1, <2>1, <2>4 DEF IInv, ItemsInv
<1>q. QED BY <1>1 DEF Due

\* The same after a step.
LEMMA NothingDueNext ==
  ASSUME IInv', ReportInv', pc'[Main] = "ok", ~Sunk', NEW t \in Tasks, pc'[t] = "ok"
  PROVE  ~Due(t)'
<1>1. ASSUME NEW x \in items', x.task = t PROVE FALSE
  <2>1. x.at # Pending
    BY <1>1 DEF IInv, ItemsInv, ReportInv
  <2>2. \A s \in Tasks : pc'[s] \in {"ok", "failed"}
    BY DEF ReportInv, Sunk
  <2>3. x.at \in Threads
    BY <1>1, <2>1 DEF IInv, TypeOK, Item
  <2>4. pc'[x.at] \in {"ok", "failed"}
    BY <2>2, <2>3 DEF Threads
  <2>q. QED BY <1>1, <2>1, <2>4 DEF IInv, ItemsInv
<1>q. QED BY <1>1 DEF Due

\* The batch reports success only when all that was answered is stored.
LEMMA ReportAnswers ==
  ASSUME AnsweredInv, IInv', pc[Main] \in {"publish", "flush", "name"},
         pc' = [pc EXCEPT ![Main] = AfterGroup(Main)],
         items' \subseteq items, items' = items \/ failed', ~open',
         failed => failed', unflushed' => failed', UNCHANGED <<got, object, aborted>>
  PROVE  Answers
<1>1. pc'[Main] = AfterGroup(Main) /\ \A t \in Tasks : pc'[t] = pc[t]
  BY TasksAssumption DEF AnsweredInv, IInv, TypeOK, Threads
<1>2. Sunk => Sunk'
  BY <1>1 DEF Sunk
<1>3. AnswersInv'
  BY <1>1, <1>2, DropKeeps
<1>4. AfterGroup(Main) \in {"ok", "failed"} /\ (AfterGroup(Main) = "ok" => ~aborted /\ ~failed')
  BY DEF AfterGroup
<1>5. ReportInv'
  BY <1>1, <1>4 DEF AnsweredInv, ReportInv
<1>6. {d \in Digests : Intact(d)}' = {d \in Digests : Intact(d)}
  BY HeldIsNamed, HeldStaysNamed DEF AnsweredInv, Named
<1>7. {got[t] : t \in {s \in Tasks : pc[s] = "ok"}}' = {got[t] : t \in {s \in Tasks : pc[s] = "ok"}}
  BY <1>1
<1>8. CASE AfterGroup(Main) = "failed"
  <2>1. Store!Fail
    BY <1>1, <1>6, <1>7, <1>8 DEF Store!Fail
  <2>q. QED BY <1>3, <1>5, <2>1 DEF Answers, Store!Next
<1>9. CASE AfterGroup(Main) = "ok"
  <2>1. ~Sunk'
    BY <1>1, <1>4, <1>5, <1>9 DEF ReportInv, Sunk
  <2>2. ASSUME NEW t \in Tasks, pc[t] = "ok" PROVE got[t] \in {d \in Digests : Intact(d)}
    <3>1. Stored(t)'
      BY <1>1, <1>3, <2>2 DEF AnswersInv, Answering
    <3>2. ~Due(t)'
      BY <1>1, <1>5, <1>9, <2>1, <2>2, NothingDueNext
    <3>3. got[t] \in Named
      BY <2>1, <3>1, <3>2 DEF Stored, Named
    <3>q. QED BY <3>3, HeldIsNamed DEF AnsweredInv
  <2>3. Store!Succeed
    BY <1>1, <1>6, <1>7, <1>9, <2>2 DEF Store!Succeed
  <2>q. QED BY <1>3, <1>5, <2>3 DEF Answers, Store!Next
<1>q. QED BY <1>4, <1>8, <1>9

\* A group that is through, or was not flushed, is dropped.
LEMMA DropSteps ==
  ASSUME AnsweredInv, IInv', NEW p \in Threads, SkipGroup(p) \/ FlushFails(p) \/ GroupNamed(p)
  PROVE  Answers
<1>1. /\ items' = items \ HeldBy(p) /\ pc' = [pc EXCEPT ![p] = AfterGroup(p)]
      /\ pc[p] \in {"flush", "name"} /\ UNCHANGED <<got, object, aborted, open>>
      /\ failed => failed'
  BY DEF SkipGroup, FlushFails, GroupNamed, DropGroup, Goto, taskVars, publishing, diskVars
<1>2. unflushed' => failed'
  BY DEF SkipGroup, FlushFails, GroupNamed, publishing, AnsweredInv, ReportInv
<1>3. items' = items \/ failed'
  BY <1>1 DEF SkipGroup, FlushFails, GroupNamed, publishing, AnsweredInv, ReportInv
<1>4. CASE p = Main
  <2>1. ~open'
    BY <1>1, <1>4 DEF AnsweredInv, ReportInv
  <2>q. QED BY <1>1, <1>2, <1>3, <1>4, <2>1, ReportAnswers
<1>5. CASE p # Main
  <2>1. p \in Tasks /\ AfterGroup(p) = "verify"
    BY <1>5 DEF Threads, AfterGroup
  <2>2. pc'[p] = "verify" /\ pc'[Main] = pc[Main] /\ \A q \in Tasks : q # p => pc'[q] = pc[q]
    BY <1>1, <1>5, <2>1 DEF AnsweredInv, IInv, TypeOK, Threads
  <2>3. Sunk => Sunk'
    BY <1>1, <2>2 DEF Sunk
  <2>4. AnswersInv'
    BY <1>1, <1>3, <2>2, <2>3, DropKeeps DEF Answering
  <2>5. ReportInv'
    <3>1. pc[Main] # "ok"
      BY <1>1, <2>1 DEF AnsweredInv, ReportInv
    <3>q. QED BY <1>1, <1>2, <2>2, <3>1 DEF AnsweredInv, ReportInv
  <2>6. UNCHANGED Store!vars
    BY <1>1, <2>2, SameStore DEF AnsweredInv
  <2>q. QED BY <2>4, <2>5, <2>6 DEF Answers
<1>q. QED BY <1>4, <1>5

\* Closing the batch hands its last group to the batch's own thread, or ends it.
LEMMA CloseSteps ==
  ASSUME AnsweredInv, IInv', PublishDownloads
  PROVE  Answers
<1>1. pc[Main] = "publish" /\ ~open' /\ UNCHANGED <<got, items, object, unflushed, aborted, failed>>
  BY DEF PublishDownloads, taskVars, diskVars
<1>2. CASE open
  <2>1. pc' = [pc EXCEPT ![Main] = "flush_wait"]
    BY <1>2 DEF PublishDownloads, Goto
  <2>2. pc'[Main] = "flush_wait" /\ \A t \in Tasks : pc'[t] = pc[t]
    BY <2>1, TasksAssumption DEF AnsweredInv, IInv, TypeOK, Threads
  <2>3. AnswersInv'
    BY <1>1, <2>2 DEF AnsweredInv, AnswersInv, Stored, Due, Sunk
  <2>4. ReportInv'
    BY <1>1, <2>2 DEF AnsweredInv, ReportInv
  <2>5. UNCHANGED Store!vars
    <3>1. (IF pc[Main] \in {"ok", "failed"} THEN pc[Main] ELSE "none")'
             = IF pc[Main] \in {"ok", "failed"} THEN pc[Main] ELSE "none"
      BY <1>1, <2>2
    <3>q. QED BY <1>1, <2>2, <3>1, SameStore DEF AnsweredInv
  <2>q. QED BY <2>3, <2>4, <2>5 DEF Answers
<1>3. CASE ~open
  <2>1. pc' = [pc EXCEPT ![Main] = AfterGroup(Main)]
    BY <1>3 DEF PublishDownloads, Goto
  <2>q. QED BY <1>1, <2>1, ReportAnswers DEF AnsweredInv, ReportInv
<1>q. QED BY <1>2, <1>3

\* Every step of a batch is a step of its promise, and keeps why.
LEMMA AnsweredStep ==
  ASSUME RestartsAlone, FailuresTell, AnsweredInv, [Next]_vars
  PROVE  AnsweredInv' /\ [Store!Next]_(Store!vars)
<1>1. IInv'
  BY BatchStep DEF AnsweredInv
<1>2. ASSUME NEW p \in Threads, Publish(p) PROVE Answers
  BY <1>1, <1>2, GroupSteps, DropSteps, NameSteps, FailSteps DEF Publish
<1>3. ASSUME NEW t \in Tasks, Download(t) \/ Drop(t) PROVE Answers
  <2>1. CASE Publish(t)
    BY <1>2, <2>1 DEF Threads
  <2>2. CASE Poll(t)
    BY <1>1, <2>2, StillAnswers DEF Poll, publishing, diskVars
  <2>3. CASE ~Publish(t) /\ ~Poll(t)
    BY <1>1, <1>3, <2>3, LoneSteps, LooksAnswer, PassOnSteps, NameSteps, FailSteps DEF Download
  <2>q. QED BY <2>1, <2>2, <2>3
<1>4. ASSUME Batch PROVE Answers
  <2>1. CASE Publish(Main)
    BY <1>2, <2>1 DEF Threads
  <2>2. CASE AllEnded \/ Abort \/ PublishDownloads
    BY <1>1, <2>2, EndSteps, CloseSteps
  <2>q. QED BY <1>4, <2>1, <2>2 DEF Batch
<1>5. ASSUME NEW i \in Inodes, LoseBytes(i) PROVE Answers
  BY <1>1, <1>5, StillAnswers DEF LoseBytes, taskVars, publishing
<1>6. ASSUME UNCHANGED vars PROVE Answers
  <2>1. UNCHANGED <<pc, got, items, object, failed, unflushed, aborted, open>>
    BY <1>6 DEF vars, taskVars, publishing, diskVars
  <2>q. QED BY <1>1, <2>1, StillAnswers
<1>7. Answers
  BY <1>3, <1>4, <1>5, <1>6 DEF Next
<1>q. QED BY <1>1, <1>7 DEF Answers, AnsweredInv

\* A batch starts with nothing answered, nothing waiting and nothing reported.
LEMMA InitAnswers == ASSUME EarlierLoss = FALSE, Init PROVE AnsweredInv /\ Store!Init
<1>1. IInv
  BY InitIInv
<1>2. pc[Main] = "running" /\ \A t \in Tasks : pc[t] = "look"
  BY TasksAssumption DEF Init, Threads
<1>3. AnswersInv /\ ReportInv
  BY <1>2 DEF Init, AnswersInv, ReportInv, Answering
<1>4. {got[t] : t \in {s \in Tasks : pc[s] = "ok"}} = {}
  BY <1>2
<1>5. Store!Init
  BY <1>2, <1>4 DEF Store!Init
<1>q. QED BY <1>1, <1>3, <1>5 DEF AnsweredInv

\* A batch keeps what DownloadStore promises its callers: names only ever appear, of whole
\* durable bytes, and success is reported only when all that was answered is stored.
THEOREM ImplementsTheStore ==
  ASSUME RestartsAlone, EarlierLoss = FALSE, FailuresTell
  PROVE  Spec => ImplementsStore
<1>1. Init => AnsweredInv /\ Store!Init
  BY InitAnswers
<1>2. AnsweredInv /\ [Next]_vars => AnsweredInv' /\ [Store!Next]_(Store!vars)
  BY AnsweredStep
<1>q. QED BY <1>1, <1>2, PTL DEF Spec, ImplementsStore, Store!Spec

\* Success means that every answer is stored.
THEOREM AnsweredAreStored ==
  ASSUME RestartsAlone, EarlierLoss = FALSE, FailuresTell
  PROVE  Spec => []AnsweredIsStored
<1>1. Init => AnsweredInv
  BY InitAnswers
<1>2. AnsweredInv /\ [Next]_vars => AnsweredInv'
  BY AnsweredStep
<1>3. AnsweredInv => AnsweredIsStored
  <2>1. ASSUME AnsweredInv, pc[Main] = "ok", NEW t \in Tasks, pc[t] = "ok" PROVE Intact(got[t])
    <3>1. ~Sunk
      BY <2>1 DEF AnsweredInv, ReportInv, Sunk
    <3>2. ~Due(t) /\ Stored(t)
      BY <2>1, <3>1, NothingDue DEF AnsweredInv, AnswersInv, Answering
    <3>q. QED BY <2>1, <3>1, <3>2 DEF Stored, AnsweredInv, IInv, NamedIntact
  <2>q. QED BY <2>1 DEF AnsweredIsStored
<1>q. QED BY <1>1, <1>2, <1>3, PTL DEF Spec

-----------------------------------------------------------------------------
(***************************************************************************)
(* Answers: a download is given what it pins, or what its link serves,     *)
(* whatever other runs do and whatever the servers change.                 *)
(***************************************************************************)

\* What a step of r must keep: the types, the records, and what is known of r
LEMMA OneRunMoves ==
  ASSUME A!IInv, NEW r \in Runs, A!TypeOK', A!RecordsInv', A!StateInv(run[r])',
         UNCHANGED <<served, ever>>, \A q \in Runs \ {r} : run'[q] = run[q]
  PROVE  A!IInv'
<1>1. ASSUME NEW q \in Runs \ {r} PROVE A!StateInv(run[q])'
  BY <1>1 DEF A!IInv, A!StateInv, A!RightFor, A!Proves
<1> QED
  BY <1>1 DEF A!IInv

\* At the start nothing is stored, and no run has a job.
LEMMA AnswersInit == ASSUME A!AnswersAssumption PROVE A!Init => A!IInv
<1> SUFFICES ASSUME A!Init PROVE A!IInv
  OBVIOUS
<1> USE DEF A!Init, A!AnswersAssumption
<1>1. A!Idle \in A!States /\ A!Idle.step = "idle"
  BY DEF A!Idle, A!Fresh, A!States
<1>2. \A r \in Runs : A!StateInv(run[r])
  BY <1>1 DEF A!StateInv
<1>3. A!RecordsInv
  BY DEF A!RecordsInv
<1>4. served \in [Links -> Versions \cup {None}]
  OBVIOUS
<1>5. A!TypeOK
  BY <1>1, <1>4 DEF A!TypeOK, A!Labelled
<1> QED
  BY <1>2, <1>3, <1>5 DEF A!IInv

-----------------------------------------------------------------------------
\* What matches a job is of one version, where bytes of two versions are only matched to a checksum.
LEMMA MatchesOne ==
  ASSUME A!AnswersAssumption, NEW j \in A!Asked, NEW v, A!Matches(j, v), v = Mixed => A!Proves(j)
  PROVE  v # Mixed
  BY DEF A!AnswersAssumption, A!Asked, A!Matches, A!Proves

\* Fields of a run
LEMMA RunTyped ==
  ASSUME A!TypeOK, NEW r \in Runs
  PROVE  /\ run[r] \in A!States /\ run[r].job \in A!Asked \cup {None} /\ run[r].link \in Links
         /\ run[r].known \in A!Labelled(Versions) \cup {None} /\ run[r].waited \in BOOLEAN
         /\ run[r].body \in A!Bytes \cup {None} /\ run[r].window \in SUBSET Versions
  BY DEF A!TypeOK, A!States

\* A run ends with v, or fails
LEMMA EndsWell ==
  ASSUME A!AnswersAssumption, NEW s \in A!States, NEW v \in Versions \cup {None}, v # None
         => s.job \in A!Asked /\ A!RightFor(s, v)
  PROVE  A!Ended(v, s) \in A!States /\ A!StateInv(A!Ended(v, s))
<1>1. CASE v = None
  <2>1. A!Idle \in A!States /\ A!Idle.step = "idle"
    BY DEF A!Idle, A!Fresh, A!States, A!AnswersAssumption
  <2> QED
    BY <1>1, <2>1 DEF A!Ended, A!StateInv
<1>2. CASE v # None
  <2> DEFINE e == A!Ended(v, s)
  <2>1. /\ e.job = s.job /\ e.link = s.link /\ e.step = "done" /\ e.known = None /\ e.waited = s.waited
        /\ e.earlier = None /\ e.body = None /\ e.pages = 0 /\ e.tries = 1 /\ e.restarted = FALSE
        /\ e.got = v /\ e.window = s.window
    BY <1>2 DEF A!Ended, A!Fresh
  <2>2. e \in A!States
    BY <1>2 DEF A!Ended, A!Fresh, A!States
  <2>3. A!StateInv(e)
    BY <1>2, <2>1 DEF A!StateInv, A!RightFor
  <2> QED
    BY <2>2, <2>3
<1> QED
  BY <1>1, <1>2

\* A run may ask again, and count that.
LEMMA AsksTyped ==
  ASSUME NEW s \in A!States
  PROVE  /\ s.tries + 1 \in Nat
         /\ \A n \in Nat : [s EXCEPT !.tries = n, !.step = "ask"] \in A!States
         /\ [s EXCEPT !.step = "ask", !.restarted = TRUE] \in A!States
<1>1. s.tries + 1 \in Nat
  BY DEF A!States
<1>2. ASSUME NEW n \in Nat PROVE [s EXCEPT !.tries = n, !.step = "ask"] \in A!States
  BY DEF A!States
<1>3. [s EXCEPT !.step = "ask", !.restarted = TRUE] \in A!States
  BY DEF A!States
<1> QED
  BY <1>1, <1>2, <1>3

\* Claims given up.
LEMMA LeavesTyped ==
  A!TypeOK =>
    /\ [l \in Links |-> None] \in [Links -> Runs \cup {None}]
    /\ \A r \in Runs : [l \in Links |-> IF owner[l] = r THEN None ELSE owner[l]] \in [Links -> Runs \cup {None}]
  BY DEF A!TypeOK

\* StateInv depends on what links served
LEMMA StateStays ==
  ASSUME NEW s, A!StateInv(s), UNCHANGED <<served, ever>>
  PROVE  A!StateInv(s)'
  BY DEF A!StateInv, A!RightFor, A!Proves

\* A run that ends, and what it may do to the cache
LEMMA GiveStep ==
  ASSUME A!AnswersAssumption, A!IInv, NEW r \in Runs, NEW v \in Versions \cup {None}, A!Give(r, v),
         v # None => run[r].job \in A!Asked /\ A!RightFor(run[r], v),
         UNCHANGED A!upstream, objects' \subseteq A!Bytes, A!RecordsInv',
         urls' \in [Links -> A!Labelled(Versions) \cup {None}],
         stated' \subseteq [link : Links, md5 : {j.md5 : j \in Jobs}, version : Versions],
         partial' \in [Links -> A!Labelled(A!Bytes) \cup {None}], begun' \in Nat
  PROVE  A!IInv'
<1>1. A!TypeOK /\ run \in [Runs -> A!States] /\ run[r] \in A!States
  BY DEF A!IInv, A!TypeOK
<1>2. A!Ended(v, run[r]) \in A!States /\ A!StateInv(A!Ended(v, run[r]))
  BY <1>1, EndsWell
<1>3. run' = [run EXCEPT ![r] = A!Ended(v, run[r])] /\ owner' \in [Links -> Runs \cup {None}]
  BY <1>1, LeavesTyped DEF A!Give, A!Leaves
<1>4. UNCHANGED <<served, labelled, ever, changes>>
  BY DEF A!upstream
<1>5. A!TypeOK'
  BY <1>1, <1>2, <1>3, <1>4 DEF A!TypeOK
<1>6. run'[r] = A!Ended(v, run[r]) /\ \A q \in Runs \ {r} : run'[q] = run[q]
  BY <1>1, <1>3
<1>7. A!StateInv(run[r])'
  BY <1>2, <1>4, <1>6 DEF A!StateInv, A!RightFor, A!Proves
<1> QED
  BY <1>4, <1>5, <1>6, <1>7, OneRunMoves

\* The cache as it was
LEMMA CacheStays ==
  ASSUME A!TypeOK, A!RecordsInv, UNCHANGED <<A!upstream, A!cache>>
  PROVE  /\ UNCHANGED A!upstream /\ objects' \subseteq A!Bytes /\ A!RecordsInv'
         /\ urls' \in [Links -> A!Labelled(Versions) \cup {None}]
         /\ stated' \subseteq [link : Links, md5 : {j.md5 : j \in Jobs}, version : Versions]
         /\ partial' \in [Links -> A!Labelled(A!Bytes) \cup {None}]
  BY DEF A!TypeOK, A!RecordsInv, A!upstream, A!cache

\* A run that fails leaves everything but itself as it was.
LEMMA FailStep ==
  ASSUME A!AnswersAssumption, A!IInv, NEW r \in Runs, A!Fail(r), UNCHANGED <<A!upstream, A!cache, begun>>
  PROVE  A!IInv'
  BY CacheStays, GiveStep DEF A!IInv, A!Fail, A!TypeOK

\* A run that goes on, as s
LEMMA GoesOn ==
  ASSUME A!IInv, NEW r \in Runs, NEW s \in A!States, run' = [run EXCEPT ![r] = s], A!StateInv(s),
         UNCHANGED A!upstream, objects' \subseteq A!Bytes, A!RecordsInv',
         urls' \in [Links -> A!Labelled(Versions) \cup {None}],
         stated' \subseteq [link : Links, md5 : {j.md5 : j \in Jobs}, version : Versions],
         partial' \in [Links -> A!Labelled(A!Bytes) \cup {None}],
         owner' \in [Links -> Runs \cup {None}], begun' \in Nat
  PROVE  A!IInv'
<1>1. A!TypeOK /\ run \in [Runs -> A!States]
  BY DEF A!IInv, A!TypeOK
<1>2. UNCHANGED <<served, labelled, ever, changes>>
  BY DEF A!upstream
<1>3. A!TypeOK'
  BY <1>1, <1>2 DEF A!TypeOK
<1>4. run'[r] = s /\ \A q \in Runs \ {r} : run'[q] = run[q]
  BY <1>1
<1>5. A!StateInv(run[r])'
  BY <1>2, <1>4 DEF A!StateInv, A!RightFor, A!Proves
<1> QED
  BY <1>2, <1>3, <1>4, <1>5, OneRunMoves

\* A run that goes on, and touches nothing but itself.
LEMMA GoesOnAlone ==
  ASSUME A!IInv, NEW r \in Runs, NEW s \in A!States, run' = [run EXCEPT ![r] = s], A!StateInv(s),
         UNCHANGED <<A!upstream, A!cache, begun>>, owner' \in [Links -> Runs \cup {None}]
  PROVE  A!IInv'
  BY CacheStays, GoesOn DEF A!IInv, A!TypeOK

-----------------------------------------------------------------------------
\* What the cache holds under a pin or a stated MD5 is right for the job.
LEMMA CachedRight ==
  ASSUME A!AnswersAssumption, A!TypeOK, A!RecordsInv, NEW j \in A!Asked, NEW l \in Links,
         NEW v \in A!Cached(j, l)
  PROVE  /\ v \in Versions
         /\ IF j.pin # None THEN v = j.pin ELSE j.md5 # None /\ j.md5 = Md5[v] /\ v \in ever[l]
<1>1. CASE j.pin # None
  BY <1>1 DEF A!Cached, A!Asked
<1>2. CASE j.pin = None
  <2>1. j.md5 # None /\ v \in A!Stated(j, l)
    BY <1>2 DEF A!Cached
  <2>2. PICK s \in stated : s.md5 = j.md5 /\ s.link = l /\ v = s.version
    BY <2>1 DEF A!Stated
  <2> QED
    BY <1>2, <2>1, <2>2 DEF A!TypeOK, A!RecordsInv
<1> QED
  BY <1>1, <1>2

\* What the cache remembers of a link was served by it.
LEMMA RememberedRight ==
  ASSUME A!AnswersAssumption, A!TypeOK, A!RecordsInv, NEW j \in A!Asked, NEW l \in Links
  PROVE  /\ A!Remembered(j, l) \in A!Labelled(Versions) \cup {None}
         /\ A!Remembered(j, l) # None =>
              /\ j.revalidate /\ j.pin = None /\ j.md5 = None
              /\ A!Remembered(j, l).version \in Versions /\ A!Remembered(j, l).version \in ever[l]
  BY DEF A!Remembered, A!TypeOK, A!RecordsInv, A!Asked, A!Proves, A!Labelled

\* A job begins with what its link serves now, and with what was known of the link.
LEMMA StartsWell ==
  ASSUME A!AnswersAssumption, A!IInv, NEW r \in Runs, NEW j \in A!Asked, NEW l \in Links, A!Starts(r, j,
         l),
         UNCHANGED <<A!upstream, A!cache>>, begun' \in Nat
  PROVE  A!IInv'
<1> DEFINE known == A!Remembered(j, l)
           fresh == [A!Fresh(j, l, "claim") EXCEPT !.known = known]
<1>1. A!TypeOK /\ A!RecordsInv /\ run \in [Runs -> A!States] /\ served[l] \in Versions \cup {None}
  BY DEF A!IInv, A!TypeOK
<1>2. /\ known \in A!Labelled(Versions) \cup {None}
      /\ known # None => /\ j.revalidate /\ j.pin = None /\ j.md5 = None
                         /\ known.version \in Versions /\ known.version \in ever[l]
  BY <1>1, RememberedRight
<1> HIDE DEF known
<1>3. /\ fresh.job = j /\ fresh.link = l /\ fresh.step = "claim" /\ fresh.known = known
      /\ fresh.waited = FALSE /\ fresh.window = {served[l]} \ {None}
  BY DEF A!Fresh
<1>4. fresh \in A!States
  BY <1>1, <1>2 DEF A!Fresh, A!States
<1>6. A!StateInv(fresh)
  BY <1>2, <1>3 DEF A!StateInv
<1>7. owner' \in [Links -> Runs \cup {None}]
  BY <1>1, LeavesTyped DEF A!Starts, A!Leaves
<1>8. PICK s \in A!States : run' = [run EXCEPT ![r] = s] /\ A!StateInv(s)
  <2> HIDE DEF fresh
  <2>1. ASSUME NEW v \in A!Cached(j, l), run' = [run EXCEPT ![r] = A!Ended(v, fresh)]
        PROVE  \E s \in A!States : run' = [run EXCEPT ![r] = s] /\ A!StateInv(s)
    <3>1. v \in Versions /\ A!RightFor(fresh, v)
      BY <1>1, <1>3, <2>1, CachedRight DEF A!RightFor
    <3>2. A!Ended(v, fresh) \in A!States /\ A!StateInv(A!Ended(v, fresh))
      BY <1>3, <1>4, <3>1, EndsWell
    <3> QED
      BY <2>1, <3>2
  <2>2. ASSUME ~j.online, run' = [run EXCEPT ![r] = A!Ended(IF known = None THEN None ELSE known.version,
               fresh)]
        PROVE  \E s \in A!States : run' = [run EXCEPT ![r] = s] /\ A!StateInv(s)
    <3> DEFINE v == IF known = None THEN None ELSE known.version
    <3>1. v \in Versions \cup {None} /\ (v # None => A!RightFor(fresh, v))
      BY <1>2, <1>3, <2>2 DEF A!RightFor
    <3>2. A!Ended(v, fresh) \in A!States /\ A!StateInv(A!Ended(v, fresh))
      BY <1>3, <1>4, <3>1, EndsWell
    <3> QED
      BY <2>2, <3>2
  <2>3. ASSUME run' = [run EXCEPT ![r] = fresh]
        PROVE  \E s \in A!States : run' = [run EXCEPT ![r] = s] /\ A!StateInv(s)
    BY <1>4, <1>6, <2>3
  <2> QED
    BY <2>1, <2>2, <2>3 DEF A!Starts, known, fresh
<1> HIDE DEF fresh
<1>9. /\ UNCHANGED A!upstream /\ objects' \subseteq A!Bytes /\ A!RecordsInv'
      /\ urls' \in [Links -> A!Labelled(Versions) \cup {None}]
      /\ stated' \subseteq [link : Links, md5 : {x.md5 : x \in Jobs}, version : Versions]
      /\ partial' \in [Links -> A!Labelled(A!Bytes) \cup {None}]
  BY <1>1, CacheStays
<1> QED
  BY <1>7, <1>8, <1>9, GoesOn

\* A job begins: answered from the cache, refused, or about to claim its link.
LEMMA BeginStep ==
  ASSUME A!AnswersAssumption, A!IInv, NEW r \in Runs, A!Begin(r)
  PROVE  A!IInv'
<1>1. PICK j \in Jobs : A!Starts(r, j, First)
  BY DEF A!Begin
<1>2. j \in A!Asked /\ First \in Links
  BY DEF A!AnswersAssumption, A!Asked
<1>3. UNCHANGED <<A!upstream, A!cache>> /\ begun' \in Nat
  BY DEF A!Begin, A!IInv, A!TypeOK
<1> QED
  BY <1>1, <1>2, <1>3, StartsWell

\* A run that works, and what is known of it
LEMMA WorkingRun ==
  ASSUME A!IInv, NEW r \in Runs, A!Working(r)
  PROVE  /\ run[r] \in A!States /\ A!StateInv(run[r]) /\ run[r].job \in A!Asked
         /\ served[run[r].link] \in run[r].window \cup {None}
         /\ run[r].known # None =>
              run[r].job.revalidate /\ run[r].known.version \in ever[run[r].link]
  BY DEF A!IInv, A!TypeOK, A!StateInv, A!Working, A!At

\* A run waits for another, claims its link, follows a page, or is refused.
LEMMA ClaimsStep ==
  ASSUME A!AnswersAssumption, A!IInv, NEW r \in Runs,
         A!Wait(r) \/ A!Claim(r) \/ A!Page(r) \/ A!Refused(r) \/ A!Gone(r),
         UNCHANGED begun
  PROVE  A!IInv'
<1> DEFINE s == run[r]
<1>1. A!TypeOK /\ run \in [Runs -> A!States] /\ owner \in [Links -> Runs \cup {None}] /\ s \in A!States
  BY DEF A!IInv, A!TypeOK
<1>2. A!Working(r)
  BY DEF A!Wait, A!Claim, A!Page, A!Refused, A!Gone, A!At, A!Working
<1>3. A!StateInv(s) /\ s.job \in A!Asked /\ s.window \in SUBSET Versions
  BY <1>1, <1>2, WorkingRun DEF A!States
<1>4. s.step \in {"claim", "ask"}
  BY DEF A!Wait, A!Claim, A!Page, A!Refused, A!Gone, A!At
<1>5. CASE A!Wait(r)
  <2> DEFINE t == [s EXCEPT !.waited = TRUE, !.window = s.window \cup run[owner[A!Link(r)]].window]
  <2>1. owner[A!Link(r)] \in Runs
    BY <1>1, <1>5 DEF A!Wait, A!Link, A!States
  <2>2. t \in A!States
    BY <1>1, <2>1 DEF A!States
  <2>3. A!StateInv(t)
    BY <1>1, <1>3, <1>5 DEF A!StateInv, A!Wait, A!At, A!States
  <2>4. run' = [run EXCEPT ![r] = t] /\ UNCHANGED <<A!upstream, A!cache, owner>>
    BY <1>5 DEF A!Wait
  <2> HIDE DEF t
  <2> QED
    BY <1>1, <2>2, <2>3, <2>4, GoesOnAlone
<1>6. CASE A!Claim(r)
  <2> DEFINE t == [s EXCEPT !.step = IF run[r].waited THEN "look" ELSE "ask"]
  <2>1. t \in A!States
    BY <1>1 DEF A!States
  <2>2. A!StateInv(t)
    BY <1>1, <1>3, <1>6 DEF A!StateInv, A!Claim, A!At, A!States
  <2>3. run' = [run EXCEPT ![r] = t] /\ UNCHANGED <<A!upstream, A!cache>>
        /\ owner' \in [Links -> Runs \cup {None}]
    BY <1>1, <1>6 DEF A!Claim, A!Goes
  <2> HIDE DEF t
  <2> QED
    BY <2>1, <2>2, <2>3, GoesOnAlone
<1>7. CASE A!Page(r)
  <2> DEFINE t == [s EXCEPT !.pages = s.pages + 1]
  <2>1. CASE A!Fail(r)
    BY <1>7, <2>1, FailStep DEF A!Page
  <2>2. CASE run' = [run EXCEPT ![r] = t] /\ UNCHANGED owner
    <3>1. t \in A!States
      BY <1>1 DEF A!States
    <3>2. A!StateInv(t)
      BY <1>1, <1>3, <1>4 DEF A!StateInv, A!States, A!RightFor
    <3>3. UNCHANGED <<A!upstream, A!cache>> /\ owner' \in [Links -> Runs \cup {None}]
      BY <1>1, <1>7, <2>2 DEF A!Page
    <3> HIDE DEF t
    <3> QED
      BY <2>2, <3>1, <3>2, <3>3, GoesOnAlone
  <2> QED
    BY <1>7, <2>1, <2>2 DEF A!Page
<1>8. CASE A!Refused(r)
  <2> DEFINE t == [s EXCEPT !.tries = s.tries + 1, !.step = "ask"]
  <2>1. CASE A!Fail(r)
    BY <1>8, <2>1, FailStep DEF A!Refused
  <2>2. CASE run' = [run EXCEPT ![r] = t] /\ UNCHANGED owner
    <3>1. t \in A!States
      BY <1>1, AsksTyped
    <3>2. A!StateInv(t)
      BY <1>1, <1>3, <1>4 DEF A!StateInv, A!States
    <3>3. UNCHANGED <<A!upstream, A!cache>> /\ owner' \in [Links -> Runs \cup {None}]
      BY <1>1, <1>8, <2>2 DEF A!Refused
    <3> HIDE DEF t
    <3> QED
      BY <2>2, <3>1, <3>2, <3>3, GoesOnAlone
  <2> QED
    BY <1>8, <2>1, <2>2 DEF A!Refused, A!Retries
<1>9. CASE A!Gone(r)
  <2> DEFINE t == [s EXCEPT !.step = "gone"]
  <2>1. CASE A!Fail(r)
    BY <1>9, <2>1, FailStep DEF A!Gone
  <2>2. CASE A!Goes(r, "gone") /\ A!Leaves(r)
    <3>1. t \in A!States
      BY <1>1 DEF A!States
    <3>2. A!StateInv(t)
      BY <1>1, <1>3, <1>4 DEF A!StateInv, A!States
    <3>3. UNCHANGED <<A!upstream, A!cache>> /\ owner' \in [Links -> Runs \cup {None}]
      BY <1>1, <1>9, <2>2, LeavesTyped DEF A!Gone, A!Leaves
    <3>4. run' = [run EXCEPT ![r] = t]
      BY <2>2 DEF A!Goes
    <3> HIDE DEF t
    <3> QED
      BY <3>1, <3>2, <3>3, <3>4, GoesOnAlone
  <2> QED
    BY <1>9, <2>1, <2>2 DEF A!Gone
<1> QED
  BY <1>5, <1>6, <1>7, <1>8, <1>9

\* A run that waited looks again: what the other one brought may be right for it.
LEMMA LooksStep ==
  ASSUME A!AnswersAssumption, A!IInv, NEW r \in Runs, A!Look(r), UNCHANGED begun
  PROVE  A!IInv'
<1> DEFINE s == run[r]
<1>1. A!TypeOK /\ A!RecordsInv /\ run \in [Runs -> A!States] /\ owner \in [Links -> Runs \cup {None}]
      /\ s \in A!States
  BY DEF A!IInv, A!TypeOK
<1>2. A!Working(r) /\ s.step = "look"
  BY DEF A!Look, A!At, A!Working
<1>3. A!StateInv(s) /\ s.job \in A!Asked /\ s.link \in Links
  BY <1>1, <1>2, WorkingRun DEF A!States
<1>4. s.waited
  BY <1>2, <1>3 DEF A!StateInv
<1>5. ASSUME NEW v \in A!Cached(A!Job(r), A!Link(r)), A!Give(r, v) PROVE A!IInv'
  <2>1. v \in Versions /\ A!RightFor(s, v)
    BY <1>1, <1>3, CachedRight DEF A!RightFor, A!Job, A!Link
  <2>2. UNCHANGED <<A!upstream, A!cache>> /\ begun' \in Nat
    BY <1>1 DEF A!Look, A!TypeOK
  <2> QED
    BY <1>1, <1>3, <1>5, <2>1, <2>2, CacheStays, GiveStep
<1>6. ASSUME A!Remembered(A!Job(r), A!Link(r)) # None, A!Give(r, A!Remembered(A!Job(r),
             A!Link(r)).version) PROVE A!IInv'
  <2> DEFINE v == A!Remembered(A!Job(r), A!Link(r)).version
  <2>1. v \in Versions /\ v \in ever[s.link] /\ s.job.pin = None /\ s.job.md5 = None
    BY <1>1, <1>3, <1>6, RememberedRight DEF A!Job, A!Link
  <2>2. A!RightFor(s, v)
    BY <1>4, <2>1 DEF A!RightFor
  <2>3. UNCHANGED <<A!upstream, A!cache>> /\ begun' \in Nat
    BY <1>1 DEF A!Look, A!TypeOK
  <2> QED
    BY <1>1, <1>3, <1>6, <2>1, <2>2, <2>3, CacheStays, GiveStep
<1>7. CASE A!Goes(r, "ask") /\ UNCHANGED owner
  <2> DEFINE t == [s EXCEPT !.step = "ask"]
  <2>1. t \in A!States
    BY <1>1 DEF A!States
  <2>2. A!StateInv(t)
    BY <1>1, <1>2, <1>3 DEF A!StateInv, A!States
  <2>3. UNCHANGED <<A!upstream, A!cache>> /\ run' = [run EXCEPT ![r] = t]
        /\ owner' \in [Links -> Runs \cup {None}]
    BY <1>1, <1>7 DEF A!Look, A!Goes
  <2> HIDE DEF t
  <2> QED
    BY <2>1, <2>2, <2>3, GoesOnAlone
<1> QED
  BY <1>5, <1>6, <1>7 DEF A!Look

\* The server says that what is known is what it serves.
LEMMA NotModifiedStep ==
  ASSUME A!AnswersAssumption, A!IInv, NEW r \in Runs, A!NotModified(r), UNCHANGED begun
  PROVE  A!IInv'
<1> DEFINE s == run[r]
           v == s.known.version
<1>1. A!TypeOK /\ A!RecordsInv /\ s \in A!States /\ served[s.link] \in Versions \cup {None}
  BY DEF A!IInv, A!TypeOK, A!States
<1>2. A!Working(r) /\ s.known # None /\ served[s.link] = v
  BY DEF A!NotModified, A!At, A!Working, A!Conditional, A!Link
<1>3. v \in Versions
  BY <1>1, <1>2 DEF A!States, A!Labelled
<1>4. /\ s.job \in A!Asked /\ served[s.link] \in s.window \cup {None}
      /\ s.job.revalidate /\ v \in ever[s.link]
  BY <1>2, WorkingRun
<1>5. A!RightFor(s, v)
  BY <1>2, <1>3, <1>4 DEF A!RightFor, A!Asked, A!Proves, A!AnswersAssumption
<1>6. UNCHANGED <<A!upstream, A!cache>> /\ A!Give(r, v) /\ begun' \in Nat
  BY <1>1 DEF A!NotModified, A!TypeOK
<1> QED
  BY <1>1, <1>3, <1>4, <1>5, <1>6, CacheStays, GiveStep

\* What a step leaves of the unfinished downloads, of the version and labels it says
LEMMA PartialStays ==
  ASSUME A!TypeOK, A!RecordsInv, UNCHANGED <<A!upstream, urls, stated>>, NEW l \in Links,
         NEW p \in A!Labelled(A!Bytes) \cup {None}, partial' = [partial EXCEPT ![l] = p],
         p # None => p.labelled = labelled
  PROVE  /\ UNCHANGED A!upstream /\ A!RecordsInv'
         /\ urls' \in [Links -> A!Labelled(Versions) \cup {None}]
         /\ stated' \subseteq [link : Links, md5 : {j.md5 : j \in Jobs}, version : Versions]
         /\ partial' \in [Links -> A!Labelled(A!Bytes) \cup {None}]
  BY DEF A!TypeOK, A!RecordsInv, A!upstream

\* What was kept of the download is dropped, and its link asked again.
LEMMA StartsOverStep ==
  ASSUME A!AnswersAssumption, A!IInv, NEW r \in Runs, A!StartOver(r), UNCHANGED begun
  PROVE  A!IInv'
<1>1. A!TypeOK /\ A!RecordsInv /\ run \in [Runs -> A!States] /\ run[r] \in A!States
      /\ run[r].link \in Links
  BY DEF A!IInv, A!TypeOK, A!States
<1>2. run' = [run EXCEPT ![r] = run[r]] /\ A!StateInv(run[r])
  BY <1>1 DEF A!IInv, A!StartOver
<1>3. partial' = [partial EXCEPT ![run[r].link] = None] /\ UNCHANGED <<A!upstream, objects, urls, stated,
      owner>>
  BY DEF A!StartOver, A!Discards, A!Link
<1>4. /\ UNCHANGED A!upstream /\ A!RecordsInv'
      /\ urls' \in [Links -> A!Labelled(Versions) \cup {None}]
      /\ stated' \subseteq [link : Links, md5 : {j.md5 : j \in Jobs}, version : Versions]
      /\ partial' \in [Links -> A!Labelled(A!Bytes) \cup {None}]
  BY <1>1, <1>3, PartialStays
<1>5. objects' \subseteq A!Bytes /\ owner' \in [Links -> Runs \cup {None}] /\ begun' \in Nat
  BY <1>1, <1>3 DEF A!TypeOK
<1> QED
  BY <1>1, <1>2, <1>4, <1>5, GoesOn

\* An answer goes on with the bytes kept, which a server that labels them says are of its version,
\* or brings new ones.
LEMMA AnswerStep ==
  ASSUME A!AnswersAssumption, A!IInv, NEW r \in Runs, A!Answer(r), UNCHANGED begun
  PROVE  A!IInv'
<1> DEFINE s == run[r]
           v == served[A!Link(r)]
           kept == A!Continued(r)
           same == kept # None /\ kept.version = v
           tells == labelled /\ kept # None /\ kept.labelled
<1>1. A!TypeOK /\ A!RecordsInv /\ run \in [Runs -> A!States] /\ owner \in [Links -> Runs \cup {None}]
      /\ s \in A!States /\ s.link \in Links
  BY DEF A!IInv, A!TypeOK, A!States
<1>2. A!Working(r) /\ s.step = "ask" /\ v # None
  BY DEF A!Answer, A!At, A!Working
<1>3. A!StateInv(s) /\ s.job \in A!Asked /\ v \in s.window
  BY <1>2, WorkingRun DEF A!Link
<1>4. v \in Versions /\ v \in ever[s.link]
  BY <1>1, <1>2 DEF A!TypeOK, A!RecordsInv, A!Link
<1>5. /\ kept \in A!Labelled(A!Bytes) \cup {None}
      /\ kept # None => A!Proves(s.job) \/ (kept.labelled /\ labelled)
  <2>1. partial[s.link] \in A!Labelled(A!Bytes) \cup {None}
    BY <1>1 DEF A!TypeOK
  <2>2. partial[s.link] # None => partial[s.link].labelled = labelled
    BY <1>1 DEF A!RecordsInv
  <2>3. \/ kept = partial[s.link] /\ (A!Proves(s.job) \/ kept.labelled)
        \/ kept = None
    BY DEF A!Continued, A!Link, A!Job
  <2> HIDE DEF kept
  <2>4. ASSUME kept # None, ~A!Proves(s.job) PROVE kept.labelled /\ labelled
    BY <2>2, <2>3, <2>4
  <2> QED
    BY <2>1, <2>3, <2>4
<1>6. CASE A!Fail(r)
  BY <1>6, FailStep DEF A!Answer
<1>7. ASSUME NEW earlier \in A!Labelled(A!Bytes) \cup {None}, NEW bytes \in A!Bytes, A!Brings(r, earlier,
             bytes), UNCHANGED owner,
             IF bytes = Mixed THEN A!Proves(s.job) ELSE bytes = v
      PROVE  A!IInv'
  <2> DEFINE t == [s EXCEPT !.step = "body", !.earlier = earlier, !.body = bytes]
  <2>1. t \in A!States
    BY <1>1 DEF A!States
  <2>2. A!StateInv(t)
    BY <1>1, <1>2, <1>3, <1>4, <1>7 DEF A!StateInv, A!States
  <2>3. UNCHANGED <<A!upstream, A!cache>> /\ run' = [run EXCEPT ![r] = t]
        /\ owner' \in [Links -> Runs \cup {None}]
    BY <1>1, <1>7 DEF A!Answer, A!Brings
  <2> HIDE DEF t
  <2> QED
    BY <2>1, <2>2, <2>3, GoesOnAlone
<1>8. CASE kept # None /\ (same \/ ~tells) /\ A!Brings(r, kept, IF same THEN v ELSE Mixed)
      /\ UNCHANGED owner
  <2> DEFINE bytes == IF same THEN v ELSE Mixed
  <2>1. bytes \in A!Bytes /\ (IF bytes = Mixed THEN A!Proves(s.job) ELSE bytes = v)
    BY <1>4, <1>5, <1>8 DEF A!Bytes, A!AnswersAssumption
  <2> QED
    BY <1>5, <1>7, <1>8, <2>1
<1>9. CASE A!Brings(r, None, v) /\ UNCHANGED owner
  <2>1. v \in A!Bytes /\ v # Mixed
    BY <1>4 DEF A!Bytes, A!AnswersAssumption
  <2> QED
    BY <1>7, <1>9, <2>1
<1> QED
  BY <1>6, <1>8, <1>9 DEF A!Answer

\* A body breaks off, and what came of it may be kept for the next try.
LEMMA BreakStep ==
  ASSUME A!AnswersAssumption, A!IInv, NEW r \in Runs, A!Break(r), UNCHANGED begun
  PROVE  A!IInv'
<1> DEFINE s == run[r]
           p == [version |-> s.body, labelled |-> labelled]
<1>1. A!TypeOK /\ A!RecordsInv /\ run \in [Runs -> A!States] /\ s \in A!States /\ s.link \in Links
  BY DEF A!IInv, A!TypeOK, A!States
<1>2. A!Working(r) /\ s.step = "body"
  BY DEF A!Break, A!At, A!Working
<1>3. A!StateInv(s) /\ s.job \in A!Asked
  BY <1>2, WorkingRun
<1>4. s.body \in A!Bytes
  BY <1>1, <1>2, <1>3 DEF A!StateInv, A!States, A!Bytes
<1>5. p \in A!Labelled(A!Bytes) /\ p.labelled = labelled
  BY <1>1, <1>4 DEF A!TypeOK, A!Labelled
<1>6. partial' = [partial EXCEPT ![s.link] = p] /\ UNCHANGED <<A!upstream, objects, urls, stated>>
  BY DEF A!Break, A!Keeps, A!Link
<1> HIDE DEF p
<1>7. /\ UNCHANGED A!upstream /\ A!RecordsInv'
      /\ urls' \in [Links -> A!Labelled(Versions) \cup {None}]
      /\ stated' \subseteq [link : Links, md5 : {j.md5 : j \in Jobs}, version : Versions]
      /\ partial' \in [Links -> A!Labelled(A!Bytes) \cup {None}]
  BY <1>1, <1>5, <1>6, PartialStays
<1>8. objects' \subseteq A!Bytes /\ begun' \in Nat
  BY <1>1, <1>6 DEF A!TypeOK
<1>9. CASE A!Fail(r)
  BY <1>7, <1>8, <1>9, GiveStep DEF A!Fail
<1>10. CASE run' = [run EXCEPT ![r].tries = @ + 1, ![r].step = "ask"] /\ UNCHANGED owner
  <2> DEFINE t == [s EXCEPT !.tries = s.tries + 1, !.step = "ask"]
  <2>1. t \in A!States
    BY <1>1, AsksTyped
  <2>2. A!StateInv(t)
    BY <1>1, <1>2, <1>3 DEF A!StateInv, A!States
  <2>3. run' = [run EXCEPT ![r] = t] /\ owner' \in [Links -> Runs \cup {None}]
    BY <1>1, <1>10 DEF A!TypeOK
  <2> HIDE DEF t
  <2> QED
    BY <2>1, <2>2, <2>3, <1>7, <1>8, GoesOn
<1> QED
  BY <1>9, <1>10 DEF A!Break, A!Retries

\* A run is stopped or fails; its bytes are kept or not.
LEMMA StopStep ==
  ASSUME A!AnswersAssumption, A!IInv, NEW r \in Runs, A!Stop(r), UNCHANGED begun
  PROVE  A!IInv'
<1> DEFINE s == run[r]
           p == [version |-> s.body, labelled |-> labelled]
<1>1. A!TypeOK /\ A!RecordsInv /\ s \in A!States /\ s.link \in Links /\ A!Fail(r) /\ A!StateInv(s)
  BY DEF A!IInv, A!TypeOK, A!States, A!Stop
<1>2. CASE UNCHANGED partial
  BY <1>1, <1>2, FailStep DEF A!Stop, A!cache
<1>3. CASE A!At(r, {"body"}) /\ A!Keeps(r)
  <2>1. s.body \in A!Bytes
    BY <1>1, <1>3 DEF A!At, A!StateInv, A!States, A!Bytes
  <2>2. p \in A!Labelled(A!Bytes) /\ p.labelled = labelled
    BY <1>1, <2>1 DEF A!TypeOK, A!Labelled
  <2>3. partial' = [partial EXCEPT ![s.link] = p] /\ UNCHANGED <<A!upstream, objects, urls, stated>>
    BY <1>3 DEF A!Stop, A!Keeps, A!Link
  <2> HIDE DEF p
  <2>4. /\ UNCHANGED A!upstream /\ A!RecordsInv'
        /\ urls' \in [Links -> A!Labelled(Versions) \cup {None}]
        /\ stated' \subseteq [link : Links, md5 : {j.md5 : j \in Jobs}, version : Versions]
        /\ partial' \in [Links -> A!Labelled(A!Bytes) \cup {None}]
    BY <1>1, <2>2, <2>3, PartialStays
  <2>5. objects' \subseteq A!Bytes /\ begun' \in Nat
    BY <1>1, <2>3 DEF A!TypeOK
  <2> QED
    BY <1>1, <2>4, <2>5, GiveStep DEF A!Fail
<1> QED
  BY <1>2, <1>3 DEF A!Stop

\* What the cache records once bytes that match are stored
LEMMA RecordsStep ==
  ASSUME A!AnswersAssumption, A!TypeOK, A!RecordsInv, NEW r \in Runs, NEW v \in Versions,
         run[r].job \in A!Asked,
         run[r].link \in Links, v \in ever[run[r].link], A!Matches(run[r].job, v),
         A!Records(r, v), A!Discards(r), UNCHANGED A!upstream
  PROVE  /\ A!RecordsInv'
         /\ urls' \in [Links -> A!Labelled(Versions) \cup {None}]
         /\ stated' \subseteq [link : Links, md5 : {j.md5 : j \in Jobs}, version : Versions]
         /\ partial' \in [Links -> A!Labelled(A!Bytes) \cup {None}]
<1> DEFINE l == run[r].link
           u == [version |-> v, labelled |-> labelled]
           n == [link |-> l, md5 |-> run[r].job.md5, version |-> v]
<1>1. u \in A!Labelled(Versions) /\ u.version = v
  BY DEF A!TypeOK, A!Labelled
<1>2. n \in [link : Links, md5 : {j.md5 : j \in Jobs}, version : Versions]
  BY DEF A!Asked
<1>3. /\ \/ stated' = stated
         \/ stated' = stated \cup {n} /\ run[r].job.md5 = Md5[v]
      /\ urls' = urls \/ urls' = [urls EXCEPT ![l] = u]
  BY DEF A!Records, A!Link, A!Job, A!Matches
<1>4. partial' = [partial EXCEPT ![l] = None] /\ UNCHANGED <<served, labelled, ever>>
  BY DEF A!Discards, A!Link, A!upstream
<1>5. n.version = v /\ n.link = l /\ n.md5 = run[r].job.md5
  OBVIOUS
<1> HIDE DEF u, n
<1>6. urls' \in [Links -> A!Labelled(Versions) \cup {None}]
  BY <1>1, <1>3 DEF A!TypeOK
<1>7. stated' \subseteq [link : Links, md5 : {j.md5 : j \in Jobs}, version : Versions]
  BY <1>2, <1>3 DEF A!TypeOK
<1>8. partial' \in [Links -> A!Labelled(A!Bytes) \cup {None}]
  BY <1>4 DEF A!TypeOK
<1>9. \A s \in stated' : s.version \in ever[s.link] /\ s.md5 = Md5[s.version]
  BY <1>3, <1>5 DEF A!RecordsInv
<1>10. ASSUME NEW k \in Links
       PROVE  /\ served[k] \in ever[k] \cup {None}
              /\ urls'[k] # None => urls'[k].version \in ever[k]
              /\ partial'[k] # None => partial'[k].labelled = labelled
  BY <1>1, <1>3, <1>4 DEF A!TypeOK, A!RecordsInv
<1> QED
  BY <1>4, <1>6, <1>7, <1>8, <1>9, <1>10 DEF A!RecordsInv

\* Finished bytes match what the job proves, or are of the version its link served.
LEMMA FinishStep ==
  ASSUME A!AnswersAssumption, A!IInv, NEW r \in Runs, A!Finish(r), UNCHANGED begun
  PROVE  A!IInv'
<1> DEFINE s == run[r]
<1>1. A!TypeOK /\ A!RecordsInv /\ run \in [Runs -> A!States] /\ s \in A!States /\ s.link \in Links
      /\ UNCHANGED A!upstream
  BY DEF A!IInv, A!TypeOK, A!States, A!Finish
<1>2. A!Working(r) /\ s.step = "body"
  BY DEF A!Finish, A!At, A!Working
<1>3. A!StateInv(s) /\ s.job \in A!Asked
  BY <1>2, WorkingRun
<1>4. /\ s.body \in A!Bytes
      /\ s.body # Mixed => s.body \in s.window /\ s.body \in ever[s.link] /\ s.body \in Versions
      /\ s.body = Mixed => A!Proves(s.job)
  BY <1>1, <1>2, <1>3 DEF A!StateInv, A!States, A!Bytes
<1>5. objects' \subseteq A!Bytes /\ begun' \in Nat
  BY <1>1, <1>4 DEF A!Finish, A!TypeOK
<1>6. CASE A!Matches(s.job, s.body)
  <2>1. s.body # Mixed
    BY <1>3, <1>4, <1>6, MatchesOne
  <2>2. A!RightFor(s, s.body)
    BY <1>4, <1>6, <2>1 DEF A!RightFor, A!Matches
  <2>3. A!Give(r, s.body) /\ A!Records(r, s.body) /\ A!Discards(r)
    BY <1>6 DEF A!Finish, A!Job
  <2>4. /\ A!RecordsInv'
        /\ urls' \in [Links -> A!Labelled(Versions) \cup {None}]
        /\ stated' \subseteq [link : Links, md5 : {j.md5 : j \in Jobs}, version : Versions]
        /\ partial' \in [Links -> A!Labelled(A!Bytes) \cup {None}]
    BY <1>1, <1>3, <1>4, <1>6, <2>1, <2>3, RecordsStep
  <2> QED
    BY <1>1, <1>3, <1>4, <1>5, <2>1, <2>2, <2>3, <2>4, GiveStep
<1>7. CASE ~A!Matches(s.job, s.body)
  <2>1. partial' = [partial EXCEPT ![s.link] = None] /\ UNCHANGED <<urls, stated>>
    BY <1>7 DEF A!Finish, A!Discards, A!Link, A!Job
  <2>2. /\ A!RecordsInv'
        /\ urls' \in [Links -> A!Labelled(Versions) \cup {None}]
        /\ stated' \subseteq [link : Links, md5 : {j.md5 : j \in Jobs}, version : Versions]
        /\ partial' \in [Links -> A!Labelled(A!Bytes) \cup {None}]
    BY <1>1, <2>1, PartialStays
  <2>3. CASE A!Fail(r)
    BY <1>1, <1>5, <2>2, <2>3, GiveStep DEF A!Fail
  <2>4. CASE run' = [run EXCEPT ![r].step = "ask", ![r].restarted = TRUE] /\ UNCHANGED owner
    <3> DEFINE t == [s EXCEPT !.step = "ask", !.restarted = TRUE]
    <3>1. t \in A!States
      BY <1>1, AsksTyped
    <3>2. A!StateInv(t)
      BY <1>1, <1>2, <1>3 DEF A!StateInv, A!States
    <3>3. run' = [run EXCEPT ![r] = t] /\ owner' \in [Links -> Runs \cup {None}]
      BY <1>1, <2>4 DEF A!TypeOK
    <3> HIDE DEF t
    <3> QED
      BY <1>1, <1>5, <2>2, <3>1, <3>2, <3>3, GoesOn
  <2> QED
    BY <1>7, <2>3, <2>4 DEF A!Finish, A!Job
<1> QED
  BY <1>6, <1>7

\* Where the checksum does not match, the source is asked what it lists now.
LEMMA RecoverStep ==
  ASSUME A!AnswersAssumption, A!IInv, NEW r \in Runs, A!Recover(r), UNCHANGED begun
  PROVE  A!IInv'
<1>1. A!Working(r) /\ begun' \in Nat /\ UNCHANGED <<A!upstream, A!cache>>
  BY DEF A!Recover, A!At, A!Working, A!IInv, A!TypeOK
<1>2. run[r].job \in A!Asked
  BY <1>1, WorkingRun
<1>3. CASE A!Fail(r)
  BY <1>1, <1>3, FailStep
<1>4. ASSUME NEW l \in Links, A!Starts(r, [A!Job(r) EXCEPT !.revalidate = FALSE, !.again = FALSE], l)
      PROVE  A!IInv'
  <2> DEFINE j == [A!Job(r) EXCEPT !.revalidate = FALSE, !.again = FALSE]
  <2>1. j \in A!Asked
    BY <1>2 DEF A!Asked, A!Job
  <2>2. A!Starts(r, j, l)
    BY <1>4
  <2> HIDE DEF j
  <2> QED
    BY <1>1, <2>1, <2>2, StartsWell
<1> QED
  BY <1>3, <1>4 DEF A!Recover

\* A link serves another version, or none: every run that works has it in its window.
LEMMA ChangeStep ==
  ASSUME A!AnswersAssumption, A!IInv, A!Change, UNCHANGED begun
  PROVE  A!IInv'
<1>1. A!TypeOK /\ A!RecordsInv /\ \A r \in Runs : run[r] \in A!States /\ A!StateInv(run[r])
  BY DEF A!IInv, A!TypeOK
<1>2. PICK l \in Links, v \in Versions \cup {None} :
        /\ served' = [served EXCEPT ![l] = v]
        /\ ever' = [ever EXCEPT ![l] = ever[l] \cup ({v} \ {None})]
        /\ run' = [r \in Runs |->
                     IF A!Working(r) /\ A!Link(r) = l
                     THEN [run[r] EXCEPT !.window = run[r].window \cup ({v} \ {None})] ELSE run[r]]
  BY DEF A!Change
<1>3. UNCHANGED <<labelled, A!cache, owner>> /\ changes' \in Nat
  BY <1>1 DEF A!Change, A!TypeOK
<1>4. \A k \in Links : /\ ever[k] \subseteq ever'[k] /\ ever'[k] \subseteq Versions \cup {None}
                       /\ served'[k] = IF k = l THEN v ELSE served[k]
                       /\ served'[k] \in ever'[k] \cup {None}
  BY <1>1, <1>2 DEF A!TypeOK, A!RecordsInv
<1>5. A!RecordsInv'
  BY <1>1, <1>3, <1>4 DEF A!RecordsInv, A!TypeOK, A!cache
<1>6. ASSUME NEW r \in Runs PROVE run'[r] \in A!States /\ A!StateInv(run[r])'
  <2> DEFINE s == run[r]
             t == [s EXCEPT !.window = s.window \cup ({v} \ {None})]
  <2>1. s \in A!States /\ A!StateInv(s) /\ s.link \in Links
    BY <1>1 DEF A!States
  <2>2. t \in A!States
    BY <2>1 DEF A!States
  <2>3. /\ t.job = s.job /\ t.link = s.link /\ t.step = s.step /\ t.known = s.known /\ t.waited = s.waited
        /\ t.body = s.body /\ t.got = s.got /\ t.window = s.window \cup ({v} \ {None})
    BY <2>1 DEF A!States
  <2>4. run'[r] = IF A!Working(r) /\ s.link = l THEN t ELSE s
    BY <1>2 DEF A!Link
  <2>5. A!Working(r) <=> s.step \notin {"idle", "done"}
    BY DEF A!Working, A!At
  <2> HIDE DEF t
  <2>6. CASE A!Working(r) /\ s.link = l
    BY <1>4, <2>1, <2>2, <2>3, <2>4, <2>5, <2>6 DEF A!StateInv, A!RightFor, A!Proves
  <2>7. CASE ~(A!Working(r) /\ s.link = l)
    <3>1. run'[r] = s
      BY <2>4, <2>7
    <3>2. A!StateInv(s)'
      BY <1>4, <2>1, <2>5, <2>7, <3>1 DEF A!StateInv, A!RightFor, A!Proves
    <3> QED
      BY <2>1, <3>1, <3>2
  <2> QED
    BY <2>6, <2>7
<1>7. run' \in [Runs -> A!States]
  BY <1>2, <1>6
<1>8. A!TypeOK'
  BY <1>1, <1>2, <1>3, <1>7 DEF A!TypeOK, A!cache
<1> QED
  BY <1>5, <1>6, <1>8 DEF A!IInv

\* gc may drop any object while no run works.
LEMMA FreeStep == ASSUME A!IInv, A!Free, UNCHANGED begun PROVE A!IInv'
  BY DEF A!IInv, A!Free, A!TypeOK, A!RecordsInv, A!upstream, A!StateInv, A!RightFor, A!Proves

\* Every step keeps IInv.
LEMMA AnswersNext == ASSUME A!AnswersAssumption PROVE A!IInv /\ [A!Next]_(A!vars) => A!IInv'
<1> SUFFICES ASSUME A!IInv, [A!Next]_(A!vars) PROVE A!IInv'
  OBVIOUS
<1>1. ASSUME NEW r \in Runs, A!Begin(r) PROVE A!IInv'
  BY <1>1, BeginStep
<1>2. ASSUME NEW r \in Runs, A!Wait(r) \/ A!Claim(r) \/ A!Page(r) \/ A!Refused(r) \/ A!Gone(r),
             UNCHANGED begun PROVE A!IInv'
  BY <1>2, ClaimsStep
<1>3. ASSUME NEW r \in Runs, A!Look(r), UNCHANGED begun PROVE A!IInv'
  BY <1>3, LooksStep
<1>4. ASSUME NEW r \in Runs, A!NotModified(r), UNCHANGED begun PROVE A!IInv'
  BY <1>4, NotModifiedStep
<1>5. ASSUME NEW r \in Runs, A!StartOver(r), UNCHANGED begun PROVE A!IInv'
  BY <1>5, StartsOverStep
<1>6. ASSUME NEW r \in Runs, A!Answer(r), UNCHANGED begun PROVE A!IInv'
  BY <1>6, AnswerStep
<1>7. ASSUME NEW r \in Runs, A!Break(r), UNCHANGED begun PROVE A!IInv'
  BY <1>7, BreakStep
<1>8. ASSUME NEW r \in Runs, A!Finish(r), UNCHANGED begun PROVE A!IInv'
  BY <1>8, FinishStep
<1>9. ASSUME NEW r \in Runs, A!Recover(r), UNCHANGED begun PROVE A!IInv'
  BY <1>9, RecoverStep
<1>10. ASSUME NEW r \in Runs, A!Stop(r), UNCHANGED begun PROVE A!IInv'
  BY <1>10, StopStep
<1>11. CASE A!Change /\ UNCHANGED begun
  BY <1>11, ChangeStep
<1>12. CASE A!Free /\ UNCHANGED begun
  BY <1>12, FreeStep
<1>13. CASE UNCHANGED A!vars
  BY <1>13 DEF A!vars, A!upstream, A!cache, A!IInv, A!TypeOK, A!RecordsInv, A!StateInv, A!RightFor,
     A!Proves
<1> QED
  BY <1>1, <1>2, <1>3, <1>4, <1>5, <1>6, <1>7, <1>8, <1>9, <1>10, <1>11, <1>12, <1>13 DEF A!Next

\* What a run is done with is right for it.
LEMMA GivenRight == A!IInv => A!RightBytes
  BY DEF A!IInv, A!RightBytes, A!StateInv, A!RightFor, A!At, A!Job, A!Link

-----------------------------------------------------------------------------
\* For any runs, links, versions and jobs, and any number of changes, downloads, pages and tries: a
\* pinned job is given its pin, one with a stated MD5 bytes of that MD5 that its link served, and any
\* other what its link served, while it ran if it waited for nobody; never bytes of two versions.
THEOREM GivenRightBytes ==
  ASSUME A!AnswersAssumption
  PROVE  IsOf("answers") /\ A!Spec => []RightBytes
<1>1. A!Init => A!IInv
  BY AnswersInit
<1>2. A!IInv /\ [A!Next]_(A!vars) => A!IInv'
  BY AnswersNext
<1>3. A!IInv => RightBytes
  BY GivenRight DEF RightBytes
<1>q. QED BY <1>1, <1>2, <1>3, PTL DEF A!Spec
-----------------------------------------------------------------------------
(***************************************************************************)
(* What data.lock pins (Relock).  RelockInit to RelockPublish show what is *)
(* said of a pin, and of a file on its way to one, to hold in every state; *)
(* PinsStep that no lock a run writes moves a pin it should leave.         *)
(***************************************************************************)
\* A place lists what its version, or what its raw link serves now, has.
LEMMA PlacesList ==
  ASSUME L!RelockAssumption, served \in [L!Refs -> 1 .. 2], NEW place \in L!Places
  PROVE  \E p \in L!Refs \X (1 .. 2) : L!Listed(place) = Content[p]
<1>1. CASE place \in {<<ref, v>> : ref \in Versioned, v \in 1 .. 2}
  <2>1. PICK ref \in Versioned, v \in 1 .. 2 : place = <<ref, v>>
    BY <1>1
  <2>2. ref \notin Raw /\ ref \in L!Refs
    BY DEF L!RelockAssumption, L!Refs
  <2>3. place[1] = ref /\ place[2] = v
    BY <2>1
  <2>4. L!Listed(place) = Content[<<ref, v>>]
    BY <2>2, <2>3 DEF L!Listed
  <2>q. QED BY <2>2, <2>4
<1>2. CASE place \in {<<ref, 0>> : ref \in Raw}
  <2>1. PICK ref \in Raw : place = <<ref, 0>>
    BY <1>2
  <2>2. ref \in L!Refs /\ served[ref] \in 1 .. 2
    BY DEF L!Refs
  <2>3. place[1] = ref
    BY <2>1
  <2>4. L!Listed(place) = Content[<<ref, served[ref]>>]
    BY <2>2, <2>3 DEF L!Listed
  <2>q. QED BY <2>2, <2>4
<1>q. QED BY <1>1, <1>2 DEF L!Places

\* What a place lists are items, each link once.
LEMMA ListedItems ==
  ASSUME L!RelockAssumption, served \in [L!Refs -> 1 .. 2], NEW place \in L!Places
  PROVE  /\ L!Listed(place) \subseteq L!Items
         /\ \A i, j \in L!Listed(place) : i.url = j.url => i = j
<1>1. PICK p \in L!Refs \X (1 .. 2) : L!Listed(place) = Content[p]
  BY PlacesList
<1>q. QED BY <1>1 DEF L!Items, L!RelockAssumption

\* The newest of a reference is a place.
LEMMA NewestPlace ==
  ASSUME served \in [L!Refs -> 1 .. 2], NEW ref \in L!Refs
  PROVE  L!Newest(ref) \in L!Places
<1>1. served[ref] \in 1 .. 2
  OBVIOUS
<1>2. CASE ref \in Versioned
  BY <1>1, <1>2 DEF L!Newest, L!Places
<1>3. CASE ref \notin Versioned
  BY <1>3 DEF L!Newest, L!Places, L!Refs
<1>q. QED BY <1>2, <1>3

\* What a link serves are bytes of items.
LEMMA ServesItems ==
  ASSUME L!RelockAssumption, served \in [L!Refs -> 1 .. 2], NEW u, NEW b \in L!Serves(u)
  PROVE  \E i \in L!Items : i.bytes = b
<1>1. PICK place \in L!Refs \X (1 .. 2) : \E i \in L!Listed(place) : i.bytes = b
  BY DEF L!Serves
<1>2. PICK i \in L!Listed(place) : i.bytes = b
  BY <1>1
<1>3. place[1] \in L!Refs /\ place[2] \in 1 .. 2
  OBVIOUS
<1>4. PICK k \in 1 .. 2 : L!Listed(place) = Content[<<place[1], k>>]
  BY <1>3 DEF L!Listed
<1>5. i \in L!Items
  BY <1>2, <1>3, <1>4 DEF L!Items
<1>q. QED BY <1>2, <1>5

\* What a link serves has its facts.
LEMMA ServesBytes ==
  ASSUME L!RelockAssumption, served \in [L!Refs -> 1 .. 2], NEW u, NEW b \in L!Serves(u) \ {None}
  PROVE  b \in L!Bytes
  BY ServesItems DEF L!Bytes

\* What a source states of a file it serves is so.
LEMMA RemoteFacts ==
  ASSUME L!RelockAssumption, NEW i \in L!Items, i.bytes # None
  PROVE  /\ i.bytes \in L!Bytes /\ ContentMd5[i.bytes] # None
         /\ L!Remote(i).url = i.url
         /\ L!Remote(i).sha \in {None, i.bytes}
         /\ L!Remote(i).md5 \in {None, ContentMd5[i.bytes]}
<1>1. i.bytes \in L!Bytes
  BY DEF L!Bytes
<1>q. QED BY <1>1 DEF L!RelockAssumption, L!Remote

-----------------------------------------------------------------------------
\* The pins of a link are one.
LEMMA CarriedOnce ==
  ASSUME L!LockInv, NEW remote, NEW f \in L!Carried(remote, partial)
  PROVE  L!Carried(remote, partial) = {f} /\ f \in partial.files /\ partial # None
<1>1. /\ partial # None /\ f \in partial.files /\ f.url = remote.url
      /\ \A g \in L!Carried(remote, partial) : g \in partial.files /\ g.url = remote.url
  BY DEF L!Carried
<1>q. QED BY <1>1 DEF L!LockInv

\* A pin carries over only if the source states nothing else of its bytes.
LEMMA CarriedAgrees ==
  ASSUME L!RelockAssumption, L!LockInv, NEW i \in L!Items, i.bytes # None,
         NEW f \in L!Carried(L!Remote(i), partial)
  PROVE  /\ f.sha \in L!Bytes
         /\ L!Remote(i).sha \in {None, f.sha} /\ L!Remote(i).md5 \in {None, ContentMd5[f.sha]}
<1> DEFINE r == L!Remote(i)
<1>1. f \in partial.files /\ partial # None
  BY CarriedOnce
<1>2. f.sha \in L!Bytes /\ f.md5 \in {None, ContentMd5[f.sha]}
  BY <1>1 DEF L!LockInv, L!TruePin
<1>3. r.sha \in {None, i.bytes} /\ r.md5 \in {None, ContentMd5[i.bytes]}
  BY RemoteFacts
<1>4. /\ r.sha \in {None, f.sha}
      /\ r.md5 \in {None, f.md5} \/ (f.md5 = None /\ r.sha # None)
  BY <1>1 DEF L!Carried
<1> HIDE DEF r
<1>5. r.md5 \in {None, ContentMd5[f.sha]}
  BY <1>2, <1>3, <1>4
<1>q. QED BY <1>2, <1>4, <1>5 DEF r

\* What is known without a download: the bytes that are stated, pinned or remembered, and the tree
\* of the pin, which it keeps but for an upgrade.
LEMMA DraftedRight ==
  ASSUME L!RelockAssumption, L!LockIsTrue, L!LockInv, L!RememberedInv, NEW m \in Machines,
         NEW i \in L!Items, i.bytes # None, NEW e, NEW upgrade \in BOOLEAN, NEW d,
         d = L!Drafted(L!Remote(i), m, e, partial, upgrade)
  PROVE  /\ DOMAIN d = {"remote", "path", "sha", "tree"} /\ d.remote = L!Remote(i)
         /\ d.sha # None => /\ d.sha \in L!Bytes /\ d.remote.sha \in {None, d.sha}
                            /\ d.remote.md5 \in {None, ContentMd5[d.sha]}
         /\ d.tree # None => /\ d.sha # None /\ L!Unpacks(d.path, e)
                             /\ d.tree \in {Tree[<<n, d.sha>>] : n \in Machines}
         /\ upgrade /\ ~L!Pinned(d.remote) => d.sha = None
         /\ ~upgrade => \A g \in L!Carried(d.remote, partial) :
               /\ d.sha = g.sha /\ d.path = g.path
               /\ g.tree # None => d.tree = g.tree \/ (d.tree = None /\ ~L!Unpacks(d.path, e))
<1> DEFINE r == L!Remote(i)
           earlier == L!Taken(r, partial, upgrade)
           pin == CHOOSE f \in earlier : TRUE
           remembered == {s.bytes : s \in {t \in stated[m] : t.url = r.url /\ t.md5 = r.md5}}
           found == CHOOSE b \in remembered : L!Fits(r.size, b)
<1>1. /\ DOMAIN d = {"remote", "path", "sha", "tree"} /\ d.remote = r
      /\ d.sha = IF r.sha # None /\ r.size # None THEN r.sha
                 ELSE IF earlier # {} THEN pin.sha
                 ELSE IF \E b \in remembered : L!Fits(r.size, b) THEN found ELSE None
      /\ d.path = IF earlier # {} THEN pin.path ELSE r.path
      /\ d.tree = IF earlier = {} \/ ~L!Unpacks(d.path, e) \/ d.sha # pin.sha THEN None
                  ELSE IF upgrade /\ d.sha \in owner[m] THEN Tree[<<m, d.sha>>] ELSE pin.tree
  BY DEF L!Drafted
<1>2. /\ i.bytes \in L!Bytes /\ r.sha \in {None, i.bytes} /\ r.md5 \in {None, ContentMd5[i.bytes]}
  BY RemoteFacts
<1>3. ASSUME earlier # {}
      PROVE  /\ pin \in L!Carried(r, partial) /\ pin \in partial.files /\ partial # None
             /\ pin.sha \in L!Bytes /\ r.sha \in {None, pin.sha} /\ r.md5 \in {None, ContentMd5[pin.sha]}
  <2>1. pin \in earlier
    BY <1>3
  <2>2. pin \in L!Carried(r, partial)
    BY <2>1 DEF L!Taken
  <2>3. pin \in partial.files /\ partial # None
    BY <2>2, CarriedOnce
  <2>q. QED BY <2>2, <2>3, CarriedAgrees
<1>4. ASSUME \E b \in remembered : L!Fits(r.size, b)
      PROVE  found \in L!Bytes /\ r.md5 = ContentMd5[found] /\ r.md5 # None
  <2>1. found \in remembered
    BY <1>4
  <2>2. PICK s \in stated[m] : found = s.bytes /\ s.md5 = r.md5
    BY <2>1
  <2>3. s.bytes \in L!Bytes /\ s.md5 = ContentMd5[s.bytes]
    BY DEF L!RememberedInv
  <2>q. QED BY <2>2, <2>3 DEF L!RelockAssumption
<1>5. d.sha # None => d.sha \in L!Bytes /\ r.sha \in {None, d.sha} /\ r.md5 \in {None, ContentMd5[d.sha]}
  <2> HIDE DEF earlier, pin, remembered, found, r
  <2>1. CASE r.sha # None /\ r.size # None
    BY <2>1, <1>1, <1>2
  <2>2. CASE ~(r.sha # None /\ r.size # None) /\ earlier # {}
    BY <2>2, <1>1, <1>3
  <2>3. CASE /\ ~(r.sha # None /\ r.size # None) /\ earlier = {}
             /\ \E b \in remembered : L!Fits(r.size, b)
    <3>1. d.sha = found
      BY <2>3, <1>1
    <3>2. ContentMd5[i.bytes] = ContentMd5[found] => i.bytes = found
      BY <2>3, <1>2, <1>4 DEF L!RelockAssumption
    <3>q. QED BY <2>3, <3>1, <3>2, <1>2, <1>4
  <2>4. CASE /\ ~(r.sha # None /\ r.size # None) /\ earlier = {}
             /\ ~\E b \in remembered : L!Fits(r.size, b)
    BY <2>4, <1>1
  <2>q. QED BY <2>1, <2>2, <2>3, <2>4
<1>6. ASSUME d.tree # None
      PROVE  d.sha # None /\ L!Unpacks(d.path, e) /\ d.tree \in {Tree[<<n, d.sha>>] : n \in Machines}
  <2>1. earlier # {} /\ L!Unpacks(d.path, e) /\ d.sha = pin.sha
    BY <1>1, <1>6
  <2>2. pin \in partial.files /\ pin.sha \in L!Bytes /\ partial # None
    BY <2>1, <1>3
  <2>3. d.sha # None
    BY <2>1, <2>2 DEF L!Bytes
  <2>4. pin.tree \in {Tree[<<n, pin.sha>>] : n \in Machines} \cup {None}
    BY <2>2 DEF L!LockIsTrue
  <2>5. d.tree = Tree[<<m, d.sha>>] \/ d.tree = pin.tree
    BY <1>1, <2>1
  <2>q. QED BY <1>6, <2>1, <2>3, <2>4, <2>5
<1>7. upgrade /\ ~L!Pinned(r) => d.sha = None
  <2>1. SUFFICES ASSUME upgrade, ~L!Pinned(r) PROVE d.sha = None
    OBVIOUS
  <2>2. earlier = {}
    BY <2>1 DEF L!Taken
  <2>3. r.sha = None /\ r.md5 = None
    BY <2>1 DEF L!Pinned
  <2>q. QED BY <1>1, <1>4, <2>2, <2>3
<1>8. ASSUME ~upgrade, NEW g \in L!Carried(r, partial)
      PROVE  /\ d.sha = g.sha /\ d.path = g.path
             /\ g.tree # None => d.tree = g.tree \/ (d.tree = None /\ ~L!Unpacks(d.path, e))
  <2>1. earlier = L!Carried(r, partial)
    BY <1>8 DEF L!Taken
  <2>2. earlier = {g} /\ pin = g
    BY <2>1, CarriedOnce
  <2>3. r.sha \in {None, g.sha}
    BY CarriedAgrees
  <2> HIDE DEF earlier, pin, remembered, found, r
  <2>4. d.sha = g.sha /\ d.path = g.path
    BY <1>1, <2>2, <2>3
  <2>q. QED BY <1>1, <1>8, <2>2, <2>4
<1>q. QED BY <1>1, <1>5, <1>6, <1>7, <1>8, Zenon

-----------------------------------------------------------------------------
\* No lock pins a file before the first run.
LEMMA RelockInit == L!Init => L!IInv
<1> SUFFICES ASSUME L!Init PROVE L!IInv
  OBVIOUS
<1>1. urls.ref \in L!Refs
  BY DEF L!Init, L!Entries
<1>2. served \in [L!Refs -> 1 .. 2]
  BY DEF L!Init
<1>3. L!RememberedInv
  BY DEF L!Init, L!RememberedInv
<1>q. QED BY <1>1, <1>2, <1>3 DEF L!Init, L!IInv, L!LockIsTrue, L!LockInv, L!RunInv

\* A run begins with what it knows of each file without a download.
LEMMA RelockBegin ==
  ASSUME L!RelockAssumption, L!IInv, NEW m \in Machines, NEW upgrade \in BOOLEAN, L!Begin(m, upgrade)
  PROVE  L!IInv'
<1> DEFINE place == L!Place(upgrade)
           chosen == L!Chosen(place)
           remotes == {L!Remote(i) : i \in chosen}
<1>1. /\ L!Available(chosen)
      /\ run' = [machine |-> m, upgrade |-> upgrade, entry |-> urls, previous |-> partial,
                 resolved |-> place, files |-> {L!Drafted(r, m, urls, partial, upgrade) : r \in remotes},
                 window |-> [r \in {x.url : x \in remotes} |-> L!Serves(r)]]
      /\ UNCHANGED <<served, urls, partial, objects, stated, owner>>
  BY DEF L!Begin, L!cache
<1>2. /\ DOMAIN run' = {"machine", "upgrade", "entry", "previous", "resolved", "files", "window"}
      /\ run'.machine = m /\ run'.upgrade = upgrade /\ run'.entry = urls /\ run'.resolved = place
      /\ run'.files = {L!Drafted(r, m, urls, partial, upgrade) : r \in remotes}
      /\ run'.window = [u \in {x.url : x \in remotes} |-> L!Serves(u)]
  BY <1>1
<1>3. place \in L!Places
  BY NewestPlace DEF L!IInv, L!Place, L!LockInv
<1>4. /\ chosen \subseteq L!Items /\ \A i \in chosen : i.bytes # None
      /\ \A i, j \in chosen : i.url = j.url => i = j
  BY <1>1, <1>3, ListedItems DEF L!Chosen, L!Available, L!IInv
<1>5. ASSUME NEW f \in run'.files
      PROVE  \E i \in chosen : f = L!Drafted(L!Remote(i), m, urls, partial, upgrade) /\ f.remote = L!Remote(i)
  <2>1. PICK i \in chosen : f = L!Drafted(L!Remote(i), m, urls, partial, upgrade)
    BY <1>2
  <2>2. f.remote = L!Remote(i)
    BY <2>1 DEF L!Drafted
  <2>q. QED BY <2>1, <2>2
<1>6. ASSUME NEW f \in run'.files
      PROVE  /\ L!TrueDraft(f)' /\ f.remote.url \in DOMAIN run'.window
             /\ upgrade /\ ~L!Pinned(f.remote) => f.sha = None
             /\ ~upgrade /\ partial # None => \A g \in partial'.files : L!Carries(f, g)'
  <2>1. PICK i \in chosen :
           f = L!Drafted(L!Remote(i), m, urls, partial, upgrade) /\ f.remote = L!Remote(i)
    BY <1>5
  <2>2. i \in L!Items /\ i.bytes # None
    BY <1>4
  <2>3. /\ DOMAIN f = {"remote", "path", "sha", "tree"}
        /\ f.sha # None => /\ f.sha \in L!Bytes /\ f.remote.sha \in {None, f.sha}
                           /\ f.remote.md5 \in {None, ContentMd5[f.sha]}
        /\ f.tree # None => /\ f.sha # None /\ L!Unpacks(f.path, urls)
                            /\ f.tree \in {Tree[<<n, f.sha>>] : n \in Machines}
        /\ upgrade /\ ~L!Pinned(f.remote) => f.sha = None
        /\ ~upgrade => \A g \in L!Carried(f.remote, partial) :
              /\ f.sha = g.sha /\ f.path = g.path
              /\ g.tree # None => f.tree = g.tree \/ (f.tree = None /\ ~L!Unpacks(f.path, urls))
    BY <2>1, <2>2, DraftedRight DEF L!IInv
  <2>4. L!TrueDraft(f)'
    BY <1>1, <1>2, <2>1, <2>2, <2>3 DEF L!TrueDraft
  <2>5. f.remote.url \in DOMAIN run'.window
    BY <1>2, <2>1
  <2>6. ~upgrade /\ partial # None => \A g \in partial'.files : L!Carries(f, g)'
    BY <1>1, <1>2, <2>3 DEF L!Carries
  <2>q. QED BY <2>3, <2>4, <2>5, <2>6
<1>7. ASSUME NEW f \in run'.files, NEW g \in run'.files, f.remote.url = g.remote.url PROVE f = g
  <2>1. PICK i \in chosen :
           f = L!Drafted(L!Remote(i), m, urls, partial, upgrade) /\ f.remote = L!Remote(i)
    BY <1>5
  <2>2. PICK j \in chosen :
           g = L!Drafted(L!Remote(j), m, urls, partial, upgrade) /\ g.remote = L!Remote(j)
    BY <1>5
  <2>3. L!Remote(i).url = i.url /\ L!Remote(j).url = j.url
    BY DEF L!Remote
  <2>q. QED BY <1>4, <1>7, <2>1, <2>2, <2>3
<1>8. \A u \in DOMAIN run'.window : L!Serves(u)' \subseteq run'.window[u]
  <2>1. \A u : L!Serves(u)' = L!Serves(u)
    BY <1>1 DEF L!Serves, L!Listed
  <2>q. QED BY <1>2, <2>1
<1>9. ~upgrade /\ partial # None /\ partial.ref = urls.ref => place = partial.resolved
  BY DEF L!Place
<1>10. L!RunInv'
  BY <1>1, <1>2, <1>3, <1>6, <1>7, <1>8, <1>9 DEF L!RunInv
<1>11. (L!LockIsTrue /\ L!LockInv /\ L!RememberedInv)'
  BY <1>1 DEF L!IInv, L!LockIsTrue, L!LockInv, L!RememberedInv, L!TruePin
<1>q. QED BY <1>1, <1>10, <1>11 DEF L!IInv

\* What a run has does not change with the cache, the log of what was begun, or data.toml.
LEMMA RelockStays == ASSUME L!RunInv, UNCHANGED <<run, served, partial>> PROVE L!RunInv'
<1>1. \A u : L!Serves(u)' = L!Serves(u)
  BY DEF L!Serves, L!Listed
<1>2. \A g : (L!TrueDraft(g)' <=> L!TrueDraft(g)) /\ \A k : L!Carries(g, k)' <=> L!Carries(g, k)
  BY DEF L!TrueDraft, L!Carries
<1>q. QED BY <1>1, <1>2 DEF L!RunInv

\* What becomes of the files of a run, when one of them becomes another.
LEMMA RelockBecomes ==
  ASSUME L!IInv, run # None, NEW f \in run.files, NEW h,
         run' = [run EXCEPT !.files = (@ \ {f}) \cup {h}],
         UNCHANGED <<served, partial>>, L!TrueDraft(h), h.remote = f.remote,
         run.upgrade /\ ~L!Pinned(h.remote) /\ h.sha # None => h.sha \in run.window[h.remote.url],
         \A g : L!Carries(f, g) => L!Carries(h, g)
  PROVE  L!RunInv'
<1>1. /\ DOMAIN run' = {"machine", "upgrade", "entry", "previous", "resolved", "files", "window"}
      /\ run'.machine = run.machine /\ run'.upgrade = run.upgrade /\ run'.entry = run.entry
      /\ run'.resolved = run.resolved /\ run'.window = run.window
      /\ run'.files = (run.files \ {f}) \cup {h}
  BY DEF L!IInv, L!RunInv
<1>2. \A g : (L!TrueDraft(g)' <=> L!TrueDraft(g)) /\ \A k : L!Carries(g, k)' <=> L!Carries(g, k)
  BY <1>1 DEF L!TrueDraft, L!Carries
<1>3. \A u : L!Serves(u)' = L!Serves(u)
  BY DEF L!Serves, L!Listed
<1>4. /\ run.machine \in Machines /\ run.upgrade \in BOOLEAN /\ run.resolved \in L!Places
      /\ \A g \in run.files : L!TrueDraft(g) /\ g.remote.url \in DOMAIN run.window
      /\ \A g, k \in run.files : g.remote.url = k.remote.url => g = k
      /\ \A u \in DOMAIN run.window : L!Serves(u) \subseteq run.window[u]
      /\ run.upgrade =>
           \A g \in run.files :
               ~L!Pinned(g.remote) /\ g.sha # None => g.sha \in run.window[g.remote.url]
      /\ ~run.upgrade /\ partial # None =>
           /\ partial.ref = run.entry.ref => run.resolved = partial.resolved
           /\ \A g \in run.files, k \in partial.files : L!Carries(g, k)
  BY DEF L!IInv, L!RunInv
<1>5. run'.machine \in Machines /\ run'.upgrade \in BOOLEAN /\ run'.resolved \in L!Places
  BY <1>1, <1>4
<1>6. \A g \in run'.files : L!TrueDraft(g)' /\ g.remote.url \in DOMAIN run'.window
  BY <1>1, <1>2, <1>4
<1>7. \A g, k \in run'.files : g.remote.url = k.remote.url => g = k
  BY <1>1, <1>4
<1>8. \A u \in DOMAIN run'.window : L!Serves(u)' \subseteq run'.window[u]
  BY <1>1, <1>3, <1>4
<1>9. run'.upgrade =>
        \A g \in run'.files :
            ~L!Pinned(g.remote) /\ g.sha # None => g.sha \in run'.window[g.remote.url]
  BY <1>1, <1>4
<1>10. ~run'.upgrade /\ partial' # None =>
         /\ partial'.ref = run'.entry.ref => run'.resolved = partial'.resolved
         /\ \A g \in run'.files, k \in partial'.files : L!Carries(g, k)'
  BY <1>1, <1>2, <1>4
<1>q. QED BY <1>1, <1>5, <1>6, <1>7, <1>8, <1>9, <1>10 DEF L!RunInv

\* A download is of bytes its link serves, that are what was stated.
LEMMA RelockDownload ==
  ASSUME L!RelockAssumption, L!IInv, run # None, NEW f \in run.files, L!Download(f)
  PROVE  L!IInv'
<1>1. PICK b \in L!Serves(f.remote.url) \ {None} :
        /\ IF L!Learns(f)
           THEN /\ f.remote.sha \in {None, b} /\ f.remote.md5 \in {None, ContentMd5[b]}
                /\ \E p : L!Becomes(f, [f EXCEPT !.sha = b, !.path = p])
           ELSE UNCHANGED run
        /\ stated' = IF L!Learns(f) /\ f.remote.sha = None /\ f.remote.md5 # None
                     THEN [stated EXCEPT ![run.machine] =
                             @ \cup {[url |-> f.remote.url, md5 |-> f.remote.md5, bytes |-> b]}]
                     ELSE stated
  BY DEF L!Download
<1>2. UNCHANGED <<served, urls, partial>>
  BY DEF L!Download
<1>3. b \in L!Bytes /\ b # None
  BY ServesBytes DEF L!IInv
<1>4. /\ run.machine \in Machines /\ L!TrueDraft(f) /\ f.remote.url \in DOMAIN run.window
      /\ L!Serves(f.remote.url) \subseteq run.window[f.remote.url]
  BY DEF L!IInv, L!RunInv
<1>5. L!RunInv'
  <2>1. CASE L!Learns(f)
    <3>1. PICK p : run' = [run EXCEPT !.files = (@ \ {f}) \cup {[f EXCEPT !.sha = b, !.path = p]}]
      BY <1>1, <2>1 DEF L!Becomes
    <3> DEFINE h == [f EXCEPT !.sha = b, !.path = p]
    <3>2. DOMAIN f = {"remote", "path", "sha", "tree"} /\ f.sha = None /\ f.tree = None
      BY <1>4, <2>1 DEF L!TrueDraft, L!Learns
    <3>3. /\ DOMAIN h = {"remote", "path", "sha", "tree"}
          /\ h.remote = f.remote /\ h.sha = b /\ h.tree = None
      BY <3>2
    <3>4. run' = [run EXCEPT !.files = (@ \ {f}) \cup {h}]
      BY <3>1
    <3> HIDE DEF h
    <3>5. L!TrueDraft(h)
      BY <1>1, <1>3, <1>4, <2>1, <3>3 DEF L!TrueDraft
    <3>6. h.sha \in run.window[h.remote.url]
      BY <1>4, <3>3
    <3>7. ASSUME NEW g, L!Carries(f, g) PROVE L!Carries(h, g)
      <4>1. g \notin L!Carried(f.remote, partial)
        <5>1. SUFFICES ASSUME g \in L!Carried(f.remote, partial) PROVE FALSE
          OBVIOUS
        <5>2. f.sha = g.sha
          BY <3>7, <5>1 DEF L!Carries
        <5>3. g \in partial.files /\ partial # None
          BY <5>1, CarriedOnce DEF L!IInv
        <5>4. g.sha \in L!Bytes
          BY <5>3 DEF L!IInv, L!LockInv, L!TruePin
        <5>q. QED BY <3>2, <5>2, <5>4 DEF L!Bytes
      <4>q. QED BY <3>3, <4>1 DEF L!Carries
    <3>q. QED BY <1>2, <3>3, <3>4, <3>5, <3>6, <3>7, RelockBecomes
  <2>2. CASE ~L!Learns(f)
    <3>1. UNCHANGED <<run, served, partial>>
      BY <1>1, <1>2, <2>2
    <3>q. QED BY <3>1, RelockStays DEF L!IInv
  <2>q. QED BY <2>1, <2>2
<1>6. L!RememberedInv'
  <2>1. CASE L!Learns(f) /\ f.remote.sha = None /\ f.remote.md5 # None
    <3>1. f.remote.md5 = ContentMd5[b]
      BY <1>1, <2>1
    <3> DEFINE s == [url |-> f.remote.url, md5 |-> f.remote.md5, bytes |-> b]
    <3>2. s.bytes = b /\ s.md5 = ContentMd5[b]
      BY <3>1
    <3>3. stated' = [stated EXCEPT ![run.machine] = @ \cup {s}]
      BY <1>1, <2>1
    <3> HIDE DEF s
    <3>q. QED BY <1>3, <1>4, <3>2, <3>3 DEF L!IInv, L!RememberedInv
  <2>2. CASE ~(L!Learns(f) /\ f.remote.sha = None /\ f.remote.md5 # None)
    BY <1>1, <2>2 DEF L!IInv, L!RememberedInv
  <2>q. QED BY <2>1, <2>2
<1>q. QED BY <1>2, <1>5, <1>6 DEF L!IInv, L!LockIsTrue, L!LockInv, L!TruePin

\* An archive is unpacked once its bytes are known, and was no carried pin with a tree.
LEMMA RelockUnpack ==
  ASSUME L!RelockAssumption, L!IInv, run # None, NEW f \in run.files, L!Unpack(f)
  PROVE  L!IInv'
<1>1. /\ f.sha # None /\ L!Undone(f)
      /\ run' = [run EXCEPT !.files = (@ \ {f}) \cup {[f EXCEPT !.tree = Tree[<<run.machine, f.sha>>]]}]
      /\ UNCHANGED <<served, urls, partial, objects, stated>>
  BY DEF L!Unpack, L!Downloaded, L!Learns, L!Becomes
<1>2. /\ run.machine \in Machines /\ L!TrueDraft(f)
      /\ run.upgrade => (~L!Pinned(f.remote) /\ f.sha # None => f.sha \in run.window[f.remote.url])
  BY DEF L!IInv, L!RunInv
<1> DEFINE h == [f EXCEPT !.tree = Tree[<<run.machine, f.sha>>]]
<1>3. DOMAIN f = {"remote", "path", "sha", "tree"}
  BY <1>2 DEF L!TrueDraft
<1>4. /\ DOMAIN h = {"remote", "path", "sha", "tree"} /\ h.remote = f.remote /\ h.sha = f.sha
      /\ h.path = f.path /\ h.tree = Tree[<<run.machine, f.sha>>]
  BY <1>3
<1>5. run' = [run EXCEPT !.files = (@ \ {f}) \cup {h}]
  BY <1>1
<1> HIDE DEF h
<1>6. L!TrueDraft(h)
  BY <1>1, <1>2, <1>4 DEF L!TrueDraft, L!Undone
<1>7. \A g : L!Carries(f, g) => L!Carries(h, g)
  BY <1>1, <1>4 DEF L!Carries, L!Undone
<1>8. L!RunInv'
  BY <1>1, <1>2, <1>4, <1>5, <1>6, <1>7, RelockBecomes
<1>q. QED BY <1>1, <1>8 DEF L!IInv, L!LockIsTrue, L!LockInv, L!TruePin, L!RememberedInv

\* What a run writes is what it learned of each of its files.
LEMMA RelockWrites ==
  ASSUME L!Write
  PROVE  /\ run' = None /\ UNCHANGED <<served, urls, stated>> /\ ~L!TwoOnOnePath
         /\ partial'.ref = run.entry.ref /\ partial'.spec = run.entry /\ partial'.resolved = run.resolved
         /\ \A g \in partial'.files : \E d \in run.files :
               /\ d.path = g.path /\ d.sha = g.sha /\ d.remote.md5 = g.md5
               /\ d.remote.url = g.url /\ d.tree = g.tree /\ d.sha # None /\ ~L!Undone(d)
<1>1. partial' = L!Settled(L!Locked)
  BY DEF L!Write
<1>2. /\ partial'.ref = run.entry.ref /\ partial'.spec = run.entry /\ partial'.resolved = run.resolved
      /\ partial'.files = {[path |-> d.path, sha |-> d.sha, md5 |-> d.remote.md5, url |-> d.remote.url,
                         tree |-> d.tree] : d \in run.files}
  BY <1>1 DEF L!Settled, L!Locked, L!SpecOf
<1>3. ASSUME NEW g \in partial'.files
      PROVE  \E d \in run.files :
               /\ d.path = g.path /\ d.sha = g.sha /\ d.remote.md5 = g.md5
               /\ d.remote.url = g.url /\ d.tree = g.tree /\ d.sha # None /\ ~L!Undone(d)
  <2>1. PICK d \in run.files :
           g = [path |-> d.path, sha |-> d.sha, md5 |-> d.remote.md5, url |-> d.remote.url,
                tree |-> d.tree]
    BY <1>2
  <2>2. d.sha # None /\ ~L!Undone(d)
    BY DEF L!Write, L!Downloaded, L!Learns
  <2>q. QED BY <2>1, <2>2
<1>q. QED BY <1>2, <1>3 DEF L!Write, L!cache

\* A lock is written of files whose bytes and trees are known.
LEMMA RelockWrite ==
  ASSUME L!RelockAssumption, L!IInv, run # None, L!Write
  PROVE  L!IInv'
<1>1. /\ run' = None /\ UNCHANGED <<served, urls, stated>>
      /\ partial'.spec = run.entry /\ partial'.resolved = run.resolved
  BY RelockWrites
<1>2. ASSUME NEW g \in partial'.files
      PROVE  \E d \in run.files :
               /\ d.path = g.path /\ d.sha = g.sha /\ d.remote.md5 = g.md5
               /\ d.remote.url = g.url /\ d.tree = g.tree /\ d.sha # None /\ ~L!Undone(d)
               /\ L!TrueDraft(d)
  BY <1>2, RelockWrites DEF L!IInv, L!RunInv
<1>3. ASSUME NEW f \in partial'.files, NEW g \in partial'.files, f.url = g.url \/ f.path = g.path
      PROVE  f = g
  <2>1. partial'.files = {[path |-> d.path, sha |-> d.sha, md5 |-> d.remote.md5, url |-> d.remote.url,
                        tree |-> d.tree] : d \in run.files}
    BY DEF L!Write, L!Settled, L!Locked
  <2>2. PICK d \in run.files :
           f = [path |-> d.path, sha |-> d.sha, md5 |-> d.remote.md5, url |-> d.remote.url,
                tree |-> d.tree]
    BY <2>1
  <2>3. PICK e \in run.files :
           g = [path |-> e.path, sha |-> e.sha, md5 |-> e.remote.md5, url |-> e.remote.url,
                tree |-> e.tree]
    BY <2>1
  <2>4. d.remote.url = e.remote.url \/ d.path = e.path
    BY <1>3, <2>2, <2>3
  <2>5. d = e
    BY <2>4, RelockWrites DEF L!TwoOnOnePath, L!IInv, L!RunInv
  <2>q. QED BY <2>2, <2>3, <2>5
<1>4. ASSUME NEW g \in partial'.files
      PROVE  /\ g.sha \in L!Bytes /\ g.md5 \in {None, ContentMd5[g.sha]}
             /\ g.tree \in {Tree[<<m, g.sha>>] : m \in Machines} \cup {None}
             /\ g.tree # None <=> /\ L!Unpacks(g.path, partial'.spec)
                                  /\ {Tree[<<m, g.sha>>] : m \in Machines} \ {None} # {}
  <2>1. PICK d \in run.files :
           /\ d.path = g.path /\ d.sha = g.sha /\ d.remote.md5 = g.md5
           /\ d.tree = g.tree /\ d.sha # None /\ ~L!Undone(d) /\ L!TrueDraft(d)
    BY <1>2
  <2>2. g.sha \in L!Bytes /\ g.md5 \in {None, ContentMd5[g.sha]}
    BY <2>1 DEF L!TrueDraft
  <2>3. g.tree # None => /\ L!Unpacks(g.path, run.entry)
                         /\ g.tree \in {Tree[<<m, g.sha>>] : m \in Machines}
    BY <2>1 DEF L!TrueDraft
  <2>4. ASSUME L!Unpacks(g.path, run.entry), NEW m \in Machines, Tree[<<m, g.sha>>] # None
        PROVE  g.tree # None
    <3>1. run.machine \in Machines
      BY DEF L!IInv, L!RunInv
    <3>2. Tree[<<run.machine, g.sha>>] # None
      BY <2>2, <2>4, <3>1 DEF L!RelockAssumption
    <3>q. QED BY <2>1, <2>4, <3>2 DEF L!Undone
  <2>q. QED BY <1>1, <2>2, <2>3, <2>4
<1>5. L!LockIsTrue'
  BY <1>3, <1>4 DEF L!LockIsTrue
<1>6. L!LockInv'
  BY <1>1, <1>3, <1>4 DEF L!IInv, L!RunInv, L!LockInv, L!TruePin
<1>q. QED BY <1>1, <1>5, <1>6 DEF L!IInv, L!RememberedInv, L!RunInv

\* A version a source publishes is in the window of every link at work.
LEMMA RelockPublish ==
  ASSUME L!RelockAssumption, L!IInv, NEW ref \in L!Refs, L!Publish(ref)
  PROVE  L!IInv'
<1>1. /\ served' = [served EXCEPT ![ref] = 2] /\ UNCHANGED <<urls, partial, objects, stated, owner>>
      /\ run' = IF run = None THEN None
                ELSE [run EXCEPT !.window = [u \in DOMAIN @ |-> @[u] \cup
                        {i.bytes : i \in {j \in Content[<<ref, 2>>] : j.url = u}}]]
  BY DEF L!Publish, L!cache
<1>2. served' \in [L!Refs -> 1 .. 2] /\ served \in [L!Refs -> 1 .. 2]
  BY <1>1 DEF L!IInv
<1>3. ASSUME NEW u, NEW b \in L!Serves(u)'
      PROVE  b \in L!Serves(u) \/ \E i \in Content[<<ref, 2>>] : i.url = u /\ i.bytes = b
  <2>1. PICK place \in L!Refs \X (1 .. 2) : \E i \in L!Listed(place)' : i.url = u /\ i.bytes = b
    BY DEF L!Serves
  <2>2. PICK i \in L!Listed(place)' : i.url = u /\ i.bytes = b
    BY <2>1
  <2>3. place[1] \in L!Refs /\ place[2] \in 1 .. 2
    OBVIOUS
  <2>4. CASE place[1] \in Raw /\ place[1] = ref
    <3>1. L!Listed(place)' = Content[<<ref, 2>>]
      BY <1>1, <1>2, <2>3, <2>4 DEF L!Listed
    <3>q. QED BY <2>2, <3>1
  <2>5. CASE ~(place[1] \in Raw /\ place[1] = ref)
    <3>1. L!Listed(place)' = L!Listed(place)
      BY <1>1, <1>2, <2>3, <2>5 DEF L!Listed
    <3>q. QED BY <2>2, <3>1 DEF L!Serves
  <2>q. QED BY <2>4, <2>5
<1>4. L!RunInv'
  <2>1. CASE run = None
    BY <1>1, <2>1 DEF L!RunInv
  <2>2. CASE run # None
    <3>1. /\ DOMAIN run' = {"machine", "upgrade", "entry", "previous", "resolved", "files", "window"}
          /\ run'.machine = run.machine /\ run'.upgrade = run.upgrade /\ run'.entry = run.entry
          /\ run'.resolved = run.resolved /\ run'.files = run.files
          /\ run'.window = [u \in DOMAIN run.window |-> run.window[u] \cup
                               {i.bytes : i \in {j \in Content[<<ref, 2>>] : j.url = u}}]
      BY <1>1, <2>2 DEF L!IInv, L!RunInv
    <3>2. \A u \in DOMAIN run'.window : u \in DOMAIN run.window /\ run.window[u] \subseteq run'.window[u]
      BY <3>1
    <3>3. \A u \in DOMAIN run'.window : L!Serves(u)' \subseteq run'.window[u]
      <4>1. SUFFICES ASSUME NEW u \in DOMAIN run'.window, NEW b \in L!Serves(u)'
                     PROVE  b \in run'.window[u]
        OBVIOUS
      <4>2. CASE b \in L!Serves(u)
        BY <2>2, <3>2, <4>2 DEF L!IInv, L!RunInv
      <4>3. CASE \E i \in Content[<<ref, 2>>] : i.url = u /\ i.bytes = b
        BY <3>1, <4>3
      <4>q. QED BY <1>3, <4>2, <4>3
    <3>4. \A g : (L!TrueDraft(g)' <=> L!TrueDraft(g)) /\ \A k : L!Carries(g, k)' <=> L!Carries(g, k)
      BY <1>1, <3>1 DEF L!TrueDraft, L!Carries
    <3>5. \A f \in run.files : f.remote.url \in DOMAIN run'.window
      BY <2>2, <3>1 DEF L!IInv, L!RunInv
    <3>6. run.upgrade =>
            \A f \in run.files :
                ~L!Pinned(f.remote) /\ f.sha # None => f.sha \in run'.window[f.remote.url]
      BY <2>2, <3>2, <3>5 DEF L!IInv, L!RunInv
    <3>q. QED BY <1>1, <2>2, <3>1, <3>3, <3>4, <3>5, <3>6 DEF L!IInv, L!RunInv
  <2>q. QED BY <2>1, <2>2
<1>q. QED BY <1>1, <1>2, <1>4 DEF L!IInv, L!LockIsTrue, L!LockInv, L!RememberedInv, L!TruePin

\* Every step keeps IInv.
LEMMA RelockNext == ASSUME L!RelockAssumption PROVE L!IInv /\ [L!Next]_(L!vars) => L!IInv'
<1> SUFFICES ASSUME L!IInv, [L!Next]_(L!vars) PROVE L!IInv'
  OBVIOUS
<1>1. ASSUME NEW m \in Machines, NEW upgrade \in BOOLEAN, L!Begin(m, upgrade) PROVE L!IInv'
  BY <1>1, RelockBegin
<1>2. ASSUME NEW m \in Machines, L!Clear(m) PROVE L!IInv'
  BY <1>2 DEF L!Clear, L!IInv, L!LockIsTrue, L!LockInv, L!RememberedInv, L!TruePin, L!RunInv
<1>3. ASSUME run # None, NEW f \in run.files, L!Download(f) PROVE L!IInv'
  BY <1>3, RelockDownload
<1>4. ASSUME run # None, NEW f \in run.files, L!Unpack(f) PROVE L!IInv'
  BY <1>4, RelockUnpack
<1>5. CASE run # None /\ L!Write
  BY <1>5, RelockWrite
<1>6. CASE run # None /\ L!Fail
  BY <1>6 DEF L!Fail, L!cache, L!IInv, L!LockIsTrue, L!LockInv, L!RememberedInv, L!TruePin, L!RunInv
<1>7. CASE L!Edit
  <2>1. urls'.ref \in L!Refs /\ UNCHANGED <<served, partial, stated, run>>
    BY <1>7 DEF L!Edit, L!Entries, L!cache
  <2>2. L!RunInv'
    BY <2>1, RelockStays DEF L!IInv
  <2>q. QED BY <2>1, <2>2 DEF L!IInv, L!LockIsTrue, L!LockInv, L!RememberedInv, L!TruePin
<1>8. ASSUME NEW ref \in L!Refs, L!Publish(ref) PROVE L!IInv'
  BY <1>8, RelockPublish
<1>9. CASE UNCHANGED L!vars
  <2>1. UNCHANGED <<served, urls, partial, stated, run>>
    BY <1>9 DEF L!vars, L!cache
  <2>2. L!RunInv'
    BY <2>1, RelockStays DEF L!IInv
  <2>q. QED BY <2>1, <2>2 DEF L!IInv, L!LockIsTrue, L!LockInv, L!RememberedInv, L!TruePin
<1> QED
  BY <1>1, <1>2, <1>3, <1>4, <1>5, <1>6, <1>7, <1>8, <1>9 DEF L!Next

-----------------------------------------------------------------------------
\* Only writing a lock changes it.
LEMMA OnlyWrites ==
  ASSUME [L!Next]_(L!vars), partial' # partial
  PROVE  run # None /\ L!Write
  BY DEF L!Next, L!vars, L!cache, L!Begin, L!Clear, L!Download, L!Unpack, L!Fail, L!Edit, L!Publish

\* A pin that the source does not contradict was carried, or has the bytes its MD5 states.
LEMMA PinsStep == ASSUME L!RelockAssumption, L!IInv, [L!Next]_(L!vars) PROVE L!PinsStay
<1> SUFFICES ASSUME partial' # partial, NEW g \in partial'.files, NEW d \in run.files, d.remote.url = g.url
             PROVE  /\ run.upgrade /\ ~L!Pinned(d.remote) => g.sha \in run.window[g.url]
                    /\ ~run.upgrade /\ partial # None /\ partial.ref = partial'.ref =>
                        /\ partial'.resolved = partial.resolved
                        /\ \A f \in partial.files : f.url = g.url /\ L!Agrees(d.remote, f) =>
                             /\ g.sha = f.sha
                             /\ f.path = g.path /\ f.tree # None /\ g.tree # None
                                   /\ ~L!FirstMd5(d.remote, f) => f.tree = g.tree
  BY DEF L!PinsStay
<1>1. run # None /\ L!Write
  BY OnlyWrites
<1>2. partial'.ref = run.entry.ref /\ partial'.resolved = run.resolved
  BY <1>1, RelockWrites
<1>3. d.path = g.path /\ d.sha = g.sha /\ d.tree = g.tree /\ d.sha # None
  <2>1. PICK e \in run.files :
           /\ e.path = g.path /\ e.sha = g.sha /\ e.remote.url = g.url /\ e.tree = g.tree
           /\ e.sha # None
    BY <1>1, RelockWrites
  <2>2. e = d
    BY <1>1, <2>1 DEF L!IInv, L!RunInv
  <2>q. QED BY <2>1, <2>2
<1>4. L!TrueDraft(d)
  BY <1>1 DEF L!IInv, L!RunInv
<1>5. run.upgrade /\ ~L!Pinned(d.remote) => g.sha \in run.window[g.url]
  BY <1>1, <1>3 DEF L!IInv, L!RunInv
<1>6. ~run.upgrade /\ partial # None /\ partial.ref = partial'.ref => partial'.resolved = partial.resolved
  BY <1>1, <1>2 DEF L!IInv, L!RunInv
<1>7. ASSUME ~run.upgrade, partial # None, NEW f \in partial.files, f.url = g.url, L!Agrees(d.remote, f)
      PROVE  /\ g.sha = f.sha
             /\ f.tree # None /\ g.tree # None /\ ~L!FirstMd5(d.remote, f) => f.tree = g.tree
  <2>1. CASE f \in L!Carried(d.remote, partial)
    <3>1. L!Carries(d, f)
      BY <1>1, <1>7 DEF L!IInv, L!RunInv
    <3>q. QED BY <1>3, <2>1, <3>1 DEF L!Carries
  <2>2. CASE f \notin L!Carried(d.remote, partial)
    <3>1. /\ d.remote.md5 = ContentMd5[f.sha] /\ d.remote.md5 # None
          /\ ~(f.md5 = None /\ d.remote.sha # None) /\ d.remote.md5 # f.md5
      BY <1>7, <2>2 DEF L!Carried, L!Agrees
    <3>2. f.sha \in L!Bytes /\ f.md5 \in {None, ContentMd5[f.sha]}
      BY <1>7 DEF L!IInv, L!LockInv, L!TruePin
    <3>3. d.sha \in L!Bytes /\ ContentMd5[d.sha] = ContentMd5[f.sha]
      BY <1>3, <1>4, <3>1 DEF L!TrueDraft
    <3>4. d.sha = f.sha
      BY <3>2, <3>3 DEF L!RelockAssumption
    <3>q. QED BY <1>3, <3>1, <3>2, <3>4 DEF L!FirstMd5
  <2>q. QED BY <2>1, <2>2
<1>q. QED BY <1>5, <1>6, <1>7

-----------------------------------------------------------------------------
\* For any machines, references, listings and entries of data.toml, and any number of runs, new
\* versions, edits and lost caches: a relock leaves every pin in place that the source does not
\* contradict, an upgrade asks for what no checksum pins, and every pin can be placed and has the
\* tree its bytes unpack to.
THEOREM PinsAreTrue ==
  ASSUME L!RelockAssumption
  PROVE  L!Spec => PinsStayTrue
<1>1. L!Init => L!IInv
  BY RelockInit
<1>2. L!IInv /\ [L!Next]_(L!vars) => L!IInv'
  BY RelockNext
<1>3. L!IInv /\ L!IInv' /\ [L!Next]_(L!vars)
      => [component = "relock" => L!PinsStay /\ L!LockIsTrue']_relocking
  BY PinsStep DEF L!IInv, relocking
<1>q. QED BY <1>1, <1>2, <1>3, PTL DEF L!Spec, PinsStayTrue

-----------------------------------------------------------------------------
(***************************************************************************)
(* What `get` takes away and leaves (Get).  What a link puts in its folder *)
(* is flattened from what its files unpack to, so this needs induction:    *)
(* the first lemmas have it from the order of the numbers being well       *)
(* founded.                                                                *)
(***************************************************************************)

\* A set of numbers has a smallest.
LEMMA Smallest ==
  ASSUME NEW S \in SUBSET Nat, S # {}
  PROVE  \E i \in S : \A j \in S : i <= j
<1> DEFINE R == OpToRel(<, Nat)
<1>1. IsWellFoundedOn(R, Nat)
  BY NatLessThanWellFounded
<1>2. PICK i \in S : \A j \in S : ~(<<j, i>> \in R)
  <2> HIDE DEF R
  <2>q. QED BY <1>1, WFMin
<1>3. \A j \in S : i <= j
  <2>1. TAKE j \in S
  <2>2. <<j, i>> \in R <=> j < i
    BY DEF OpToRel
  <2>3. ~(j < i)
    BY <1>2, <2>2
  <2>q. QED BY <2>3
<1>q. QED BY <1>3

\* Induction, stated for a set: the numbers outside it would have a least one.
LEMMA CountingUp ==
  ASSUME NEW S, 0 \in S, \A n \in Nat : n \in S => n + 1 \in S
  PROVE  Nat \subseteq S
<1>1. SUFFICES ASSUME Nat \ S # {} PROVE FALSE
  OBVIOUS
<1>2. PICK i \in Nat \ S : \A j \in Nat \ S : i <= j
  BY <1>1, Smallest
<1>3. i - 1 \in Nat /\ (i - 1) + 1 = i
  BY <1>2
<1>4. i - 1 \in S
  BY <1>2, <1>3
<1>q. QED BY <1>2, <1>3, <1>4

\* A sequence of sequences is flattened to a sequence.
LEMMA FlattenIsSeq ==
  ASSUME NEW X, NEW ss \in Seq(Seq(X))
  PROVE  G!FlattenSeq(ss) \in Seq(X)
<1>0. Len(ss) \in Nat /\ DOMAIN ss = 1 .. Len(ss) /\ \A i \in 1 .. Len(ss) : ss[i] \in Seq(X)
  OBVIOUS
<1>1. CASE Len(ss) = 0
  <2>1. ss = <<>> /\ G!FlattenSeq(ss) = ss
    BY <1>0, <1>1 DEF G!FlattenSeq
  <2>2. <<>> \in Seq(X)
    OBVIOUS
  <2>q. QED BY <2>1, <2>2
<1>2. CASE Len(ss) # 0
  <2> DEFINE Up(f, n) == f = [i \in 1 .. n |-> IF i = 1 THEN ss[i] ELSE f[i - 1] \o ss[i]]
             S == {n \in Nat : \E f : Up(f, n)}
  <2>1. 0 \in S
    <3> DEFINE g == [i \in 1 .. 0 |-> 0]
    <3>1. Up(g, 0)
      OBVIOUS
    <3> HIDE DEF g
    <3>q. QED BY <3>1
  <2>2. ASSUME NEW n \in Nat, n \in S PROVE n + 1 \in S
    <3>1. PICK f : Up(f, n)
      BY <2>2
    <3>2. \A i \in 1 .. n : f[i] = IF i = 1 THEN ss[i] ELSE f[i - 1] \o ss[i]
      <4> DEFINE e == [i \in 1 .. n |-> IF i = 1 THEN ss[i] ELSE f[i - 1] \o ss[i]]
      <4>1. \A i \in 1 .. n : e[i] = IF i = 1 THEN ss[i] ELSE f[i - 1] \o ss[i]
        OBVIOUS
      <4>2. f = e
        BY <3>1
      <4> HIDE DEF e
      <4>q. QED BY <4>1, <4>2
    <3> DEFINE next == IF n = 0 THEN ss[1] ELSE f[n] \o ss[n + 1]
               g == [i \in 1 .. n + 1 |-> IF i = n + 1 THEN next ELSE f[i]]
    <3>3. \A i \in 1 .. n + 1 : g[i] = IF i = 1 THEN ss[i] ELSE g[i - 1] \o ss[i]
      <4> HIDE DEF next
      <4>1. TAKE i \in 1 .. n + 1
      <4>2. CASE i = n + 1 /\ n = 0
        BY <4>2 DEF next
      <4>3. CASE i = n + 1 /\ n # 0
        <5>1. g[i] = next /\ g[i - 1] = f[n] /\ i # 1
          BY <4>3
        <5>2. next = f[n] \o ss[n + 1]
          BY <4>3 DEF next
        <5>q. QED BY <4>3, <5>1, <5>2
      <4>4. CASE i # n + 1
        <5>1. i \in 1 .. n /\ g[i] = f[i] /\ (i # 1 => g[i - 1] = f[i - 1])
          BY <4>4
        <5>q. QED BY <3>2, <5>1
      <4>q. QED BY <4>2, <4>3, <4>4
    <3>4. g = [i \in 1 .. n + 1 |-> IF i = 1 THEN ss[i] ELSE g[i - 1] \o ss[i]]
      <4> DEFINE e == [i \in 1 .. n + 1 |-> IF i = 1 THEN ss[i] ELSE g[i - 1] \o ss[i]]
      <4>1. g = [i \in 1 .. n + 1 |-> g[i]] /\ e = [i \in 1 .. n + 1 |-> e[i]]
        OBVIOUS
      <4>2. \A i \in 1 .. n + 1 : e[i] = IF i = 1 THEN ss[i] ELSE g[i - 1] \o ss[i]
        <5> HIDE DEF g
        <5>q. QED OBVIOUS
      <4> HIDE DEF e, g
      <4>3. g = e
        BY <3>3, <4>1, <4>2
      <4>q. QED BY <4>3 DEF e
    <3>5. Up(g, n + 1)
      BY <3>4
    <3>6. n + 1 \in Nat
      OBVIOUS
    <3> HIDE DEF g, next, Up
    <3>q. QED BY <3>5, <3>6
  <2>3. \E f : Up(f, Len(ss))
    <3>1. Nat \subseteq S
      <4> HIDE DEF S
      <4>q. QED BY <2>1, <2>2, CountingUp
    <3>q. QED BY <1>0, <3>1
  <2> DEFINE h == CHOOSE f : Up(f, Len(ss))
  <2>4. Up(h, Len(ss))
    BY <2>3
  <2>5. G!FlattenSeq(ss) = h[Len(ss)]
    BY <1>2 DEF G!FlattenSeq
  <2>6. \A i \in 1 .. Len(ss) : h[i] = IF i = 1 THEN ss[i] ELSE h[i - 1] \o ss[i]
    <3> DEFINE e == [i \in 1 .. Len(ss) |-> IF i = 1 THEN ss[i] ELSE h[i - 1] \o ss[i]]
    <3>1. \A i \in 1 .. Len(ss) : e[i] = IF i = 1 THEN ss[i] ELSE h[i - 1] \o ss[i]
      <4> HIDE DEF h
      <4>q. QED OBVIOUS
    <3>2. h = e
      BY <2>4
    <3> HIDE DEF e, h
    <3>q. QED BY <3>1, <3>2
  <2> DEFINE T == {n \in Nat : n + 1 <= Len(ss) => h[n + 1] \in Seq(X)}
  <2> HIDE DEF h
  <2>7. 0 \in T
    BY <1>0, <1>2, <2>6
  <2>8. ASSUME NEW n \in Nat, n \in T PROVE n + 1 \in T
    <3>1. SUFFICES ASSUME n + 2 <= Len(ss) PROVE h[n + 2] \in Seq(X)
      OBVIOUS
    <3>2. h[n + 2] = h[n + 1] \o ss[n + 2]
      <4>1. n + 2 \in 1 .. Len(ss) /\ n + 2 # 1 /\ (n + 2) - 1 = n + 1
        BY <1>0, <3>1
      <4>q. QED BY <2>6, <4>1
    <3>3. h[n + 1] \in Seq(X) /\ ss[n + 2] \in Seq(X)
      BY <1>0, <2>8, <3>1
    <3>q. QED BY <3>2, <3>3, ConcatProperties
  <2>9. Nat \subseteq T
    <3> HIDE DEF T
    <3>q. QED BY <2>7, <2>8, CountingUp
  <2>a. Len(ss) - 1 \in Nat /\ (Len(ss) - 1) + 1 = Len(ss)
    BY <1>0, <1>2
  <2>b. h[Len(ss)] \in Seq(X)
    <3>1. \A n \in Nat : n + 1 <= Len(ss) => h[n + 1] \in Seq(X)
      BY <2>9
    <3>2. PICK k \in Nat : k + 1 = Len(ss)
      BY <2>a
    <3>3. k + 1 <= Len(ss)
      BY <1>0, <3>2
    <3>4. h[k + 1] \in Seq(X)
      BY <3>1, <3>3
    <3>q. QED BY <3>2, <3>4
  <2>q. QED BY <2>5, <2>b
<1>q. QED BY <1>0, <1>1, <1>2

\* A function on the first numbers is a sequence of the values it has.
LEMMA SameSeq ==
  ASSUME NEW n \in Nat, NEW f, f = [i \in 1 .. n |-> f[i]], NEW X, \A i \in 1 .. n : f[i] \in X
  PROVE  f \in Seq(X)
<1>1. f \in [1 .. n -> X]
  OBVIOUS
<1>q. QED BY <1>1, SeqDef

\* What a file puts in the folder is a list.
LEMMA LandsIsSeq ==
  ASSUME G!GetAssumption, NEW what, NEW alone, NEW unpacks \in BOOLEAN,
         unpacks => what.bytes \in DOMAIN Members,
         NEW X, G!Range(G!Lands(what, alone, unpacks)) \subseteq X
  PROVE  G!Lands(what, alone, unpacks) \in Seq(X)
<1> DEFINE lands == G!Lands(what, alone, unpacks)
<1>1. \E n \in Nat : DOMAIN lands = 1 .. n /\ lands = [i \in 1 .. n |-> lands[i]]
  <2>1. CASE ~unpacks
    BY <2>1 DEF G!Lands
  <2>2. CASE unpacks
    <3> DEFINE members == Members[what.bytes]
    <3>1. members \in Seq(G!MemberSet)
      BY <2>2 DEF G!GetAssumption
    <3>2. Len(members) \in Nat /\ DOMAIN members = 1 .. Len(members)
      BY <3>1
    <3> HIDE DEF members
    <3>3. DOMAIN lands = DOMAIN members /\ lands = [i \in DOMAIN members |-> lands[i]]
      BY <2>2 DEF G!Lands, members
    <3>q. QED BY <3>2, <3>3
  <2>q. QED BY <2>1, <2>2
<1> HIDE DEF lands
<1>2. PICK n \in Nat : DOMAIN lands = 1 .. n /\ lands = [i \in 1 .. n |-> lands[i]]
  BY <1>1
<1>3. \A i \in 1 .. n : lands[i] \in X
  BY <1>2 DEF G!Range, lands
<1>4. lands \in Seq(X)
  BY <1>2, <1>3, SameSeq
<1>q. QED BY <1>4 DEF lands

-----------------------------------------------------------------------------
\* A place is in the folder Taken knows it by.
LEMMA SpotOfKey == ASSUME NEW folder PROVE G!SpotKey(G!Spot(folder)) = G!Key(folder)
BY DEF G!SpotKey, G!Spot, G!Key

\* It holds at first.
LEMMA GetStarts == G!Init => G!IInv
BY DEF G!Init, G!IInv, G!RunInv, G!TargetsInv, G!RemovableInv, G!HandledInv, G!TakenInv, G!DoneStays,
   G!Filling, G!Idle

\* A run that ends leaves what it put where.
LEMMA GetEnds ==
  ASSUME G!IInv, G!Goes("idle", G!Idle), UNCHANGED <<disk, answered>>
  PROVE  G!IInv'
BY DEF G!Goes, G!Idle, G!IInv, G!RunInv, G!TargetsInv, G!RemovableInv, G!HandledInv, G!TakenInv,
   G!DoneStays, G!Filling

\* The links that follow start with what the run knows.
LEMMA GetGoesOn ==
  ASSUME G!IInv, step # "idle", NEW r, DOMAIN r = G!Fields, r.request = run.request, G!GoesOn(r),
         \A a \in answered' : a[1] \in DOMAIN disk' /\ disk'[a[1]] = a[2],
         \A a \in answered' : G!SpotKey(a[1][1]) \in r.taken
  PROVE  G!IInv'
<1> DEFINE left == run.left \ {G!NextLink(run.left)}
<1>1. G!DoneStays'
  BY DEF G!DoneStays
<1>2. CASE left = {}
  BY <1>1, <1>2 DEF G!GoesOn, G!Goes, G!Idle, G!IInv, G!RunInv, G!TargetsInv, G!RemovableInv,
     G!HandledInv, G!TakenInv,
                    G!Filling
<1>3. CASE left # {}
  <2>1. step' = "settle" /\ run' = [r EXCEPT !.left = left]
    BY <1>3 DEF G!GoesOn, G!Goes
  <2>2. run'.left = left /\ run'.request = run.request /\ run'.taken = r.taken /\ DOMAIN run' = G!Fields
    BY <2>1 DEF G!Fields
  <2>3. left \subseteq DOMAIN run.request.links /\ run.request \in Requests
    BY DEF G!IInv, G!RunInv
  <2> HIDE DEF left
  <2>4. G!RunInv'
    BY <1>3, <2>1, <2>2, <2>3 DEF G!RunInv
  <2>5. G!TargetsInv' /\ G!RemovableInv' /\ G!HandledInv'
    BY <2>1 DEF G!TargetsInv, G!RemovableInv, G!HandledInv, G!Filling
  <2>6. G!TakenInv'
    BY <2>1, <2>2 DEF G!TakenInv, G!Filling
  <2>q. QED BY <1>1, <2>4, <2>5, <2>6 DEF G!IInv
<1>q. QED BY <1>2, <1>3

\* A run begins with nothing taken and nothing answered.
LEMMA GetBegin == ASSUME G!IInv, G!Begin PROVE G!IInv'
<1>1. PICK request, left :
        /\ request \in Requests /\ left # {} /\ left \subseteq DOMAIN request.links
        /\ step' = "fetch"
        /\ run' = [request |-> request, left |-> left, got |-> <<>>, taken |-> {},
                   folder |-> None, targets |-> <<>>, at |-> 1, found |-> None,
                   orders |-> {}, archives |-> {}, dropped |-> {}]
  BY DEF G!Begin, G!Goes
<1>2. answered' = {}
  BY DEF G!Begin
<1>3. DOMAIN run' = G!Fields /\ run'.request = request /\ run'.left = left
  BY <1>1 DEF G!Fields
<1>4. G!RunInv'
  BY <1>1, <1>3 DEF G!RunInv
<1>q. QED BY <1>1, <1>2, <1>4 DEF G!IInv, G!TargetsInv, G!RemovableInv, G!HandledInv, G!TakenInv,
      G!DoneStays, G!Filling

\* What fails to arrive leaves the run.
LEMMA GetFetch == ASSUME G!IInv, G!Fetch PROVE G!IInv'
<1>1. PICK left, arrived :
        /\ left \in SUBSET run.left
        /\ IF left = {} THEN G!Goes("idle", G!Idle) ELSE G!Goes("settle", [run EXCEPT !.left = left,
              !.got = arrived])
  BY Zenon DEF G!Fetch
<1>2. UNCHANGED <<disk, answered, touched>> /\ step = "fetch"
  BY DEF G!Fetch, G!ghosts
<1>3. CASE left = {}
  BY <1>1, <1>2, <1>3, GetEnds
<1>4. CASE left # {}
  <2>1. step' = "settle" /\ run' = [run EXCEPT !.left = left, !.got = arrived]
    BY <1>1, <1>4 DEF G!Goes
  <2>2. /\ run'.left = left /\ run'.request = run.request /\ run'.taken = run.taken
        /\ DOMAIN run' = G!Fields
    BY <1>2, <2>1 DEF G!IInv, G!RunInv, G!Fields
  <2>3. left \subseteq run.left
    BY <1>1
  <2>4. G!RunInv'
    BY <1>2, <1>4, <2>1, <2>2, <2>3 DEF G!IInv, G!RunInv
  <2>5. G!TargetsInv' /\ G!RemovableInv' /\ G!HandledInv'
    BY <2>1 DEF G!TargetsInv, G!RemovableInv, G!HandledInv, G!Filling
  <2>6. G!TakenInv' /\ G!DoneStays'
    BY <1>2, <2>1, <2>2 DEF G!IInv, G!TakenInv, G!DoneStays, G!Filling
  <2>q. QED BY <2>4, <2>5, <2>6 DEF G!IInv
<1>q. QED BY <1>3, <1>4

\* A link is refused before it takes a folder.
LEMMA GetRefuse == ASSUME G!IInv, G!Refuse PROVE G!IInv'
<1>1. step = "settle" /\ G!GoesOn(run) /\ UNCHANGED <<disk, answered>>
  BY DEF G!Refuse, G!ghosts
<1>2. DOMAIN run = G!Fields
  BY <1>1 DEF G!IInv, G!RunInv
<1>3. \A a \in answered' : a[1] \in DOMAIN disk' /\ disk'[a[1]] = a[2]
  BY <1>1 DEF G!IInv, G!DoneStays
<1>4. \A a \in answered' : G!SpotKey(a[1][1]) \in run.taken
  BY <1>1 DEF G!IInv, G!TakenInv
<1>q. QED BY <1>1, <1>2, <1>3, <1>4, GetGoesOn

\* The files of the link at hand
LEMMA FilesOfLink ==
  ASSUME G!GetAssumption, G!IInv, step = "settle"
  PROVE  Len(G!Link.files) \in Nat /\ DOMAIN G!Link.files = 1 .. Len(G!Link.files)
<1>1. run.left # {} /\ run.left \subseteq DOMAIN run.request.links /\ run.request \in Requests
  BY DEF G!IInv, G!RunInv
<1>2. \E i \in run.left : \A j \in run.left : i <= j
  BY <1>1, Smallest DEF G!GetAssumption
<1>3. G!NextLink(run.left) \in run.left
  BY <1>2 DEF G!NextLink
<1>4. G!Link.files \in Seq(G!Addresses)
  BY <1>1, <1>3 DEF G!GetAssumption, G!Link
<1>q. QED BY <1>4

\* What a link puts in its folder is a list, with no path twice if it is checked.
LEMMA TargetsAreListed ==
  ASSUME G!GetAssumption, G!IInv, step = "settle",
         NEW targets, targets = G!FlattenSeq([i \in DOMAIN G!Link.files |->
                                   G!Lands(G!File(i), Len(G!Link.files) = 1, G!Unpacks(G!File(i)))])
  PROVE  Len(targets) \in Nat /\ DOMAIN targets = 1 .. Len(targets)
<1> DEFINE ss == [i \in DOMAIN G!Link.files |-> G!Lands(G!File(i), Len(G!Link.files) = 1,
      G!Unpacks(G!File(i)))]
           X == UNION {G!Range(ss[i]) : i \in DOMAIN G!Link.files}
<1>1. Len(G!Link.files) \in Nat /\ DOMAIN G!Link.files = 1 .. Len(G!Link.files)
  BY FilesOfLink
<1>2. \A i \in DOMAIN G!Link.files : ss[i] \in Seq(X)
  <2>1. TAKE i \in DOMAIN G!Link.files
  <2>2. ss[i] = G!Lands(G!File(i), Len(G!Link.files) = 1, G!Unpacks(G!File(i)))
        /\ G!Range(ss[i]) \subseteq X
    OBVIOUS
  <2> DEFINE what == G!File(i)
             alone == Len(G!Link.files) = 1
             unpacks == G!Unpacks(G!File(i))
  <2>3. unpacks \in BOOLEAN /\ (unpacks => what.bytes \in DOMAIN Members)
    BY DEF G!Unpacks
  <2>4. ss[i] = G!Lands(what, alone, unpacks) /\ G!Range(G!Lands(what, alone, unpacks)) \subseteq X
    BY <2>2
  <2> HIDE DEF what, alone, unpacks, X, ss
  <2>q. QED BY <2>3, <2>4, LandsIsSeq
<1>3. ss \in Seq(Seq(X))
  <2>1. ss = [i \in 1 .. Len(G!Link.files) |-> ss[i]]
    BY <1>1
  <2> HIDE DEF ss, X
  <2>q. QED BY <1>1, <1>2, <2>1, SameSeq
<1>4. G!FlattenSeq(ss) \in Seq(X)
  <2> HIDE DEF ss, X
  <2>q. QED BY <1>3, FlattenIsSeq
<1>5. targets \in Seq(X)
  BY <1>4
<1>q. QED BY <1>5

\* A link begins to fill a folder nobody of the run took before.
LEMMA GetSettle == ASSUME G!GetAssumption, G!IInv, G!Settle PROVE G!IInv'
<1> DEFINE taken == [run EXCEPT !.taken = G!Taking(run.taken, G!Folder)]
           trees == {f.bytes : f \in {g \in {G!File(i) : i \in DOMAIN G!Link.files} : G!Unpacks(g)}}
           targets == G!FlattenSeq([i \in DOMAIN G!Link.files |->
                                     G!Lands(G!File(i), Len(G!Link.files) = 1, G!Unpacks(G!File(i)))])
           paths == [i \in DOMAIN targets |-> targets[i].path]
<1>1. step = "settle" /\ G!Key(G!Folder) \notin run.taken /\ UNCHANGED <<disk, answered, touched>>
  BY DEF G!Settle, G!Refused, G!ghosts
<1>2. \/ G!GoesOn(taken)
      \/ /\ G!L!check(paths)
         /\ G!Goes(IF targets = <<>> THEN "put" ELSE "clear",
                 [taken EXCEPT !.folder = G!Folder, !.targets = targets, !.archives = trees,
                               !.at = 1, !.orders = {}])
  BY DEF G!Settle
<1>3. Len(targets) \in Nat /\ DOMAIN targets = 1 .. Len(targets)
  BY <1>1, TargetsAreListed
<1> HIDE DEF targets, trees
<1>4. /\ DOMAIN run = G!Fields /\ run.request \in Requests
      /\ run.left # {} /\ run.left \subseteq DOMAIN run.request.links
  BY <1>1 DEF G!IInv, G!RunInv
<1>5. /\ taken.taken = run.taken \cup {G!Key(G!Folder)} /\ taken.request = run.request
      /\ taken.left = run.left /\ DOMAIN taken = G!Fields
  BY <1>4 DEF G!Taking, G!Fields
<1> HIDE DEF taken
<1>6. /\ \A a \in answered' : a[1] \in DOMAIN disk' /\ disk'[a[1]] = a[2]
      /\ \A a \in answered' : G!SpotKey(a[1][1]) \in run.taken
  BY <1>1 DEF G!IInv, G!DoneStays, G!TakenInv
<1>7. CASE G!GoesOn(taken)
  <2>1. \A a \in answered' : G!SpotKey(a[1][1]) \in taken.taken
    BY <1>5, <1>6
  <2>q. QED BY <1>1, <1>5, <1>6, <1>7, <2>1, GetGoesOn
<1>8. CASE G!L!check(paths) /\ G!Goes(IF targets = <<>> THEN "put" ELSE "clear",
                                   [taken EXCEPT !.folder = G!Folder, !.targets = targets,
                                                 !.archives = trees, !.at = 1, !.orders = {}])
  <2>1. /\ step' = IF targets = <<>> THEN "put" ELSE "clear"
        /\ run' = [taken EXCEPT !.folder = G!Folder, !.targets = targets, !.archives = trees,
                                !.at = 1, !.orders = {}]
    BY <1>8 DEF G!Goes
  <2>2. /\ run'.folder = G!Folder /\ run'.targets = targets /\ run'.at = 1 /\ run'.orders = {}
        /\ run'.taken = taken.taken /\ run'.request = run.request /\ run'.left = run.left
        /\ DOMAIN run' = G!Fields
    BY <1>5, <2>1 DEF G!Fields
  <2>3. G!RunInv'
    BY <1>4, <2>1, <2>2 DEF G!RunInv, G!Filling
  <2>4. \A i, j \in DOMAIN targets : targets[i].path = targets[j].path => i = j
    <3>1. TAKE i, j \in DOMAIN targets
    <3>2. paths[i] = targets[i].path /\ paths[j] = targets[j].path /\ DOMAIN paths = DOMAIN targets
      OBVIOUS
    <3> HIDE DEF paths
    <3>3. G!L!key(paths[i]) = G!L!key(paths[j]) => i = j
      BY <1>8, <3>2 DEF G!L!check
    <3>q. QED BY <3>2, <3>3
  <2>5. targets # <<>> => 1 \in DOMAIN targets
    BY <1>3
  <2>6. G!TargetsInv'
    BY <1>3, <2>1, <2>2, <2>4, <2>5 DEF G!TargetsInv, G!Filling
  <2>7. G!RemovableInv'
    BY <2>1 DEF G!RemovableInv
  <2>8. G!HandledInv'
    <3>1. G!LookedAt' = {}
      <4>1. CASE targets = <<>>
        BY <2>1, <2>2, <4>1 DEF G!LookedAt
      <4>2. CASE targets # <<>>
        BY <2>1, <2>2, <4>2 DEF G!LookedAt
      <4>q. QED BY <4>1, <4>2
    <3>q. QED BY <3>1 DEF G!HandledInv
  <2>9. G!TakenInv'
    BY <1>1, <1>5, <1>6, <2>1, <2>2 DEF G!TakenInv
  <2>q. QED BY <1>6, <2>3, <2>6, <2>7, <2>8, <2>9 DEF G!IInv, G!DoneStays
<1>q. QED BY <1>2, <1>7, <1>8

\* What others do while a run is where it is: they leave alone what they do not touch.
LEMMA GetWaits ==
  ASSUME G!IInv, step' = step,
         run' = run \/ (step # "idle" /\ \E z : run' = [run EXCEPT !.dropped = @ \cup {z}]),
         answered' \subseteq answered, touched \subseteq touched',
         \A a \in answered' : a[1] \in DOMAIN disk' /\ disk'[a[1]] = a[2],
         \A p : p \notin touched' =>
            (p \in DOMAIN disk' <=> p \in DOMAIN disk) /\ (p \in DOMAIN disk => disk'[p] = disk[p]),
         step = "remove" => objects \cup run.dropped \subseteq objects' \cup run'.dropped
  PROVE  G!IInv'
<1>1. step # "idle" =>
        /\ run'.request = run.request /\ run'.left = run.left /\ run'.taken = run.taken
        /\ run'.folder = run.folder /\ run'.targets = run.targets /\ run'.at = run.at
        /\ run'.orders = run.orders /\ DOMAIN run' = DOMAIN run
  <2>1. CASE run' = run
    BY <2>1
  <2>2. CASE step # "idle" /\ \E z : run' = [run EXCEPT !.dropped = @ \cup {z}]
    BY <2>2 DEF G!IInv, G!RunInv, G!Fields
  <2>q. QED BY <2>1, <2>2
<1>2. G!RunInv'
  BY <1>1 DEF G!IInv, G!RunInv
<1>3. G!TargetsInv'
  BY <1>1 DEF G!IInv, G!TargetsInv, G!Filling
<1>4. G!DoneStays'
  BY DEF G!IInv, G!DoneStays
<1>5. G!TakenInv'
  BY <1>1 DEF G!IInv, G!TakenInv, G!Filling
<1>6. \A target : step \in G!Filling /\ G!Present(target) => G!Present(target)'
  BY <1>1 DEF G!Present, G!PlaceOf, G!Filling
<1>7. G!HandledInv'
  <2>1. step \in G!Filling => G!LookedAt' = G!LookedAt
    BY <1>1 DEF G!LookedAt, G!Filling
  <2>2. SUFFICES ASSUME step \in G!Filling, NEW i \in G!LookedAt
                 PROVE  (run.targets[i] \in run.orders \/ G!Present(run.targets[i]))'
    BY <1>1, <2>1 DEF G!HandledInv, G!Filling
  <2>3. run.targets[i] \in run.orders \/ G!Present(run.targets[i])
    BY <2>2 DEF G!IInv, G!HandledInv
  <2>4. G!Present(run.targets[i]) => G!Present(run.targets[i])'
    <3>1. PICK target : target = run.targets[i]
      OBVIOUS
    <3>2. run'.targets[i] = target
      BY <1>1, <2>2, <3>1 DEF G!Filling
    <3>q. QED BY <1>6, <2>2, <3>1, <3>2
  <2>q. QED BY <1>1, <2>2, <2>3, <2>4 DEF G!Filling
<1>8. G!RemovableInv'
  <2>1. step = "remove" => G!Place' = G!Place
    BY <1>1 DEF G!Place, G!PlaceOf, G!Target
  <2>q. QED BY <1>1, <2>1 DEF G!IInv, G!RemovableInv
<1>q. QED BY <1>2, <1>3, <1>4, <1>5, <1>7, <1>8 DEF G!IInv

\* What a person changes is touched, and no longer answered for.
LEMMA GetEdit == ASSUME G!IInv, NEW place, G!Edit(place) PROVE G!IInv'
<1>1. /\ step' = step /\ run' = run /\ answered' \subseteq answered /\ touched' = touched \cup {place}
      /\ objects' = objects /\ \A a \in answered' : a \in answered /\ a[1] # place
  BY DEF G!Edit, G!store
<1>2. \A p : p # place =>
         (p \in DOMAIN disk' <=> p \in DOMAIN disk) /\ (p \in DOMAIN disk => disk'[p] = disk[p])
  BY DEF G!Edit
<1>3. \A a \in answered' : a[1] \in DOMAIN disk' /\ disk'[a[1]] = a[2]
  BY <1>1, <1>2 DEF G!IInv, G!DoneStays
<1>4. \A p : p \notin touched' =>
         (p \in DOMAIN disk' <=> p \in DOMAIN disk) /\ (p \in DOMAIN disk => disk'[p] = disk[p])
  BY <1>1, <1>2
<1>5. step = "remove" => objects \cup run.dropped \subseteq objects' \cup run'.dropped
  BY <1>1
<1>q. QED BY <1>1, <1>3, <1>4, <1>5, GetWaits

\* A new version, freed bytes, and an archive another run dropped.
LEMMA GetElsewhere ==
  ASSUME G!IInv,
         \/ \E u \in G!Addresses : G!Release(u)
         \/ \E b \in objects : G!GcFrees(b)
         \/ \E z \in stated : G!DroppedElsewhere(z)
  PROVE  G!IInv'
<1>1. step' = step /\ UNCHANGED <<disk, answered, touched>>
  BY DEF G!Release, G!GcFrees, G!DroppedElsewhere, G!ghosts
<1>2. run' = run \/ (step # "idle" /\ \E z : run' = [run EXCEPT !.dropped = @ \cup {z}])
  BY DEF G!Release, G!GcFrees, G!DroppedElsewhere
<1>3. step = "remove" => objects \cup run.dropped \subseteq objects' \cup run'.dropped
  <2>1. SUFFICES ASSUME step = "remove"
        PROVE objects \cup run.dropped \subseteq objects' \cup run'.dropped
    OBVIOUS
  <2>2. PICK z : objects' = objects \ {z} /\ run' = [run EXCEPT !.dropped = @ \cup {z}]
    BY <2>1 DEF G!Release, G!GcFrees, G!DroppedElsewhere
  <2>3. run'.dropped = run.dropped \cup {z}
    BY <2>1, <2>2 DEF G!IInv, G!RunInv, G!Fields
  <2>q. QED BY <2>2, <2>3
<1>4. \A a \in answered' : a[1] \in DOMAIN disk' /\ disk'[a[1]] = a[2]
  BY <1>1 DEF G!IInv, G!DoneStays
<1>q. QED BY <1>1, <1>2, <1>3, <1>4, GetWaits

\* What is looked at next, when a target is there or is to be placed
LEMMA GetCleared ==
  ASSUME G!IInv, step \in {"clear", "remove"}, NEW orders,
         run.orders \subseteq orders, orders \subseteq run.orders \cup {G!Target}, G!Cleared(orders),
         UNCHANGED <<answered>>,
         \A p : p # G!Place =>
            /\ p \in touched => p \in touched'
            /\ (p \in DOMAIN disk' <=> p \in DOMAIN disk) /\ (p \in DOMAIN disk => disk'[p] = disk[p]),
         \A a \in answered : a[1] # G!Place,
         G!Target \in orders \/ (G!Place \in DOMAIN disk' /\ disk'[G!Place] = G!Target.bytes)
  PROVE  G!IInv'
<1>1. /\ DOMAIN run = G!Fields /\ run.request \in Requests
      /\ run.left # {} /\ run.left \subseteq DOMAIN run.request.links
      /\ Len(run.targets) \in Nat /\ DOMAIN run.targets = 1 .. Len(run.targets)
      /\ \A i, j \in DOMAIN run.targets : run.targets[i].path = run.targets[j].path => i = j
      /\ run.orders \subseteq {run.targets[i] : i \in DOMAIN run.targets}
      /\ run.at \in DOMAIN run.targets
  BY DEF G!IInv, G!RunInv, G!TargetsInv, G!Filling
<1>2. /\ run'.request = run.request /\ run'.left = run.left /\ run'.taken = run.taken
      /\ run'.folder = run.folder /\ run'.targets = run.targets /\ run'.orders = orders
      /\ DOMAIN run' = G!Fields
      /\ \/ step' = "put" /\ run.at = Len(run.targets)
         \/ step' = "clear" /\ run.at # Len(run.targets) /\ run'.at = run.at + 1
  BY <1>1 DEF G!Cleared, G!Goes, G!Fields
<1>3. G!RunInv'
  BY <1>1, <1>2 DEF G!RunInv, G!Filling
<1>4. G!TargetsInv'
  <2>1. orders \subseteq {run.targets[i] : i \in DOMAIN run.targets}
    BY <1>1 DEF G!Target
  <2>2. step' # "put" => run'.at \in DOMAIN run.targets
    BY <1>1, <1>2
  <2>q. QED BY <1>1, <1>2, <2>1, <2>2 DEF G!TargetsInv
<1>5. G!DoneStays' /\ G!TakenInv'
  BY <1>2 DEF G!IInv, G!DoneStays, G!TakenInv, G!Filling
<1>6. G!RemovableInv'
  BY <1>2 DEF G!RemovableInv
<1>7. G!HandledInv'
  <2>1. G!LookedAt' = 1 .. run.at
    BY <1>1, <1>2 DEF G!LookedAt
  <2>2. SUFFICES ASSUME NEW i \in 1 .. run.at
                 PROVE  (run.targets[i] \in run.orders \/ G!Present(run.targets[i]))'
    BY <2>1 DEF G!HandledInv
  <2>3. PICK target : target = run.targets[i] /\ run'.targets[i] = target
    BY <1>2
  <2>4. CASE i = run.at
    BY <1>2, <2>3, <2>4 DEF G!Present, G!PlaceOf, G!Place, G!Target
  <2>5. CASE i # run.at
    <3>1. i \in G!LookedAt /\ i \in DOMAIN run.targets
      BY <1>1, <2>5 DEF G!LookedAt
    <3>2. target \in run.orders \/ G!Present(target)
      BY <2>3, <3>1 DEF G!IInv, G!HandledInv, G!Filling
    <3>3. G!PlaceOf(target) # G!Place
      BY <1>1, <2>3, <2>5, <3>1 DEF G!PlaceOf, G!Place, G!Target
    <3>4. G!Present(target) => G!Present(target)'
      BY <1>2, <3>3 DEF G!Present, G!PlaceOf
    <3>q. QED BY <1>2, <2>3, <3>2, <3>4
  <2>q. QED BY <2>4, <2>5
<1>q. QED BY <1>3, <1>4, <1>5, <1>6, <1>7 DEF G!IInv

\* What earlier links put somewhere is not in the folder being filled.
LEMMA GetApart ==
  ASSUME G!IInv, step \in G!Filling
  PROVE  \A target : \A a \in answered : a[1] # G!PlaceOf(target)
<1>1. \A a \in answered : G!SpotKey(a[1][1]) # G!Key(run.folder)
  BY DEF G!IInv, G!TakenInv
<1>q. QED BY <1>1, SpotOfKey DEF G!PlaceOf

\* A target is there, or what is in its way may go, or the way is free, or the link fails.
LEMMA GetLooks == ASSUME G!IInv, G!Clear PROVE G!IInv'
<1> DEFINE found == G!Target.bytes \in objects
<1>1. step = "clear" /\ UNCHANGED <<disk, objects, answered>> /\ touched' = touched \ {G!Place}
  BY DEF G!Clear, G!store
<1>2. \A p : p # G!Place =>
         /\ p \in touched => p \in touched'
         /\ (p \in DOMAIN disk' <=> p \in DOMAIN disk) /\ (p \in DOMAIN disk => disk'[p] = disk[p])
  BY <1>1
<1>3. /\ \A a \in answered : a[1] # G!Place
      /\ \A a \in answered' : a[1] \in DOMAIN disk' /\ disk'[a[1]] = a[2]
      /\ \A a \in answered' : G!SpotKey(a[1][1]) \in run.taken
      /\ DOMAIN run = G!Fields
  BY <1>1, GetApart DEF G!Place, G!IInv, G!TakenInv, G!DoneStays, G!RunInv, G!Filling
<1>4. CASE G!Place \in DOMAIN disk /\ disk[G!Place] = G!Target.bytes /\ G!Cleared(run.orders)
  BY <1>1, <1>2, <1>3, <1>4, GetCleared
<1>5. CASE G!Replaceable(G!Place) /\ G!Goes("remove", [run EXCEPT !.found = found])
  <2>1. step' = "remove" /\ run' = [run EXCEPT !.found = found]
    BY <1>5 DEF G!Goes
  <2>2. /\ run'.request = run.request /\ run'.left = run.left /\ run'.taken = run.taken
        /\ run'.folder = run.folder /\ run'.targets = run.targets /\ run'.at = run.at
        /\ run'.orders = run.orders /\ DOMAIN run' = G!Fields
    BY <1>3, <2>1 DEF G!Fields
  <2>3. G!RunInv' /\ G!TargetsInv' /\ G!TakenInv' /\ G!DoneStays'
    BY <1>1, <2>1, <2>2 DEF G!IInv, G!RunInv, G!TargetsInv, G!TakenInv, G!DoneStays, G!Filling
  <2>4. G!Place' = G!Place
    BY <2>2 DEF G!Place, G!PlaceOf, G!Target
  <2>5. G!RemovableInv'
    BY <1>1, <1>5, <2>4 DEF G!RemovableInv, G!Replaceable
  <2>6. G!HandledInv'
    <3>1. SUFFICES ASSUME NEW i \in 1 .. run.at - 1
                   PROVE  (run.targets[i] \in run.orders \/ G!Present(run.targets[i]))'
      BY <2>1, <2>2 DEF G!HandledInv, G!LookedAt
    <3>2. PICK target : target = run.targets[i] /\ run'.targets[i] = target
      BY <2>2
    <3>3. target \in run.orders \/ G!Present(target)
      BY <1>1, <3>1, <3>2 DEF G!IInv, G!HandledInv, G!Filling, G!LookedAt
    <3>4. i \in DOMAIN run.targets /\ run.at \in DOMAIN run.targets /\ i # run.at
      BY <1>1 DEF G!IInv, G!TargetsInv, G!Filling
    <3>5. G!PlaceOf(target) # G!Place
      BY <1>1, <3>2, <3>4 DEF G!IInv, G!TargetsInv, G!Filling, G!PlaceOf, G!Place, G!Target
    <3>6. G!Present(target) => G!Present(target)'
      BY <1>2, <2>2, <3>5 DEF G!Present, G!PlaceOf
    <3>q. QED BY <2>2, <3>2, <3>3, <3>6
  <2>q. QED BY <2>3, <2>5, <2>6 DEF G!IInv
<1>6. CASE G!GoesOn(run)
  BY <1>1, <1>3, <1>6, GetGoesOn
<1>7. CASE found /\ G!Cleared(run.orders \cup {G!Target})
  BY <1>1, <1>2, <1>3, <1>7, GetCleared
<1>q. QED BY <1>4, <1>5, <1>6, <1>7 DEF G!Clear, G!Ordered

\* The earlier version goes from a place no earlier link has a file in.
LEMMA GetTakesAway == ASSUME G!IInv, G!TakeAway PROVE G!IInv'
<1>1. /\ step = "remove" /\ UNCHANGED <<objects, answered, touched>>
      /\ disk' = [p \in DOMAIN disk \ {G!Place} |-> disk[p]]
  BY DEF G!TakeAway, G!store, G!ghosts
<1>2. \A p : p # G!Place =>
         /\ p \in touched => p \in touched'
         /\ (p \in DOMAIN disk' <=> p \in DOMAIN disk) /\ (p \in DOMAIN disk => disk'[p] = disk[p])
  BY <1>1
<1>3. /\ \A a \in answered : a[1] # G!Place
      /\ \A a \in answered' : G!SpotKey(a[1][1]) \in run.taken
      /\ DOMAIN run = G!Fields
  BY <1>1, GetApart DEF G!Place, G!IInv, G!TakenInv, G!RunInv, G!Filling
<1>4. \A a \in answered' : a[1] \in DOMAIN disk' /\ disk'[a[1]] = a[2]
  BY <1>1, <1>2, <1>3 DEF G!IInv, G!DoneStays
<1>5. CASE G!GoesOn(run)
  BY <1>1, <1>3, <1>4, <1>5, GetGoesOn
<1>6. CASE G!Cleared(run.orders \cup {G!Target})
  BY <1>1, <1>2, <1>3, <1>6, GetCleared
<1>q. QED BY <1>5, <1>6 DEF G!TakeAway, G!Ordered

\* What is said to be in place was put there now, or was there when it was looked at.
LEMMA GetPuts == ASSUME G!IInv, G!Put PROVE G!IInv'
<1>1. PICK placed \in SUBSET run.orders :
         /\ \A t \in placed : G!Free(G!PlaceOf(t)) /\ t.bytes \in objects
         /\ disk' = [p \in DOMAIN disk \cup {G!PlaceOf(t) : t \in placed} |->
                        IF p \in DOMAIN disk THEN disk[p]
                        ELSE (CHOOSE t \in placed : G!PlaceOf(t) = p).bytes]
         /\ \/ /\ placed = run.orders
               /\ answered' = answered \cup
                      {<<G!PlaceOf(t),
                            t.bytes>> : t \in {u \in G!Range(run.targets) : G!PlaceOf(u) \notin touched}}
            \/ answered' = answered
         /\ G!GoesOn(run)
  BY DEF G!Put
<1>2. step = "put" /\ touched' = touched
  BY DEF G!Put
<1>3. /\ DOMAIN run = G!Fields
      /\ DOMAIN run.targets = 1 .. Len(run.targets)
      /\ \A i, j \in DOMAIN run.targets : run.targets[i].path = run.targets[j].path => i = j
      /\ run.orders \subseteq {run.targets[i] : i \in DOMAIN run.targets}
      /\ \A i \in DOMAIN run.targets : run.targets[i] \in run.orders \/ G!Present(run.targets[i])
      /\ G!Key(run.folder) \in run.taken
  BY <1>2 DEF G!IInv, G!RunInv, G!TargetsInv, G!HandledInv, G!LookedAt, G!TakenInv, G!Filling
<1>4. \A p \in DOMAIN disk : p \in DOMAIN disk' /\ disk'[p] = disk[p]
  BY <1>1
<1>5. \A t \in placed : G!PlaceOf(t) \in DOMAIN disk' /\ disk'[G!PlaceOf(t)] = t.bytes
  <2>1. TAKE t \in placed
  <2>2. G!PlaceOf(t) \notin DOMAIN disk
    BY <1>1 DEF G!Free
  <2>3. \A u \in placed : G!PlaceOf(u) = G!PlaceOf(t) => u = t
    BY <1>3 DEF G!PlaceOf
  <2>4. (CHOOSE u \in placed : G!PlaceOf(u) = G!PlaceOf(t)) = t
    BY <2>3
  <2>q. QED BY <1>1, <2>2, <2>4
<1>6. \A a \in answered' : a[1] \in DOMAIN disk' /\ disk'[a[1]] = a[2]
  <2>1. TAKE a \in answered'
  <2>2. CASE a \in answered
    BY <1>4, <2>2 DEF G!IInv, G!DoneStays
  <2>3. CASE a \notin answered
    <3>1. PICK t \in G!Range(run.targets) :
             placed = run.orders /\ a = <<G!PlaceOf(t), t.bytes>> /\ G!PlaceOf(t) \notin touched
      BY <1>1, <2>3
    <3>2. t \in run.orders \/ G!Present(t)
      BY <1>3, <3>1 DEF G!Range
    <3>q. QED BY <1>4, <1>5, <3>1, <3>2 DEF G!Present
  <2>q. QED BY <2>2, <2>3
<1>7. \A a \in answered' : G!SpotKey(a[1][1]) \in run.taken
  <2>1. TAKE a \in answered'
  <2>2. CASE a \in answered
    BY <1>2, <2>2 DEF G!IInv, G!TakenInv
  <2>3. CASE a \notin answered
    <3>1. PICK t \in G!Range(run.targets) : a = <<G!PlaceOf(t), t.bytes>>
      BY <1>1, <2>3
    <3>q. QED BY <1>3, <3>1, SpotOfKey DEF G!PlaceOf
  <2>q. QED BY <2>2, <2>3
<1>q. QED BY <1>1, <1>2, <1>3, <1>6, <1>7, GetGoesOn

\* What changes nothing keeps it.
LEMMA GetStays == ASSUME G!IInv, UNCHANGED G!vars PROVE G!IInv'
BY DEF G!vars, G!IInv, G!RunInv, G!TargetsInv, G!RemovableInv, G!HandledInv, G!TakenInv, G!DoneStays,
   G!Place, G!PlaceOf,
       G!Target, G!Present, G!LookedAt

\* Every step keeps it.
LEMMA GetNext == ASSUME G!GetAssumption, G!IInv, [G!Next]_(G!vars) PROVE G!IInv'
<1>1. CASE G!Begin
  BY <1>1, GetBegin
<1>2. CASE G!Fetch
  BY <1>2, GetFetch
<1>3. CASE G!Refuse
  BY <1>3, GetRefuse
<1>4. CASE G!Settle
  BY <1>4, GetSettle
<1>5. CASE G!Clear
  BY <1>5, GetLooks
<1>6. CASE G!TakeAway
  BY <1>6, GetTakesAway
<1>7. CASE G!Put
  BY <1>7, GetPuts
<1>8. CASE G!Stop
  BY <1>8, GetEnds DEF G!Stop, G!ghosts
<1>9. CASE \E place \in Reachable : G!Edit(place)
  BY <1>9, GetEdit
<1>a. CASE \E u \in G!Addresses : G!Release(u)
  BY <1>a, GetElsewhere
<1>b. CASE \E b \in objects : G!GcFrees(b)
  BY <1>b, GetElsewhere
<1>c. CASE \E z \in stated : G!DroppedElsewhere(z)
  BY <1>c, GetElsewhere
<1>d. CASE UNCHANGED G!vars
  BY <1>d, GetStays
<1>q. QED BY <1>1, <1>2, <1>3, <1>4, <1>5, <1>6, <1>7, <1>8, <1>9, <1>a, <1>b, <1>c, <1>d
    DEF G!Next

\* Only the removal of an earlier version, and a person, take a file away.
LEMMA GetKeeps == ASSUME G!IInv, [G!Next]_(G!vars) PROVE [G!NothingLost]_(G!vars)
<1>1. CASE G!TakeAway
  <2>1. /\ step = "remove" /\ UNCHANGED <<objects, touched>>
        /\ disk' = [p \in DOMAIN disk \ {G!Place} |-> disk[p]]
    BY <1>1 DEF G!TakeAway, G!store, G!ghosts
  <2>2. \A p \in DOMAIN disk : p # G!Place => p \in DOMAIN disk' /\ disk'[p] = disk[p]
    BY <2>1
  <2>3. G!Place \in touched \/ G!Place \notin DOMAIN disk \/ disk[G!Place] \in objects \cup run.dropped
    BY <2>1 DEF G!IInv, G!RemovableInv
  <2>q. QED BY <2>1, <2>2, <2>3 DEF G!NothingLost
<1>2. CASE G!Put
  <2>1. \A p \in DOMAIN disk : p \in DOMAIN disk' /\ disk'[p] = disk[p]
    BY <1>2 DEF G!Put
  <2>q. QED BY <2>1 DEF G!NothingLost
<1>3. CASE \E place \in Reachable : G!Edit(place)
  <2>1. PICK place \in Reachable : G!Edit(place)
    BY <1>3
  <2>2. touched' = touched \cup {place}
    BY <2>1 DEF G!Edit
  <2>3. \A p \in DOMAIN disk : p # place => p \in DOMAIN disk' /\ disk'[p] = disk[p]
    BY <2>1 DEF G!Edit
  <2>q. QED BY <2>2, <2>3 DEF G!NothingLost
<1>4. CASE UNCHANGED disk
  BY <1>4 DEF G!NothingLost
<1>q. QED BY <1>1, <1>2, <1>3, <1>4 DEF G!Next, G!Begin, G!Fetch, G!Refuse, G!Settle, G!Clear, G!Stop,
      G!Release, G!GcFrees,
             G!DroppedElsewhere, G!vars
-----------------------------------------------------------------------------

\* For any command lines, links, archives and names, on a disk that ignores case or not, and
\* whatever a person, the sources and other runs do meanwhile: a run of `get` takes no file away
\* whose bytes the cache does not hold, but for one changed since it was looked at.
THEOREM NothingIsLost ==
  ASSUME G!GetAssumption
  PROVE  G!Spec => NothingLost
<1>1. G!Init => G!IInv
  BY GetStarts
<1>2. G!IInv /\ [G!Next]_(G!vars) => G!IInv'
  BY GetNext
<1>3. G!IInv /\ [G!Next]_(G!vars) => [component = "get" => G!NothingLost]_getting
  BY GetKeeps DEF getting
<1>q. QED BY <1>1, <1>2, <1>3, PTL DEF G!Spec, NothingLost

\* And what it says it put somewhere is there, whatever its later links are called.
THEOREM AnsweredFilesStay ==
  ASSUME G!GetAssumption
  PROVE  G!Spec => []DoneStays
<1>1. G!Init => G!IInv
  BY GetStarts
<1>2. G!IInv /\ [G!Next]_(G!vars) => G!IInv'
  BY GetNext
<1>3. G!IInv => DoneStays
  BY DEF G!IInv, DoneStays
<1>q. QED BY <1>1, <1>2, <1>3, PTL DEF G!Spec
=============================================================================
