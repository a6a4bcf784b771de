------------------------------ MODULE Deferred ------------------------------
(***************************************************************************)
(* One batch of downloads in one run of fetchloom, from the moment each    *)
(* task looks for its bytes to the moment the batch reports how it went    *)
(* (cli/fetch.rs, net/download.rs, cache/partial.rs, cache/deferred.rs,    *)
(* and link_object of cache.rs).  A finished download keeps its partial    *)
(* name and its claim until a flush covers its bytes.  A group of them, or *)
(* what is left when the batch ends, is flushed once and takes its names.  *)
(*                                                                         *)
(* The file system is modelled by inodes: `part` is the partial name of    *)
(* each link, `object` the name under each hash.  An inode is dirty until  *)
(* a flush writes it back.  A write-back error loses its bytes: syncfs     *)
(* reports it once for the whole file system, fsync for that file alone.   *)
(***************************************************************************)
EXTENDS Naturals, FiniteSets

CONSTANTS
    Tasks,      \* the downloads of the batch
    Main,       \* the thread that runs the batch (fetch::all, fetch::apart)
    Urls,
    Digests,    \* what a finished download may hash to
    Inodes,
    None,       \* no inode, no thread, no pinned hash
    Pending,    \* where a finished download waits: the batch, not a thread
    UrlOf,      \* the link each task downloads
    Expect,     \* the hash each task pins, or None
    Resumed,    \* the tasks whose first answer continues an earlier run's bytes
    Earlier,    \* the inode an earlier run may have left at each link's partial name
    EarlierLoss,\* whether those bytes may have met a write-back error reported before
    Group,      \* GROUP: how many finished downloads are flushed together
    Apart       \* whether a failure stays with its file (fetch::apart)

Threads == Tasks \union {Main}

ASSUME TasksAssumption ==
    /\ Main \notin Tasks /\ None \notin Threads /\ Pending \notin Threads
    /\ None \notin Inodes /\ None \notin Digests
ASSUME FunctionsAssumption ==
    /\ UrlOf \in [Tasks -> Urls]
    /\ Expect \in [Tasks -> Digests \union {None}]
    /\ Earlier \in [Urls -> Inodes]
    /\ \A u, v \in Urls : Earlier[u] = Earlier[v] => u = v
    /\ Resumed \subseteq Tasks
    /\ EarlierLoss \in BOOLEAN /\ Apart \in BOOLEAN
ASSUME GroupAssumption == Group \in Nat \ {0}
ASSUME LabelsAssumption == "unfinished" \notin Digests

VARIABLES
    pc,         \* what each thread does next
    waited,     \* whether a task found its claim busy
    restarted,  \* whether a task started over after a mismatch
    got,        \* the hash a task was told its bytes are stored under
    file,       \* the inode a task's writer has open
    items,      \* downloads finished and not yet named, each with who has it
    open,       \* whether the batch is open (Deferred.pending is Some)
    pendingLock, publishingLock,
    failed,     \* Publishing.failed
    unflushed,  \* Publishing.unflushed
    aborted,    \* abort_all was called
    part, object, inode,
    lossUnseen  \* a write-back error the batch's syncfs has yet to report

taskVars == <<waited, restarted, got, file>>
lockVars == <<pendingLock, publishingLock>>
publishing == <<failed, unflushed>>
diskVars == <<part, object, inode, lossUnseen>>
vars == <<pc, taskVars, items, open, lockVars, publishing, aborted, diskVars>>

Item == [task : Tasks, digest : Digests, at : Threads \union {Pending}]
File == [bytes : Digests \union {"unfinished"}, sealed : BOOLEAN,
         disk : {"dirty", "durable", "lost"}]

TaskLabels ==
    {"look", "claim", "sync", "link", "recheck", "transfer", "writing", "finish",
     "own_sync", "own_link", "flush_wait", "flush", "name", "verify", "forget",
     "forget_wait", "remove"}
Ended == {"ok", "failed", "fatal", "dropped"}
MainLabels == {"running", "publish", "flush_wait", "flush", "name", "ok", "failed"}

\* Between a claim and the end of the transfer the task's Partial holds the lock file.
Owning == TaskLabels \ {"look", "claim", "sync", "link"}

Goto(p, label) == pc' = [pc EXCEPT ![p] = label]

\* MUTANT of Claimed: the claim is let go when the download finishes, before it is named.
ClaimedByTask(u) == \E t \in Tasks : UrlOf[t] = u /\ pc[t] \in Owning

\* The lock of a link's claim is shared by the task's Partial, its writer and the
\* Finished it became: whichever is dropped last lets it go.
Claimed(u) ==
    \/ \E t \in Tasks : UrlOf[t] = u /\ pc[t] \in Owning
    \/ \E x \in items : UrlOf[x.task] = u

Waiting == {x \in items : x.at = Pending}
HeldBy(p) == {x \in items : x.at = p}

NoOtherName(i) == \A d \in Digests : object[d] # i
Unused(i) == /\ \A u \in Urls : part[u] # i
             /\ NoOtherName(i)
             /\ \A t \in Tasks : file[t] # i

\* A local or network failure stays with its file in `apart` and stops `all`.
Failure == IF Apart THEN "failed" ELSE "fatal"

\* cache.find: a sealed object is trusted by its name, a writable one is hashed.
Found(d) ==
    /\ d # None
    /\ object[d] # None
    /\ inode[object[d]].sealed \/ inode[object[d]].bytes = d

(***************************************************************************)
(* Any mix of leftovers of earlier runs: nothing, an unfinished download,  *)
(* or one that was sealed, whose object may have its name already.         *)
(***************************************************************************)
Leftovers == {"none", "unfinished", "sealed", "linked"}

LeftFile(left, hash, loss, i) ==
    [bytes |-> IF \E u \in Urls : Earlier[u] = i /\ left[u] \in {"sealed", "linked"}
               THEN hash ELSE "unfinished",
     sealed |-> \E u \in Urls : Earlier[u] = i /\ left[u] \in {"sealed", "linked"},
     disk |-> IF \E u \in Urls : Earlier[u] = i /\ left[u] = "linked" THEN "durable"
              ELSE IF loss /\ \E u \in Urls : Earlier[u] = i /\ left[u] = "unfinished"
              THEN "lost" ELSE "dirty"]

LeftBehind(left, hash, loss) ==
    /\ \A u, v \in Urls : left[u] = "linked" /\ left[v] = "linked" => u = v
    /\ part = [u \in Urls |-> IF left[u] = "none" THEN None ELSE Earlier[u]]
    /\ object = [d \in Digests |-> IF d = hash /\ \E u \in Urls : left[u] = "linked"
                                  THEN Earlier[CHOOSE u \in Urls : left[u] = "linked"] ELSE None]
    /\ inode = [i \in Inodes |-> LeftFile(left, hash, loss, i)]

Init ==
    /\ pc = [p \in Threads |-> IF p = Main THEN "running" ELSE "look"]
    /\ waited = [t \in Tasks |-> FALSE]
    /\ restarted = [t \in Tasks |-> FALSE]
    /\ got = [t \in Tasks |-> None]
    /\ file = [t \in Tasks |-> None]
    /\ items = {}
    /\ open \in BOOLEAN
    /\ pendingLock = None /\ publishingLock = None
    /\ failed = FALSE /\ unflushed = FALSE /\ aborted = FALSE
    /\ \E left \in [Urls -> Leftovers], hash \in Digests, loss \in {FALSE, EarlierLoss} :
         LeftBehind(left, hash, loss)
    /\ lossUnseen = FALSE

(***************************************************************************)
(* A task: download_in_span, claim and transfer                            *)
(***************************************************************************)
Look(t) ==
    /\ pc[t] = "look"
    /\ IF Found(Expect[t])
       THEN Goto(t, "ok") /\ got' = [got EXCEPT ![t] = Expect[t]]
       ELSE Goto(t, "claim") /\ UNCHANGED got
    /\ UNCHANGED <<waited, restarted, file, items, open, lockVars, publishing, aborted, diskVars>>

Claim(t) ==
    /\ pc[t] = "claim" /\ ~Claimed(UrlOf[t])
    /\ Goto(t, IF waited[t] THEN "recheck" ELSE "transfer")
    /\ UNCHANGED <<taskVars, items, open, lockVars, publishing, aborted, diskVars>>

\* MUTANT of TakeFinished: a task takes only a download of its own out of the batch.
TakeOwn(t, x) ==
    /\ pc[t] = "claim" /\ pendingLock = None /\ open
    /\ x \in Waiting /\ x.task = t
    /\ items' = (items \ {x}) \union {[x EXCEPT !.at = t]}
    /\ waited' = [waited EXCEPT ![t] = TRUE]
    /\ Goto(t, "sync")
    /\ UNCHANGED <<restarted, got, file, open, lockVars, publishing, aborted, diskVars>>

\* publish_download_of: the link is finished in this run and waits for the batch, so
\* this task takes it out of the batch to put it in place itself.
TakeFinished(t, x) ==
    /\ pc[t] = "claim" /\ pendingLock = None /\ open
    /\ x \in Waiting /\ UrlOf[x.task] = UrlOf[t]
    /\ items' = (items \ {x}) \union {[x EXCEPT !.at = t]}
    /\ waited' = [waited EXCEPT ![t] = TRUE]
    /\ Goto(t, "sync")
    /\ UNCHANGED <<restarted, got, file, open, lockVars, publishing, aborted, diskVars>>

\* Another download has the link: look again later.
Poll(t) ==
    /\ pc[t] = "claim" /\ Claimed(UrlOf[t]) /\ ~waited[t]
    /\ ~ \E x \in Waiting : open /\ UrlOf[x.task] = UrlOf[t]
    /\ waited' = [waited EXCEPT ![t] = TRUE]
    /\ UNCHANGED <<pc, restarted, got, file, items, open, lockVars, publishing, aborted, diskVars>>

\* Once it waited, a task looks for its bytes again: the other may have brought them.
Recheck(t) ==
    /\ pc[t] = "recheck"
    /\ IF Found(Expect[t])
       THEN Goto(t, "ok") /\ got' = [got EXCEPT ![t] = Expect[t]]
       ELSE Goto(t, "transfer") /\ UNCHANGED got
    /\ UNCHANGED <<waited, restarted, file, items, open, lockVars, publishing, aborted, diskVars>>

\* Partial::open: a writable file with no other name is continued or cut to nothing.
\* A sealed one may be an object already, so its name makes way for a new file.
Continued(u) == part[u] # None /\ ~inode[part[u]].sealed /\ NoOtherName(part[u])

OpenPart(t) ==
    LET u == UrlOf[t] IN
    /\ pc[t] = "transfer"
    /\ \E i \in Inodes :
         /\ IF Continued(u) THEN i = part[u] ELSE Unused(i)
         /\ part' = [part EXCEPT ![u] = i]
         /\ file' = [file EXCEPT ![t] = i]
         /\ inode' = [inode EXCEPT ![i] =
                        [bytes |-> "unfinished", sealed |-> FALSE,
                         disk |-> IF Continued(u) /\ t \in Resumed /\ @.disk = "lost"
                                 THEN "lost" ELSE "dirty"]]
    /\ Goto(t, "writing")
    /\ UNCHANGED <<waited, restarted, got, items, open, lockVars, publishing, aborted,
                   object, lossUnseen>>

\* The earlier bytes cannot be continued, so the transfer starts over without them.
StartOver(t) ==
    /\ pc[t] = "transfer" /\ t \in Resumed /\ Continued(UrlOf[t])
    /\ Goto(t, "forget")
    /\ UNCHANGED <<taskVars, items, open, lockVars, publishing, aborted, diskVars>>

\* The network failed past every retry, or the run was interrupted (which stops even a
\* batch whose failures stay apart).  What arrived is kept for the next run.
TransferFails(t) ==
    /\ pc[t] \in {"transfer", "writing"}
    /\ \E label \in {Failure, "fatal"} : Goto(t, label)
    /\ file' = [file EXCEPT ![t] = None]
    /\ UNCHANGED <<waited, restarted, got, items, open, lockVars, publishing, aborted, diskVars>>

\* Every byte is written: PartialWriter::finish cuts the file to its length, hashes it
\* and seals it through the writer's own handle.
Seal(t, d) ==
    /\ pc[t] = "writing"
    /\ inode' = [inode EXCEPT ![file[t]] =
                   [bytes |-> d, sealed |-> TRUE,
                    disk |-> IF inode[file[t]].disk = "lost" THEN "lost" ELSE "dirty"]]
    /\ got' = [got EXCEPT ![t] = d]
    /\ Goto(t, "finish")
    /\ UNCHANGED <<waited, restarted, file, items, open, lockVars, publishing, aborted,
                   part, object, lossUnseen>>

(***************************************************************************)
(* Cache::defer and publish_group                                          *)
(***************************************************************************)
\* In an open batch the download joins those that wait.  The one that completes a group
\* keeps the batch locked until it may publish.
Defer(t) ==
    /\ pc[t] = "finish" /\ pendingLock = None /\ open
    /\ items' = items \union {[task |-> t, digest |-> got[t], at |-> Pending]}
    /\ file' = [file EXCEPT ![t] = None]
    /\ IF Cardinality(Waiting) + 1 >= Group
       THEN pendingLock' = t /\ Goto(t, "flush_wait")
       ELSE UNCHANGED pendingLock /\ Goto(t, "verify")
    /\ UNCHANGED <<waited, restarted, got, open, publishingLock, publishing, aborted, diskVars>>

\* Without a batch, the download is flushed and put in place on its own.
FinishAlone(t) ==
    /\ pc[t] = "finish" /\ pendingLock = None /\ ~open
    /\ items' = items \union {[task |-> t, digest |-> got[t], at |-> t]}
    /\ Goto(t, "own_sync")
    /\ UNCHANGED <<taskVars, open, lockVars, publishing, aborted, diskVars>>

\* The group is taken from the batch, which is let go only once publishing is locked.
TakeGroup(p) ==
    /\ pc[p] = "flush_wait" /\ publishingLock = None
    /\ publishingLock' = p /\ pendingLock' = None
    /\ items' = (items \ Waiting) \union {[x EXCEPT !.at = p] : x \in Waiting}
    /\ Goto(p, "flush")
    /\ UNCHANGED <<taskVars, open, publishing, aborted, diskVars>>

\* What a thread goes on with when its group is through.
AfterGroup(p) ==
    IF p # Main THEN "verify"
    ELSE IF \/ aborted \/ failed'
            \/ ~Apart /\ \E t \in Tasks : pc[t] \in {"failed", "fatal"}
    THEN "failed" ELSE "ok"

DropGroup(p) ==
    /\ items' = items \ HeldBy(p)
    /\ publishingLock' = None
    /\ Goto(p, AfterGroup(p))

\* Nothing to flush, or an earlier flush failed: the group's downloads take no names.
SkipGroup(p) ==
    /\ pc[p] = "flush" /\ (HeldBy(p) = {} \/ unflushed)
    /\ UNCHANGED publishing
    /\ DropGroup(p)
    /\ UNCHANGED <<taskVars, open, pendingLock, aborted, diskVars>>

\* syncfs writes back what it can, and reports every error since it last did.
Flushed == [i \in Inodes |-> IF inode[i].disk = "dirty"
                             THEN [inode[i] EXCEPT !.disk = "durable"] ELSE inode[i]]

Flush(p) ==
    /\ pc[p] = "flush" /\ HeldBy(p) # {} /\ ~unflushed /\ ~lossUnseen
    /\ inode' = Flushed
    /\ Goto(p, "name")
    /\ UNCHANGED <<taskVars, items, open, lockVars, publishing, aborted, part, object, lossUnseen>>

FlushFails(p) ==
    /\ pc[p] = "flush" /\ HeldBy(p) # {} /\ ~unflushed /\ lossUnseen
    /\ lossUnseen' = FALSE
    /\ unflushed' = TRUE /\ failed' = TRUE
    /\ inode' = Flushed
    /\ DropGroup(p)
    /\ UNCHANGED <<taskVars, open, pendingLock, aborted, part, object>>

(***************************************************************************)
(* link_object: the partial name's file gets the name of its hash, unless  *)
(* an intact object has it.  A changed object is replaced.  Either way the *)
(* partial name goes away.                                                 *)
(***************************************************************************)
LinkObject(x) ==
    LET i == part[UrlOf[x.task]]
        old == object[x.digest]
    IN  /\ i # None
        /\ object' = [object EXCEPT ![x.digest] =
                        IF old # None /\ inode[old].bytes = x.digest THEN old ELSE i]
        /\ part' = [part EXCEPT ![UrlOf[x.task]] = None]
        /\ UNCHANGED <<inode, lossUnseen>>

\* The group's downloads take their names one after another.
Name(p, x) ==
    /\ pc[p] = "name" /\ x \in HeldBy(p)
    /\ LinkObject(x)
    /\ items' = items \ {x}
    /\ UNCHANGED <<pc, taskVars, open, lockVars, publishing, aborted>>

\* MUTANT of NameFails: the failure is lost with the download.
NameFailsQuietly(p, x) ==
    /\ pc[p] = "name" /\ x \in HeldBy(p)
    /\ items' = items \ {x}
    /\ UNCHANGED <<pc, taskVars, open, lockVars, publishing, aborted, diskVars>>

\* One that cannot be linked keeps its partial name, and its failure is kept for the end.
NameFails(p, x) ==
    /\ pc[p] = "name" /\ x \in HeldBy(p)
    /\ items' = items \ {x}
    /\ failed' = TRUE
    /\ UNCHANGED <<pc, taskVars, open, lockVars, unflushed, aborted, diskVars>>

GroupNamed(p) ==
    /\ pc[p] = "name" /\ HeldBy(p) = {}
    /\ UNCHANGED publishing
    /\ DropGroup(p)
    /\ UNCHANGED <<taskVars, open, pendingLock, aborted, diskVars>>

(***************************************************************************)
(* A download put in place with its own flush: finish() without a batch    *)
(* ("own_sync", "own_link") and publish_download_of ("sync", "link").      *)
(***************************************************************************)
\* MUTANT of Sync: the bytes are not flushed before the link.
SyncNothing(t) ==
    /\ pc[t] \in {"own_sync", "sync"}
    /\ Goto(t, IF pc[t] = "sync" THEN "link" ELSE "own_link")
    /\ UNCHANGED <<taskVars, items, open, lockVars, publishing, aborted, diskVars>>

Sync(t) ==
    LET i == IF pc[t] = "own_sync" THEN file[t] ELSE part[UrlOf[t]] IN
    /\ pc[t] \in {"own_sync", "sync"}
    /\ i # None /\ inode[i].disk # "lost"
    /\ inode' = [inode EXCEPT ![i].disk = "durable"]
    /\ Goto(t, IF pc[t] = "sync" THEN "link" ELSE "own_link")
    /\ UNCHANGED <<taskVars, items, open, lockVars, publishing, aborted, part, object, lossUnseen>>

Link(t, x) ==
    /\ pc[t] \in {"own_link", "link"} /\ x \in HeldBy(t)
    /\ LinkObject(x)
    /\ items' = items \ {x}
    /\ file' = [file EXCEPT ![t] = None]
    /\ Goto(t, IF pc[t] = "link" THEN "claim" ELSE "verify")
    /\ UNCHANGED <<waited, restarted, got, open, lockVars, publishing, aborted>>

\* The flush reports lost bytes, the partial name is gone, or the disk refuses the link.
AloneFails(t) ==
    /\ pc[t] \in {"own_sync", "sync", "own_link", "link"}
    /\ items' = items \ HeldBy(t)
    /\ file' = [file EXCEPT ![t] = None]
    /\ Goto(t, Failure)
    /\ UNCHANGED <<waited, restarted, got, open, lockVars, publishing, aborted, diskVars>>

(***************************************************************************)
(* transfer, once the bytes are stored                                     *)
(***************************************************************************)
Verify(t) ==
    /\ pc[t] = "verify"
    /\ IF Expect[t] \in {None, got[t]} THEN Goto(t, "ok") /\ UNCHANGED restarted
       ELSE IF t \in Resumed /\ ~restarted[t]
       THEN Goto(t, "forget") /\ restarted' = [restarted EXCEPT ![t] = TRUE]
       ELSE Goto(t, "failed") /\ UNCHANGED restarted
    /\ UNCHANGED <<waited, got, file, items, open, lockVars, publishing, aborted, diskVars>>

\* discard: forget_deferred takes the download out of the batch,
Forget(t) ==
    /\ pc[t] = "forget" /\ pendingLock = None
    /\ pendingLock' = t
    /\ items' = items \ {x \in Waiting : open /\ UrlOf[x.task] = UrlOf[t]}
    /\ Goto(t, "forget_wait")
    /\ UNCHANGED <<taskVars, open, publishingLock, publishing, aborted, diskVars>>

\* MUTANT of ForgetWaited: the group being published is not waited for.
ForgetAtOnce(t) ==
    /\ pc[t] = "forget_wait"
    /\ pendingLock' = None
    /\ Goto(t, "remove")
    /\ UNCHANGED <<taskVars, items, open, publishingLock, publishing, aborted, diskVars>>

\* waits for a group that may still name its bytes,
ForgetWaited(t) ==
    /\ pc[t] = "forget_wait" /\ publishingLock = None
    /\ pendingLock' = None
    /\ Goto(t, "remove")
    /\ UNCHANGED <<taskVars, items, open, publishingLock, publishing, aborted, diskVars>>

\* and only then removes the partial name.
RemovePart(t) ==
    /\ pc[t] = "remove"
    /\ part' = [part EXCEPT ![UrlOf[t]] = None]
    /\ got' = [got EXCEPT ![t] = None]
    /\ Goto(t, "transfer")
    /\ UNCHANGED <<waited, restarted, file, items, open, lockVars, publishing, aborted,
                   object, inode, lossUnseen>>

\* abort_all drops a task where it awaits.  A writer thread it waited for goes on alone.
Drop(t) ==
    /\ aborted /\ pc[t] \in {"look", "claim", "transfer", "writing", "verify"}
    /\ Goto(t, "dropped")
    /\ file' = [file EXCEPT ![t] = None]
    /\ UNCHANGED <<waited, restarted, got, items, open, lockVars, publishing, aborted, diskVars>>

(***************************************************************************)
(* The batch: each, and publish_downloads on every way out of it           *)
(***************************************************************************)
AllEnded ==
    /\ pc[Main] = "running" /\ \A t \in Tasks : pc[t] \in {"ok", "failed"}
    /\ Goto(Main, "publish")
    /\ UNCHANGED <<taskVars, items, open, lockVars, publishing, aborted, diskVars>>

Abort ==
    /\ pc[Main] = "running" /\ \E t \in Tasks : pc[t] = "fatal"
    /\ aborted' = TRUE
    /\ Goto(Main, "publish")
    /\ UNCHANGED <<taskVars, items, open, lockVars, publishing, diskVars>>

\* Taking the batch closes it, so a download that finishes later is put in place alone.
PublishDownloads ==
    /\ pc[Main] = "publish" /\ pendingLock = None
    /\ IF open THEN pendingLock' = Main /\ Goto(Main, "flush_wait") /\ UNCHANGED failed
       ELSE UNCHANGED <<pendingLock, failed>> /\ Goto(Main, AfterGroup(Main))
    /\ open' = FALSE
    /\ UNCHANGED <<taskVars, items, publishingLock, unflushed, aborted, diskVars>>

\* The disk loses bytes it was to write back.
LoseBytes(i) ==
    /\ inode[i].disk = "dirty" /\ ~Unused(i)
    /\ inode' = [inode EXCEPT ![i].disk = "lost"]
    /\ lossUnseen' = TRUE
    /\ UNCHANGED <<pc, taskVars, items, open, lockVars, publishing, aborted, part, object>>

Publish(p) ==
    \/ TakeGroup(p) \/ SkipGroup(p) \/ Flush(p) \/ FlushFails(p) \/ GroupNamed(p)
    \/ \E x \in items : Name(p, x) \/ NameFails(p, x)

Download(t) ==
    \/ Look(t) \/ Claim(t) \/ Poll(t) \/ Recheck(t)
    \/ OpenPart(t) \/ StartOver(t) \/ TransferFails(t) \/ \E d \in Digests : Seal(t, d)
    \/ Defer(t) \/ FinishAlone(t) \/ Sync(t) \/ AloneFails(t)
    \/ \E x \in items : TakeFinished(t, x) \/ Link(t, x)
    \/ Verify(t) \/ Forget(t) \/ ForgetWaited(t) \/ RemovePart(t)
    \/ Publish(t)

Batch == AllEnded \/ Abort \/ PublishDownloads \/ Publish(Main)

Done == pc[Main] \in {"ok", "failed"} /\ \A t \in Tasks : pc[t] \in Ended

Next ==
    \/ \E t \in Tasks : Download(t) \/ Drop(t)
    \/ Batch
    \/ \E i \in Inodes : LoseBytes(i)
    \/ Done /\ UNCHANGED vars

Spec == Init /\ [][Next]_vars

\* tokio runs every task and blocking thread, std mutexes are handed on, and a transfer
\* ends one way or another because the network's timeouts and retries are bounded.
FairSpec == Spec /\ WF_vars(Batch) /\ \A t \in Tasks : WF_vars(Download(t))

-----------------------------------------------------------------------------
TypeOK ==
    /\ pc \in [Threads -> TaskLabels \union Ended \union MainLabels]
    /\ waited \in [Tasks -> BOOLEAN] /\ restarted \in [Tasks -> BOOLEAN]
    /\ got \in [Tasks -> Digests \union {None}]
    /\ file \in [Tasks -> Inodes \union {None}]
    /\ items \subseteq Item
    /\ open \in BOOLEAN
    /\ pendingLock \in Threads \union {None}
    /\ publishingLock \in Threads \union {None}
    /\ failed \in BOOLEAN /\ unflushed \in BOOLEAN /\ aborted \in BOOLEAN
    /\ part \in [Urls -> Inodes \union {None}]
    /\ object \in [Digests -> Inodes \union {None}]
    /\ inode \in [Inodes -> File]
    /\ lossUnseen \in BOOLEAN

\* A whole copy of the bytes that hash to d, read-only and on the disk.
Intact(d) ==
    /\ object[d] # None
    /\ inode[object[d]] = [bytes |-> d, sealed |-> TRUE, disk |-> "durable"]

\* At no moment does a hash name bytes a power cut could lose or leave damaged, whatever
\* flush failed and however downloads of one link, groups and restarts interleave
\* (deferred.rs: "a power cut can never leave a damaged object under a hash").
NamedIntact == \A d \in Digests : object[d] # None => Intact(d)

\* A download that waits for its name still finds its own finished bytes at its partial
\* name: nobody truncates, rewrites or replaces them while the batch or a group has it
\* (defer keeps the claim, forget_deferred waits for the group).
WaitingKeepsItsBytes ==
    \A x \in items :
        /\ part[UrlOf[x.task]] # None
        /\ inode[part[UrlOf[x.task]]].bytes = x.digest
        /\ inode[part[UrlOf[x.task]]].sealed

\* One download of a link at a time: no task writes while another writes the same link or
\* while a finished download of it still waits for its name (Finished.lock).
OneDownloadPerLink ==
    \A t \in Tasks : pc[t] = "writing" =>
        /\ \A s \in Tasks : pc[s] \in {"writing", "finish"} /\ UrlOf[s] = UrlOf[t] => s = t
        /\ \A x \in items : UrlOf[x.task] # UrlOf[t]

\* Once the batch has reported, no download waits in it for a flush that never comes, even
\* one whose writer thread outlived its aborted task (publish_downloads closes the batch).
NothingLeftWaiting == pc[Main] \in {"ok", "failed"} => Waiting = {}

\* When the batch reports success, every download that was answered as stored is in the
\* cache intact, though each was answered before its bytes were flushed.
AnsweredIsStored ==
    pc[Main] = "ok" => \A t \in Tasks : pc[t] = "ok" => Intact(got[t])

\* The batch ends: a task that finds its link finished but unnamed in its own batch puts
\* it in place instead of waiting for the batch, which waits for that task.
BatchEnds == <>(pc[Main] \in {"ok", "failed"})

\* The promise the batch makes to its callers, without inodes, locks or flushes.
Store == INSTANCE DownloadStore WITH
    held <- {d \in Digests : Intact(d)},
    answered <- {got[t] : t \in {s \in Tasks : pc[s] = "ok"}},
    report <- IF pc[Main] \in {"ok", "failed"} THEN pc[Main] ELSE "none"
ImplementsStore == Store!Spec
-----------------------------------------------------------------------------
(***************************************************************************)
(* Why NamedIntact and WaitingKeepsItsBytes hold, as an inductive          *)
(* invariant.  It holds of batches in which no task that resumed a download *)
(* may find it to be another than expected if another task of the batch    *)
(* downloads the same link.                                                *)
(***************************************************************************)
RestartsAlone ==
    \A s, t \in Tasks : s \in Resumed /\ Expect[s] # None /\ UrlOf[s] = UrlOf[t] => s = t

LabelsInv ==
    /\ \A t \in Tasks : pc[t] \in TaskLabels \union Ended
    /\ pc[Main] \in MainLabels

\* Each mutex is held exactly where the code is between taking it and letting it go.
LocksInv == \A p \in Threads :
    /\ pc[p] \in {"flush_wait", "forget_wait"} <=> pendingLock = p
    /\ pc[p] \in {"flush", "name"} <=> publishingLock = p

\* A link is claimed once: by the task that downloads it or by what became of its download.
ClaimInv ==
    /\ \A s, t \in Tasks :
         pc[s] \in Owning /\ pc[t] \in Owning /\ UrlOf[s] = UrlOf[t] => s = t
    /\ \A x \in items, t \in Tasks :
         pc[t] \in Owning /\ UrlOf[x.task] = UrlOf[t] => x.task = t
    /\ \A x, y \in items : UrlOf[x.task] = UrlOf[y.task] => x = y

\* Who has a finished download, and what its task may be doing meanwhile.
ItemsInv ==
    /\ \A x \in items :
         /\ pc[x.task] \notin {"look", "claim", "sync", "link", "recheck", "transfer",
                              "writing", "finish", "remove"}
         /\ pc[x.task] \in {"own_sync", "own_link"} => x.at = x.task
         /\ \/ x.at = Pending
            \/ x.at = x.task /\ pc[x.at] \in {"own_sync", "own_link"}
            \/ /\ x.at \in Tasks \ {x.task} /\ UrlOf[x.at] = UrlOf[x.task]
               /\ pc[x.at] \in {"sync", "link"}
            \/ pc[x.at] \in {"flush", "name"}
    /\ \A t \in Tasks : pc[t] \in {"forget", "forget_wait"} =>
         t \in Resumed /\ (Expect[t] # None \/ \A x \in items : x.task # t)
    /\ \A x \in items : pc[x.task] = "forget_wait" => x.at # Pending
    /\ (\E x \in items : x.at = Pending) /\ ~open => pc[Main] = "flush_wait"

\* A writer's file is its link's partial file, writable until it is finished.
FilesInv ==
    /\ \A t \in Tasks : file[t] # None <=> pc[t] \in {"writing", "finish", "own_sync", "own_link"}
    /\ \A t \in Tasks : file[t] # None => part[UrlOf[t]] = file[t]
    /\ \A t \in Tasks : pc[t] = "writing" => ~inode[file[t]].sealed
    /\ \A t \in Tasks : pc[t] = "finish" =>
         got[t] \in Digests /\ inode[file[t]].sealed /\ inode[file[t]].bytes = got[t]
    /\ \A u, v \in Urls : part[u] # None /\ part[u] = part[v] => u = v

\* What is about to take its name is on the disk, and a loss is known until the batch ends.
FlushInv ==
    /\ \A x \in items : x.at # Pending /\ pc[x.at] \in {"name", "link", "own_link"} =>
         inode[part[UrlOf[x.task]]].disk = "durable"
    /\ \A i \in Inodes : inode[i].disk = "lost" => lossUnseen \/ unflushed

IInv ==
    /\ TypeOK /\ LabelsInv /\ LocksInv /\ ClaimInv /\ ItemsInv
    /\ FilesInv /\ FlushInv /\ WaitingKeepsItsBytes /\ NamedIntact

(***************************************************************************)
(* Why ImplementsStore holds.  It holds of such batches if a download that *)
(* fails stops the batch, or leaves no other of its link.                  *)
(***************************************************************************)
FailuresTell == Apart => \A s, t \in Tasks : UrlOf[s] = UrlOf[t] => s = t

\* The batch cannot report success any more.
Sunk == failed \/ aborted \/ \E t \in Tasks : pc[t] = "fatal"

\* From the end of its transfer on, a download has its hash, which names its bytes, or waits for
\* that, or the batch fails.
Answering == {"own_sync", "own_link", "flush_wait", "flush", "name", "verify", "ok"}
Due(t) == \E x \in items : x.task = t
Stored(t) == got[t] \in Digests /\ (object[got[t]] # None \/ Due(t) \/ Sunk)
AnswersInv ==
    /\ \A t \in Tasks : pc[t] \in Answering => Stored(t)
    /\ \A x \in items : x.digest = got[x.task]

\* The batch reports once all tasks ended, or it was aborted, and what failed is kept for it.
ReportInv ==
    /\ unflushed => failed
    /\ pc[Main] # "running" => aborted \/ \A t \in Tasks : pc[t] \in {"ok", "failed"}
    /\ pc[Main] \notin {"running", "publish"} => ~open
    /\ pc[Main] = "ok" => ~aborted /\ ~failed

AnsweredInv == IInv /\ AnswersInv /\ ReportInv
=============================================================================
