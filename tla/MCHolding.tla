------------------------------ MODULE MCHolding ------------------------------
(***************************************************************************)
(* One run for the hold of a project and for a batch of downloads of one   *)
(* link.  The first state chooses: two systems on a folder with hardlinks, *)
(* as the .cfg says, one system on a folder without them, or the batch.    *)
(* The variables of the others stay as they are.                           *)
(***************************************************************************)
EXTENDS ProjectHold, TLC
CONSTANTS p1, p2, p3, p4, windows, linux, t1, t2, u1, d1, d2, i1, i2, i3, i4, Main, Pending

\* Two commands on windows, two in WSL.
TwoSystems == (p1 :> windows) @@ (p2 :> windows) @@ (p3 :> linux) @@ (p4 :> linux)
OneSystemOf == [p \in Procs |-> linux]

VARIABLES
    component,
    at, waited, restarted, got, file, items, open, pendingLock, publishingLock, failed, unflushed,
    aborted, part, object, inode, lossUnseen    \* Deferred, whose pc is `at` here

batch == <<at, waited, restarted, got, file, items, open, pendingLock, publishingLock, failed,
           unflushed, aborted, part, object, inode, lossUnseen>>
hereVars == <<component, vars, batch>>

One == INSTANCE ProjectHold WITH
        OsOf <- OneSystemOf, LockingOses <- {linux}, Hardlinks <- FALSE, Deletes <- TRUE

\* One link that a pinned and an unpinned file share, left unfinished by an earlier run
D == INSTANCE Deferred WITH
        pc <- at, Tasks <- {t1, t2}, Urls <- {u1}, Digests <- {d1, d2}, Inodes <- {i1, i2, i3, i4},
        UrlOf <- [t \in {t1, t2} |-> u1], Expect <- (t1 :> d1) @@ (t2 :> None), Resumed <- {t2},
        Earlier <- (u1 :> i1), EarlierLoss <- FALSE, Group <- 2, Apart <- FALSE

NoBatch ==
    /\ at = None /\ waited = None /\ restarted = None /\ got = None /\ file = None /\ items = None
    /\ open = None /\ pendingLock = None /\ publishingLock = None /\ failed = None
    /\ unflushed = None /\ aborted = None /\ part = None /\ object = None /\ inode = None
    /\ lossUnseen = None

HereInit ==
    \/ component = "two systems" /\ Init /\ NoBatch
    \/ component = "one system" /\ One!Init /\ NoBatch
    \/ component = "batch" /\ D!Init /\ Init

HereNext ==
    /\ UNCHANGED component
    /\ \/ component = "two systems" /\ Next /\ UNCHANGED batch
       \/ component = "one system" /\ One!Next /\ UNCHANGED batch
       \/ component = "batch" /\ D!Next /\ UNCHANGED vars

\* One's Fairness, and that of D's FairSpec
HereFairness ==
    /\ WF_vars(component = "one system" /\ One!Age)
    /\ \A p \in Procs : WF_vars(component = "one system" /\ One!Step(p))
    /\ WF_batch(component = "batch" /\ D!Batch)
    /\ \A t \in {t1, t2} : WF_batch(component = "batch" /\ D!Download(t))

HereSpec == HereInit /\ [][HereNext]_hereVars /\ HereFairness

-----------------------------------------------------------------------------
\* ProjectHold: a command that waits behind others of its system gets its turn or ends, also behind
\* the empty reservations and records that killed commands left (claim, remove_stale_owner).
CommandsOfOneSystemEnd == component = "one system" => One!EveryCommandEnds

\* Deferred: two downloads of one link never write its bytes at once, and a hash in the cache names
\* whole bytes that have that hash, and no lost ones, whichever of the two brought them; and a
\* batch that ended leaves no finished download waiting to be named.
NamedByOneDownload ==
    component = "batch" => D!OneDownloadPerLink /\ D!NamedIntact /\ D!NothingLeftWaiting

\* Deferred: every batch ends, whatever its downloads wait for.
BatchEnds == <>(component = "batch" => at[Main] \in {"ok", "failed"})
=============================================================================
