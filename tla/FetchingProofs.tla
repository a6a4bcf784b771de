---------------------------- MODULE FetchingProofs ---------------------------
(***************************************************************************)
(* ClaimLock's mutual exclusion, for every number of downloads and lock    *)
(* files, with gc.lock or, without it, beside one gc; Requests: no key and *)
(* no request goes astray, whatever the keys, the names and the redirects; *)
(* Accounts: keys stay until replaced, for every set of accounts and of    *)
(* the files their tools read; and Watch: one question before large files, *)
(* for any number of them.                                                 *)
(***************************************************************************)
EXTENDS FetchingParts, FiniteSetTheorems, NaturalsInduction, WellFoundedInduction, TLAPS

\* At the start nobody has a file, so every part of IInv holds.
LEMMA InitOK == Init => IInv
  BY ProcsAssumption DEF Init, IInv, TypeOK, LockInv, HeldInv, NamedInv, Procs, ClaimerLabels,
     SweeperLabels, Locking

\* Two gcs at work are one gc: gc.lock is exclusive, and without it there is one.
LEMMA GcAlone ==
  ASSUME HeldInv, NEW r \in Sweepers, NEW s \in Sweepers,
         pc[r] \notin {"start", "dying", "end"}, pc[s] \notin {"start", "dying", "end"}
  PROVE  r = s
  BY OneGc DEF HeldInv, Procs

\* Dropping a process's lock leaves every other lock where it was.
LEMMA UnlockedFacts ==
  ASSUME TypeOK, NEW p \in Procs
  PROVE  /\ Unlocked(p) \in [Files -> Procs \union {None}]
         /\ \A f \in Files : Unlocked(p)[f] = IF locked[f] = p THEN None ELSE locked[f]
  BY DEF TypeOK, Unlocked

\* A claimer that has only opened a file holds no lock.
LEMMA NotYetLocked ==
  ASSUME IInv, NEW p \in Procs, pc[p] = "lock"
  PROVE  \A g \in Files : locked[g] # p
  BY ProcsAssumption DEF IInv, TypeOK, LockInv, Procs

\* A run takes or shares gc.lock: gc only when nobody has it, a run when no gc has it.
LEMMA HoldStep == ASSUME IInv, NEW p \in Procs, Hold(p) PROVE IInv'
<1>a. /\ pc[p] = "start" /\ pc' = [pc EXCEPT ![p] = "open"]
      /\ held' = IF GcLock THEN held \union {p} ELSE held
      /\ GcLock => IF p \in Sweepers THEN held = {} ELSE held \intersect Sweepers = {}
      /\ UNCHANGED <<named, opened, locked, bytes>>
  BY DEF Hold, Goto
<1>1. TypeOK'
  BY <1>a, ProcsAssumption DEF IInv, TypeOK, Procs, ClaimerLabels, SweeperLabels
<1>2. LockInv'
  BY <1>a, ProcsAssumption DEF IInv, TypeOK, LockInv, Locking, Procs
<1>3. HeldInv'
  BY <1>a, ProcsAssumption DEF IInv, TypeOK, HeldInv, Procs
<1>4. NamedInv'
  BY <1>a, ProcsAssumption DEF IInv, TypeOK, LockInv, NamedInv, Locking, Procs
<1>q. QED BY <1>1, <1>2, <1>3, <1>4 DEF IInv

\* A claimer opens the file the path names, or makes one where the path names none: then
\* neither an owner nor a gc at work has a file.
LEMMA OpenClaimStep == ASSUME IInv, NEW c \in Claimers, OpenClaim(c) PROVE IInv'
<1>a. /\ pc[c] = "open" /\ pc' = [pc EXCEPT ![c] = "lock"]
      /\ UNCHANGED <<locked, held, bytes>>
  BY DEF OpenClaim, Goto
<1>b. PICK f \in Files :
        /\ IF named # None THEN f = named ELSE \A p \in Procs : opened[p] # f
        /\ named' = f /\ opened' = [opened EXCEPT ![c] = f]
  BY DEF OpenClaim
<1>c. \A g \in Files : locked[g] # c
  BY <1>a, ProcsAssumption DEF IInv, TypeOK, LockInv, Procs
<1>1. TypeOK'
  BY <1>a, <1>b, ProcsAssumption DEF IInv, TypeOK, Procs, ClaimerLabels, SweeperLabels
<1>2. LockInv'
  BY <1>a, <1>b, <1>c, ProcsAssumption DEF IInv, TypeOK, LockInv, Locking, Procs
<1>3. HeldInv'
  BY <1>a, ProcsAssumption DEF IInv, TypeOK, HeldInv, Procs
<1>4. NamedInv'
  BY <1>a, <1>b, ProcsAssumption DEF IInv, TypeOK, LockInv, NamedInv, Locking, Procs
<1>q. QED BY <1>1, <1>2, <1>3, <1>4 DEF IInv

\* A lock taken is on the file that is open; a busy one closes it.
LEMMA TryClaimStep == ASSUME IInv, NEW c \in Claimers, TryClaim(c) PROVE IInv'
<1>a. /\ pc[c] = "lock" /\ UNCHANGED <<named, held, bytes>>
      /\ \/ /\ locked[opened[c]] = None /\ locked' = [locked EXCEPT ![opened[c]] = c]
            /\ pc' = [pc EXCEPT ![c] = "check"] /\ opened' = opened
         \/ /\ locked[opened[c]] # None /\ opened' = [opened EXCEPT ![c] = None]
            /\ pc' = [pc EXCEPT ![c] = "open"] /\ locked' = locked
  BY DEF TryClaim, Goto
<1>b. \A g \in Files : locked[g] # c
  BY NotYetLocked, <1>a DEF Procs
<1>1. TypeOK'
  BY <1>a, ProcsAssumption DEF IInv, TypeOK, Procs, ClaimerLabels, SweeperLabels
<1>2. LockInv'
  BY <1>a, <1>b, ProcsAssumption DEF IInv, TypeOK, LockInv, Locking, Procs
<1>3. HeldInv'
  BY <1>a, ProcsAssumption DEF IInv, TypeOK, HeldInv, Procs
<1>4. NamedInv'
  BY <1>a, ProcsAssumption DEF IInv, TypeOK, LockInv, NamedInv, Locking, Procs
<1>q. QED BY <1>1, <1>2, <1>3, <1>4 DEF IInv

\* Only a claimer whose file the path still names becomes its owner.
LEMMA CheckNameStep == ASSUME IInv, NEW c \in Claimers, CheckName(c) PROVE IInv'
<1>a. /\ pc[c] = "check" /\ UNCHANGED <<named, held, bytes>>
      /\ \/ /\ named = opened[c] /\ pc' = [pc EXCEPT ![c] = "owned"]
            /\ UNCHANGED <<opened, locked>>
         \/ /\ pc' = [pc EXCEPT ![c] = "open"]
            /\ opened' = [opened EXCEPT ![c] = None] /\ locked' = Unlocked(c)
  BY DEF CheckName, Goto
<1>1. TypeOK'
  BY <1>a, UnlockedFacts, ProcsAssumption DEF IInv, TypeOK, Procs, ClaimerLabels, SweeperLabels
<1>2. LockInv'
  BY <1>a, UnlockedFacts, ProcsAssumption DEF IInv, TypeOK, LockInv, Locking, Procs
<1>3. HeldInv'
  BY <1>a, ProcsAssumption DEF IInv, TypeOK, HeldInv, Procs
<1>4. NamedInv'
  BY <1>a, ProcsAssumption DEF IInv, TypeOK, LockInv, NamedInv, Locking, Procs
<1>q. QED BY <1>1, <1>2, <1>3, <1>4 DEF IInv

\* Without locks the download goes to a private file and keeps no lock.
LEMMA GoPrivateStep == ASSUME IInv, NEW c \in Claimers, GoPrivate(c) PROVE IInv'
<1>a. /\ pc[c] \in {"lock", "check"} /\ UNCHANGED <<named, held, bytes>>
      /\ pc' = [pc EXCEPT ![c] = "private"]
      /\ opened' = [opened EXCEPT ![c] = None] /\ locked' = Unlocked(c)
  BY DEF GoPrivate, Goto
<1>1. TypeOK'
  BY <1>a, UnlockedFacts, ProcsAssumption DEF IInv, TypeOK, Procs, ClaimerLabels, SweeperLabels
<1>2. LockInv'
  BY <1>a, UnlockedFacts, ProcsAssumption DEF IInv, TypeOK, LockInv, Locking, Procs
<1>3. HeldInv'
  BY <1>a, ProcsAssumption DEF IInv, TypeOK, HeldInv, Procs
<1>4. NamedInv'
  BY <1>a, ProcsAssumption DEF IInv, TypeOK, LockInv, NamedInv, Locking, Procs
<1>q. QED BY <1>1, <1>2, <1>3, <1>4 DEF IInv

\* Writing touches no lock.
LEMMA WriteStep == ASSUME IInv, NEW c \in Claimers, Write(c) PROVE IInv'
<1>a. bytes' = "fresh" /\ UNCHANGED <<pc, named, opened, locked, held>>
  BY DEF Write, Goto
<1>1. TypeOK'
  BY <1>a, ProcsAssumption DEF IInv, TypeOK, Procs, ClaimerLabels, SweeperLabels
<1>2. LockInv'
  BY <1>a, ProcsAssumption DEF IInv, TypeOK, LockInv, Locking, Procs
<1>3. HeldInv'
  BY <1>a, ProcsAssumption DEF IInv, TypeOK, HeldInv, Procs
<1>4. NamedInv'
  BY <1>a, ProcsAssumption DEF IInv, TypeOK, LockInv, NamedInv, Locking, Procs
<1>q. QED BY <1>1, <1>2, <1>3, <1>4 DEF IInv

\* Storing the bytes ends the claim.
LEMMA StoreStep == ASSUME IInv, NEW c \in Claimers, Store(c) PROVE IInv'
<1>a. /\ pc[c] = "owned" /\ pc' = [pc EXCEPT ![c] = "dying"] /\ bytes' = "none"
      /\ UNCHANGED <<named, opened, locked, held>>
  BY DEF Store, Goto
<1>1. TypeOK'
  BY <1>a, ProcsAssumption DEF IInv, TypeOK, Procs, ClaimerLabels, SweeperLabels
<1>2. LockInv'
  BY <1>a, ProcsAssumption DEF IInv, TypeOK, LockInv, Locking, Procs
<1>3. HeldInv'
  BY <1>a, ProcsAssumption DEF IInv, TypeOK, HeldInv, Procs
<1>4. NamedInv'
  BY <1>a, ProcsAssumption DEF IInv, TypeOK, LockInv, NamedInv, Locking, Procs
<1>q. QED BY <1>1, <1>2, <1>3, <1>4 DEF IInv

\* gc opens the file the path names.
LEMMA OpenSweepStep == ASSUME IInv, NEW s \in Sweepers, OpenSweep(s) PROVE IInv'
<1>a. /\ pc[s] = "open" /\ UNCHANGED <<named, locked, held, bytes>>
      /\ \/ pc' = [pc EXCEPT ![s] = "dying"] /\ opened' = opened
         \/ /\ named # None /\ pc' = [pc EXCEPT ![s] = "lock"]
            /\ opened' = [opened EXCEPT ![s] = named]
  BY DEF OpenSweep, Goto
<1>b. \A g \in Files : locked[g] # s
  BY <1>a, ProcsAssumption DEF IInv, TypeOK, LockInv, Procs
<1>1. TypeOK'
  BY <1>a, ProcsAssumption DEF IInv, TypeOK, Procs, ClaimerLabels, SweeperLabels
<1>2. LockInv'
  BY <1>a, <1>b, ProcsAssumption DEF IInv, TypeOK, LockInv, Locking, Procs
<1>3. HeldInv'
  BY <1>a, ProcsAssumption DEF IInv, TypeOK, HeldInv, Procs
<1>4. NamedInv'
  BY <1>a, ProcsAssumption DEF IInv, TypeOK, LockInv, NamedInv, Locking, Procs
<1>q. QED BY <1>1, <1>2, <1>3, <1>4 DEF IInv

\* gc goes on only with the lock.
LEMMA TrySweepStep == ASSUME IInv, NEW s \in Sweepers, TrySweep(s) PROVE IInv'
<1>a. /\ pc[s] = "lock" /\ UNCHANGED <<named, opened, held, bytes>>
      /\ \/ /\ locked[opened[s]] = None /\ locked' = [locked EXCEPT ![opened[s]] = s]
            /\ pc' = [pc EXCEPT ![s] = "judge"]
         \/ locked' = locked /\ pc' = [pc EXCEPT ![s] = "dying"]
  BY DEF TrySweep, Goto
<1>1. TypeOK'
  BY <1>a, ProcsAssumption DEF IInv, TypeOK, Procs, ClaimerLabels, SweeperLabels
<1>2. LockInv'
  BY <1>a, ProcsAssumption DEF IInv, TypeOK, LockInv, Locking, Procs
<1>3. HeldInv'
  BY <1>a, ProcsAssumption DEF IInv, TypeOK, HeldInv, Procs
<1>4. NamedInv'
  BY <1>a, ProcsAssumption DEF IInv, TypeOK, LockInv, NamedInv, Locking, Procs
<1>q. QED BY <1>1, <1>2, <1>3, <1>4 DEF IInv

\* What gc thinks of the download changes no lock.
LEMMA JudgeStep == ASSUME IInv, NEW s \in Sweepers, Judge(s) PROVE IInv'
<1>a. /\ pc[s] = "judge" /\ UNCHANGED <<named, opened, locked, held, bytes>>
      /\ \/ pc' = [pc EXCEPT ![s] = "dying"]
         \/ pc' = [pc EXCEPT ![s] = "remove"]
  BY DEF Judge, Goto
<1>1. TypeOK'
  BY <1>a, ProcsAssumption DEF IInv, TypeOK, Procs, ClaimerLabels, SweeperLabels
<1>2. LockInv'
  BY <1>a, ProcsAssumption DEF IInv, TypeOK, LockInv, Locking, Procs
<1>3. HeldInv'
  BY <1>a, ProcsAssumption DEF IInv, TypeOK, HeldInv, Procs
<1>4. NamedInv'
  BY <1>a, ProcsAssumption DEF IInv, TypeOK, LockInv, NamedInv, Locking, Procs
<1>q. QED BY <1>1, <1>2, <1>3, <1>4 DEF IInv

\* Removing the bytes changes no lock.
LEMMA RemoveBytesStep == ASSUME IInv, NEW s \in Sweepers, RemoveBytes(s) PROVE IInv'
<1>a. /\ pc[s] = "remove" /\ pc' = [pc EXCEPT ![s] = "unlink"] /\ bytes' \in {"none", bytes}
      /\ UNCHANGED <<named, opened, locked, held>>
  BY DEF RemoveBytes, Goto
<1>1. TypeOK'
  BY <1>a, ProcsAssumption DEF IInv, TypeOK, Procs, ClaimerLabels, SweeperLabels
<1>2. LockInv'
  BY <1>a, ProcsAssumption DEF IInv, TypeOK, LockInv, Locking, Procs
<1>3. HeldInv'
  BY <1>a, ProcsAssumption DEF IInv, TypeOK, HeldInv, Procs
<1>4. NamedInv'
  BY <1>a, ProcsAssumption DEF IInv, TypeOK, LockInv, NamedInv, Locking, Procs
<1>q. QED BY <1>1, <1>2, <1>3, <1>4 DEF IInv

\* When the lock file loses its name, gc holds its lock, so nobody owns the download.
LEMMA UnlinkStep == ASSUME IInv, NEW s \in Sweepers, Unlink(s) PROVE IInv'
<1>a. /\ pc[s] = "unlink" /\ pc' = [pc EXCEPT ![s] = "dying"] /\ named' \in {None, named}
      /\ UNCHANGED <<opened, locked, held, bytes>>
  BY DEF Unlink, Goto
<1>b. named = opened[s] /\ opened[s] # None /\ locked[opened[s]] = s
  BY <1>a DEF IInv, LockInv, NamedInv, Locking, Procs
<1>c. \A r \in Sweepers : pc[r] \in {"lock", "judge", "remove", "unlink"} => r = s
  BY <1>a, GcAlone DEF IInv
<1>1. TypeOK'
  BY <1>a, ProcsAssumption DEF IInv, TypeOK, Procs, ClaimerLabels, SweeperLabels
<1>2. LockInv'
  BY <1>a, ProcsAssumption DEF IInv, TypeOK, LockInv, Locking, Procs
<1>3. HeldInv'
  BY <1>a, ProcsAssumption DEF IInv, TypeOK, HeldInv, Procs
<1>4. NamedInv'
  BY <1>a, <1>b, <1>c, ProcsAssumption DEF IInv, TypeOK, LockInv, NamedInv, Locking, Procs
<1>q. QED BY <1>1, <1>2, <1>3, <1>4 DEF IInv

\* A run that ends still has its locks.
LEMMA DieStep == ASSUME IInv, NEW p \in Procs, Die(p) PROVE IInv'
<1>a. /\ pc' = [pc EXCEPT ![p] = "dying"] /\ pc[p] \notin {"start", "dying", "end"}
      /\ UNCHANGED <<named, opened, locked, held, bytes>>
  BY DEF Die, Goto
<1>1. TypeOK'
  BY <1>a, ProcsAssumption DEF IInv, TypeOK, Procs, ClaimerLabels, SweeperLabels
<1>2. LockInv'
  BY <1>a, ProcsAssumption DEF IInv, TypeOK, LockInv, Locking, Procs
<1>3. HeldInv'
  BY <1>a, ProcsAssumption DEF IInv, TypeOK, HeldInv, Procs
<1>4. NamedInv'
  BY <1>a, ProcsAssumption DEF IInv, TypeOK, LockInv, NamedInv, Locking, Procs
<1>q. QED BY <1>1, <1>2, <1>3, <1>4 DEF IInv

\* Closing the file drops its lock.
LEMMA CloseLockStep == ASSUME IInv, NEW p \in Procs, CloseLock(p) PROVE IInv'
<1>a. /\ pc[p] = "dying" /\ UNCHANGED <<pc, named, held, bytes>>
      /\ opened' = [opened EXCEPT ![p] = None] /\ locked' = Unlocked(p)
  BY DEF CloseLock, Goto
<1>1. TypeOK'
  BY <1>a, UnlockedFacts, ProcsAssumption DEF IInv, TypeOK, Procs, ClaimerLabels, SweeperLabels
<1>2. LockInv'
  BY <1>a, UnlockedFacts, ProcsAssumption DEF IInv, TypeOK, LockInv, Locking, Procs
<1>3. HeldInv'
  BY <1>a, ProcsAssumption DEF IInv, TypeOK, HeldInv, Procs
<1>4. NamedInv'
  BY <1>a, ProcsAssumption DEF IInv, TypeOK, LockInv, NamedInv, Locking, Procs
<1>q. QED BY <1>1, <1>2, <1>3, <1>4 DEF IInv

\* gc.lock is let go only by a run that ends.
LEMMA CloseHoldStep == ASSUME IInv, NEW p \in Procs, CloseHold(p) PROVE IInv'
<1>a. /\ pc[p] = "dying" /\ held' = held \ {p}
      /\ UNCHANGED <<pc, named, opened, locked, bytes>>
  BY DEF CloseHold, Goto
<1>1. TypeOK'
  BY <1>a, ProcsAssumption DEF IInv, TypeOK, Procs, ClaimerLabels, SweeperLabels
<1>2. LockInv'
  BY <1>a, ProcsAssumption DEF IInv, TypeOK, LockInv, Locking, Procs
<1>3. HeldInv'
  BY <1>a, ProcsAssumption DEF IInv, TypeOK, HeldInv, Procs
<1>4. NamedInv'
  BY <1>a, ProcsAssumption DEF IInv, TypeOK, LockInv, NamedInv, Locking, Procs
<1>q. QED BY <1>1, <1>2, <1>3, <1>4 DEF IInv

\* A run that has ended has nothing open.
LEMMA EndStep == ASSUME IInv, NEW p \in Procs, End(p) PROVE IInv'
<1>a. /\ pc[p] = "dying" /\ opened[p] = None /\ p \notin held
      /\ pc' = [pc EXCEPT ![p] = "end"] /\ UNCHANGED <<named, opened, locked, held, bytes>>
  BY DEF End, Goto
<1>1. TypeOK'
  BY <1>a, ProcsAssumption DEF IInv, TypeOK, Procs, ClaimerLabels, SweeperLabels
<1>2. LockInv'
  BY <1>a, ProcsAssumption DEF IInv, TypeOK, LockInv, Locking, Procs
<1>3. HeldInv'
  BY <1>a, ProcsAssumption DEF IInv, TypeOK, HeldInv, Procs
<1>4. NamedInv'
  BY <1>a, ProcsAssumption DEF IInv, TypeOK, LockInv, NamedInv, Locking, Procs
<1>q. QED BY <1>1, <1>2, <1>3, <1>4 DEF IInv

\* Every step of the system keeps IInv.
LEMMA NextOK == IInv /\ [Next]_vars => IInv'
<1> SUFFICES ASSUME IInv, [Next]_vars PROVE IInv'
  OBVIOUS
<1>1. ASSUME NEW c \in Claimers, Run(c) PROVE IInv'
  BY <1>1, HoldStep, OpenClaimStep, TryClaimStep, CheckNameStep, GoPrivateStep, WriteStep,
     StoreStep DEF Run, Procs
<1>2. ASSUME NEW s \in Sweepers, Gc(s) PROVE IInv'
  BY <1>2, HoldStep, OpenSweepStep, TrySweepStep, JudgeStep, RemoveBytesStep, UnlinkStep
     DEF Gc, Procs
<1>3. ASSUME NEW p \in Procs, Exit(p) PROVE IInv'
  BY <1>3, DieStep, CloseLockStep, CloseHoldStep, EndStep DEF Exit
<1>4. CASE Age
  BY <1>4 DEF Age, IInv, TypeOK, LockInv, HeldInv, NamedInv
<1>5. CASE UNCHANGED vars
  BY <1>5 DEF vars, IInv, TypeOK, LockInv, HeldInv, NamedInv
<1>q. QED BY <1>1, <1>2, <1>3, <1>4, <1>5 DEF Next, Procs

\* IInv holds in every state of every behaviour.
THEOREM Invariance == Spec => []IInv
  BY InitOK, NextOK, PTL DEF Spec

\* An owner's file is the one the path names and its lock is the owner's, so two downloads
\* never own one link's partial file (take_lock).
THEOREM MutualExclusion == Spec => []OneOwner
<1>1. IInv => OneOwner
  BY DEF IInv, NamedInv, LockInv, Locking, OneOwner, Procs
<1>q. QED BY Invariance, <1>1, PTL

\* gc removes only bytes that nobody owns, because it holds the lock of the file the path
\* names (sweep_partials).
THEOREM NoLoss == Spec => OwnedBytesStay
<1> DEFINE Stays == (\E c \in Claimers : pc[c] = "owned" /\ pc'[c] = "owned")
                     => (bytes' = "none" => bytes = "none")
<1>1. IInv /\ [Next]_vars => [Stays]_vars
  <2> SUFFICES ASSUME IInv, Next, NEW c \in Claimers, pc[c] = "owned", pc'[c] = "owned",
                      bytes' = "none"
               PROVE  bytes = "none"
    BY DEF vars
  <2>1. named = opened[c] /\ opened[c] # None /\ locked[named] = c
    BY DEF IInv, NamedInv, LockInv, Locking, Procs
  <2>2. \A d \in Claimers : pc[d] = "owned" => d = c
    BY <2>1 DEF IInv, NamedInv, LockInv, Locking, Procs
  <2>3. \A s \in Sweepers : pc[s] # "remove"
    BY <2>1, ProcsAssumption DEF IInv, NamedInv, LockInv, Locking, Procs
  <2>4. ASSUME NEW d \in Claimers, Run(d) PROVE bytes = "none"
    <3>1. ~Store(d)
      BY <2>2 DEF Store, Goto, IInv, TypeOK, Procs
    <3>q. QED BY <2>4, <3>1 DEF Run, Hold, OpenClaim, TryClaim, CheckName, GoPrivate, Write
  <2>5. ASSUME NEW s \in Sweepers, Gc(s) PROVE bytes = "none"
    BY <2>5, <2>3 DEF Gc, Hold, OpenSweep, TrySweep, Judge, RemoveBytes, Unlink
  <2>6. ASSUME NEW p \in Procs, Exit(p) PROVE bytes = "none"
    BY <2>6 DEF Exit, Die, CloseLock, CloseHold, End
  <2>7. CASE Age
    BY <2>7 DEF Age
  <2>8. CASE UNCHANGED vars
    BY <2>8 DEF vars
  <2>q. QED BY <2>4, <2>5, <2>6, <2>7, <2>8 DEF Next, Procs
<1>q. QED BY Invariance, <1>1, PTL DEF Spec, OwnedBytesStay

-----------------------------------------------------------------------------
(***************************************************************************)
(* Requests: where a key and a request may go.                             *)
(***************************************************************************)

\* At the start nothing is asked for.
LEMMA RequestsInit == Q!Init => Q!IInv
  BY DEF Q!Init, Q!IInv, Q!KeyInv, Q!OnlySent, Q!HomeInv, Q!PlaceInv, Q!Active, Q!OnItsWay,
     Q!KeysStayHome, Q!NothingPrivate

\* A request carries one value of a header: the first that a header can carry.
LEMMA CarriesOne ==
  ASSUME Q!RequestsAssumption, NEW u, NEW home, NEW k \in Q!Carries(u, home), NEW l \in Q!Carries(u,
         home),
         k.header = l.header
  PROVE  k = l
<1>1. PICK i \in DOMAIN Credentials :
         /\ k = Credentials[i] /\ Credentials[i].value \notin Unsendable
         /\ \A h \in 1 .. i - 1 :
              Credentials[h].value \in Unsendable \/ ~Q!Same(Credentials[h], Credentials[i])
  BY DEF Q!Carries, Q!Keys
<1>2. PICK j \in DOMAIN Credentials :
         /\ l = Credentials[j] /\ Credentials[j].value \notin Unsendable
         /\ \A h \in 1 .. j - 1 :
              Credentials[h].value \in Unsendable \/ ~Q!Same(Credentials[h], Credentials[j])
  BY DEF Q!Carries, Q!Keys
<1>3. Q!Same(k, l) /\ Q!Same(l, k)
  BY DEF Q!Carries, Q!Same
<1>4. i \in Nat \ {0} /\ j \in Nat \ {0}
  BY DEF Q!RequestsAssumption
<1>5. i \notin 1 .. j - 1 /\ j \notin 1 .. i - 1
  BY <1>1, <1>2, <1>3
<1>6. i = j
  BY <1>4, <1>5
<1> QED
  BY <1>1, <1>2, <1>6

\* A key goes to its host and port over https, and those not meant for every hop from home alone.
LEMMA CarriesWell ==
  ASSUME NEW u, NEW home
  PROVE  \A k \in Q!Carries(u, home) :
            /\ u.scheme = "https" /\ k.host = u.host /\ k.port = u.port
            /\ k.everyHop \/ home
  BY DEF Q!Carries

\* A request that goes out at home was nowhere but at its link in this try.
LEMMA SendKeys == ASSUME Q!RequestsAssumption PROVE Q!KeyInv /\ Q!Send => Q!KeyInv'
<1> SUFFICES ASSUME Q!KeyInv, Q!Send PROVE Q!KeyInv'
  OBVIOUS
<1>1. /\ step = "send" /\ sent = None
      /\ UNCHANGED <<written, proxied, proxies, looked, link, hop>>
      /\ first' = Q!AtHome /\ been' = been \cup {hop}
  BY DEF Q!Send, Q!KeyInv, Q!OnlySent, Q!settings
<1>2. step' \in {"sent", "failed", "transient"} /\ (step' # "sent" => sent' = None)
  BY <1>1 DEF Q!Send, Q!Goes, Q!Failed
<1>3. step' = "sent" =>
        /\ Q!Left(Q!Peer(hop)) # {}
        /\ sent' = [to |-> hop, carries |-> Q!Carries(hop, Q!AtHome), from |-> been \cup {hop},
                    reaches |-> Q!Left(Q!Peer(hop))]
  BY DEF Q!Send, Q!Goes, Q!Failed
<1>4. Q!OnlySent'
  BY <1>2 DEF Q!OnlySent
<1>5. Q!AtHome => been \cup {hop} = {link}
  BY <1>1 DEF Q!AtHome, Q!KeyInv, Q!HomeInv, Q!OnItsWay
<1>6. Q!HomeInv'
  BY <1>1, <1>5 DEF Q!HomeInv
<1>7. Q!KeysStayHome'
  <2> SUFFICES ASSUME step' = "sent" PROVE Q!KeysStayHome'
    BY <1>4 DEF Q!KeysStayHome, Q!OnlySent
  <2>1. sent'.to = hop /\ sent'.carries = Q!Carries(hop, Q!AtHome) /\ sent'.from = been \cup {hop}
    BY <1>3
  <2>2. \A k \in sent'.carries :
          /\ sent'.to.scheme = "https" /\ k.host = sent'.to.host /\ k.port = sent'.to.port
          /\ k.everyHop \/ sent'.from = {link'}
    BY <1>1, <1>5, <2>1, CarriesWell
  <2>3. \A k, l \in sent'.carries : k.header = l.header => k = l
    BY <2>1, CarriesOne
  <2> QED
    BY <2>2, <2>3 DEF Q!KeysStayHome
<1> QED
  BY <1>4, <1>6, <1>7 DEF Q!KeyInv

\* A step that ends a request, starts a try, or goes on with one that was at home.
LEMMA OtherKeys ==
  ASSUME Q!KeyInv, sent' = None,
         \/ UNCHANGED <<link, first, been>> /\ (step' \in {"check", "send", "sent"} => Q!OnItsWay)
         \/ been' = {}
         \/ ~Q!OnItsWay'
  PROVE  Q!KeyInv'
  BY DEF Q!KeyInv, Q!OnlySent, Q!HomeInv, Q!OnItsWay, Q!KeysStayHome

\* Every step keeps KeyInv.
LEMMA KeyStep == ASSUME Q!RequestsAssumption PROVE Q!KeyInv /\ [Q!Next]_(Q!vars) => Q!KeyInv'
<1> SUFFICES ASSUME Q!KeyInv, [Q!Next]_(Q!vars) PROVE Q!KeyInv'
  OBVIOUS
<1> USE DEF Q!OnItsWay
<1>0. step # "sent" => sent = None
  BY DEF Q!KeyInv, Q!OnlySent
<1>1. CASE Q!Ask
  <2>1. sent' = None /\ (been' = {} \/ step' = "failed")
    BY <1>0, <1>1 DEF Q!Ask, Q!Starts, Q!Goes
  <2> QED BY <2>1, OtherKeys
<1>2. CASE Q!Check
  <2>1. sent' = None /\ step = "check" /\ UNCHANGED <<link, first, been>>
    BY <1>0, <1>2 DEF Q!Check, Q!trying
  <2> QED BY <2>1, OtherKeys
<1>3. CASE Q!Send
  BY <1>3, SendKeys
<1>4. CASE Q!Redirect
  <2>1. sent' = None /\ step = "sent" /\ UNCHANGED <<link, first, been>>
    BY <1>4 DEF Q!Redirect
  <2> QED BY <2>1, OtherKeys
<1>5. CASE Q!Answer
  <2>1. sent' = None /\ step = "sent" /\ UNCHANGED <<link, first, been>>
    BY <1>5 DEF Q!Answer, Q!trying
  <2> QED BY <2>1, OtherKeys
<1>6. CASE Q!Wait
  <2>1. sent' = None /\ (been' = {} \/ step' = "failed")
    BY <1>0, <1>6 DEF Q!Wait, Q!Starts, Q!Goes
  <2> QED BY <2>1, OtherKeys
<1>7. CASE Q!WaitLimited
  <2>1. sent' = None /\ been' = {}
    BY <1>0, <1>7 DEF Q!WaitLimited, Q!Starts
  <2> QED BY <2>1, OtherKeys
<1>8. CASE Q!Stop
  <2>1. sent' = None /\ step' = "failed"
    BY <1>8 DEF Q!Stop, Q!Goes
  <2> QED BY <2>1, OtherKeys
<1>9. CASE UNCHANGED Q!vars
  BY <1>9 DEF Q!vars, Q!KeyInv, Q!OnlySent, Q!HomeInv, Q!KeysStayHome
<1> QED
  BY <1>1, <1>2, <1>3, <1>4, <1>5, <1>6, <1>7, <1>8, <1>9 DEF Q!Next, Q!Works

\* A link is asked for where a person wrote it, or it is no private address and no proxy.
LEMMA AskStep == Q!IInv /\ Q!Ask => Q!PlaceInv' /\ Q!NothingPrivate'
<1> SUFFICES ASSUME Q!IInv, Q!Ask PROVE Q!PlaceInv' /\ Q!NothingPrivate'
  OBVIOUS
<1> USE DEF Q!Ask
<1>1. sent = None /\ sent' = None
  BY DEF Q!IInv, Q!KeyInv, Q!OnlySent
<1>2. Q!NothingPrivate'
  BY <1>1 DEF Q!NothingPrivate
<1>4. PICK u \in Links : /\ link' = u
                         /\ \/ Q!Allowed(u) /\ Q!Starts(u)
                            \/ ~Q!Allowed(u) /\ Q!Goes("failed") /\ UNCHANGED Q!trying
  OBVIOUS
<1>5. CASE Q!Allowed(u) /\ Q!Starts(u)
  <2>1. hop' = u /\ link' = u /\ step' = "check"
    BY <1>4, <1>5 DEF Q!Starts, Q!Goes
  <2>2. UNCHANGED <<written, proxied, proxies, looked>>
    BY DEF Q!settings
  <2>3. Q!Checked(u)' /\ Q!Hidden(u)'
    BY <1>5, <2>2 DEF Q!Allowed, Q!Checked, Q!Hidden, Q!Through
  <2> QED
    BY <1>2, <2>1, <2>2, <2>3 DEF Q!IInv, Q!PlaceInv, Q!Active, Q!OnItsWay
<1>6. CASE ~Q!Allowed(u) /\ Q!Goes("failed")
  BY <1>2, <1>6 DEF Q!IInv, Q!PlaceInv, Q!Active, Q!OnItsWay, Q!Goes
<1> QED
  BY <1>4, <1>5, <1>6

\* A name nobody wrote is looked up before the proxy carries a request to it; a proxy used first
\* here is not the link, or is the hop itself.
LEMMA CheckStep == Q!IInv /\ Q!Check => Q!PlaceInv' /\ Q!NothingPrivate'
<1> SUFFICES ASSUME Q!IInv, Q!Check PROVE Q!PlaceInv' /\ Q!NothingPrivate'
  OBVIOUS
<1>1. step = "check" /\ step' \in {"send", "failed"} /\ UNCHANGED <<written, proxied, link, hop, first,
      been, sent>>
  BY DEF Q!Check, Q!Goes, Q!settings, Q!trying
<1>2. Q!NothingPrivate'
  BY <1>1 DEF Q!IInv, Q!KeyInv, Q!OnlySent, Q!NothingPrivate
<1>3. proxies' \subseteq {Proxy} /\ (proxies' # proxies => Q!Through(hop))
  BY DEF Q!Check, Q!IInv, Q!PlaceInv
<1>4. Q!Checked(link)' /\ Q!Checked(hop)'
  BY <1>1 DEF Q!IInv, Q!PlaceInv, Q!Active, Q!OnItsWay, Q!Checked
<1>5. Q!Hidden(hop)'
  BY <1>1, <1>3 DEF Q!IInv, Q!PlaceInv, Q!OnItsWay, Q!Hidden, Q!Through
<1>6. Q!Hidden(link)'
  <2>1. CASE Q!AsksProxy(link)
    BY <1>1, <1>5, <2>1 DEF Q!IInv, Q!PlaceInv, Q!Active, Q!OnItsWay
  <2>2. CASE ~Q!AsksProxy(link)
    BY <1>1, <1>3, <2>2 DEF Q!IInv, Q!PlaceInv, Q!Active, Q!Hidden, Q!AsksProxy, Q!Through
  <2> QED
    BY <2>1, <2>2
<1>7. step' = "send" /\ Q!Through(hop) /\ hop.host \notin Literal \cup written
      => looked'[hop.host] # "private"
  BY DEF Q!Check, Q!Goes
<1>8. Q!PlaceInv'
  BY <1>1, <1>3, <1>4, <1>5, <1>6, <1>7 DEF Q!IInv, Q!PlaceInv, Q!Active, Q!OnItsWay, Q!AsksProxy,
     Q!Through
<1> QED
  BY <1>2, <1>8

\* A request reaches what the resolver leaves: no private address of a host nobody wrote, but by way
\* of the proxy.  The proxy itself, asked for as a host, has none but private ones.
LEMMA SendStep == ASSUME Q!OneKind PROVE Q!IInv /\ Q!Send => Q!PlaceInv' /\ Q!NothingPrivate'
<1> SUFFICES ASSUME Q!IInv, Q!Send PROVE Q!PlaceInv' /\ Q!NothingPrivate'
  OBVIOUS
<1>1. /\ step = "send" /\ sent = None
      /\ UNCHANGED <<written, proxied, proxies, looked, link, hop>>
      /\ step' \in {"sent", "failed", "transient"} /\ (step' # "sent" => sent' = None)
  BY DEF Q!Send, Q!IInv, Q!KeyInv, Q!OnlySent, Q!settings, Q!Goes, Q!Failed
<1>2. step' = "sent" => Q!Left(Q!Peer(hop)) # {} /\ sent'.to = hop /\ sent'.reaches = Q!Left(Q!Peer(hop))
  BY <1>1 DEF Q!Send, Q!Goes, Q!Failed
<1>3. ~Q!AsksProxy(link) \/ hop = link
  BY <1>1 DEF Q!IInv, Q!PlaceInv, Q!Active, Q!OnItsWay
<1>4. Q!Checked(hop) /\ Q!Hidden(hop) /\ hop \in Links /\ proxies \subseteq {Proxy}
      /\ link \in Links /\ Q!Checked(link) /\ Q!Hidden(link)
  BY <1>1 DEF Q!IInv, Q!PlaceInv, Q!Active, Q!OnItsWay
<1>5. ~Q!Through(hop) /\ hop.host \notin written => "private" \notin Q!Left(hop.host)
  BY <1>4 DEF Q!Checked, Q!Hidden, Q!Left, Q!MayBePrivate
<1>6. Q!AsksProxy(hop) => step' # "sent"
  <2> SUFFICES ASSUME Q!AsksProxy(hop) PROVE Q!Left(Q!Peer(hop)) = {}
    BY <1>2
  <2>1. Q!Peer(hop) = hop.host /\ hop.host = Proxy
    BY DEF Q!AsksProxy, Q!Peer
  <2>2. "private" \notin Q!Left(Proxy)
    BY <1>5, <2>1 DEF Q!AsksProxy
  <2>3. Q!Left(Proxy) \subseteq {"private"}
    BY DEF Q!OneKind, Q!AsksProxy, Q!Left
  <2> QED
    BY <2>1, <2>2, <2>3
<1>7. Q!PlaceInv'
  <2>1. Q!AsksProxy(link)' <=> Q!AsksProxy(link)
    BY <1>1 DEF Q!AsksProxy, Q!Through
  <2>2. (Q!Checked(link) /\ Q!Hidden(link) /\ Q!Checked(hop) /\ Q!Hidden(hop))'
    BY <1>1, <1>4 DEF Q!Checked, Q!Hidden, Q!Through
  <2>3. Q!AsksProxy(link) => step' # "sent"
    BY <1>3, <1>6
  <2> QED
    BY <1>1, <1>4, <2>1, <2>2, <2>3 DEF Q!PlaceInv, Q!Active, Q!OnItsWay
<1>8. Q!NothingPrivate'
  <2> SUFFICES ASSUME step' = "sent", "private" \in Q!Left(Q!Peer(hop)), hop.host \notin written
               PROVE  /\ Q!Through(hop)
                      /\ IF hop.host \in Literal THEN "private" \notin Resolves[hop.host]
                         ELSE looked[hop.host] # "private"
    BY <1>1, <1>2 DEF Q!NothingPrivate, Q!Through
  <2>1. Q!Through(hop)
    BY <1>5 DEF Q!Peer
  <2> QED
    BY <1>1, <1>4, <2>1 DEF Q!Checked, Q!IInv, Q!PlaceInv
<1> QED
  BY <1>7, <1>8

\* A redirect is checked like a link, with the proxies known by now.
LEMMA RedirectStep == Q!IInv /\ Q!Redirect => Q!PlaceInv' /\ Q!NothingPrivate'
<1> SUFFICES ASSUME Q!IInv, Q!Redirect PROVE Q!PlaceInv' /\ Q!NothingPrivate'
  OBVIOUS
<1>1. step = "sent" /\ sent' = None /\ UNCHANGED <<written, proxied, proxies, looked, link, first, been>>
  BY DEF Q!Redirect, Q!settings
<1>2. \/ step' = "failed"
      \/ step' = "check" /\ hop' \in Links /\ Q!Allowed(hop')
  BY DEF Q!Redirect, Q!Goes
<1>3. Q!NothingPrivate'
  BY <1>1 DEF Q!IInv, Q!KeyInv, Q!OnlySent, Q!NothingPrivate
<1>4. ~Q!AsksProxy(link)' /\ link \in Links /\ (Q!Checked(link) /\ Q!Hidden(link))'
      /\ proxies' \subseteq {Proxy}
  BY <1>1 DEF Q!IInv, Q!PlaceInv, Q!Active, Q!AsksProxy, Q!Checked, Q!Hidden, Q!Through
<1>5. step' = "check" => (Q!Checked(hop) /\ Q!Hidden(hop))'
  BY <1>1, <1>2 DEF Q!Allowed, Q!Checked, Q!Hidden, Q!Through
<1>6. Q!PlaceInv'
  BY <1>1, <1>2, <1>4, <1>5 DEF Q!PlaceInv, Q!Active, Q!OnItsWay
<1> QED
  BY <1>3, <1>6

\* Another try follows the link again.
LEMMA StartsStep ==
  ASSUME Q!IInv, Q!Starts(link), step \in {"transient", "limited"}, UNCHANGED <<Q!settings, proxies,
         looked, link, sent>>
  PROVE  Q!PlaceInv' /\ Q!NothingPrivate'
<1>1. sent' = None /\ step' = "check" /\ hop' = link' /\ been' = {}
      /\ UNCHANGED <<written, proxied, proxies, looked, link>>
  BY DEF Q!IInv, Q!KeyInv, Q!OnlySent, Q!Starts, Q!Goes, Q!settings
<1>2. Q!NothingPrivate'
  BY <1>1 DEF Q!NothingPrivate
<1>3. link \in Links /\ (Q!Checked(link) /\ Q!Hidden(link))' /\ proxies' \subseteq {Proxy}
  BY <1>1 DEF Q!IInv, Q!PlaceInv, Q!Active, Q!Checked, Q!Hidden, Q!Through
<1>4. (Q!Checked(hop) /\ Q!Hidden(hop))'
  BY <1>1, <1>3 DEF Q!Checked, Q!Hidden, Q!Through
<1>5. Q!PlaceInv'
  BY <1>1, <1>3, <1>4 DEF Q!PlaceInv, Q!Active, Q!OnItsWay
<1> QED
  BY <1>2, <1>5

\* Steps after which nothing is on its way: an answer, giving up, being stopped
LEMMA EndsStep ==
  ASSUME Q!IInv, UNCHANGED <<Q!settings, proxies, looked, link>>, sent' = None,
         \/ step' \in {"failed", "answered"}
         \/ step = "sent" /\ step' \in {"transient", "limited"}
  PROVE  Q!PlaceInv' /\ Q!NothingPrivate'
<1>1. UNCHANGED <<written, proxied, proxies, looked, link>>
  BY DEF Q!settings
<1>2. Q!NothingPrivate'
  BY DEF Q!NothingPrivate
<1>3. Q!PlaceInv'
  BY <1>1 DEF Q!IInv, Q!PlaceInv, Q!Active, Q!OnItsWay, Q!Checked, Q!Hidden, Q!AsksProxy, Q!Through
<1> QED
  BY <1>2, <1>3

\* Every step keeps what says where links lead.
LEMMA PrivateStep == ASSUME Q!OneKind PROVE Q!IInv /\ [Q!Next]_(Q!vars) => Q!PlaceInv'
      /\ Q!NothingPrivate'
<1> SUFFICES ASSUME Q!IInv, [Q!Next]_(Q!vars) PROVE Q!PlaceInv' /\ Q!NothingPrivate'
  OBVIOUS
<1>1. CASE Q!Ask
  BY <1>1, AskStep
<1>2. CASE Q!Check
  BY <1>2, CheckStep
<1>3. CASE Q!Send
  BY <1>3, SendStep
<1>4. CASE Q!Redirect
  BY <1>4, RedirectStep
<1>5. CASE Q!Answer
  <2>1. step' \in {"answered", "failed", "transient", "limited"} /\ step = "sent" /\ sent' = None
    BY <1>5 DEF Q!Answer, Q!Goes, Q!Refusal, Q!Failed
  <2> QED
    BY <1>5, <2>1, EndsStep DEF Q!Answer
<1>6. CASE Q!Wait
  <2>1. step \in {"transient", "limited"} /\ sent = None /\ sent' = None
        /\ UNCHANGED <<Q!settings, proxies, looked, link, sent>>
    BY <1>6 DEF Q!Wait, Q!IInv, Q!KeyInv, Q!OnlySent
  <2>2. Q!Starts(link) \/ step' = "failed"
    BY <1>6 DEF Q!Wait, Q!Goes
  <2> QED
    BY <2>1, <2>2, StartsStep, EndsStep
<1>7. CASE Q!WaitLimited
  BY <1>7, StartsStep DEF Q!WaitLimited
<1>8. CASE Q!Stop
  BY <1>8, EndsStep DEF Q!Stop, Q!Goes
<1>9. CASE UNCHANGED Q!vars
  BY <1>9 DEF Q!vars, Q!IInv, Q!OnlySent, Q!HomeInv, Q!PlaceInv, Q!Active, Q!OnItsWay, Q!Checked,
     Q!Hidden, Q!AsksProxy, Q!Through,
     Q!KeysStayHome, Q!NothingPrivate
<1> QED
  BY <1>1, <1>2, <1>3, <1>4, <1>5, <1>6, <1>7, <1>8, <1>9 DEF Q!Next, Q!Works

-----------------------------------------------------------------------------
\* For any keys, links, redirects, tries and names, and whatever proxy: a request carries the keys of
\* its own host and port alone, over https, one value of a header, and those that do not go on every
\* hop only where its try was nowhere else.
THEOREM KeysOfTheirHost ==
  ASSUME Q!RequestsAssumption
  PROVE  Q!Spec => []Q!KeysStayHome
<1>1. Q!Init => Q!KeyInv
  BY RequestsInit DEF Q!IInv
<1>2. Q!KeyInv /\ [Q!Next]_(Q!vars) => Q!KeyInv'
  BY KeyStep
<1>3. Q!KeyInv => Q!KeysStayHome
  BY DEF Q!KeyInv
<1>q. QED BY <1>1, <1>2, <1>3, PTL DEF Q!Spec

\* And it reaches no private address that nobody wrote, where the name of the proxy itself has
\* addresses of one kind: see OneKind.
THEOREM NothingGoesAstray ==
  ASSUME Q!RequestsAssumption, Q!OneKind
  PROVE  IsOf("requests") /\ Q!Spec => []NothingAstray
<1>1. Q!Init => Q!IInv
  BY RequestsInit
<1>2. Q!IInv /\ [Q!Next]_(Q!vars) => Q!IInv'
  BY KeyStep, PrivateStep DEF Q!IInv
<1>3. Q!IInv => NothingAstray
  BY DEF Q!IInv, Q!KeyInv, NothingAstray
<1>q. QED BY <1>1, <1>2, <1>3, PTL DEF Q!Spec

-----------------------------------------------------------------------------
(***************************************************************************)
(* Accounts, for any number of them.                                       *)
(***************************************************************************)
\* A set of numbers has a smallest.
LEMMA Smallest ==
  ASSUME NEW S \in SUBSET Nat, S # {}
  PROVE  \E i \in S : \A j \in S : i <= j
<1> DEFINE R == OpToRel(<, Nat)
<1>1. IsWellFoundedOn(R, Nat)
  BY NatLessThanWellFounded
<1>2. PICK i \in S : \A j \in S : <<j, i>> \notin R
  BY <1>1, WFMin
<1>3. \A j \in S : ~(j < i)
  BY <1>2 DEF OpToRel
<1>q. QED BY <1>3

LEMMA ForemostFirst ==
  ASSUME A!AccountsAssumption, NEW a \in A!Accounts, A!Holding(a) # {}
  PROVE  A!Foremost(a) \in A!Holding(a) /\ \A j \in A!Holding(a) : A!Foremost(a) <= j
<1>1. A!Holding(a) \subseteq Nat
  BY DEF A!AccountsAssumption, A!Holding
<1>2. \E i \in A!Holding(a) : \A j \in A!Holding(a) : i <= j
  BY <1>1, Smallest
<1>q. QED BY <1>2 DEF A!Foremost

LEMMA ForemostFirstThen ==
  ASSUME A!AccountsAssumption, NEW a \in A!Accounts, A!Holding(a)' # {}
  PROVE  A!Foremost(a)' \in A!Holding(a)' /\ \A j \in A!Holding(a)' : A!Foremost(a)' <= j
<1>1. A!Holding(a)' \subseteq Nat
  BY DEF A!AccountsAssumption, A!Holding
<1>2. \E i \in A!Holding(a)' : \A j \in A!Holding(a)' : i <= j
  BY <1>1, Smallest
<1>q. QED BY <1>2 DEF A!Foremost

\* An account whose entries stay as they are is held as it was.
LEMMA HeldStays ==
  ASSUME NEW a \in A!Accounts,
         \A i \in DOMAIN ToolFiles[a] :
            /\ A!Of(files[ToolFiles[a][i]], a)' = A!Of(files[ToolFiles[a][i]], a)
            /\ i \in A!Holding(a) => files'[ToolFiles[a][i]][a] = files[ToolFiles[a][i]][a],
         A!AccountsAssumption,
         A!Of(index.entries, a)' = A!Of(index.entries, a),
         A!Of(index.entries, a) # None =>
           /\ index.entries'[a] = index.entries[a]
           /\ A!Of(secrets[index.entries[a]].entries, a)'
                 = A!Of(secrets[index.entries[a]].entries, a)
  PROVE  A!Held(a)' = A!Held(a)
<1>1. A!Holding(a)' = A!Holding(a)
  BY DEF A!Holding
<1>2. A!Foremost(a)' = A!Foremost(a)
  BY <1>1 DEF A!Foremost
<1>3. A!Holding(a) # {} => A!Foremost(a) \in DOMAIN ToolFiles[a] /\ A!Foremost(a) \in A!Holding(a)
  BY ForemostFirst DEF A!Holding
<1>q. QED BY <1>1, <1>2, <1>3 DEF A!Held

LEMMA AccountsStart == A!Init => A!IInv
  BY DEF A!Init, A!IInv, A!TypeOK, A!KnowsIndex, A!KeyInPlace, A!LeftWhereNamed, A!RunsWithNewKey,
         A!Idle

\* A command that ends leaves the files as they are.
LEMMA AccountsEnd ==
  ASSUME A!IInv, A!Ends, UNCHANGED <<A!kept, loose>>, run.step \notin {"unput", "name"}
  PROVE  A!IInv'
<1>1. run' = [step |-> "idle"] /\ UNCHANGED <<files, index, secrets>>
  BY DEF A!Ends, A!Idle, A!kept
<1>2. A!TypeOK' /\ A!KnowsIndex' /\ A!KeyInPlace' /\ A!RunsWithNewKey'
  BY <1>1 DEF A!IInv, A!TypeOK, A!KnowsIndex, A!KeyInPlace, A!RunsWithNewKey
<1>3. A!LeftWhereNamed'
  BY <1>1 DEF A!IInv, A!TypeOK, A!LeftWhereNamed, A!Passing, A!KnowsIndex, A!KeyInPlace
<1>q. QED BY <1>2, <1>3 DEF A!IInv

\* A step of the command that writes nothing, and is not the last one before it runs again.
LEMMA AccountsGo ==
  ASSUME A!IInv, NEW to \in {"work", "offer", "sign in", "sign out", "again", "save"},
         run.step \in {"idle", "work", "offer", "sign in"},
         DOMAIN run' = A!Fields, run'.step = to, run'.account \in A!Accounts,
         IF to = "save" THEN run'.key \in Tokens ELSE run'.key = None,
         UNCHANGED <<A!kept, loose>>
  PROVE  A!IInv'
<1>1. UNCHANGED <<files, index, secrets>>
  BY DEF A!kept
<1>2. A!TypeOK' /\ A!KnowsIndex' /\ A!KeyInPlace' /\ A!RunsWithNewKey'
  BY <1>1 DEF A!IInv, A!TypeOK, A!KnowsIndex, A!KeyInPlace, A!RunsWithNewKey
<1>3. A!LeftWhereNamed'
  BY <1>1 DEF A!IInv, A!LeftWhereNamed
<1>q. QED BY <1>2, <1>3 DEF A!IInv

LEMMA AccountsBegin == ASSUME A!IInv, A!Begin PROVE A!IInv'
<1>1. PICK a \in A!Accounts, to \in {"sign in", "sign out", "work"} : A!Command(to, a)
  BY DEF A!Begin
<1>2. DOMAIN run' = A!Fields /\ run'.step = to /\ run'.account = a /\ run'.key = None
  BY <1>1 DEF A!Command, A!Fields
<1>q. QED BY <1>2, AccountsGo DEF A!Begin

LEMMA AccountsGoes ==
  ASSUME A!IInv, NEW to, run.step # "idle", A!Goes(to)
  PROVE  /\ DOMAIN run' = A!Fields /\ run'.step = to
         /\ run'.account = run.account /\ run'.key = run.key
         /\ run'.place = run.place /\ run'.entries = run.entries /\ run'.before = run.before
         /\ run'.unsaved = run.unsaved
  BY DEF A!IInv, A!TypeOK, A!Goes, A!Fields

LEMMA AccountsWork == ASSUME A!IInv, A!Work PROVE A!IInv'
<1>1. CASE A!Ends
  BY <1>1, AccountsEnd DEF A!Work
<1>2. CASE run.step = "work" /\ A!Goes("offer")
  BY <1>2, AccountsGoes, AccountsGo DEF A!Work, A!IInv, A!TypeOK, A!KeyInPlace
<1>q. QED BY <1>1, <1>2 DEF A!Work

LEMMA AccountsOffer == ASSUME A!IInv, A!Offer PROVE A!IInv'
<1>1. CASE A!Ends
  BY <1>1, AccountsEnd DEF A!Offer
<1>2. CASE A!Goes("sign in")
  BY <1>2, AccountsGoes, AccountsGo DEF A!Offer, A!IInv, A!TypeOK, A!KeyInPlace
<1>3. CASE A!Goes("again")
  BY <1>3, AccountsGoes, AccountsGo DEF A!Offer, A!IInv, A!TypeOK, A!KeyInPlace
<1>q. QED BY <1>1, <1>2, <1>3 DEF A!Offer

LEMMA AccountsSignIn == ASSUME A!IInv, A!SignIn PROVE A!IInv'
<1>1. run.step = "sign in"
  BY DEF A!SignIn
<1>2. ASSUME NEW key \in Tokens, NEW told \in BOOLEAN, A!Given(key, told) PROVE A!IInv'
  <2>1. /\ DOMAIN run' = A!Fields /\ run'.step = "save"
        /\ run'.account \in A!Accounts /\ run'.key = key
    BY <1>1, <1>2 DEF A!Given, A!IInv, A!TypeOK, A!Fields
  <2>q. QED BY <1>1, <1>2, <2>1, AccountsGo DEF A!Given
<1>3. CASE A!Goes("again") /\ UNCHANGED <<exported, A!kept, loose>>
  BY <1>1, <1>3, AccountsGoes, AccountsGo DEF A!IInv, A!TypeOK, A!KeyInPlace
<1>4. CASE A!Ends /\ UNCHANGED <<exported, A!kept, loose>>
  BY <1>1, <1>4, AccountsEnd
<1>5. CASE \E key \in Tokens : \E told \in (IF run.work THEN {FALSE} ELSE BOOLEAN) :
             A!Given(key, told)
  BY <1>2, <1>5
<1>q. QED BY <1>3, <1>4, <1>5 DEF A!SignIn

\* The command a sign-in was offered for runs again with a key that was not saved.
LEMMA AccountsNotSaved == ASSUME A!IInv, A!NotSaved PROVE A!IInv'
<1>1. run.step = "save" /\ A!SignedIn(FALSE) /\ UNCHANGED <<files, index, secrets, loose>>
  BY DEF A!NotSaved, A!kept
<1>2. CASE ~run.work
  BY <1>1, <1>2, AccountsEnd DEF A!SignedIn, A!kept
<1>3. CASE run.work
  <2>1. run' = [run EXCEPT !.step = "again", !.unsaved = run.key]
    BY <1>1, <1>3 DEF A!SignedIn
  <2>2. DOMAIN run' = A!Fields /\ run'.step = "again" /\ run'.account = run.account
        /\ run'.key = run.key /\ run'.unsaved = run.key
    BY <1>1, <2>1 DEF A!IInv, A!TypeOK, A!Fields
  <2>3. A!TypeOK' /\ A!KnowsIndex' /\ A!KeyInPlace'
    BY <1>1, <2>2 DEF A!IInv, A!TypeOK, A!KnowsIndex, A!KeyInPlace
  <2>4. A!RunsWithNewKey'
    BY <2>2 DEF A!RunsWithNewKey, A!Sends
  <2>5. A!LeftWhereNamed'
    BY <1>1, <2>2 DEF A!IInv, A!LeftWhereNamed
  <2>q. QED BY <2>3, <2>4, <2>5 DEF A!IInv
<1>q. QED BY <1>2, <1>3

\* The command ends, or the work a sign-in was offered for runs again with the key it saved.
LEMMA AccountsSaved ==
  ASSUME A!IInv, run.step # "idle", A!SignedIn(TRUE), NEW a \in A!Accounts, a = run.account,
         DOMAIN files' = A!Tools,
         DOMAIN index' = {"entries", "parses"},
         \A b \in DOMAIN index'.entries : index'.entries[b] \in A!Places,
         UNCHANGED secrets,
         \A p \in A!Places : \A b \in DOMAIN secrets[p].entries \ loose' :
            A!Of(index'.entries, b) = p,
         exported'[a] = None /\ run.key # None =>
            \/ {i \in A!Holding(a)' : i > A!Foremost(a)'
                                      /\ files'[ToolFiles[a][i]][a] = run.key} # {}
            \/ A!Find(a)'.key = run.key
  PROVE  A!IInv'
<1>1. CASE ~run.work
  <2>1. run' = [step |-> "idle"]
    BY <1>1 DEF A!SignedIn, A!Ends, A!Idle
  <2>2. A!TypeOK' /\ A!KnowsIndex' /\ A!KeyInPlace' /\ A!RunsWithNewKey'
    BY <2>1 DEF A!IInv, A!TypeOK, A!KnowsIndex, A!KeyInPlace, A!RunsWithNewKey
  <2>3. A!LeftWhereNamed'
    BY <2>1 DEF A!LeftWhereNamed
  <2>q. QED BY <2>2, <2>3 DEF A!IInv
<1>2. CASE run.work
  <2>1. run' = [run EXCEPT !.step = "again", !.unsaved = None]
    BY <1>2 DEF A!SignedIn
  <2>2. DOMAIN run' = A!Fields /\ run'.step = "again" /\ run'.account = run.account
        /\ run'.key = run.key /\ run'.unsaved = None
    BY <2>1 DEF A!IInv, A!TypeOK, A!Fields
  <2>3. A!TypeOK' /\ A!KnowsIndex' /\ A!KeyInPlace'
    BY <2>2 DEF A!IInv, A!TypeOK, A!KnowsIndex, A!KeyInPlace
  <2>4. A!RunsWithNewKey'
    <3>1. CASE exported'[a] # None
      BY <2>2, <3>1 DEF A!RunsWithNewKey
    <3>2. CASE exported'[a] = None /\ run.key # None /\ A!Find(a)'.key = run.key
      BY <2>2, <3>2 DEF A!RunsWithNewKey, A!Sends
    <3>3. CASE {i \in A!Holding(a)' : i > A!Foremost(a)'
                                      /\ files'[ToolFiles[a][i]][a] = run.key} # {}
      BY <2>2, <3>3 DEF A!RunsWithNewKey
    <3>q. QED BY <2>2, <3>1, <3>2, <3>3 DEF A!RunsWithNewKey
  <2>5. A!LeftWhereNamed'
    BY <2>2 DEF A!LeftWhereNamed
  <2>q. QED BY <2>3, <2>4, <2>5 DEF A!IInv
<1>q. QED BY <1>1, <1>2

LEMMA AccountsRefused == ASSUME A!IInv, A!Refused PROVE A!IInv'
  BY AccountsEnd DEF A!Refused

\* What saving a key in a file leaves of the others', and what it holds then.
LEMMA WrittenForTools ==
  ASSUME A!IInv, A!AccountsAssumption, run.step = "save", NEW a \in A!Accounts, a = run.account,
         NEW i \in DOMAIN ToolFiles[a],
         files' = [files EXCEPT ![ToolFiles[a][i]] = A!Rewritten(ToolFiles[a][i], a, run.key)]
  PROVE  /\ DOMAIN files' = A!Tools /\ run.key # None
         /\ \A j \in DOMAIN ToolFiles[a] :
               IF ToolFiles[a][j] = ToolFiles[a][i]
               THEN j \in A!Holding(a)' /\ files'[ToolFiles[a][j]][a] = run.key
               ELSE files'[ToolFiles[a][j]] = files[ToolFiles[a][j]]
         /\ \A b \in A!Accounts \ {a} : \A j \in DOMAIN ToolFiles[b] :
               /\ A!Of(files'[ToolFiles[b][j]], b) = A!Of(files[ToolFiles[b][j]], b)
               /\ b \in DOMAIN files[ToolFiles[b][j]] =>
                     files'[ToolFiles[b][j]][b] = files[ToolFiles[b][j]][b]
<1> DEFINE f == ToolFiles[a][i]
<1>1. run.key \in Tokens /\ run.key # None /\ DOMAIN files = A!Tools /\ f \in A!Tools
  BY DEF A!IInv, A!TypeOK, A!KeyInPlace, A!AccountsAssumption, A!Tools
<1>2. DOMAIN files' = A!Tools /\ files'[f] = A!Rewritten(f, a, run.key)
      /\ \A g \in A!Tools : g # f => files'[g] = files[g]
  BY <1>1
<1>3. a \in DOMAIN A!Rewritten(f, a, run.key) /\ A!Rewritten(f, a, run.key)[a] = run.key
  BY DEF A!Rewritten, A!With
<1>4. \A c \in A!Accounts : \A j \in DOMAIN ToolFiles[c] : ToolFiles[c][j] \in A!Tools
  BY DEF A!Tools
<1>5. ASSUME NEW j \in DOMAIN ToolFiles[a]
      PROVE  IF ToolFiles[a][j] = f THEN j \in A!Holding(a)' /\ files'[ToolFiles[a][j]][a] = run.key
             ELSE files'[ToolFiles[a][j]] = files[ToolFiles[a][j]]
  <2>1. ToolFiles[a][j] = f => A!Of(files'[f], a) = run.key
    BY <1>2, <1>3 DEF A!Of
  <2>2. ToolFiles[a][j] = f => j \in A!Holding(a)'
    BY <2>1, <1>1 DEF A!Holding, A!Of
  <2>q. QED BY <2>1, <2>2, <1>1, <1>2, <1>3, <1>4
<1>6. ASSUME NEW b \in A!Accounts \ {a}, NEW j \in DOMAIN ToolFiles[b]
      PROVE  /\ A!Of(files'[ToolFiles[b][j]], b) = A!Of(files[ToolFiles[b][j]], b)
             /\ b \in DOMAIN files[ToolFiles[b][j]] =>
                   files'[ToolFiles[b][j]][b] = files[ToolFiles[b][j]][b]
  <2>1. CASE ToolFiles[b][j] # f
    BY <1>1, <1>2, <1>4, <2>1
  <2>2. CASE ToolFiles[b][j] = f
    <3>1. f = Netrc
      BY <1>1, <2>2 DEF A!AccountsAssumption
    <3>2. files'[f] = A!With(files[f], a, run.key)
      BY <1>2, <3>1 DEF A!Rewritten
    <3>3. /\ b \in DOMAIN files'[f] <=> b \in DOMAIN files[f]
          /\ b \in DOMAIN files[f] => files'[f][b] = files[f][b]
      BY <3>2 DEF A!With
    <3>q. QED BY <2>2, <3>3 DEF A!Of
  <2>q. QED BY <2>1, <2>2
<1>q. QED BY <1>1, <1>2, <1>5, <1>6

LEMMA AccountsSaveForTools == ASSUME A!IInv, A!AccountsAssumption, A!SaveForTools PROVE A!IInv'
<1>1. run.step = "save" /\ A!SignedIn(TRUE) /\ UNCHANGED <<exported, index, secrets, loose>>
  BY DEF A!SaveForTools
<1>2. PICK a \in A!Accounts : a = run.account
  BY <1>1 DEF A!IInv, A!TypeOK
<1>3. PICK i \in DOMAIN ToolFiles[a] :
         files' = [files EXCEPT ![ToolFiles[a][i]] = A!Rewritten(ToolFiles[a][i], a, run.key)]
  BY <1>2 DEF A!SaveForTools
<1>4. DOMAIN files' = A!Tools /\ i \in A!Holding(a)' /\ files'[ToolFiles[a][i]][a] = run.key
  BY <1>1, <1>2, <1>3, WrittenForTools
<1>5. ASSUME exported'[a] = None
      PROVE  \/ {k \in A!Holding(a)' : k > A!Foremost(a)' /\ files'[ToolFiles[a][k]][a]
                   = run.key} # {}
             \/ A!Find(a)'.key = run.key
  <2>1. A!Foremost(a)' \in A!Holding(a)' /\ A!Foremost(a)' <= i /\ A!Foremost(a)' \in Nat
           /\ i \in Nat
    BY <1>4, ForemostFirstThen DEF A!AccountsAssumption, A!Holding
  <2>2. CASE A!Foremost(a)' = i
    BY <1>4, <1>5, <2>2 DEF A!Find
  <2>3. CASE A!Foremost(a)' # i
    <3>1. i > A!Foremost(a)'
      BY <2>1, <2>3
    <3>q. QED BY <3>1, <1>4
  <2>q. QED BY <2>2, <2>3
<1>6. \A p \in A!Places : \A b \in DOMAIN secrets[p].entries \ loose' : A!Of(index'.entries, b) = p
  BY <1>1 DEF A!IInv, A!LeftWhereNamed
<1>q. QED BY <1>1, <1>2, <1>4, <1>5, <1>6, AccountsSaved DEF A!IInv, A!TypeOK

LEMMA AccountsName == ASSUME A!IInv, A!AccountsAssumption, A!Name PROVE A!IInv'
<1> DEFINE a == run.account
<1>1. /\ run.step = "name" /\ a \in A!Accounts /\ A!SignedIn(TRUE)
            /\ UNCHANGED <<exported, files, secrets, loose>>
      /\ a \in A!Stored /\ run.place \in A!Places /\ run.entries = index.entries
      /\ secrets[run.place].parses /\ a \in DOMAIN secrets[run.place].entries
      /\ secrets[run.place].entries[a] = run.key
  BY DEF A!Name, A!IInv, A!TypeOK, A!KnowsIndex, A!KeyInPlace
<1>2. /\ DOMAIN index' = {"entries", "parses"} /\ index'.parses
      /\ index'.entries = A!With(index.entries, a, run.place)
  BY <1>1 DEF A!Name
<1>3. \A b \in DOMAIN index'.entries : index'.entries[b] \in A!Places
  BY <1>1, <1>2 DEF A!With, A!IInv, A!TypeOK
<1>4. /\ A!Of(index'.entries, a) = run.place
      /\ \A b \in A!Accounts \ {a} : A!Of(index'.entries, b) = A!Of(index.entries, b)
  BY <1>2 DEF A!With, A!Of
<1>5. \A p \in A!Places : \A b \in DOMAIN secrets[p].entries \ loose' : A!Of(index'.entries, b) = p
  <2> SUFFICES ASSUME NEW p \in A!Places, NEW b \in DOMAIN secrets[p].entries \ loose
               PROVE  A!Of(index'.entries, b) = p
    BY <1>1
  <2>1. CASE b = a
    BY <1>1, <1>4, <2>1 DEF A!IInv, A!LeftWhereNamed, A!Passing
  <2>2. CASE b # a
    <3>1. A!Of(index'.entries, b) = A!Of(index.entries, b)
      BY <1>2, <2>2 DEF A!With, A!Of
    <3>q. QED BY <1>1, <2>2, <3>1 DEF A!IInv, A!LeftWhereNamed, A!Passing
  <2>q. QED BY <2>1, <2>2
<1>6. ASSUME NEW b \in A!Accounts, b = a, exported'[b] = None, run.key # None
      PROVE  A!Find(b)'.key = run.key
  <2>1. A!Holding(b)' = {}
    BY <1>1, <1>6 DEF A!Holding, A!Stored
  <2>2. A!Saved(b)' = run.key
    BY <1>1, <1>2, <1>4, <1>6 DEF A!Saved, A!Entries, A!Of, A!AccountsAssumption
  <2>q. QED BY <1>1, <1>6, <2>1, <2>2 DEF A!Find
<1>7. PICK b \in A!Accounts : b = a
  BY <1>1
<1>8. DOMAIN files' = A!Tools
  BY <1>1 DEF A!IInv, A!TypeOK
<1>q. QED BY <1>1, <1>2, <1>3, <1>5, <1>6, <1>7, <1>8, AccountsSaved

LEMMA AccountsLoad == ASSUME A!IInv, NEW place \in A!Places, A!Load(place) PROVE A!IInv'
<1>1. /\ run.step = "save" /\ UNCHANGED <<files, index, secrets, loose>> /\ run.account \in A!Stored
      /\ DOMAIN run' = A!Fields /\ run'.step = "put" /\ run'.account = run.account
            /\ run'.place = place
      /\ run'.entries = index.entries /\ run'.before = A!Of(index.entries, run.account)
  BY DEF A!Load, A!kept, A!IInv, A!TypeOK, A!Fields
<1>2. A!TypeOK' /\ A!KnowsIndex' /\ A!KeyInPlace' /\ A!RunsWithNewKey'
  BY <1>1 DEF A!IInv, A!TypeOK, A!KnowsIndex, A!KeyInPlace, A!RunsWithNewKey, A!Stored
<1>3. A!LeftWhereNamed'
  BY <1>1 DEF A!IInv, A!LeftWhereNamed
<1>q. QED BY <1>2, <1>3 DEF A!IInv

\* What holds while the store is written: the command stays the same and only one account changes.
LEMMA AccountsPut == ASSUME A!IInv, A!Put PROVE A!IInv'
<1> DEFINE a == run.account
<1>1. /\ run.step = "put" /\ UNCHANGED <<files, index, loose>> /\ a \in A!Accounts
      /\ a \in A!Stored /\ run.place \in A!Places /\ secrets[run.place].parses
      /\ run.entries = index.entries /\ run.before = A!Of(index.entries, a)
  BY DEF A!Put, A!Loads, A!IInv, A!TypeOK, A!KnowsIndex, A!KeyInPlace
<1>2. /\ DOMAIN run' = A!Fields /\ run'.step = "unput" /\ run'.account = a /\ run'.key = run.key
      /\ run'.place = run.place /\ run'.entries = run.entries /\ run'.before = run.before
  BY <1>1, AccountsGoes DEF A!Put
<1>3. /\ DOMAIN secrets' = A!Places
      /\ \A p \in A!Places : DOMAIN secrets'[p] = {"entries", "parses"}
      /\ secrets'[run.place].parses
      /\ secrets'[run.place].entries = A!With(secrets[run.place].entries, a, run.key)
      /\ \A p \in A!Places \ {run.place} : secrets'[p] = secrets[p]
  BY <1>1 DEF A!Put, A!Entries, A!IInv, A!TypeOK
<1>4. a \in DOMAIN secrets'[run.place].entries /\ secrets'[run.place].entries[a] = run.key
  BY <1>3 DEF A!With
<1>5. A!TypeOK' /\ A!KnowsIndex' /\ A!KeyInPlace' /\ A!RunsWithNewKey'
  BY <1>1, <1>2, <1>3, <1>4 DEF A!IInv, A!TypeOK, A!KnowsIndex, A!KeyInPlace, A!RunsWithNewKey
<1>6. A!LeftWhereNamed'
  <2> SUFFICES ASSUME NEW p \in A!Places, NEW b \in DOMAIN secrets'[p].entries \ loose
               PROVE  IF b = a THEN p \in {run.before, run.place} ELSE A!Of(index.entries, b) = p
    BY <1>1, <1>2 DEF A!LeftWhereNamed, A!Passing
  <2>1. b \in DOMAIN secrets[p].entries \/ (b = a /\ p = run.place)
    BY <1>3 DEF A!With
  <2>q. QED BY <1>1, <2>1 DEF A!IInv, A!LeftWhereNamed
<1>q. QED BY <1>5, <1>6 DEF A!IInv

LEMMA AccountsUnput == ASSUME A!IInv, A!AccountsAssumption, A!Unput PROVE A!IInv'
<1> DEFINE a == run.account
<1>1. /\ run.step = "unput" /\ UNCHANGED <<files, index, loose>> /\ a \in A!Accounts
      /\ a \in A!Stored /\ run.place \in A!Places
      /\ run.entries = index.entries /\ run.before = A!Of(index.entries, a)
      /\ DOMAIN secrets = A!Places /\ \A p \in A!Places : DOMAIN secrets[p] = {"entries", "parses"}
  BY DEF A!Unput, A!IInv, A!TypeOK, A!KnowsIndex, A!KeyInPlace
<1>2. /\ DOMAIN run' = A!Fields /\ run'.step = "name" /\ run'.account = a /\ run'.key = run.key
      /\ run'.place = run.place /\ run'.entries = run.entries /\ run'.before = run.before
  BY <1>1, AccountsGoes DEF A!Unput
<1>3. /\ DOMAIN secrets' = A!Places
      /\ \A p \in A!Places : DOMAIN secrets'[p] = {"entries", "parses"}
      /\ \A p \in A!Places \ A!RemoveBefore : secrets'[p] = secrets[p]
      /\ \A p \in A!Places \cap A!RemoveBefore : secrets'[p].entries
            = A!Without(secrets[p].entries, a)
  BY <1>1 DEF A!Unput, A!Entries, A!Loads
<1>4. /\ run.place \notin A!RemoveBefore
      /\ \A p \in A!Places : p = run.before /\ p # run.place => p \in A!RemoveBefore
  BY DEF A!RemoveBefore, A!AccountsAssumption
<1>5. A!TypeOK' /\ A!KnowsIndex' /\ A!KeyInPlace' /\ A!RunsWithNewKey'
  BY <1>1, <1>2, <1>3, <1>4 DEF A!IInv, A!TypeOK, A!KnowsIndex, A!KeyInPlace, A!RunsWithNewKey
<1>6. A!LeftWhereNamed'
  <2> SUFFICES ASSUME NEW p \in A!Places, NEW b \in DOMAIN secrets'[p].entries \ loose
               PROVE  IF b = a THEN p \in {run.place} ELSE A!Of(index.entries, b) = p
    BY <1>1, <1>2 DEF A!LeftWhereNamed, A!Passing
  <2>1. b \in DOMAIN secrets[p].entries /\ ~(b = a /\ p \in A!RemoveBefore)
    <3>1. CASE p \in A!RemoveBefore
      <4>1. secrets'[p].entries = A!Without(secrets[p].entries, a)
        BY <1>3, <3>1
      <4>q. QED BY <4>1, <3>1 DEF A!Without
    <3>2. CASE p \notin A!RemoveBefore
      BY <1>3, <3>2
    <3>q. QED BY <3>1, <3>2
  <2>2. IF b = a THEN p \in {run.before, run.place} ELSE A!Of(index.entries, b) = p
    BY <1>1, <2>1 DEF A!IInv, A!LeftWhereNamed, A!Passing
  <2>q. QED BY <2>1, <2>2, <1>4
<1>q. QED BY <1>5, <1>6 DEF A!IInv

LEMMA AccountsForget == ASSUME A!IInv, A!Forget PROVE A!IInv'
<1> DEFINE a == run.account
<1>1. /\ run.step = "forget" /\ UNCHANGED <<files, index, loose>> /\ a \in A!Accounts
      /\ a \in A!Stored /\ run.place \in A!Places /\ secrets[run.place].parses
      /\ run.entries = A!Without(index.entries, a) /\ run.place = A!Of(index.entries, a)
      /\ DOMAIN secrets = A!Places /\ \A p \in A!Places : DOMAIN secrets[p] = {"entries", "parses"}
  BY DEF A!Forget, A!Loads, A!IInv, A!TypeOK, A!KnowsIndex, A!KeyInPlace
<1>2. /\ DOMAIN run' = A!Fields /\ run'.step = "unname" /\ run'.account = a /\ run'.key = run.key
      /\ run'.place = run.place /\ run'.entries = run.entries
  BY <1>1, AccountsGoes DEF A!Forget
<1>3. /\ DOMAIN secrets' = A!Places
      /\ \A p \in A!Places : DOMAIN secrets'[p] = {"entries", "parses"}
      /\ secrets'[run.place].entries = A!Without(secrets[run.place].entries, a)
      /\ \A p \in A!Places \ {run.place} : secrets'[p] = secrets[p]
  BY <1>1 DEF A!Forget, A!Entries
<1>4. A!TypeOK' /\ A!KnowsIndex' /\ A!KeyInPlace' /\ A!RunsWithNewKey'
  BY <1>1, <1>2, <1>3 DEF A!IInv, A!TypeOK, A!KnowsIndex, A!KeyInPlace, A!RunsWithNewKey
<1>5. A!LeftWhereNamed'
  <2> SUFFICES ASSUME NEW p \in A!Places, NEW b \in DOMAIN secrets'[p].entries \ loose
               PROVE  b # a /\ A!Of(index.entries, b) = p
    BY <1>1, <1>2 DEF A!LeftWhereNamed
  <2>1. b \in DOMAIN secrets[p].entries /\ ~(b = a /\ p = run.place)
    BY <1>3 DEF A!Without
  <2>2. A!Of(index.entries, b) = p
    BY <1>1, <2>1 DEF A!IInv, A!LeftWhereNamed
  <2>q. QED BY <1>1, <2>1, <2>2
<1>q. QED BY <1>4, <1>5 DEF A!IInv

LEMMA AccountsUnname == ASSUME A!IInv, A!Unname PROVE A!IInv'
<1> DEFINE a == run.account
<1>1. /\ run.step = "unname" /\ run' = [step |-> "idle"] /\ UNCHANGED <<files, secrets, loose>>
      /\ index' = [entries |-> A!Without(index.entries, a), parses |-> TRUE]
  BY DEF A!Unname, A!Ends, A!Idle, A!IInv, A!KnowsIndex
<1>2. A!TypeOK' /\ A!KnowsIndex' /\ A!KeyInPlace' /\ A!RunsWithNewKey'
  BY <1>1 DEF A!IInv, A!TypeOK, A!KnowsIndex, A!KeyInPlace, A!RunsWithNewKey, A!Without
<1>3. A!LeftWhereNamed'
  <2> SUFFICES ASSUME NEW p \in A!Places, NEW b \in DOMAIN secrets[p].entries \ loose
               PROVE  A!Of(A!Without(index.entries, a), b) = p
    BY <1>1 DEF A!LeftWhereNamed
  <2>1. b # a /\ A!Of(index.entries, b) = p
    BY <1>1 DEF A!IInv, A!LeftWhereNamed, A!Passing
  <2>q. QED BY <2>1 DEF A!Of, A!Without
<1>q. QED BY <1>2, <1>3 DEF A!IInv

LEMMA AccountsFails == ASSUME A!IInv, A!Fails PROVE A!IInv'
<1>1. CASE run.step \notin {"unput", "name"}
  BY <1>1, AccountsEnd DEF A!Fails
<1>2. CASE run.step \in {"unput", "name"}
  <2>1. /\ run' = [step |-> "idle"] /\ UNCHANGED <<files, index, secrets>>
        /\ loose' = loose \cup {run.account}
    BY <1>2 DEF A!Fails, A!Ends, A!Idle, A!kept
  <2>2. A!TypeOK' /\ A!KnowsIndex' /\ A!KeyInPlace' /\ A!RunsWithNewKey'
    BY <2>1 DEF A!IInv, A!TypeOK, A!KnowsIndex, A!KeyInPlace, A!RunsWithNewKey
  <2>3. A!LeftWhereNamed'
    BY <1>2, <2>1 DEF A!IInv, A!LeftWhereNamed
  <2>q. QED BY <2>2, <2>3 DEF A!IInv
<1>q. QED BY <1>1, <1>2

LEMMA AccountsExport == ASSUME A!IInv, NEW a \in A!Accounts, A!Export(a) PROVE A!IInv'
<1>1. run.step = "idle" /\ UNCHANGED <<files, index, secrets, run, loose>>
  BY DEF A!Export, A!kept
<1>q. QED
  BY <1>1 DEF A!IInv, A!TypeOK, A!KnowsIndex, A!KeyInPlace, A!RunsWithNewKey, A!LeftWhereNamed,
     A!Passing

LEMMA AccountsGarble == ASSUME A!IInv, A!Garble PROVE A!IInv'
<1>1. /\ run.step = "idle" /\ UNCHANGED <<files, run, loose>>
      /\ DOMAIN index' = {"entries", "parses"} /\ index'.entries = index.entries
      /\ DOMAIN secrets' = A!Places
      /\ \A p \in A!Places : DOMAIN secrets'[p] = {"entries", "parses"}
      /\ \A p \in A!Places : secrets'[p].entries = secrets[p].entries
  BY DEF A!Garble, A!IInv, A!TypeOK, A!Places
<1>2. A!TypeOK' /\ A!KnowsIndex' /\ A!KeyInPlace' /\ A!RunsWithNewKey'
  BY <1>1 DEF A!IInv, A!TypeOK, A!KnowsIndex, A!KeyInPlace, A!RunsWithNewKey
<1>3. A!LeftWhereNamed'
  BY <1>1 DEF A!IInv, A!LeftWhereNamed
<1>q. QED BY <1>2, <1>3 DEF A!IInv

\* Where a key is found: the environment, a file its tools read, or the place the index names.
LEMMA FoundSomewhere ==
  ASSUME A!IInv, A!AccountsAssumption, NEW a \in A!Accounts
  PROVE  /\ A!Find(a).origin \in A!Tools \cup {"variable", None}
            \/ (a \in A!Stored /\ A!Find(a).origin = A!Of(A!Entries(index), a)
                  /\ A!Of(A!Entries(index), a) # None)
         /\ A!Find(a).origin \in A!Places
               => a \in A!Stored /\ A!Find(a).origin = A!Of(A!Entries(index), a)
         /\ A!Holding(a) # {}
               => A!Foremost(a) \in DOMAIN ToolFiles[a] /\ ToolFiles[a][A!Foremost(a)] \in A!Tools
<1>1. A!Holding(a) # {} => A!Foremost(a) \in DOMAIN ToolFiles[a]
  BY ForemostFirst DEF A!Holding
<1>2. A!Holding(a) # {} => ToolFiles[a][A!Foremost(a)] \in A!Tools
  BY <1>1 DEF A!Tools
<1>3. \/ A!Find(a).origin \in A!Tools \cup {"variable", None}
      \/ (a \in A!Stored /\ A!Find(a).origin = A!Of(A!Entries(index), a)
            /\ A!Of(A!Entries(index), a) # None)
  BY <1>2 DEF A!Find, A!Saved, A!Of
<1>4. A!Places \cap (A!Tools \cup {"variable", None}) = {}
  BY DEF A!AccountsAssumption, A!Places
<1>q. QED BY <1>1, <1>2, <1>3, <1>4

LEMMA AccountsSignOut == ASSUME A!IInv, A!AccountsAssumption, A!SignOut PROVE A!IInv'
<1>1. run.step = "sign out" /\ UNCHANGED <<index, secrets, loose>>
  BY DEF A!SignOut
<1>2. PICK a \in A!Accounts : a = run.account
  BY <1>1 DEF A!IInv, A!TypeOK
<1>3. CASE A!Ends /\ UNCHANGED files
  BY <1>1, <1>3, AccountsEnd DEF A!kept
<1>4. CASE /\ A!Find(a).origin \in A!Places /\ index.parses /\ UNCHANGED files
           /\ run' = [run EXCEPT !.step = "forget", !.place = A!Find(a).origin,
                                 !.entries = A!Without(index.entries, run.account)]
  <2>1. /\ DOMAIN run' = A!Fields /\ run'.step = "forget" /\ run'.account = a
        /\ run'.place = A!Find(a).origin /\ run'.entries = A!Without(index.entries, a)
    BY <1>1, <1>2, <1>4 DEF A!IInv, A!TypeOK, A!Fields
  <2>2. a \in A!Stored /\ A!Find(a).origin = A!Of(index.entries, a) /\ A!Find(a).origin \in A!Places
    BY <1>4, FoundSomewhere DEF A!Entries
  <2>3. A!TypeOK' /\ A!KnowsIndex' /\ A!KeyInPlace' /\ A!RunsWithNewKey'
    BY <1>1, <1>4, <2>1, <2>2 DEF A!IInv, A!TypeOK, A!KnowsIndex, A!KeyInPlace, A!RunsWithNewKey
  <2>4. A!LeftWhereNamed'
    BY <1>1, <2>1 DEF A!IInv, A!LeftWhereNamed
  <2>q. QED BY <2>3, <2>4 DEF A!IInv
<1>5. CASE /\ A!Find(a).origin \in A!Tools /\ A!Ends
           /\ files' = [files EXCEPT ![A!Find(a).origin] = A!Without(@, a)]
  <2>1. run' = [step |-> "idle"]
    BY <1>5 DEF A!Ends, A!Idle
  <2>2. A!TypeOK' /\ A!KnowsIndex' /\ A!KeyInPlace' /\ A!RunsWithNewKey'
    BY <1>1, <1>5, <2>1 DEF A!IInv, A!TypeOK, A!KnowsIndex, A!KeyInPlace, A!RunsWithNewKey
  <2>3. A!LeftWhereNamed'
    BY <1>1, <2>1 DEF A!IInv, A!LeftWhereNamed
  <2>q. QED BY <2>2, <2>3 DEF A!IInv
<1>q. QED BY <1>1, <1>2, <1>3, <1>4, <1>5 DEF A!SignOut

LEMMA AccountsNext == ASSUME A!AccountsAssumption, A!IInv, [A!Next]_(A!vars) PROVE A!IInv'
<1>1. CASE UNCHANGED A!vars
  <2>1. A!TypeOK' /\ A!KnowsIndex' /\ A!KeyInPlace'
    BY <1>1 DEF A!vars, A!IInv, A!TypeOK, A!KnowsIndex, A!KeyInPlace
  <2>2. A!LeftWhereNamed'
    BY <1>1 DEF A!vars, A!IInv, A!LeftWhereNamed, A!Passing
  <2>3. \A a \in A!Accounts : A!Holding(a)' = A!Holding(a)
    BY <1>1 DEF A!vars, A!Holding
  <2>4. \A a \in A!Accounts : A!Foremost(a)' = A!Foremost(a)
    BY <2>3 DEF A!Foremost
  <2>5. A!RunsWithNewKey'
    <3> SUFFICES ASSUME run.step = "again", run.key # None, NEW a \in A!Accounts, a = run.account
                 PROVE  LET behind == {i \in A!Holding(a)' : i > A!Foremost(a)'
                           /\ files[ToolFiles[a][i]][a] = run.key}
                        IN  \/ (IF run.unsaved # None THEN run.unsaved ELSE A!Find(a)'.key)
                                  = run.key
                            \/ run.unsaved = None /\ (exported[a] # None \/ behind # {})
      BY <1>1 DEF A!vars, A!RunsWithNewKey, A!Sends, A!IInv, A!TypeOK
    <3>1. A!Find(a)' = A!Find(a)
      BY <1>1, <2>3, <2>4 DEF A!vars, A!Find, A!Saved, A!Entries
    <3>q. QED BY <2>3, <2>4, <3>1 DEF A!IInv, A!RunsWithNewKey, A!Sends
  <2>q. QED BY <2>1, <2>2, <2>5 DEF A!IInv
<1>q. QED
  BY <1>1, AccountsBegin, AccountsWork, AccountsOffer, AccountsSignIn, AccountsRefused,
     AccountsNotSaved, AccountsSaveForTools, AccountsLoad, AccountsPut, AccountsUnput, AccountsName,
     AccountsSignOut,
     AccountsForget, AccountsUnname, AccountsFails, AccountsExport, AccountsGarble
  DEF A!Next

-----------------------------------------------------------------------------
\* What a step that writes no key leaves: every key is held as it was.
LEMMA HeldUnwritten ==
  ASSUME A!AccountsAssumption, UNCHANGED files, index'.entries = index.entries,
         \A p \in A!Places : secrets'[p].entries = secrets[p].entries,
         A!IInv, NEW b \in A!Accounts
  PROVE  A!Held(b)' = A!Held(b)
<1>1. A!Of(index.entries, b) # None => index.entries[b] \in A!Places
  BY DEF A!Of, A!IInv, A!TypeOK
<1>q. QED BY <1>1, HeldStays DEF A!Of

\* What a step in the store leaves of the keys of the other accounts.
LEMMA HeldBeside ==
  ASSUME A!AccountsAssumption, UNCHANGED files, A!IInv, NEW b \in A!Accounts,
         A!Of(index'.entries, b) = A!Of(index.entries, b),
         b \in DOMAIN index.entries => b \in DOMAIN index'.entries,
         \A p \in A!Places : A!Of(secrets'[p].entries, b) = A!Of(secrets[p].entries, b)
  PROVE  A!Held(b)' = A!Held(b)
<1>1. A!Of(index.entries, b) # None =>
         index.entries[b] \in A!Places /\ index.entries'[b] = index.entries[b]
  BY DEF A!Of, A!IInv, A!TypeOK
<1>q. QED BY <1>1, HeldStays DEF A!Of

LEMMA KeptForTools ==
  ASSUME A!AccountsAssumption, A!IInv, A!SaveForTools, NEW b \in A!Accounts, A!Held(b)' # A!Held(b)
  PROVE  run.account = b /\ run.step = "save" /\ A!Held(b)' = run.key
<1>1. run.step = "save" /\ UNCHANGED <<index, secrets>>
  BY DEF A!SaveForTools
<1>2. PICK a \in A!Accounts : a = run.account
  BY <1>1 DEF A!IInv, A!TypeOK
<1>3. PICK i \in DOMAIN ToolFiles[a] :
         files' = [files EXCEPT ![ToolFiles[a][i]] = A!Rewritten(ToolFiles[a][i], a, run.key)]
  BY <1>2 DEF A!SaveForTools
<1>4. /\ \A j \in DOMAIN ToolFiles[a] :
            IF ToolFiles[a][j] = ToolFiles[a][i]
            THEN j \in A!Holding(a)' /\ files'[ToolFiles[a][j]][a] = run.key
            ELSE files'[ToolFiles[a][j]] = files[ToolFiles[a][j]]
      /\ \A c \in A!Accounts \ {a} : \A j \in DOMAIN ToolFiles[c] :
            /\ A!Of(files'[ToolFiles[c][j]], c) = A!Of(files[ToolFiles[c][j]], c)
            /\ c \in DOMAIN files[ToolFiles[c][j]] =>
                  files'[ToolFiles[c][j]][c] = files[ToolFiles[c][j]][c]
  <2>1. /\ A!IInv /\ A!AccountsAssumption /\ run.step = "save" /\ a = run.account
    BY <1>1, <1>2
  <2>q. QED BY <2>1, <1>3, WrittenForTools, ZenonT(60)
<1>5. b = a
  <2> SUFFICES ASSUME b # a PROVE A!Held(b)' = A!Held(b)
    OBVIOUS
  <2>1. \A j \in DOMAIN ToolFiles[b] :
           /\ A!Of(files'[ToolFiles[b][j]], b) = A!Of(files[ToolFiles[b][j]], b)
           /\ j \in A!Holding(b) => files'[ToolFiles[b][j]][b] = files[ToolFiles[b][j]][b]
    BY <1>4 DEF A!Holding, A!Of
  <2>q. QED BY <1>1, <2>1, HeldStays DEF A!Of
<1>6. i \in A!Holding(a)' /\ \A j \in A!Holding(a)' : j \in DOMAIN ToolFiles[a] /\ j \in Nat
  BY <1>4 DEF A!Holding, A!AccountsAssumption
<1>7. A!Foremost(a)' \in A!Holding(a)' /\ \A j \in A!Holding(a)' : A!Foremost(a)' <= j
  BY <1>6, ForemostFirstThen
<1>8. A!Held(a)' = files'[ToolFiles[a][A!Foremost(a)']][a]
  BY <1>6 DEF A!Held
<1>9. CASE ToolFiles[a][A!Foremost(a)'] = ToolFiles[a][i]
  BY <1>1, <1>2, <1>4, <1>5, <1>6, <1>7, <1>8, <1>9
<1>10. CASE ToolFiles[a][A!Foremost(a)'] # ToolFiles[a][i]
  <2>1. files'[ToolFiles[a][A!Foremost(a)']] = files[ToolFiles[a][A!Foremost(a)']]
    BY <1>4, <1>6, <1>7, <1>10
  <2>2. A!Foremost(a)' \in A!Holding(a)
    BY <1>6, <1>7, <2>1 DEF A!Holding
  <2>3. A!Foremost(a) \in A!Holding(a) /\ A!Foremost(a) <= A!Foremost(a)'
           /\ A!Foremost(a) \in DOMAIN ToolFiles[a]
    BY <2>2, ForemostFirst DEF A!Holding
  <2>4. A!Foremost(a) \in A!Holding(a)'
    <3>1. CASE ToolFiles[a][A!Foremost(a)] = ToolFiles[a][i]
      BY <1>4, <2>3, <3>1
    <3>2. CASE ToolFiles[a][A!Foremost(a)] # ToolFiles[a][i]
      BY <1>4, <2>3, <3>2 DEF A!Holding
    <3>q. QED BY <3>1, <3>2
  <2>5. A!Foremost(a) = A!Foremost(a)'
    BY <1>6, <1>7, <2>3, <2>4
  <2>6. A!Held(a)' = A!Held(a)
    BY <1>8, <2>1, <2>2, <2>5 DEF A!Held
  <2>q. QED BY <1>5, <2>6
<1>q. QED BY <1>9, <1>10

LEMMA KeptPut ==
  ASSUME A!AccountsAssumption, A!IInv, A!Put, NEW b \in A!Accounts, A!Held(b)' # A!Held(b)
  PROVE  run.account = b /\ run.step = "put" /\ A!Held(b)' = run.key
<1> DEFINE a == run.account
<1>1. /\ run.step = "put" /\ UNCHANGED <<files, index>> /\ a \in A!Stored /\ run.place \in A!Places
      /\ secrets[run.place].parses
  BY DEF A!Put, A!Loads, A!IInv, A!KeyInPlace
<1>2. /\ secrets'[run.place].entries = A!With(secrets[run.place].entries, a, run.key)
      /\ \A p \in A!Places \ {run.place} : secrets'[p] = secrets[p]
  BY <1>1 DEF A!Put, A!Entries, A!IInv, A!TypeOK
<1>3. \A c \in A!Accounts \ {a} : \A p \in A!Places : A!Of(secrets'[p].entries, c)
         = A!Of(secrets[p].entries, c)
  BY <1>2 DEF A!With, A!Of
<1>4. b = a
  BY <1>1, <1>3, HeldBeside
<1>5. CASE A!Of(index.entries, b) = run.place
  <2>1. A!Holding(b)' = {}
    BY <1>1, <1>4 DEF A!Holding, A!Stored
  <2>2. b \in DOMAIN index.entries /\ index.entries[b] = run.place /\ run.place # None
    BY <1>1, <1>5 DEF A!Of, A!AccountsAssumption
  <2>3. A!Of(secrets'[run.place].entries, b) = run.key
    BY <1>2, <1>4 DEF A!With, A!Of
  <2>4. A!Held(b)' = run.key
    BY <1>1, <2>1, <2>2, <2>3 DEF A!Held, A!Of
  <2>q. QED BY <1>1, <1>4, <2>4
<1>6. CASE A!Of(index.entries, b) # run.place
  <2>1. A!Of(index.entries, b) # None => index.entries[b] \in A!Places \ {run.place}
    BY <1>6 DEF A!Of, A!IInv, A!TypeOK
  <2>q. QED BY <1>1, <1>2, <2>1, HeldStays DEF A!Of
<1>q. QED BY <1>5, <1>6

LEMMA KeptUnput ==
  ASSUME A!AccountsAssumption, A!IInv, A!Unput, NEW b \in A!Accounts, A!Held(b)' # A!Held(b)
  PROVE  /\ run.account = b /\ run.step = "unput" /\ run.place # None
         /\ A!Of(secrets[run.place].entries, b) = run.key
<1> DEFINE a == run.account
<1>1. /\ run.step = "unput" /\ UNCHANGED <<files, index>> /\ run.place \in A!Places
      /\ a \in DOMAIN secrets[run.place].entries /\ secrets[run.place].entries[a] = run.key
      /\ \A p \in A!Places : DOMAIN secrets[p] = {"entries", "parses"}
  BY DEF A!Unput, A!IInv, A!TypeOK, A!KeyInPlace
<1>2. \A p \in A!Places : secrets'[p].entries = secrets[p].entries
                        \/ secrets'[p].entries = A!Without(secrets[p].entries, a)
  BY <1>1 DEF A!Unput, A!Entries, A!Loads
<1>3. \A c \in A!Accounts \ {a} : \A p \in A!Places : A!Of(secrets'[p].entries, c)
         = A!Of(secrets[p].entries, c)
  BY <1>2 DEF A!Without, A!Of
<1>4. b = a
  BY <1>1, <1>3, HeldBeside
<1>q. QED BY <1>1, <1>4 DEF A!Of, A!AccountsAssumption

LEMMA KeptName ==
  ASSUME A!AccountsAssumption, A!IInv, A!Name, NEW b \in A!Accounts, A!Held(b)' # A!Held(b)
  PROVE  run.account = b /\ run.step = "name" /\ A!Held(b)' = run.key
<1> DEFINE a == run.account
<1>1. /\ run.step = "name" /\ UNCHANGED <<files, secrets>> /\ a \in A!Stored
            /\ run.place \in A!Places
      /\ a \in DOMAIN secrets[run.place].entries /\ secrets[run.place].entries[a] = run.key
  BY DEF A!Name, A!IInv, A!KeyInPlace
<1>2. index'.entries = A!With(index.entries, a, run.place)
  BY <1>1 DEF A!Name, A!IInv, A!KnowsIndex
<1>3. \A c \in A!Accounts \ {a} : A!Of(index'.entries, c) = A!Of(index.entries, c)
        /\ (c \in DOMAIN index.entries => c \in DOMAIN index'.entries)
  BY <1>2 DEF A!With, A!Of
<1>4. b = a
  BY <1>1, <1>3, HeldBeside
<1>5. A!Holding(b)' = {}
  BY <1>1, <1>4 DEF A!Holding, A!Stored
<1>6. A!Of(index'.entries, b) = run.place /\ index'.entries[b] = run.place /\ run.place # None
  BY <1>1, <1>2, <1>4 DEF A!With, A!Of, A!AccountsAssumption
<1>7. A!Held(b)' = run.key
  BY <1>1, <1>4, <1>5, <1>6 DEF A!Held, A!Of
<1>q. QED BY <1>1, <1>4, <1>7

\* A sign-out takes away the key of its own account alone.
LEMMA KeptSignOut ==
  ASSUME A!AccountsAssumption, A!IInv, A!SignOut \/ A!Forget \/ A!Unname, NEW b \in A!Accounts,
         A!Held(b)' # A!Held(b)
  PROVE  run.account = b /\ run.step \in {"sign out", "forget", "unname"}
<1>1. CASE A!SignOut
  <2>1. run.step = "sign out" /\ UNCHANGED <<index, secrets>>
    BY <1>1 DEF A!SignOut
  <2>2. PICK a \in A!Accounts : a = run.account
    BY <2>1 DEF A!IInv, A!TypeOK
  <2>3. CASE UNCHANGED files
    BY <2>1, <2>3, HeldUnwritten
  <2>4. CASE /\ A!Find(a).origin \in A!Tools
             /\ files' = [files EXCEPT ![A!Find(a).origin] = A!Without(@, a)]
    <3>1. \A f \in A!Tools : files'[f] = files[f] \/ files'[f] = A!Without(files[f], a)
      BY <2>4 DEF A!IInv, A!TypeOK
    <3>2. \A j \in DOMAIN ToolFiles[b] : ToolFiles[b][j] \in A!Tools
      BY DEF A!Tools
    <3>3. b # a => \A f \in A!Tools :
             /\ A!Of(files'[f], b) = A!Of(files[f], b)
             /\ b \in DOMAIN files[f] => files'[f][b] = files[f][b]
      BY <3>1 DEF A!Of, A!Without
    <3>4. ASSUME b # a, NEW j \in DOMAIN ToolFiles[b]
          PROVE  /\ A!Of(files'[ToolFiles[b][j]], b) = A!Of(files[ToolFiles[b][j]], b)
                 /\ j \in A!Holding(b) => files'[ToolFiles[b][j]][b] = files[ToolFiles[b][j]][b]
      <4>1. j \in A!Holding(b) => b \in DOMAIN files[ToolFiles[b][j]]
        BY DEF A!Holding, A!Of
      <4>2. PICK f \in A!Tools : f = ToolFiles[b][j]
        BY <3>2, <3>4
      <4>3. /\ A!Of(files'[f], b) = A!Of(files[f], b)
            /\ b \in DOMAIN files[f] => files'[f][b] = files[f][b]
        BY <3>3, <3>4
      <4>q. QED BY <4>1, <4>2, <4>3
    <3>q. QED BY <2>1, <2>2, <3>4, HeldStays DEF A!Of
  <2>q. QED BY <1>1, <2>2, <2>3, <2>4 DEF A!SignOut
<1>2. CASE A!Forget
  <2> DEFINE a == run.account
  <2>1. /\ run.step = "forget" /\ UNCHANGED <<files, index>> /\ run.place \in A!Places
              /\ secrets[run.place].parses
    BY <1>2 DEF A!Forget, A!Loads, A!IInv, A!KeyInPlace
  <2>2. \A p \in A!Places : secrets'[p].entries = secrets[p].entries
                          \/ secrets'[p].entries = A!Without(secrets[p].entries, a)
    BY <1>2, <2>1 DEF A!Forget, A!Entries, A!IInv, A!TypeOK
  <2>3. \A c \in A!Accounts \ {a} : \A p \in A!Places : A!Of(secrets'[p].entries, c)
           = A!Of(secrets[p].entries, c)
    BY <2>2 DEF A!Without, A!Of
  <2>q. QED BY <2>1, <2>3, HeldBeside
<1>3. CASE A!Unname
  <2> DEFINE a == run.account
  <2>1. run.step = "unname" /\ UNCHANGED <<files, secrets>>
           /\ index'.entries = A!Without(index.entries, a)
    BY <1>3 DEF A!Unname, A!IInv, A!KnowsIndex
  <2>2. \A c \in A!Accounts \ {a} : A!Of(index'.entries, c) = A!Of(index.entries, c)
          /\ (c \in DOMAIN index.entries => c \in DOMAIN index'.entries)
    BY <2>1 DEF A!Without, A!Of
  <2>q. QED BY <2>1, <2>2, HeldBeside
<1>q. QED BY <1>1, <1>2, <1>3

\* A key of an account goes only for the one a sign-in of it saves, or as a sign-out of it asks.
LEMMA AccountsKeep == ASSUME A!AccountsAssumption, A!IInv, [A!Next]_(A!vars) PROVE A!KeysKept
<1> SUFFICES ASSUME NEW b \in A!Accounts, A!Held(b)' # A!Held(b)
             PROVE  /\ run.step # "idle" /\ run.account = b
                    /\ \/ run.step \in {"sign out", "forget", "unname"}
                       \/ A!Held(b)' = run.key
                       \/ run.place # None /\ A!Of(secrets[run.place].entries, b) = run.key
  BY DEF A!KeysKept
<1>1. CASE UNCHANGED <<files, index, secrets>>
  BY <1>1, HeldUnwritten
<1>2. CASE A!Garble
  <2>1. UNCHANGED files /\ index'.entries = index.entries
           /\ \A p \in A!Places : secrets'[p].entries = secrets[p].entries
    BY <1>2 DEF A!Garble, A!IInv, A!TypeOK, A!Places
  <2>q. QED BY <2>1, HeldUnwritten
<1>3. CASE A!SaveForTools \/ A!Put \/ A!Unput \/ A!Name \/ A!SignOut \/ A!Forget \/ A!Unname
  BY <1>3, KeptForTools, KeptPut, KeptUnput, KeptName, KeptSignOut
<1>q. QED
  BY <1>1, <1>2, <1>3
  DEF A!Next, A!vars, A!kept, A!Begin, A!Work, A!Offer, A!SignIn, A!Given, A!Refused, A!NotSaved,
      A!Load, A!Fails, A!Export

LEMMA AccountsKnow == A!IInv => A!NothingLeftBehind /\ A!RunsWithNewKey
  BY DEF A!IInv, A!LeftWhereNamed, A!NothingLeftBehind

-----------------------------------------------------------------------------
\* Whatever the accounts, the files their tools read and the keys, and however many commands failed
\* or were killed: no sign-in takes a key away that it does not replace, the store has no key that
\* signing out would not remove, and what runs again sends the key that was given, or one before it.
THEOREM KeysAlwaysFollow ==
  ASSUME A!AccountsAssumption
  PROVE  IsOf("accounts") /\ A!Spec => KeysFollow
<1>1. A!Init => A!IInv
  BY AccountsStart
<1>2. A!IInv /\ [A!Next]_(A!vars) => A!IInv'
  BY AccountsNext
<1>3. component = "accounts" /\ A!IInv /\ A!IInv' /\ [A!Next]_(A!vars)
      => [/\ component = "accounts" => A!KeysKept /\ A!NothingLeftBehind' /\ A!RunsWithNewKey'
          /\ component = "stored accounts" =>
                AO!KeysKept /\ AO!NothingLeftBehind' /\ AO!RunsWithNewKey']_keeping
  <2> SUFFICES ASSUME component = "accounts", A!IInv, A!IInv', [A!Next]_(A!vars)
               PROVE  A!KeysKept /\ A!NothingLeftBehind' /\ A!RunsWithNewKey'
    OBVIOUS
  <2>1. A!KeysKept
    BY AccountsKeep
  <2>2. A!NothingLeftBehind' /\ A!RunsWithNewKey'
    BY AccountsKnow DEF A!IInv, A!LeftWhereNamed, A!NothingLeftBehind
  <2>q. QED BY <2>1, <2>2
<1>4. component = "accounts" /\ [UNCHANGED component]_component => (component = "accounts")'
  OBVIOUS
<1>5. IsOf("accounts") => [](component = "accounts")
  BY <1>4, PTL DEF IsOf
<1>q. QED BY <1>1, <1>2, <1>3, <1>5, PTL DEF A!Spec, KeysFollow

-----------------------------------------------------------------------------
(***************************************************************************)
(* Watching, for any number of downloads.                                  *)
(***************************************************************************)
\* What a sum is a value of.
Adds(F, g, X) ==
  F = [T \in SUBSET X |-> IF T = {} THEN 0
                          ELSE g[CHOOSE x \in T : TRUE] + F[T \ {CHOOSE x \in T : TRUE}]]

LEMMA SumIs == ASSUME NEW g, NEW X PROVE W!SumOver(g, X) = (CHOOSE F : Adds(F, g, X))[X]
  BY DEF W!SumOver, W!MapThenSumSet, W!MapThenFoldSet, Adds

\* Of finite sets there is one without a smaller one.
LEMMA SmallestSet ==
  ASSUME NEW X, IsFiniteSet(X), NEW B \in SUBSET SUBSET X, B # {}
  PROVE  \E T \in B : \A Y \in SUBSET T : Y # T => Y \notin B
<1>1. FiniteSubsetsOf(X) = SUBSET X
  BY FS_FiniteSubsetsOfFinite
<1>2. IsWellFoundedOn(StrictSubsetOrdering(X), SUBSET X)
  BY <1>1, FS_StrictSubsetOrderingWellFounded
<1>3. PICK T \in B : \A Y \in B : ~(<<Y, T>> \in StrictSubsetOrdering(X))
  BY <1>2, WFMin
<1>4. \A Y \in SUBSET T : Y # T => Y \notin B
  BY <1>3 DEF StrictSubsetOrdering
<1>q. QED BY <1>4

\* One step of a looked; a looked is the only one; and there is one.
LEMMA AddsOne ==
  ASSUME NEW X, NEW g, NEW F, Adds(F, g, X), NEW T \in SUBSET X
  PROVE  IF T = {} THEN F[T] = 0
         ELSE /\ (CHOOSE x \in T : TRUE) \in T
              /\ F[T] = g[CHOOSE x \in T : TRUE] + F[T \ {CHOOSE x \in T : TRUE}]
  BY DEF Adds

LEMMA AddsUnique ==
  ASSUME NEW X, IsFiniteSet(X), NEW T \in SUBSET X, NEW g, NEW F, NEW G,
         Adds(F, g, X), Adds(G, g, T)
  PROVE  \A Y \in SUBSET T : F[Y] = G[Y]
<1> DEFINE B == {Y \in SUBSET T : F[Y] # G[Y]}
<1>1. SUFFICES ASSUME B # {} PROVE FALSE
  OBVIOUS
<1>2. IsFiniteSet(T)
  BY FS_Subset
<1>3. PICK Y \in B : \A V \in SUBSET Y : V # Y => V \notin B
  <2>1. B \in SUBSET SUBSET T
    OBVIOUS
  <2> HIDE DEF B
  <2>q. QED BY <1>1, <1>2, <2>1, SmallestSet
<1>4. Y \in SUBSET T /\ Y \in SUBSET X /\ F[Y] # G[Y]
  BY <1>3
<1> DEFINE x == CHOOSE x \in Y : TRUE
<1>5. /\ Y = {} => F[Y] = 0 /\ G[Y] = 0
      /\ Y # {} => x \in Y /\ F[Y] = g[x] + F[Y \ {x}] /\ G[Y] = g[x] + G[Y \ {x}]
  BY <1>4, AddsOne
<1> HIDE DEF x
<1>6. x \in Y /\ Y \ {x} # Y /\ Y \ {x} \in SUBSET Y
  BY <1>4, <1>5
<1>7. F[Y \ {x}] = G[Y \ {x}]
  BY <1>3, <1>4, <1>6
<1>q. QED BY <1>4, <1>5, <1>6, <1>7

LEMMA AddsExists ==
  ASSUME NEW X, IsFiniteSet(X), NEW g
  PROVE  \E F : Adds(F, g, X)
<1> DEFINE B == {T \in SUBSET X : ~\E F : Adds(F, g, T)}
<1>1. SUFFICES ASSUME B # {} PROVE FALSE
  <2>1. X \notin B => \E F : Adds(F, g, X)
    OBVIOUS
  <2>q. QED BY <2>1
<1>2. PICK T \in B : \A Y \in SUBSET T : Y # T => Y \notin B
  <2>1. B \in SUBSET SUBSET X
    OBVIOUS
  <2> HIDE DEF B
  <2>q. QED BY <1>1, <2>1, SmallestSet
<1>3. T \in SUBSET X /\ ~\E F : Adds(F, g, T)
  BY <1>2
<1> DEFINE of(Y) == CHOOSE F : Adds(F, g, Y)
<1>4. \A Y \in SUBSET T : Y # T => Adds(of(Y), g, Y)
  <2> SUFFICES ASSUME NEW Y \in SUBSET T, Y # T PROVE \E F : Adds(F, g, Y)
    OBVIOUS
  <2>q. QED BY <1>2, <1>3
<1> DEFINE some(Y) == CHOOSE x \in Y : TRUE
           below(Y) == IF Y = {} THEN 0 ELSE g[some(Y)] + of(Y \ {some(Y)})[Y \ {some(Y)}]
           fold == [Y \in SUBSET T |-> below(Y)]
<1>5. ASSUME NEW Y \in SUBSET T, Y # {}
      PROVE  /\ some(Y) \in Y /\ Y \ {some(Y)} \in SUBSET T /\ Y \ {some(Y)} # T
             /\ fold[Y \ {some(Y)}] = of(Y \ {some(Y)})[Y \ {some(Y)}]
  <2>1. some(Y) \in Y
    BY <1>5
  <2> DEFINE V == Y \ {some(Y)}
  <2> HIDE DEF some
  <2>2. V \in SUBSET T /\ V # T
    BY <2>1
  <2>3. Adds(of(V), g, V) /\ IsFiniteSet(V)
    BY <1>3, <1>4, <2>2, FS_Subset
  <2> HIDE DEF V, of
  <2>4. CASE V = {}
    <3>1. of(V)[V] = 0
      BY <2>3, <2>4, AddsOne
    <3>q. QED BY <2>1, <2>2, <2>4, <3>1 DEF V
  <2>5. CASE V # {}
    <3>1. some(V) \in V /\ of(V)[V] = g[some(V)] + of(V)[V \ {some(V)}]
      BY <2>3, <2>5, AddsOne DEF some
    <3>2. V \ {some(V)} \in SUBSET T /\ V \ {some(V)} # T /\ V \ {some(V)} \in SUBSET V
      BY <2>2, <3>1
    <3>3. Adds(of(V \ {some(V)}), g, V \ {some(V)})
      BY <1>4, <3>2 DEF of
    <3>4. of(V)[V \ {some(V)}] = of(V \ {some(V)})[V \ {some(V)}]
      BY <2>3, <3>2, <3>3, AddsUnique
    <3>q. QED BY <2>1, <2>2, <2>5, <3>1, <3>4 DEF V
  <2>q. QED BY <2>4, <2>5
<1>6. Adds(fold, g, T)
  <2>1. \A Y \in SUBSET T : below(Y) = IF Y = {} THEN 0 ELSE g[some(Y)] + fold[Y \ {some(Y)}]
    <3> HIDE DEF some, of, fold
    <3>q. QED BY <1>5
  <2> HIDE DEF below
  <2>q. QED BY <2>1 DEF Adds
<1>q. QED BY <1>3, <1>6

\* A sum is that of all but the element chosen first, and of that.
LEMMA SumStep ==
  ASSUME NEW X, IsFiniteSet(X), NEW g
  PROVE  /\ W!SumOver(g, {}) = 0
         /\ X # {} => LET x == CHOOSE x \in X : TRUE
                      IN  x \in X /\ W!SumOver(g, X) = g[x] + W!SumOver(g, X \ {x})
<1>1. ASSUME NEW T, IsFiniteSet(T) PROVE \E F : Adds(F, g, T) /\ W!SumOver(g, T) = F[T]
  BY <1>1, AddsExists, SumIs
<1>2. W!SumOver(g, {}) = 0
  <2>1. PICK F : Adds(F, g, {}) /\ W!SumOver(g, {}) = F[{}]
    BY <1>1, FS_EmptySet
  <2>q. QED BY <2>1, AddsOne
<1> DEFINE x == CHOOSE x \in X : TRUE
<1>3. ASSUME X # {} PROVE x \in X /\ W!SumOver(g, X) = g[x] + W!SumOver(g, X \ {x})
  <2>1. PICK F : Adds(F, g, X) /\ W!SumOver(g, X) = F[X]
    BY <1>1
  <2>2. x \in X /\ F[X] = g[x] + F[X \ {x}]
    BY <1>3, <2>1, AddsOne
  <2> HIDE DEF x
  <2>3. IsFiniteSet(X \ {x})
    BY FS_RemoveElement
  <2>4. PICK G : Adds(G, g, X \ {x}) /\ W!SumOver(g, X \ {x}) = G[X \ {x}]
    BY <1>1, <2>3
  <2>5. F[X \ {x}] = G[X \ {x}]
    BY <2>1, <2>4, AddsUnique
  <2>q. QED BY <2>1, <2>2, <2>4, <2>5
<1>q. QED BY <1>2, <1>3

\* What holds of a sum of natural numbers, whichever element was chosen.
LEMMA SumAny ==
  ASSUME NEW X, IsFiniteSet(X), NEW g, \A x \in X : g[x] \in Nat
  PROVE  W!SumOver(g, X) \in Nat /\ \A x \in X : W!SumOver(g, X) = g[x] + W!SumOver(g, X \ {x})
<1> DEFINE Good(T) == /\ W!SumOver(g, T) \in Nat
                      /\ \A x \in T : W!SumOver(g, T) = g[x] + W!SumOver(g, T \ {x})
           B == {T \in SUBSET X : ~Good(T)}
<1>1. SUFFICES ASSUME B # {} PROVE FALSE
  OBVIOUS
<1>2. PICK T \in B : \A Y \in SUBSET T : Y # T => Y \notin B
  <2>1. B \in SUBSET SUBSET X
    OBVIOUS
  <2> HIDE DEF B
  <2>q. QED BY <1>1, <2>1, SmallestSet
<1> HIDE DEF Good
<1>3. T \in SUBSET X /\ ~Good(T) /\ IsFiniteSet(T)
  BY <1>2, FS_Subset
<1>4. ASSUME NEW x \in T PROVE Good(T \ {x}) /\ g[x] \in Nat
  BY <1>2, <1>3
<1>5. T # {}
  <2>1. W!SumOver(g, {}) = 0
    BY FS_EmptySet, SumStep
  <2>2. ASSUME T = {} PROVE Good(T)
    <3>1. W!SumOver(g, T) = 0 /\ \A x \in T : FALSE
      BY <2>1, <2>2
    <3>q. QED BY <3>1 DEF Good
  <2>q. QED BY <1>3, <2>2
<1> DEFINE c == CHOOSE x \in T : TRUE
<1>6. c \in T /\ W!SumOver(g, T) = g[c] + W!SumOver(g, T \ {c})
  BY <1>3, <1>5, SumStep
<1> HIDE DEF c
<1>7. W!SumOver(g, T) \in Nat
  BY <1>4, <1>6 DEF Good
<1>8. ASSUME NEW x \in T PROVE W!SumOver(g, T) = g[x] + W!SumOver(g, T \ {x})
  <2>1. CASE x = c
    BY <1>6, <2>1
  <2>2. CASE x # c
    <3>1. x \in T \ {c} /\ c \in T \ {x} /\ (T \ {c}) \ {x} = (T \ {x}) \ {c}
      BY <1>6, <2>2
    <3>2. W!SumOver(g, T \ {c}) = g[x] + W!SumOver(g, (T \ {c}) \ {x})
      BY <1>4, <1>6, <3>1 DEF Good
    <3>3. W!SumOver(g, T \ {x}) = g[c] + W!SumOver(g, (T \ {c}) \ {x})
      BY <1>4, <3>1 DEF Good
    <3>4. W!SumOver(g, (T \ {c}) \ {x}) \in Nat
      <4>1. (T \ {c}) \ {x} \in SUBSET T /\ (T \ {c}) \ {x} # T /\ (T \ {c}) \ {x} \in SUBSET X
        BY <1>3, <1>6
      <4>q. QED BY <1>2, <4>1 DEF Good
    <3>q. QED BY <1>4, <1>6, <3>2, <3>3, <3>4
  <2>q. QED BY <2>1, <2>2
<1>q. QED BY <1>3, <1>7, <1>8 DEF Good

\* A sum is of what its elements have.
LEMMA SumSame ==
  ASSUME NEW X, IsFiniteSet(X), NEW g, NEW h, \A x \in X : g[x] = h[x]
  PROVE  W!SumOver(g, X) = W!SumOver(h, X)
<1> DEFINE B == {T \in SUBSET X : W!SumOver(g, T) # W!SumOver(h, T)}
<1>1. SUFFICES ASSUME B # {} PROVE FALSE
  OBVIOUS
<1>2. PICK T \in B : \A Y \in SUBSET T : Y # T => Y \notin B
  <2>1. B \in SUBSET SUBSET X
    OBVIOUS
  <2> HIDE DEF B
  <2>q. QED BY <1>1, <2>1, SmallestSet
<1>3. T \in SUBSET X /\ IsFiniteSet(T) /\ W!SumOver(g, T) # W!SumOver(h, T)
  BY <1>2, FS_Subset
<1>4. T # {}
  BY <1>3, SumStep
<1> DEFINE c == CHOOSE x \in T : TRUE
<1>5. /\ c \in T /\ W!SumOver(g, T) = g[c] + W!SumOver(g, T \ {c})
      /\ W!SumOver(h, T) = h[c] + W!SumOver(h, T \ {c})
  BY <1>3, <1>4, SumStep
<1> HIDE DEF c
<1>6. T \ {c} \notin B /\ T \ {c} \in SUBSET X
  BY <1>2, <1>3, <1>5
<1>7. W!SumOver(g, T \ {c}) = W!SumOver(h, T \ {c}) /\ g[c] = h[c]
  BY <1>3, <1>5, <1>6
<1>q. QED BY <1>3, <1>5, <1>7

\* One element more, and one that changes.
LEMMA SumMore ==
  ASSUME NEW X, IsFiniteSet(X), NEW g, NEW x, x \notin X, \A y \in X \cup {x} : g[y] \in Nat
  PROVE  W!SumOver(g, X \cup {x}) = W!SumOver(g, X) + g[x]
<1>1. IsFiniteSet(X \cup {x}) /\ (X \cup {x}) \ {x} = X
  BY FS_AddElement
<1>2. W!SumOver(g, X \cup {x}) = g[x] + W!SumOver(g, X)
  BY <1>1, SumAny
<1>q. QED BY <1>2, SumAny

LEMMA SumChange ==
  ASSUME NEW X, IsFiniteSet(X), NEW g, NEW h, NEW x \in X,
         \A y \in X : g[y] \in Nat /\ h[y] \in Nat, \A y \in X \ {x} : g[y] = h[y]
  PROVE  /\ W!SumOver(h, X) + g[x] = W!SumOver(g, X) + h[x]
         /\ W!SumOver(g, X) \in Nat /\ W!SumOver(h, X) \in Nat
<1>1. IsFiniteSet(X \ {x})
  BY FS_RemoveElement
<1>2. W!SumOver(g, X \ {x}) = W!SumOver(h, X \ {x}) /\ W!SumOver(g, X \ {x}) \in Nat
  BY <1>1, SumSame, SumAny
<1>3. /\ W!SumOver(g, X) = g[x] + W!SumOver(g, X \ {x})
      /\ W!SumOver(h, X) = h[x] + W!SumOver(h, X \ {x})
      /\ W!SumOver(g, X) \in Nat /\ W!SumOver(h, X) \in Nat
  BY SumAny
<1>q. QED BY <1>2, <1>3

\* At the start nobody asks.
LEMMA WatchStart == ASSUME W!WatchAssumption, W!Init PROVE W!Asking
  BY DEF W!WatchAssumption, W!Init, W!Asking, W!TypeOK, W!Steps, W!AskedOnce, W!Counting,
     W!AsksOnceBeforeLarge

\* What the events of a download change of what is asked about.
LEMMA StartedKeeps ==
  ASSUME W!WatchAssumption, W!TypeOK, NEW f \in Downloads, NEW of \in W!Starts(f), W!Started(f, of)
  PROVE  /\ been' \in [Downloads -> Nat] /\ sent' \in [Downloads -> Nat]
         /\ DOMAIN written' = Downloads
         /\ \A g \in Downloads \ {f} : sent'[g] = sent[g] /\ written'[g] = written[g]
         /\ f \notin ToldFiles => sent'[f] = of.resumed /\ written'[f] = (of.total = None)
<1>1. of.resumed \in Nat
  BY DEF W!Starts
<1>2. been' \in [Downloads -> Nat]
  BY <1>1 DEF W!Started, W!TypeOK
<1>3. CASE f \in ToldFiles
  BY <1>2, <1>3 DEF W!Started, W!TypeOK
<1>4. CASE f \notin ToldFiles
  BY <1>1, <1>2, <1>4 DEF W!Started, W!TypeOK
<1>q. QED BY <1>3, <1>4

\* A step of one file that asks nothing of the others, under the answer there was.
LEMMA WatchOne ==
  ASSUME W!Asking, UNCHANGED <<link, redirects>>, NEW f \in Downloads,
         proxies' \in [Downloads -> W!Steps], DOMAIN hop' = Downloads,
         \A g \in Downloads \ {f} : /\ proxies'[g] = proxies[g] /\ hop'[g] = hop[g]
                                    /\ sent'[g] = sent[g] /\ written'[g] = written[g],
         been' \in [Downloads -> Nat], sent' \in [Downloads -> Nat], DOMAIN written' = Downloads,
         proxies'[f] # "off" => hop'[f] \in W!Starts(f),
         f \notin ToldFiles /\ proxies'[f] # "off" /\ hop'[f].total = None =>
            /\ proxies'[f] # "asks to begin"
            /\ written'[f] \/ link = "yes" \/ proxies'[f] = "failed",
         f \notin ToldFiles /\ proxies'[f] \in {"runs", "done"} /\ W!Large(f)' => link = "yes"
  PROVE  W!Asking'
<1>1. W!TypeOK' /\ W!AskedOnce'
  BY DEF W!Asking, W!TypeOK, W!AskedOnce
<1>2. W!Counting'
  BY DEF W!Asking, W!Counting
<1>3. W!AsksOnceBeforeLarge'
  BY DEF W!Asking, W!AsksOnceBeforeLarge, W!Large
<1>q. QED BY <1>1, <1>2, <1>3 DEF W!Asking

\* What is large by what its server tells is asked for before it begins ...
LEMMA WatchBegin ==
  ASSUME W!WatchAssumption, W!Asking, NEW f \in Downloads, NEW total \in {FileSizes[f], None},
         NEW resumed \in 0 .. W!OnDisk(f), W!Begin(f, [total |-> total, resumed |-> resumed])
  PROVE  W!Asking'
<1> DEFINE of == [total |-> total, resumed |-> resumed]
<1>1. W!OnDisk(f) \in Nat
  BY DEF W!OnDisk, W!WatchAssumption, W!Asking, W!TypeOK
<1>2. of \in W!Starts(f) /\ of.resumed \in Nat /\ of.total \in {FileSizes[f], None}
  BY <1>1 DEF W!Starts
<1>3. /\ hop' = [hop EXCEPT ![f] = of] /\ hop'[f] = of /\ DOMAIN hop' = Downloads
      /\ UNCHANGED <<link, redirects>>
  BY DEF W!Begin, W!Asking, W!TypeOK
<1>4. CASE f \notin ToldFiles /\ W!left(of) > AskAbove /\ W!Goes(f, "asks to begin")
              /\ UNCHANGED W!progress
  <2>1. of.total # None
    <3>1. W!left(of) > AskAbove /\ AskAbove \in Nat
      BY <1>4 DEF W!WatchAssumption
    <3> HIDE DEF of
    <3>2. CASE of.total = None
      <4>1. W!left(of) = 0
        BY <3>2 DEF W!left
      <4>q. QED BY <3>1, <4>1
    <3>q. QED BY <3>2
  <2>2. /\ proxies' \in [Downloads -> W!Steps] /\ proxies'[f] = "asks to begin"
        /\ UNCHANGED <<been, sent, written>>
        /\ \A g \in Downloads \ {f} : proxies'[g] = proxies[g]
    BY <1>4 DEF W!Goes, W!progress, W!Asking, W!TypeOK, W!Steps
  <2>q. QED BY <1>2, <1>3, <2>1, <2>2, WatchOne DEF W!Asking, W!TypeOK
<1>5. CASE ~(f \notin ToldFiles /\ W!left(of) > AskAbove) /\ W!Goes(f, "runs") /\ W!Started(f, of)
  <2>1. /\ proxies' \in [Downloads -> W!Steps] /\ proxies'[f] = "runs"
        /\ \A g \in Downloads \ {f} : proxies'[g] = proxies[g]
    BY <1>5 DEF W!Goes, W!Asking, W!TypeOK, W!Steps
  <2>2. /\ been' \in [Downloads -> Nat] /\ sent' \in [Downloads -> Nat]
        /\ DOMAIN written' = Downloads
        /\ \A g \in Downloads \ {f} : sent'[g] = sent[g] /\ written'[g] = written[g]
        /\ f \notin ToldFiles => sent'[f] = of.resumed /\ written'[f] = (of.total = None)
    BY <1>2, <1>5, StartedKeeps DEF W!Asking
  <2>3. f \notin ToldFiles => ~W!Large(f)'
    BY <1>2, <1>3, <1>5, <2>2 DEF W!Large, W!left
  <2>q. QED BY <1>2, <1>3, <2>1, <2>2, <2>3, WatchOne DEF W!Asking, W!TypeOK
<1>q. QED BY <1>4, <1>5 DEF W!Begin

\* ... and what gets large without a size, once it did.
LEMMA WatchReceive ==
  ASSUME W!WatchAssumption, W!Asking, NEW f \in Downloads, W!Receive(f)
  PROVE  W!Asking'
<1>1. /\ proxies[f] = "runs" /\ UNCHANGED <<link, redirects, hop, written>>
      /\ been' = [been EXCEPT ![f] = @ + 1] /\ sent' = [sent EXCEPT ![f] = @ + 1]
      /\ been \in [Downloads -> Nat] /\ sent \in [Downloads -> Nat]
  BY DEF W!Receive, W!Asking, W!TypeOK
<1>2. /\ been' \in [Downloads -> Nat] /\ sent' \in [Downloads -> Nat]
      /\ \A g \in Downloads \ {f} : sent'[g] = sent[g]
  BY <1>1
<1>3. /\ proxies' \in [Downloads -> W!Steps] /\ \A g \in Downloads \ {f} : proxies'[g] = proxies[g]
      /\ proxies'[f] = IF written[f] /\ sent'[f] > AskAbove THEN "asks to go on" ELSE "runs"
  BY <1>1 DEF W!Receive, W!Goes, W!Asking, W!TypeOK, W!Steps
<1>4. f \notin ToldFiles /\ proxies'[f] \in {"runs", "done"} /\ W!Large(f)' => link = "yes"
  <2> SUFFICES ASSUME f \notin ToldFiles, proxies'[f] = "runs", W!Large(f)' PROVE link = "yes"
    BY <1>3
  <2>1. CASE W!left(hop[f]) > AskAbove
    BY <1>1, <2>1 DEF W!Asking, W!AsksOnceBeforeLarge, W!Large
  <2>2. CASE hop[f].total = None /\ sent'[f] > AskAbove
    BY <1>1, <1>3, <2>2 DEF W!Asking, W!Counting
  <2>q. QED BY <1>1, <2>1, <2>2 DEF W!Large, W!left
<1>q. QED BY <1>1, <1>2, <1>3, <1>4, WatchOne DEF W!Asking, W!TypeOK, W!Counting

\* The first to ask asks for all; nobody had a yes before.
LEMMA WatchQuestion ==
  ASSUME W!WatchAssumption, W!Asking, NEW f \in Downloads, W!Question(f)
  PROVE  W!Asking'
<1>1. /\ link = None /\ link' = f /\ redirects' = redirects + 1 /\ W!Asks(f)
      /\ UNCHANGED <<proxies, hop, been, sent, written>>
  BY DEF W!Question, W!MayAsk, W!progress
<1>2. link \notin {"yes"} /\ redirects = 0
  BY <1>1 DEF W!Asking, W!AskedOnce, W!WatchAssumption
<1>3. W!TypeOK' /\ W!AskedOnce'
  BY <1>1, <1>2 DEF W!Asking, W!TypeOK, W!AskedOnce, W!WatchAssumption
<1>4. W!Counting'
  BY <1>1, <1>2 DEF W!Asking, W!Counting
<1>5. \A g \in Downloads : W!Large(g)' = W!Large(g)
  BY <1>1 DEF W!Large, W!left
<1>6. W!AsksOnceBeforeLarge'
  BY <1>1, <1>2, <1>5 DEF W!Asking, W!AsksOnceBeforeLarge
<1>q. QED BY <1>3, <1>4, <1>6 DEF W!Asking

\* The answer is all files'.
LEMMA WatchAnswer ==
  ASSUME W!WatchAssumption, W!Asking, NEW yes \in BOOLEAN, W!Answer(yes)
  PROVE  W!Asking'
<1>1. /\ link \in Downloads /\ link' = IF yes THEN "yes" ELSE "no"
      /\ UNCHANGED <<redirects, proxies, hop, been, sent, written>>
  BY DEF W!Answer, W!progress
<1>2. link \notin {"yes", "no", None} /\ link' \in {"yes", "no"} /\ None \notin {"yes", "no"}
  BY <1>1 DEF W!WatchAssumption
<1>3. W!TypeOK' /\ W!AskedOnce'
  BY <1>1, <1>2 DEF W!Asking, W!TypeOK, W!AskedOnce
<1>4. W!Counting' /\ W!AsksOnceBeforeLarge'
  BY <1>1, <1>2 DEF W!Asking, W!Counting, W!AsksOnceBeforeLarge, W!Large
<1>q. QED BY <1>3, <1>4 DEF W!Asking

\* With a yes a file goes on.
LEMMA WatchApproved ==
  ASSUME W!WatchAssumption, W!Asking, NEW f \in Downloads, W!Approved(f)
  PROVE  W!Asking'
<1>1. /\ proxies[f] \in {"asks to begin", "asks to go on"} /\ link = "yes"
      /\ UNCHANGED <<link, redirects, hop>> /\ hop[f] \in W!Starts(f)
      /\ proxies' \in [Downloads -> W!Steps] /\ proxies'[f] = "runs"
      /\ \A g \in Downloads \ {f} : proxies'[g] = proxies[g]
  BY DEF W!Approved, W!Asks, W!Goes, W!Asking, W!TypeOK, W!Steps
<1>2. /\ been' \in [Downloads -> Nat] /\ sent' \in [Downloads -> Nat] /\ DOMAIN written' = Downloads
      /\ \A g \in Downloads \ {f} : sent'[g] = sent[g] /\ written'[g] = written[g]
  <2>1. CASE proxies[f] = "asks to begin"
    BY <1>1, <2>1, StartedKeeps DEF W!Approved, W!Asking
  <2>2. CASE proxies[f] # "asks to begin"
    BY <1>1, <2>2 DEF W!Approved, W!Asking, W!TypeOK
  <2>q. QED BY <2>1, <2>2
<1>q. QED BY <1>1, <1>2, WatchOne DEF W!Asking, W!TypeOK

\* A try that ends, or a file that does.
LEMMA WatchEnds ==
  ASSUME W!WatchAssumption, W!Asking, NEW f \in Downloads, NEW to \in {"off", "done", "failed"},
         W!Goes(f, to), proxies[f] = "runs" \/ (W!Asks(f) /\ to = "failed"),
         UNCHANGED <<link, redirects, hop, W!progress>>
  PROVE  W!Asking'
<1>1. /\ proxies' \in [Downloads -> W!Steps] /\ proxies'[f] = to
      /\ \A g \in Downloads \ {f} : proxies'[g] = proxies[g]
      /\ UNCHANGED <<been, sent, written>> /\ hop[f] \in W!Starts(f)
  BY DEF W!Goes, W!progress, W!Asking, W!TypeOK, W!Steps, W!Asks
<1>2. f \notin ToldFiles /\ to = "done" /\ W!Large(f) => link = "yes"
  BY <1>1 DEF W!Asking, W!AsksOnceBeforeLarge, W!Asks
<1>3. f \notin ToldFiles /\ to # "off" /\ hop[f].total = None =>
         written[f] \/ link = "yes" \/ to = "failed"
  BY DEF W!Asking, W!Counting, W!Asks
<1>4. W!Large(f)' = W!Large(f)
  BY <1>1 DEF W!Large, W!left
<1>q. QED BY <1>1, <1>2, <1>3, <1>4, WatchOne DEF W!Asking, W!TypeOK

\* Every step keeps the question first.
LEMMA WatchNext == ASSUME W!WatchAssumption, W!Asking, [W!Next]_(W!vars) PROVE W!Asking'
<1>1. CASE UNCHANGED W!vars
  BY <1>1 DEF W!vars, W!progress, W!Asking, W!TypeOK, W!AskedOnce, W!Counting,
     W!AsksOnceBeforeLarge, W!Large
<1>2. ASSUME NEW f \in Downloads, W!Refused(f) \/ W!Break(f) \/ W!End(f) PROVE W!Asking'
  BY <1>2, WatchEnds DEF W!Refused, W!Break, W!End
<1>q. QED
  BY <1>1, <1>2, WatchBegin, WatchReceive, WatchQuestion, WatchApproved, WatchAnswer DEF W!Next

\* The larger of two numbers.
LEMMA MaxOfTwo ==
  ASSUME NEW a \in Nat, NEW b \in Nat
  PROVE  W!Max({a, b}) = IF a >= b THEN a ELSE b
<1> DEFINE m == IF a >= b THEN a ELSE b
<1>1. m \in {a, b} /\ \A y \in {a, b} : m >= y
  OBVIOUS
<1>2. \A n \in {a, b} : (\A y \in {a, b} : n >= y) => n = m
  OBVIOUS
<1>q. QED BY <1>1, <1>2 DEF W!Max

\* There are finitely many downloads.
LEMMA FiniteDownloads == ASSUME W!WatchAssumption PROVE IsFiniteSet(Downloads)
  BY DEF W!WatchAssumption, W!IsFiniteSet, IsFiniteSet

\* The bar for them all moves on with the furthest point of one.
LEMMA CountedOn ==
  ASSUME W!WatchAssumption, W!TypeOK, W!Counted, NEW f \in Downloads, NEW at \in 0 .. FileSizes[f],
         W!count(f, at), been' = [been EXCEPT ![f] = at]
  PROVE  /\ looked' \in [Downloads -> Nat] /\ limited' = W!SumOver(looked', Downloads)
         /\ \A g \in Downloads : been'[g] <= looked'[g] /\ looked'[g] <= FileSizes[g]
<1>1. at \in Nat /\ at <= FileSizes[f] /\ FileSizes[f] \in Nat /\ looked \in [Downloads -> Nat]
      /\ been \in [Downloads -> Nat] /\ IsFiniteSet(Downloads)
  BY FiniteDownloads DEF W!WatchAssumption, W!TypeOK, W!Counted
<1> DEFINE to == W!Max({looked[f], at})
<1>2. to = IF looked[f] >= at THEN looked[f] ELSE at
  BY <1>1, MaxOfTwo
<1>3. looked' = [looked EXCEPT ![f] = to] /\ limited' = limited + to - looked[f]
  BY DEF W!count
<1> HIDE DEF to
<1>4. to \in Nat /\ to >= at /\ to >= looked[f] /\ to <= FileSizes[f]
  BY <1>1, <1>2 DEF W!Counted, W!CountsOnce
<1>5. looked' \in [Downloads -> Nat] /\ looked'[f] = to /\ \A g \in Downloads \ {f} : looked'[g]
         = looked[g]
  BY <1>1, <1>3, <1>4
<1>6. \A g \in Downloads : been'[g] <= looked'[g] /\ looked'[g] <= FileSizes[g]
  BY <1>1, <1>4, <1>5 DEF W!Counted, W!CountsOnce
<1>7. /\ W!SumOver(looked', Downloads) + looked[f] = W!SumOver(looked, Downloads) + to
      /\ W!SumOver(looked', Downloads) \in Nat /\ W!SumOver(looked, Downloads) \in Nat
  BY <1>1, <1>5, SumChange
<1>8. limited' = W!SumOver(looked', Downloads)
  BY <1>1, <1>3, <1>4, <1>7 DEF W!Counted, W!CountsOnce
<1>q. QED BY <1>5, <1>6, <1>8

\* The size of a file counts once, whenever its server tells it.
LEMMA StartedCounts ==
  ASSUME W!WatchAssumption, W!TypeOK, W!Counted, NEW f \in Downloads, NEW of \in W!Starts(f),
         of.resumed <= FileSizes[f], W!Started(f, of)
  PROVE  /\ looked' \in [Downloads -> Nat] /\ proxied' \in [Downloads -> BOOLEAN] /\ W!CountsOnce'
<1>1. of.resumed \in 0 .. FileSizes[f] /\ of.total \in {FileSizes[f], None}
  BY DEF W!Starts, W!WatchAssumption
<1>2. W!count(f, of.resumed) /\ been' = [been EXCEPT ![f] = of.resumed]
  BY DEF W!Started
<1>3. /\ looked' \in [Downloads -> Nat] /\ limited' = W!SumOver(looked', Downloads)
      /\ \A g \in Downloads : been'[g] <= looked'[g] /\ looked'[g] <= FileSizes[g]
  BY <1>1, <1>2, CountedOn
<1> DEFINE told == ToldFiles \cup {g \in Downloads : proxied[g]}
<1>4. /\ IsFiniteSet(told) /\ told \subseteq Downloads /\ \A g \in Downloads : FileSizes[g] \in Nat
      /\ proxied \in [Downloads -> BOOLEAN] /\ first = W!SumOver(FileSizes, told)
  BY FS_Subset, FiniteDownloads DEF W!WatchAssumption, W!Counted, W!CountsOnce
<1>5. /\ proxied' \in [Downloads -> BOOLEAN]
      /\ first' = W!SumOver(FileSizes, ToldFiles \cup {g \in Downloads : proxied'[g]})
  <2>1. CASE f \in ToldFiles
    BY <1>4, <2>1 DEF W!Started
  <2>2. CASE f \notin ToldFiles /\ of.total = None
    <3> HIDE DEF told
    <3>a. first' = first /\ proxied' = [proxied EXCEPT ![f] = @ \/ of.total # None]
      BY <2>2 DEF W!Started
    <3>b. proxied[f] \in BOOLEAN /\ (proxied[f] \/ of.total # None) = proxied[f]
      BY <1>4, <2>2
    <3>1. proxied' = proxied /\ first' = first
      BY <1>4, <3>a, <3>b
    <3> USE DEF told
    <3>q. QED BY <1>4, <3>1
  <2>3. CASE f \notin ToldFiles /\ of.total # None /\ proxied[f]
    <3>1. proxied' = proxied /\ first' = first
      BY <1>4, <2>3 DEF W!Started
    <3>q. QED BY <1>4, <3>1
  <2>4. CASE f \notin ToldFiles /\ of.total # None /\ ~proxied[f]
    <3> HIDE DEF told
    <3>1. proxied' = [proxied EXCEPT ![f] = TRUE] /\ first' = first + FileSizes[f]
      BY <1>1, <1>4, <2>4 DEF W!Started
    <3> USE DEF told
    <3>2. ToldFiles \cup {g \in Downloads : proxied'[g]} = told \cup {f} /\ f \notin told
      BY <1>4, <2>4, <3>1
    <3> HIDE DEF told
    <3>3. W!SumOver(FileSizes, told \cup {f}) = W!SumOver(FileSizes, told) + FileSizes[f]
      BY <1>4, <3>2, SumMore
    <3>q. QED BY <1>4, <3>1, <3>2, <3>3
  <2>q. QED BY <1>4, <2>1, <2>2, <2>3, <2>4
<1>q. QED BY <1>3, <1>5 DEF W!CountsOnce

\* A step that moves no bar.
LEMMA CountedStays ==
  ASSUME W!Counted, UNCHANGED W!progress,
         \A f \in Downloads : proxies'[f] # "off" => hop'[f].resumed <= FileSizes[f]
  PROVE  W!Counted'
  BY DEF W!Counted, W!CountsOnce, W!progress

\* A try goes on from within the file.
LEMMA CountedBegin ==
  ASSUME W!WatchAssumption, W!TypeOK, W!Counted, NEW f \in Downloads,
         NEW total \in {FileSizes[f], None},
         NEW resumed \in 0 .. W!OnDisk(f), W!Begin(f, [total |-> total, resumed |-> resumed])
  PROVE  W!Counted'
<1> DEFINE of == [total |-> total, resumed |-> resumed]
<1>1. W!OnDisk(f) \in Nat /\ W!OnDisk(f) <= FileSizes[f] /\ FileSizes[f] \in Nat
  BY DEF W!OnDisk, W!WatchAssumption, W!TypeOK, W!Counted, W!CountsOnce
<1>2. of \in W!Starts(f) /\ of.resumed <= FileSizes[f]
  BY <1>1 DEF W!Starts
<1>3. hop' = [hop EXCEPT ![f] = of] /\ DOMAIN hop = Downloads /\ DOMAIN proxies = Downloads
  BY DEF W!Begin, W!TypeOK
<1>4. \A g \in Downloads : proxies'[g] # "off" => hop'[g].resumed <= FileSizes[g]
  <2> TAKE g \in Downloads
  <2>1. CASE g = f
    BY <1>2, <1>3, <2>1
  <2>2. CASE g # f
    BY <1>3, <2>2 DEF W!Begin, W!Goes, W!Counted
  <2>q. QED BY <2>1, <2>2
<1>5. CASE UNCHANGED W!progress
  BY <1>4, <1>5, CountedStays
<1>6. CASE W!Started(f, of)
  <2> HIDE DEF of
  <2>q. QED BY <1>2, <1>4, <1>6, StartedCounts DEF W!Counted
<1>q. QED BY <1>5, <1>6 DEF W!Begin

\* Bytes of a download that is not whole yet.
LEMMA CountedReceive ==
  ASSUME W!WatchAssumption, W!TypeOK, W!Counted, NEW f \in Downloads, W!Receive(f)
  PROVE  W!Counted'
<1>1. been[f] \in Nat /\ FileSizes[f] \in Nat /\ been[f] < FileSizes[f]
  BY DEF W!Receive, W!TypeOK, W!WatchAssumption
<1>2. been[f] + 1 \in 0 .. FileSizes[f]
  BY <1>1
<1>3. W!count(f, been[f] + 1) /\ been' = [been EXCEPT ![f] = been[f] + 1]
      /\ UNCHANGED <<hop, proxied, first>>
  BY DEF W!Receive
<1>4. /\ looked' \in [Downloads -> Nat] /\ limited' = W!SumOver(looked', Downloads)
      /\ \A g \in Downloads : been'[g] <= looked'[g] /\ looked'[g] <= FileSizes[g]
  BY <1>2, <1>3, CountedOn
<1>5. \A g \in Downloads : proxies'[g] # "off" => hop'[g].resumed <= FileSizes[g]
  BY <1>3 DEF W!Receive, W!Goes, W!TypeOK, W!Counted
<1>q. QED BY <1>3, <1>4, <1>5 DEF W!Counted, W!CountsOnce

\* A file that waited for the answer starts, or goes on.
LEMMA CountedApproved ==
  ASSUME W!WatchAssumption, W!TypeOK, W!Counted, NEW f \in Downloads, W!Approved(f)
  PROVE  W!Counted'
<1>1. /\ proxies[f] \in {"asks to begin", "asks to go on"} /\ hop' = hop
      /\ hop[f] \in W!Starts(f) /\ hop[f].resumed <= FileSizes[f]
  BY DEF W!Approved, W!Asks, W!TypeOK, W!Counted
<1>2. \A g \in Downloads : proxies'[g] # "off" => hop'[g].resumed <= FileSizes[g]
  BY <1>1 DEF W!Approved, W!Goes, W!TypeOK, W!Counted
<1>3. CASE W!Started(f, hop[f])
  BY <1>1, <1>2, <1>3, StartedCounts DEF W!Counted
<1>4. CASE UNCHANGED <<been, sent, looked, proxied, first, limited>>
  BY <1>2, <1>4 DEF W!Counted, W!CountsOnce
<1>q. QED BY <1>3, <1>4 DEF W!Approved

\* Nothing sums up to nothing.
LEMMA SumZero ==
  ASSUME NEW X, IsFiniteSet(X), NEW of, \A x \in X : of[x] = 0
  PROVE  W!SumOver(of, X) = 0
<1> DEFINE Bad == {T \in SUBSET X : W!SumOver(of, T) # 0}
<1>1. SUFFICES ASSUME Bad # {} PROVE FALSE
  <2>1. X \notin Bad => W!SumOver(of, X) = 0
    OBVIOUS
  <2>q. QED BY <2>1
<1>2. PICK T \in Bad : \A Y \in SUBSET T : Y # T => Y \notin Bad
  <2>1. Bad \in SUBSET SUBSET X
    OBVIOUS
  <2> HIDE DEF Bad
  <2>q. QED BY <1>1, <2>1, SmallestSet
<1>3. T \subseteq X /\ IsFiniteSet(T) /\ W!SumOver(of, T) # 0
  BY <1>2, FS_Subset
<1>4. PICK x \in T : W!SumOver(of, T) = of[x] + W!SumOver(of, T \ {x})
  BY <1>3, SumStep
<1>5. W!SumOver(of, T \ {x}) = 0
  BY <1>2, <1>3
<1>q. QED BY <1>3, <1>4, <1>5

\* At the start the bars show nothing.
LEMMA CountedStart == ASSUME W!WatchAssumption, W!Init PROVE W!Counted
<1>1. /\ looked \in [Downloads -> Nat] /\ proxied \in [Downloads -> BOOLEAN]
      /\ \A f \in Downloads : looked[f] = 0 /\ been[f] = 0 /\ ~proxied[f] /\ proxies[f] = "off"
  BY DEF W!Init
<1>2. W!SumOver(looked, Downloads) = 0
  BY <1>1, SumZero, FiniteDownloads
<1>3. ToldFiles \cup {f \in Downloads : proxied[f]} = ToldFiles
  BY <1>1
<1>4. \A f \in Downloads : been[f] <= looked[f] /\ looked[f] <= FileSizes[f]
  BY <1>1 DEF W!WatchAssumption
<1>q. QED BY <1>1, <1>2, <1>3, <1>4 DEF W!Counted, W!CountsOnce, W!Init

\* Every step keeps the bars right.
LEMMA CountedNext ==
  ASSUME W!WatchAssumption, W!TypeOK, W!Counted, [W!Next]_(W!vars)
  PROVE  W!Counted'
<1>1. ASSUME NEW f \in Downloads, NEW total \in {FileSizes[f], None},
             NEW resumed \in 0 .. W!OnDisk(f),
             W!Begin(f, [total |-> total, resumed |-> resumed])
      PROVE  W!Counted'
  BY <1>1, CountedBegin
<1>2. ASSUME NEW f \in Downloads, W!Receive(f) PROVE W!Counted'
  BY <1>2, CountedReceive
<1>3. ASSUME NEW f \in Downloads, W!Approved(f) PROVE W!Counted'
  BY <1>3, CountedApproved
<1>4. ASSUME NEW f \in Downloads, W!Refused(f) \/ W!Break(f) \/ W!End(f) PROVE W!Counted'
  <2>1. UNCHANGED W!progress /\ hop' = hop /\ proxies[f] # "off"
    BY <1>4 DEF W!Refused, W!Break, W!End, W!Asks
  <2>2. \A g \in Downloads : proxies'[g] # "off" => proxies[g] # "off"
    BY <1>4, <2>1 DEF W!Refused, W!Break, W!End, W!Goes, W!TypeOK
  <2>q. QED BY <2>1, <2>2, CountedStays DEF W!Counted
<1>5. ASSUME UNCHANGED <<proxies, hop, W!progress>> PROVE W!Counted'
  BY <1>5, CountedStays DEF W!Counted
<1>6. ASSUME NEW f \in Downloads, W!Question(f) PROVE W!Counted'
  BY <1>5, <1>6 DEF W!Question
<1>7. ASSUME NEW yes \in BOOLEAN, W!Answer(yes) PROVE W!Counted'
  BY <1>5, <1>7 DEF W!Answer
<1>8. ASSUME UNCHANGED W!vars PROVE W!Counted'
  BY <1>5, <1>8 DEF W!vars
<1>q. QED BY <1>1, <1>2, <1>3, <1>4, <1>6, <1>7, <1>8 DEF W!Next

\* However many files there are, whatever their sizes and whichever their sources tell: no second
\* question is asked, no large file goes on without a yes, and the bars come first right.
THEOREM AsksFirst ==
  ASSUME W!WatchAssumption
  PROVE  IsOf("watching") /\ W!Spec => []AsksOnceBeforeLarge
<1>1. W!Init => W!IInv
  BY WatchStart, CountedStart DEF W!IInv
<1>2. W!IInv /\ [W!Next]_(W!vars) => W!IInv'
  BY WatchNext, CountedNext DEF W!IInv, W!Asking
<1>3. W!IInv /\ component = "watching" => AsksOnceBeforeLarge
  BY DEF W!IInv, W!Asking, W!Counted, AsksOnceBeforeLarge
<1>4. component = "watching" /\ [UNCHANGED component]_component => (component = "watching")'
  OBVIOUS
<1>q. QED BY <1>1, <1>2, <1>3, <1>4, PTL DEF IsOf, W!Spec
=============================================================================
