-------------------------- MODULE ProjectHoldProofs --------------------------
(***************************************************************************)
(* ProjectHold's mutual exclusion, for every number of commands and        *)
(* systems: where the record is published by a hardlink, and among the     *)
(* commands of one system whose OS locks work.                             *)
(***************************************************************************)
EXTENDS ProjectHold, TLAPS

\* What the mutual exclusion rests on.
Sound == Published \/ OneSystem

\* No value of None is a record.
LEMMA NoneIsNoRecord == None \notin Record
  BY HoldAssumption DEF Record

\* A new record says what it was made with.
LEMMA RecordFacts ==
  ASSUME NEW p \in Procs
  PROVE  /\ Full(p) \in Record /\ Full(p).by = p /\ Full(p).empty = FALSE
         /\ Empty(p) \in Record /\ Empty(p).by = p /\ Full(p) # None /\ Empty(p) # None
<1>1. Full(p) \in Record /\ Empty(p) \in Record
  BY DEF Full, Empty, Record
<1>2. Full(p).by = p /\ Full(p).empty = FALSE /\ Empty(p).by = p
  BY DEF Full, Empty
<1>q. QED BY <1>1, <1>2, NoneIsNoRecord

\* Two active commands of a system with locks are one: both have its lock.
LEMMA OneActive ==
  ASSUME LockInv, NEW p \in Procs, NEW q \in Procs, OsOf[p] = OsOf[q],
         OsOf[p] \in LockingOses, pc[p] \in Active, pc[q] \in Active
  PROVE  p = q
  BY DEF LockInv

\* Nobody has the lock of another system.
LEMMA LockIsOwn ==
  ASSUME TypeOK, LockInv, NEW p \in Procs, NEW os \in Oses, osLock[os] = p
  PROVE  OsOf[p] = os
  BY HoldAssumption DEF TypeOK, LockInv

\* At the start nobody has a lock and there is no record.
LEMMA InitOK == Init => IInv
  BY HoldAssumption DEF Init, IInv, TypeOK, LockInv, OwnerInv, Active, Labels, Oses, Published

\* A command begins with the lock of its system, where there are locks.
LEMMA TakeLockStep == ASSUME Sound, IInv, NEW p \in Procs, TakeLock(p) PROVE IInv'
<1>a. /\ pc[p] = "start" /\ pc' = [pc EXCEPT ![p] = "publish"]
      /\ since' = [since EXCEPT ![p] = owner] /\ UNCHANGED <<owner, seen>>
      /\ \/ /\ OsOf[p] \in LockingOses /\ osLock[OsOf[p]] = None
            /\ osLock' = [osLock EXCEPT ![OsOf[p]] = p]
         \/ OsOf[p] \notin LockingOses /\ osLock' = osLock
  BY DEF TakeLock, Goto
<1>1. TypeOK'
  BY <1>a, RecordFacts DEF IInv, TypeOK, Labels, Oses
<1>2. LockInv'
  BY <1>a, HoldAssumption DEF IInv, TypeOK, LockInv, Active, Labels, Oses
<1>3. OwnerInv'
  <2>r. /\ Full(p) # None /\ Full(p).by = p /\ Full(p).empty = FALSE
        /\ Empty(p) # None /\ Empty(p).by = p
    BY RecordFacts
  <2>1. \A q \in Procs : pc'[q] \in {"fill", "work", "drop"} => owner' # None /\ owner'.by = q
    BY <1>a, <2>r DEF IInv, TypeOK, OwnerInv, Record, Active, Labels, Sound, Published, OneSystem
  <2>2. \A q \in Procs : pc'[q] = "work" => owner' = Full(q)
    BY <1>a, <2>r DEF IInv, TypeOK, OwnerInv, Record, Active, Labels, Sound, Published, OneSystem
  <2>3. Hardlinks => /\ owner' # None => ~owner'.empty
                     /\ \A q \in Procs : pc'[q] # "fill"
    BY <1>a, <2>r DEF IInv, TypeOK, OwnerInv, Record, Active, Labels, Sound, Published, OneSystem
  <2>4. owner' # None => pc'[owner'.by] \in {"fill", "work", "drop", "dead"}
    BY <1>a, <2>r DEF IInv, TypeOK, OwnerInv, Record, Active, Labels, Sound, Published, OneSystem
  <2>5. \A q \in Procs : pc'[q] \in {"reread", "delete"} =>
          /\ OsOf[q] \in LockingOses
          /\ Published => owner' = seen'[q] /\ owner' # None /\ OsOf[owner'.by] = OsOf[q]
    BY <1>a, <2>r, OneActive DEF IInv, TypeOK, OwnerInv, Record, Active, Labels, Sound, Published, OneSystem
  <2>q. QED BY <2>1, <2>2, <2>3, <2>4, <2>5 DEF OwnerInv
<1>q. QED BY <1>1, <1>2, <1>3 DEF IInv

\* A record appears only where there was none.
LEMMA PublishStep == ASSUME Sound, IInv, NEW p \in Procs, Publish(p) PROVE IInv'
<1>a. /\ pc[p] = "publish" /\ Hardlinks /\ UNCHANGED <<osLock, since, seen>>
      /\ \/ owner = None /\ owner' = Full(p) /\ pc' = [pc EXCEPT ![p] = "work"]
         \/ owner' = owner /\ pc' = [pc EXCEPT ![p] = "read"]
  BY DEF Publish, Goto
<1>1. TypeOK'
  BY <1>a, RecordFacts DEF IInv, TypeOK, Labels, Oses
<1>2. LockInv'
  BY <1>a DEF IInv, TypeOK, LockInv, Active, Labels, Oses
<1>3. OwnerInv'
  <2>r. /\ Full(p) # None /\ Full(p).by = p /\ Full(p).empty = FALSE
        /\ Empty(p) # None /\ Empty(p).by = p
    BY RecordFacts
  <2>1. \A q \in Procs : pc'[q] \in {"fill", "work", "drop"} => owner' # None /\ owner'.by = q
    BY <1>a, <2>r DEF IInv, TypeOK, OwnerInv, Record, Active, Labels, Sound, Published, OneSystem
  <2>2. \A q \in Procs : pc'[q] = "work" => owner' = Full(q)
    BY <1>a, <2>r DEF IInv, TypeOK, OwnerInv, Record, Active, Labels, Sound, Published, OneSystem
  <2>3. Hardlinks => /\ owner' # None => ~owner'.empty
                     /\ \A q \in Procs : pc'[q] # "fill"
    BY <1>a, <2>r DEF IInv, TypeOK, OwnerInv, Record, Active, Labels, Sound, Published, OneSystem
  <2>4. owner' # None => pc'[owner'.by] \in {"fill", "work", "drop", "dead"}
    BY <1>a, <2>r DEF IInv, TypeOK, OwnerInv, Record, Active, Labels, Sound, Published, OneSystem
  <2>5. \A q \in Procs : pc'[q] \in {"reread", "delete"} =>
          /\ OsOf[q] \in LockingOses
          /\ Published => owner' = seen'[q] /\ owner' # None /\ OsOf[owner'.by] = OsOf[q]
    BY <1>a, <2>r, OneActive DEF IInv, TypeOK, OwnerInv, Record, Active, Labels, Sound, Published, OneSystem
  <2>q. QED BY <2>1, <2>2, <2>3, <2>4, <2>5 DEF OwnerInv
<1>q. QED BY <1>1, <1>2, <1>3 DEF IInv

\* A reservation appears only where there was no record.
LEMMA ReserveStep == ASSUME Sound, IInv, NEW p \in Procs, Reserve(p) PROVE IInv'
<1>a. /\ pc[p] = "publish" /\ ~Hardlinks /\ UNCHANGED <<osLock, since, seen>>
      /\ \/ owner = None /\ owner' = Empty(p) /\ pc' = [pc EXCEPT ![p] = "fill"]
         \/ owner' = owner /\ pc' = [pc EXCEPT ![p] = "read"]
  BY DEF Reserve, Goto
<1>b. \A q \in Procs : OsOf[q] = OsOf[p] /\ OsOf[p] \in LockingOses /\ pc[q] \in Active => q = p
  BY <1>a, OneActive DEF IInv, Active, Labels
<1>1. TypeOK'
  BY <1>a, RecordFacts DEF IInv, TypeOK, Labels, Oses
<1>2. LockInv'
  BY <1>a DEF IInv, TypeOK, LockInv, Active, Labels, Oses
<1>3. OwnerInv'
  <2>r. /\ Full(p) # None /\ Full(p).by = p /\ Full(p).empty = FALSE
        /\ Empty(p) # None /\ Empty(p).by = p
    BY RecordFacts
  <2>1. \A q \in Procs : pc'[q] \in {"fill", "work", "drop"} => owner' # None /\ owner'.by = q
    BY <1>a, <2>r, <1>b DEF IInv, TypeOK, OwnerInv, Record, Active, Labels, Sound, Published, OneSystem
  <2>2. \A q \in Procs : pc'[q] = "work" => owner' = Full(q)
    BY <1>a, <2>r, <1>b DEF IInv, TypeOK, OwnerInv, Record, Active, Labels, Sound, Published, OneSystem
  <2>3. Hardlinks => /\ owner' # None => ~owner'.empty
                     /\ \A q \in Procs : pc'[q] # "fill"
    BY <1>a, <2>r, <1>b DEF IInv, TypeOK, OwnerInv, Record, Active, Labels, Sound, Published, OneSystem
  <2>4. owner' # None => pc'[owner'.by] \in {"fill", "work", "drop", "dead"}
    BY <1>a, <2>r, <1>b DEF IInv, TypeOK, OwnerInv, Record, Active, Labels, Sound, Published, OneSystem
  <2>5. \A q \in Procs : pc'[q] \in {"reread", "delete"} =>
          /\ OsOf[q] \in LockingOses
          /\ Published => owner' = seen'[q] /\ owner' # None /\ OsOf[owner'.by] = OsOf[q]
    BY <1>a, <2>r, OneActive, <1>b DEF IInv, TypeOK, OwnerInv, Record, Active, Labels, Sound, Published, OneSystem
  <2>q. QED BY <2>1, <2>2, <2>3, <2>4, <2>5 DEF OwnerInv
<1>q. QED BY <1>1, <1>2, <1>3 DEF IInv

\* A reservation is filled by the only active command of the only system.
LEMMA FillStep == ASSUME Sound, IInv, NEW p \in Procs, Fill(p) PROVE IInv'
<1>a. /\ pc[p] = "fill" /\ owner' = Full(p) /\ pc' = [pc EXCEPT ![p] = "work"]
      /\ UNCHANGED <<osLock, since, seen>>
  BY DEF Fill, Goto
<1>b. \A q \in Procs : OsOf[q] = OsOf[p] /\ OsOf[p] \in LockingOses /\ pc[q] \in Active => q = p
  BY <1>a, OneActive DEF IInv, Active, Labels
<1>1. TypeOK'
  BY <1>a, RecordFacts DEF IInv, TypeOK, Labels, Oses
<1>2. LockInv'
  BY <1>a DEF IInv, TypeOK, LockInv, Active, Labels, Oses
<1>3. OwnerInv'
  <2>r. /\ Full(p) # None /\ Full(p).by = p /\ Full(p).empty = FALSE
        /\ Empty(p) # None /\ Empty(p).by = p
    BY RecordFacts
  <2>1. \A q \in Procs : pc'[q] \in {"fill", "work", "drop"} => owner' # None /\ owner'.by = q
    BY <1>a, <2>r, <1>b DEF IInv, TypeOK, OwnerInv, Record, Active, Labels, Sound, Published, OneSystem
  <2>2. \A q \in Procs : pc'[q] = "work" => owner' = Full(q)
    BY <1>a, <2>r, <1>b DEF IInv, TypeOK, OwnerInv, Record, Active, Labels, Sound, Published, OneSystem
  <2>3. Hardlinks => /\ owner' # None => ~owner'.empty
                     /\ \A q \in Procs : pc'[q] # "fill"
    BY <1>a, <2>r, <1>b DEF IInv, TypeOK, OwnerInv, Record, Active, Labels, Sound, Published, OneSystem
  <2>4. owner' # None => pc'[owner'.by] \in {"fill", "work", "drop", "dead"}
    BY <1>a, <2>r, <1>b DEF IInv, TypeOK, OwnerInv, Record, Active, Labels, Sound, Published, OneSystem
  <2>5. \A q \in Procs : pc'[q] \in {"reread", "delete"} =>
          /\ OsOf[q] \in LockingOses
          /\ Published => owner' = seen'[q] /\ owner' # None /\ OsOf[owner'.by] = OsOf[q]
    BY <1>a, <2>r, OneActive, <1>b DEF IInv, TypeOK, OwnerInv, Record, Active, Labels, Sound, Published, OneSystem
  <2>q. QED BY <2>1, <2>2, <2>3, <2>4, <2>5 DEF OwnerInv
<1>q. QED BY <1>1, <1>2, <1>3 DEF IInv

\* A failed publication leaves the record to its drop.
LEMMA PublishFailsStep == ASSUME Sound, IInv, NEW p \in Procs, PublishFails(p) PROVE IInv'
<1>a. /\ pc[p] \in {"fill", "work"} /\ pc' = [pc EXCEPT ![p] = "drop"]
      /\ UNCHANGED <<osLock, owner, since, seen>>
  BY DEF PublishFails, Goto
<1>1. TypeOK'
  BY <1>a, RecordFacts DEF IInv, TypeOK, Labels, Oses
<1>2. LockInv'
  BY <1>a DEF IInv, TypeOK, LockInv, Active, Labels, Oses
<1>3. OwnerInv'
  <2>r. /\ Full(p) # None /\ Full(p).by = p /\ Full(p).empty = FALSE
        /\ Empty(p) # None /\ Empty(p).by = p
    BY RecordFacts
  <2>1. \A q \in Procs : pc'[q] \in {"fill", "work", "drop"} => owner' # None /\ owner'.by = q
    BY <1>a, <2>r DEF IInv, TypeOK, OwnerInv, Record, Active, Labels, Sound, Published, OneSystem
  <2>2. \A q \in Procs : pc'[q] = "work" => owner' = Full(q)
    BY <1>a, <2>r DEF IInv, TypeOK, OwnerInv, Record, Active, Labels, Sound, Published, OneSystem
  <2>3. Hardlinks => /\ owner' # None => ~owner'.empty
                     /\ \A q \in Procs : pc'[q] # "fill"
    BY <1>a, <2>r DEF IInv, TypeOK, OwnerInv, Record, Active, Labels, Sound, Published, OneSystem
  <2>4. owner' # None => pc'[owner'.by] \in {"fill", "work", "drop", "dead"}
    BY <1>a, <2>r DEF IInv, TypeOK, OwnerInv, Record, Active, Labels, Sound, Published, OneSystem
  <2>5. \A q \in Procs : pc'[q] \in {"reread", "delete"} =>
          /\ OsOf[q] \in LockingOses
          /\ Published => owner' = seen'[q] /\ owner' # None /\ OsOf[owner'.by] = OsOf[q]
    BY <1>a, <2>r, OneActive DEF IInv, TypeOK, OwnerInv, Record, Active, Labels, Sound, Published, OneSystem
  <2>q. QED BY <2>1, <2>2, <2>3, <2>4, <2>5 DEF OwnerInv
<1>q. QED BY <1>1, <1>2, <1>3 DEF IInv

\* Only a record of the same system is judged stale, by who has that system's lock.
LEMMA ReadStep == ASSUME Sound, IInv, NEW p \in Procs, Read(p) PROVE IInv'
<1>a. /\ pc[p] = "read" /\ UNCHANGED <<owner, since>>
      /\ \/ owner = None /\ pc' = [pc EXCEPT ![p] = "publish"] /\ UNCHANGED <<osLock, seen>>
         \/ /\ owner # None /\ Stale(p, owner) /\ seen' = [seen EXCEPT ![p] = owner]
            /\ pc' = [pc EXCEPT ![p] = "reread"] /\ osLock' = osLock
         \/ /\ osLock' = [os \in Oses |-> IF osLock[os] = p THEN None ELSE osLock[os]]
            /\ pc' = [pc EXCEPT ![p] = "start"] /\ seen' = seen
  BY DEF Read, Goto
<1>c. \A os \in Oses : osLock[os] = p => OsOf[p] = os
  BY LockIsOwn DEF IInv
<1>1. TypeOK'
  BY <1>a, RecordFacts DEF IInv, TypeOK, Labels, Oses
<1>2. LockInv'
  BY <1>a, HoldAssumption, <1>c DEF IInv, TypeOK, LockInv, Active, Labels, Oses
<1>3. OwnerInv'
  <2>r. /\ Full(p) # None /\ Full(p).by = p /\ Full(p).empty = FALSE
        /\ Empty(p) # None /\ Empty(p).by = p
    BY RecordFacts
  <2>1. \A q \in Procs : pc'[q] \in {"fill", "work", "drop"} => owner' # None /\ owner'.by = q
    BY <1>a, <2>r DEF Stale, IInv, TypeOK, OwnerInv, Record, Sound, Published, OneSystem
  <2>2. \A q \in Procs : pc'[q] = "work" => owner' = Full(q)
    BY <1>a, <2>r DEF Stale, IInv, TypeOK, OwnerInv, Record, Sound, Published, OneSystem
  <2>3. Hardlinks => /\ owner' # None => ~owner'.empty
                     /\ \A q \in Procs : pc'[q] # "fill"
    BY <1>a, <2>r DEF Stale, IInv, TypeOK, OwnerInv, Record, Sound, Published, OneSystem
  <2>4. owner' # None => pc'[owner'.by] \in {"fill", "work", "drop", "dead"}
    BY <1>a, <2>r DEF Stale, IInv, TypeOK, OwnerInv, Record, Sound, Published, OneSystem
  <2>5. \A q \in Procs : pc'[q] \in {"reread", "delete"} =>
          /\ OsOf[q] \in LockingOses
          /\ Published => owner' = seen'[q] /\ owner' # None /\ OsOf[owner'.by] = OsOf[q]
    BY <1>a, <2>r, OneActive DEF Stale, IInv, TypeOK, OwnerInv, Record, Sound, Published, OneSystem
  <2>q. QED BY <2>1, <2>2, <2>3, <2>4, <2>5 DEF OwnerInv
<1>q. QED BY <1>1, <1>2, <1>3 DEF IInv

\* Nobody else could change the record while it is judged.
LEMMA RereadStep == ASSUME Sound, IInv, NEW p \in Procs, Reread(p) PROVE IInv'
<1>a. /\ pc[p] = "reread" /\ UNCHANGED <<osLock, owner, since, seen>>
      /\ \/ pc' = [pc EXCEPT ![p] = "delete"] /\ owner = seen[p]
         \/ pc' = [pc EXCEPT ![p] = "publish"]
  BY DEF Reread, Goto
<1>1. TypeOK'
  BY <1>a, RecordFacts DEF IInv, TypeOK, Labels, Oses
<1>2. LockInv'
  BY <1>a DEF IInv, TypeOK, LockInv, Active, Labels, Oses
<1>3. OwnerInv'
  <2>r. /\ Full(p) # None /\ Full(p).by = p /\ Full(p).empty = FALSE
        /\ Empty(p) # None /\ Empty(p).by = p
    BY RecordFacts
  <2>1. \A q \in Procs : pc'[q] \in {"fill", "work", "drop"} => owner' # None /\ owner'.by = q
    BY <1>a, <2>r DEF IInv, TypeOK, OwnerInv, Record, Active, Labels, Sound, Published, OneSystem
  <2>2. \A q \in Procs : pc'[q] = "work" => owner' = Full(q)
    BY <1>a, <2>r DEF IInv, TypeOK, OwnerInv, Record, Active, Labels, Sound, Published, OneSystem
  <2>3. Hardlinks => /\ owner' # None => ~owner'.empty
                     /\ \A q \in Procs : pc'[q] # "fill"
    BY <1>a, <2>r DEF IInv, TypeOK, OwnerInv, Record, Active, Labels, Sound, Published, OneSystem
  <2>4. owner' # None => pc'[owner'.by] \in {"fill", "work", "drop", "dead"}
    BY <1>a, <2>r DEF IInv, TypeOK, OwnerInv, Record, Active, Labels, Sound, Published, OneSystem
  <2>5. \A q \in Procs : pc'[q] \in {"reread", "delete"} =>
          /\ OsOf[q] \in LockingOses
          /\ Published => owner' = seen'[q] /\ owner' # None /\ OsOf[owner'.by] = OsOf[q]
    BY <1>a, <2>r, OneActive DEF IInv, TypeOK, OwnerInv, Record, Active, Labels, Sound, Published, OneSystem
  <2>q. QED BY <2>1, <2>2, <2>3, <2>4, <2>5 DEF OwnerInv
<1>q. QED BY <1>1, <1>2, <1>3 DEF IInv

\* The record removed is a killed command's: a living one of the system would be active.
LEMMA DeleteStep == ASSUME Sound, IInv, NEW p \in Procs, Delete(p) PROVE IInv'
<1>a. /\ pc[p] = "delete" /\ owner' = None /\ pc' = [pc EXCEPT ![p] = "publish"]
      /\ UNCHANGED <<osLock, since, seen>>
  BY DEF Delete, Goto
<1>b. \A q \in Procs : OsOf[q] = OsOf[p] /\ OsOf[p] \in LockingOses /\ pc[q] \in Active => q = p
  BY <1>a, OneActive DEF IInv, Active, Labels
<1>1. TypeOK'
  BY <1>a, RecordFacts DEF IInv, TypeOK, Labels, Oses
<1>2. LockInv'
  BY <1>a DEF IInv, TypeOK, LockInv, Active, Labels, Oses
<1>3. OwnerInv'
  <2>r. /\ Full(p) # None /\ Full(p).by = p /\ Full(p).empty = FALSE
        /\ Empty(p) # None /\ Empty(p).by = p
    BY RecordFacts
  <2>1. \A q \in Procs : pc'[q] \in {"fill", "work", "drop"} => owner' # None /\ owner'.by = q
    BY <1>a, <2>r, <1>b DEF IInv, TypeOK, OwnerInv, Record, Active, Labels, Sound, Published, OneSystem
  <2>2. \A q \in Procs : pc'[q] = "work" => owner' = Full(q)
    BY <1>a, <2>r, <1>b DEF IInv, TypeOK, OwnerInv, Record, Active, Labels, Sound, Published, OneSystem
  <2>3. Hardlinks => /\ owner' # None => ~owner'.empty
                     /\ \A q \in Procs : pc'[q] # "fill"
    BY <1>a, <2>r, <1>b DEF IInv, TypeOK, OwnerInv, Record, Active, Labels, Sound, Published, OneSystem
  <2>4. owner' # None => pc'[owner'.by] \in {"fill", "work", "drop", "dead"}
    BY <1>a, <2>r, <1>b DEF IInv, TypeOK, OwnerInv, Record, Active, Labels, Sound, Published, OneSystem
  <2>5. \A q \in Procs : pc'[q] \in {"reread", "delete"} =>
          /\ OsOf[q] \in LockingOses
          /\ Published => owner' = seen'[q] /\ owner' # None /\ OsOf[owner'.by] = OsOf[q]
    BY <1>a, <2>r, OneActive, <1>b DEF IInv, TypeOK, OwnerInv, Record, Active, Labels, Sound, Published, OneSystem
  <2>q. QED BY <2>1, <2>2, <2>3, <2>4, <2>5 DEF OwnerInv
<1>q. QED BY <1>1, <1>2, <1>3 DEF IInv

\* A command that ends still has its record.
LEMMA FinishStep == ASSUME Sound, IInv, NEW p \in Procs, Finish(p) PROVE IInv'
<1>a. /\ pc[p] = "work" /\ pc' = [pc EXCEPT ![p] = "drop"] /\ UNCHANGED <<osLock, owner, since, seen>>
  BY DEF Finish, Goto
<1>1. TypeOK'
  BY <1>a, RecordFacts DEF IInv, TypeOK, Labels, Oses
<1>2. LockInv'
  BY <1>a DEF IInv, TypeOK, LockInv, Active, Labels, Oses
<1>3. OwnerInv'
  <2>r. /\ Full(p) # None /\ Full(p).by = p /\ Full(p).empty = FALSE
        /\ Empty(p) # None /\ Empty(p).by = p
    BY RecordFacts
  <2>1. \A q \in Procs : pc'[q] \in {"fill", "work", "drop"} => owner' # None /\ owner'.by = q
    BY <1>a, <2>r DEF IInv, TypeOK, OwnerInv, Record, Active, Labels, Sound, Published, OneSystem
  <2>2. \A q \in Procs : pc'[q] = "work" => owner' = Full(q)
    BY <1>a, <2>r DEF IInv, TypeOK, OwnerInv, Record, Active, Labels, Sound, Published, OneSystem
  <2>3. Hardlinks => /\ owner' # None => ~owner'.empty
                     /\ \A q \in Procs : pc'[q] # "fill"
    BY <1>a, <2>r DEF IInv, TypeOK, OwnerInv, Record, Active, Labels, Sound, Published, OneSystem
  <2>4. owner' # None => pc'[owner'.by] \in {"fill", "work", "drop", "dead"}
    BY <1>a, <2>r DEF IInv, TypeOK, OwnerInv, Record, Active, Labels, Sound, Published, OneSystem
  <2>5. \A q \in Procs : pc'[q] \in {"reread", "delete"} =>
          /\ OsOf[q] \in LockingOses
          /\ Published => owner' = seen'[q] /\ owner' # None /\ OsOf[owner'.by] = OsOf[q]
    BY <1>a, <2>r, OneActive DEF IInv, TypeOK, OwnerInv, Record, Active, Labels, Sound, Published, OneSystem
  <2>q. QED BY <2>1, <2>2, <2>3, <2>4, <2>5 DEF OwnerInv
<1>q. QED BY <1>1, <1>2, <1>3 DEF IInv

\* The record dropped is the command's own.
LEMMA DropOwnerStep == ASSUME Sound, IInv, NEW p \in Procs, DropOwner(p) PROVE IInv'
<1>a. /\ pc[p] = "drop" /\ owner' = None /\ pc' = [pc EXCEPT ![p] = "unlock"]
      /\ UNCHANGED <<osLock, since, seen>>
  BY DEF DropOwner, Goto
<1>b. \A q \in Procs : OsOf[q] = OsOf[p] /\ OsOf[p] \in LockingOses /\ pc[q] \in Active => q = p
  BY <1>a, OneActive DEF IInv, Active, Labels
<1>1. TypeOK'
  BY <1>a, RecordFacts DEF IInv, TypeOK, Labels, Oses
<1>2. LockInv'
  BY <1>a DEF IInv, TypeOK, LockInv, Active, Labels, Oses
<1>3. OwnerInv'
  <2>r. /\ Full(p) # None /\ Full(p).by = p /\ Full(p).empty = FALSE
        /\ Empty(p) # None /\ Empty(p).by = p
    BY RecordFacts
  <2>1. \A q \in Procs : pc'[q] \in {"fill", "work", "drop"} => owner' # None /\ owner'.by = q
    BY <1>a, <2>r, <1>b DEF IInv, TypeOK, OwnerInv, Record, Active, Labels, Sound, Published, OneSystem
  <2>2. \A q \in Procs : pc'[q] = "work" => owner' = Full(q)
    BY <1>a, <2>r, <1>b DEF IInv, TypeOK, OwnerInv, Record, Active, Labels, Sound, Published, OneSystem
  <2>3. Hardlinks => /\ owner' # None => ~owner'.empty
                     /\ \A q \in Procs : pc'[q] # "fill"
    BY <1>a, <2>r, <1>b DEF IInv, TypeOK, OwnerInv, Record, Active, Labels, Sound, Published, OneSystem
  <2>4. owner' # None => pc'[owner'.by] \in {"fill", "work", "drop", "dead"}
    BY <1>a, <2>r, <1>b DEF IInv, TypeOK, OwnerInv, Record, Active, Labels, Sound, Published, OneSystem
  <2>5. \A q \in Procs : pc'[q] \in {"reread", "delete"} =>
          /\ OsOf[q] \in LockingOses
          /\ Published => owner' = seen'[q] /\ owner' # None /\ OsOf[owner'.by] = OsOf[q]
    BY <1>a, <2>r, OneActive, <1>b DEF IInv, TypeOK, OwnerInv, Record, Active, Labels, Sound, Published, OneSystem
  <2>q. QED BY <2>1, <2>2, <2>3, <2>4, <2>5 DEF OwnerInv
<1>q. QED BY <1>1, <1>2, <1>3 DEF IInv

\* The lock is let go last.
LEMMA UnlockStep == ASSUME Sound, IInv, NEW p \in Procs, Unlock(p) PROVE IInv'
<1>a. /\ pc[p] = "unlock" /\ pc' = [pc EXCEPT ![p] = "done"]
      /\ UNCHANGED <<owner, since, seen>>
      /\ osLock' = [os \in Oses |-> IF osLock[os] = p THEN None ELSE osLock[os]]
  BY DEF Unlock, Goto
<1>c. \A os \in Oses : osLock[os] = p => OsOf[p] = os
  BY LockIsOwn DEF IInv
<1>1. TypeOK'
  BY <1>a, RecordFacts DEF IInv, TypeOK, Labels, Oses
<1>2. LockInv'
  BY <1>a, HoldAssumption, <1>c DEF IInv, TypeOK, LockInv, Active, Labels, Oses
<1>3. OwnerInv'
  <2>r. /\ Full(p) # None /\ Full(p).by = p /\ Full(p).empty = FALSE
        /\ Empty(p) # None /\ Empty(p).by = p
    BY RecordFacts
  <2>1. \A q \in Procs : pc'[q] \in {"fill", "work", "drop"} => owner' # None /\ owner'.by = q
    BY <1>a, <2>r DEF IInv, TypeOK, OwnerInv, Record, Active, Labels, Sound, Published, OneSystem
  <2>2. \A q \in Procs : pc'[q] = "work" => owner' = Full(q)
    BY <1>a, <2>r DEF IInv, TypeOK, OwnerInv, Record, Active, Labels, Sound, Published, OneSystem
  <2>3. Hardlinks => /\ owner' # None => ~owner'.empty
                     /\ \A q \in Procs : pc'[q] # "fill"
    BY <1>a, <2>r DEF IInv, TypeOK, OwnerInv, Record, Active, Labels, Sound, Published, OneSystem
  <2>4. owner' # None => pc'[owner'.by] \in {"fill", "work", "drop", "dead"}
    BY <1>a, <2>r DEF IInv, TypeOK, OwnerInv, Record, Active, Labels, Sound, Published, OneSystem
  <2>5. \A q \in Procs : pc'[q] \in {"reread", "delete"} =>
          /\ OsOf[q] \in LockingOses
          /\ Published => owner' = seen'[q] /\ owner' # None /\ OsOf[owner'.by] = OsOf[q]
    BY <1>a, <2>r, OneActive DEF IInv, TypeOK, OwnerInv, Record, Active, Labels, Sound, Published, OneSystem
  <2>q. QED BY <2>1, <2>2, <2>3, <2>4, <2>5 DEF OwnerInv
<1>q. QED BY <1>1, <1>2, <1>3 DEF IInv

\* A killed command loses its lock and leaves its record.
LEMMA CrashStep == ASSUME Sound, IInv, NEW p \in Procs, Crash(p) PROVE IInv'
<1>a. /\ pc[p] \in Active /\ pc' = [pc EXCEPT ![p] = "dead"]
      /\ UNCHANGED <<owner, since, seen>>
      /\ osLock' = [os \in Oses |-> IF osLock[os] = p THEN None ELSE osLock[os]]
  BY DEF Crash, Goto
<1>c. \A os \in Oses : osLock[os] = p => OsOf[p] = os
  BY LockIsOwn DEF IInv
<1>1. TypeOK'
  BY <1>a, RecordFacts DEF IInv, TypeOK, Labels, Oses
<1>2. LockInv'
  BY <1>a, HoldAssumption, <1>c DEF IInv, TypeOK, LockInv, Active, Labels, Oses
<1>3. OwnerInv'
  <2>r. /\ Full(p) # None /\ Full(p).by = p /\ Full(p).empty = FALSE
        /\ Empty(p) # None /\ Empty(p).by = p
    BY RecordFacts
  <2>1. \A q \in Procs : pc'[q] \in {"fill", "work", "drop"} => owner' # None /\ owner'.by = q
    BY <1>a, <2>r DEF IInv, TypeOK, OwnerInv, Record, Active, Labels, Sound, Published, OneSystem
  <2>2. \A q \in Procs : pc'[q] = "work" => owner' = Full(q)
    BY <1>a, <2>r DEF IInv, TypeOK, OwnerInv, Record, Active, Labels, Sound, Published, OneSystem
  <2>3. Hardlinks => /\ owner' # None => ~owner'.empty
                     /\ \A q \in Procs : pc'[q] # "fill"
    BY <1>a, <2>r DEF IInv, TypeOK, OwnerInv, Record, Active, Labels, Sound, Published, OneSystem
  <2>4. owner' # None => pc'[owner'.by] \in {"fill", "work", "drop", "dead"}
    BY <1>a, <2>r DEF IInv, TypeOK, OwnerInv, Record, Active, Labels, Sound, Published, OneSystem
  <2>5. \A q \in Procs : pc'[q] \in {"reread", "delete"} =>
          /\ OsOf[q] \in LockingOses
          /\ Published => owner' = seen'[q] /\ owner' # None /\ OsOf[owner'.by] = OsOf[q]
    BY <1>a, <2>r, OneActive DEF IInv, TypeOK, OwnerInv, Record, Active, Labels, Sound, Published, OneSystem
  <2>q. QED BY <2>1, <2>2, <2>3, <2>4, <2>5 DEF OwnerInv
<1>q. QED BY <1>1, <1>2, <1>3 DEF IInv

\* Every step of the system keeps IInv.
LEMMA NextOK == ASSUME Sound PROVE IInv /\ [Next]_vars => IInv'
<1> SUFFICES ASSUME IInv, [Next]_vars PROVE IInv'
  OBVIOUS
<1>1. ASSUME NEW p \in Procs, Step(p) PROVE IInv'
  BY <1>1, TakeLockStep, PublishStep, ReserveStep, FillStep, ReadStep, RereadStep, DeleteStep,
     FinishStep, DropOwnerStep, UnlockStep DEF Step
<1>2. ASSUME NEW p \in Procs, PublishFails(p) PROVE IInv'
  BY <1>2, PublishFailsStep
<1>3. ASSUME NEW p \in Procs, Crash(p) PROVE IInv'
  BY <1>3, CrashStep
<1>4. CASE Age
  <2>a. /\ owner # None /\ owner.empty /\ owner' = [owner EXCEPT !.old = TRUE]
        /\ UNCHANGED <<pc, osLock, since, seen>>
    BY <1>4 DEF Age
  <2>b. owner' \in Record /\ owner'.by = owner.by /\ owner'.empty = owner.empty
    BY <2>a DEF Record, IInv, TypeOK
  <2>1. TypeOK' /\ LockInv'
    BY <2>a, <2>b DEF IInv, TypeOK, LockInv
  <2>2. OwnerInv'
    BY <2>a, <2>b, RecordFacts, NoneIsNoRecord DEF IInv, OwnerInv, Published
  <2>q. QED BY <2>1, <2>2 DEF IInv
<1>5. CASE DeleteByHand
  <2>a. /\ owner # None /\ pc[owner.by] = "dead" /\ owner' = None /\ Deletes
        /\ UNCHANGED <<pc, osLock, since, seen>>
    BY <1>5 DEF DeleteByHand
  <2>1. TypeOK' /\ LockInv'
    BY <2>a DEF IInv, TypeOK, LockInv
  <2>2. OwnerInv'
    BY <2>a DEF IInv, OwnerInv, Published
  <2>q. QED BY <2>1, <2>2 DEF IInv
<1>6. CASE UNCHANGED vars
  BY <1>6 DEF vars, IInv, TypeOK, LockInv, OwnerInv
<1>q. QED BY <1>1, <1>2, <1>3, <1>4, <1>5, <1>6 DEF Next

\* IInv holds in every state of every behaviour.
THEOREM Invariance == ASSUME Sound PROVE Spec => []IInv
  BY InitOK, NextOK, PTL DEF Spec

\* Two commands never change the project at once (project.md: "two OS environments must not
\* both acquire it"), given hardlinks or one system with locks.
THEOREM MutualExclusion == ASSUME Sound PROVE Spec => []OneHolder
<1>1. IInv => OneHolder
  BY DEF IInv, OwnerInv, OneHolder
<1>q. QED BY Invariance, <1>1, PTL

\* Whoever waits is told the command that works, whose record nobody takes away.
THEOREM RecordStays == ASSUME Sound PROVE Spec => []HolderIsNamed
<1>1. IInv => HolderIsNamed
  BY DEF IInv, OwnerInv, HolderIsNamed
<1>q. QED BY Invariance, <1>1, PTL
=============================================================================
