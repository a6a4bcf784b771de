------------------------------ MODULE HashPipe ------------------------------
(***************************************************************************)
(* The hash of an unfinished download (cache/partial/hashing.rs and the    *)
(* PartialWriter of cache/partial.rs).  Streams write at any place of the  *)
(* file, the writer hands what extends the prefix to a worker that hashes  *)
(* behind it, and a record of the prefix lets a later run go on.           *)
(*                                                                         *)
(* The bytes are the numbers of their places; a hash is the sequence of    *)
(* the bytes it was fed, with Hole for one that was not on the disk.  A    *)
(* small download is hashed on the writer's thread: the same steps, with a *)
(* worker that is never behind.                                            *)
(***************************************************************************)
EXTENDS Naturals, Sequences, FiniteSetsExt

CONSTANTS
    Size,       \* the bytes of the file
    Buffer,     \* the most the writer holds back from the disk
    Batch,      \* the most it gathers before it wakes the worker
    Queued,     \* the room of the worker's queue
    Hole, None

HashPipeAssumption ==
    /\ Size \in Nat /\ Buffer \in Nat /\ Batch \in Nat /\ Queued \in Nat
    /\ Hole \notin Nat

Places == 0 .. Size - 1
Bytes(from, to) == [i \in 1 .. to - from |-> from + i - 1]

VARIABLES
    disk,           \* the places whose bytes are in the file
    record,         \* the prefix, its hash and the ranges past it, as last saved
    prefix, pending, runs,      \* the writer's: the last `pending` bytes are not on the disk
    gathered, out, queue,       \* bytes and messages on their way to the worker
    sum, worker,                \* what the worker hashed, and whether it goes on
    reply, pc,
    stored          \* the hash under which the finished file is stored

writer == <<prefix, pending, runs, gathered>>
vars == <<disk, record, writer, out, queue, sum, worker, reply, pc, stored>>

Chunks(bytes) == [kind |-> "chunks", bytes |-> bytes]
ARange(from, to) == [kind |-> "range", from |-> from, to |-> to]
Checkpoint(received) == [kind |-> "checkpoint", received |-> received]

\* What hash_range reads
Read(from, to) == [i \in 1 .. to - from |-> IF from + i - 1 \in disk THEN from + i - 1 ELSE Hole]
Flushed == disk \cup (prefix - pending .. prefix - 1)

Closed == /\ prefix' = 0 /\ pending' = 0 /\ runs' = {} /\ gathered' = <<>>
          /\ out' = <<>> /\ queue' = <<>> /\ sum' = <<>> /\ worker' = "off" /\ reply' = None
          /\ pc' = "closed"

Init ==
    /\ disk = {} /\ record = None
    /\ prefix = 0 /\ pending = 0 /\ runs = {} /\ gathered = <<>>
    /\ out = <<>> /\ queue = <<>> /\ sum = <<>> /\ worker = "off" /\ reply = None
    /\ pc = "closed" /\ stored = None

-----------------------------------------------------------------------------
\* Runs that meet the prefix

\* Where runs that follow `at` without a gap end
Reaches(at, ranges) ==
    Min({e \in {at} \cup {r[2] : r \in ranges} : at <= e /\ \A r \in ranges : r[1] # e})

\* absorb: the runs that meet `at` go to the worker as ranges, in order
Absorb(at, ranges, before) ==
    LET end == Reaches(at, ranges) IN
    /\ prefix' = end
    /\ runs' = {r \in ranges : r[1] >= end}
    /\ IF end = at THEN gathered' = before /\ UNCHANGED out
       ELSE /\ gathered' = <<>>
            /\ out' = out \o (IF before = <<>> THEN <<>> ELSE <<Chunks(before)>>)
                          \o <<ARange(at, end)>>

-----------------------------------------------------------------------------
\* The writer

\* The bytes before the offset still hash to what the record says
RecordedSum(offset) == Read(0, offset) = record.sum

Offset == IF record = None THEN 0 ELSE record.received

\* writer and keep: the kept bytes are hashed again, and so are the ranges past them
Open ==
    /\ pc = "closed" /\ stored = None
    /\ Offset > 0 => RecordedSum(Offset)
    /\ \E keep \in BOOLEAN :
         /\ disk' = IF keep THEN disk ELSE disk \cap (0 .. Offset - 1)
         /\ Absorb(Offset,
                   {r \in IF keep /\ record # None THEN record.ranges ELSE {} :
                      \A i \in r[1] .. r[2] - 1 : i \in disk}, <<>>)
    /\ pending' = 0 /\ sum' = Read(0, Offset) /\ worker' = "on" /\ pc' = "opened"
    /\ UNCHANGED <<record, queue, reply, stored>>

\* The record is wrong: the caller discards the download
Discard ==
    /\ pc = "closed" /\ Offset > 0 /\ ~RecordedSum(Offset)
    /\ disk' = {} /\ record' = None
    /\ UNCHANGED <<writer, out, queue, sum, worker, reply, pc, stored>>

Ready == pc = "write" /\ out = <<>>
Overlaps(at, end) == at < prefix \/ \E r \in runs : at < r[2] /\ r[1] < end

\* update: chunks are gathered until they are worth a message
Update(bytes) ==
    IF Len(gathered) + Len(bytes) < Batch
    THEN gathered' = gathered \o bytes /\ UNCHANGED out
    ELSE gathered' = <<>> /\ out' = <<Chunks(gathered \o bytes)>>

\* Mutant: absorb leaves what is held back
HoldsBack(end, meets) ==
    IF end - prefix >= Buffer THEN 0
    ELSE IF pending + (end - prefix) > Buffer THEN end - prefix
    ELSE pending + (end - prefix)

\* What stays off the disk: nothing once a run is absorbed
Pends(end, meets) ==
    IF meets \/ end - prefix >= Buffer THEN 0
    ELSE IF pending + (end - prefix) > Buffer THEN end - prefix
    ELSE pending + (end - prefix)

\* write_chunk at the prefix
Extend ==
    /\ Ready
    /\ \E end \in prefix + 1 .. Size :
         LET meets == \E r \in runs : r[1] = end
             left == Pends(end, meets) IN
         /\ ~Overlaps(prefix, end)
         /\ disk' = disk \cup (prefix - pending .. end - left - 1)
         /\ pending' = left
         /\ IF meets
            THEN Absorb(end, runs, gathered \o Bytes(prefix, end))
            ELSE prefix' = end /\ Update(Bytes(prefix, end)) /\ UNCHANGED runs
    /\ UNCHANGED <<record, queue, sum, worker, reply, pc, stored>>

\* write_chunk past it: a run grows or begins
WritePast ==
    /\ Ready
    /\ \E at \in prefix + 1 .. Size - 1 : \E end \in at + 1 .. Size :
         /\ ~Overlaps(at, end)
         /\ disk' = disk \cup (at .. end - 1)
         /\ LET before == {r \in runs : r[2] = at} IN
            runs' = (runs \ before) \cup
                      {<<IF before = {} THEN at ELSE (CHOOSE r \in before : TRUE)[1], end>>}
    /\ UNCHANGED <<record, prefix, pending, gathered, out, queue, sum, worker, reply,
                   pc, stored>>

\* sha256_so_far: what was gathered goes first
Ask ==
    /\ out' = out \o (IF gathered = <<>> THEN <<>> ELSE <<Chunks(gathered)>>)
                  \o <<Checkpoint(prefix)>>
    /\ gathered' = <<>>

Save ==
    /\ Ready /\ Ask
    /\ disk' = Flushed /\ pending' = 0 /\ pc' = "save"
    /\ UNCHANGED <<record, prefix, runs, queue, sum, worker, reply, stored>>

\* The pipe of a new writer is asked once
AskOpened ==
    /\ pc = "opened" /\ out = <<>> /\ Ask /\ pc' = "asked"
    /\ UNCHANGED <<disk, record, prefix, pending, runs, queue, sum, worker, reply, stored>>

\* A message enters the queue once there is room
Send ==
    /\ out # <<>> /\ worker = "on" /\ Len(queue) < Queued
    /\ queue' = Append(queue, Head(out)) /\ out' = Tail(out)
    /\ UNCHANGED <<disk, record, writer, sum, worker, reply, pc, stored>>

Answered ==
    /\ reply # None /\ reply' = None /\ pc \in {"save", "asked"} /\ pc' = "write"
    /\ record' = IF pc = "save" THEN [received |-> prefix, sum |-> reply, ranges |-> runs]
                 ELSE record
    /\ UNCHANGED <<disk, writer, out, queue, sum, worker, stored>>

Finish ==
    /\ Ready /\ prefix = Size /\ runs = {}
    /\ disk' = Flushed /\ pending' = 0
    /\ out' = IF gathered = <<>> THEN <<>> ELSE <<Chunks(gathered)>>
    /\ gathered' = <<>> /\ pc' = "finish"
    /\ UNCHANGED <<record, prefix, runs, queue, sum, worker, reply, stored>>

\* join: the closed queue is drained first
Join ==
    /\ pc = "finish" /\ out = <<>> /\ worker = "on" /\ queue = <<>>
    /\ IF Len(sum) = prefix THEN stored' = sum ELSE UNCHANGED stored
    /\ Closed /\ UNCHANGED <<disk, record>>

\* The worker stopped, or the download is cancelled: the writer is dropped
Drop ==
    /\ pc # "closed"
    /\ Closed /\ UNCHANGED <<disk, record, stored>>

\* A power cut loses bytes that were never flushed, and perhaps the record
PowerCut ==
    /\ stored = None
    /\ \E lost \in SUBSET disk : disk' = disk \ lost
    /\ record' \in {record, None}
    /\ Closed /\ UNCHANGED stored

-----------------------------------------------------------------------------
\* The worker

Take == worker = "on" /\ queue # <<>> /\ queue' = Tail(queue)

HashChunks ==
    /\ Take /\ Head(queue).kind = "chunks"
    /\ sum' = sum \o Head(queue).bytes
    /\ UNCHANGED <<disk, record, writer, out, worker, reply, pc, stored>>

HashRange ==
    /\ Take /\ Head(queue).kind = "range"
    /\ IF Len(sum) = Head(queue).from
       THEN sum' = sum \o Read(Head(queue).from, Head(queue).to) /\ UNCHANGED worker
       ELSE worker' = "failed" /\ UNCHANGED sum
    /\ UNCHANGED <<disk, record, writer, out, reply, pc, stored>>

HashCheckpoint ==
    /\ Take /\ Head(queue).kind = "checkpoint"
    /\ IF Len(sum) = Head(queue).received
       THEN reply' = sum /\ UNCHANGED worker
       ELSE worker' = "failed" /\ UNCHANGED reply
    /\ UNCHANGED <<disk, record, writer, out, sum, pc, stored>>

Next ==
    \/ Open \/ Discard \/ Extend \/ WritePast \/ Save \/ AskOpened \/ Send \/ Answered
    \/ Finish \/ Join \/ Drop \/ PowerCut \/ HashChunks \/ HashRange \/ HashCheckpoint

Spec == Init /\ [][Next]_vars

-----------------------------------------------------------------------------
\* A record covers exactly the prefix it names, however far the worker was behind, so a resume
\* never goes on from a hash of other bytes; and no message reaches the worker out of order,
\* which would end a good download (sha256_so_far, save, writer, same_prefix).
RecordCovers ==
    /\ worker # "failed"
    /\ record # None => record.sum = Bytes(0, record.received)

\* A finished file is stored under the hash of the bytes that are in it, also after power cuts
\* that lost bytes the record covers (absorb, writer, keep, finish).
StoredUnderItsHash == stored # None => stored = Bytes(0, Size) /\ disk = Places

-----------------------------------------------------------------------------
(***************************************************************************)
(* Why it does: what is on its way to the worker, one after the other, are *)
(* the bytes from where the worker is to the writer's prefix.              *)
(***************************************************************************)
Ranges == {r \in (0 .. Size) \X (0 .. Size) : r[1] < r[2]}
Messages ==
    {Chunks(Bytes(r[1], r[2])) : r \in Ranges} \cup {ARange(r[1], r[2]) : r \in Ranges}
        \cup {Checkpoint(n) : n \in 0 .. Size}
Records == [received : 0 .. Size, sum : Seq(Nat \cup {Hole}), ranges : SUBSET Ranges]

TypeOK ==
    /\ disk \subseteq Places /\ record \in Records \cup {None}
    /\ prefix \in 0 .. Size /\ pending \in 0 .. prefix /\ runs \subseteq Ranges
    /\ out \in Seq(Messages) /\ queue \in Seq(Messages)
    /\ worker \in {"off", "on", "failed"}
    /\ pc \in {"closed", "opened", "asked", "write", "save", "finish"}

\* Where what a message stands for begins and ends
Begins(m) ==
    CASE m.kind = "chunks" -> m.bytes[1] [] m.kind = "range" -> m.from [] OTHER -> m.received
Closes(m) ==
    CASE m.kind = "chunks" -> m.bytes[Len(m.bytes)] + 1 [] m.kind = "range" -> m.to
      [] OTHER -> m.received

\* The messages follow each other from a place on, up to where the last one ends
InOrder(messages, at) ==
    \A i \in 1 .. Len(messages) :
        Begins(messages[i]) = IF i = 1 THEN at ELSE Closes(messages[i - 1])
EndOf(messages, at) == IF messages = <<>> THEN at ELSE Closes(messages[Len(messages)])

Sent == queue \o out

PipeInv ==
    /\ worker # "failed"
    /\ sum = Bytes(0, Len(sum)) /\ Len(sum) \in 0 .. Size
    /\ InOrder(Sent, Len(sum))
    /\ EndOf(Sent, Len(sum)) \in 0 .. prefix
    /\ gathered = Bytes(EndOf(Sent, Len(sum)), prefix)

\* Ranges are read after they are on the disk, and a checkpoint is the last message while the
\* writer waits for its answer.
MessagesInv ==
    /\ \A i \in 1 .. Len(Sent) :
         /\ Sent[i].kind = "range" => Sent[i].to <= prefix - pending
         /\ Sent[i].kind = "checkpoint" => i = Len(Sent) /\ pc \in {"asked", "save"}
    /\ pc \in {"asked", "save"} => gathered = <<>>
    /\ reply # None => Sent = <<>> /\ reply = Bytes(0, prefix) /\ pc \in {"asked", "save"}

DiskInv ==
    /\ 0 .. prefix - pending - 1 \subseteq disk
    /\ \A r \in runs : prefix <= r[1] /\ r[1] .. r[2] - 1 \subseteq disk

\* Nothing is left of a writer that was closed, and one that finishes has all the bytes.
ClosedInv ==
    /\ pc = "closed" =>
         /\ prefix = 0 /\ runs = {} /\ out = <<>> /\ queue = <<>> /\ sum = <<>>
         /\ worker = "off"
    /\ pc = "finish" => prefix = Size /\ pending = 0 /\ gathered = <<>>

IInv ==
    /\ TypeOK /\ PipeInv /\ MessagesInv /\ DiskInv /\ ClosedInv
    /\ RecordCovers /\ StoredUnderItsHash
    /\ stored # None => pc = "closed"
=============================================================================
