------------------------------ MODULE Transfer ------------------------------
(***************************************************************************)
(* How the bytes of one link reach its partial file (net/download.rs,      *)
(* download/split.rs, cache/partial.rs): resumed from an earlier run,      *)
(* streamed, handed to several streams when one is slow, retried, started  *)
(* over, killed at any point, and at last checked and stored.              *)
(*                                                                         *)
(* The file is a row of blocks.  A block holds the version of the upstream *)
(* file it came from, so a hash of blocks is modelled by the blocks        *)
(* themselves.  Any answer may bring any version: the file changes, or     *)
(* servers behind one name differ.  One answer brings one version.         *)
(*                                                                         *)
(* A block is in the file as soon as its stream has it: the queue between  *)
(* a stream and the writer is FIFO and is drained before anything reads    *)
(* the file, and a killed run loses what no checkpoint recorded.           *)
(***************************************************************************)
EXTENDS Naturals, FiniteSets, FiniteSetsExt

CONSTANTS
    Versions,   \* what the links may serve
    Links,      \* the downloads, each with the link it is of: see below
    MostStreams,\* the most streams one host allows
    Piece,      \* SMALLEST_PIECE: the smallest half taken from another stream
    MostFailures,\* FAILURES: failed streams after which no range is asked for
    None, Hole  \* nothing, and bytes nobody wrote or the disk lost

(***************************************************************************)
(* A download: `length` gives the blocks of each version its link may      *)
(* serve, `pin` the version whose hash is expected, or None.  `labelled`   *)
(* says that answers carry a validator If-Range can use, `streams` how     *)
(* many streams the host's slots allow, `stalls` that the first stream may *)
(* be called slow before its first byte.  It is tried `tries` times        *)
(* (MOST_TRIES) in each run, and run again `runs` times.                   *)
(***************************************************************************)
Longest == Max(UNION {{l.length[v] : v \in DOMAIN l.length} : l \in Links})
Blocks == 0 .. Longest - 1
Streams == 1 .. MostStreams
First == 1

ASSUME VersionsAssumption ==
    IsFiniteSet(Versions) /\ None \notin Versions /\ Hole \notin Versions
ASSUME LinksAssumption ==
    /\ IsFiniteSet(Links) /\ Links # {}
    /\ \A l \in Links :
         /\ DOMAIN l.length \subseteq Versions /\ DOMAIN l.length # {}
         /\ l.length \in [DOMAIN l.length -> Nat \ {0}]
         /\ l.pin = None \/ l.pin \in DOMAIN l.length
         /\ l.labelled \in BOOLEAN /\ l.stalls \in BOOLEAN
         /\ l.streams \in Streams /\ l.tries \in Nat \ {0} /\ l.runs \in Nat
ASSUME BoundsAssumption ==
    /\ MostStreams \in Nat \ {0}
    /\ Piece \in Nat \ {0} /\ MostFailures \in Nat \ {0}

VARIABLES
    link,       \* the download, chosen once
    pc,
    file,       \* the partial file
    record,     \* the checkpoint beside it: Record of partial.rs
    writer,     \* PartialWriter and the answer it began with
    share,      \* Board.shares: the range each stream has, or None
    answer,     \* what each stream's answer brings, up to where, or None while it asks
    free,       \* Board.free
    pieced, stopped, failures,
    split,      \* whether the file may still be split
    restarted,  \* whether it started over after a mismatch
    tries,
    run,        \* which run of the program this is
    seen,       \* the versions this run's answers brought
    stored      \* the blocks put into the cache

board == <<share, answer, free, pieced, stopped, failures>>
vars == <<link, pc, file, record, writer, board, split, restarted, tries, run, seen, stored>>

Ranges == [start : Blocks, end : 1 .. Longest]
Contents == [Blocks -> Versions \union {Hole}]
Share == [next : 0 .. Longest, end : 1 .. Longest, open : BOOLEAN]
PartAnswer == [version : Versions, end : 1 .. Longest]
PartialWriter == [prefix : 0 .. Longest, runs : SUBSET Ranges, version : Versions,
                  splits : BOOLEAN, resumed : BOOLEAN]
Record == [received : 0 .. Longest, runs : SUBSET Ranges, label : Versions, sum : Contents]

\* None is none of these.
ASSUME NoneAssumption ==
    /\ None \notin Share /\ None \notin PartAnswer
    /\ None \notin PartialWriter /\ None \notin Record

Nothing == [b \in Blocks |-> Hole]
Served == DOMAIN link.length
Whole(v) == [b \in Blocks |-> IF b < link.length[v] THEN v ELSE Hole]

In(b, r) == r.start <= b /\ b < r.end
Covered(ranges) == UNION {{b \in Blocks : In(b, r)} : r \in ranges}

NoBoard ==
    /\ share' = [i \in Streams |-> None]
    /\ answer' = [i \in Streams |-> None]
    /\ free' = {} /\ pieced' = FALSE /\ stopped' = FALSE /\ failures' = 0

Init ==
    /\ link \in Links
    /\ pc = "ask"
    /\ file = Nothing /\ record = None /\ writer = None
    /\ share = [i \in Streams |-> None]
    /\ answer = [i \in Streams |-> None]
    /\ free = {} /\ pieced = FALSE /\ stopped = FALSE /\ failures = 0
    /\ split = TRUE /\ restarted = FALSE /\ tries = 1 /\ run = 0
    /\ seen = {} /\ stored = Nothing

-----------------------------------------------------------------------------
(***************************************************************************)
(* The checkpoint and what a later attempt makes of it                     *)
(***************************************************************************)
\* PartialWriter::save: the prefix and the ranges past it, with the hash of each.
Saved(w) ==
    [received |-> w.prefix, runs |-> w.runs, label |-> w.version,
     sum |-> [b \in Blocks |-> IF b < w.prefix \/ b \in Covered(w.runs) THEN file[b] ELSE Hole]]

\* Partial::resumable: the file still reaches as far as the record says.
Resumable ==
    /\ record # None
    /\ record.received > 0 \/ record.runs # {}
    /\ \E b \in Blocks : b + 1 >= record.received /\ (record.received = 0 \/ file[b] # Hole)
    /\ file # Nothing

\* Earlier bytes are continued when a hash or a validator proves they belong together.
Proven == link.pin # None \/ link.labelled
Earlier == Resumable /\ Proven

Intact(r) == \A b \in Blocks : In(b, r) => file[b] = record.sum[b]
PrefixIntact(n) == \A b \in Blocks : b < n => file[b] = record.sum[b]

\* PartialWriter::keep: the recorded ranges that still hash to what was recorded.
Kept(offset, keep, v) ==
    IF keep /\ record # None /\ record.received = offset
    THEN {r \in record.runs : r.end <= link.length[v] /\ Intact(r)} ELSE {}

\* MUTANT of Continues: the kept bytes are not hashed again.
ContinuesUnread(offset) == offset > 0 => record # None /\ record.received = offset

\* Partial::writer refuses bytes before the offset that are not the recorded ones.
Continues(offset) ==
    offset > 0 => record # None /\ record.received = offset /\ PrefixIntact(offset)

\* PartialWriter::gaps, as the ranges nothing has written.
Gaps(prefix, runs, total) ==
    LET holes == {b \in Blocks : prefix <= b /\ b < total /\ b \notin Covered(runs)}
        starts == {b \in holes : b = prefix \/ b - 1 \notin holes}
    IN  {[start |-> s, end |-> Min({e \in s + 1 .. total : e \notin holes})] : s \in starts}

\* Board::new: the first gap goes to the answer in hand.
OpenBoard(w) ==
    LET gaps == Gaps(w.prefix, w.runs, link.length[w.version])
    IN  /\ gaps # {}
        /\ \E g \in gaps :
             /\ \A h \in gaps : g.start <= h.start
             /\ share' = [i \in Streams |-> IF i = First
                          THEN [next |-> g.start, end |-> g.end, open |-> TRUE] ELSE None]
             /\ free' = gaps \ {g}
        /\ answer' = [i \in Streams |-> IF i = First
                       THEN [version |-> w.version, end |-> link.length[w.version]] ELSE None]
        /\ pieced' = FALSE /\ stopped' = FALSE /\ failures' = 0
        /\ pc' = "split"

(***************************************************************************)
(* attempt: one request for the file, or for the rest of it                *)
(***************************************************************************)
Discarded == file' = Nothing /\ record' = None

\* Answer::StartOver: the earlier download is discarded, and no try is counted.
StartOver == pc' = "ask" /\ writer' = None /\ Discarded /\ NoBoard

Keeps(ranges) == split /\ Proven /\ ranges

\* The answer brings version v from `offset` on.  `ranges` says its server serves ranges.
Open(v, offset, ranges) ==
    LET keep == Keeps(ranges)
        runs == Kept(offset, keep, v)
        w == [prefix |-> offset, runs |-> runs, version |-> v, splits |-> keep,
              resumed |-> offset > 0 \/ runs # {}]
    IN  IF ~Continues(offset) THEN StartOver
        ELSE /\ file' = [b \in Blocks |-> IF keep \/ b < offset THEN file[b] ELSE Hole]
             /\ writer' = w
             /\ UNCHANGED record
             /\ IF runs = {} THEN pc' = "stream" /\ NoBoard ELSE OpenBoard(w)

\* A 200 brings the whole file: nothing was asked to continue, If-Range named another
\* version, or the server serves no ranges.
WholeAnswer ==
    /\ pc = "ask"
    /\ \E v \in Served, ranges \in BOOLEAN :
         Open(v, 0, ranges) /\ seen' = seen \union {v}
    /\ UNCHANGED <<split, restarted, tries, run, stored>>

\* A 206 continues the earlier bytes unless its validators name another version, as from a
\* server that ignores If-Range.  Past the end of the file it is a 416.
RangeAnswer ==
    /\ pc = "ask" /\ Earlier
    /\ \E v \in Served :
         /\ seen' = seen \union {v}
         /\ IF record.received >= link.length[v] \/ (link.labelled /\ v # record.label) THEN StartOver
            ELSE Open(v, record.received, TRUE)
    /\ UNCHANGED <<split, restarted, tries, run, stored>>

\* Retry::wait: a transient failure is tried again, up to a number of tries.
Retry ==
    /\ \/ tries < link.tries /\ pc' = "ask" /\ tries' = tries + 1
       \/ pc' = "failed" /\ UNCHANGED tries
    /\ writer' = None /\ NoBoard

AskFails ==
    /\ pc = "ask" /\ Retry
    /\ UNCHANGED <<file, record, split, restarted, run, seen, stored>>

-----------------------------------------------------------------------------
(***************************************************************************)
(* write_chunk and absorb                                                  *)
(***************************************************************************)
\* The prefix runs on over ranges it reaches.
Absorbed(prefix, runs) ==
    Max({e \in prefix .. Longest : \A b \in Blocks : prefix <= b /\ b < e => b \in Covered(runs)})

\* A block at the prefix extends it, one past it extends the run that ends there.
Written(w, at) ==
    IF at = w.prefix
    THEN LET prefix == Absorbed(at + 1, w.runs)
         IN  [w EXCEPT !.prefix = prefix, !.runs = {r \in @ : r.start > prefix}]
    ELSE [w EXCEPT !.runs = {r \in @ : r.end # at} \union
            {[start |-> IF \E r \in @ : r.end = at THEN (CHOOSE r \in @ : r.end = at).start ELSE at,
              end |-> at + 1]}]

Total == link.length[writer.version]

Save ==
    /\ pc \in {"stream", "split"}
    /\ record' = Saved(writer)
    /\ UNCHANGED <<pc, file, writer, board, split, restarted, tries, run, seen, stored>>

(***************************************************************************)
(* stream: one answer, read to its end                                     *)
(***************************************************************************)
Arrive ==
    /\ pc = "stream" /\ writer.prefix < Total
    /\ file' = [file EXCEPT ![writer.prefix] = writer.version]
    /\ writer' = Written(writer, writer.prefix)
    /\ UNCHANGED <<pc, record, board, split, restarted, tries, run, seen, stored>>

\* The connection breaks, goes silent, or ends early: what arrived is saved.
Break ==
    /\ pc = "stream"
    /\ record' = Saved(writer)
    /\ Retry
    /\ UNCHANGED <<file, split, restarted, run, seen, stored>>

\* One stream proved slow and enough is left, so its answer becomes the first of several.
Slow ==
    /\ pc = "stream" /\ writer.splits /\ Total - writer.prefix >= 2 * Piece
    /\ link.stalls \/ writer.prefix > 0
    /\ OpenBoard(writer)
    /\ UNCHANGED <<file, record, writer, split, restarted, tries, run, seen, stored>>

-----------------------------------------------------------------------------
(***************************************************************************)
(* Board: which stream fetches which bytes                                 *)
(***************************************************************************)
Left(i) == IF share[i] = None THEN 0 ELSE share[i].end - share[i].next
Victim(v) == share[v] # None /\ \A i \in Streams : Left(i) <= Left(v)

Given(i, start, end) == [next |-> start, end |-> end, open |-> FALSE]

\* Board::assign: the first free range, or the upper half of the largest share left.
Assign(i) ==
    /\ pieced' = TRUE
    /\ IF free # {}
       THEN \E r \in free :
              /\ \A q \in free : r.start <= q.start
              /\ share' = [share EXCEPT ![i] = Given(i, r.start, r.end)]
              /\ free' = free \ {r}
       ELSE \E v \in Streams :
              /\ Victim(v) /\ Left(v) \div 2 >= Piece
              /\ share' = [share EXCEPT ![v].end = @ - Left(v) \div 2,
                                        ![i] = Given(i, share[v].end - Left(v) \div 2, share[v].end)]
              /\ UNCHANGED free

Assignable == free # {} \/ \E v \in Streams : Victim(v) /\ Left(v) \div 2 >= Piece

\* Board::release: an answer that runs on into the range takes it, or it waits.
Release(shares, r) ==
    IF \E i \in Streams : shares[i] # None /\ shares[i].open /\ shares[i].end = r.start
    THEN /\ share' = [i \in Streams |->
                        IF shares[i] # None /\ shares[i].open /\ shares[i].end = r.start
                        THEN [shares[i] EXCEPT !.end = r.end] ELSE shares[i]]
         /\ UNCHANGED free
    ELSE share' = shares /\ free' = free \union {r}

\* MUTANT of GiveBack: what a stream did not fetch is nobody's.
DropShare(i) == share' = [share EXCEPT ![i] = None] /\ UNCHANGED free

\* Board::give_back.
GiveBack(i) ==
    IF Left(i) > 0
    THEN Release([share EXCEPT ![i] = None], [start |-> share[i].next, end |-> share[i].end])
    ELSE share' = [share EXCEPT ![i] = None] /\ UNCHANGED free

(***************************************************************************)
(* split_stream, part and drain                                            *)
(***************************************************************************)
\* Board::deliver: the share moves on, and one that is done no longer grows back.
Delivered(i) ==
    share' = [share EXCEPT ![i].next = @ + 1,
                           ![i].open = @ /\ share[i].next + 1 < share[i].end]

\* A block arrives, and the writer writes it where its share stands.
Deliver(i) ==
    /\ pc = "split" /\ answer[i] # None /\ Left(i) > 0
    /\ file' = [file EXCEPT ![share[i].next] = answer[i].version]
    /\ writer' = Written(writer, share[i].next)
    /\ Delivered(i)
    /\ UNCHANGED <<pc, record, answer, free, pieced, stopped, failures,
                   split, restarted, tries, run, seen, stored>>

\* The share is done: the stream takes another range and asks for it, or stops.
TakeNext(i) ==
    /\ pc = "split" /\ share[i] # None /\ Left(i) = 0
    /\ answer' = [answer EXCEPT ![i] = None]
    /\ IF ~stopped /\ Assignable THEN Assign(i) ELSE GiveBack(i) /\ UNCHANGED pieced
    /\ UNCHANGED <<pc, file, record, writer, stopped, failures,
                   split, restarted, tries, run, seen, stored>>

Asking(i) == pc = "split" /\ share[i] # None /\ Left(i) > 0 /\ answer[i] = None

\* An unpinned file is of one version by its validators, a pinned one is told by its hash.
OtherVersion(v) == link.length[v] # Total \/ (link.pin = None /\ link.labelled /\ v # writer.version)

\* Board::trim: the answer ends before the share does, and the rest goes back.
Trim(i, end) ==
    IF end < share[i].end
    THEN Release([share EXCEPT ![i].end = end], [start |-> end, end |-> share[i].end])
    ELSE UNCHANGED <<share, free>>

\* The part asked for, or less of it.
Part(i) ==
    /\ Asking(i)
    /\ \E v \in Served, last \in Blocks :
         /\ ~OtherVersion(v)
         /\ share[i].next <= last /\ last < share[i].end
         /\ Trim(i, last + 1)
         /\ answer' = [answer EXCEPT ![i] = [version |-> v, end |-> last + 1]]
         /\ seen' = seen \union {v}
    /\ UNCHANGED <<pc, file, record, writer, pieced, stopped, failures,
                   split, restarted, tries, run, stored>>

\* MUTANT of PartChanged: the file may be split again.
PartChangedAgain(i) ==
    /\ Asking(i)
    /\ \E v \in Served : OtherVersion(v) /\ seen' = seen \union {v}
    /\ StartOver
    /\ UNCHANGED <<split, restarted, tries, run, stored>>

\* A part of another version: the whole download starts over and is not split again.
PartChanged(i) ==
    /\ Asking(i)
    /\ \E v \in Served : OtherVersion(v) /\ seen' = seen \union {v}
    /\ StartOver
    /\ split' = FALSE
    /\ UNCHANGED <<restarted, tries, run, stored>>

\* The server sent the whole file instead: no more ranges are asked for.
NoRanges(i) ==
    /\ Asking(i)
    /\ GiveBack(i)
    /\ stopped' = TRUE
    /\ UNCHANGED <<pc, file, record, writer, answer, pieced, failures,
                   split, restarted, tries, run, seen, stored>>

\* The stream's request or connection failed.  One that asking again cannot mend, or one
\* too many, and no more ranges are asked for.
StreamFails(i) ==
    /\ pc = "split" /\ share[i] # None /\ Left(i) > 0
    /\ GiveBack(i)
    /\ answer' = [answer EXCEPT ![i] = None]
    /\ failures' = Min({failures + 1, MostFailures})
    /\ \E final \in BOOLEAN : stopped' = (stopped \/ final \/ failures + 1 >= MostFailures)
    /\ UNCHANGED <<pc, file, record, writer, pieced,
                   split, restarted, tries, run, seen, stored>>

\* add_stream: the rate rule and the host's slots allow one more.
AddStream(i) ==
    /\ pc = "split" /\ ~stopped /\ i <= link.streams /\ share[i] = None /\ Assignable
    /\ \E j \in Streams : share[j] # None
    /\ Assign(i)
    /\ UNCHANGED <<pc, file, record, writer, answer, stopped, failures,
                   split, restarted, tries, run, seen, stored>>

\* Every stream stopped before the end: the writer saves, and the attempt failed.
SplitBreaks ==
    /\ pc = "split" /\ \A i \in Streams : share[i] = None
    /\ writer.prefix < Total
    /\ record' = Saved(writer)
    /\ split' = (split /\ ~stopped)
    /\ Retry
    /\ UNCHANGED <<file, restarted, run, seen, stored>>

-----------------------------------------------------------------------------
(***************************************************************************)
(* finish and verify                                                       *)
(***************************************************************************)
Complete ==
    \/ pc = "stream" /\ writer.prefix = Total
    \/ pc = "split" /\ writer.prefix = Total /\ \A i \in Streams : share[i] = None

Resumed == writer.resumed \/ pieced
Bytes == [b \in Blocks |-> IF b < writer.prefix THEN file[b] ELSE Hole]

\* MUTANT of Finish: a download in pieces that does not match is the server's mismatch.
FinishStrictly ==
    /\ Complete
    /\ IF link.pin = None \/ Bytes = Whole(link.pin)
       THEN pc' = "stored" /\ stored' = Bytes
       ELSE pc' = "mismatch" /\ UNCHANGED stored
    /\ writer' = None /\ Discarded /\ NoBoard
    /\ UNCHANGED <<split, restarted, tries, run, seen>>

\* The bytes are cut at the prefix, hashed and stored.  Bytes of several answers that do not
\* match start over once, as one stream.
Finish ==
    /\ Complete
    /\ IF link.pin = None \/ Bytes = Whole(link.pin)
       THEN pc' = "stored" /\ stored' = Bytes /\ UNCHANGED <<split, restarted>>
       ELSE /\ UNCHANGED stored
            /\ IF Resumed /\ ~restarted
               THEN pc' = "ask" /\ restarted' = TRUE /\ split' = FALSE
               ELSE pc' = "mismatch" /\ UNCHANGED <<split, restarted>>
    /\ writer' = None /\ Discarded /\ NoBoard
    /\ UNCHANGED <<tries, run, seen>>

Ended == {"stored", "mismatch", "failed"}

\* The program is stopped or killed, or the power goes: blocks no checkpoint covers may be
\* gone, and after a power cut any block and the checkpoint.  It is run again.
Crash ==
    /\ pc \notin {"stored", "mismatch"} /\ run < link.runs
    /\ \E lost \in SUBSET {b \in Blocks : file[b] # Hole} :
         file' = [b \in Blocks |-> IF b \in lost THEN Hole ELSE file[b]]
    /\ record' \in {record, None}
    /\ pc' = "ask" /\ writer' = None /\ NoBoard
    /\ split' = TRUE /\ restarted' = FALSE /\ tries' = 1 /\ run' = run + 1 /\ seen' = {}
    /\ UNCHANGED stored

Attempt == WholeAnswer \/ RangeAnswer \/ AskFails
Stream == Arrive \/ Break \/ Slow
Split(i) ==
    \/ Deliver(i) \/ TakeNext(i) \/ Part(i) \/ PartChanged(i) \/ NoRanges(i)
    \/ StreamFails(i) \/ AddStream(i)

Step ==
    /\ \/ Attempt \/ Stream \/ Save \/ SplitBreaks \/ Finish \/ Crash
       \/ \E i \in Streams : Split(i)
    /\ UNCHANGED link

Next == Step \/ (pc \in Ended /\ UNCHANGED vars)

Spec == Init /\ [][Next]_vars

\* Requests and reads time out, so every one ends: with bytes or with a failure.
Fairness ==
    WF_vars(/\ Attempt \/ Stream \/ SplitBreaks \/ Finish \/ \E i \in Streams : Split(i)
            /\ UNCHANGED link)
FairSpec == Spec /\ Fairness

-----------------------------------------------------------------------------
TypeOK ==
    /\ link \in Links
    /\ pc \in {"ask", "stream", "split"} \union Ended
    /\ file \in Contents /\ stored \in Contents
    /\ record \in Record \union {None} /\ (record # None => record.label \in Served)
    /\ writer \in PartialWriter \union {None} /\ (writer # None => writer.version \in Served)
    /\ share \in [Streams -> Share \union {None}]
    /\ answer \in [Streams -> PartAnswer \union {None}]
    /\ free \subseteq Ranges
    /\ pieced \in BOOLEAN /\ stopped \in BOOLEAN /\ split \in BOOLEAN /\ restarted \in BOOLEAN
    /\ failures \in 0 .. MostFailures /\ tries \in 1 .. link.tries /\ run \in 0 .. link.runs
    /\ seen \subseteq Served

\* What a link's download stores is one version of the file, however many runs, answers and
\* streams brought it ("proof that all answers belong to one version", network.md).
OneVersion == pc = "stored" => \E v \in Served : stored = Whole(v)

\* While a download is split, every byte is written, in one stream's range, or free for the
\* next, and in one of them only: no byte is lost between the streams when ranges are taken,
\* given back or trimmed, and the writer never meets "two streams wrote the same bytes".
EachByteOnce ==
    pc = "split" => \A b \in Blocks : b < Total =>
        (IF b < writer.prefix THEN 1 ELSE 0)
        + Cardinality({r \in writer.runs : In(b, r)})
        + Cardinality({i \in Streams : share[i] # None /\ share[i].next <= b /\ b < share[i].end})
        + Cardinality({r \in free : In(b, r)}) = 1

\* No stream waits for bytes its answer will never bring: a share only grows over a range
\* the answer in hand runs on into (Share.open).
AnswersReach ==
    pc = "split" => \A i \in Streams :
        share[i] # None /\ answer[i] # None => share[i].end <= answer[i].end

\* What the shares of the streams of a split download owe it: every byte is somebody's, once,
\* and is in a share only if the stream's answer brings it.
SharesHold == EachByteOnce /\ AnswersReach

\* A pinned download blames the server only when a server sent this run other bytes: what an
\* earlier run, a crash or a wrong join left behind costs a restart, never a failure.
BlamedRightly == pc = "mismatch" => seen # {link.pin}

\* Kept bytes that cannot be used and servers that disagree never make it go on for ever,
\* although starting over counts as no try.
EveryDownloadEnds == <>(pc \in Ended)
=============================================================================
