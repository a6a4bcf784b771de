------------------------------ MODULE MCCache -------------------------------
(***************************************************************************)
(* One run for the parts of the cache, the network and the commands that   *)
(* are small enough to share it: the first state chooses one, and the      *)
(* variables of the others stay as they are.                               *)
(***************************************************************************)
EXTENDS CacheParts, Sequences, TLC

CONSTANTS
    r1, r2, gc, f1, f2, s1, d1, d2, None,
    Downloads, Joining,                 \* of Pace and Rate
    ListedVersions, ListedFirst, ListedLater    \* of Listing

marks == <<up, object, link, shared, mark>>
retention == <<cache, reach, registered>>
unpacking == <<archive, pinned, objects, folder, part, reads>>
hashing == <<disk, prefix, runs, gathered, out, queue, sum, worker, reply, stored>>
linking == <<drive, kind, canReflink, canHardlink, otherVolume, probed, result, unlucky>>
commands == <<toml, files, upstream, step, run, said, disturbed, incidents, head>>
members == <<format, seen, names, kept, entries, written, skipped, headers, compressed>>
shares == <<job, now, record, pending, lock, known, marks, retention, unpacking, hashing, commands>>
vars == <<component, pc, shares, linking, members>>

\* What the data.lock of each project asks for: r1 has an archive of its own
Kinds(p) == IF p = r1 THEN {"tree"} ELSE {"plain", "packed", "tree"}
P == INSTANCE Pace WITH
        stamped <- archive, left <- pinned, counted <- objects, try <- folder, answer <- part,
        sure <- reads, lost <- mark,
        Files <- Downloads, Split <- f1, Streams <- Joining, Limited <- {f1, f2, s1},
        PerHost <- 2, Jobs <- 2, Window <- 3, Longest <- 2, Quota <- 2, Attempts <- 2,
        Travel <- 1
PN == INSTANCE Pace WITH
        stamped <- archive, left <- pinned, counted <- objects, try <- folder, answer <- part,
        sure <- reads, lost <- mark,
        Files <- Downloads, Split <- f1, Streams <- Joining, Limited <- {f1, s1},
        PerHost <- 1, Jobs <- 2, Window <- 2, Longest <- 2, Quota <- 1, Attempts <- 1,
        Travel <- 1

\* What data.toml may ask for: of d1 all files or some.  The project is new, or has d1 already.
AllOf(d) == [ref |-> d, all |-> TRUE]
AllAsks == (d1 :> {AllOf(d1), [ref |-> d1, all |-> FALSE]}) @@ (d2 :> {AllOf(d2)})
Begun == (d1 :> AllOf(d1)) @@ (d2 :> Nobody)
AllHeads == {Absent, Begun}

\* What sources hold: files, a folder, a document without bytes; in buckets also the object of the
\* very key, the mark of a folder, and one whose key merely starts like it
Entry(id, parent, name, type, bytes) ==
    [id |-> id, parent |-> parent, name |-> name, kind |-> type, bytes |-> bytes]
Top(id, type) == Entry(id, "top", id, type, 1)
A == Top("a", "file")
AAgain == Entry("a", "top", "a", "file", 2)
ANamesake == Entry("c", "top", "a", "file", 1)
B == Top("b", "file")
X == Top("f", "file")
Y == Top("g", "file")
Doc == Top("doc", "doc")
Dir == Top("f", "folder")
Within == Entry("g", "f", "g", "file", 1)
Keyed == {Top("a", "exact"), Top("b", "marker"), Top("doc", "other"), X, Y}
Sources == {"s3", "gcs", "hf", "figshare", "kaggle", "competition", "osf", "drive", "zenodo",
            "dataverse", "link"}
OfEach(buckets, competition, osf, folders, single, others) ==
    [k \in Sources |->
        CASE k \in {"s3", "gcs"} -> buckets [] k = "competition" -> competition [] k = "osf" -> osf
          [] k = "drive" -> folders [] k = "link" -> single [] OTHER -> others]
AllSnapshots == [k \in Sources |->
    <<IF k = "figshare" THEN {A, B, Doc} ELSE {A, B}, {AAgain}, {B, X, Y}>>]
AllHolds ==
    OfEach({Keyed \ {Top("a", "exact"), Top("doc", "other")}, Keyed \ {Top("b", "marker"), Y}},
           {{A, B}}, {{Dir, Within, A}, {A, B}}, {{Dir, Within, Doc}, {A, B}}, {{A}}, {{}})
AllEntries ==
    [OfEach(Keyed, {A, AAgain, ANamesake, B, X}, {Dir, Within, A, B, Y, Entry("b", "f", "b", "file", 1)},
            {Dir, Within, Doc, A, ANamesake, Y, Top("h", "folder")}, {AAgain}, {A, B, ANamesake})
     EXCEPT !["hf"] = {A, B, X, Dir}]
G == INSTANCE Listing WITH
        kind <- job, faithful <- now, newest <- record, live <- pending, walk <- lock, moves <- known,
        Sites <- Sources, Root <- "top", One <- "a", Order <- <<"a", "b", "c", "doc", "f", "g", "h">>,
        Snapshots <- ListedVersions, Holds <- ListedFirst, Entries <- ListedLater,
        MostFiles <- 3, MostPages <- 4, PageSize <- 1, Embedded <- 2, Changes <- 2

\* Archives: folders a and e spelled in other ways, names in them, one no disk takes, and the root
AllSpellings ==
    {<<>>, <<"a">>, <<"A">>, <<"b">>, <<"e">>, <<"e2">>, <<"a", "b">>, <<"A", "b">>, <<"e2", "b">>,
     <<"e", "a">>, <<"x">>}
AllNfc == [n \in {"a", "A", "b", "e", "e2", "x"} |-> IF n = "e2" THEN "e" ELSE n]
AllFolds == [n \in {"a", "A", "b", "e", "x"} |-> IF n = "A" THEN "a" ELSE n]

\* Volumes: of unix; FAT there; windows, which may refuse more; and FAT there, with or without a
\* rename over a file
Volume(links, over, stay, still) ==
    [links |-> links, renamesOver |-> over, sealedStay |-> stay, sealedKept |-> still]
AllVolumes ==
    {Volume(TRUE, TRUE, FALSE, FALSE), Volume(FALSE, TRUE, FALSE, FALSE),
     Volume(TRUE, TRUE, TRUE, FALSE), Volume(TRUE, TRUE, TRUE, TRUE),
     Volume(FALSE, TRUE, TRUE, TRUE), Volume(FALSE, FALSE, TRUE, TRUE)}

\* Drives that reflink, link or neither, or where the cache is not, or a sync client is
Drive(reflinks, links, apart, synced) ==
    [reflinks |-> reflinks, links |-> links, apart |-> apart, synced |-> synced]
Case(writable, foreign, taken) == [writable |-> writable, foreign |-> foreign, taken |-> taken]
AllDrives ==
    {Drive(TRUE, TRUE, FALSE, FALSE), Drive(FALSE, TRUE, FALSE, FALSE),
     Drive(FALSE, TRUE, FALSE, TRUE), Drive(FALSE, FALSE, FALSE, FALSE),
     Drive(FALSE, TRUE, TRUE, FALSE), Drive(FALSE, FALSE, TRUE, FALSE)}
AllCases ==
    {Case(FALSE, FALSE, FALSE), Case(TRUE, FALSE, FALSE),
     Case(FALSE, TRUE, FALSE), Case(FALSE, FALSE, TRUE)}

T == INSTANCE Rate WITH
        line <- queue, missing <- gathered, wake <- sum, credit <- disk, updated <- prefix,
        stopped <- reply, spent <- out,
        Streams <- Downloads, PerTick <- 2, Capacity <- 3, Chunks <- {2, 4}, Latest <- 3

\* What the theorems about these components assume of their constants
ASSUME Assumptions ==
    /\ C!MarksAssumption /\ U!UnpackingAssumption /\ UU!UnpackingAssumption
    /\ S!SwappingAssumption /\ N!LinkingAssumption /\ H!HashPipeAssumption
    /\ R!RetentionAssumption /\ RU!RetentionAssumption
    /\ K!CommandsAssumption /\ KA!CommandsAssumption /\ M!MembersAssumption

NoMarks == up = None /\ object = None /\ link = None /\ shared = None /\ mark = None
NoLinking ==
    /\ drive = None /\ kind = None /\ canReflink = None /\ canHardlink = None
    /\ otherVolume = None /\ probed = None /\ result = None /\ unlucky = None
NoRetention == cache = None /\ reach = None /\ registered = None
NoUnpacking ==
    /\ archive = None /\ pinned = None /\ objects = None
    /\ folder = None /\ part = None /\ reads = None
NoHashing ==
    /\ disk = None /\ prefix = None /\ runs = None /\ gathered = None /\ out = None
    /\ queue = None /\ sum = None /\ worker = None /\ reply = None /\ stored = None
NoCommands ==
    /\ toml = None /\ files = None /\ upstream = None /\ step = None /\ run = None
    /\ said = None /\ disturbed = None /\ incidents = None /\ head = None
NoMembers ==
    /\ format = None /\ seen = None /\ names = None /\ kept = None /\ entries = None
    /\ written = None /\ skipped = None /\ headers = None /\ compressed = None
PartsInit ==
    \/ /\ component = "marks" /\ C!Init /\ pending = None /\ lock = None /\ known = None
       /\ NoRetention /\ NoUnpacking /\ NoHashing /\ NoCommands
    \/ /\ \/ component = "locked retention" /\ R!Init
          \/ component = "unlocked retention" /\ RU!Init
       /\ record = None /\ pending = None /\ known = None
       /\ NoMarks /\ NoUnpacking /\ NoHashing /\ NoCommands
    \/ /\ \/ component = "locked unpacking" /\ U!Init
          \/ component = "unlocked unpacking" /\ UU!Init
       /\ job = None /\ now = None /\ pending = None /\ lock = None /\ known = None
       /\ NoMarks /\ NoRetention /\ NoHashing /\ NoCommands
    \/ /\ component = "hashing" /\ H!Init
       /\ job = None /\ now = None /\ lock = None /\ known = None
       /\ NoMarks /\ NoRetention /\ NoUnpacking /\ NoCommands
    \/ /\ component = "rate" /\ T!Init
       /\ pc = None /\ job = None /\ record = None /\ pending = None /\ lock = None /\ known = None
       /\ runs = None /\ worker = None /\ stored = None
       /\ NoMarks /\ NoRetention /\ NoUnpacking /\ NoCommands
    \/ /\ \/ component = "pacing" /\ P!Init
          \/ component = "narrow pacing" /\ PN!Init
       /\ job = None /\ now = None /\ record = None /\ lock = None
       /\ up = None /\ object = None /\ link = None /\ shared = None
       /\ NoRetention /\ NoHashing /\ NoCommands
    \/ /\ \/ component = "commands" /\ K!Init
          \/ component = "one command" /\ KA!Init
       /\ pc = None /\ job = None /\ now = None /\ pending = None
       /\ NoMarks /\ NoRetention /\ NoUnpacking /\ NoHashing
    \/ /\ component = "swapping" /\ S!Init
       /\ shared = None /\ mark = None
       /\ NoRetention /\ NoUnpacking /\ NoHashing /\ NoCommands
    \/ /\ component = "listing" /\ G!Init /\ pc = None
       /\ NoMarks /\ NoRetention /\ NoUnpacking /\ NoHashing /\ NoCommands

PartsNext ==
    \/ /\ component = "marks" /\ C!Next
       /\ UNCHANGED <<pending, lock, known, retention, unpacking, hashing, commands>>
    \/ /\ \/ component = "locked retention" /\ R!Next
          \/ component = "unlocked retention" /\ RU!Next
       /\ UNCHANGED <<record, pending, known, marks, unpacking, hashing, commands>>
    \/ /\ \/ component = "locked unpacking" /\ U!Next
          \/ component = "unlocked unpacking" /\ UU!Next
       /\ UNCHANGED <<job, now, pending, lock, known>>
       /\ UNCHANGED <<marks, retention, hashing, commands>>
    \/ /\ component = "hashing" /\ H!Next
       /\ UNCHANGED <<job, now, lock, known, marks, retention, unpacking, commands>>
    \/ /\ component = "rate" /\ T!Next
       /\ UNCHANGED <<pc, job, record, pending, lock, known, runs, worker, stored>>
       /\ UNCHANGED <<marks, retention, unpacking, commands>>
    \/ /\ \/ component = "pacing" /\ P!Next
          \/ component = "narrow pacing" /\ PN!Next
       /\ UNCHANGED <<job, now, record, lock, up, object, link, shared, retention, hashing, commands>>
    \/ /\ \/ component = "commands" /\ K!Next
          \/ component = "one command" /\ KA!Next
       /\ UNCHANGED <<pc, job, now, pending, marks, retention, unpacking, hashing>>
    \/ /\ component = "swapping" /\ S!Next
       /\ UNCHANGED <<shared, mark, retention, unpacking, hashing, commands>>
    \/ /\ component = "listing" /\ G!Next
       /\ UNCHANGED <<pc, marks, retention, unpacking, hashing, commands>>

NoShares ==
    /\ job = None /\ now = None /\ record = None /\ pending = None /\ lock = None /\ known = None
    /\ NoMarks /\ NoRetention /\ NoUnpacking /\ NoHashing /\ NoCommands

\* Members uses step and files of the commands, and out of the hash
unused == <<pc, job, now, record, pending, lock, known, marks, retention, unpacking,
            disk, prefix, runs, gathered, queue, sum, worker, reply, stored,
            toml, upstream, run, said, disturbed, incidents, head>>
MembersAlone ==
    /\ pc = None /\ job = None /\ now = None /\ record = None /\ pending = None
    /\ lock = None /\ known = None /\ NoMarks /\ NoRetention /\ NoUnpacking
    /\ disk = None /\ prefix = None /\ runs = None /\ gathered = None
    /\ queue = None /\ sum = None /\ worker = None /\ reply = None /\ stored = None
    /\ toml = None /\ upstream = None /\ run = None
    /\ said = None /\ disturbed = None /\ incidents = None /\ head = None

Init ==
    \/ PartsInit /\ NoLinking /\ NoMembers
    \/ component = "linking" /\ N!Init /\ NoShares /\ NoMembers
    \/ component = "members" /\ M!Init /\ MembersAlone /\ NoLinking

Next ==
    /\ UNCHANGED component
    /\ \/ PartsNext /\ UNCHANGED <<linking, members>>
       \/ component = "linking" /\ N!Next /\ UNCHANGED <<shares, members>>
       \/ component = "members" /\ M!Next /\ UNCHANGED <<unused, linking>>

Spec == Init /\ [][Next]_vars

-----------------------------------------------------------------------------
\* Pace and Rate: a request admitted within the limit the host still counts is not refused, whoever
\* waits for a permit waits for a request that goes on without one, and answers keep to the bytes
\* per second they share.
RequestsGoOn ==
    /\ component = "rate" => T!KeepsToTheRate
    /\ component = "pacing" => P!KeepsToTheLimit /\ P!NobodyWaitsInVain
    /\ component = "narrow pacing" => PN!KeepsToTheLimit /\ PN!NobodyWaitsInVain

\* Listing: what is listed is all of the version asked for, or what was there meanwhile, and a
\* listing ends, whatever a server sends.
ListsTheVersion == component = "listing" => G!ListsTheVersion /\ G!ListingsEnd
=============================================================================
