----------------------------- MODULE MCTransfer -----------------------------
(***************************************************************************)
(* Instances of a download, and in the same run the texts a project and    *)
(* its plan are made of, while the download is one that failed at once.    *)
(***************************************************************************)
EXTENDS Transfer, Sequences, TLC

CONSTANTS
    v1, v2,
    Plain, Unknown, Many, Deep, Bad, Broken, Later, Unset,
    WrittenLocks, TypedLines    \* HeldLocks and Lines, below

VARIABLES
    subject,    \* which of them
    given,      \* the inputs of a plan, what is said, the pattern, or the text of the lock
    amended       \* of LockText, or the day

\* An unpinned link whose file changes, with validators, tried twice and run twice.
Unpinned == [length |-> (v1 :> 4) @@ (v2 :> 3), pin |-> None, labelled |-> TRUE,
             stalls |-> FALSE, streams |-> 2, tries |-> 2, runs |-> 1]

\* Pinned links without validators: nothing but the hash tells the versions apart.
Pinned == [length |-> (v1 :> 3) @@ (v2 :> 3), pin |-> v1, labelled |-> FALSE,
           stalls |-> FALSE, streams |-> 2, tries |-> 1, runs |-> 1]
PinnedStalled == [Pinned EXCEPT !.length = (v1 :> 2) @@ (v2 :> 2), !.stalls = TRUE]

\* A longer file over three streams.
Long == [length |-> (v1 :> 5), pin |-> None, labelled |-> TRUE,
         stalls |-> FALSE, streams |-> 3, tries |-> 1, runs |-> 0]

\* An unpinned link whose first stream may be called slow before its first byte.
Stalled == [Unpinned EXCEPT !.stalls = TRUE]

AllLinks == {Unpinned, Pinned, PinnedStalled, Long}
StalledLink == {Stalled}

NoTransfer ==
    /\ link = (CHOOSE l \in Links : TRUE) /\ pc = "failed"
    /\ file = Nothing /\ record = None /\ writer = None
    /\ share = [i \in Streams |-> None] /\ answer = [i \in Streams |-> None]
    /\ free = {} /\ pieced = FALSE /\ stopped = FALSE /\ failures = 0
    /\ split = TRUE /\ restarted = FALSE /\ tries = 1 /\ run = link.runs
    /\ seen = {} /\ stored = Nothing

-----------------------------------------------------------------------------
texts == <<subject, given, amended>>

Strings(chars, most) == UNION {[1 .. n -> chars] : n \in 1 .. most}

-----------------------------------------------------------------------------
\* What a plan is made of: folders alone, files of one dataset in any order, and an archive,
\* alone or beside a file.  B and b are one name on a disk that ignores case, z an archive's.
Planned(path, members) == [path |-> path, members |-> members]
Dataset(at, its) == [folder |-> at, files |-> its]
FolderPlans ==
    {[i \in 1 .. 3 |-> Dataset(fs[i], <<Planned(<<"b">>, Plain)>>)] :
        fs \in [1 .. 3 -> Strings({"b", "B"}, 2)]}
FilePlans ==
    {<<Dataset(<<"d">>, [i \in 1 .. 3 |-> Planned(ps[i], Plain)])>> :
        ps \in [1 .. 3 -> Strings({"b", "c"}, 3)]}
ArchivePlans ==
    LET members == {Unknown} \cup UNION {[1 .. n -> Strings({"b", "c"}, 2)] : n \in 1 .. 2}
        packed == {Planned(p, m) : p \in {<<"z.zip">>, <<"b", "z.zip">>}, m \in members}
        beside == {<<>>} \cup {<<Planned(p, Plain)>> : p \in Strings({"b", "B", "z"}, 2)}
    IN  {<<Dataset(<<"d">>, <<a>> \o f)>> : a \in packed, f \in beside}
OnDisk == [n \in {"b", "B", "c", "d", "z", "z.zip"} |-> IF n = "B" THEN "b" ELSE n]
Stems == "z.zip" :> "z"
Plans == FolderPlans \cup FilePlans \cup ArchivePlans
Plan == INSTANCE Layout WITH
        Folded <- OnDisk, StemOf <- Stems, Inputs <- Plans

\* Everything short that may be said with a few characters: words that are kept, spaces and dots,
\* what windows refuses, and what a repository or its disk makes of names
Sayings ==
    UNION {Strings({"a", "-", "_", ".", "con"}, 4), Strings({"CON", ".", " ", "tar", "/"}, 4),
           Strings({"a", ":", "*", "\\", "bidi", "/", "@"}, 3),
           Strings({"git", "GIT", ".", ":", "joiner", "/"}, 3), Strings({"a", "of", " "}, 5)}
Lowered == ("CON" :> "con") @@ ("GIT" :> "git")
Naming == INSTANCE Names WITH
        None <- Unset, said <- given, Said <- Sayings, Lower <- Lowered, Device <- "con", Metadata <- "git",
        Letters <- {"a", "con", "of", "tar", "dataset", "data", "download"}, Digits <- {"2", "3"},
        Longest <- 3, LongestEnding <- 2, LongestOnDisk <- 6, LongestAny <- 4, NearBreak <- 2,
        LongestTitle <- 3, MostWords <- 2, Dangling <- {<<"of">>}, Numbers <- <<"2", "3">>,
        LongestName <- 8

\* Every short pattern, and paths it may fit, in folders and with characters of patterns
Codes ==
    ("!" :> 33) @@ ("*" :> 42) @@ ("-" :> 45) @@ ("/" :> 47) @@ ("?" :> 63) @@ ("[" :> 91)
        @@ ("]" :> 93) @@ ("a" :> 97) @@ ("b" :> 98)
Patterns ==
    UNION {Strings({"a", "b", "*", "?"}, 4), Strings({"a", "*", "/"}, 5),
           Strings({"[", "]", "-", "a", "!"}, 4)}
Fitting ==
    UNION {Strings({"a", "b"}, 3), Strings({"a", "-", "]", "["}, 2),
           {<<"a", "/", "a">>, <<"b", "/", "a">>, <<"a", "/", "a", "/", "a">>,
            <<"a", "a", "/", "a">>, <<"a", "/", "b", "/", "a">>, <<"a", "*">>, <<"*", "/", "?">>}}
Pattern == INSTANCE Glob WITH
        asked <- given, Rank <- Codes, Folders <- Deep, Texts <- Patterns, Paths <- Fitting

\* Locks with any short title, of no dataset or of two with files, neither in order; and the
\* lines a person may put in, also of a newer version, of a path that leaves its folder, and
\* of strings TOML refuses
Held(name, title, files) ==
    [name |-> name, ref |-> "r", title |-> title, locked |-> "now", files |-> files]
Of(n) == [path |-> n, md5 |-> Unset]
Line(is, value) == [is |-> is, value |-> value, spelled |-> "as written"]
Titles == {<<>>} \cup Strings({"\"", "\\", "NL", "TAB", "BEL", "C1", "n", "u"}, 2)
HeldLocks ==
    {<<Held(1, title, <<>>)>> : title \in Titles}
        \cup {<<Held(2, Unset, <<Of(2), Of(1)>>), Held(1, <<"n">>, <<>>)>>, <<>>}
Lines ==
    UNION {{Line(is, 0) : is \in {"blank", "comment", "[[dataset]]", "]", "files = [", "note"}},
           {Line(is, n) : is \in {"name", "version"}, n \in {1, 2}},
           {Line("file", Of(n)) : n \in {1, 3, 9}},
           {Line("title", t) : t \in {<<"BEL">>, <<"TAB">>, <<"\\", "b">>, <<"\\">>, <<"\"">>,
                                     <<"\\", "u", "0007">>}}}
Controls == ("BEL" :> "0007") @@ ("C1" :> "0085")
Text == INSTANCE LockText WITH
        None <- Unset, text <- given, edits <- amended, Locks <- WrittenLocks, Typed <- TypedLines, Escaping <- {9},
        Coded <- Controls, Changes <- 1

\* Days from 1970, over the turn of a century with a leap day and over one without
Calendar(first, year, month, day) ==
    [first |-> first, last |-> first + 430, date |-> [year |-> year, month |-> month, day |-> day]]
YearsTurned == {Calendar(0, 1970, 1, 1), Calendar(10956, 1999, 12, 31), Calendar(47481, 2099, 12, 31)}
Date == INSTANCE Dates WITH day <- amended, calendar <- given, Spans <- YearsTurned

TextsInit ==
    \/ /\ \/ subject = "plan" /\ Plan!Init
          \/ subject = "name" /\ Naming!Init
          \/ subject = "pattern" /\ Pattern!Init
       /\ amended = 0
    \/ subject = "lock" /\ Text!Init
    \/ subject = "date" /\ Date!Init

TextsNext ==
    /\ \/ subject = "lock" /\ Text!Next
       \/ subject = "date" /\ Date!Next
    /\ UNCHANGED subject

NoTexts == subject = Unset /\ given = Unset /\ amended = Unset

-----------------------------------------------------------------------------
EitherInit ==
    \/ Init /\ NoTexts
    \/ TextsInit /\ NoTransfer
EitherNext ==
    \/ Next /\ UNCHANGED texts
    \/ TextsNext /\ UNCHANGED vars
EitherSpec == EitherInit /\ [][EitherNext]_<<vars, texts>> /\ Fairness

-----------------------------------------------------------------------------
\* Layout and Names: a plan is refused exactly when its files cannot all be stored, and the names
\* fetchloom makes can be stored, whatever they are made of.
PlansWhatFits ==
    /\ subject = "plan" => Plan!PlansWhatFits
    /\ subject = "name" => Naming!NamesCanBeKept

\* Glob, LockText and Dates: a pattern selects what it means, a lock is read as it was written or as
\* TOML has it, whatever a person edited, and the date in it is the one on the calendar.
ReadsAsMeant ==
    /\ subject = "pattern" => Pattern!SelectsAsMeant
    /\ subject = "lock" => Text!ReadsBackAsWritten
    /\ subject = "date" => Date!DatesAreRight
=============================================================================
