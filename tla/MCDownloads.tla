----------------------------- MODULE MCDownloads -----------------------------
(***************************************************************************)
(* One run for batches of downloads, for what one download of a link is    *)
(* given, for what data.lock pins, and for `get`.  The first state         *)
(* chooses: groups as the .cfg sets them; groups of one download each, so  *)
(* that a batch publishes more than one (with nothing resumed, and         *)
(* failures that stop the batch); what the answers to downloads mean; how  *)
(* a lock is made; or the commands of `get`.  The last three share         *)
(* variables, and those of the others stay as they are.                    *)
(***************************************************************************)
EXTENDS MCDeferred, DownloadParts
CONSTANTS r1, r2, v1, v2, mixed

\* Of DownloadParts: two runs of jobs for a link: pinned, with a stated MD5, or asked again each
\* time, online or not
Served == {[l \in {"link", "listed"} |-> v1]}
Sums == (v1 :> "m") @@ (v2 :> "n") @@ (mixed :> "x")
Sizes == [v \in {v1, v2, mixed} |-> 1]
Wanted(pin, md5, size, revalidate, again, online) ==
    [pin |-> pin, md5 |-> md5, size |-> size, revalidate |-> revalidate, again |-> again, online |-> online]
AllJobs == {Wanted(v1, None, 1, FALSE, TRUE, TRUE), Wanted(None, "m", 1, FALSE, FALSE, TRUE),
            Wanted(None, None, None, TRUE, FALSE, TRUE), Wanted(None, None, None, TRUE, FALSE, FALSE)}

answers == <<objects, stated, run, begun, served, urls, partial, owner, changes, labelled, ever>>
folders == <<disk, step, answered, touched>>
hereVars == <<vars, component, answers, folders>>

Single == INSTANCE Deferred WITH Group <- 1, Resumed <- {}, Apart <- FALSE

\* One dataset, of a record with versions, of a link that serves what it likes, or of a source that
\* may send its files in zips; two machines, whose unpacking of one archive differs
Posted(url, path, content, states) ==
    [url |-> url, path |-> path, bytes |-> content, states |-> states, named |-> FALSE, wraps |-> FALSE]
Named(item) == [item EXCEPT !.named = TRUE]
Wrapped(item) == [item EXCEPT !.wraps = TRUE]
Contents ==
       (<<"record", 1>> :> {Posted("u1", "a.zip", "A", {"md5", "size"}), Posted("u2", "b", "B", {})})
    @@ (<<"record", 2>> :> {Posted("u3", "a.zip", "A2", {"md5", "size"}), Posted("u2", "b", "B", {"md5"}),
                            Posted("doc", "doc", None, {})})
    @@ (<<"link", 1>> :> {Named(Posted("l", "b", "A", {}))})
    @@ (<<"link", 2>> :> {Named(Posted("l", "b", "A2", {}))})
    @@ (<<"kaggle", 1>> :> {Wrapped(Posted("k", "b", "Z", {"size"})), Posted("kz", "b.zip", "A", {"md5"})})
    @@ (<<"kaggle", 2>> :> {Wrapped(Posted("k", "b", "B", {"md5"})),
                            Posted("kz", "b.zip", "A", {"sha", "md5", "size"})})
ZipOf == ("b" :> "b.zip") @@ ("a.zip" :> "a.zip.zip") @@ ("b.zip" :> "b.zip.zip")
TreeOf == [x \in {r1, r2} \X {"A", "A2", "B", "Z"} |->
              CASE x[2] = "B" -> None [] x[2] = "A" -> x [] OTHER -> <<"same", x[2]>>]
Its == [b \in {"A", "A2", "B", "Z"} |-> b]
One == [b \in {"A", "A2", "B", "Z"} |-> 1]
Patterns == {{"u1", "u2", "u3", "l", "k", "kz"}, {"u1", "u3", "l", "k", "doc"}}

\* Of Get: u1 gets its name from the server
Sent(name, bytes) == [name |-> name, bytes |-> bytes]
Serving ==
    ("u1" :> {Sent("a.csv", "one"), Sent("a.csv", "two")}) @@ ("u2" :> {Sent("b.csv", "two")})
    @@ ("u3" :> {Sent("a.zip", "zip")})

\* A file alone, and a dataset whose title is a link to the folder the first file gets
Alone == [title |-> "t", files |-> <<"u1">>]
Titled == [title |-> "on", files |-> <<"u2", "u3">>]
Asking(links, chosen, sha, extract) ==
    [links |-> links, chosen |-> chosen, sha |-> sha, extract |-> extract]
Commands ==
    {Asking(<<Alone>>, "a", "one", TRUE)}
        \cup {Asking(<<Alone, Titled>>, None, None, extract) : extract \in BOOLEAN}

FolderNames == {"a", "A", "b", "on", "A-2", "b-2", "on-2"}
Names == FolderNames \cup {"a.csv", "b.csv", "a.zip"}
ListedNames == ("u1" :> "b.csv") @@ ("u2" :> "b.csv") @@ ("u3" :> "a.zip")
Stems == "a.zip" :> "a"
Unzipped == "zip" :> <<[path |-> <<"a.csv">>, bytes |-> "three"]>>
FoldersOf == ("a.csv" :> "A") @@ ("b.csv" :> "b") @@ ("a.zip" :> "A")
Seconds == ("A" :> <<"A", "A-2">>) @@ ("b" :> <<"b", "b-2">>) @@ ("on" :> <<"on", "on-2">>)
Lower == [n \in Names |-> CASE n = "A" -> "a" [] n = "A-2" -> "a-2" [] OTHER -> n]
LinkTo == [f \in FolderNames |-> IF f = "on" THEN "a" ELSE f]
Edited == {<<"a", <<"a.csv">>>>, <<"a", <<"b.csv">>>>}

\* What the theorems about Answers, Relock and Get assume
ASSUME PartsAssumption == A!AnswersAssumption /\ L!RelockAssumption /\ G!GetAssumption

NoAnswers ==
    /\ objects = None /\ stated = None /\ run = None /\ begun = None /\ served = None
    /\ urls = None /\ partial = None /\ owner = None /\ changes = None
Unlabelled == labelled = None /\ ever = None
NoFolders == disk = None /\ step = None /\ answered = None /\ touched = None
NoBatch == Init /\ open /\ part = [u \in Urls |-> None]

HereInit ==
    \/ component \in {"groups", "single downloads"} /\ Init /\ NoAnswers /\ Unlabelled /\ NoFolders
    \/ component = "answers" /\ A!Init /\ NoBatch /\ NoFolders
    \/ component = "relock" /\ L!Init /\ NoBatch /\ Unlabelled /\ NoFolders
    \/ /\ component = "get" /\ G!Init /\ NoBatch /\ Unlabelled
       /\ begun = None /\ partial = None /\ owner = None

HereNext ==
    /\ UNCHANGED component
    /\ \/ /\ \/ component = "groups" /\ Next
             \/ component = "single downloads" /\ Single!Next
          /\ UNCHANGED <<answers, folders>>
       \/ component = "answers" /\ A!Next /\ UNCHANGED <<vars, folders>>
       \/ component = "relock" /\ L!Next /\ UNCHANGED <<vars, labelled, ever, folders>>
       \/ component = "get" /\ G!Next /\ UNCHANGED <<vars, begun, partial, owner, labelled, ever>>

HereSpec == HereInit /\ [][HereNext]_hereVars

\* Inodes no earlier run used are interchangeable, and so are the runs of Answers and the
\* machines of Relock.
Interchangeable == Permutations({i3, i4}) \cup Permutations({r1, r2})

-----------------------------------------------------------------------------
\* Answers: a job that asks the server each time is given what the link serves now.
AskedAgain == component = "answers" => A!AskedAgain
=============================================================================
