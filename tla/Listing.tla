------------------------------- MODULE Listing -------------------------------
(***************************************************************************)
(* How a source is listed (source.rs, source/*.rs): a reference becomes a  *)
(* version where there are versions, and the files of it, or of what is    *)
(* there now, are read page by page or folder by folder, while people      *)
(* publish, add, remove and move files, and from servers whose pages may   *)
(* say anything and lead anywhere.                                         *)
(***************************************************************************)
EXTENDS Naturals, FiniteSets, Sequences, SequencesExt

CONSTANTS
    Sites,          \* kinds of sources
    Snapshots,      \* of a kind, and a version: the entries it holds for ever
    Holds,          \* what sources without versions may hold, of their kind, at first
    Entries,        \* and later: [id, parent, name, kind, bytes]
    Order,          \* ids, in the order of a listing
    Root,           \* the folder a listing is of
    One,            \* a file a reference may name alone
    MostFiles, MostPages,
    PageSize,       \* entries a server sends at once
    Embedded,       \* entries a figshare article may come with, without all the others
    Changes,        \* how often people change what is there
    None

VARIABLES
    kind,       \* of the source
    faithful,   \* whether its pages are what it holds
    newest,     \* its newest version
    live,       \* the entries it holds, where it has no versions
    walk,       \* the listing being made
    moves

vars == <<kind, faithful, newest, live, walk, moves>>

Buckets == {"s3", "gcs"}
Kaggles == {"kaggle", "competition"}
Trees == {"osf", "drive"}
Singles == {"dataverse", "osf", "drive"}
Versioned == {"hf", "figshare", "kaggle", "zenodo", "dataverse"}
Versions == DOMAIN Snapshots[kind]
Top == [id |-> Root, path |-> <<>>]

\* Listing, and a walk of it: how often it asked, and what was there meanwhile
Idle ==
    [step |-> "idle", wanted |-> None, only |-> None, version |-> None, moved |-> FALSE,
     folder |-> Top, queue |-> <<>>, page |-> 0, pages |-> 0, tokens |-> {}, seen |-> {},
     files |-> <<>>, unavailable |-> <<>>, asked |-> 0, been |-> {}, stayed |-> {}, lost |-> FALSE]

Init ==
    /\ kind \in Sites /\ faithful \in BOOLEAN
    /\ newest = 1 /\ live \in Holds[kind]
    /\ walk = Idle /\ moves = 0

Goes(w) == walk' = [w EXCEPT !.asked = @ + 1]
Fail == walk' = [walk EXCEPT !.step = "failed"]

-----------------------------------------------------------------------------
(***************************************************************************)
(* What is asked first                                                     *)
(***************************************************************************)
\* resolve_direct: a bucket and a drive folder are listed at once
Start(w) ==
    [w EXCEPT !.step = IF kind \in Buckets \/ (kind = "drive" /\ w.only = None)
                       THEN "pages" ELSE "first",
              !.seen = IF kind = "drive" THEN {Root} ELSE {}]
\* resolve: the reference may name a version, or one file; a DOI is asked where it leads before its
\* target is, and an open link of drive whether it is a folder
Resolve(wanted, only, way) ==
    /\ walk.step = "idle"
    /\ wanted = None \/ kind \in Versioned
    /\ only = None \/ kind \in Singles
    /\ way = "open" => kind = "drive"
    /\ LET w == [Idle EXCEPT !.wanted = wanted, !.only = only, !.been = live, !.stayed = live]
       IN  walk' = IF way = "direct" THEN Start(w) ELSE [w EXCEPT !.step = way]

\* Doi::locate
Locate == walk.step = "doi" /\ (Goes(Start(walk)) \/ Fail)
\* Item::opened
Opened == walk.step = "open" /\ (Goes(Start(walk)) \/ Fail)

\* An answer says which version it is of: the one asked for, or the newest there is.  One of another
\* version is refused, but for a zenodo record, whose id may stand for its newest
Answers ==
    IF ~faithful THEN Versions
    ELSE {v \in Versions : v <= newest /\ v = IF walk.wanted = None THEN newest ELSE walk.wanted}
Matches(version) == kind = "zenodo" \/ walk.wanted \in {None, version}

Place(e) == CHOOSE n \in DOMAIN Order : Order[n] = e.id
Sorted(entries) ==
    SetToSortSeq(entries, LAMBDA e, f : Place(e) < Place(f))

\* Remote, and Unavailable
Remote(e, at) ==
    [id |-> e.id, path |-> Append(at.path, e.name), kind |-> e.kind, bytes |-> e.bytes]
Kept(entries, kinds, at) ==
    LET some == SelectSeq(entries, LAMBDA e : e.kind \in kinds)
    IN  [n \in DOMAIN some |-> Remote(some[n], at)]
Takes(w, entries) ==
    [w EXCEPT !.files = @ \o Kept(entries, {"file"}, w.folder),
              !.unavailable = @ \o Kept(entries, {"doc"}, w.folder)]
Check(w) == [w EXCEPT !.step = "check"]

\* Record::resolve of zenodo
Zenodo(version) == Goes(Check(Takes([walk EXCEPT !.version = version], Sorted(Snapshots[kind][version]))))

\* Dataset::resolve of dataverse, of one file at a version of its dataset, or of all
Dataverse(version) ==
    LET entries == {e \in Snapshots[kind][version] : walk.only \in {None, e.id}} IN
    IF entries = {} THEN Fail
    ELSE Goes(Check(Takes([walk EXCEPT !.version = version], Sorted(entries))))

\* Article::resolve of figshare: an answer may come without all the files, which has pages then
Figshare(version) ==
    LET w == [walk EXCEPT !.version = version] IN
    Goes(IF Cardinality(Snapshots[kind][version]) < Embedded
         THEN Check(Takes(w, Sorted(Snapshots[kind][version]))) ELSE [w EXCEPT !.step = "pages"])

\* Repo::resolve, and revision, of hf: the commit, and whether the repository is gated
Commit(version) ==
    \E gated \in BOOLEAN :
        Goes([walk EXCEPT !.version = version, !.step = IF gated THEN "access" ELSE "pages"])
CheckAccess == walk.step = "access" /\ Goes([walk EXCEPT !.step = "pages"])

\* Dataset::resolve of kaggle: a version asked for is not looked at here
View(version) ==
    Goes([walk EXCEPT !.version = IF walk.wanted = None THEN version ELSE walk.wanted, !.step = "pages"])

Ask ==
    /\ walk.step = "first" /\ kind \in Versioned
    /\ \E version \in IF kind = "kaggle" THEN {newest} ELSE Answers :
         IF kind # "kaggle" /\ ~Matches(version) THEN Fail
         ELSE \/ kind = "zenodo" /\ Zenodo(version)
              \/ kind = "dataverse" /\ Dataverse(version)
              \/ kind = "figshare" /\ Figshare(version)
              \/ kind = "hf" /\ Commit(version)
              \/ kind = "kaggle" /\ View(version)

\* Competition::about
About == walk.step = "first" /\ kind = "competition" /\ Goes([walk EXCEPT !.step = "pages"])

\* Node::resolve of osf: a node, or the one file of an id
Node ==
    /\ walk.step = "first" /\ kind = "osf"
    /\ IF walk.only = None THEN Goes([walk EXCEPT !.step = "pages"])
       ELSE LET file == {e \in live : e.id = walk.only /\ e.kind = "file"}
            IN  IF file = {} THEN Fail ELSE Goes(Check(Takes(walk, Sorted(file))))

\* single, and Link::listing of dropbox and a file of drive: nothing is asked
Single ==
    /\ walk.step = "first" /\ (kind = "link" \/ kind = "drive")
    /\ walk' = Check(Takes(walk, Sorted({e \in live : walk.only \in {None, e.id}})))

-----------------------------------------------------------------------------
(***************************************************************************)
(* The pages                                                               *)
(***************************************************************************)
\* Where pages are numbered, a page depends on what is before it; a token of a bucket names the key
\* it goes on after.  Drive sends a folder whole.
Numbered == kind \in {"hf", "figshare", "osf"} \cup Kaggles
HeldNewest ==
    IF kind \in Versioned THEN Snapshots[kind][newest]
    ELSE {e \in live : kind \in Trees => e.parent = walk.folder.id}
Held ==
    IF kind \in Versioned THEN Snapshots[kind][walk.version]
    ELSE {e \in live : kind \in Trees => e.parent = walk.folder.id}

There ==
    /\ kind \in Versioned => walk.version <= newest
    /\ kind \in Trees => walk.folder.id \in {Root} \cup {e.id : e \in live}
HonestPage ==
    LET all == Sorted(Held)
        rest == IF Numbered THEN IF walk.page < Len(all) THEN SubSeq(all, walk.page + 1, Len(all)) ELSE <<>>
                ELSE SelectSeq(all, LAMBDA e : walk.page < Place(e))
        size == IF kind = "drive" THEN Len(all) ELSE PageSize
        sent == SubSeq(rest, 1, IF Len(rest) < size THEN Len(rest) ELSE size)
    IN  [entries |-> sent,
         next |-> IF Len(rest) <= size THEN None
                  ELSE IF Numbered THEN walk.page + size ELSE Place(sent[size])]
\* A server that is broken sends an entry or none, and the page again, another, or the last one
Pages ==
    IF faithful THEN IF There THEN {HonestPage} ELSE {}
    ELSE [entries : {<<>>} \cup {<<e>> : e \in Entries[kind]}, next : {None, walk.page, walk.page + 1}]

TooMany(w) == Len(w.files) > MostFiles

\* Prefix::files: the object of that key alone, or what is below the folder of that name.  A key that
\* ends in / marks a folder, and one that merely starts with the prefix belongs elsewhere
Below(keys) ==
    LET exact == SelectSeq(keys, LAMBDA f : f.kind = "exact")
    IN  IF exact # <<>> THEN <<Head(exact)>> ELSE SelectSeq(keys, LAMBDA f : f.kind = "file")
\* Pages::follow
Follows(next) == next \notin walk.tokens /\ Cardinality(walk.tokens) < MostPages
\* Prefix::resolve, list
BucketPage(page) ==
    LET keys == walk.files \o Kept(page.entries, {"file", "exact", "marker", "other"}, Top)
        w == [walk EXCEPT !.files = keys]
    IN  IF TooMany(w) THEN Fail
        ELSE IF page.next = None
        THEN IF Below(keys) = <<>> THEN Fail ELSE Goes(Check([walk EXCEPT !.files = Below(keys)]))
        ELSE IF ~Follows(page.next) THEN Fail
        ELSE Goes([w EXCEPT !.page = page.next, !.tokens = @ \cup {page.next}])
\* gcs::list
GcsPage(page) == kind = "gcs" /\ BucketPage(page)
\* s3::list: S3 may send a listing to the region of its bucket, once
S3Page(page) == kind = "s3" /\ BucketPage(page)
Move ==
    /\ walk.step = "pages" /\ kind = "s3"
    /\ Goes(IF walk.moved THEN [walk EXCEPT !.step = "failed"] ELSE [walk EXCEPT !.moved = TRUE])

\* Repo::tree
TreePage(page) ==
    LET w == Takes(walk, page.entries) IN
    IF TooMany(w) THEN Fail
    ELSE IF page.next = None THEN Goes(Check(w))
    ELSE IF walk.pages + 1 >= MostPages THEN Fail
    ELSE Goes([w EXCEPT !.page = page.next, !.pages = @ + 1])

\* An empty page with more to come: each page adds a file, so the limit of files bounds the pages
Stuck(page) == page.entries = <<>> /\ page.next # None

\* Dataset::files of kaggle
KagglePage(page) ==
    LET w == Takes(walk, page.entries) IN
    IF Stuck(page) \/ TooMany(w) \/ (page.next # None /\ page.next \in walk.tokens) THEN Fail
    ELSE IF page.next = None THEN Goes(Check(w))
    ELSE Goes([w EXCEPT !.page = page.next, !.tokens = @ \cup {page.next}])
\* Competition::files
CompetitionPage(page) == kind = "competition" /\ KagglePage(page)

Ids(entries) == {entries[n].id : n \in DOMAIN entries}

\* Article::files: a page that is not full is the last
FigsharePage(page) ==
    LET w == [Takes(walk, page.entries) EXCEPT !.seen = @ \cup Ids(page.entries)] IN
    IF Ids(page.entries) \cap walk.seen # {} \/ TooMany(w) THEN Fail
    ELSE IF Len(page.entries) < PageSize THEN Goes(Check(w))
    ELSE Goes([w EXCEPT !.page = @ + PageSize])

\* Walk::add: the folders of a page are queued
Folders(page) == Kept(page.entries, {"folder"}, walk.folder)
Added(page) == [Takes(walk, page.entries) EXCEPT !.queue = @ \o Folders(page)]
NextFolder(w) ==
    IF w.queue = <<>> THEN Check(w)
    ELSE [w EXCEPT !.folder = [id |-> Head(w.queue).id, path |-> Head(w.queue).path],
                   !.queue = Tail(@), !.page = 0]

\* osf: no id comes twice, and no page
OsfPage(page) ==
    LET here == <<walk.folder.id, walk.page>>
        w == [Added(page) EXCEPT !.seen = @ \cup Ids(page.entries), !.tokens = @ \cup {here}]
    IN  IF \/ here \in walk.tokens \/ Stuck(page)
           \/ Ids(page.entries) \cap walk.seen # {} \/ Cardinality(w.seen) > MostFiles
        THEN Fail
        ELSE Goes(IF page.next = None THEN NextFolder(w) ELSE [w EXCEPT !.page = page.next])

\* drive: a folder comes whole, and no folder comes twice
DrivePage(page) ==
    LET w == [Added(page) EXCEPT !.seen = @ \cup Ids(Folders(page))] IN
    IF \/ Ids(Folders(page)) \cap walk.seen # {} \/ Cardinality(w.seen) > MostFiles
       \/ Len(w.files) + Len(w.unavailable) > MostFiles
       \/ w.queue = <<>> /\ w.files = <<>> /\ w.unavailable = <<>>
    THEN Fail
    ELSE Goes(NextFolder(w))

Read ==
    /\ walk.step = "pages"
    /\ \E page \in Pages :
         \/ S3Page(page) \/ GcsPage(page) \/ CompetitionPage(page)
         \/ kind = "hf" /\ TreePage(page)
         \/ kind = "kaggle" /\ KagglePage(page)
         \/ kind = "figshare" /\ FigsharePage(page)
         \/ kind = "osf" /\ OsfPage(page)
         \/ kind = "drive" /\ DrivePage(page)

\* json: any request may fail, also for a version there is not, or a refusal
Refused == walk.step \in {"first", "access", "pages"} /\ kind # "link" /\ Fail
\* Competition::resolve: files are listed before its rules are accepted, which one of them tells
Rules == walk.step = "check" /\ kind = "competition" /\ Fail

\* check: not too many, and no path twice
Checked ==
    /\ walk.step = "check"
    /\ LET all == walk.files \o walk.unavailable IN
       IF /\ Len(all) <= MostFiles
          /\ \A m, n \in DOMAIN all : m # n => all[m].path # all[n].path
       THEN walk' = [walk EXCEPT !.step = "listed"] ELSE Fail

Works ==
    /\ \/ \E wanted \in {None} \cup Versions, only \in {None, One}, way \in {"direct", "doi", "open"} :
            Resolve(wanted, only, way)
       \/ Locate \/ Opened \/ Ask \/ CheckAccess \/ About \/ Node \/ Single
       \/ Move \/ Read \/ Refused \/ Rules \/ Checked
    /\ UNCHANGED <<kind, faithful, newest, live, moves>>

-----------------------------------------------------------------------------
Publish ==
    /\ moves < Changes /\ moves' = moves + 1
    /\ faithful /\ kind \in Versioned /\ newest + 1 \in Versions /\ newest' = newest + 1
    /\ UNCHANGED <<kind, faithful, live, walk>>

\* People remove an entry with all in it, add one, or move or replace one
Change ==
    /\ moves < Changes /\ moves' = moves + 1
    /\ faithful /\ kind \notin Versioned
    /\ \E e \in live \cup {f \in Entries[kind] : f.parent \in {Root} \cup {d.id : d \in live}} :
         LET gone == {f \in live : f.id = e.id \/ (e \in live /\ f.parent = e.id)}
         IN  /\ live' = (live \ gone) \cup ({e} \ live)
             /\ walk' = [walk EXCEPT !.been = @ \cup live', !.stayed = @ \cap live', !.lost = @ \/ gone # {}]
    /\ UNCHANGED <<kind, faithful, newest>>

Next ==
    \/ Works \/ Publish \/ Change
    \/ walk.step \in {"listed", "failed"} /\ UNCHANGED vars
Spec == Init /\ [][Next]_vars

-----------------------------------------------------------------------------
Listed == {[id |-> f.id, kind |-> f.kind, bytes |-> f.bytes] : f \in ToSet(walk.files \o walk.unavailable)}
Bare(entries) == {[id |-> e.id, kind |-> e.kind, bytes |-> e.bytes] : e \in entries}
Fetched(entries) == {e \in entries : e.kind \in {"file", "exact", "doc"}}

\* What is listed is one version, the one asked for if one was, also when its server errs, and all
\* of it, whatever is published meanwhile.  Of what has no versions, all that is listed was there, and
\* all that stayed is listed, though other files come, go and move: unless pages are numbered, and an
\* entry went.
ListsTheVersion ==
    walk.step = "listed" =>
        IF kind \in Versioned
        THEN /\ kind # "zenodo" => walk.wanted \in {None, walk.version}
             /\ walk.only = None /\ faithful => Listed = Bare(Snapshots[kind][walk.version])
        ELSE LET stays == {e \in Fetched(walk.stayed) :
                              e.parent = Root \/ \E d \in walk.stayed : d.id = e.parent}
                 exact == \E f \in Listed : f.kind = "exact"
             IN  faithful =>
                 /\ Listed \subseteq Bare(Fetched(walk.been))
                 /\ \/ walk.only # None
                    \/ Numbered /\ walk.lost
                    \/ exact /\ Cardinality(Listed) = 1
                    \/ ~exact /\ Bare(stays) \subseteq Listed

\* A listing ends after so many requests, whatever its server sends.
ListingsEnd == walk.asked <= MostPages + 2 * MostFiles + 2
=============================================================================
