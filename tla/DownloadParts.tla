--------------------------- MODULE DownloadParts ----------------------------
(***************************************************************************)
(* What downloads are given, what is locked of them and what `get` does    *)
(* with them, beside what a batch of them does: the part of a download     *)
(* that reads the cache and asks its server, how a lock is made, and the   *)
(* files of links in folders of their own, whose promises are proved.  A   *)
(* behaviour is one of a part, over the variables it uses here.            *)
(***************************************************************************)
EXTENDS Deferred

\* As in Answers
CONSTANTS
    Runs, Links, First, Serve, Versions, Md5, Size, Mixed, Jobs, Changes, Downloads, Diversions,
    Attempts
\* As in Relock
CONSTANTS
    Machines, Versioned, Raw, Content, Given, Zipped, Zips, Archives, Tree, ContentMd5, ContentSize,
    Selects, Moves, Relocks
\* As in Get
CONSTANTS
    Requests, NameOf, Offers, StemOf, Members, FolderOf, Numbered, Folded, Leads, IgnoresCase,
    Reachable, Mine, MostIncidents

VARIABLES
    component,
    objects, stated, run, begun, served, urls, partial, owner, changes, labelled, ever,
    disk, step, answered, touched

A == INSTANCE Answers

L == INSTANCE Relock WITH
        Md5 <- ContentMd5, Size <- ContentSize, Changes <- Moves, Runs <- Relocks,
        version <- served, entry <- urls, lock <- partial, trees <- owner, moves <- changes

G == INSTANCE Get WITH
        Most <- MostIncidents,
        cache <- objects, unpacked <- stated, record <- urls, upstream <- served,
        incidents <- changes

\* Which part a behaviour is one of does not change.
IsOf(name) == component = name /\ [][UNCHANGED component]_component

-----------------------------------------------------------------------------
\* Answers: a download is given what it pins, or what its link serves, never a mix of versions.
RightBytes == component = "answers" => A!RightBytes

\* Relock: tidying data.toml never moves data, an upgrade asks for what no checksum pins, and every
\* pin can be placed and has the tree its bytes unpack to.
relocking == L!vars
PinsStayTrue == [][component = "relock" => L!PinsStay /\ L!LockIsTrue']_relocking

\* Get: a run takes no file away whose bytes the cache does not hold.
getting == G!vars
NothingLost == [][component = "get" => G!NothingLost]_getting

\* Get: what a run says it put somewhere stays there, whatever its later links put where.
DoneStays == component = "get" => G!DoneStays
=============================================================================
