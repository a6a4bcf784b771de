-------------------------------- MODULE Get ---------------------------------
(***************************************************************************)
(* `get`: the files of one link or several, put in folders of their own    *)
(* without a project (cli/get.rs, cli/get/folder.rs), while a person       *)
(* changes those folders, links change, other runs free bytes of the       *)
(* cache, and the run is stopped or killed at any step.                    *)
(*                                                                         *)
(* No record is kept of what a folder holds: a file in it may be replaced  *)
(* when the cache holds its bytes.  A place is a folder and a path in it,  *)
(* the sequence of its names.                                              *)
(***************************************************************************)
EXTENDS Naturals, FiniteSets, SequencesExt

CONSTANTS
    Requests,       \* command lines: links, -o (chosen), --sha256, whether archives unpack
    NameOf,         \* the name of each url in its listing
    Offers,         \* what each url may serve: bytes, under a name
    StemOf,         \* a name without its archive ending, for the names of archives
    Members,        \* what the bytes of each archive unpack to
    FolderOf,       \* the folder a file alone is put in
    Numbered,       \* a folder, then those tried when it is taken
    Folded,         \* how a disk that ignores case sees each name
    Leads,          \* the folder each folder leads to, when it is a link
    IgnoresCase,    \* whether this disk ignores case
    Reachable,      \* the places a person changes
    Mine,           \* what a person writes
    Most,           \* how many incidents there are: edits, releases, bytes freed
    None

VARIABLES
    disk,       \* the bytes of each place that has a file
    cache,      \* the bytes the cache holds
    unpacked,   \* the archives it has a record of
    record,     \* what it recorded of each url, if anything
    upstream,   \* what each url serves
    step, run,  \* where the run is, and what it knows
    answered,   \* what the last run put where, as far as nobody else changed that place
    touched,    \* the places a person changed since the run looked
    incidents

vars == <<disk, cache, unpacked, record, upstream, step, run, answered, touched, incidents>>
store == <<cache, unpacked, record>>
world == <<upstream, incidents>>
ghosts == <<answered, touched>>

Addresses == DOMAIN NameOf
L == INSTANCE Layout WITH Unknown <- None, Plain <- None, Inputs <- {}, given <- <<>>

-----------------------------------------------------------------------------
\* What is on the disk

Spot(folder) == IF IgnoresCase THEN Folded[Leads[folder]] ELSE Leads[folder]
Within(folder) == {p \in DOMAIN disk : p[1] = Spot(folder)}

\* No file has the place, or is where it needs a folder, or needs one there
Free(place) ==
    /\ place \notin DOMAIN disk
    /\ \A p \in DOMAIN disk :
          p[1] = place[1] => ~IsPrefix(p[2], place[2]) /\ ~IsPrefix(place[2], p[2])

\* check: nothing in the folder but what may be there
OthersIn(folder, paths) == \E p \in Within(folder) : \A q \in paths : Head(q) # Head(p[2])

-----------------------------------------------------------------------------
\* The files of a link

Archive(name) == name \in DOMAIN StemOf

\* holds_unpacked
HoldsUnpacked(z) == z \in unpacked /\ \A i \in DOMAIN Members[z] : Members[z][i].bytes \in cache

\* What a file puts in the folder: itself, or what it unpacks to
Lands(file, alone, unpacks) ==
    IF ~unpacks THEN <<[path |-> <<file.name>>, bytes |-> file.bytes]>>
    ELSE LET members == Members[file.bytes]
             paths == L!unpacked_paths(<<file.name>>, alone, [i \in DOMAIN members |-> members[i].path])
         IN  [i \in DOMAIN members |-> [path |-> paths[i], bytes |-> members[i].bytes]]

\* folder_for
FolderFor(request, link, names) ==
    IF request.chosen # None THEN request.chosen
    ELSE IF Len(names) = 1 THEN FolderOf[names[1]] ELSE link.title

\* foresee: the names the files will have, and where they land as far as the cache knows: it does
\* not know what an archive unpacks to that never did here.
Foreseen(url) == IF record[url] = None THEN NameOf[url] ELSE record[url].name
Unforeseen(request, url) ==
    /\ request.extract /\ Archive(Foreseen(url))
    /\ record[url] = None \/ record[url].bytes \notin unpacked
Foretold(request, link) ==
    LET alone == Len(link.files) = 1
        lands(url) == IF request.extract /\ Archive(Foreseen(url))
                      THEN Lands(record[url], alone, TRUE)
                      ELSE <<[path |-> <<Foreseen(url)>>, bytes |-> None]>>
    IN  UNION {{l.path : l \in Range(lands(u))} : u \in Range(link.files)}

\* prepare: what is refused before any byte arrives
Prepared(request, link) ==
    LET folder == FolderFor(request, link, [i \in DOMAIN link.files |-> Foreseen(link.files[i])])
    IN  /\ request.sha # None => Len(link.files) = 1
        /\ \/ \E u \in Range(link.files) : Unforeseen(request, u)
           \/ ~OthersIn(folder, Foretold(request, link))

-----------------------------------------------------------------------------
\* Folders of one run

\* Mutant: folders are compared by their names
KeyAsWritten(folder) == folder

\* Taken::key
Key(folder) == Folded[Leads[folder]]

\* Taken::claim
Taking(taken, folder) == taken \cup {Key(folder)}

\* unclaimed: but for a folder -o names, the first nobody took
Unclaimed(request, folder) ==
    LET free == {n \in DOMAIN Numbered[folder] : Key(Numbered[folder][n]) \notin run.taken}
    IN  IF request.chosen # None \/ free = {} THEN folder
        ELSE Numbered[folder][CHOOSE n \in free : \A m \in free : n <= m]

-----------------------------------------------------------------------------
Idle == [request |-> None]

Init ==
    /\ disk = <<>> /\ cache = {} /\ unpacked = {}
    /\ record = [u \in Addresses |-> None]
    /\ upstream \in {f \in [Addresses -> UNION {Offers[u] : u \in Addresses}] : \A u \in Addresses : f[u] \in Offers[u]}
    /\ step = "idle" /\ run = Idle
    /\ answered = {} /\ touched = {} /\ incidents = 0

Goes(label, knows) == step' = label /\ run' = knows

\* The links go on in order, whether the one before was done or failed
NextLink(left) == CHOOSE i \in left : \A j \in left : i <= j
GoesOn(r) ==
    LET left == run.left \ {NextLink(run.left)}
    IN  IF left = {} THEN Goes("idle", Idle) ELSE Goes("settle", [r EXCEPT !.left = left])

(***************************************************************************)
(* A run: its links are resolved, checked against the disk, and fetched    *)
(* together.  A link that fails leaves the run, the others go on.          *)
(***************************************************************************)
Begin ==
    /\ step = "idle"
    /\ \E request \in Requests : \E resolved \in SUBSET (DOMAIN request.links) :
         LET left == {i \in resolved : Prepared(request, request.links[i])}
         IN  /\ left # {}
             /\ Goes("fetch", [request |-> request, left |-> left, got |-> <<>>, taken |-> {},
                               folder |-> None, targets |-> <<>>, at |-> 1, found |-> None,
                               orders |-> {}, archives |-> {}, dropped |-> {}])
    /\ answered' = {} /\ touched' = {}
    /\ UNCHANGED <<disk, store, world>>

\* What stands for a url without a download: an archive may stand as what it unpacked to
Stands(file) ==
    \/ file.bytes \in cache
    \/ run.request.extract /\ Archive(file.name) /\ HoldsUnpacked(file.bytes)

\* apart, and all: each file fails, or is what its url serves now, or, as the source says it is
\* unchanged or nobody may be asked, what it was last time.
Fetch ==
    LET links == run.request.links
        wanted == UNION {Range(links[i].files) : i \in run.left}
        standing == {u \in wanted : record[u] \notin {None, upstream[u]} /\ Stands(record[u])}
    IN  /\ step = "fetch"
        /\ \E fresh \in SUBSET wanted : \E kept \in SUBSET (standing \ fresh) :
             LET came == fresh \cup kept
                 got == [u \in came |-> IF u \in fresh THEN upstream[u] ELSE record[u]]
                 left == {i \in run.left : Range(links[i].files) \subseteq came}
             IN  /\ cache' = cache \cup {got[u].bytes : u \in {v \in came : ~Stands(got[v])}}
                 /\ record' = [u \in Addresses |-> IF u \in came THEN got[u] ELSE record[u]]
                 /\ IF left = {} THEN Goes("idle", Idle)
                    ELSE Goes("settle", [run EXCEPT !.left = left, !.got = got])
        /\ UNCHANGED <<disk, unpacked, world, ghosts>>

(***************************************************************************)
(* One link: what arrived is checked and unpacked, and then put in place.  *)
(***************************************************************************)
Link == run.request.links[NextLink(run.left)]
File(i) == run.got[Link.files[i]]
Arrived == FolderFor(run.request, Link, [i \in DOMAIN Link.files |-> File(i).name])
Folder == Unclaimed(run.request, Arrived)

\* vouch
Mismatch == run.request.sha # None /\ File(1).bytes # run.request.sha
Refused == Mismatch \/ Key(Folder) \in run.taken
Refuse ==
    /\ step = "settle" /\ Refused
    /\ GoesOn(run)
    /\ UNCHANGED <<disk, store, world, ghosts>>

\* finish, up to the folder: unpack, planned and check
Unpacks(file) == run.request.extract /\ Archive(file.name) /\ file.bytes \in DOMAIN Members
Settle ==
    LET folder == Folder
        taken == [run EXCEPT !.taken = Taking(run.taken, folder)]
        files == {File(i) : i \in DOMAIN Link.files}
        trees == {f.bytes : f \in {g \in files : Unpacks(g)}}
        new == {z \in trees : ~HoldsUnpacked(z)}
        targets == FlattenSeq([i \in DOMAIN Link.files |->
                                  Lands(File(i), Len(Link.files) = 1, Unpacks(File(i)))])
        paths == [i \in DOMAIN targets |-> targets[i].path]
    IN  /\ step = "settle" /\ ~Refused
        /\ \/ /\ new # {}
              /\ GoesOn(taken)
              /\ UNCHANGED store
           \/ /\ new \subseteq cache
              /\ cache' = cache \cup UNION {{m.bytes : m \in Range(Members[z])} : z \in new}
              /\ unpacked' = unpacked \cup new
              /\ IF L!check(paths) /\ ~OthersIn(folder, Range(paths))
                 THEN Goes(IF targets = <<>> THEN "put" ELSE "clear",
                           [taken EXCEPT !.folder = folder, !.targets = targets, !.archives = trees,
                                         !.at = 1, !.orders = {}])
                 ELSE GoesOn(taken)
              /\ UNCHANGED record
        /\ UNCHANGED <<disk, world, ghosts>>

Target == run.targets[run.at]
PlaceOf(target) == <<Spot(run.folder), target.path>>
Place == PlaceOf(Target)

\* Mutant: whatever is in the way may go
ReplaceableAny(place) == place \in DOMAIN disk

\* replaceable: only when the cache holds its bytes
Replaceable(place) == place \in DOMAIN disk /\ disk[place] \in cache

\* The next target is looked at, or all are known and the orders are placed
Cleared(orders) ==
    IF run.at = Len(run.targets) THEN Goes("put", [run EXCEPT !.orders = orders])
    ELSE Goes("clear", [run EXCEPT !.orders = orders, !.at = @ + 1])
Ordered(found) == IF found THEN Cleared(run.orders \cup {Target}) ELSE GoesOn(run)

\* clear, until it removes anything: a place is free, has these bytes already, has others the
\* cache holds, or the link fails.
Clear ==
    LET found == Target.bytes \in cache
    IN  /\ step = "clear"
        /\ IF Place \in DOMAIN disk /\ disk[Place] = Target.bytes THEN Cleared(run.orders)
           ELSE IF Replaceable(Place) THEN Goes("remove", [run EXCEPT !.found = found])
           ELSE IF \E p \in DOMAIN disk : p[1] = Place[1] /\ IsPrefix(Place[2], p[2]) THEN GoesOn(run)
           ELSE Ordered(found)
        /\ touched' = touched \ {Place}
        /\ UNCHANGED <<disk, store, world, answered>>

\* The earlier version goes before it is asked whether the new one was found
TakeAway ==
    /\ step = "remove"
    /\ disk' = [p \in DOMAIN disk \ {Place} |-> disk[p]]
    /\ IF Place \in DOMAIN disk THEN Ordered(run.found) ELSE GoesOn(run)
    /\ UNCHANGED <<store, world, ghosts>>

\* place_all takes no name that exists.  When all are placed the packed bytes of what was unpacked
\* may go, except those a project needs (drop_archives), and the link is done.
Put ==
    /\ step = "put"
    /\ \E placed \in SUBSET run.orders :
         /\ \A t \in placed : Free(PlaceOf(t)) /\ t.bytes \in cache
         /\ disk' = [p \in DOMAIN disk \cup {PlaceOf(t) : t \in placed} |->
                        IF p \in DOMAIN disk THEN disk[p]
                        ELSE (CHOOSE t \in placed : PlaceOf(t) = p).bytes]
         /\ IF placed = run.orders
            THEN /\ answered' = answered \cup
                        {<<PlaceOf(t), t.bytes>> : t \in {u \in Range(run.targets) : PlaceOf(u) \notin touched}}
                 /\ \E drop \in SUBSET run.archives : cache' = cache \ drop
            ELSE UNCHANGED <<answered, cache>>
         /\ GoesOn(run)
    /\ UNCHANGED <<unpacked, record, world, touched>>

\* A refused question about the size, an interruption, a kill
Stop ==
    /\ step # "idle"
    /\ Goes("idle", Idle)
    /\ UNCHANGED <<disk, store, world, ghosts>>

-----------------------------------------------------------------------------
\* Everything else

Happens == incidents < Most /\ incidents' = incidents + 1

\* A person writes a file, takes one of the cache's, or deletes one
Edit(place) ==
    /\ Happens
    /\ \/ /\ place \in DOMAIN disk
          /\ disk' = [p \in DOMAIN disk \ {place} |-> disk[p]]
       \/ /\ place \in DOMAIN disk \/ Free(place)
          /\ disk' = [p \in DOMAIN disk \cup {place} |-> IF p = place THEN Mine ELSE disk[p]]
    /\ touched' = touched \cup {place}
    /\ answered' = {a \in answered : a[1] # place}
    /\ UNCHANGED <<store, upstream, step, run>>

\* Nothing but Fetch asks what a url serves
Release(u) ==
    /\ step = "idle"
    /\ upstream' \in {[upstream EXCEPT ![u] = s] : s \in Offers[u] \ {upstream[u]}}
    /\ UNCHANGED <<disk, store, step, run, ghosts, incidents>>

\* gc waits for every run
GcFrees(b) ==
    /\ step = "idle" /\ Happens
    /\ cache' = cache \ {b}
    /\ unpacked' \in {unpacked, unpacked \ {b}}
    /\ UNCHANGED <<disk, record, upstream, step, run, ghosts>>

\* Another run is done with an archive that is unpacked
DroppedElsewhere(z) ==
    /\ step # "idle" /\ Happens
    /\ z \in cache /\ HoldsUnpacked(z)
    /\ cache' = cache \ {z}
    /\ run' = [run EXCEPT !.dropped = @ \cup {z}]
    /\ UNCHANGED <<disk, unpacked, record, upstream, step, ghosts>>

Next ==
    \/ Begin \/ Fetch \/ Refuse \/ Settle \/ Clear \/ TakeAway \/ Put \/ Stop
    \/ \E place \in Reachable : Edit(place)
    \/ \E u \in Addresses : Release(u)
    \/ \E b \in cache : GcFrees(b)
    \/ \E z \in unpacked : DroppedElsewhere(z)

Spec == Init /\ [][Next]_vars

-----------------------------------------------------------------------------
\* "only when the cache holds its bytes, so nothing is ever lost" (folder.rs): no run takes a file
\* away whose bytes are not in the cache after that, however many runs, links and failures came
\* before.  Except where a person changed the file since it was looked at, which no look prevents,
\* and for the packed bytes another run dropped from the cache meanwhile.
NothingLost ==
    \A p \in DOMAIN disk :
        p \notin DOMAIN disk' \/ disk'[p] # disk[p] =>
            \/ p \in touched'
            \/ disk[p] \in cache'
            \/ step # "idle" /\ disk[p] \in run.dropped

\* "so no link's files replace another's" (docs/user/commands/get.md): the files a run says it put
\* somewhere are there with their bytes until the run is over and after that, whatever the later
\* links of the run are called, also on a disk that ignores case and through links of folders.
DoneStays == \A a \in answered : a[1] \in DOMAIN disk /\ disk[a[1]] = a[2]

-----------------------------------------------------------------------------
(***************************************************************************)
(* Why nothing is lost, and what was put somewhere stays.                  *)
(***************************************************************************)
MemberSet == UNION {Range(Members[z]) : z \in DOMAIN Members}

\* The links of a request, the files of a link, and the members of an archive are lists.
GetAssumption ==
    /\ \A request \in Requests :
          /\ DOMAIN request.links \subseteq Nat
          /\ \A i \in DOMAIN request.links : request.links[i].files \in Seq(Addresses)
    /\ \A z \in DOMAIN Members : Members[z] \in Seq(MemberSet)

Fields == {"request", "left", "got", "taken", "folder", "targets", "at", "found", "orders",
           "archives", "dropped"}
Filling == {"clear", "remove", "put"}

\* The folder a place is in, as Taken compares it
SpotKey(spot) == IF IgnoresCase THEN spot ELSE Folded[spot]

RunInv ==
    /\ step \in {"idle", "fetch", "settle"} \cup Filling
    /\ step # "idle" => /\ DOMAIN run = Fields /\ run.request \in Requests
                        /\ run.left # {} /\ run.left \subseteq DOMAIN run.request.links

\* The paths of the targets are a list without repetition.
TargetsInv ==
    step \in Filling =>
        /\ Len(run.targets) \in Nat /\ DOMAIN run.targets = 1 .. Len(run.targets)
        /\ \A i, j \in DOMAIN run.targets : run.targets[i].path = run.targets[j].path => i = j
        /\ run.orders \subseteq {run.targets[i] : i \in DOMAIN run.targets}
        /\ step # "put" => run.at \in DOMAIN run.targets

\* What is in the way of a target may go.
RemovableInv ==
    step = "remove" =>
        Place \in touched \/ Place \notin DOMAIN disk \/ disk[Place] \in cache \cup run.dropped

\* Every target looked at is there, or is to be placed.
Present(target) ==
    \/ PlaceOf(target) \in touched
    \/ PlaceOf(target) \in DOMAIN disk /\ disk[PlaceOf(target)] = target.bytes
LookedAt == IF step = "put" THEN DOMAIN run.targets ELSE 1 .. run.at - 1
HandledInv ==
    step \in Filling =>
        \A i \in LookedAt : run.targets[i] \in run.orders \/ Present(run.targets[i])

\* What earlier links put somewhere is in folders they took, and not in the one being filled.
TakenInv ==
    /\ step # "idle" => \A a \in answered : SpotKey(a[1][1]) \in run.taken
    /\ step \in Filling =>
          /\ Key(run.folder) \in run.taken
          /\ \A a \in answered : SpotKey(a[1][1]) # Key(run.folder)

IInv == RunInv /\ TargetsInv /\ RemovableInv /\ HandledInv /\ TakenInv /\ DoneStays
=============================================================================
