------------------------------- MODULE Relock --------------------------------
(***************************************************************************)
(* How an entry of data.lock is made (cli/sync.rs, cli/sync/draft.rs):     *)
(* resolved at the version it had or the newest, each file with what its   *)
(* source states of it, what data.lock pinned, what this machine's cache   *)
(* remembers, or its bytes.  The lock goes from machine to machine, each   *)
(* with a cache of its own; one run works at a time (ProjectHold).         *)
(***************************************************************************)
EXTENDS Naturals, FiniteSets

CONSTANTS
    Machines,
    Versioned, Raw,     \* references that pin a version, and links that serve what they like
    Content,            \* of <<reference, version>>: [url, path, bytes, states, named, wraps]
    Given,              \* the name a server gives a file whose link has none
    Zipped,             \* of a path: the path of a zip of it
    Zips,               \* bytes that are a zip of one file, as some sources send them
    Archives,           \* paths named like an archive
    Tree,               \* of <<machine, bytes>>: what its fetchloom unpacks them to, or None
    Md5, Size,          \* of bytes
    Selects,            \* sets of urls the patterns of data.toml may keep
    Changes, Runs,      \* how often sources, data.toml or caches change, and runs begin
    None

VARIABLES
    version,    \* the newest version of each reference
    entry,      \* data.toml's: [ref, select, extract]
    lock,       \* data.lock's, or None
    objects, stated, trees,     \* of each machine's cache: bytes, links' bytes by MD5, unpacked bytes
    run,        \* the run at work, or None
    moves, begun

Refs == Versioned \cup Raw
cache == <<objects, stated, trees>>
vars == <<version, entry, lock, cache, run, moves, begun>>

Newest(ref) == <<ref, IF ref \in Versioned THEN version[ref] ELSE 0>>
Listed(place) == Content[<<place[1], IF place[1] \in Raw THEN version[place[1]] ELSE place[2]>>]
\* A version's links stay as they are, and a raw link serves what it has now
Serves(url) ==
    {i.bytes : i \in {j \in UNION {Listed(place) : place \in Refs \X (1..2)} : j.url = url}}

\* Remote: what a source states of a file.  What it may wrap has another size as it is sent.
Remote(item) ==
    [url |-> item.url, path |-> item.path, named |-> item.named, wraps |-> item.wraps,
     sha |-> IF "sha" \in item.states THEN item.bytes ELSE None,
     md5 |-> IF "md5" \in item.states THEN Md5[item.bytes] ELSE None,
     size |-> IF "size" \in item.states THEN Size[item.bytes] ELSE None]
Pinned(remote) == remote.sha # None \/ remote.md5 # None

\* Entry: what a dataset of data.toml is read as
Entries(extracts) == [ref : Refs, select : Selects, extract : extracts]

\* spec: everything in an entry that decides what is downloaded
SpecOf(e) == e

Init ==
    /\ version = [r \in Refs |-> 1]
    /\ entry \in Entries({TRUE})    \* extract = true is the default
    /\ lock = None
    /\ objects = [m \in Machines |-> {}] /\ stated = [m \in Machines |-> {}]
    /\ trees = [m \in Machines |-> {}]
    /\ run = None /\ moves = 0 /\ begun = 0

-----------------------------------------------------------------------------
(***************************************************************************)
(* Draft::new                                                              *)
(***************************************************************************)
Fits(size, bytes) == size \in {None, Size[bytes]}

\* MUTANT of Carried: an unknown MD5 vouches for a stated one.
CarriedUnknown(remote, previous) ==
    IF previous = None THEN {}
    ELSE {f \in previous.files : f.url = remote.url /\ (f.md5 = None \/ remote.md5 \in {None, f.md5})}

\* carried: the file data.lock pins for this one already
Carried(remote, previous) ==
    IF previous = None THEN {}
    ELSE {f \in previous.files :
            LET wrapped == remote.wraps /\ f.path = Zipped[remote.path] IN
            /\ f.url = remote.url
            /\ remote.named \/ f.path = remote.path \/ wrapped
            /\ wrapped \/ Fits(remote.size, f.sha)
            /\ remote.sha \in {None, f.sha}
            /\ \/ remote.md5 \in {None, f.md5}
               \/ f.md5 = None /\ remote.sha # None}

\* An upgrade carries nothing over for a file no checksum pins: only asking tells whether it changed
Taken(remote, previous, upgrade) ==
    IF Pinned(remote) \/ ~upgrade THEN Carried(remote, previous) ELSE {}

Unpacks(path, e) == e.extract /\ path \in Archives

\* What is known of a file without a download
Drafted(remote, m, e, previous, upgrade) ==
    LET earlier == Taken(remote, previous, upgrade)
        remembered == {s.bytes : s \in {t \in stated[m] : t.url = remote.url /\ t.md5 = remote.md5}}
        known == IF remote.sha # None /\ remote.size # None THEN remote.sha
                 ELSE IF earlier # {} THEN (CHOOSE f \in earlier : TRUE).sha
                 ELSE IF \E b \in remembered : Fits(remote.size, b)
                 THEN CHOOSE b \in remembered : Fits(remote.size, b) ELSE None
        path == IF earlier # {} THEN (CHOOSE f \in earlier : TRUE).path ELSE remote.path
        pin == CHOOSE f \in earlier : TRUE
        tree == IF earlier = {} \/ ~Unpacks(path, e) \/ known # pin.sha THEN None
                ELSE IF upgrade /\ known \in trees[m] THEN Tree[<<m, known>>] ELSE pin.tree
    IN  [remote |-> remote, path |-> path, sha |-> known, tree |-> tree]

(***************************************************************************)
(* Loop::relock, for an entry data.lock does not have or that changed, or  *)
(* for an upgrade                                                          *)
(***************************************************************************)
Kept(upgrade) == lock # None /\ lock.spec = SpecOf(entry) /\ ~upgrade

\* pinned: a changed filter resolves the version already locked
Place(upgrade) ==
    IF lock # None /\ ~upgrade /\ lock.ref = entry.ref THEN lock.resolved ELSE Newest(entry.ref)

\* filter, and unavailable_selection: an entry its source lists but does not serve stops the relock,
\* and so do patterns that leave no file
Chosen(place) == {i \in Listed(place) : i.url \in entry.select}
Available(chosen) == chosen # {} /\ \A i \in chosen : i.bytes # None

Begin(m, upgrade) ==
    /\ run = None /\ begun < Runs /\ begun' = begun + 1
    /\ ~Kept(upgrade)
    /\ LET place == Place(upgrade)
           remotes == {Remote(i) : i \in Chosen(place)}
       IN  /\ Available(Chosen(place))
           /\ run' = [machine |-> m, upgrade |-> upgrade, entry |-> entry, previous |-> lock,
                      resolved |-> place,
                      files |-> {Drafted(r, m, entry, lock, upgrade) : r \in remotes},
                      window |-> [r \in {x.url : x \in remotes} |-> Serves(r)]]
    /\ UNCHANGED <<version, entry, lock, cache, moves>>

\* jobs: a file whose hash is unknown, and an archive that must be unpacked to know its tree
Learns(f) == f.sha = None
Wants(f) ==
    /\ Unpacks(f.path, run.entry) /\ f.tree = None
    /\ f.sha \notin trees[run.machine] \cup objects[run.machine]

Becomes(f, g) == run' = [run EXCEPT !.files = (@ \ {f}) \cup {g}]
Holds(m, bytes) == objects' = [objects EXCEPT ![m] = @ \cup {bytes}]

\* What its link serves is verified against what was stated or pinned (Answers), and what a link
\* served under an MD5 is remembered.  learn: the name the server gives, and the zip it wrapped
Download(f) ==
    /\ Learns(f) \/ Wants(f)
    /\ \E b \in Serves(f.remote.url) \ {None} :
         /\ IF Learns(f)
            THEN /\ f.remote.sha \in {None, b} /\ f.remote.md5 \in {None, Md5[b]}
                 /\ f.remote.wraps \/ Fits(f.remote.size, b)
                 /\ LET path == IF f.remote.named THEN Given ELSE f.path
                    IN  Becomes(f, [f EXCEPT !.sha = b,
                            !.path = IF f.remote.wraps /\ path \notin Archives /\ b \in Zips
                                     THEN Zipped[path] ELSE path])
            ELSE b = f.sha /\ UNCHANGED run
         /\ Holds(run.machine, b)
         /\ stated' = IF Learns(f) /\ f.remote.sha = None /\ f.remote.md5 # None
                      THEN [stated EXCEPT ![run.machine] =
                              @ \cup {[url |-> f.remote.url, md5 |-> f.remote.md5, bytes |-> b]}]
                      ELSE stated
    /\ UNCHANGED <<version, entry, lock, trees, moves, begun>>

\* unpack_drafts, after every download: what this machine unpacked before is known from its record,
\* and bytes that are no archive stay as they are
Downloaded == \A f \in run.files : ~Learns(f) /\ ~Wants(f)
Undone(f) == Unpacks(f.path, run.entry) /\ f.tree = None /\ Tree[<<run.machine, f.sha>>] # None
Unpack(f) ==
    /\ Downloaded /\ Undone(f)
    /\ Becomes(f, [f EXCEPT !.tree = Tree[<<run.machine, f.sha>>]])
    /\ trees' = [trees EXCEPT ![run.machine] = @ \cup {f.sha}]
    /\ UNCHANGED <<version, entry, lock, objects, stated, moves, begun>>

\* finish
Locked ==
    [ref |-> run.entry.ref, spec |-> SpecOf(run.entry), resolved |-> run.resolved, since |-> begun,
     files |-> {[path |-> f.path, sha |-> f.sha, md5 |-> f.remote.md5, url |-> f.remote.url,
                 tree |-> f.tree] : f \in run.files}]

\* settled: a pin dates from when its data last changed
Settled(new) ==
    IF lock # None /\ lock.resolved = new.resolved /\ lock.files = new.files
    THEN [new EXCEPT !.since = lock.since] ELSE new

TwoOnOnePath == \E f, g \in run.files : f # g /\ f.path = g.path

Write ==
    /\ Downloaded /\ ~\E f \in run.files : Undone(f)
    /\ ~TwoOnOnePath
    /\ lock' = Settled(Locked) /\ run' = None
    /\ UNCHANGED <<version, entry, cache, moves, begun>>

\* Any step may fail, also for a refusal of finish, or bytes no link serves any more
Fail ==
    /\ run' = None
    /\ UNCHANGED <<version, entry, lock, cache, moves, begun>>

-----------------------------------------------------------------------------
\* A source publishes a version, or a raw link serves another
Publish(ref) ==
    /\ moves < Changes /\ moves' = moves + 1
    /\ version[ref] = 1 /\ version' = [version EXCEPT ![ref] = 2]
    /\ run' = IF run = None THEN None
              ELSE [run EXCEPT !.window = [u \in DOMAIN @ |-> @[u] \cup
                      {i.bytes : i \in {j \in Content[<<ref, 2>>] : j.url = u}}]]
    /\ UNCHANGED <<entry, lock, cache, begun>>

\* The person edits data.toml
Edit ==
    /\ moves < Changes /\ moves' = moves + 1
    /\ \E e \in Entries(BOOLEAN) :
         e # entry /\ entry' = e
    /\ UNCHANGED <<version, lock, cache, run, begun>>

\* gc, or a cache that is lost
Clear(m) ==
    /\ run = None /\ moves < Changes /\ moves' = moves + 1
    /\ objects[m] # {} \/ trees[m] # {}
    /\ objects' = [objects EXCEPT ![m] = {}] /\ trees' = [trees EXCEPT ![m] = {}]
    /\ UNCHANGED <<version, entry, lock, stated, run, begun>>

Next ==
    \/ \E m \in Machines : (\E upgrade \in BOOLEAN : Begin(m, upgrade)) \/ Clear(m)
    \/ run # None /\ \/ \E f \in run.files : Download(f) \/ Unpack(f)
                     \/ Write \/ Fail
    \/ Edit \/ \E ref \in Refs : Publish(ref)
    \/ run = None /\ moves = Changes /\ UNCHANGED vars

Spec == Init /\ [][Next]_vars

-----------------------------------------------------------------------------
\* What the source says of a file leaves its pin in place
Agrees(remote, f) ==
    LET wrapped == remote.wraps /\ f.path = Zipped[remote.path] IN
    /\ remote.named \/ f.path = remote.path \/ wrapped
    /\ remote.sha \in {None, f.sha} /\ remote.md5 \in {None, Md5[f.sha]}
    /\ wrapped \/ Fits(remote.size, f.sha)
\* An MD5 that was never stated before, and alone, makes the file be downloaded and unpacked again
FirstMd5(remote, f) == remote.md5 # None /\ f.md5 = None /\ remote.sha = None

\* "a changed filter resolves the version already locked, so tidying data.toml never moves data": a
\* file that data.lock pins, by a checksum or by none, keeps its bytes and, while it unpacks, its
\* tree, whatever machine relocks it, unless the source states other bytes, or for the tree its
\* first MD5.  "an upgrade carries nothing over for a file no checksum pins": it is what its link
\* served meanwhile.
PinsStay ==
    lock' # lock =>
        \A g \in lock'.files, d \in run.files : d.remote.url = g.url =>
            /\ run.upgrade /\ ~Pinned(d.remote) => g.sha \in run.window[g.url]
            /\ ~run.upgrade /\ lock # None /\ lock.ref = lock'.ref =>
                /\ lock'.resolved = lock.resolved
                /\ \A f \in lock.files : f.url = g.url /\ Agrees(d.remote, f) =>
                     /\ g.sha = f.sha
                     /\ f.path = g.path /\ f.tree # None /\ g.tree # None /\ ~FirstMd5(d.remote, f)
                          => f.tree = g.tree

\* Every pin can be placed: its bytes have the MD5 and the name recorded with it, no path is pinned
\* twice, and every archive, and nothing else, has a tree that its bytes unpack to.
LockIsTrue ==
    lock # None =>
        /\ \A f, g \in lock.files : f.path = g.path => f = g
        /\ \A f \in lock.files :
             LET made == {Tree[<<m, f.sha>>] : m \in Machines} \ {None} IN
             /\ f.md5 \in {None, Md5[f.sha]}
             /\ f.tree \in made \cup {None}
             /\ f.tree # None <=> Unpacks(f.path, lock.spec) /\ made # {}

-----------------------------------------------------------------------------
(***************************************************************************)
(* Why pins stay true.                                                     *)
(***************************************************************************)
Items == UNION {Content[place] : place \in Refs \X (1 .. 2)}
Bytes == {i.bytes : i \in Items} \ {None}

\* A listing names each link once, no MD5 is that of two files, and what is no archive on one
\* machine is none on another.
RelockAssumption ==
    /\ Versioned \cap Raw = {}
    /\ \A i \in Items : i.named \in BOOLEAN /\ i.wraps \in BOOLEAN
    /\ \A place \in Refs \X (1 .. 2) : \A i, j \in Content[place] : i.url = j.url => i = j
    /\ \A b, c \in Bytes : Md5[b] # None /\ (Md5[b] = Md5[c] => b = c)
    /\ \A m, n \in Machines, b \in Bytes : Tree[<<m, b>>] = None => Tree[<<n, b>>] = None

\* What a reference resolves to: a version, or what a raw link serves now.
Places == {<<ref, v>> : ref \in Versioned, v \in 1 .. 2} \cup {<<ref, 0>> : ref \in Raw}

\* A pin, and a file on its way to one, are of bytes that are what their source stated.
TruePin(f) == f.sha \in Bytes /\ f.md5 \in {None, Md5[f.sha]}
TrueDraft(f) ==
    /\ DOMAIN f = {"remote", "path", "sha", "tree"}
    /\ \E i \in Items : i.bytes # None /\ f.remote = Remote(i)
    /\ f.sha # None => /\ f.sha \in Bytes /\ f.remote.sha \in {None, f.sha}
                       /\ f.remote.md5 \in {None, Md5[f.sha]}
    /\ f.tree # None => /\ f.sha # None /\ Unpacks(f.path, run.entry)
                        /\ f.tree \in {Tree[<<m, f.sha>>] : m \in Machines}

\* A carried pin keeps its bytes and path, and its tree while it unpacks.
Carries(f, g) ==
    g \in Carried(f.remote, lock) =>
        /\ f.sha = g.sha /\ f.path = g.path
        /\ g.tree # None => f.tree = g.tree \/ (f.tree = None /\ ~Unpacks(f.path, run.entry))

LockInv ==
    lock # None =>
        /\ lock.resolved \in Places
        /\ \A f \in lock.files : TruePin(f)
        /\ \A f, g \in lock.files : f.url = g.url => f = g

RememberedInv ==
    /\ DOMAIN stated = Machines
    /\ \A m \in Machines : \A s \in stated[m] : s.bytes \in Bytes /\ s.md5 = Md5[s.bytes]

\* While a run works: a link served nothing that its window misses, and an upgrade of what no
\* checksum pins has it from there.
RunInv ==
    run # None =>
        /\ DOMAIN run = {"machine", "upgrade", "entry", "previous", "resolved", "files", "window"}
        /\ run.machine \in Machines /\ run.upgrade \in BOOLEAN /\ run.resolved \in Places
        /\ \A f \in run.files : TrueDraft(f) /\ f.remote.url \in DOMAIN run.window
        /\ \A f, g \in run.files : f.remote.url = g.remote.url => f = g
        /\ \A u \in DOMAIN run.window : Serves(u) \subseteq run.window[u]
        /\ run.upgrade =>
             \A f \in run.files :
                 ~Pinned(f.remote) /\ f.sha # None => f.sha \in run.window[f.remote.url]
        /\ ~run.upgrade /\ lock # None =>
             /\ lock.ref = run.entry.ref => run.resolved = lock.resolved
             /\ \A f \in run.files, g \in lock.files : Carries(f, g)

IInv ==
    /\ version \in [Refs -> 1 .. 2] /\ entry.ref \in Refs
    /\ LockIsTrue /\ LockInv /\ RememberedInv /\ RunInv
=============================================================================
