# A verification of fetchloom

TLA+ models of fetchloom, the TLC runs that check them and the theorems TLAPS proves about
them. fetchloom fetches datasets by link, keeps their bytes in a cache by SHA-256, pins them in
a lock file and places them in a project's folder. What can go wrong in it without a test
noticing is concurrent and persistent: downloads that share claims and flushes, runs that share
a cache, commands that share a project across operating systems, and power cuts, kills, people
and changing servers at any point of it. The models are about that, and about the few pure
algorithms whose inputs are too many for tests.

Source paths below are relative to `src/src/`. `PROJECT.json` maps every definition to the lines
it models, lists the hazards the properties are for, and gives for every property a change of the
code that breaks it.

## Inventory

| component | state it keeps | operations | what makes it correct | modelled |
|---|---|---|---|---|
| batch of downloads: `cli/fetch.rs`, `cache/deferred.rs`, `cache.rs`, `cache/object.rs` | tasks, the open batch, the group being published, partial names, objects; one question, progress | `each`, `defer`, `publish_group`, `publish_download_of`, `forget_deferred`, `publish_downloads`, `link_object` | a hash never names bytes that may be lost; success means stored; the batch ends; one question comes before large files | `Deferred`, `DownloadStore`, `Watch` |
| claims: `cache/partial.rs`, `cache/held.rs`, `cache/upkeep.rs` | lock files, `gc.lock`, `.part` files | `claim`, `take_lock`, `hold`, `sweep_partials` | one owner of a partial file; gc never takes an owned one; everyone gets a turn | `ClaimLock` |
| transfer: `net/download.rs`, `net/download/split.rs`, `cache/partial.rs`, `net/failure.rs` | the partial file, its checkpoint, the board of shares, retry counts | `attempt`, `stream`, `split`, `part`, `write_chunk`, `save`, `finish`, `verify` | one version is stored; each byte is fetched once; a mismatch is the server's; every download ends | `Transfer`, `Answers` |
| hash worker: `cache/partial/hashing.rs` | the queue to the worker, what is held back | `update`, `range`, `sha256_so_far`, `finish` | a checkpoint hashes exactly the written prefix | `HashPipe` |
| project hold: `project.rs`, `cli/project.rs` | `.fetchloom/lock`, `.fetchloom/owner` | `hold`, `claim`, `publish_owner`, `remove_stale_owner` | one command changes a project at a time, on one system or two | `ProjectHold` |
| project files: `project/*.rs` | `data.toml`, `data.lock`, the state | read, write, restore | what is read back is what was written or a refusal | `Commands`, `Placing`, `LockText`, `Dates` |
| sync: `cli/sync.rs`, `cli/sync/*` | manifest, lock, state, the data folder | draft, survey, relock, decide, place, settle | a person's edit is never overwritten; the state vouches only for bytes that are there; no pin moves that nobody moved | `Placing`, `Relock`, `Commands` |
| placing: `place.rs`, `volume.rs` | placed files, hidden copies, what a drive refused | reflink, hardlink, copy, flush, remove | no name shows unflushed bytes; an object is never changed through a link; copies are told of | `Placing`, `Linking`, `Swapping` |
| destination plan: `plan.rs`, `name.rs` | none | `expand`, `check`, names | no two files at one path on any disk, no name a disk refuses | `Layout`, `Names` |
| object trust: `cache/changed.rs`, `cache.rs` | change marks, objects and their flags | `mark_changed`, `mark_replaced`, `trusted`, `link_new`, `drop_object` | damaged bytes are never placed; a repair ends the doubt and never leaves a name empty | `ChangeMarks`, `Swapping` |
| retention: `cache/upkeep.rs`, `cli/cache.rs` | registered projects, object times | `register`, `gc`, `drop_archives` | gc removes nothing a run or a registered project needs | `Retention` |
| staging and unpacking: `cache/staging.rs`, `cache/unpacked.rs`, `archive/store.rs`, `cli/sync/unpack.rs` | staging folders and locks, member records | `staging`, `sweep_staging`, `record_unpacked` | staging in use is never swept; a recorded tree has its members | `Unpacking` |
| archives: `archive.rs`, `archive/*` | counts of a reading | entries, names, limits | nothing unpacks past the limits or to two members of one name | `Members` |
| network: `net.rs`, `net/*` | slots per host, learned limits, a byte rate, tries | `admit`, `heard`, `permit`, `throttle`, one request and its redirects | no deadlock of permits; no request past a known limit that resets soon enough to wait for; keys stay with their hosts | `Pace`, `Rate`, `Requests` |
| sources: `source/*` | none | versions, listings by page and folder | a listing is of one version, whole, and ends | `Listing` |
| commands: `cli/project.rs`, `cli/get.rs` | what they restore when they fail | `add`, `remove`, `sync`, `lock`, `path`, `get` | an `add` whose sync fails leaves data.toml and data.lock as it found them; what `get` replaces can be had again | `Commands`, `Get` |
| credentials: `auth.rs`, `auth/*`, `cli/auth.rs` | the system's store, a file, an index, tools' files | find, save, remove, sign in and run again | no key is lost or left behind | `Accounts` |
| primitives: `glob.rs`, `units.rs`, `digest.rs`, ... | none | patterns | a pattern matches what it reads as | `Glob` |
| output, argument parsing, python wrapper, bench, installers | none another step reads | draw, parse, package | | not modelled |

How they interact: a command takes the project hold, opens the cache under a shared `gc.lock`,
relocks, asks `fetch::all` for what is missing, unpacks, places, writes the state and registers
the project. `fetch::all` opens a batch and spawns a task for each file. A task claims its link,
transfers it into the partial file, and `PartialWriter::finish` either hands the finished file to
the batch (`Cache::defer`) or flushes and links it. gc takes `gc.lock` alone. Marks of damaged
objects are written by whoever hashes one and read by every sync.

Hard behaviours: tasks and blocking threads of one batch share two mutexes and a claim per link,
whose lifetime follows a reference count; `abort_all` drops tasks but not their blocking threads;
`syncfs` reports an error once; OS locks belong to open files and not to names; windows and WSL
share a folder but not locks; the upstream file changes between answers, pages and folders; clocks
of two disks differ and round; a person edits at any time; the program is killed or the power
goes at any point, which keeps some writes and loses others.

## Modules

| module | what it is |
|---|---|
| `Deferred` | one batch, from looking for the bytes to the batch's report |
| `DownloadStore` | abstract: what a batch of downloads promises its callers |
| `Watch` | the question before large downloads, and their progress |
| `ClaimLock` | the claim on one link against gc |
| `Transfer` | how the bytes of one link reach its partial file |
| `Answers` | what one download of a link means: cache, records, 304, expired links, another run |
| `HashPipe` | the hash worker behind the writer |
| `Pace`, `Rate`, `Requests` | permits and limits, bytes per second, one request and its redirects |
| `Listing` | how each kind of source is listed |
| `ChangeMarks`, `Swapping` | doubt about objects; how an object takes and leaves its name |
| `Retention`, `Unpacking`, `Members` | what the cache keeps, what archives unpack to |
| `ProjectHold` | the project lock and owner record |
| `Commands` | the commands of a project and the files they keep |
| `Relock` | how an entry of data.lock is made |
| `Placing`, `Linking` | the project's folder against a person who edits it; links and copies |
| `Get` | `get`, which keeps no record of what it placed |
| `Accounts` | keys of accounts |
| `Layout`, `Names`, `Glob`, `LockText`, `Dates` | pure algorithms: destinations, names, patterns, the lock's text and dates |
| `CacheParts` | parts of the cache, commands and archives, side by side, that `cache` runs and `CacheProofs` is about |
| `DownloadParts` | `Answers`, `Relock` and `Get` beside a batch: what `downloads` runs and `DownloadProofs` is about |
| `FetchingParts` | `Requests`, `Accounts` and `Watch` beside claims: what `fetching` runs and `FetchingProofs` is about |
| `MCCache`, `MCDownloads`, `MCDeferred`, `MCFetching`, `MCHolding`, `MCPlacing`, `MCTransfer` | instances for TLC; `MCTransfer` also has the reference definitions of the pure algorithms |
| `...Proofs` | theorems, see below |

Where several components share a run, its first state chooses one, and the variables of the
others stay as they are. So one module and one configuration ask the questions of many without
multiplying their states, and components that have nothing to do with each other may share
variables. Where a question has two settings of the constants, `INSTANCE ... WITH` gives the second.

### Batches: Deferred, DownloadStore and Watch

`part`, `object` and `inode` are the file system: the partial name of each link, the name under
each hash, and the files. An inode is `unfinished` or has the bytes of a digest, is sealed
(read-only) or not, and is dirty, durable or lost. `items` are the `Finished` values, each with
who has it: the batch (`Pending`), a thread that publishes it, or a task that took it out.
`pendingLock` and `publishingLock` are the two mutexes. `pc` says where each task and the main
thread are in the code; the atomic steps are the stretches between two points where another
thread can see a difference: a mutex, a flush, a link, an await.

| actions | code |
|---|---|
| `Look`, `Claim`, `Poll`, `Recheck`, `TakeFinished` | `download_in_span`, `claim`, `publish_download_of` |
| `OpenPart`, `StartOver`, `TransferFails`, `Seal` | `Partial::writer` and `open`, `transfer`, `PartialWriter::finish` |
| `Defer`, `TakeGroup`, `SkipGroup`, `Flush`, `FlushFails`, `Name`, `NameFails`, `GroupNamed` | `defer`, `take`, `publish_group` |
| `FinishAlone`, `Sync`, `Link`, `AloneFails` | `finish` without a batch, `publish_download_of` |
| `Verify`, `Forget`, `ForgetWaited`, `RemovePart` | `verify`, `discard`, `forget_deferred` |
| `Drop`, `AllEnded`, `Abort`, `PublishDownloads` | `each`, `all`, `apart`, `publish_downloads` |
| `LoseBytes` | a write-back error of the disk |

The transfer itself is one step (`Seal` with any digest, or a failure): `Transfer` has its inside.
A link that no flush covers may lose its bytes at any time, so `NamedIntact` is the statement
"a power cut can never leave a damaged object under a hash" of `deferred.rs`.

`DownloadStore` has three variables: the hashes held, those answered, and the report. `Deferred`
implements it (`ImplementsStore`) with held as the intact objects, so a batch reports success
only when it holds every hash it answered with, and the cache never loses an object.

`Watch` has the events of each download in their order, try after try, and the answer they share. The
first try goes on from what an earlier command left, if anything, and a later one from what the last
got to or from the start. A try of no told size that is large from its start is asked for at its next bytes.
What is asked for is judged per try, so over several tries more than `ASK_ABOVE` bytes of one file
may arrive without a question: `AsksOnceBeforeLarge` states what the code promises, per try. `yes`
answers at once; the abort of siblings and warnings about web pages are left out.

### ClaimLock

`named` is the lock file the path names, `locked` who has each file's lock. gc removes lock
files while it holds them, so a claimer may lock a file with no name; `CheckName` is the check
`take_lock` makes. A process may end or be killed at any point, and its files then close in any
order. `GcLock` says whether the file system locks `gc.lock`.

### Transfer

`link` is the download, chosen once from `Links`: what its link serves, its pin, whether answers
carry validators, and how many streams, tries and runs it gets. The file is a row of blocks, and a
block holds the version of the upstream file it came from, so the hash of blocks is the blocks.
`record` is the checkpoint, `writer` the `PartialWriter`, `share`, `free`, `pieced` and `stopped`
the board. Any answer may bring any version, since the file changes or servers behind one name
differ. Abstracted: a block is in the file when its stream has it, as the queue to the writer is
FIFO and drained before anything reads the file (`HashPipe` has the hashing behind it); `Retry`
may give up at any transient failure, as its count restarts on progress, but is bounded by
`link.tries`; `link.pin` stands for both `Expect::pins` and `Expect::proves`; an interruption is
`Save` followed by `Crash`; the total length is always stated; naming is `Deferred`'s. The probe
that times added streams is left out.

### Answers

Runs that want one link, pinned or with a stated MD5 or asked again each time, against a server
that changes it, a link that expires, and each other. `known` is the record a run found before it
asked, `window` what the link served since it began: `RightBytes` says a run is given what it
pins or something of its window, never a mix. How bytes arrive is `Transfer`'s: here an answer
brings a whole version, breaks, or mixes with what was there. A claim is had or not. gc does not
run while a run works (the hold of the cache); a deferral is `Deferred`'s; equal MD5s exist only
between links that state one; failures to write a record are a choice.

### HashPipe

The bytes are the numbers of their places, a hash is the sequence of the bytes it was fed. The
writer holds back, gathers, hands on; the worker hashes behind; a checkpoint waits for a reply; a
power cut keeps what was flushed. Small downloads are hashed on the writer's thread, which is the
same steps with a worker that is never behind; a save by time is `Save`.

### Pace, Rate and Requests

`Pace`: requests wait for a slot of their host, then for a permit over all, then for the limit the
host stated, in windows the host counts and the client only hears of, from answers that travel and
overtake. A limit that is used up for longer than `Longest` (the code's `LONGEST`, two minutes) is left
to the host to enforce, as `admit` says: a request goes past it, and a 429 that asks for so long a wait
ends it. `KeepsToTheLimit` is about the requests admitted within a limit; one that was on its way when
another went past is excepted, since that one may take its place, and so is a request of a window of
which an answer never came. One host has a single limit; a request dropped at any time stands for the
stop and for aborted siblings; a wait for a limit counts as a try; a split download keeps its permit
while its streams run. That nobody waits for a permit in vain is a safety property here (`NobodyWaitsInVain`:
some holder goes on without one); liveness is not checked. `Rate`: the bucket all answers share,
by ticks; its parsing is left out.

`Requests`: one request, hop by hop, through redirects, private addresses, a proxy, keys, limits
and tries. Names resolve as they did, and the settings stay, while it runs. `MOST_TRIES`, lanes,
cookies and bodies are left out. A name whose lookup failed once is left to the proxy for the rest
of the run, as the comment there intends.

### Listing

Each kind of source as it is listed: by pages, tokens or folders, of versions or of what is there
now, with two changes by people between any two requests, or from a server whose pages say
anything. Folders are one deep, one listing is made per behaviour, names that escape and parsing
are left out. Sources that number pages (OSF, competitions) may skip a file silently when one is
deleted between two pages of a live source; kaggle checks no version it is asked for with `view`,
and a zenodo id may stand for the newest record. `ListsTheVersion` leaves exactly these out.

### ChangeMarks and Swapping

`ChangeMarks` is one hash: its object, a project's link to it, the mark, and runs that verify,
repair and sync, over a clock whose times may be rounded. `found` is history: a mark was written
while the file was damaged. Damage between a repair's swap and its second mark is excluded, since
`mark_replaced` vouches for the object it swapped in without looking again.

`Swapping` is the swap itself on kinds of volumes (that link or not, that refuse a rename over a
read-only file or its removal or not), several writers at once, a dropper and one kill. Where such
a rename is refused, a repair that finds the old file's flag already cleared by another repair, or
the object dropped, fails with "could not replace" although nothing is wrong, and a process killed
between clearing and restoring the flag leaves a project's hardlink of the old object writable. On
a volume without links a repair may take away the good object another one just put there before it
puts its own, so a kill then leaves it missing. `ObjectsStaySealed` says what remains true.
Unreadable objects, vanished object folders and failed restorations of a flag are left out.

### Retention, Unpacking and Members

`Retention`: an archive, what it unpacks to, the record of it, projects that need some of them, gc
and a sync that drops archives it unpacked. A sync is shorter than the grace, so nothing grows old
while one runs; no object is damaged while a run judges, and no lock is replaced while gc reads it.
With file locks gc runs alone, and `GcKeepsWhatIsNeeded` says what it keeps for projects; without
them, only that it takes nothing from under a run that found it. A first sync whose archive
another sync drops is outside that promise. URL records, leftovers in `tmp` and the dry run are
left out; partial files are `ClaimLock`'s.

`Unpacking`: runs that unpack one archive in staging folders of their own, threads that seal
members, the flush, publishing, and sweeps. Its theorem covers any number of members and runs.

`Members`: an archive is whatever comes next, entry by entry and piece by piece, and what is
counted of it. zip's own refusal of duplicate names and damaged streams are one step (`Breaks`).
An observation: a zip of one file and a folder entry is no wrapper by `sole_member`, but once
unpacked its one recorded member makes it one (`archive::wraps`).

### ProjectHold

`osLock` is `.fetchloom/lock` per operating system, `owner` the record. `since` is the record's
state when a command began to claim it, which stands for its `now`: an empty record is stale
when it was already there, and old, then. Crashes leave records; a person deletes one of a
command that is gone if `Deletes`.

### Commands

`add`, `remove`, `sync`, `sync --locked`, `lock`, `lock --upgrade` and `path` over data.toml,
data.lock, the placed files and what the state records of them. The hold is a mutex here, placing
is one step that may stop half way, and two texts are equal when they say the same, so the settled
shortcut is taken at least as often as in the program. What is resolved stands for ref and version.
Dry runs, `--check`, `lock --upgrade` of all names, archives never unpacked, and what `path` refuses
once it has synced are left out; a second read of data.lock is taken with the first. A person's
edit while `add` resolves is overwritten by it; the properties except commands a person disturbed.

After its sync an `add` still writes .gitignore and plans what it tells from data.lock (`Render`), and
may fail or be killed there. `restore` answers for `sync_all` alone, so such an add fails and keeps
what it made, as docs/dev/architecture/cli.md says ("rendering errors do not roll back an already
completed sync"). `FailedAddUndone` tells the two failures apart: before the sync is complete both
files are as they were found, or it is said that they are not; after it they are in date, and the data
folder has what the state says. What .gitignore holds is left out.

### Relock

How data.lock gets an entry: kept, repinned or made anew from what a source states, what the lock
pinned, what this machine's cache remembers, or the bytes. Two machines with caches of their own
pass one lock around. One dataset, one run at a time, sources whose statements agree with
themselves; offline runs, dry runs, titles and licences are left out; patterns are sets of links.

### Placing

`disk` and `hidden` are the data folder: what each path names, and the hidden copy beside it. A
file has bytes, a look (size and modification time) and is durable or not. `state` is
`.fetchloom/state` with its own time. `run` is what the running command knows: the lock, its copy
of the records, the survey and the step each path has reached. `now` is the clock, which each disk
cuts down to its own step.

| actions | code |
|---|---|
| `Begin`, `HashRacy` | `Survey::read`, `hash_racy` |
| `Untouched`, `End` | `untouched` and its early return in `sync_all` |
| `Decide` | `relock`, `Placing::new` and `decide`, and what `apply` does to its own records |
| `LookAgain`, `Take` | `remove_unwanted` before `Sweep`, the `Replace` arm of `settle` after it |
| `Sweep` | `sweep` |
| `Put`, `PutFails`, `Flush`, `FlushFails`, `Publish`, `PublishFails`, `LookPlaced` | `place_all`, `publish_flushed`, `put_all` |
| `WriteState`, `Fails` | the end of `apply` and `remove_only`, and every `?` before it |
| `Edit`, `Delete`, `Tick`, `Crash` | the person, the clock, a kill or a power cut |

A look and the step it allows are two steps, since the code cannot join them either; an edit that
falls between is in a gap. `late` has the paths a person changed while a command ran so that
nothing the command compares can show it: in a gap, or with the look the command knows. `EditsKept`
and `StateVouches` except those, and `EditsNoticed` is the second without the exception.

Abstracted: data.toml and data.lock are one value, which a person may pull at any time, so `Begin`
takes any of the project's locks; files are copies flushed in one batch, as on linux, and no
dataset asks for `copy = true`; renames and removals are durable in the order they happen, as in a
journal; a person's write takes the clock's time. Left out: reflinks and hardlinks (`Linking`),
change marks (`ChangeMarks`), aliases of a path, archives not unpacked yet, and a hidden copy that
`sweep` cannot delete.

### Linking

The threads of one placement and what they learn of a drive from errors that may be about one file
only. The load of a learned flag and the answer it leads to are one step, learning another; errors
that tell nothing are per file; a probe may fail each time. A probe that fails once can make
`unlinked` tell "other drive" of a drive that links nothing. Failures to seal a reflink, the checks
of folders above, and the flushing and naming of copies (`Placing`) are left out.

### Get

Links in sequence, each listed, fetched, unpacked and put in a folder of its own, or the first one
alone in a chosen one, on a disk that may ignore case, with folders that are links. A file may be
replaced when the cache holds its bytes. One incident per behaviour: an edit, a release, bytes
freed or an archive dropped by another run. `touched` has what a person changed between a look and
the removal it allows; `run.dropped` what another run dropped from the cache meanwhile. `--select`,
hardlinks, checksums a source states, wrapped zips, `-o` in a missing folder, and numbering beyond
what two links need are left out.

### Accounts

Where each account's key may be (the environment, files of other tools, the system's store, a file
of fetchloom's and the index that says where), sign-ins and sign-outs that fail or are killed
between two writes, and the command that runs again after a sign-in. One command at a time; the
environment changes between commands. `auth status`, unsendable keys, a missing home folder, and
netrc's duplicates, defaults and macros are left out.

### Layout, Names, Glob, LockText and Dates

Each has one variable, an input, and its properties compare what the code computes with a reference
definition over every small input (`MCTransfer`).

- `Layout`: paths are sequences of names; names no disk stores, and metadata, are left out.
- `Names`: characters stand for classes of them, and a word that windows or a version control system
  keeps is one character. One byte per character.
- `Glob`: control characters and backslashes, which are refused before reading, are left out.
- `LockText`: a text is its lines. A byte order mark, the fields inside a file's line, and the
  parsing of numbers and hashes by character are left out. One edit per behaviour in the run; two
  were explored apart from it without a violation.
- `Dates`: the arithmetic of `timestamp` beside a calendar, over three spans of 430 days, around the
  epoch, a century and a leap century.

## Runs

| run | question | result |
|---|---|---|
| `cache` | `MCCache`: change marks, retention and unpacking with locks and without, the hash worker, pacing and rate, commands, listings, members, swapping and linking | passes |
| `downloads` | `MCDownloads`: two links in groups of two and of one with lost writes, and the abstract store; two runs that download one link; two machines that relock a dataset; runs of `get` | passes |
| `downloads_waited` | the same: does a download that must ask the server ask it? | `AskedAgain` is violated |
| `deferred_restart` | two downloads of one resumed link | `NamedIntact` is violated |
| `deferred_apart` | a failed `publish_download_of` in `fetch::apart` | `AnsweredIsStored` is violated |
| `fetching` | `MCFetching`: claims against gc with `gc.lock` and without, requests, accounts, and the watching of two downloads | passes |
| `hold` | `MCHolding`: four commands, on two systems with hardlinks or one with reservations; and a batch of two downloads of one link | passes |
| `hold_reserved` | two systems, reservations | `OneHolder` is violated |
| `transfer` | `MCTransfer`: two versions with validators, two with a pin alone, and three streams, with a crash; and the pure algorithms | passes |
| `transfer_stalled` | a split before the first byte | `OneVersion` is violated |
| `placing` | `MCPlacing`: one file on one disk or on two, or two files, with edits, kills and power cuts | passes |
| `placing_tick` | the same, with no edit in a gap | `EditsNoticed` is violated |

What the passing runs check:

- `cache`: `DamageIsNoticed` (`ChangeMarks`), `GcKeepsWhatIsNeeded` (`Retention`), `UnpackedIsWhole`
  (`Unpacking`), `HashedAsWritten` (`HashPipe`), `RequestsGoOn` (`Pace`, `Rate`),
  `ListsTheVersion` (`Listing`), `UnpacksWithinLimits` (`Members`), `LinkedOrTold` (`Linking`),
  `ObjectsStaySealed` (`Swapping`), `SuccessInSync`, `LockMovesWhenAsked` and `FailedAddUndone`
  (`Commands`).
- `downloads`: `NamedIntact`, `WaitingKeepsItsBytes`, `ImplementsStore` (`Deferred`), `RightBytes`
  (`Answers`), `PinsStayTrue` (`Relock`), `DoneStays`, `NothingLost` (`Get`).
- `fetching`: `OneOwner`, `OwnedBytesStay` (`ClaimLock`), `EveryWaitEnds` (claims and requests),
  `NothingAstray` (`Requests`), `KeysFollow` (`Accounts`), `AsksOnceBeforeLarge` (`Watch`).
- `hold`: `OneHolder`, `HolderIsNamed`, `CommandsOfOneSystemEnd` (`ProjectHold`),
  `NamedByOneDownload`, `BatchEnds` (`Deferred`).
- `transfer`: `OneVersion`, `SharesHold`, `BlamedRightly`, `EveryDownloadEnds` (`Transfer`),
  `PlansWhatFits` (`Layout`, `Names`), `ReadsAsMeant` (`Glob`, `LockText`, `Dates`).
- `placing`: `NamesAreWhole`, `StateVouches`, `SettledInSync`, `EditsKept` (`Placing`).

Bounds, and why they are enough:

- Two tasks reach every pair of threads in the batch besides the main thread, and every property
  is about a pair or one. `Group = 2` makes the second download complete a group and the first
  be left for the batch; `Group = 1` makes groups follow each other. Four inodes are one for each
  leftover and one new one for each task; a restart takes the one it gave up.
- Two claimers and one gc are one that owns and one that holds a nameless lock or makes the new
  file. Three lock files are one each. That more claimers add nothing is `MutualExclusion`.
- Two commands on each of two systems give a holder, a stale record and two that judge it.
- Four blocks with `Piece = 1` let a share be halved twice; five with three streams let a victim
  lose its half, be given back to and be trimmed. One crash shows every checkpoint to the next
  run, since a run depends only on the file and the record. Two tries have a retry.
- `placing`: two edits show an edit before a command and one while it runs; where the clocks differ
  or a second path makes the states many, one does. Ticks 0 and 1 are a state as new as its file and
  a later one; with a file clock of step 2, ticks to 3 are two steps of it and two states within one.
  Two paths are one to place and one to remove in a command, so that one fails where the other
  does not. Commands are not bounded: a crash or an end lets the next begin.
- Two sharers of the cache are one that repairs or sweeps and one that syncs; a third is a dropper
  or gc. Marks and files are at most two ticks apart within the coarseness, and the theorem has any
  time. Two members are one that is sealed and one that fails. Three files to link are the one that
  goes alone and two that learn at once.
- The hash worker has four bytes with a buffer, a batch and a queue of two: each fills and overflows.
- `Pace`: two files and a stream with two permits, two slots and a quota of two, in windows of three
  ticks of which two are waited for, so that a used-up limit is passed in the first and kept to in the
  others; and one slot, a quota of one, in windows that are waited for. `Rate`: two streams, whose
  portions exceed the bucket. `Watch`: two files above the bound, two tries each.
- `Listing`: three files, four pages, two changes, pages of one entry: an entry may go before or
  after the page that had it. `Members`: three entries, so that a third meets a file and a folder.
- `Commands`: one incident for two processes, two for one; two datasets, two versions. `Relock`: two
  changes and two runs on two machines. `Answers`: one change, three downloads, two runs.
- `Requests`: two redirects, two tries, hosts of each kind. `Accounts`: an account with tool files,
  one without, two keys. `Get`: two links and one incident, as a second link meets what the first put.

The bounds on counters are named: `link.tries`, `MostFailures` and `link.runs` in the guards of
`Retry`, `StreamFails` and `Crash`, a project's `edits` and `last` in those of `Edit`, `Delete` and
`Tick`, `Last`, `Most`, `Changes`, `Runs`, `Downloads`, `Latest`, `Attempts`, `MostPages` elsewhere.
`cache` and `placing` do not check deadlock, as a command may wait for a person, and a component may
be done, for ever; `fetching`, `hold`, `downloads` and `transfer` do. Symmetry is used in `downloads`
alone, over the inodes no earlier run used, and over the runs of `Answers` and the machines of
`Relock`; that run checks no liveness.

Fairness: `Deferred` and `Transfer` assume that tokio polls every task, that mutexes are handed
on and that requests and reads end, because every one has a timeout (`IDLE`, connect and
header timeouts). No fairness is assumed of failures, of the disk, or of a person. `ClaimLock`
assumes that a claimer polls again and that an owner ends; `ProjectHold` that a command polls
every 200 ms, ends, and that time passes; `Requests` that a request that can go on does. All of it
is weak fairness. The other modules state safety only.

## Findings

Each is a violation run, its trace the shortest TLC finds.

- `deferred_restart`: `publish_download_of` lets go of `pending` before it flushes and links, and
  never holds `publishing`. Task 1 finishes a resumed download that does not match its pin; task 2
  takes it out of the batch and flushes it; task 1's `discard` finds nothing to forget or to wait
  for, removes the partial name and makes a new file there; task 2 links that under the hash.
- `deferred_apart`: the task that takes another's download out of the batch is the one told of
  the failure to name it. In `apart` mode that failure stays with its file, and the batch
  reports the other as fetched.
- `downloads_waited`: a download that must ask the server waits for another run's; when that one
  fails, it takes the record the link had before (net/download.rs:315) and asks nobody.
- `hold_reserved`: without hardlinks two systems can both judge a killed command's empty
  reservation stale; `remove_stale_owner` of the slower one deletes the record of the faster.
- `transfer_stalled`: a download split before its first stream brought a byte leaves a checkpoint
  with `received` 0 and ranges. The next attempt's `Range: bytes=0-` is answered with a 200 of a
  new version, whose offset 0 equals `received`, so the old version's ranges are kept.
- `placing_tick`: the look of a file is taken when it is placed or adopted, and compared later with
  the time the state was written. A person's edit in the tick of that look, before a state of a later
  tick, keeps the look, and the state vouches for it for good. `hash_racy` covers only edits in the
  state's own tick.

Smaller things met while modelling, which no run is about:

- `lock` writes data.lock without `plan::from_cache`, though the comment at cli/project.rs:1017 says
  data.lock never pins what no sync can place.
- `get`: that two links named alike each get a folder holds within a run (`DoneStays`); in a rerun
  whose first link fails, the later one takes its folder and replaces files, whose bytes the cache
  holds. An archive unpacked by an earlier link is dropped from the cache, so a later link whose plain
  file has the same bytes fails with "the cache lost ...", and running again repeats it.
- `auth`: "run the command once more with the new key" is not so when an environment variable
  shadows it or a kaggle.json is saved behind an access token (`RunsWithNewKey` states the exception);
  an index write that fails after the old place was removed loses the key; a failed or killed save may
  leave a key that signing out does not know; two sign-ins at once lose each other's.
- `Answers`: "answered 304 to a request that did not ask for it" cannot be reached; the bytes of a
  finished download enter the cache under their own hash even when `verify` then rejects them.
- `name.rs`: `get` appends "-data" behind a dot, so ".aux.v1.csv" becomes "aux.v1-data", which windows
  still takes for a device; `folder_for` may leave a trailing space or dot.

## Proofs

Each proof module has an inductive invariant `IInv`, proved of the initial states, of every action
in a lemma of its own, and of stutters; the promises follow from it. A theorem holds for every value
of the constants that the named assumptions allow, so for any number of tasks, runs, streams, paths
or bytes, and for any bound of a counter. The assumptions on constants (which values differ, that
counters are numbers, that tables have their domains) are not repeated below; TLC evaluates them in
the runs. `TypeOK` is a part of each `IInv`.

| module | theorems | assumed besides |
|---|---|---|
| `DownloadProofs` | `NamedIntact`, `WaitingKeepsItsBytes`, one download for each link | `RestartsAlone`, `EarlierLoss = FALSE` |
| | the batch implements `DownloadStore`; what is answered is stored; nothing is left waiting | also `FailuresTell` |
| | `RightBytes`, `PinsStayTrue`, `NothingLost`, `DoneStays` | |
| `FetchingProofs` | `OneOwner`, `OwnedBytesStay` | `OneGc` |
| | keys reach only the hosts they are for | |
| | `NothingAstray` | `OneKind` |
| | `KeysFollow`, `AsksOnceBeforeLarge` | |
| `ProjectHoldProofs` | `OneHolder`, `HolderIsNamed` | `Sound` |
| `TransferProofs` | `OneVersion` for `Steady` links, `SharesHold`, `BlamedRightly` | |
| `PlacingProofs` | `NamesAreWhole`, `StateVouches`, `SettledInSync`, `EditsKept` | |
| `UnpackingProofs` | `UnpackedIsWhole` | |
| `SwappingProofs` | `ObjectsStaySealed` | |
| `CacheProofs` | `DamageIsNoticed`, `LinkedOrTold`, `HashedAsWritten`, and the two above as `cache` states them | |
| | `GcKeepsWhatIsNeeded`, with file locks and without | |
| | `SuccessInSync`, `LockMovesWhenAsked`, `FailedAddUndone`, `UnpacksWithinLimits` | |

**Batches.** `LocksInv` ties each mutex to the lines that hold it. `ClaimInv` says a link is
claimed once, by the task that downloads it or by what became of its download; `ItemsInv` says who has
a finished download and what its task may do meanwhile. From these, `FilesInv` gives that nobody else
writes to the file of a waiting download, and `FlushInv` that what is about to be named is on the
disk, and that a loss is known until the batch ends. Without `ItemsInv` none of it is inductive: that
a group may be named rests on no task having discarded one of its downloads since it was flushed.
`RestartsAlone` says that no task which resumes a link and has a pin shares that link with another
task: only such a task discards what it finished, which is what `deferred_restart` needs.
`EarlierLoss = FALSE` excludes bytes resumed from a run whose own flush already reported their loss,
which this run is never told of.

The refinement adds `AnswersInv`: a task that was answered has its object, or its download is still
due, or the batch cannot report success; and `ReportInv`. Each kind of step then is one of
`DownloadStore` or a stutter: naming an object is `Put`, a task that ends well is `Answer`, and the
end of the batch is `Succeed` or `Fail`. `FailuresTell` leaves out exactly what `deferred_apart` shows.

**Claims.** `LockInv`: exactly who locked the file it opened holds that file's lock. `NamedInv`: the file
of an owner, or of gc at work, still has the name, so a second owner would hold the same lock. `OneGc` says that without a lock on
`gc.lock` there is one gc.

**Project hold.** `OwnerInv`: the record is its publisher's from the moment it takes the name, and a
record about to be removed as stale is still the one judged. This last part fails with reservations
on two systems (`hold_reserved`), so `Sound` asks for hardlinks, with nobody deleting records, or one
system whose locks work.

**Transfer.** Two halves. Whose bytes: `WriterInv` and `RecordInv` say which version each block of
the file and of the checkpoint is of, by whether the link is pinned, was restarted, resumed or pieced
together. Where they are: `BoardInv` has `Parted`, that every block is held by the writer, in the range
of one stream, or free, and never two of them, and `Reaching`, that ranges end where answers do. The
lemmas on `Absorbed`, `Written`, `GiveBack`, `Trim` and `Assign` show each to keep the parting; those on
`Max` and `Min` are by well-founded sets, as the folds have no usable theorems. `Steady` excludes an
unpinned link with validators whose first stream may be called slow before its first byte, which is
`transfer_stalled`.

**Placing.** `InTime` compares times: what takes a path from now on is no older than what the state's
time is compared with. `SurveyHolds` and `RecordsHold` say of every path that one which looks as
recorded holds what is recorded, or was hashed, or a change on it does not show (`late`).
`TakesRightly` says at each look and at each removal what may be taken; `CopiesAreWhole` that a
copy has its bytes on the disk before its name; `DoneIsRecorded` and `CompleteIsSynced` that a state
that says a sync was complete records what its lock wants. Clocks step by one or two, which is `Coarse`.

**Unpacking.** `PartsInStep`: what is published was flushed, and what is recorded is published.
`FoldersHeld`: whoever works has a folder nobody takes for abandoned. `ObjectsWhole`: objects are
safe and of a good tree. With locks and without, with one flush for a batch and one for each member.

**Swapping.** `OwnFiles`: a file that was never the object is sealed and open nowhere else, so a
repair cannot unseal another's. `ServedWell` and `FlagsAttended`: whose flag is gone, somebody is about
to give it back, by its handle or by the object's name.

**Change marks, linking and the hash worker** are proved in `CacheProofs` itself, as instances of
`CacheParts`. Marks: an object or link found damaged has a mark newer than it and than its last
check (`ObjectFound`, `LinkFound`), and of an object that a project may go on to place, the mark is
newer than the scan (`FoundSince`); times are compared with the coarseness on the safe side. Linking:
what is learned of a drive is so or was told (`LearnedIsTrue`), and methods are asked in turn. Hash
worker: the messages on their way, one after the other, are the bytes from where the worker is to the
writer's prefix (`PipeInv`); ranges are read only once they are on the disk, and a checkpoint is the
last message while its answer is awaited (`MessagesInv`), so the answer covers the prefix exactly.

**What the cache keeps.** With file locks gc is alone in the cache (`GcAlone`), so what a run found stays
(`FoundStays`); `GcKnows` says that gc has added up all that the projects it has read need, as they are
now, and `SyncsKnow` that a sync about to drop an archive leaves every other project what that one
needs. Without locks only the grace is left: what a sync stored is fresh until it ends
(`StoredIsFresh`).

**Requests.** A request carries a key only to the host it is for, hop by hop, through redirects and a
proxy: `KeysOfTheirHost`, for any links and any resolving of names. That no request reaches a private
address nobody wrote needs `OneKind`: the name of the proxy itself has private addresses alone, or none.
Without it TLC finds a request for the proxy's own host whose second try is let through to the private
address, as a try does not check its link again.

**Accounts.** `KnowsIndex`: what a command read of the index is still so when it writes it back, as one
command runs at a time. `KeyInPlace`: once the new key is stored it is where the index is about to say, so
the key before it may go. `LeftWhereNamed`: each key in the store is where the index names it, save the
one being moved or forgotten, or whose move was cut off. That an account whose key is saved in a file of
its tools is held as before or has the new key rests on which file is read first, and that there is one
on the well-foundedness of the numbers. `AccountsAssumption`: accounts share no file but `.netrc`, and no
file is named as a place of the store is.

**Watching.** Who asks has been told by nobody what came of it (`AskedOnce`), so there is one question; a
try of no told size is counted until there is a yes (`Counting`). The bar shows the sum of what each
file got to, and its end the sum of the sizes known: that a sum grows by what one of its elements does
is shown here for any finite set, from the well-foundedness of its subsets, as `SumOver` is a fold.

**Answers.** `RecordsInv`: what the cache records of a link is what that link served, and what it
records of an MD5 has that MD5. `StateInv`: what a run brings is of one version or is checked against a
pin, `known` is only looked at by a run that must ask again, and what a run was given is right for it. A run
that waited for another may be given what was served before it began, which is `downloads_waited` and
which `RightBytes` says. `AnswersAssumption` has what the callers keep to: a download that asks its server
again states no checksum (cli/fetch.rs:44, cli/sync/draft.rs:152, cli/sync.rs:655, cli/fetch/again.rs:96).

**Pins.** `LockInv` and `TruePin`: every file of the lock has bytes and the MD5 of these bytes;
`RememberedInv`: what a machine's cache knows of an MD5 is so; `RunInv`: what a run has drafted is what its
source states (`TrueDraft`), what it carries over keeps bytes, path and tree, and its window misses
nothing served. `RelockAssumption`: a listing has each link once, no two files share an MD5, what is no
archive on one machine is none on another, and references with versions are not those without. The
proof asked for one thing to be said exactly: a file that gets its first MD5 from its source, which states
no SHA-256, is not carried over (cli/sync/draft.rs:320) but downloaded and unpacked again, so the pin of
its tree may become that of another machine although its bytes stay (`FirstMd5`).

**Commands.** One process at a time has the hold (`HoldInv`); what it knows follows from what it read
(`Follows`) and is so unless somebody disturbed it (`Current`). `Repins` says of a lock made anew that it
pins what is asked for and moves nothing nobody asked for; `RecordInv` that a state which says a sync was
complete had a lock in date and every file of it placed. An add that has synced stays in date and in
place until it ends, which is part of `Current`. The instance with one process is a case of it.

**Archives.** No disk takes two of the names seen for one (`SeenApart`), and the folders above each name
are seen as folders (`SeenBelow`); members are names seen and never folders (`MembersSeen`); what came
out is counted once, and what was written or skipped is in proportion (`InProportion`).
`MembersAssumption`: names are sequences of known parts, limits are numbers.

**Get.** `RemovableInv`: what is about to be removed may go, now and not only when it was looked at.
`HandledInv`: each target looked at is there or is to be placed. `TakenInv`: what earlier links put
somewhere is in folders they took, none of which is the one being filled. Targets are never two of one
path, which is the destination plan's check; they are flattened from what files unpack to, and that the
flattening is a list is the one induction here (`CountingUp`), had from the well-foundedness of the
numbers, which the library states of sets. `GetAssumption`: links, files and members are lists.

Only model-checked:

- liveness (`BatchEnds`, `EveryWaitEnds`, `EveryDownloadEnds`, `CommandsOfOneSystemEnd`): fairness and
  ENABLED are out of TLAPS's reach;
- the pure algorithms (`PlansWhatFits`, `ReadsAsMeant`), which are recursive functions and folds: the
  library's induction takes an operator, which no prover here can instantiate, so each would need
  its own induction over sets as in `Get` and `Watch`;
- `NamedByOneDownload`: its run is the batch `RestartsAlone` excludes, a resumed link that two tasks
  download, in an order of steps that does not meet `deferred_restart`;
- `RequestsGoOn` and `ListsTheVersion`, whose invariants are not written yet.

## Plan

What is left, in order: invariants and theorems for `Pace` and `Rate` (`RequestsGoOn`) and
`Listing`; that `Transfer` brings what `Answers` and `Deferred` take as one step, as a
refinement; the in-flight limit of `fetch::each`; `data.toml`.

## Not modelled

Decoding of archives, headers, addresses and the answers of sources; argument parsing, wording, help
and drawing, on which no state depends; `list`, `status`, `search` and dry runs, which only read;
digests, units, errors and the thread helpers; folders above a project and sync clients, and how a
volume is probed; the python wrapper, the benchmarks and the installers. What a modelled part leaves
out is said with it above and in `PROJECT.json`.
