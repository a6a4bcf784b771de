------------------------------- MODULE Layout --------------------------------
(***************************************************************************)
(* Where every locked file lands in the project, and what is refused       *)
(* before anything is written (plan.rs): the folders of datasets, the      *)
(* files archives stand for, and the two passes that look for clashes as a *)
(* case-insensitive disk would see them.  A path is the sequence of its    *)
(* names.  Names no disk stores, and metadata, are refused on their own    *)
(* and are left out.                                                       *)
(***************************************************************************)
EXTENDS Naturals, FiniteSets, SequencesExt

CONSTANTS
    Folded,     \* how a case-insensitive disk sees each name
    StemOf,     \* a name without its archive ending, for the names that have one
    Unknown,    \* in place of its members: an archive never unpacked on this machine
    Plain,      \* ... and a file that does not unpack
    Inputs      \* the data.toml and data.lock a plan may be made of

VARIABLE given  \* for each dataset of both, its folder and its locked files, each with its members

key(path) == [i \in DOMAIN path |-> Folded[path[i]]]
Parents(k) == Prefixes(k) \ {<<>>, k}

-----------------------------------------------------------------------------
(***************************************************************************)
(* expand: an archive stands for the files it unpacked to.                 *)
(***************************************************************************)
common_top(members) ==
    /\ members # <<>>
    /\ \A i \in DOMAIN members : Len(members[i]) > 1 /\ members[i][1] = members[1][1]

unpacked_paths(archive, alone, members) ==
    LET beside == Front(archive)
        lone == common_top(members) \/ (Len(members) = 1 /\ Len(members[1]) = 1)
        name == Last(archive)
        stem == IF name \in DOMAIN StemOf THEN StemOf[name] ELSE name
        inside == IF alone \/ lone THEN beside ELSE beside \o <<stem>>
    IN  [i \in DOMAIN members |->
            inside \o IF alone /\ common_top(members) THEN Tail(members[i]) ELSE members[i]]

Lands(file, alone) ==
    CASE file.members = Plain -> <<file.path>>
      [] file.members = Unknown -> <<>>
      [] OTHER -> unpacked_paths(file.path, alone, file.members)

expand(dataset) ==
    LET lands == FlattenSeq([i \in DOMAIN dataset.files |->
                                Lands(dataset.files[i], Len(dataset.files) = 1)])
    IN  [i \in DOMAIN lands |-> dataset.folder \o lands[i]]

targets(datasets) == FlattenSeq([i \in DOMAIN datasets |-> expand(datasets[i])])

-----------------------------------------------------------------------------
(***************************************************************************)
(* overlapping: each folder looks for itself and its parents among the     *)
(* first dataset of every folder.                                          *)
(***************************************************************************)
Least(pairs) ==
    CHOOSE p \in pairs : \A q \in pairs : p[1] < q[1] \/ (p[1] = q[1] /\ p[2] <= q[2])

\* seen, once all folders are in it
Seen(keys, k, i) == {j \in DOMAIN keys : keys[j] = k /\ \A h \in 1 .. j - 1 : keys[h] # k}

overlapping(datasets) ==
    LET keys == [i \in DOMAIN datasets |-> key(datasets[i].folder)]
        pairs == (DOMAIN keys) \X (DOMAIN keys)
        repeated == {p \in pairs : p[1] < p[2] /\ p[1] \in Seen(keys, keys[p[2]], p[2])}
        nested == {p \in pairs : \E up \in Parents(keys[p[2]]) : p[1] \in Seen(keys, up, p[2])}
    IN  repeated \cup {IF p[1] < p[2] THEN p ELSE <<p[2], p[1]>> : p \in nested}

-----------------------------------------------------------------------------
(***************************************************************************)
(* check: two files on one path, or a file where a folder must be.         *)
(***************************************************************************)
\* Mutant: only the folder a file is in is recorded
RecordsParent(folders, k) == folders \cup {p \in Parents(k) : Len(p) = Len(k) - 1}

\* The parents of a file, up to one that is recorded already
Records(folders, k) ==
    folders \cup {p \in Parents(k) : \A q \in Parents(k) : Len(q) >= Len(p) => q \notin folders}

check(files) ==
    LET keys == [i \in DOMAIN files |-> key(files[i])]
        folders == FoldLeft(Records, {}, keys)
    IN  /\ \A i, j \in DOMAIN keys : keys[i] = keys[j] => i = j
        /\ \A i \in DOMAIN keys : keys[i] \notin folders

plan(datasets) ==
    IF overlapping(datasets) # {} THEN Least(overlapping(datasets))
    ELSE IF check(targets(datasets)) THEN "planned" ELSE "clash"

-----------------------------------------------------------------------------
Init == given \in Inputs

\* Of all datasets, the first pair that would share a folder: by the earlier one, then the later.
Sharing(datasets) ==
    {p \in (DOMAIN datasets) \X (DOMAIN datasets) :
        /\ p[1] < p[2]
        /\ LET earlier == key(datasets[p[1]].folder)
               later == key(datasets[p[2]].folder)
           IN  IsPrefix(earlier, later) \/ IsPrefix(later, earlier)}

\* Whether a case-insensitive disk can hold all files at once: no two on one path, and none
\* where another needs a folder.
Holds(files) ==
    \A i, j \in DOMAIN files : i # j => ~IsPrefix(key(files[i]), key(files[j]))

\* A plan is refused exactly when its files cannot all be stored, for the pair of datasets "the
\* old pairwise scan met first" (overlapping): looking only at parents and at the first dataset
\* of each folder, and stopping at folders seen before, misses no clash and invents none, in
\* whatever order data.lock lists files and whatever archives unpack to.
PlansWhatFits ==
    plan(given) =
        IF Sharing(given) # {} THEN Least(Sharing(given))
        ELSE IF Holds(targets(given)) THEN "planned" ELSE "clash"
=============================================================================
