----------------------------- MODULE MCPlacing ------------------------------
(***************************************************************************)
(* A project's sync on small instances: one file through its changes, on   *)
(* one disk or on two whose clocks differ, and two datasets at once.       *)
(***************************************************************************)
EXTENDS Placing, TLC
CONSTANTS p1, p2, a, b, x

\* b is longer than the others, so that some changes show in a file's size
Sizes == (a :> 1) @@ (b :> 2) @@ (x :> 1)

\* A dataset of one file: a, the next version b, or none any more
OneFile == {(p1 :> c) @@ (p2 :> Nothing) : c \in {a, b, Nothing}}

\* Everything on one disk
OneDisk == [paths |-> {p1}, locks |-> OneFile, file |-> 1, own |-> 1, apart |-> FALSE,
            last |-> 1, edits |-> 2]

\* The data folder on a disk whose clock has a coarser step
TwoDisks == [OneDisk EXCEPT !.file = 2, !.apart = TRUE, !.last = 3, !.edits = 1]

\* Two datasets, of which one is dropped or has a next version
TwoFiles == [OneDisk EXCEPT !.paths = {p1, p2}, !.last = 1, !.edits = 1,
             !.locks = {(p1 :> a) @@ (p2 :> c) : c \in {b, Nothing}}]

AllProjects == {OneDisk, TwoDisks, TwoFiles}
=============================================================================
