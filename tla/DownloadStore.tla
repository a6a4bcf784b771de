--------------------------- MODULE DownloadStore ----------------------------
(***************************************************************************)
(* What a batch of downloads promises (docs/dev/architecture/network.md,   *)
(* cli/fetch.rs): the cache only ever gains whole, durable objects, each   *)
(* download is answered with the hash of its bytes, and a batch that       *)
(* reports success holds every hash it answered with.                      *)
(***************************************************************************)
CONSTANT Digests

VARIABLES
    held,       \* the hashes whose bytes the cache holds whole and on disk
    answered,   \* the hashes downloads were told their bytes are stored under
    report      \* how the batch ended

vars == <<held, answered, report>>

Init ==
    /\ held \subseteq Digests
    /\ answered = {}
    /\ report = "none"

Put == \E d \in Digests : held' = held \union {d} /\ UNCHANGED <<answered, report>>

Answer ==
    /\ report = "none"
    /\ \E d \in Digests : answered' = answered \union {d}
    /\ UNCHANGED <<held, report>>

\* A task that outlives an aborted batch may still be answered, to nobody.
AnswerLate ==
    /\ report = "failed"
    /\ \E d \in Digests : answered' = answered \union {d}
    /\ UNCHANGED <<held, report>>

Succeed ==
    /\ report = "none" /\ answered \subseteq held
    /\ report' = "ok"
    /\ UNCHANGED <<held, answered>>

Fail ==
    /\ report = "none"
    /\ report' = "failed"
    /\ UNCHANGED <<held, answered>>

Next == Put \/ Answer \/ AnswerLate \/ Succeed \/ Fail

Spec == Init /\ [][Next]_vars
=============================================================================
