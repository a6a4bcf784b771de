--------------------------- MODULE TransferProofs ---------------------------
(***************************************************************************)
(* What a download's bytes are, for any versions, lengths, numbers of      *)
(* streams, tries, runs and crashes: Transfer's three invariants.          *)
(*                                                                         *)
(* Two halves make the inductive invariant.  One says whose bytes the      *)
(* writer holds and the checkpoint vouches for; the other that the blocks  *)
(* of a split download are parted between the writer, the streams and the  *)
(* free ranges.                                                            *)
(***************************************************************************)
EXTENDS Transfer, FiniteSetTheorems, WellFoundedInduction, TLAPS

\* A finite set of numbers has a largest and a smallest member, and these are Max and Min.
LEMMA MaxIs ==
    ASSUME NEW S \in SUBSET Nat, IsFiniteSet(S), S # {}
    PROVE  Max(S) \in S /\ \A y \in S : y <= Max(S)
<1> DEFINE Above == {A \in SUBSET S : A # {} /\ \A x \in A, y \in S : x <= y => y \in A}
<1>1. FiniteSubsetsOf(S) = SUBSET S
    BY FS_FiniteSubsetsOfFinite
<1>2. IsWellFoundedOn(StrictSubsetOrdering(S), SUBSET S)
    BY <1>1, FS_StrictSubsetOrderingWellFounded
<1>3. S \in Above /\ Above \subseteq SUBSET S
    OBVIOUS
<1>4. Above # {}
    BY <1>3
<1> HIDE DEF Above
<1>5. PICK A \in Above : \A B \in Above : <<B, A>> \notin StrictSubsetOrdering(S)
    BY <1>2, <1>3, <1>4, WFMin
<1>6. A \in SUBSET S /\ A # {} /\ \A x \in A, y \in S : x <= y => y \in A
    BY DEF Above
<1>7. PICK m \in A : TRUE
    BY <1>6
<1>8. m \in S /\ m \in Nat
    BY <1>6, <1>7
<1>9. \A y \in S : y <= m
    <2> SUFFICES ASSUME NEW y \in S, ~(y <= m) PROVE FALSE
        OBVIOUS
    <2> DEFINE B == {z \in S : y <= z}
    <2>1. y \in Nat /\ m < y
        BY <1>8
    <2>2. \A z \in S : y <= z => m <= z
        BY <1>8, <2>1
    <2>6. m \notin B /\ y \in B
        BY <2>1
    <2>7. \A z \in S : y <= z => z \in A
        BY <1>6, <1>7, <2>2
    <2>3. m \notin B /\ y \in B /\ B \subseteq A
        BY <2>6, <2>7
    <2>4. B \in Above
        BY <2>1, <2>3 DEF Above
    <2>5. <<B, A>> \in StrictSubsetOrdering(S)
        BY <1>6, <2>3 DEF StrictSubsetOrdering
    <2> QED BY <1>5, <2>4, <2>5
<1>10. \A y \in S : m >= y
    BY <1>8, <1>9
<1>11. Max(S) \in S /\ \A y \in S : Max(S) >= y
    BY <1>8, <1>10 DEF Max
<1> QED BY <1>11

\* The same of the smallest: a smallest set closed downwards has one member.
LEMMA MinIs ==
    ASSUME NEW S \in SUBSET Nat, IsFiniteSet(S), S # {}
    PROVE  Min(S) \in S /\ \A y \in S : Min(S) <= y
<1> DEFINE Below == {A \in SUBSET S : A # {} /\ \A x \in A, y \in S : y <= x => y \in A}
<1>1. FiniteSubsetsOf(S) = SUBSET S
    BY FS_FiniteSubsetsOfFinite
<1>2. IsWellFoundedOn(StrictSubsetOrdering(S), SUBSET S)
    BY <1>1, FS_StrictSubsetOrderingWellFounded
<1>3. S \in Below /\ Below \subseteq SUBSET S
    OBVIOUS
<1>4. Below # {}
    BY <1>3
<1> HIDE DEF Below
<1>5. PICK A \in Below : \A B \in Below : <<B, A>> \notin StrictSubsetOrdering(S)
    BY <1>2, <1>3, <1>4, WFMin
<1>6. A \in SUBSET S /\ A # {} /\ \A x \in A, y \in S : y <= x => y \in A
    BY DEF Below
<1>7. PICK m \in A : TRUE
    BY <1>6
<1>8. m \in S /\ m \in Nat
    BY <1>6, <1>7
<1>9. \A y \in S : m <= y
    <2> SUFFICES ASSUME NEW y \in S, ~(m <= y) PROVE FALSE
        OBVIOUS
    <2> DEFINE B == {z \in S : z <= y}
    <2>1. y \in Nat /\ y < m
        BY <1>8
    <2>2. \A z \in S : z <= y => z <= m
        BY <1>8, <2>1
    <2>6. m \notin B /\ y \in B
        BY <2>1
    <2>7. \A z \in S : z <= y => z \in A
        BY <1>6, <1>7, <2>2
    <2>3. m \notin B /\ y \in B /\ B \subseteq A
        BY <2>6, <2>7
    <2>4. B \in Below
        BY <2>1, <2>3 DEF Below
    <2>5. <<B, A>> \in StrictSubsetOrdering(S)
        BY <1>6, <2>3 DEF StrictSubsetOrdering
    <2> QED BY <1>5, <2>4, <2>5
<1>10. Min(S) \in S /\ \A y \in S : Min(S) =< y
    BY <1>8, <1>9 DEF Min
<1> QED BY <1>10

\* The sets Max and Min are taken of are bounded.
LEMMA BoundedFinite ==
    ASSUME NEW n \in Nat, NEW S \in SUBSET (0 .. n)
    PROVE  IsFiniteSet(S) /\ S \in SUBSET Nat
BY FS_BoundedSetOfNaturals

\* The lengths of all versions of all links.
Lengths == UNION {{l.length[v] : v \in DOMAIN l.length} : l \in Links}

\* Longest bounds the length of every version.
LEMMA LongestBounds ==
    /\ Longest \in Nat \ {0}
    /\ \A l \in Links : \A v \in DOMAIN l.length : l.length[v] \in 1 .. Longest
<1> DEFINE Of == [l \in Links |-> {l.length[v] : v \in DOMAIN l.length}]
           Sets == {{l.length[v] : v \in DOMAIN l.length} : l \in Links}
<1>1. IsFiniteSet(Sets)
    <2>1. Of \in Surjection(Links, Sets)
        BY DEF Surjection
    <2> QED BY <2>1, FS_Surjection, LinksAssumption
<1>2. \A T \in Sets : IsFiniteSet(T)
    <2> SUFFICES ASSUME NEW l \in Links PROVE IsFiniteSet({l.length[v] : v \in DOMAIN l.length})
        OBVIOUS
    <2>1. IsFiniteSet(DOMAIN l.length)
        BY LinksAssumption, VersionsAssumption, FS_Subset
    <2>2. [v \in DOMAIN l.length |-> l.length[v]] \in Surjection(DOMAIN l.length, {l.length[v] : v \in DOMAIN l.length})
        BY DEF Surjection
    <2> QED BY <2>1, <2>2, FS_Surjection
<1>3. IsFiniteSet(Lengths)
    BY <1>1, <1>2, FS_UNION DEF Lengths
<1>4. \A l \in Links : \A v \in DOMAIN l.length : l.length[v] \in Nat \ {0} /\ l.length[v] \in Lengths
    BY LinksAssumption DEF Lengths
<1>5. Lengths \in SUBSET Nat /\ Lengths # {} /\ 0 \notin Lengths
    <2>1. \A T \in Sets : T \in SUBSET (Nat \ {0})
        BY <1>4
    <2>2. Lengths \in SUBSET (Nat \ {0})
        BY <2>1 DEF Lengths
    <2>3. Lengths # {}
        BY <1>4, LinksAssumption
    <2> QED BY <2>2, <2>3
<1>6. Longest = Max(Lengths)
    BY DEF Longest, Lengths
<1>7. Longest \in Lengths /\ \A y \in Lengths : y <= Longest
    BY <1>3, <1>5, <1>6, MaxIs
<1>8. Longest \in Nat \ {0}
    BY <1>5, <1>7
<1>9. ASSUME NEW l \in Links, NEW v \in DOMAIN l.length PROVE l.length[v] \in 1 .. Longest
    <2>1. l.length[v] \in Nat \ {0} /\ l.length[v] <= Longest
        BY <1>4, <1>7
    <2> QED BY <1>8, <2>1
<1> QED BY <1>8, <1>9

(***************************************************************************)
(* The inductive invariant                                                 *)
(***************************************************************************)
\* Everything but an unpinned link with validators whose first stream may be called slow
\* before its first byte: there two versions can be joined (the run transfer_stalled).
Steady == link.pin # None \/ ~link.labelled \/ ~link.stalls
Single == link.pin = None /\ Steady

Held(w) == {b \in Blocks : b < w.prefix \/ \E r \in w.runs : In(b, r)}
Noted(c) == {b \in Blocks : b < c.received \/ \E r \in c.runs : In(b, r)}

\* Ranges past a prefix hold blocks, and none of them twice.
Apart(prefix, runs) ==
    /\ \A r \in runs : r.start < r.end /\ prefix <= r.start
    /\ \A r \in runs, q \in runs, b \in Blocks : In(b, r) /\ In(b, q) => r = q

\* Which of the variables are in use in which part of a download.
PcInv ==
    /\ writer # None <=> pc \in {"stream", "split"}
    /\ pc = "stream" => writer.runs = {}
    /\ pc = "split" => writer.splits
    /\ pc # "split" => /\ \A i \in Streams : share[i] = None /\ answer[i] = None
                       /\ free = {} /\ pieced = FALSE

\* Whose bytes the partial file holds.  A file of one version has ranges past its prefix
\* only once bytes came.
WriterInv ==
    writer # None =>
        /\ writer.version \in seen /\ (writer.splits => Proven)
        /\ Apart(writer.prefix, writer.runs)
        /\ Single /\ writer.runs # {} => writer.prefix > 0
        /\ \A b \in Held(writer) :
             /\ Single => file[b] = writer.version
             /\ restarted => file[b] \in seen
             /\ ~writer.resumed /\ ~pieced => file[b] = writer.version

\* And whose bytes its checkpoint vouches for.
RecordInv ==
    record # None =>
        /\ Apart(record.received, record.runs)
        /\ Single /\ record.runs # {} => record.received > 0
        /\ \A b \in Noted(record) :
             /\ Single => record.sum[b] = record.label
             /\ restarted => record.sum[b] \in seen

\* Block b is in the range stream i has.
Owns(sh, i, b) == sh[i] # None /\ sh[i].next <= b /\ b < sh[i].end

\* Every block is held, in the range of one stream, or in one free range.
Parted(sh, fr, held, total) ==
    \A b \in Blocks :
        /\ b < total => \/ b \in held
                        \/ \E i \in Streams : Owns(sh, i, b)
                        \/ \E r \in fr : In(b, r)
        /\ \A i \in Streams : Owns(sh, i, b) =>
             /\ b \notin held
             /\ \A j \in Streams : Owns(sh, j, b) => i = j
             /\ \A r \in fr : ~In(b, r)
        /\ \A r \in fr : In(b, r) =>
             /\ b \notin held
             /\ \A q \in fr : In(b, q) => r = q

\* Ranges end within the file, and an answer that runs on past its range to the end of the
\* file is in hand.
Reaching(sh, fr, ans, total) ==
    /\ \A i \in Streams : sh[i] = None => ans[i] = None
    /\ \A i \in Streams : sh[i] # None =>
         /\ sh[i].next <= sh[i].end /\ sh[i].end <= total
         /\ ans[i] # None => sh[i].end <= ans[i].end
         /\ sh[i].open => sh[i].next < sh[i].end /\ ans[i] # None /\ ans[i].end = total
    /\ \A r \in fr : r.start < r.end /\ r.end <= total

\* The streams of a split download, and whose bytes their answers bring.
BoardInv ==
    pc = "split" =>
        /\ Single => writer.prefix > 0
        /\ Parted(share, free, Held(writer), Total)
        /\ Reaching(share, free, answer, Total)
        /\ \A i \in Streams :
             /\ answer[i] # None => answer[i].version \in seen
             /\ answer[i] # None /\ (link.pin = None \/ ~pieced) => answer[i].version = writer.version
             /\ share[i] # None /\ ~pieced => answer[i] # None

IInv ==
    /\ TypeOK /\ PcInv /\ WriterInv /\ RecordInv /\ BoardInv
    /\ Steady => OneVersion
    /\ BlamedRightly

-----------------------------------------------------------------------------
(***************************************************************************)
(* The links, the ranges and the writer                                    *)
(***************************************************************************)
\* What is known of a link.
LEMMA LinkFacts ==
    ASSUME link \in Links
    PROVE  /\ Served \subseteq Versions /\ Served # {}
           /\ \A v \in Served : link.length[v] \in 1 .. Longest
           /\ link.pin = None \/ link.pin \in Served
           /\ Longest \in Nat \ {0}
BY LongestBounds, LinksAssumption DEF Served

\* What is known of blocks and ranges.
LEMMA BlockFacts ==
    /\ \A b : b \in Blocks <=> b \in Nat /\ b < Longest
    /\ \A r \in Ranges : r.start \in Nat /\ r.start < Longest /\ r.end \in Nat \ {0} /\ r.end <= Longest
    /\ \A s \in Blocks, e \in 1 .. Longest : [start |-> s, end |-> e] \in Ranges
BY LongestBounds DEF Blocks, Ranges

\* The blocks ranges cover.
LEMMA CoveredIs ==
    ASSUME NEW runs
    PROVE  \A b : b \in Covered(runs) <=> b \in Blocks /\ \E r \in runs : In(b, r)
BY DEF Covered

\* absorb runs on over every range the prefix reaches, and stops where no range starts.
LEMMA AbsorbedIs ==
    ASSUME NEW n \in 0 .. Longest, NEW runs \in SUBSET Ranges
    PROVE  /\ Absorbed(n, runs) \in n .. Longest
           /\ \A b \in Blocks : n <= b /\ b < Absorbed(n, runs) => \E r \in runs : In(b, r)
           /\ \A r \in runs : r.start <= Absorbed(n, runs) => r.end <= Absorbed(n, runs)
<1> DEFINE E == {e \in n .. Longest : \A b \in Blocks : n <= b /\ b < e => b \in Covered(runs)}
           P == Absorbed(n, runs)
<1>0. Longest \in Nat /\ n \in Nat /\ n <= Longest
    BY LongestBounds
<1>1. n \in E
    BY <1>0, BlockFacts
<1>2. E \in SUBSET Nat /\ IsFiniteSet(E)
    <2>1. E \in SUBSET (0 .. Longest)
        BY <1>0
    <2> QED BY <1>0, <2>1, BoundedFinite
<1>3. P \in E /\ \A e \in E : e <= P
    BY <1>1, <1>2, MaxIs DEF Absorbed
<1>4. P \in n .. Longest
    BY <1>3
<1>5. \A b \in Blocks : n <= b /\ b < P => \E r \in runs : In(b, r)
    BY <1>3, CoveredIs
<1>6. ASSUME NEW r \in runs, r.start <= P PROVE r.end <= P
    <2> SUFFICES ASSUME ~(r.end <= P) PROVE FALSE
        OBVIOUS
    <2>1. r.start \in Nat /\ r.end \in Nat /\ r.end <= Longest
        BY BlockFacts
    <2>2. \A b \in Blocks : n <= b /\ b < r.end => b \in Covered(runs)
        <3> SUFFICES ASSUME NEW b \in Blocks, n <= b, b < r.end PROVE b \in Covered(runs)
            OBVIOUS
        <3>1. b \in Nat
            BY BlockFacts
        <3>2. CASE b < P
            BY <1>3, <3>2
        <3>3. CASE ~(b < P)
            <4>1. In(b, r)
                BY <1>4, <1>6, <2>1, <3>1, <3>3, <1>0 DEF In
            <4> QED BY <4>1, CoveredIs
        <3> QED BY <3>2, <3>3
    <2>3. r.end \in E
        BY <1>0, <1>4, <2>1, <2>2
    <2> QED BY <1>3, <2>3
<1> QED BY <1>4, <1>5, <1>6

\* The blocks a writer holds.
LEMMA HeldIs ==
    ASSUME NEW w
    PROVE  \A b \in Blocks : b \in Held(w) <=> b < w.prefix \/ \E r \in w.runs : In(b, r)
BY DEF Held

\* What is known of a writer.
LEMMA WriterFacts ==
    ASSUME NEW w \in PartialWriter
    PROVE  /\ w.prefix \in Nat /\ w.prefix <= Longest /\ w.runs \in SUBSET Ranges
           /\ w.version \in Versions /\ w.splits \in BOOLEAN /\ w.resumed \in BOOLEAN
           /\ w # None
BY LongestBounds, NoneAssumption DEF PartialWriter

\* A block nobody has written yet is held once it is written, and nothing else changes.
LEMMA WrittenHolds ==
    ASSUME NEW w \in PartialWriter, NEW at \in Blocks, at \notin Held(w), Apart(w.prefix, w.runs)
    PROVE  /\ Written(w, at) \in PartialWriter
           /\ Held(Written(w, at)) = Held(w) \union {at}
           /\ Apart(Written(w, at).prefix, Written(w, at).runs)
           /\ w.prefix <= Written(w, at).prefix
           /\ Written(w, at).version = w.version
           /\ Written(w, at).splits = w.splits /\ Written(w, at).resumed = w.resumed
           /\ at = w.prefix => Written(w, at).runs \subseteq w.runs
<1> DEFINE W == Written(w, at)
<1>1. /\ w.prefix \in Nat /\ w.prefix <= Longest /\ w.runs \in SUBSET Ranges
      /\ at \in Nat /\ at < Longest /\ Longest \in Nat
      /\ w.prefix <= at /\ \A r \in w.runs : ~In(at, r)
    BY WriterFacts, BlockFacts, LongestBounds, HeldIs
<1>2. CASE at = w.prefix
    <2> DEFINE P == Absorbed(at + 1, w.runs)
    <2>1. /\ P \in at + 1 .. Longest
          /\ \A b \in Blocks : at + 1 <= b /\ b < P => \E r \in w.runs : In(b, r)
          /\ \A r \in w.runs : r.start <= P => r.end <= P
        BY <1>1, AbsorbedIs
    <2>2. W = [w EXCEPT !.prefix = P, !.runs = {r \in @ : r.start > P}]
        BY <1>2 DEF Written
    <2> HIDE DEF P
    <2>3. /\ W \in PartialWriter /\ W.prefix = P /\ W.runs = {r \in w.runs : r.start > P}
          /\ W.version = w.version /\ W.splits = w.splits /\ W.resumed = w.resumed
        <3>1. P \in 0 .. Longest
            BY <1>1, <2>1
        <3>2. {r \in w.runs : r.start > P} \in SUBSET Ranges
            BY <1>1
        <3> QED BY <2>2, <3>1, <3>2 DEF PartialWriter
    <2> HIDE DEF W
    <2>4. ASSUME NEW b \in Blocks PROVE b \in Held(W) <=> b \in Held(w) \union {at}
        <3>1. b \in Nat
            BY BlockFacts
        <3>2. b \in Held(W) <=> b < P \/ \E r \in w.runs : r.start > P /\ In(b, r)
            BY <2>3, HeldIs
        <3>3. b \in Held(w) <=> b < at \/ \E r \in w.runs : In(b, r)
            BY <1>2, HeldIs
        <3>4. \A r \in w.runs : In(b, r) => r.start > P \/ b < P
            BY <2>1, <3>1, <1>1, BlockFacts DEF In
        <3>5. b < P => b < at \/ b = at \/ \E r \in w.runs : In(b, r)
            BY <1>1, <2>1, <3>1
        <3>6. b < at \/ b = at => b < P
            BY <1>1, <2>1, <3>1
        <3> QED BY <3>2, <3>3, <3>4, <3>5, <3>6
    <2>5. Held(W) = Held(w) \union {at}
        BY <2>4 DEF Held
    <2>6. Apart(W.prefix, W.runs)
        BY <1>1, <2>1, <2>3, BlockFacts DEF Apart
    <2> QED BY <1>1, <1>2, <2>1, <2>3, <2>5, <2>6 DEF W
<1>3. CASE at # w.prefix
    <2> DEFINE Before == {r \in w.runs : r.end = at}
               c == CHOOSE r \in w.runs : r.end = at
               s == IF \E r \in w.runs : r.end = at THEN c.start ELSE at
               n == [start |-> s, end |-> at + 1]
    <2>1. W = [w EXCEPT !.runs = {r \in @ : r.end # at} \union {n}]
        BY <1>3 DEF Written
    <2>2. /\ s \in Nat /\ s <= at /\ w.prefix <= s
          /\ \A b \in Blocks : In(b, n) <=> b = at \/ \E r \in Before : In(b, r)
          /\ \A r \in Before, q \in w.runs, b \in Blocks : In(b, n) /\ In(b, q) => q = r
        <3>1. CASE \E r \in w.runs : r.end = at
            <4>1. c \in w.runs /\ c.end = at /\ s = c.start
                BY <3>1
            <4> HIDE DEF c
            <4>2. c.start \in Nat /\ c.start < at /\ w.prefix <= c.start
                BY <1>1, <4>1, BlockFacts DEF Apart
            <4>3. at - 1 \in Blocks /\ In(at - 1, c)
                BY <1>1, <4>1, <4>2, BlockFacts DEF In
            <4>4. \A r \in Before : r = c
                <5> SUFFICES ASSUME NEW r \in Before PROVE r = c
                    OBVIOUS
                <5>1. r \in w.runs /\ r.start \in Nat /\ r.start < at /\ r.end = at
                    BY <1>1, BlockFacts DEF Apart
                <5>2. In(at - 1, r)
                    BY <1>1, <5>1 DEF In
                <5> QED BY <4>1, <4>3, <5>1, <5>2 DEF Apart
            <4>5. \A b \in Blocks : In(b, n) <=> b = at \/ In(b, c)
                BY <1>1, <4>1, <4>2, BlockFacts DEF In
            <4>6. Before = {c}
                BY <4>1, <4>4
            <4> HIDE DEF n, s, Before
            <4>7. \A q \in w.runs, b \in Blocks : In(b, n) /\ In(b, q) => q = c
                BY <1>1, <4>1, <4>5 DEF Apart
            <4>8. s \in Nat /\ s <= at /\ w.prefix <= s
                BY <1>1, <4>1, <4>2
            <4> QED BY <4>5, <4>6, <4>7, <4>8
        <3>2. CASE ~\E r \in w.runs : r.end = at
            <4>1. s = at /\ Before = {}
                BY <3>2
            <4>2. \A b \in Blocks : In(b, n) <=> b = at
                BY <1>1, <4>1, BlockFacts DEF In
            <4> QED BY <1>1, <4>1, <4>2
        <3> QED BY <3>1, <3>2
    <2>3. n \in Ranges /\ n.start = s /\ n.end = at + 1
        BY <1>1, <2>2, BlockFacts
    <2> HIDE DEF n, s, c
    <2>4. /\ W \in PartialWriter /\ W.prefix = w.prefix
          /\ W.runs = {r \in w.runs : r.end # at} \union {n}
          /\ W.version = w.version /\ W.splits = w.splits /\ W.resumed = w.resumed
        BY <1>1, <2>1, <2>3 DEF PartialWriter
    <2> HIDE DEF W
    <2>5. ASSUME NEW b \in Blocks PROVE b \in Held(W) <=> b \in Held(w) \union {at}
        <3>1. b \in Held(W) <=> b < w.prefix \/ In(b, n) \/ \E r \in w.runs : r.end # at /\ In(b, r)
            BY <2>4, HeldIs
        <3>2. b \in Held(w) <=> b < w.prefix \/ \E r \in w.runs : In(b, r)
            BY HeldIs
        <3> QED BY <2>2, <3>1, <3>2
    <2>6. Held(W) = Held(w) \union {at}
        BY <2>5 DEF Held
    <2>7. Apart(W.prefix, W.runs)
        <3>1. ASSUME NEW r \in W.runs PROVE r.start < r.end /\ W.prefix <= r.start
            BY <1>1, <2>2, <2>3, <2>4 DEF Apart
        <3>2. ASSUME NEW r \in W.runs, NEW q \in W.runs, NEW b \in Blocks, In(b, r), In(b, q)
              PROVE  r = q
            <4>1. ASSUME NEW x \in w.runs, x.end # at PROVE ~(In(b, n) /\ In(b, x))
                <5> SUFFICES ASSUME In(b, n), In(b, x) PROVE FALSE
                    OBVIOUS
                <5>1. b # at
                    BY <1>1
                <5>2. PICK y \in Before : In(b, y)
                    BY <2>2, <5>1
                <5> QED BY <2>2, <4>1, <5>2
            <4> QED BY <2>4, <3>2, <4>1 DEF Apart
        <3> QED BY <3>1, <3>2 DEF Apart
    <2> QED BY <1>1, <1>3, <2>4, <2>6, <2>7 DEF W
<1> QED BY <1>2, <1>3
\* What a checkpoint records is what the writer holds.
LEMMA SavedNotes ==
    ASSUME NEW w \in PartialWriter, file \in Contents
    PROVE  /\ Saved(w) \in Record /\ Saved(w).label = w.version
           /\ Saved(w).received = w.prefix /\ Saved(w).runs = w.runs
           /\ Noted(Saved(w)) = Held(w)
           /\ \A b \in Held(w) : Saved(w).sum[b] = file[b]
<1>1. w.prefix \in 0 .. Longest /\ w.runs \in SUBSET Ranges /\ w.version \in Versions
    BY DEF PartialWriter
<1> DEFINE sum == [b \in Blocks |-> IF b < w.prefix \/ b \in Covered(w.runs) THEN file[b] ELSE Hole]
<1>2. sum \in Contents
    BY DEF Contents
<1>3. Saved(w) = [received |-> w.prefix, runs |-> w.runs, label |-> w.version, sum |-> sum]
    BY DEF Saved
<1>4. \A b \in Held(w) : sum[b] = file[b]
    BY CoveredIs DEF Held
<1> HIDE DEF sum
<1>5. Saved(w) \in Record /\ Saved(w).label = w.version
    BY <1>1, <1>2, <1>3 DEF Record
<1>6. /\ Saved(w).received = w.prefix /\ Saved(w).runs = w.runs /\ Saved(w).sum = sum
    BY <1>3
<1> QED BY <1>4, <1>5, <1>6 DEF Noted, Held

-----------------------------------------------------------------------------
(***************************************************************************)
(* The gaps, and what the board of a split download does with them         *)
(***************************************************************************)
\* The gaps are the blocks the writer does not hold, each in one of them.
LEMMA GapsPart ==
    ASSUME NEW prefix \in 0 .. Longest, NEW runs \in SUBSET Ranges, NEW total \in 1 .. Longest
    PROVE  LET gaps == Gaps(prefix, runs, total)
           IN  /\ gaps \in SUBSET Ranges
               /\ \A g \in gaps : g.start < g.end /\ g.end <= total
               /\ \A b \in Blocks :
                    /\ (\E g \in gaps : In(b, g))
                         <=> prefix <= b /\ b < total /\ ~\E r \in runs : In(b, r)
                    /\ \A g \in gaps, h \in gaps : In(b, g) /\ In(b, h) => g = h
<1> DEFINE H == {b \in Blocks : prefix <= b /\ b < total /\ b \notin Covered(runs)}
           S == {b \in H : b = prefix \/ b - 1 \notin H}
           E(s) == {e \in s + 1 .. total : e \notin H}
           M(s) == Min(E(s))
           G == {[start |-> s, end |-> M(s)] : s \in S}
<1>1. Gaps(prefix, runs, total) = G
    BY DEF Gaps
<1>2. /\ prefix \in Nat /\ total \in Nat /\ total <= Longest /\ Longest \in Nat
      /\ \A b \in H : b \in Nat /\ b < Longest /\ prefix <= b /\ b < total
    BY LongestBounds, BlockFacts
<1>3. \A b \in Blocks : b \in H <=> prefix <= b /\ b < total /\ ~\E r \in runs : In(b, r)
    BY CoveredIs
<1> HIDE DEF H
<1>4. ASSUME NEW s \in S
      PROVE  /\ M(s) \in s + 1 .. total /\ M(s) \notin H
             /\ \A e \in s .. M(s) - 1 : e \in H
    <2>1. s \in H /\ s \in Nat /\ s < total
        BY <1>2
    <2>2. total \in E(s)
        BY <1>2, <2>1
    <2>3. E(s) \in SUBSET (0 .. total)
        BY <1>2, <2>1
    <2>4. E(s) \in SUBSET Nat /\ IsFiniteSet(E(s))
        BY <1>2, <2>3, BoundedFinite
    <2> HIDE DEF E
    <2>5. M(s) \in E(s) /\ \A e \in E(s) : M(s) <= e
        BY <2>2, <2>4, MinIs
    <2>6. M(s) \in s + 1 .. total /\ M(s) \notin H
        BY <2>5 DEF E
    <2> HIDE DEF M
    <2>7. ASSUME NEW e \in s .. M(s) - 1 PROVE e \in H
        <3>1. CASE e = s
            BY <2>1, <3>1
        <3>2. CASE e # s
            <4>1. e \in s + 1 .. total /\ ~(M(s) <= e)
                BY <1>2, <2>1, <2>6, <3>2
            <4> QED BY <2>5, <4>1 DEF E
        <3> QED BY <3>1, <3>2
    <2> QED BY <2>6, <2>7
<1> HIDE DEF M
<1>5. ASSUME NEW s \in S
      PROVE  /\ s \in Blocks /\ s \in Nat /\ M(s) \in Nat /\ s < M(s) /\ M(s) <= total
             /\ [start |-> s, end |-> M(s)] \in Ranges
             /\ \A b \in Blocks : s <= b /\ b < M(s) => b \in H
    <2>1. s \in H /\ s \in Blocks /\ s \in Nat
        BY <1>2 DEF H
    <2>2. M(s) \in Nat /\ s < M(s) /\ M(s) <= total /\ M(s) \in 1 .. Longest
        BY <1>2, <1>4, <2>1
    <2>3. \A b \in Blocks : s <= b /\ b < M(s) => b \in H
        BY <1>4, <2>1, <2>2, BlockFacts
    <2> QED BY <2>1, <2>2, <2>3, BlockFacts
<1>6. ASSUME NEW b \in H PROVE \E s \in S : s <= b /\ b < M(s)
    <2> DEFINE D == {d \in 0 .. b : \A x \in d .. b : x \in H}
               m == Min(D)
    <2>1. b \in D /\ D \in SUBSET (0 .. b)
        BY <1>2
    <2>2. D \in SUBSET Nat /\ IsFiniteSet(D)
        BY <1>2, <2>1, BoundedFinite
    <2>3. m \in D /\ \A d \in D : m <= d
        BY <2>1, <2>2, MinIs
    <2> HIDE DEF m
    <2>4. m \in Nat /\ m <= b /\ m \in H /\ \A x \in m .. b : x \in H
        BY <1>2, <2>3
    <2>5. m = prefix \/ m - 1 \notin H
        <3> SUFFICES ASSUME m # prefix, m - 1 \in H PROVE FALSE
            OBVIOUS
        <3>1. m - 1 \in Nat
            BY <1>2
        <3>2. m - 1 \in D
            BY <1>2, <2>4, <3>1
        <3> QED BY <2>3, <2>4, <3>2
    <2>6. m \in S
        BY <2>4, <2>5
    <2>7. b < M(m)
        BY <1>2, <1>4, <1>5, <2>4, <2>6
    <2> QED BY <2>4, <2>6, <2>7
<1>7. ASSUME NEW s \in S, NEW t \in S, NEW b \in Blocks, s <= b, b < M(s), t <= b, b < M(t)
      PROVE  s = t
    <2>1. ASSUME NEW x \in S, NEW y \in S, x < y, y <= b, b < M(x) PROVE FALSE
        <3>1. x \in Nat /\ y \in Nat /\ b \in Nat /\ prefix <= x /\ x \in H /\ y \in H /\ M(x) \in Nat
            BY <1>2, <1>5, BlockFacts
        <3>2. y - 1 \in x .. M(x) - 1
            BY <2>1, <3>1
        <3>3. y - 1 \in H
            BY <1>4, <3>2
        <3>4. y # prefix
            BY <1>2, <2>1, <3>1
        <3> QED BY <3>3, <3>4
    <2>2. s \in Nat /\ t \in Nat
        BY <1>5
    <2> QED BY <1>7, <2>1, <2>2
<1>8. \A g \in G : /\ g \in Ranges /\ g.start \in S /\ g.end = M(g.start)
                   /\ g.start < g.end /\ g.end <= total
    BY <1>5
<1>9. ASSUME NEW b \in Blocks PROVE (\E g \in G : In(b, g)) <=> b \in H
    <2>1. ASSUME NEW g \in G, In(b, g) PROVE b \in H
        BY <1>5, <1>8, <2>1 DEF In
    <2>2. ASSUME b \in H PROVE \E g \in G : In(b, g)
        <3>1. PICK s \in S : s <= b /\ b < M(s)
            BY <1>6, <2>2
        <3>2. [start |-> s, end |-> M(s)] \in G /\ In(b, [start |-> s, end |-> M(s)])
            BY <3>1 DEF In
        <3> QED BY <3>2
    <2> QED BY <2>1, <2>2
<1>10. ASSUME NEW b \in Blocks, NEW g \in G, NEW h \in G, In(b, g), In(b, h) PROVE g = h
    <2>1. g.start = h.start
        BY <1>7, <1>8, <1>10 DEF In
    <2>2. /\ \E s \in S : g = [start |-> s, end |-> M(s)]
          /\ \E s \in S : h = [start |-> s, end |-> M(s)]
        OBVIOUS
    <2> QED BY <2>1, <2>2
<1> QED BY <1>1, <1>3, <1>8, <1>9, <1>10
\* What is known of the ranges streams have.
LEMMA ShareFacts ==
    /\ \A x \in Share : /\ x \in [next : Nat, end : Nat, open : BOOLEAN] /\ x # None
                            /\ x.next \in Nat /\ x.next <= Longest
                            /\ x.end \in Nat \ {0} /\ x.end <= Longest /\ x.open \in BOOLEAN
    /\ \A n \in 0 .. Longest, e \in 1 .. Longest, o \in BOOLEAN :
         [next |-> n, end |-> e, open |-> o] \in Share
    /\ None \notin Share /\ None \notin PartAnswer /\ First \in Streams
BY LongestBounds, NoneAssumption, BoundsAssumption DEF Share, First, Streams

\* A range no stream has goes to the answer that runs on into it, or is free.
LEMMA ReleaseParts ==
    ASSUME NEW sh \in [Streams -> Share \union {None}], free \in SUBSET Ranges,
           NEW r \in Ranges, NEW held, NEW total \in 1 .. Longest, NEW ans,
           r.start < r.end, r.end <= total,
           Parted(sh, free, held \union {b \in Blocks : In(b, r)}, total),
           Reaching(sh, free, ans, total),
           \A b \in Blocks : In(b, r) => b \notin held,
           Release(sh, r)
    PROVE  /\ share' \in [Streams -> Share \union {None}] /\ free' \in SUBSET Ranges
           /\ \A i \in Streams : share'[i] = None <=> sh[i] = None
           /\ Parted(share', free', held, total)
           /\ Reaching(share', free', ans, total)
<1> DEFINE Grows(i) == sh[i] # None /\ sh[i].open /\ sh[i].end = r.start
<1>1. /\ r.start \in Blocks /\ r.start \in Nat /\ r.end \in 1 .. Longest /\ total \in Nat /\ Longest \in Nat
    BY BlockFacts, LongestBounds DEF Ranges
<1>2. CASE \E i \in Streams : Grows(i)
    <2>1. /\ share' = [i \in Streams |-> IF Grows(i) THEN [sh[i] EXCEPT !.end = r.end] ELSE sh[i]]
          /\ free' = free
        BY <1>2 DEF Release
    <2>2. ASSUME NEW i \in Streams
          PROVE  /\ share'[i] \in Share \union {None}
                 /\ share'[i] = None <=> sh[i] = None
                 /\ sh[i] # None => share'[i].next = sh[i].next /\ share'[i].open = sh[i].open
                 /\ Grows(i) => share'[i].end = r.end
                 /\ ~Grows(i) => share'[i] = sh[i]
        <3>1. CASE Grows(i)
            <4>1. sh[i] \in Share
                BY <3>1
            <4>2. share'[i] = [sh[i] EXCEPT !.end = r.end]
                BY <2>1, <3>1
            <4>3. [sh[i] EXCEPT !.end = r.end] \in Share
                BY <1>1, <4>1 DEF Share
            <4>4. /\ [sh[i] EXCEPT !.end = r.end].next = sh[i].next
                  /\ [sh[i] EXCEPT !.end = r.end].open = sh[i].open
                  /\ [sh[i] EXCEPT !.end = r.end].end = r.end
                BY <4>1 DEF Share
            <4> QED BY <3>1, <4>1, <4>2, <4>3, <4>4, ShareFacts
        <3>2. CASE ~Grows(i)
            BY <2>1, <3>2
        <3> QED BY <3>1, <3>2
    <2>3. PICK g \in Streams : Grows(g)
        BY <1>2
    <2>4. \A i \in Streams : Grows(i) => i = g
        <3> SUFFICES ASSUME NEW i \in Streams, Grows(i) PROVE i = g
            OBVIOUS
        <3>1. sh[i] \in Share /\ sh[g] \in Share
            BY <2>3
        <3>2. /\ sh[i].next < sh[i].end /\ sh[i].end = r.start
              /\ sh[g].next < sh[g].end /\ sh[g].end = r.start
            BY <2>3 DEF Reaching
        <3>3. r.start - 1 \in Blocks /\ Owns(sh, i, r.start - 1) /\ Owns(sh, g, r.start - 1)
            BY <1>1, <2>3, <3>1, <3>2, ShareFacts, BlockFacts DEF Owns
        <3> QED BY <3>3 DEF Parted
    <2>5. ASSUME NEW i \in Streams, NEW b \in Blocks
          PROVE  Owns(share', i, b) <=> Owns(sh, i, b) \/ (i = g /\ In(b, r))
        <3>1. b \in Nat
            BY BlockFacts
        <3>2. CASE i = g
            <4>1. /\ sh[g] \in Share /\ sh[g].end = r.start /\ sh[g].next < sh[g].end
                  /\ share'[g] # None /\ share'[g].next = sh[g].next /\ share'[g].end = r.end
                BY <2>2, <2>3 DEF Reaching
            <4> QED BY <1>1, <3>1, <3>2, <4>1, <2>3, ShareFacts DEF Owns, In
        <3>3. CASE i # g
            <4>1. share'[i] = sh[i]
                BY <2>2, <2>4, <3>3
            <4> QED BY <3>3, <4>1 DEF Owns
        <3> QED BY <3>2, <3>3
    <2>6. Parted(share', free', held, total)
        <3> SUFFICES ASSUME NEW b \in Blocks
                     PROVE  /\ b < total => \/ b \in held
                                            \/ \E i \in Streams : Owns(share', i, b)
                                            \/ \E q \in free : In(b, q)
                            /\ \A i \in Streams : Owns(share', i, b) =>
                                 /\ b \notin held
                                 /\ \A j \in Streams : Owns(share', j, b) => i = j
                                 /\ \A q \in free : ~In(b, q)
                            /\ \A q \in free : In(b, q) =>
                                 /\ b \notin held
                                 /\ \A p \in free : In(b, p) => q = p
            BY <2>1 DEF Parted
        <3>1. CASE In(b, r)
            <4>1. /\ b \notin held /\ \A i \in Streams : ~Owns(sh, i, b)
                  /\ \A q \in free : ~In(b, q)
                BY <3>1 DEF Parted
            <4> QED BY <2>5, <3>1, <4>1
        <3>2. CASE ~In(b, r)
            BY <2>5, <3>2 DEF Parted
        <3> QED BY <3>1, <3>2
    <2>7. Reaching(share', free', ans, total)
        <3>1. ASSUME NEW i \in Streams, share'[i] # None
              PROVE  /\ share'[i].next <= share'[i].end /\ share'[i].end <= total
                     /\ ans[i] # None => share'[i].end <= ans[i].end
                     /\ share'[i].open => /\ share'[i].next < share'[i].end
                                          /\ ans[i] # None /\ ans[i].end = total
            <4>1. CASE Grows(i)
                <5>1. /\ sh[i] \in Share /\ sh[i].open /\ sh[i].end = r.start
                      /\ sh[i].next < sh[i].end /\ ans[i] # None /\ ans[i].end = total
                    BY <4>1 DEF Reaching
                <5>2. share'[i].end = r.end /\ share'[i].next = sh[i].next
                    BY <2>2, <4>1
                <5> QED BY <1>1, <5>1, <5>2, ShareFacts
            <4>2. CASE ~Grows(i)
                BY <2>2, <3>1, <4>2 DEF Reaching
            <4> QED BY <4>1, <4>2
        <3>2. \A i \in Streams : share'[i] = None => ans[i] = None
            BY <2>2 DEF Reaching
        <3> QED BY <2>1, <3>1, <3>2 DEF Reaching
    <2>8. share' \in [Streams -> Share \union {None}]
        BY <2>1, <2>2
    <2> QED BY <2>1, <2>2, <2>6, <2>7, <2>8
<1>3. CASE ~\E i \in Streams : Grows(i)
    <2>1. share' = sh /\ free' = free \union {r}
        BY <1>3 DEF Release
    <2>2. Parted(sh, free', held, total)
        <3> SUFFICES ASSUME NEW b \in Blocks
                     PROVE  /\ b < total => \/ b \in held
                                            \/ \E i \in Streams : Owns(sh, i, b)
                                            \/ \E q \in free' : In(b, q)
                            /\ \A i \in Streams : Owns(sh, i, b) =>
                                 /\ b \notin held
                                 /\ \A j \in Streams : Owns(sh, j, b) => i = j
                                 /\ \A q \in free' : ~In(b, q)
                            /\ \A q \in free' : In(b, q) =>
                                 /\ b \notin held
                                 /\ \A p \in free' : In(b, p) => q = p
            BY DEF Parted
        <3>1. CASE In(b, r)
            <4>1. /\ b \notin held /\ \A i \in Streams : ~Owns(sh, i, b)
                  /\ \A q \in free : ~In(b, q)
                BY <3>1 DEF Parted
            <4> QED BY <2>1, <3>1, <4>1
        <3>2. CASE ~In(b, r)
            BY <2>1, <3>2 DEF Parted
        <3> QED BY <3>1, <3>2
    <2>3. Reaching(sh, free', ans, total)
        BY <2>1 DEF Reaching
    <2> QED BY <2>1, <2>2, <2>3
<1> QED BY <1>2, <1>3
\* What a stream has goes on to another answer or is free again, and the stream has nothing.
LEMMA GiveBackParts ==
    ASSUME share \in [Streams -> Share \union {None}], free \in SUBSET Ranges,
           NEW i \in Streams, share[i] # None,
           NEW held, NEW total \in 1 .. Longest, NEW ans,
           ans[i] = None, \A j \in Streams \ {i} : ans[j] = answer[j],
           Parted(share, free, held, total), Reaching(share, free, answer, total),
           GiveBack(i)
    PROVE  /\ share' \in [Streams -> Share \union {None}] /\ free' \in SUBSET Ranges
           /\ \A j \in Streams : share'[j] = None <=> j = i \/ share[j] = None
           /\ Parted(share', free', held, total)
           /\ Reaching(share', free', ans, total)
<1> DEFINE sh == [share EXCEPT ![i] = None]
           r == [start |-> share[i].next, end |-> share[i].end]
<1>1. /\ share[i] \in Share /\ share[i].next \in Nat /\ share[i].end \in 1 .. Longest
      /\ share[i].next <= share[i].end /\ share[i].end <= total /\ Longest \in Nat
    BY ShareFacts, LongestBounds DEF Reaching
<1>2. sh \in [Streams -> Share \union {None}] /\ sh[i] = None /\ \A j \in Streams \ {i} : sh[j] = share[j]
    OBVIOUS
<1> HIDE DEF sh
<1>3. \A j \in Streams, b \in Blocks : Owns(sh, j, b) <=> j # i /\ Owns(share, j, b)
    BY <1>2 DEF Owns
<1>4. Reaching(sh, free, ans, total)
    BY <1>2 DEF Reaching
<1>5. CASE Left(i) > 0
    <2>1. Release(sh, r)
        BY <1>5 DEF GiveBack, sh
    <2>2. share[i].next < share[i].end
        BY <1>1, <1>5, ShareFacts DEF Left
    <2>3. r \in Ranges /\ r.start < r.end /\ r.end <= total
        BY <1>1, <2>2, BlockFacts
    <2>4. \A b \in Blocks : In(b, r) <=> Owns(share, i, b)
        BY <1>1, ShareFacts DEF In, Owns
    <2> HIDE DEF r
    <2>5. Parted(sh, free, held \union {b \in Blocks : In(b, r)}, total)
        BY <1>3, <2>4 DEF Parted
    <2>6. \A b \in Blocks : In(b, r) => b \notin held
        BY <2>4 DEF Parted
    <2> QED BY <1>2, <1>4, <2>1, <2>3, <2>5, <2>6, ReleaseParts
<1>6. CASE ~(Left(i) > 0)
    <2>1. share' = sh /\ free' = free
        BY <1>6 DEF GiveBack, sh
    <2>2. \A b \in Blocks : ~Owns(share, i, b)
        BY <1>1, <1>6, ShareFacts, BlockFacts DEF Left, Owns
    <2>3. Parted(sh, free, held, total)
        BY <1>3, <2>2 DEF Parted
    <2> QED BY <1>2, <1>4, <2>1, <2>3
<1> QED BY <1>5, <1>6

\* What an answer does not bring of a range is given back, and the answer reaches the rest.
LEMMA TrimParts ==
    ASSUME share \in [Streams -> Share \union {None}], free \in SUBSET Ranges,
           NEW i \in Streams, share[i] # None, answer[i] = None,
           NEW end \in 1 .. Longest, share[i].next < end, end <= share[i].end,
           NEW held, NEW total \in 1 .. Longest, NEW ans,
           ans[i] # None, ans[i].end = end, \A j \in Streams \ {i} : ans[j] = answer[j],
           Parted(share, free, held, total), Reaching(share, free, answer, total),
           Trim(i, end)
    PROVE  /\ share' \in [Streams -> Share \union {None}] /\ free' \in SUBSET Ranges
           /\ \A j \in Streams : share'[j] = None <=> share[j] = None
           /\ Parted(share', free', held, total)
           /\ Reaching(share', free', ans, total)
<1> DEFINE sh == [share EXCEPT ![i].end = end]
           r == [start |-> end, end |-> share[i].end]
<1>1. /\ share[i] \in Share /\ share[i].next \in Nat /\ share[i].end \in 1 .. Longest
      /\ share[i].end <= total /\ ~share[i].open /\ end \in Nat /\ Longest \in Nat /\ total \in Nat
    BY ShareFacts, LongestBounds DEF Reaching
<1>2. /\ [share[i] EXCEPT !.end = end] \in Share
      /\ [share[i] EXCEPT !.end = end].next = share[i].next
      /\ [share[i] EXCEPT !.end = end].end = end
      /\ [share[i] EXCEPT !.end = end].open = share[i].open
    BY <1>1 DEF Share
<1>3. /\ sh \in [Streams -> Share \union {None}] /\ sh[i] # None
      /\ sh[i].next = share[i].next /\ sh[i].end = end /\ ~sh[i].open
      /\ \A j \in Streams \ {i} : sh[j] = share[j]
    BY <1>1, <1>2, ShareFacts
<1> HIDE DEF sh
<1>4. Reaching(sh, free, ans, total)
    BY <1>1, <1>3 DEF Reaching
<1>5. CASE end < share[i].end
    <2>1. Release(sh, r)
        BY <1>5 DEF Trim, sh
    <2>2. r \in Ranges /\ r.start < r.end /\ r.end <= total
        BY <1>1, <1>5, BlockFacts
    <2>3. \A b \in Blocks : Owns(share, i, b) <=> Owns(sh, i, b) \/ In(b, r)
        BY <1>1, <1>3, <1>5, BlockFacts DEF In, Owns
    <2>4. \A b \in Blocks : ~(Owns(sh, i, b) /\ In(b, r))
        BY <1>1, <1>3, <1>5, BlockFacts DEF In, Owns
    <2>5. \A j \in Streams \ {i}, b \in Blocks : Owns(sh, j, b) <=> Owns(share, j, b)
        BY <1>3 DEF Owns
    <2> HIDE DEF r
    <2>6. Parted(sh, free, held \union {b \in Blocks : In(b, r)}, total)
        <3> SUFFICES ASSUME NEW b \in Blocks
                     PROVE  /\ b < total => \/ b \in held \/ In(b, r)
                                            \/ \E j \in Streams : Owns(sh, j, b)
                                            \/ \E q \in free : In(b, q)
                            /\ \A j \in Streams : Owns(sh, j, b) =>
                                 /\ b \notin held /\ ~In(b, r)
                                 /\ \A k \in Streams : Owns(sh, k, b) => j = k
                                 /\ \A q \in free : ~In(b, q)
                            /\ \A q \in free : In(b, q) =>
                                 /\ b \notin held /\ ~In(b, r)
                                 /\ \A p \in free : In(b, p) => q = p
            BY DEF Parted
        <3>1. \A j \in Streams : Owns(sh, j, b) => Owns(share, j, b)
            BY <2>3, <2>5
        <3>2. In(b, r) => Owns(share, i, b)
            BY <2>3
        <3>3. \A j \in Streams : Owns(sh, j, b) => ~In(b, r)
            BY <2>3, <2>4, <2>5 DEF Parted
        <3>4. \A j \in Streams : Owns(share, j, b) => Owns(sh, j, b) \/ In(b, r)
            BY <2>3, <2>5
        <3> QED BY <3>1, <3>2, <3>3, <3>4 DEF Parted
    <2>7. \A b \in Blocks : In(b, r) => b \notin held
        BY <2>3 DEF Parted
    <2>8. \A j \in Streams : sh[j] = None <=> share[j] = None
        BY <1>3
    <2> QED BY <1>3, <1>4, <2>1, <2>2, <2>6, <2>7, <2>8, ReleaseParts
<1>6. CASE ~(end < share[i].end)
    <2>1. share' = share /\ free' = free
        BY <1>6 DEF Trim
    <2>2. Reaching(share, free, ans, total)
        BY <1>1, <1>6 DEF Reaching
    <2> QED BY <2>1, <2>2
<1> QED BY <1>5, <1>6

\* A stream without blocks of its own takes the first free range, or half of another's.
LEMMA AssignParts ==
    ASSUME share \in [Streams -> Share \union {None}], free \in SUBSET Ranges,
           NEW i \in Streams, Left(i) = 0,
           NEW held, NEW total \in 1 .. Longest, NEW ans \in [Streams -> PartAnswer \union {None}],
           ans[i] = None, \A j \in Streams \ {i} : ans[j] = answer[j],
           Parted(share, free, held, total), Reaching(share, free, answer, total),
           Assign(i)
    PROVE  /\ share' \in [Streams -> Share \union {None}] /\ free' \in SUBSET Ranges
           /\ pieced' = TRUE
           /\ Parted(share', free', held, total)
           /\ Reaching(share', free', ans, total)
<1>1. Longest \in Nat /\ total \in Nat /\ pieced' = TRUE
    BY LongestBounds DEF Assign
<1>2. \A b \in Blocks : ~Owns(share, i, b)
    BY ShareFacts, BlockFacts DEF Left, Owns
<1>3. CASE free # {}
    <2>1. PICK r \in free : /\ share' = [share EXCEPT ![i] = Given(i, r.start, r.end)]
                            /\ free' = free \ {r}
        BY <1>3 DEF Assign
    <2>2. /\ r.start \in Nat /\ r.start < r.end /\ r.end <= total /\ r.end \in 1 .. Longest
          /\ r.start \in 0 .. Longest
        BY <1>1, BlockFacts DEF Reaching
    <2> DEFINE x == Given(i, r.start, r.end)
    <2>3. x \in Share /\ x.next = r.start /\ x.end = r.end /\ ~x.open
        BY <2>2, ShareFacts DEF Given
    <2> HIDE DEF x
    <2>4. /\ share' \in [Streams -> Share \union {None}] /\ share'[i] = x
          /\ \A j \in Streams \ {i} : share'[j] = share[j]
        BY <2>1, <2>3 DEF x
    <2>5. \A j \in Streams, b \in Blocks :
            Owns(share', j, b) <=> (j # i /\ Owns(share, j, b)) \/ (j = i /\ In(b, r))
        BY <2>3, <2>4, ShareFacts DEF Owns, In
    <2>6. Parted(share', free', held, total)
        <3> SUFFICES ASSUME NEW b \in Blocks
                     PROVE  /\ b < total => \/ b \in held
                                            \/ \E j \in Streams : Owns(share', j, b)
                                            \/ \E q \in free' : In(b, q)
                            /\ \A j \in Streams : Owns(share', j, b) =>
                                 /\ b \notin held
                                 /\ \A k \in Streams : Owns(share', k, b) => j = k
                                 /\ \A q \in free' : ~In(b, q)
                            /\ \A q \in free' : In(b, q) =>
                                 /\ b \notin held
                                 /\ \A p \in free' : In(b, p) => q = p
            BY DEF Parted
        <3>1. CASE In(b, r)
            <4>1. /\ b \notin held /\ \A j \in Streams : ~Owns(share, j, b)
                  /\ \A q \in free' : ~In(b, q)
                BY <2>1, <3>1 DEF Parted
            <4> QED BY <2>5, <3>1, <4>1
        <3>2. CASE ~In(b, r)
            <4>1. \A j \in Streams : Owns(share', j, b) <=> Owns(share, j, b)
                BY <1>2, <2>5, <3>2
            <4>2. \A q \in free : In(b, q) => q \in free'
                BY <2>1, <3>2
            <4> QED BY <2>1, <4>1, <4>2 DEF Parted
        <3> QED BY <3>1, <3>2
    <2>7. Reaching(share', free', ans, total)
        BY <2>1, <2>2, <2>3, <2>4, ShareFacts DEF Reaching
    <2> QED BY <1>1, <2>1, <2>4, <2>6, <2>7
<1>4. CASE free = {}
    <2>1. PICK v \in Streams :
            /\ Victim(v) /\ Left(v) \div 2 >= Piece
            /\ share' = [share EXCEPT ![v].end = @ - Left(v) \div 2,
                                      ![i] = Given(i, share[v].end - Left(v) \div 2, share[v].end)]
            /\ free' = free
        BY <1>4 DEF Assign
    <2> DEFINE half == Left(v) \div 2
               mid == share[v].end - half
               x == Given(i, mid, share[v].end)
               y == [share[v] EXCEPT !.end = mid]
    <2>2. /\ share[v] \in Share /\ Left(v) = share[v].end - share[v].next
          /\ share[v].next \in Nat /\ share[v].end \in Nat /\ share[v].next <= share[v].end
          /\ share[v].end <= total /\ share[v].end <= Longest
        BY <2>1, ShareFacts DEF Victim, Left, Reaching
    <2>3. half \in Nat /\ half >= 1 /\ half < Left(v)
        BY <2>1, <2>2, BoundsAssumption
    <2>4. v # i
        BY <2>3
    <2> HIDE DEF half
    <2>5. /\ mid \in Nat /\ share[v].next < mid /\ mid < share[v].end
          /\ mid \in 1 .. Longest /\ mid \in 0 .. Longest /\ share[v].end \in 1 .. Longest
        BY <1>1, <2>2, <2>3
    <2> HIDE DEF mid
    <2>6. x \in Share /\ x.next = mid /\ x.end = share[v].end /\ ~x.open
        BY <2>5, ShareFacts DEF Given
    <2>7. /\ y \in Share /\ y.next = share[v].next /\ y.end = mid
          /\ y.open = share[v].open
        BY <2>2, <2>5 DEF Share
    <2>8. share' = [share EXCEPT ![v] = y, ![i] = x]
        BY <2>1 DEF mid, half
    <2> HIDE DEF x, y
    <2>9. /\ share' \in [Streams -> Share \union {None}] /\ share'[i] = x /\ share'[v] = y
          /\ \A j \in Streams \ {i, v} : share'[j] = share[j]
        BY <2>4, <2>6, <2>7, <2>8
    <2>10. ASSUME NEW b \in Blocks
           PROVE  /\ Owns(share', i, b) <=> mid <= b /\ b < share[v].end
                  /\ Owns(share', v, b) <=> share[v].next <= b /\ b < mid
                  /\ Owns(share, v, b) <=> share[v].next <= b /\ b < share[v].end
                  /\ \A j \in Streams \ {i, v} : Owns(share', j, b) <=> Owns(share, j, b)
        BY <2>2, <2>6, <2>7, <2>9, ShareFacts DEF Owns
    <2>11. ASSUME NEW b \in Blocks
           PROVE  /\ Owns(share, v, b) <=> Owns(share', i, b) \/ Owns(share', v, b)
                  /\ ~(Owns(share', i, b) /\ Owns(share', v, b))
                  /\ \A j \in Streams \ {i, v} : Owns(share', j, b) <=> Owns(share, j, b)
        BY <2>2, <2>5, <2>10, BlockFacts
    <2>12. Parted(share', free', held, total)
        <3> SUFFICES ASSUME NEW b \in Blocks
                     PROVE  /\ b < total => \/ b \in held
                                            \/ \E j \in Streams : Owns(share', j, b)
                            /\ \A j \in Streams : Owns(share', j, b) =>
                                 /\ b \notin held
                                 /\ \A k \in Streams : Owns(share', k, b) => j = k
            BY <1>4, <2>1 DEF Parted
        <3>1. /\ b < total => b \in held \/ \E j \in Streams : Owns(share, j, b)
              /\ \A j \in Streams : Owns(share, j, b) =>
                   /\ b \notin held
                   /\ \A k \in Streams : Owns(share, k, b) => j = k
            BY <1>4 DEF Parted
        <3>2. \A j \in Streams : Owns(share, j, b) => \E k \in Streams : Owns(share', k, b)
            BY <1>2, <2>11
        <3>3. \A j \in Streams : Owns(share', j, b) => b \notin held
            BY <2>11, <3>1
        <3>4. ASSUME NEW j \in Streams, NEW k \in Streams, Owns(share', j, b), Owns(share', k, b)
              PROVE  j = k
            BY <2>11, <3>1, <3>4
        <3> QED BY <3>1, <3>2, <3>3, <3>4
    <2>13. Reaching(share', free', ans, total)
        <3>1. ASSUME NEW j \in Streams, share'[j] # None
              PROVE  /\ share'[j].next <= share'[j].end /\ share'[j].end <= total
                     /\ ans[j] # None => share'[j].end <= ans[j].end
                     /\ share'[j].open => /\ share'[j].next < share'[j].end
                                          /\ ans[j] # None /\ ans[j].end = total
            <4>1. CASE j = i
                BY <2>2, <2>5, <2>6, <2>9, <4>1
            <4>2. CASE j = v
                <5>1. ans[v] = answer[v] /\ share[v] # None
                    BY <2>2, <2>4, ShareFacts
                <5>2. CASE answer[v] = None
                    BY <1>1, <2>2, <2>5, <2>7, <2>9, <4>2, <5>1, <5>2 DEF Reaching
                <5>3. CASE answer[v] # None
                    <6>1. share[v].end <= answer[v].end
                        BY <5>1, <5>3 DEF Reaching
                    <6>2. share[v].open => answer[v].end = total
                        BY <5>1 DEF Reaching
                    <6>3. answer[v].end \in Nat
                        BY <1>1, <5>1, <5>3 DEF PartAnswer
                    <6> QED BY <1>1, <2>2, <2>5, <2>7, <2>9, <4>2, <5>1, <5>3, <6>1, <6>2, <6>3
                <5> QED BY <5>2, <5>3
            <4>3. CASE j # i /\ j # v
                BY <2>9, <3>1, <4>3 DEF Reaching
            <4> QED BY <4>1, <4>2, <4>3
        <3>2. \A j \in Streams : share'[j] = None => ans[j] = None
            BY <2>6, <2>7, <2>9, ShareFacts DEF Reaching
        <3> QED BY <1>4, <2>1, <3>1, <3>2 DEF Reaching
    <2> QED BY <1>1, <1>4, <2>1, <2>9, <2>12, <2>13
<1> QED BY <1>3, <1>4
\* A block a stream brings is the writer's, and no stream's.
LEMMA DeliverParts ==
    ASSUME share \in [Streams -> Share \union {None}],
           NEW i \in Streams, share[i] # None, Left(i) > 0, answer[i] # None,
           NEW held, NEW total \in 1 .. Longest,
           Parted(share, free, held, total), Reaching(share, free, answer, total),
           Delivered(i)
    PROVE  /\ share' \in [Streams -> Share \union {None}]
           /\ share[i].next \in Blocks /\ share[i].next \notin held
           /\ \A j \in Streams : share'[j] = None <=> share[j] = None
           /\ Parted(share', free, held \union {share[i].next}, total)
           /\ Reaching(share', free, answer, total)
<1> DEFINE at == share[i].next
           opened == share[i].open /\ share[i].next + 1 < share[i].end
           y == [[share[i] EXCEPT !.next = @ + 1] EXCEPT !.open = opened]
<1>1. /\ share[i] \in Share /\ at \in Nat /\ share[i].end \in 1 .. Longest
      /\ at < share[i].end /\ share[i].end <= total /\ Longest \in Nat /\ total \in Nat
      /\ opened \in BOOLEAN
    BY ShareFacts, LongestBounds DEF Reaching, Left
<1>2. at \in Blocks /\ Owns(share, i, at)
    BY <1>1, BlockFacts DEF Owns
<1>3. at \notin held
    BY <1>2 DEF Parted
<1>4. share' = [share EXCEPT ![i] = y]
    <2>1. share' = [share EXCEPT ![i].next = @ + 1, ![i].open = opened]
        BY DEF Delivered
    <2> QED BY <2>1
<1>5. y \in Share /\ y.next = at + 1 /\ y.end = share[i].end /\ y.open = opened
    <2>1. at + 1 \in 0 .. Longest
        BY <1>1
    <2> QED BY <1>1, <2>1 DEF Share
<1>6. opened => share[i].open /\ at + 1 < share[i].end
    OBVIOUS
<1> HIDE DEF y, opened
<1>7. /\ share' \in [Streams -> Share \union {None}] /\ share'[i] = y
      /\ \A j \in Streams \ {i} : share'[j] = share[j]
    BY <1>4, <1>5
<1>8. ASSUME NEW b \in Blocks
      PROVE  /\ Owns(share', i, b) <=> Owns(share, i, b) /\ b # at
             /\ \A j \in Streams \ {i} : Owns(share', j, b) <=> Owns(share, j, b)
    BY <1>1, <1>5, <1>7, ShareFacts, BlockFacts DEF Owns
<1>9. Parted(share', free, held \union {at}, total)
    <2> SUFFICES ASSUME NEW b \in Blocks
                 PROVE  /\ b < total => \/ b \in held \/ b = at
                                        \/ \E j \in Streams : Owns(share', j, b)
                                        \/ \E q \in free : In(b, q)
                        /\ \A j \in Streams : Owns(share', j, b) =>
                             /\ b \notin held /\ b # at
                             /\ \A k \in Streams : Owns(share', k, b) => j = k
                             /\ \A q \in free : ~In(b, q)
                        /\ \A q \in free : In(b, q) =>
                             /\ b \notin held /\ b # at
                             /\ \A p \in free : In(b, p) => q = p
        BY DEF Parted
    <2>1. CASE b = at
        <3>1. \A j \in Streams : ~Owns(share', j, b)
            BY <1>2, <1>8, <2>1 DEF Parted
        <3>2. \A q \in free : ~In(b, q)
            BY <1>2, <2>1 DEF Parted
        <3> QED BY <2>1, <3>1, <3>2
    <2>2. CASE b # at
        <3>1. \A j \in Streams : Owns(share', j, b) <=> Owns(share, j, b)
            BY <1>8, <2>2
        <3> QED BY <2>2, <3>1 DEF Parted
    <2> QED BY <2>1, <2>2
<1>10. Reaching(share', free, answer, total)
    <2>1. ASSUME NEW j \in Streams, share'[j] # None
          PROVE  /\ share'[j].next <= share'[j].end /\ share'[j].end <= total
                 /\ answer[j] # None => share'[j].end <= answer[j].end
                 /\ share'[j].open => /\ share'[j].next < share'[j].end
                                      /\ answer[j] # None /\ answer[j].end = total
        <3>1. CASE j = i
            BY <1>1, <1>5, <1>6, <1>7, <3>1 DEF Reaching
        <3>2. CASE j # i
            BY <1>7, <2>1, <3>2 DEF Reaching
        <3> QED BY <3>1, <3>2
    <2>2. \A j \in Streams : share'[j] = None => answer[j] = None
        BY <1>5, <1>7, ShareFacts DEF Reaching
    <2> QED BY <2>1, <2>2 DEF Reaching
<1>11. \A j \in Streams : share'[j] = None <=> share[j] = None
    BY <1>5, <1>7, ShareFacts
<1> QED BY <1>2, <1>3, <1>7, <1>9, <1>10, <1>11

\* The first gap is the answer's in hand, the others are free.
LEMMA OpenParts ==
    ASSUME link \in Links, NEW w \in PartialWriter, w.version \in Served, OpenBoard(w)
    PROVE  /\ share' \in [Streams -> Share \union {None}] /\ free' \in SUBSET Ranges
           /\ answer' \in [Streams -> PartAnswer \union {None}]
           /\ \A i \in Streams : /\ share'[i] # None => answer'[i] # None
                                 /\ answer'[i] # None => answer'[i].version = w.version
           /\ Parted(share', free', Held(w), link.length[w.version])
           /\ Reaching(share', free', answer', link.length[w.version])
           /\ pieced' = FALSE /\ stopped' = FALSE /\ failures' = 0 /\ pc' = "split"
<1> DEFINE total == link.length[w.version]
           gaps == Gaps(w.prefix, w.runs, total)
           x == [version |-> w.version, end |-> total]
<1>1. /\ total \in 1 .. Longest /\ w.prefix \in 0 .. Longest /\ w.runs \in SUBSET Ranges
      /\ w.version \in Versions /\ Longest \in Nat
    BY LinkFacts DEF PartialWriter
<1>2. PICK g \in gaps :
        /\ share' = [i \in Streams |-> IF i = First
                       THEN [next |-> g.start, end |-> g.end, open |-> TRUE] ELSE None]
        /\ free' = gaps \ {g}
    BY DEF OpenBoard
<1>3. answer' = [i \in Streams |-> IF i = First THEN x ELSE None]
    BY DEF OpenBoard
<1>4. pieced' = FALSE /\ stopped' = FALSE /\ failures' = 0 /\ pc' = "split"
    BY DEF OpenBoard
<1> HIDE DEF total
<1>5. /\ gaps \in SUBSET Ranges
      /\ \A h \in gaps : h.start < h.end /\ h.end <= total
      /\ \A b \in Blocks :
           /\ (\E h \in gaps : In(b, h))
                <=> w.prefix <= b /\ b < total /\ ~\E r \in w.runs : In(b, r)
           /\ \A h \in gaps, k \in gaps : In(b, h) /\ In(b, k) => h = k
    BY ZenonT(40), <1>1, GapsPart
<1> HIDE DEF gaps
<1> DEFINE y == [next |-> g.start, end |-> g.end, open |-> TRUE]
<1>6. /\ g \in Ranges /\ g.start \in Nat /\ g.start <= Longest /\ g.end \in 1 .. Longest
      /\ g.start < g.end /\ g.end <= total
    <2>1. g \in gaps /\ g \in Ranges
        BY <1>5
    <2> QED BY <1>1, <1>5, <2>1, BlockFacts
<1>7. y \in Share /\ y # None /\ y.next = g.start /\ y.end = g.end
    <2>1. g.start \in 0 .. Longest
        BY <1>1, <1>6
    <2>2. y \in Share
        BY <1>6, <2>1, ShareFacts
    <2> QED BY <2>2, ShareFacts
<1>8. x \in PartAnswer /\ x # None /\ x.version = w.version /\ x.end = total
    <2>1. x \in PartAnswer
        BY <1>1 DEF PartAnswer
    <2> QED BY <2>1, ShareFacts
<1> HIDE DEF x, y
<1>9. /\ share' \in [Streams -> Share \union {None}]
      /\ share'[First] = y /\ \A i \in Streams \ {First} : share'[i] = None
      /\ answer' \in [Streams -> PartAnswer \union {None}]
      /\ answer'[First] = x /\ \A i \in Streams \ {First} : answer'[i] = None
    BY <1>2, <1>3, <1>7, <1>8, ShareFacts DEF y
<1>10. \A i \in Streams, b \in Blocks : Owns(share', i, b) <=> i = First /\ In(b, g)
    BY <1>7, <1>9 DEF Owns, In
<1>11. ASSUME NEW b \in Blocks
       PROVE  b < total => (b \in Held(w) <=> ~\E h \in gaps : In(b, h))
    <2>1. b \in Nat /\ w.prefix \in Nat
        BY <1>1, BlockFacts
    <2> QED BY <1>5, <2>1, HeldIs
<1>12. ASSUME NEW b \in Blocks, NEW h \in gaps, In(b, h) PROVE b \notin Held(w) /\ b < total
    <2>1. b \in Nat /\ w.prefix \in Nat
        BY <1>1, BlockFacts
    <2> QED BY <1>5, <1>12, <2>1, HeldIs
<1>13. Parted(share', free', Held(w), total)
    <2> SUFFICES ASSUME NEW b \in Blocks
                 PROVE  /\ b < total => \/ b \in Held(w)
                                        \/ \E j \in Streams : Owns(share', j, b)
                                        \/ \E q \in free' : In(b, q)
                        /\ \A j \in Streams : Owns(share', j, b) =>
                             /\ b \notin Held(w)
                             /\ \A k \in Streams : Owns(share', k, b) => j = k
                             /\ \A q \in free' : ~In(b, q)
                        /\ \A q \in free' : In(b, q) =>
                             /\ b \notin Held(w)
                             /\ \A p \in free' : In(b, p) => q = p
        BY DEF Parted
    <2>1. CASE In(b, g)
        <3>1. b \notin Held(w) /\ \A q \in free' : ~In(b, q)
            BY <1>2, <1>5, <1>12, <2>1
        <3>2. Owns(share', First, b) /\ \A j \in Streams : Owns(share', j, b) => j = First
            BY <1>10, <2>1, ShareFacts
        <3> QED BY <3>1, <3>2, ShareFacts
    <2>2. CASE ~In(b, g)
        <3>1. \A j \in Streams : ~Owns(share', j, b)
            BY <1>10, <2>2
        <3>2. \A q \in gaps : In(b, q) => q \in free'
            BY <1>2, <2>2
        <3> QED BY <1>2, <1>5, <1>11, <1>12, <3>1, <3>2
    <2> QED BY <2>1, <2>2
<1>14. Reaching(share', free', answer', total)
    <2>1. free' \subseteq gaps
        BY <1>2
    <2> QED BY <1>1, <1>5, <1>6, <1>7, <1>8, <1>9, <2>1 DEF Reaching
<1>15. /\ \A i \in Streams : /\ share'[i] # None => answer'[i] # None
                             /\ answer'[i] # None => answer'[i].version = w.version
       /\ free' \in SUBSET Ranges
    BY <1>2, <1>5, <1>8, <1>9
<1> QED BY <1>4, <1>9, <1>13, <1>14, <1>15 DEF total
-----------------------------------------------------------------------------
(***************************************************************************)
(* What the steps have in common                                           *)
(***************************************************************************)
\* The link stays the same.
LEMMA SameLink ==
    ASSUME link' = link
    PROVE  /\ Served' = Served /\ Proven' = Proven /\ Single' = Single /\ Steady' = Steady
BY DEF Served, Proven, Single, Steady

\* An attempt that ended leaves no writer and no streams.
LEMMA Closed ==
    ASSUME writer' = None, NoBoard, pc' \in {"ask"} \union Ended
    PROVE  /\ PcInv' /\ WriterInv' /\ BoardInv'
           /\ writer' \in PartialWriter \union {None} /\ (writer' # None => writer'.version \in Served')
           /\ share' \in [Streams -> Share \union {None}]
           /\ answer' \in [Streams -> PartAnswer \union {None}]
           /\ free' \subseteq Ranges
           /\ pieced' \in BOOLEAN /\ stopped' \in BOOLEAN
           /\ failures' \in 0 .. MostFailures
<1>1. /\ share' = [i \in Streams |-> None] /\ answer' = [i \in Streams |-> None]
      /\ free' = {} /\ pieced' = FALSE /\ stopped' = FALSE /\ failures' = 0
    BY DEF NoBoard
<1>2. pc' \notin {"stream", "split"}
    BY DEF Ended
<1>3. PcInv'
    BY <1>1, <1>2 DEF PcInv
<1>4. WriterInv' /\ BoardInv'
    BY <1>2 DEF WriterInv, BoardInv
<1>5. failures' \in 0 .. MostFailures
    BY <1>1, BoundsAssumption
<1> QED BY <1>1, <1>3, <1>4, <1>5

\* Only Finish ends a download with bytes or with blame.
LEMMA NotEnded ==
    ASSUME pc' \notin {"stored", "mismatch"}
    PROVE  (Steady => OneVersion)' /\ BlamedRightly'
BY DEF OneVersion, BlamedRightly

\* The bytes of the writer stay whose they are while nothing is written.
LEMMA WriterKept ==
    ASSUME WriterInv, link' = link, writer' = writer, file' = file, restarted' = restarted,
           seen \subseteq seen', pieced => pieced'
    PROVE  WriterInv'
<1>1. /\ Proven' = Proven /\ Single' = Single
    BY SameLink
<1> QED BY <1>1 DEF WriterInv

\* A checkpoint keeps vouching for its bytes, in this run or after a crash.
LEMMA RecordKept ==
    ASSUME RecordInv, link' = link, record' \in {record, None},
           restarted' => restarted /\ seen \subseteq seen'
    PROVE  RecordInv'
<1>1. Single' = Single
    BY SameLink
<1>2. CASE record' = record
    BY <1>1, <1>2 DEF RecordInv
<1>3. CASE record' = None
    BY <1>3 DEF RecordInv
<1> QED BY <1>2, <1>3

\* A new checkpoint vouches for what the writer holds.
LEMMA RecordSaved ==
    ASSUME TypeOK, WriterInv, link' = link, writer # None, record' = Saved(writer),
           restarted' = restarted, seen' = seen
    PROVE  RecordInv' /\ record' \in Record /\ record'.label \in Served'
<1>1. writer \in PartialWriter /\ file \in Contents /\ writer.version \in Served
    BY DEF TypeOK
<1>2. /\ record' \in Record /\ record'.label = writer.version
      /\ record'.received = writer.prefix /\ record'.runs = writer.runs
      /\ Noted(record') = Held(writer)
      /\ \A b \in Held(writer) : record'.sum[b] = file[b]
    BY <1>1, SavedNotes
<1>3. Single' = Single /\ Served' = Served
    BY SameLink
<1>4. RecordInv'
    BY <1>2, <1>3 DEF WriterInv, RecordInv
<1> QED BY <1>1, <1>2, <1>3, <1>4

\* What Retry leaves.
LEMMA RetryType ==
    ASSUME TypeOK, link' = link, Retry
    PROVE  /\ pc' \in {"ask", "failed"} /\ tries' \in 1 .. link'.tries
           /\ writer' = None /\ NoBoard
<1>1. /\ pc' \in {"ask", "failed"} /\ writer' = None /\ NoBoard
      /\ (tries' = tries /\ TRUE) \/ (tries < link.tries /\ tries' = tries + 1)
    BY DEF Retry
<1>2. tries \in 1 .. link.tries /\ link.tries \in Nat
    BY LinksAssumption DEF TypeOK
<1> QED BY <1>1, <1>2

-----------------------------------------------------------------------------
(***************************************************************************)
(* The invariant holds at first and in every step                          *)
(***************************************************************************)
\* A download begins with nothing.
LEMMA InitInv ==
    ASSUME Init
    PROVE  IInv
<1>1. /\ link \in Links /\ pc = "ask" /\ file = Nothing /\ record = None /\ writer = None
      /\ share = [i \in Streams |-> None] /\ answer = [i \in Streams |-> None]
      /\ free = {} /\ pieced = FALSE /\ stopped = FALSE /\ failures = 0
      /\ split = TRUE /\ restarted = FALSE /\ tries = 1 /\ run = 0
      /\ seen = {} /\ stored = Nothing
    BY DEF Init
<1>2. Nothing \in Contents
    BY DEF Nothing, Contents
<1>3. tries \in 1 .. link.tries /\ run \in 0 .. link.runs /\ failures \in 0 .. MostFailures
    BY <1>1, LinksAssumption, BoundsAssumption
<1>4. TypeOK
    BY <1>1, <1>2, <1>3 DEF TypeOK
<1>5. PcInv /\ WriterInv /\ RecordInv /\ BoardInv
    BY <1>1 DEF PcInv, WriterInv, RecordInv, BoardInv
<1>6. OneVersion /\ BlamedRightly
    BY <1>1 DEF OneVersion, BlamedRightly
<1> QED BY <1>4, <1>5, <1>6 DEF IInv

LEMMA AskFailsInv ==
    ASSUME IInv, AskFails, link' = link
    PROVE  IInv'
<1>1. /\ pc = "ask" /\ Retry
      /\ UNCHANGED <<file, record, split, restarted, run, seen, stored>>
    BY DEF AskFails
<1>2. /\ pc' \in {"ask", "failed"} /\ tries' \in 1 .. link'.tries
      /\ writer' = None /\ NoBoard
    BY <1>1, RetryType DEF IInv
<1>3. pc' \in {"ask"} \union Ended /\ pc' \notin {"stored", "mismatch"}
    BY <1>2 DEF Ended
<1>4. RecordInv'
    BY <1>1, RecordKept DEF IInv
<1>5. Served' = Served
    BY SameLink
<1>6. TypeOK'
    BY <1>1, <1>2, <1>3, <1>5, Closed DEF IInv, TypeOK
<1> QED BY <1>2, <1>3, <1>4, <1>6, Closed, NotEnded DEF IInv

LEMMA BreakInv ==
    ASSUME IInv, Break, link' = link
    PROVE  IInv'
<1>1. /\ pc = "stream" /\ record' = Saved(writer) /\ Retry
      /\ UNCHANGED <<file, split, restarted, run, seen, stored>>
    BY DEF Break
<1>2. /\ pc' \in {"ask", "failed"} /\ tries' \in 1 .. link'.tries
      /\ writer' = None /\ NoBoard
    BY <1>1, RetryType DEF IInv
<1>3. pc' \in {"ask"} \union Ended /\ pc' \notin {"stored", "mismatch"}
    BY <1>2 DEF Ended
<1>4. RecordInv' /\ record' \in Record /\ record'.label \in Served'
    BY <1>1, RecordSaved DEF IInv, PcInv
<1>5. Served' = Served
    BY SameLink
<1>6. TypeOK'
    BY <1>1, <1>2, <1>3, <1>4, <1>5, Closed DEF IInv, TypeOK
<1> QED BY <1>2, <1>3, <1>4, <1>6, Closed, NotEnded DEF IInv

LEMMA SplitBreaksInv ==
    ASSUME IInv, SplitBreaks, link' = link
    PROVE  IInv'
<1>1. /\ pc = "split" /\ record' = Saved(writer) /\ Retry
      /\ split' = (split /\ ~stopped)
      /\ UNCHANGED <<file, restarted, run, seen, stored>>
    BY DEF SplitBreaks
<1>2. /\ pc' \in {"ask", "failed"} /\ tries' \in 1 .. link'.tries
      /\ writer' = None /\ NoBoard
    BY <1>1, RetryType DEF IInv
<1>3. pc' \in {"ask"} \union Ended /\ pc' \notin {"stored", "mismatch"}
    BY <1>2 DEF Ended
<1>4. RecordInv' /\ record' \in Record /\ record'.label \in Served'
    BY <1>1, RecordSaved DEF IInv, PcInv
<1>5. Served' = Served /\ split' \in BOOLEAN
    BY <1>1, SameLink
<1>6. TypeOK'
    BY <1>1, <1>2, <1>3, <1>4, <1>5, Closed DEF IInv, TypeOK
<1> QED BY <1>2, <1>3, <1>4, <1>6, Closed, NotEnded DEF IInv

LEMMA SaveInv ==
    ASSUME IInv, Save, link' = link
    PROVE  IInv'
<1>1. /\ pc \in {"stream", "split"} /\ record' = Saved(writer)
      /\ UNCHANGED <<pc, file, writer, board, split, restarted, tries, run, seen, stored>>
    BY DEF Save
<1>2. UNCHANGED <<share, answer, free, pieced, stopped, failures>>
    BY <1>1 DEF board
<1>3. RecordInv' /\ record' \in Record /\ record'.label \in Served'
    BY <1>1, RecordSaved DEF IInv, PcInv
<1>4. Served' = Served /\ Single' = Single /\ Total' = Total
    BY <1>1, SameLink DEF Total
<1>5. TypeOK'
    BY <1>1, <1>2, <1>3, <1>4 DEF IInv, TypeOK
<1>6. WriterInv'
    BY <1>1, <1>2, WriterKept DEF IInv
<1>7. PcInv' /\ BoardInv'
    BY <1>1, <1>2, <1>4 DEF IInv, PcInv, BoardInv
<1> QED BY <1>1, <1>3, <1>5, <1>6, <1>7, NotEnded DEF IInv

LEMMA CrashInv ==
    ASSUME IInv, Crash, link' = link
    PROVE  IInv'
<1>1. /\ run < link.runs /\ pc' = "ask" /\ writer' = None /\ NoBoard
      /\ record' \in {record, None}
      /\ split' = TRUE /\ restarted' = FALSE /\ tries' = 1 /\ run' = run + 1 /\ seen' = {}
      /\ stored' = stored
    BY DEF Crash
<1>2. file' \in Contents
    BY DEF Crash, Contents, IInv, TypeOK
<1>3. pc' \in {"ask"} \union Ended /\ pc' \notin {"stored", "mismatch"}
    BY <1>1
<1>4. RecordInv'
    BY <1>1, RecordKept DEF IInv
<1>5. Served' = Served
    BY SameLink
<1>6. tries' \in 1 .. link'.tries /\ run' \in 0 .. link'.runs
    BY <1>1, LinksAssumption DEF IInv, TypeOK
<1>7. TypeOK'
    BY <1>1, <1>2, <1>3, <1>5, <1>6, Closed DEF IInv, TypeOK
<1> QED BY <1>1, <1>3, <1>4, <1>7, Closed, NotEnded DEF IInv
\* A download that starts over holds nothing.
LEMMA StartOverInv ==
    ASSUME IInv, StartOver, link' = link, split' \in BOOLEAN,
           \E v \in Served : seen' = seen \union {v},
           UNCHANGED <<restarted, tries, run, stored>>
    PROVE  IInv'
<1>1. pc' = "ask" /\ writer' = None /\ file' = Nothing /\ record' = None /\ NoBoard
    BY DEF StartOver, Discarded
<1>2. pc' \in {"ask"} \union Ended /\ pc' \notin {"stored", "mismatch"}
    BY <1>1
<1>3. Nothing \in Contents
    BY DEF Nothing, Contents
<1>4. RecordInv'
    BY <1>1 DEF RecordInv
<1>5. Served' = Served
    BY SameLink
<1>6. TypeOK'
    BY <1>1, <1>2, <1>3, <1>5, Closed DEF IInv, TypeOK
<1> QED BY <1>1, <1>2, <1>4, <1>6, Closed, NotEnded DEF IInv

\* The bytes the new writer holds are the ones the checkpoint vouches for.
LEMMA OpenInv ==
    ASSUME IInv, link' = link, pc = "ask",
           NEW v \in Served, NEW offset \in 0 .. Longest, NEW ranges \in BOOLEAN,
           Open(v, offset, ranges), seen' = seen \union {v},
           offset > 0 => Proven /\ (link.labelled => v = record.label),
           UNCHANGED <<split, restarted, tries, run, stored>>
    PROVE  IInv'
<1> DEFINE keep == Keeps(ranges)
           runs == Kept(offset, keep, v)
           w == [prefix |-> offset, runs |-> runs, version |-> v, splits |-> keep,
                 resumed |-> offset > 0 \/ runs # {}]
<1>1. CASE ~Continues(offset)
    <2>1. StartOver
        BY <1>1 DEF Open
    <2>2. split' \in BOOLEAN
        BY DEF IInv, TypeOK
    <2> QED BY <2>1, <2>2, StartOverInv
<1>2. CASE Continues(offset)
    <2>1. /\ file' = [b \in Blocks |-> IF keep \/ b < offset THEN file[b] ELSE Hole]
          /\ writer' = w /\ record' = record
          /\ IF runs = {} THEN pc' = "stream" /\ NoBoard ELSE OpenBoard(w)
        BY <1>2 DEF Open
    <2>2. /\ TypeOK /\ PcInv /\ RecordInv
          /\ record \in Record \union {None} /\ Longest \in Nat /\ offset \in Nat
        BY LongestBounds DEF IInv, TypeOK
    <2>3. keep \in BOOLEAN /\ (keep => Proven)
        BY DEF Keeps
    <2>4. offset > 0 => /\ record # None /\ record.received = offset
                        /\ \A b \in Blocks : b < offset => file[b] = record.sum[b]
        BY <1>2 DEF Continues, PrefixIntact
    <2>5. runs # {} => /\ keep /\ record # None /\ record.received = offset
                       /\ runs \subseteq record.runs
                       /\ \A r \in runs, b \in Blocks : In(b, r) => file[b] = record.sum[b]
        BY DEF Kept, Intact
    <2> HIDE DEF keep, runs
    <2>6. runs \in SUBSET Ranges
        BY <2>2, <2>5 DEF Record
    <2>7. /\ w \in PartialWriter /\ w.prefix = offset /\ w.runs = runs /\ w.version = v
          /\ w.splits = keep /\ w.resumed = (offset > 0 \/ runs # {})
        <3>1. v \in Versions
            BY LinkFacts DEF IInv, TypeOK
        <3> QED BY <2>3, <2>6, <3>1 DEF PartialWriter
    <2> HIDE DEF w
    <2>8. /\ Served' = Served /\ Proven' = Proven /\ Single' = Single
        BY SameLink
    <2>9. ASSUME NEW b \in Held(w)
          PROVE  /\ record # None /\ b \in Noted(record) /\ file'[b] = record.sum[b]
                 /\ offset > 0 \/ runs # {}
        <3>1. b \in Blocks /\ b \in Nat /\ (b < offset \/ \E r \in runs : In(b, r))
            BY <2>7, BlockFacts, HeldIs DEF Held
        <3>2. CASE b < offset
            <4>1. offset > 0
                BY <2>2, <3>1, <3>2
            <4> QED BY <2>1, <2>4, <3>1, <3>2, <4>1 DEF Noted
        <3>3. CASE \E r \in runs : In(b, r)
            BY <2>1, <2>5, <3>1, <3>3 DEF Noted
        <3> QED BY <3>1, <3>2, <3>3
    <2>10. Single /\ runs # {} => offset > 0
        BY <2>2, <2>5 DEF RecordInv
    <2>11. Single /\ (offset > 0 \/ runs # {}) => record.label = v
        <3>1. Single /\ Proven => link.labelled
            BY DEF Single, Proven
        <3> QED BY <2>10, <3>1
    <2>12. Apart(offset, runs)
        <3>1. CASE runs = {}
            BY <3>1 DEF Apart
        <3>2. CASE runs # {}
            BY <2>2, <2>5, <3>2 DEF RecordInv, Apart
        <3> QED BY <3>1, <3>2
    <2>13. WriterInv'
        <3>1. writer'.version \in seen' /\ (writer'.splits => Proven)
            BY <2>1, <2>3, <2>7
        <3>2. Apart(writer'.prefix, writer'.runs) /\ (Single /\ writer'.runs # {} => writer'.prefix > 0)
            BY <2>1, <2>7, <2>10, <2>12
        <3>3. ASSUME NEW b \in Held(writer')
              PROVE  /\ Single => file'[b] = writer'.version
                     /\ restarted' => file'[b] \in seen'
                     /\ ~writer'.resumed /\ ~pieced' => file'[b] = writer'.version
            <4>1. /\ record # None /\ b \in Noted(record) /\ file'[b] = record.sum[b]
                  /\ offset > 0 \/ runs # {}
                BY <2>1, <2>9
            <4>2. /\ Single => record.sum[b] = record.label
                  /\ restarted => record.sum[b] \in seen
                BY <2>2, <4>1 DEF RecordInv
            <4>3. writer'.resumed
                BY <2>1, <2>7, <4>1
            <4>4. Single => file'[b] = writer'.version
                BY <2>1, <2>7, <2>11, <4>1, <4>2
            <4>5. restarted' => file'[b] \in seen'
                BY <4>1, <4>2
            <4> QED BY <4>3, <4>4, <4>5
        <3> QED BY <2>8, <3>1, <3>2, <3>3 DEF WriterInv
    <2>14. RecordInv'
        BY <2>1, <2>2, RecordKept
    <2>15. file' \in Contents
        BY <2>1, <2>2 DEF TypeOK, Contents
    <2>16. writer' # None /\ writer' \in PartialWriter /\ writer'.version \in Served'
        BY <2>1, <2>7, <2>8, WriterFacts
    <2>17. seen' \subseteq Served'
        BY <2>2, <2>8 DEF TypeOK
    <2>18. CASE runs = {}
        <3>1. /\ pc' = "stream"
              /\ share' = [i \in Streams |-> None] /\ answer' = [i \in Streams |-> None]
              /\ free' = {} /\ pieced' = FALSE /\ stopped' = FALSE /\ failures' = 0
            BY <2>1, <2>18 DEF NoBoard
        <3>2. PcInv' /\ BoardInv'
            BY <2>1, <2>7, <2>16, <2>18, <3>1 DEF PcInv, BoardInv
        <3>3. failures' \in 0 .. MostFailures
            BY <3>1, BoundsAssumption
        <3>4. TypeOK'
            BY <2>1, <2>2, <2>8, <2>15, <2>16, <2>17, <3>1, <3>3 DEF TypeOK
        <3> QED BY <2>13, <2>14, <3>1, <3>2, <3>4, NotEnded DEF IInv
    <2>19. CASE runs # {}
        <3>1. OpenBoard(w)
            BY <2>1, <2>19
        <3>2. link \in Links
            BY DEF IInv, TypeOK
        <3>3. /\ share' \in [Streams -> Share \union {None}] /\ free' \in SUBSET Ranges
              /\ answer' \in [Streams -> PartAnswer \union {None}]
              /\ \A i \in Streams : /\ share'[i] # None => answer'[i] # None
                                    /\ answer'[i] # None => answer'[i].version = v
              /\ Parted(share', free', Held(w), link.length[v])
              /\ Reaching(share', free', answer', link.length[v])
              /\ pieced' = FALSE /\ stopped' = FALSE /\ failures' = 0 /\ pc' = "split"
            BY <2>7, <3>1, <3>2, OpenParts
        <3>4. PcInv'
            BY <2>1, <2>5, <2>7, <2>16, <2>19, <3>3 DEF PcInv
        <3>5. Total' = link.length[v] /\ Held(writer)' = Held(w) /\ writer'.prefix = offset
            BY <2>1, <2>7 DEF Total
        <3>6. BoardInv'
            BY <2>1, <2>7, <2>8, <2>10, <2>19, <3>3, <3>5 DEF BoardInv
        <3>7. failures' \in 0 .. MostFailures
            BY <3>3, BoundsAssumption
        <3>8. TypeOK'
            BY <2>1, <2>2, <2>8, <2>15, <2>16, <2>17, <3>3, <3>7 DEF TypeOK
        <3> QED BY <2>13, <2>14, <3>3, <3>4, <3>6, <3>8, NotEnded DEF IInv
    <2> QED BY <2>18, <2>19
<1> QED BY <1>1, <1>2

LEMMA WholeAnswerInv ==
    ASSUME IInv, WholeAnswer, link' = link
    PROVE  IInv'
<1>1. PICK v \in Served, ranges \in BOOLEAN : Open(v, 0, ranges) /\ seen' = seen \union {v}
    BY DEF WholeAnswer
<1>2. pc = "ask" /\ UNCHANGED <<split, restarted, tries, run, stored>>
    BY DEF WholeAnswer
<1>3. 0 \in 0 .. Longest /\ ~(0 > 0)
    BY LongestBounds
<1> QED BY <1>1, <1>2, <1>3, OpenInv

LEMMA RangeAnswerInv ==
    ASSUME IInv, RangeAnswer, link' = link
    PROVE  IInv'
<1>1. PICK v \in Served :
        /\ seen' = seen \union {v}
        /\ IF record.received >= link.length[v] \/ (link.labelled /\ v # record.label) THEN StartOver
           ELSE Open(v, record.received, TRUE)
    BY DEF RangeAnswer
<1>2. /\ pc = "ask" /\ Proven /\ record # None
      /\ UNCHANGED <<split, restarted, tries, run, stored>>
    BY DEF RangeAnswer, Earlier, Resumable
<1>3. record.received \in 0 .. Longest /\ split' \in BOOLEAN
    BY <1>2 DEF IInv, TypeOK, Record
<1>4. CASE record.received >= link.length[v] \/ (link.labelled /\ v # record.label)
    BY <1>1, <1>2, <1>3, <1>4, StartOverInv
<1>5. CASE ~(record.received >= link.length[v] \/ (link.labelled /\ v # record.label))
    BY <1>1, <1>2, <1>3, <1>5, OpenInv
<1> QED BY <1>4, <1>5

LEMMA PartChangedInv ==
    ASSUME IInv, NEW i \in Streams, PartChanged(i), link' = link
    PROVE  IInv'
<1>1. /\ \E v \in Served : seen' = seen \union {v}
      /\ StartOver /\ split' = FALSE /\ UNCHANGED <<restarted, tries, run, stored>>
    BY DEF PartChanged
<1> QED BY <1>1, StartOverInv
LEMMA ArriveInv ==
    ASSUME IInv, Arrive, link' = link
    PROVE  IInv'
<1> DEFINE w == Written(writer, writer.prefix)
<1>1. /\ pc = "stream" /\ writer.prefix < Total
      /\ file' = [file EXCEPT ![writer.prefix] = writer.version] /\ writer' = w
      /\ UNCHANGED <<pc, record, board, split, restarted, tries, run, seen, stored>>
    BY DEF Arrive
<1>2. UNCHANGED <<share, answer, free, pieced, stopped, failures>>
    BY <1>1 DEF board
<1>3. /\ TypeOK /\ PcInv /\ WriterInv /\ RecordInv
      /\ writer # None /\ writer.runs = {} /\ writer \in PartialWriter
      /\ writer.version \in Served /\ writer.version \in Versions /\ file \in Contents
      /\ Total \in 1 .. Longest
    BY <1>1, LinkFacts DEF IInv, PcInv, TypeOK, Total
<1>4. writer.prefix \in Blocks /\ writer.prefix \in Nat
    <2>1. writer.prefix \in Nat /\ writer.prefix < Longest
        BY <1>1, <1>3, WriterFacts, LongestBounds
    <2> QED BY <2>1, BlockFacts
<1>5. writer.prefix \notin Held(writer)
    BY <1>3, <1>4, HeldIs
<1>6. Apart(writer.prefix, writer.runs)
    BY <1>3 DEF WriterInv
<1>7. /\ w \in PartialWriter
      /\ Held(w) = Held(writer) \union {writer.prefix}
      /\ Apart(w.prefix, w.runs)
      /\ w.version = writer.version /\ w.splits = writer.splits /\ w.resumed = writer.resumed
      /\ w.runs \subseteq writer.runs
    BY <1>3, <1>4, <1>5, <1>6, WrittenHolds
<1> HIDE DEF w
<1>8. w # None /\ w.runs = {}
    BY <1>3, <1>7, WriterFacts
<1>9. Served' = Served /\ Proven' = Proven /\ Single' = Single
    BY SameLink
<1>10. file' \in Contents /\ file'[writer.prefix] = writer.version
       /\ \A b \in Blocks \ {writer.prefix} : file'[b] = file[b]
    BY <1>1, <1>3, <1>4 DEF Contents
<1>11. WriterInv'
    <2>1. writer'.version \in seen' /\ (writer'.splits => Proven)
        BY <1>1, <1>3, <1>7 DEF WriterInv
    <2>2. Apart(writer'.prefix, writer'.runs) /\ writer'.runs = {}
        BY <1>1, <1>7, <1>8
    <2>3. ASSUME NEW b \in Held(writer')
          PROVE  /\ Single => file'[b] = writer'.version
                 /\ restarted' => file'[b] \in seen'
                 /\ ~writer'.resumed /\ ~pieced' => file'[b] = writer'.version
        <3>1. CASE b = writer.prefix
            BY <1>1, <1>3, <1>7, <1>10, <3>1 DEF WriterInv
        <3>2. CASE b # writer.prefix
            <4>1. b \in Held(writer) /\ file'[b] = file[b]
                BY <1>1, <1>7, <1>10, <3>2 DEF Held
            <4> QED BY <1>1, <1>2, <1>3, <1>7, <4>1 DEF WriterInv
        <3> QED BY <3>1, <3>2
    <2> QED BY <1>9, <2>1, <2>2, <2>3 DEF WriterInv
<1>12. RecordInv'
    BY <1>1, <1>3, RecordKept
<1>13. PcInv' /\ BoardInv'
    BY <1>1, <1>2, <1>3, <1>8 DEF PcInv, BoardInv
<1>14. TypeOK'
    BY <1>1, <1>2, <1>3, <1>7, <1>9, <1>10 DEF TypeOK
<1> QED BY <1>1, <1>11, <1>12, <1>13, <1>14, NotEnded DEF IInv

LEMMA SlowInv ==
    ASSUME IInv, Slow, link' = link
    PROVE  IInv'
<1>1. /\ pc = "stream" /\ writer.splits /\ (link.stalls \/ writer.prefix > 0)
      /\ OpenBoard(writer)
      /\ UNCHANGED <<file, record, writer, split, restarted, tries, run, seen, stored>>
    BY DEF Slow
<1>2. /\ TypeOK /\ PcInv /\ WriterInv /\ RecordInv /\ link \in Links
      /\ writer # None /\ writer \in PartialWriter /\ writer.version \in Served
      /\ writer.version \in seen /\ Proven /\ pieced = FALSE
    BY <1>1 DEF IInv, PcInv, TypeOK, WriterInv
<1>3. /\ share' \in [Streams -> Share \union {None}] /\ free' \in SUBSET Ranges
      /\ answer' \in [Streams -> PartAnswer \union {None}]
      /\ \A i \in Streams : /\ share'[i] # None => answer'[i] # None
                            /\ answer'[i] # None => answer'[i].version = writer.version
      /\ Parted(share', free', Held(writer), Total)
      /\ Reaching(share', free', answer', Total)
      /\ pieced' = FALSE /\ stopped' = FALSE /\ failures' = 0 /\ pc' = "split"
    BY <1>1, <1>2, OpenParts DEF Total
<1>4. Served' = Served /\ Single' = Single /\ Total' = Total
    BY <1>1, SameLink DEF Total
<1>5. Single => writer.prefix > 0
    BY <1>1, <1>2 DEF Single, Steady, Proven
<1>6. WriterInv'
    BY <1>1, <1>2, <1>3, WriterKept
<1>7. RecordInv'
    BY <1>1, <1>2, RecordKept
<1>8. PcInv'
    BY <1>1, <1>2, <1>3 DEF PcInv
<1>9. BoardInv'
    BY <1>1, <1>2, <1>3, <1>4, <1>5 DEF BoardInv
<1>10. failures' \in 0 .. MostFailures
    BY <1>3, BoundsAssumption
<1>11. TypeOK'
    BY <1>1, <1>2, <1>3, <1>4, <1>10 DEF TypeOK
<1> QED BY <1>3, <1>6, <1>7, <1>8, <1>9, <1>11, NotEnded DEF IInv

\* What every step of a stream knows of the split download it works on.
LEMMA SplitFacts ==
    ASSUME IInv, pc = "split"
    PROVE  /\ TypeOK /\ PcInv /\ WriterInv /\ RecordInv /\ BoardInv
           /\ writer # None /\ writer \in PartialWriter /\ writer.version \in Served
           /\ writer.splits /\ Proven
           /\ share \in [Streams -> Share \union {None}] /\ free \in SUBSET Ranges
           /\ answer \in [Streams -> PartAnswer \union {None}]
           /\ Total \in 1 .. Longest
           /\ Parted(share, free, Held(writer), Total) /\ Reaching(share, free, answer, Total)
BY LinkFacts DEF IInv, PcInv, TypeOK, WriterInv, BoardInv, Total

\* A step that leaves the writer, its file and its record alone keeps what is said of them.
LEMMA BoardStep ==
    ASSUME IInv, pc = "split", link' = link,
           UNCHANGED <<pc, file, record, writer, split, restarted, tries, run, stored>>,
           seen \subseteq seen', seen' \subseteq Served, pieced' \in BOOLEAN, pieced => pieced',
           stopped' \in BOOLEAN, failures' \in 0 .. MostFailures,
           share' \in [Streams -> Share \union {None}], free' \in SUBSET Ranges,
           answer' \in [Streams -> PartAnswer \union {None}],
           Parted(share', free', Held(writer), Total), Reaching(share', free', answer', Total),
           \A i \in Streams :
             /\ answer'[i] # None => answer'[i].version \in seen'
             /\ answer'[i] # None /\ (link.pin = None \/ ~pieced') => answer'[i].version = writer.version
             /\ share'[i] # None /\ ~pieced' => answer'[i] # None
    PROVE  IInv'
<1>1. /\ TypeOK /\ PcInv /\ WriterInv /\ RecordInv /\ BoardInv
      /\ writer # None /\ writer.splits
    BY SplitFacts
<1>2. Served' = Served /\ Single' = Single /\ Total' = Total
    BY SameLink DEF Total
<1>3. WriterInv'
    BY <1>1, WriterKept
<1>4. RecordInv'
    BY <1>1, RecordKept
<1>5. PcInv'
    BY <1>1 DEF PcInv
<1>6. BoardInv'
    BY <1>1, <1>2 DEF BoardInv
<1>7. TypeOK'
    BY <1>1, <1>2 DEF TypeOK
<1>8. pc' \notin {"stored", "mismatch"}
    OBVIOUS
<1> QED BY <1>3, <1>4, <1>5, <1>6, <1>7, <1>8, NotEnded DEF IInv

LEMMA DeliverInv ==
    ASSUME IInv, NEW i \in Streams, Deliver(i), link' = link
    PROVE  IInv'
<1> DEFINE at == share[i].next
           w == Written(writer, at)
<1>1. /\ pc = "split" /\ answer[i] # None /\ Left(i) > 0
      /\ file' = [file EXCEPT ![at] = answer[i].version] /\ writer' = w
      /\ Delivered(i)
      /\ UNCHANGED <<pc, record, answer, free, pieced, stopped, failures,
                     split, restarted, tries, run, seen, stored>>
    BY DEF Deliver
<1>2. /\ TypeOK /\ PcInv /\ WriterInv /\ RecordInv /\ BoardInv
      /\ writer # None /\ writer \in PartialWriter /\ writer.version \in Served
      /\ writer.splits /\ Proven
      /\ share \in [Streams -> Share \union {None}]
      /\ answer[i] \in PartAnswer /\ Total \in 1 .. Longest /\ file \in Contents
      /\ Parted(share, free, Held(writer), Total) /\ Reaching(share, free, answer, Total)
    BY <1>1, SplitFacts DEF TypeOK
<1>3. share[i] # None
    BY <1>1 DEF Left
<1>4. /\ share' \in [Streams -> Share \union {None}]
      /\ at \in Blocks /\ at \notin Held(writer)
      /\ \A j \in Streams : share'[j] = None <=> share[j] = None
      /\ Parted(share', free, Held(writer) \union {at}, Total)
      /\ Reaching(share', free, answer, Total)
    BY <1>1, <1>2, <1>3, DeliverParts
<1>5. Apart(writer.prefix, writer.runs)
    BY <1>2 DEF WriterInv
<1> HIDE DEF at
<1>6. /\ w \in PartialWriter
      /\ Held(w) = Held(writer) \union {at}
      /\ Apart(w.prefix, w.runs) /\ writer.prefix <= w.prefix
      /\ w.version = writer.version /\ w.splits = writer.splits /\ w.resumed = writer.resumed
    BY <1>2, <1>4, <1>5, WrittenHolds
<1> HIDE DEF w
<1>7. /\ w # None /\ w.prefix \in Nat /\ writer.prefix \in Nat
    BY <1>2, <1>6, WriterFacts
<1>8. Served' = Served /\ Proven' = Proven /\ Single' = Single /\ Total' = Total
    BY <1>1, <1>6, SameLink DEF Total
<1>9. /\ file' \in Contents /\ file'[at] = answer[i].version
      /\ \A b \in Blocks \ {at} : file'[b] = file[b]
    <2>1. answer[i].version \in Versions
        BY <1>2 DEF PartAnswer
    <2> QED BY <1>1, <1>2, <1>4, <2>1 DEF Contents
<1>10. /\ answer[i].version \in seen
       /\ link.pin = None \/ ~pieced => answer[i].version = writer.version
    BY <1>1, <1>2 DEF BoardInv
<1>11. Single => writer.prefix > 0 /\ w.prefix > 0
    BY <1>1, <1>2, <1>6, <1>7 DEF BoardInv
<1>12. WriterInv'
    <2>1. writer'.version \in seen' /\ (writer'.splits => Proven)
        BY <1>1, <1>2, <1>6 DEF WriterInv
    <2>2. Apart(writer'.prefix, writer'.runs) /\ (Single => writer'.prefix > 0)
        BY <1>1, <1>6, <1>11
    <2>3. ASSUME NEW b \in Held(writer')
          PROVE  /\ Single => file'[b] = writer'.version
                 /\ restarted' => file'[b] \in seen'
                 /\ ~writer'.resumed /\ ~pieced' => file'[b] = writer'.version
        <3>1. CASE b = at
            BY <1>1, <1>6, <1>9, <1>10, <3>1 DEF Single
        <3>2. CASE b # at
            <4>1. b \in Held(writer) /\ file'[b] = file[b]
                BY <1>1, <1>6, <1>9, <3>2 DEF Held
            <4> QED BY <1>1, <1>2, <1>6, <4>1 DEF WriterInv
        <3> QED BY <3>1, <3>2
    <2> QED BY <1>8, <2>1, <2>2, <2>3 DEF WriterInv
<1>13. RecordInv'
    BY <1>1, <1>2, RecordKept
<1>14. PcInv'
    BY <1>1, <1>2, <1>6, <1>7 DEF PcInv
<1>15. BoardInv'
    <2>1. Parted(share, free, Held(writer), Total)' /\ Reaching(share, free, answer, Total)'
        BY <1>1, <1>4, <1>6, <1>8
    <2>2. \A j \in Streams :
             /\ answer'[j] # None => answer'[j].version \in seen'
             /\ answer'[j] # None /\ (link'.pin = None \/ ~pieced') => answer'[j].version = writer'.version
             /\ share'[j] # None /\ ~pieced' => answer'[j] # None
        BY <1>1, <1>2, <1>4, <1>6 DEF BoardInv
    <2>3. Single' => writer'.prefix > 0
        BY <1>1, <1>8, <1>11
    <2> QED BY <2>1, <2>2, <2>3 DEF BoardInv
<1>16. TypeOK'
    BY <1>1, <1>2, <1>4, <1>6, <1>8, <1>9 DEF TypeOK
<1> QED BY <1>1, <1>12, <1>13, <1>14, <1>15, <1>16, NotEnded DEF IInv
LEMMA TakeNextInv ==
    ASSUME IInv, NEW i \in Streams, TakeNext(i), link' = link
    PROVE  IInv'
<1>1. /\ pc = "split" /\ share[i] # None /\ Left(i) = 0
      /\ answer' = [answer EXCEPT ![i] = None]
      /\ Assign(i) \/ (GiveBack(i) /\ UNCHANGED pieced)
      /\ UNCHANGED <<pc, file, record, writer, stopped, failures,
                     split, restarted, tries, run, seen, stored>>
    BY DEF TakeNext
<1>2. /\ TypeOK /\ BoardInv
      /\ share \in [Streams -> Share \union {None}] /\ free \in SUBSET Ranges
      /\ answer \in [Streams -> PartAnswer \union {None}]
      /\ Total \in 1 .. Longest
      /\ Parted(share, free, Held(writer), Total) /\ Reaching(share, free, answer, Total)
    BY <1>1, SplitFacts
<1>3. /\ answer' \in [Streams -> PartAnswer \union {None}] /\ answer'[i] = None
      /\ \A j \in Streams \ {i} : answer'[j] = answer[j]
    BY <1>1, <1>2
<1>4. /\ pieced \in BOOLEAN /\ stopped' \in BOOLEAN /\ failures' \in 0 .. MostFailures
      /\ seen' = seen /\ seen \subseteq Served
    BY <1>1, <1>2 DEF TypeOK
<1>5. \A j \in Streams :
        /\ answer'[j] # None => answer'[j].version \in seen
        /\ answer'[j] # None /\ (link.pin = None \/ ~pieced) => answer'[j].version = writer.version
    BY <1>1, <1>2, <1>3 DEF BoardInv
<1>6. CASE Assign(i)
    <2>1. /\ share' \in [Streams -> Share \union {None}] /\ free' \in SUBSET Ranges
          /\ pieced' = TRUE
          /\ Parted(share', free', Held(writer), Total)
          /\ Reaching(share', free', answer', Total)
        BY <1>1, <1>2, <1>3, <1>6, AssignParts
    <2> QED BY <1>1, <1>3, <1>4, <1>5, <2>1, BoardStep
<1>7. CASE GiveBack(i) /\ UNCHANGED pieced
    <2>1. /\ share' \in [Streams -> Share \union {None}] /\ free' \in SUBSET Ranges
          /\ \A j \in Streams : share'[j] = None <=> j = i \/ share[j] = None
          /\ Parted(share', free', Held(writer), Total)
          /\ Reaching(share', free', answer', Total)
        BY <1>1, <1>2, <1>3, <1>7, GiveBackParts
    <2>2. \A j \in Streams : share'[j] # None /\ ~pieced' => answer'[j] # None
        BY <1>1, <1>2, <1>3, <1>7, <2>1 DEF BoardInv
    <2> QED BY <1>1, <1>3, <1>4, <1>5, <1>7, <2>1, <2>2, BoardStep
<1> QED BY <1>1, <1>6, <1>7

LEMMA PartInv ==
    ASSUME IInv, NEW i \in Streams, Part(i), link' = link
    PROVE  IInv'
<1>1. PICK v \in Served, last \in Blocks :
        /\ ~OtherVersion(v)
        /\ share[i].next <= last /\ last < share[i].end
        /\ Trim(i, last + 1)
        /\ answer' = [answer EXCEPT ![i] = [version |-> v, end |-> last + 1]]
        /\ seen' = seen \union {v}
    BY DEF Part
<1>2. /\ pc = "split" /\ share[i] # None /\ answer[i] = None
      /\ UNCHANGED <<pc, file, record, writer, pieced, stopped, failures,
                     split, restarted, tries, run, stored>>
    BY DEF Part, Asking
<1>3. /\ TypeOK /\ BoardInv /\ Proven /\ link \in Links
      /\ share \in [Streams -> Share \union {None}] /\ free \in SUBSET Ranges
      /\ answer \in [Streams -> PartAnswer \union {None}]
      /\ Total \in 1 .. Longest
      /\ Parted(share, free, Held(writer), Total) /\ Reaching(share, free, answer, Total)
    BY <1>2, SplitFacts DEF TypeOK
<1> DEFINE end == last + 1
           x == [version |-> v, end |-> end]
<1>4. /\ end \in 1 .. Longest /\ share[i].next < end /\ end <= share[i].end
    <2>1. last \in Nat /\ last < Longest /\ Longest \in Nat
        BY BlockFacts, LongestBounds
    <2>2. share[i].next \in Nat /\ share[i].end \in Nat
        BY <1>2, <1>3, ShareFacts
    <2> QED BY <1>1, <2>1, <2>2
<1>5. x \in PartAnswer /\ x # None /\ x.version = v /\ x.end = end
    <2>1. x \in PartAnswer
        BY <1>3, <1>4, LinkFacts DEF PartAnswer
    <2> QED BY <2>1, ShareFacts
<1> HIDE DEF x
<1>6. /\ answer' \in [Streams -> PartAnswer \union {None}] /\ answer'[i] = x
      /\ \A j \in Streams \ {i} : answer'[j] = answer[j]
    BY <1>1, <1>3, <1>5 DEF x
<1>7. Trim(i, end)
    BY <1>1
<1> HIDE DEF end
<1>8. /\ share' \in [Streams -> Share \union {None}] /\ free' \in SUBSET Ranges
      /\ \A j \in Streams : share'[j] = None <=> share[j] = None
      /\ Parted(share', free', Held(writer), Total)
      /\ Reaching(share', free', answer', Total)
    BY <1>2, <1>3, <1>4, <1>5, <1>6, <1>7, TrimParts
<1>9. /\ pieced' \in BOOLEAN /\ stopped' \in BOOLEAN /\ failures' \in 0 .. MostFailures
      /\ seen \subseteq seen' /\ seen' \subseteq Served
    BY <1>1, <1>2, <1>3 DEF TypeOK
<1>10. pieced
    BY <1>2, <1>3 DEF BoardInv
<1>11. link.pin = None => v = writer.version
    BY <1>1, <1>3 DEF OtherVersion, Proven
<1>12. ASSUME NEW j \in Streams
       PROVE  /\ answer'[j] # None => answer'[j].version \in seen'
              /\ answer'[j] # None /\ (link.pin = None \/ ~pieced') => answer'[j].version = writer.version
    <2>1. CASE j = i
        BY <1>1, <1>2, <1>5, <1>6, <1>10, <1>11, <2>1
    <2>2. CASE j # i
        BY <1>1, <1>2, <1>3, <1>6, <2>2 DEF BoardInv
    <2> QED BY <2>1, <2>2
<1> QED BY <1>2, <1>6, <1>8, <1>9, <1>10, <1>12, BoardStep

LEMMA NoRangesInv ==
    ASSUME IInv, NEW i \in Streams, NoRanges(i), link' = link
    PROVE  IInv'
<1>1. /\ pc = "split" /\ share[i] # None /\ answer[i] = None
      /\ GiveBack(i) /\ stopped' = TRUE
      /\ UNCHANGED <<pc, file, record, writer, answer, pieced, failures,
                     split, restarted, tries, run, seen, stored>>
    BY DEF NoRanges, Asking
<1>2. /\ TypeOK /\ BoardInv
      /\ share \in [Streams -> Share \union {None}] /\ free \in SUBSET Ranges
      /\ answer \in [Streams -> PartAnswer \union {None}]
      /\ Total \in 1 .. Longest
      /\ Parted(share, free, Held(writer), Total) /\ Reaching(share, free, answer, Total)
    BY <1>1, SplitFacts
<1>3. /\ share' \in [Streams -> Share \union {None}] /\ free' \in SUBSET Ranges
      /\ \A j \in Streams : share'[j] = None <=> j = i \/ share[j] = None
      /\ Parted(share', free', Held(writer), Total)
      /\ Reaching(share', free', answer, Total)
    BY <1>1, <1>2, GiveBackParts
<1>4. /\ pieced' \in BOOLEAN /\ failures' \in 0 .. MostFailures
      /\ seen' = seen /\ seen \subseteq Served
    BY <1>1, <1>2 DEF TypeOK
<1>5. \A j \in Streams :
        /\ answer'[j] # None => answer'[j].version \in seen'
        /\ answer'[j] # None /\ (link.pin = None \/ ~pieced') => answer'[j].version = writer.version
        /\ share'[j] # None /\ ~pieced' => answer'[j] # None
    BY <1>1, <1>2, <1>3 DEF BoardInv
<1> QED BY <1>1, <1>2, <1>3, <1>4, <1>5, BoardStep

LEMMA StreamFailsInv ==
    ASSUME IInv, NEW i \in Streams, StreamFails(i), link' = link
    PROVE  IInv'
<1>1. /\ pc = "split" /\ share[i] # None
      /\ GiveBack(i)
      /\ answer' = [answer EXCEPT ![i] = None]
      /\ failures' = Min({failures + 1, MostFailures})
      /\ UNCHANGED <<pc, file, record, writer, pieced,
                     split, restarted, tries, run, seen, stored>>
    BY DEF StreamFails
<1>2. stopped' \in BOOLEAN
    BY DEF StreamFails
<1>3. /\ TypeOK /\ BoardInv
      /\ share \in [Streams -> Share \union {None}] /\ free \in SUBSET Ranges
      /\ answer \in [Streams -> PartAnswer \union {None}]
      /\ Total \in 1 .. Longest
      /\ Parted(share, free, Held(writer), Total) /\ Reaching(share, free, answer, Total)
    BY <1>1, SplitFacts
<1>4. /\ answer' \in [Streams -> PartAnswer \union {None}] /\ answer'[i] = None
      /\ \A j \in Streams \ {i} : answer'[j] = answer[j]
    BY <1>1, <1>3
<1>5. /\ share' \in [Streams -> Share \union {None}] /\ free' \in SUBSET Ranges
      /\ \A j \in Streams : share'[j] = None <=> j = i \/ share[j] = None
      /\ Parted(share', free', Held(writer), Total)
      /\ Reaching(share', free', answer', Total)
    BY <1>1, <1>3, <1>4, GiveBackParts
<1>6. failures' \in 0 .. MostFailures
    <2>1. failures \in Nat /\ MostFailures \in Nat
        BY <1>3, BoundsAssumption DEF TypeOK
    <2> DEFINE S == {failures + 1, MostFailures}
    <2>2. S \in SUBSET (0 .. failures + 1 + MostFailures) /\ failures + 1 + MostFailures \in Nat
        BY <2>1
    <2>3. S \in SUBSET Nat /\ IsFiniteSet(S) /\ S # {}
        BY ZenonT(40), <2>2, BoundedFinite
    <2>4. Min(S) \in S /\ \A y \in S : Min(S) <= y
        BY <2>3, MinIs
    <2>5. Min(S) \in Nat /\ Min(S) <= MostFailures
        BY <2>3, <2>4
    <2> QED BY <1>1, <2>1, <2>5
<1>7. /\ pieced' \in BOOLEAN /\ seen' = seen /\ seen \subseteq Served
    BY <1>1, <1>3 DEF TypeOK
<1>8. \A j \in Streams :
        /\ answer'[j] # None => answer'[j].version \in seen'
        /\ answer'[j] # None /\ (link.pin = None \/ ~pieced') => answer'[j].version = writer.version
        /\ share'[j] # None /\ ~pieced' => answer'[j] # None
    BY <1>1, <1>3, <1>4, <1>5 DEF BoardInv
<1> QED BY <1>1, <1>2, <1>4, <1>5, <1>6, <1>7, <1>8, BoardStep

LEMMA AddStreamInv ==
    ASSUME IInv, NEW i \in Streams, AddStream(i), link' = link
    PROVE  IInv'
<1>1. /\ pc = "split" /\ share[i] = None /\ Assign(i)
      /\ UNCHANGED <<pc, file, record, writer, answer, stopped, failures,
                     split, restarted, tries, run, seen, stored>>
    BY DEF AddStream
<1>2. /\ TypeOK /\ BoardInv
      /\ share \in [Streams -> Share \union {None}] /\ free \in SUBSET Ranges
      /\ answer \in [Streams -> PartAnswer \union {None}]
      /\ Total \in 1 .. Longest
      /\ Parted(share, free, Held(writer), Total) /\ Reaching(share, free, answer, Total)
    BY <1>1, SplitFacts
<1>3. Left(i) = 0 /\ answer[i] = None
    BY <1>1, <1>2 DEF Left, Reaching
<1>4. /\ share' \in [Streams -> Share \union {None}] /\ free' \in SUBSET Ranges
      /\ pieced' = TRUE
      /\ Parted(share', free', Held(writer), Total)
      /\ Reaching(share', free', answer, Total)
    BY <1>1, <1>2, <1>3, AssignParts
<1>5. /\ stopped' \in BOOLEAN /\ failures' \in 0 .. MostFailures
      /\ seen' = seen /\ seen \subseteq Served
    BY <1>1, <1>2 DEF TypeOK
<1>6. \A j \in Streams :
        /\ answer'[j] # None => answer'[j].version \in seen'
        /\ answer'[j] # None /\ (link.pin = None \/ ~pieced') => answer'[j].version = writer.version
    BY <1>1, <1>2, <1>4 DEF BoardInv
<1> QED BY <1>1, <1>2, <1>4, <1>5, <1>6, BoardStep

\* The bytes of a complete download are the writer's, up to the end of its version.
LEMMA FinishInv ==
    ASSUME IInv, Finish, link' = link
    PROVE  IInv'
<1>1. /\ Complete /\ writer' = None /\ Discarded /\ NoBoard
      /\ UNCHANGED <<tries, run, seen>>
      /\ \/ /\ link.pin = None \/ Bytes = Whole(link.pin)
            /\ pc' = "stored" /\ stored' = Bytes /\ UNCHANGED <<split, restarted>>
         \/ /\ link.pin # None /\ Bytes # Whole(link.pin) /\ UNCHANGED stored
            /\ pc' = "ask" /\ restarted' = TRUE /\ split' = FALSE
         \/ /\ link.pin # None /\ Bytes # Whole(link.pin) /\ UNCHANGED stored
            /\ ~(Resumed /\ ~restarted)
            /\ pc' = "mismatch" /\ UNCHANGED <<split, restarted>>
    BY DEF Finish
<1>2. pc \in {"stream", "split"} /\ writer.prefix = Total
    BY <1>1 DEF Complete
<1>3. /\ TypeOK /\ PcInv /\ WriterInv /\ RecordInv /\ link \in Links
      /\ writer # None /\ writer \in PartialWriter /\ writer.version \in Served
      /\ file \in Contents /\ Total \in 1 .. Longest /\ Total = link.length[writer.version]
      /\ link.pin = None \/ link.pin \in Served
    BY <1>2, LinkFacts DEF IInv, PcInv, TypeOK, Total
<1>4. Bytes \in Contents
    BY <1>3 DEF Bytes, Contents
<1>5. \A b \in Blocks : b < Total => b \in Held(writer)
    BY <1>2, <1>3, HeldIs
<1>6. ASSUME NEW v \in Served, v = writer.version, \A b \in Held(writer) : file[b] = v
      PROVE  Bytes = Whole(v)
    BY <1>2, <1>3, <1>5, <1>6 DEF Bytes, Whole
<1>7. Single => Bytes = Whole(writer.version)
    BY <1>3, <1>6 DEF WriterInv
<1>8. ASSUME link.pin # None, Bytes # Whole(link.pin), ~(Resumed /\ ~restarted), seen = {link.pin}
      PROVE  FALSE
    <2>1. writer.version = link.pin
        BY <1>3, <1>8 DEF WriterInv
    <2>2. CASE restarted
        <3>1. \A b \in Held(writer) : file[b] = link.pin
            BY <1>3, <1>8, <2>2 DEF WriterInv
        <3> QED BY <1>3, <1>6, <1>8, <2>1, <3>1
    <2>3. CASE ~restarted
        <3>1. ~writer.resumed /\ ~pieced
            BY <1>8, <2>3 DEF Resumed
        <3>2. \A b \in Held(writer) : file[b] = link.pin
            BY <1>3, <2>1, <3>1 DEF WriterInv
        <3> QED BY <1>3, <1>6, <1>8, <2>1, <3>2
    <2> QED BY <2>2, <2>3
<1>9. file' = Nothing /\ record' = None /\ Nothing \in Contents
    BY <1>1 DEF Discarded, Nothing, Contents
<1>10. pc' \in {"ask"} \union Ended
    BY <1>1 DEF Ended
<1>11. PcInv' /\ WriterInv' /\ BoardInv'
    BY <1>1, <1>10, Closed
<1>12. RecordInv'
    BY <1>9 DEF RecordInv
<1>13. Served' = Served /\ Steady' = Steady
    BY SameLink
<1>14. stored' \in Contents /\ split' \in BOOLEAN /\ restarted' \in BOOLEAN
    BY <1>1, <1>3, <1>4 DEF TypeOK
<1>15. TypeOK'
    BY <1>1, <1>3, <1>9, <1>10, <1>13, <1>14, Closed DEF TypeOK
<1>16. (Steady => OneVersion)'
    <2> SUFFICES ASSUME Steady, pc' = "stored" PROVE \E v \in Served : stored' = Whole(v)'
        BY <1>13 DEF OneVersion
    <2>1. stored' = Bytes /\ (link.pin = None \/ Bytes = Whole(link.pin))
        BY <1>1
    <2>2. \A v : Whole(v)' = Whole(v)
        BY DEF Whole
    <2>3. CASE link.pin = None
        BY <1>3, <1>7, <2>1, <2>2, <2>3 DEF Single
    <2>4. CASE link.pin # None
        BY <1>3, <2>1, <2>2, <2>4
    <2> QED BY <2>3, <2>4
<1>17. BlamedRightly'
    <2> SUFFICES ASSUME pc' = "mismatch" PROVE seen # {link.pin}
        BY <1>1 DEF BlamedRightly
    <2>1. link.pin # None /\ Bytes # Whole(link.pin) /\ ~(Resumed /\ ~restarted)
        BY <1>1
    <2> QED BY <1>8, <2>1
<1> QED BY <1>11, <1>12, <1>15, <1>16, <1>17 DEF IInv

\* Every step keeps the invariant.
LEMMA NextInv ==
    ASSUME IInv, [Next]_vars
    PROVE  IInv'
<1>1. CASE UNCHANGED vars
    <2>1. /\ UNCHANGED <<link, pc, file, record, writer, share, answer, free, pieced, stopped,
                         failures, split, restarted, tries, run, seen, stored>>
        BY <1>1 DEF vars, board
    <2>2. /\ Served' = Served /\ Proven' = Proven /\ Single' = Single /\ Steady' = Steady
          /\ Total' = Total
        BY <2>1, SameLink DEF Total
    <2>3. TypeOK'
        BY <2>1, <2>2 DEF IInv, TypeOK
    <2>4. PcInv' /\ WriterInv' /\ RecordInv' /\ BoardInv'
        BY <2>1, <2>2 DEF IInv, PcInv, WriterInv, RecordInv, BoardInv
    <2>5. OneVersion' = OneVersion /\ BlamedRightly' = BlamedRightly
        BY <2>1, <2>2 DEF OneVersion, BlamedRightly, Whole
    <2> QED BY <2>2, <2>3, <2>4, <2>5 DEF IInv
<1>2. ASSUME Step PROVE IInv'
    <2>1. link' = link
        BY <1>2 DEF Step
    <2>2. \/ WholeAnswer \/ RangeAnswer \/ AskFails \/ Arrive \/ Break \/ Slow
          \/ Save \/ SplitBreaks \/ Finish \/ Crash
          \/ \E i \in Streams :
               \/ Deliver(i) \/ TakeNext(i) \/ Part(i) \/ PartChanged(i) \/ NoRanges(i)
               \/ StreamFails(i) \/ AddStream(i)
        BY <1>2 DEF Step, Attempt, Stream, Split
    <2>3. CASE WholeAnswer
        BY <2>1, <2>3, WholeAnswerInv
    <2>4. CASE RangeAnswer
        BY <2>1, <2>4, RangeAnswerInv
    <2>5. CASE AskFails
        BY <2>1, <2>5, AskFailsInv
    <2>6. CASE Arrive
        BY <2>1, <2>6, ArriveInv
    <2>7. CASE Break
        BY <2>1, <2>7, BreakInv
    <2>8. CASE Slow
        BY <2>1, <2>8, SlowInv
    <2>9. CASE Save
        BY <2>1, <2>9, SaveInv
    <2>10. CASE SplitBreaks
        BY <2>1, <2>10, SplitBreaksInv
    <2>11. CASE Finish
        BY <2>1, <2>11, FinishInv
    <2>12. CASE Crash
        BY <2>1, <2>12, CrashInv
    <2>13. ASSUME NEW i \in Streams,
                  \/ Deliver(i) \/ TakeNext(i) \/ Part(i) \/ PartChanged(i) \/ NoRanges(i)
                  \/ StreamFails(i) \/ AddStream(i)
           PROVE  IInv'
        BY <2>1, <2>13, DeliverInv, TakeNextInv, PartInv, PartChangedInv, NoRangesInv,
           StreamFailsInv, AddStreamInv
    <2> QED BY <2>2, <2>3, <2>4, <2>5, <2>6, <2>7, <2>8, <2>9, <2>10, <2>11, <2>12, <2>13
<1> QED BY <1>1, <1>2 DEF Next

\* The inductive invariant of a download, for every link, every number of streams and any
\* history of answers, failures and crashes.
THEOREM Invariance == Spec => []IInv
<1>1. Init => IInv
    BY InitInv
<1>2. IInv /\ [Next]_vars => IInv'
    BY NextInv
<1> QED BY <1>1, <1>2, PTL DEF Spec

\* Every block of a split download has one owner: what the invariant says of owners, counted.
LEMMA CountedOnce ==
    ASSUME IInv
    PROVE  SharesHold
<1>1. ASSUME pc = "split", NEW b \in Blocks, b < Total
      PROVE  (IF b < writer.prefix THEN 1 ELSE 0)
             + Cardinality({r \in writer.runs : In(b, r)})
             + Cardinality({i \in Streams : share[i] # None /\ share[i].next <= b /\ b < share[i].end})
             + Cardinality({r \in free : In(b, r)}) = 1
    <2> DEFINE R == {r \in writer.runs : In(b, r)}
               S == {i \in Streams : share[i] # None /\ share[i].next <= b /\ b < share[i].end}
               F == {r \in free : In(b, r)}
    <2>1. /\ writer \in PartialWriter /\ WriterInv /\ writer # None
          /\ Parted(share, free, Held(writer), Total)
        BY <1>1, SplitFacts
    <2>2. b \in Nat /\ writer.prefix \in Nat /\ writer.runs \subseteq Ranges
        BY <2>1, BlockFacts, WriterFacts
    <2>3. Apart(writer.prefix, writer.runs)
        BY <2>1 DEF WriterInv
    <2>4. S = {i \in Streams : Owns(share, i, b)}
        BY DEF Owns
    <2>5. \A r \in R, q \in R : r = q
        BY <2>3 DEF Apart
    <2>6. \A i \in S, j \in S : i = j
        BY <2>1, <2>4 DEF Parted
    <2>7. \A r \in F, q \in F : r = q
        BY <2>1 DEF Parted
    <2>8. b \in Held(writer) <=> b < writer.prefix \/ R # {}
        BY HeldIs
    <2>9. ~(b < writer.prefix /\ R # {})
        BY <2>2, <2>3, BlockFacts DEF Apart, In
    <2>10. b \in Held(writer) \/ S # {} \/ F # {}
        BY <1>1, <2>1, <2>4 DEF Parted
    <2>11. /\ S # {} => b \notin Held(writer) /\ F = {}
           /\ F # {} => b \notin Held(writer)
        BY <2>1, <2>4 DEF Parted
    <2> HIDE DEF R, S, F
    <2>12. \A X : X # {} /\ (\A x \in X, y \in X : x = y) => Cardinality(X) = 1
        <3> SUFFICES ASSUME NEW X, X # {}, \A x \in X, y \in X : x = y PROVE Cardinality(X) = 1
            OBVIOUS
        <3>1. PICK x \in X : X = {x}
            OBVIOUS
        <3> QED BY <3>1, FS_Singleton
    <2>13. Cardinality({}) = 0
        BY FS_EmptySet
    <2>14. /\ Cardinality(R) = IF R = {} THEN 0 ELSE 1
           /\ Cardinality(S) = IF S = {} THEN 0 ELSE 1
           /\ Cardinality(F) = IF F = {} THEN 0 ELSE 1
        BY <2>5, <2>6, <2>7, <2>12, <2>13
    <2>15. (IF b < writer.prefix THEN 1 ELSE 0) + Cardinality(R) + Cardinality(S) + Cardinality(F) = 1
        BY <2>8, <2>9, <2>10, <2>11, <2>14
    <2> QED BY <2>15 DEF R, S, F
<1>2. EachByteOnce
    BY <1>1 DEF EachByteOnce
<1>3. AnswersReach
    BY SplitFacts DEF AnswersReach, Reaching
<1> QED BY <1>2, <1>3 DEF SharesHold

\* A link without validators, one pinned by its hash, and one whose first stream is never
\* called slow before its first byte store one version of the file: what the checkpoint, a
\* resumed run and the streams of a split download (resumable, keep, part) are checked for.
THEOREM OneVersionStored == Spec => [](Steady => OneVersion)
<1>1. IInv => (Steady => OneVersion)
    BY DEF IInv
<1> QED BY <1>1, Invariance, PTL

\* Board and PartialWriter never lose a byte between the streams nor give it to two of them,
\* for any number of streams, blocks and free ranges, and no stream is left with bytes its
\* answer does not bring.
THEOREM SharesAreKept == Spec => []SharesHold
<1>1. IInv => SharesHold
    BY CountedOnce
<1> QED BY <1>1, Invariance, PTL

\* finish and verify blame a server only for bytes a server sent this run.
THEOREM ServersBlamedRightly == Spec => []BlamedRightly
<1>1. IInv => BlamedRightly
    BY DEF IInv
<1> QED BY <1>1, Invariance, PTL
=============================================================================
