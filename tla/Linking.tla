------------------------------- MODULE Linking -------------------------------
(***************************************************************************)
(* How files are put in place, by reflink, else hardlink, else copy        *)
(* (Placer in place.rs): the first alone, the rest several at once, all    *)
(* learning which methods the drive of the project refuses from errors     *)
(* that may be about one file only.  How copies get their names is in      *)
(* Placing.                                                                *)
(***************************************************************************)
EXTENDS Naturals, FiniteSets

CONSTANTS
    Orders,     \* the files to place, by number from 1
    Drives,     \* [reflinks, links: what the drive can do; apart: the cache is on another one;
                \*  synced: a sync client owns the folder]
    Cases,      \* what an order may be: [writable, foreign: its object alone may not be linked,
                \*  taken: something has its name]
    Unset

\* What the values of the constants are
LinkingAssumption ==
    /\ Drives \subseteq [reflinks : BOOLEAN, links : BOOLEAN, apart : BOOLEAN, synced : BOOLEAN]
    /\ Cases \subseteq [writable : BOOLEAN, foreign : BOOLEAN, taken : BOOLEAN]
    /\ Unset \notin {"copy", "hardlink", "none"}

VARIABLES
    drive, kind,
    canReflink, canHardlink, otherVolume,   \* what the placer learned
    probed,     \* whether the drive links some files or none, once the volume's probe told
    pc,         \* of each order
    result,     \* Method, or failed
    unlucky     \* orders that met an error that tells nothing

vars == <<drive, kind, canReflink, canHardlink, otherVolume, probed, pc, result, unlucky>>
learned == <<canReflink, canHardlink, otherVolume, probed>>

Init ==
    /\ drive \in Drives /\ kind \in [Orders -> Cases]
    /\ canReflink = TRUE /\ canHardlink = TRUE /\ otherVolume = FALSE /\ probed = Unset
    /\ pc = [o \in Orders |-> "waits"] /\ result = [o \in Orders |-> Unset]
    /\ unlucky = {}

Goto(o, label) == pc' = [pc EXCEPT ![o] = label]
Ends(o, how) == Goto(o, "done") /\ result' = [result EXCEPT ![o] = how]

\* place_all: the first goes alone
Start(o) ==
    /\ pc[o] = "waits" /\ (o = 1 \/ pc[1] = "done")
    /\ Goto(o, "reflink") /\ UNCHANGED <<learned, result, unlucky>>

-----------------------------------------------------------------------------
\* What a call may answer.  A clone is named last, a link meets its name first.
ReflinkAnswers(o) ==
    {"passing", IF drive.apart THEN "crosses" ELSE IF ~drive.reflinks THEN "refuses"
                ELSE IF kind[o].taken THEN "exists" ELSE "made"}
HardlinkAnswers(o) ==
    {"passing", IF kind[o].taken THEN "exists" ELSE IF drive.apart THEN "crosses"
                ELSE IF ~drive.links \/ kind[o].foreign THEN "refuses" ELSE "made"}
\* can_hardlink: a probe that fails for another reason tells nothing, and is made again
Truth == IF drive.links THEN "some" ELSE "none"
Probes == IF probed # Unset THEN {probed} ELSE {Unset, Truth}

\* put: a method is tried unless the drive is known to refuse it
Reflink(o) ==
    /\ pc[o] = "reflink"
    /\ IF ~canReflink THEN Goto(o, "hardlink") /\ UNCHANGED <<canReflink, result, unlucky>>
       ELSE \E answer \in ReflinkAnswers(o) :
              /\ CASE answer = "made" -> Ends(o, "reflink")
                   [] answer = "exists" -> Ends(o, "failed")
                   [] OTHER -> Goto(o, "hardlink") /\ UNCHANGED result
              /\ canReflink' = (answer \notin {"crosses", "refuses"})
              /\ unlucky' = IF answer = "passing" THEN unlucky \cup {o} ELSE unlucky
    /\ UNCHANGED <<canHardlink, otherVolume, probed>>

Hardlink(o) ==
    /\ pc[o] = "hardlink"
    /\ IF ~canHardlink \/ kind[o].writable \/ drive.synced
       THEN Goto(o, "copy") /\ UNCHANGED <<result, unlucky>>
       ELSE \E answer \in HardlinkAnswers(o) :
              /\ CASE answer = "made" -> Ends(o, "hardlink")
                   [] answer = "exists" -> Ends(o, "failed")
                   [] answer = "passing" -> Goto(o, "copy") /\ UNCHANGED result
                   [] OTHER -> Goto(o, answer) /\ UNCHANGED result
              /\ unlucky' = IF answer = "passing" THEN unlucky \cup {o} ELSE unlucky
    /\ UNCHANGED learned

\* learn, of a hardlink: that the drive links nothing is believed of the volume's own probe only
BelievesAnyFile(answer, links) == answer = "refuses"
LearnsNoLinks(answer, links) == answer = "refuses" /\ links = "none"

Learn(o) ==
    /\ pc[o] \in {"crosses", "refuses"}
    /\ \E links \in Probes :
         /\ probed' = links
         /\ canHardlink' = (canHardlink /\ pc[o] # "crosses" /\ ~LearnsNoLinks(pc[o], links))
         /\ otherVolume' = \/ pc[o] = "crosses" /\ links # "none"
                           \/ pc[o] = "refuses" /\ otherVolume /\ ~LearnsNoLinks(pc[o], links)
    /\ Goto(o, "copy") /\ UNCHANGED <<canReflink, result, unlucky>>

Copy(o) ==
    /\ pc[o] = "copy" /\ Ends(o, IF kind[o].taken THEN "failed" ELSE "copy")
    /\ UNCHANGED <<learned, unlucky>>

Next ==
    /\ UNCHANGED <<drive, kind>>
    /\ \E o \in Orders : Start(o) \/ Reflink(o) \/ Hardlink(o) \/ Learn(o) \/ Copy(o)

Spec == Init /\ [][Next]_vars

-----------------------------------------------------------------------------
\* Placer::unlinked, which a command tells when files were copied
Unlinked ==
    CASE drive.synced -> "synced"
      [] ~drive.synced /\ otherVolume -> "other drive"
      [] ~drive.synced /\ ~otherVolume /\ ~canReflink /\ ~canHardlink -> "no links"
      [] OTHER -> "unknown"

Done == \A o \in Orders : pc[o] = "done"
Linkable(o) ==
    \/ drive.reflinks /\ ~drive.apart
    \/ drive.links /\ ~drive.apart /\ ~drive.synced /\ ~kind[o].writable /\ ~kind[o].foreign

\* A file is copied only if nothing else was possible for it, or it met a passing error itself:
\* what one file meets never costs another its link.
CopiedForAReason == \A o \in Orders : result[o] = "copy" => ~Linkable(o) \/ o \in unlucky

\* What a sync client watches, or a tool may write to, is never the cached object itself.
NeverTheObject ==
    \A o \in Orders : result[o] = "hardlink" => ~drive.synced /\ ~kind[o].writable

\* What is told of copies is so: another cache helps where it is told, and links are impossible
\* where that is told; and something is told whenever the drive is the reason.
ToldRight ==
    Done =>
        /\ Unlinked = "other drive" => drive.apart
        /\ Unlinked = "no links" => ~drive.links
        /\ Unlinked = "unknown" =>
             \A o \in Orders :
                result[o] = "copy" => kind[o].writable \/ kind[o].foreign \/ unlucky # {} \/ ~drive.links

\* Files are copied only for a reason of their own or of the drive, which is told, and never
\* linked where a link would break or let the object be written.
LinkedOrTold == CopiedForAReason /\ NeverTheObject /\ ToldRight

-----------------------------------------------------------------------------
\* What makes it so.  What was learned of the drive is true of the drive; a file is past a method
\* only if the drive refuses it, the file itself does, or it met a passing error; and whoever was
\* told that the cache is elsewhere is believed until the drive is known to link nothing.
TypeOK ==
    /\ drive \in Drives /\ kind \in [Orders -> Cases]
    /\ canReflink \in BOOLEAN /\ canHardlink \in BOOLEAN /\ otherVolume \in BOOLEAN
    /\ probed \in {Unset, Truth}
    /\ pc \in [Orders -> {"waits", "reflink", "hardlink", "crosses", "refuses", "copy", "done"}]
    /\ result \in [Orders -> {Unset, "reflink", "hardlink", "copy", "failed"}]
    /\ unlucky \subseteq Orders

LearnedIsTrue ==
    /\ ~canReflink => ~drive.reflinks \/ drive.apart
    /\ otherVolume => drive.apart
    /\ ~canHardlink => otherVolume \/ ~drive.links

Copying(o) == pc[o] = "copy" \/ result[o] = "copy"

AskedInTurn ==
    \A o \in Orders :
        /\ pc[o] # "done" => result[o] = Unset
        /\ pc[o] \in {"hardlink", "crosses", "refuses"} =>
              ~drive.reflinks \/ drive.apart \/ o \in unlucky
        /\ pc[o] = "crosses" => drive.apart
        /\ pc[o] = "refuses" => ~drive.links \/ kind[o].foreign
        /\ Copying(o) => ~Linkable(o) \/ o \in unlucky
        /\ Copying(o) => \/ kind[o].writable \/ kind[o].foreign \/ drive.synced
                         \/ o \in unlucky \/ ~drive.links \/ otherVolume

IInv == TypeOK /\ LearnedIsTrue /\ AskedInTurn /\ NeverTheObject
=============================================================================
