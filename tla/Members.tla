------------------------------- MODULE Members -------------------------------
(***************************************************************************)
(* What an archive is let to unpack to (archive.rs, archive/guard.rs,      *)
(* archive/names.rs, archive/tar.rs, archive/zip.rs): entry by entry, with *)
(* every name checked against those before it, and every byte counted that *)
(* is written, or decompressed for nothing.  The archive may be anything:  *)
(* each entry, and each piece of a stream, is whatever comes next.         *)
(***************************************************************************)
EXTENDS Naturals, Sequences, FiniteSets

CONSTANTS
    Spellings,      \* paths as entries spell them; <<>> is the archive's own root
    Nfc,            \* of a name in any spelling
    Fold,           \* of a name in NFC: what a disk that ignores case takes it for
    Unsafe,         \* names that escape, hold control characters, or that no disk stores
    MostEntries, MostBytes, MostNames,      \* Limits, NAME_BYTES
    Ratio, RatioFloor, HeadersCap,
    Compressed      \* pieces an archive may have

VARIABLES
    format,
    step,       \* open, entry, body, trailing, done or refused
    seen,       \* the files and folders named so far
    names,      \* what they take
    files,      \* zip: files checked, and not yet read
    kept,       \* members
    entries, written, skipped,
    headers,    \* read since the last member
    compressed, \* read of the archive
    out         \* decompressed

vars == <<format, step, seen, names, files, kept, entries, written, skipped, headers, compressed, out>>

Formats == {"zip", "tar", "tar.gz"}
\* What an entry may be: a global header of a tar names nothing, and what is special, sparse,
\* encrypted or packed in another way is not unpacked
Types == {"file", "folder", "global", "special"}

Init ==
    /\ format \in Formats /\ step = "open"
    /\ seen = {} /\ names = 0 /\ files = {} /\ kept = {}
    /\ entries = 0 /\ written = 0 /\ skipped = 0 /\ headers = 0
    /\ compressed \in (IF format = "zip" THEN 0 .. Compressed ELSE {0})     \* zip: its directory
    /\ out = 0

Refuse ==
    /\ step' = "refused"
    /\ UNCHANGED <<format, seen, names, files, kept, entries, written, skipped, headers, compressed, out>>

-----------------------------------------------------------------------------
(***************************************************************************)
(* The guard                                                               *)
(***************************************************************************)
\* Names::add: in NFC, and below each of its folders
Spelled(raw) == [n \in DOMAIN raw |-> Nfc[raw[n]]]
Folded(path) == [n \in DOMAIN path |-> Fold[path[n]]]
Above(path) == {SubSeq(path, 1, n) : n \in 1 .. Len(path) - 1}
Node(path, folder) == [path |-> path, folder |-> folder]
NodesAlone(raw, folder) == {Node(Spelled(raw), folder)}
Nodes(raw, folder) == {Node(p, TRUE) : p \in Above(Spelled(raw))} \cup {Node(Spelled(raw), folder)}

\* insert: a name is new, or a folder seen before and spelled alike
Taken(node) == node.folder /\ node \in seen
Clashes(node) ==
    \E old \in seen : Folded(old.path) = Folded(node.path) /\ ~(old = node /\ node.folder)
Fresh(raw, folder) == {node \in Nodes(raw, folder) : ~Taken(node)}
Cost(raw, folder) == Len(raw) + Cardinality(Fresh(raw, folder))
Refused(raw, folder) ==
    \/ \E n \in DOMAIN raw : raw[n] \in Unsafe
    \/ names + Cost(raw, folder) > MostNames
    \/ \E node \in Nodes(raw, folder) : Clashes(node)

\* check_ratio
TooDense(expanded, read) == expanded >= RatioFloor /\ expanded > read * Ratio

\* skip: what no member holds is forgotten by the cap, and never by the ratio
Skip == skipped' = skipped + headers /\ headers' = 0

-----------------------------------------------------------------------------
\* Counted: the decompressor takes a piece of the archive, or none, for a piece it gives
Reads(read) == read \in {compressed, compressed + 1} \cap 0 .. Compressed
Gives == out' = out + 1

\* Capped: what is read outside a member: headers, long names, and what a folder has for bytes
Header ==
    /\ step \in {"open", "entry"} /\ format # "zip"
    /\ \E read \in 0 .. Compressed :
         /\ Reads(read) /\ compressed' = read
         /\ headers' = headers + 1 /\ Gives
         /\ step' = IF headers + 1 > HeadersCap THEN "refused" ELSE "entry"
    /\ UNCHANGED <<format, seen, names, files, kept, entries, written, skipped>>

\* unpack of tar: an entry, once its headers were read
Entry(raw, type) ==
    /\ step = "entry" /\ format # "zip" /\ headers > 0
    /\ IF \/ TooDense(written + skipped + headers, compressed)
          \/ entries + 1 > MostEntries
          \/ type \notin {"file", "folder", "global"}
          \/ type # "global" /\ raw # <<>> /\ Refused(raw, type = "folder")
       THEN Refuse
       ELSE /\ Skip
            /\ entries' = entries + 1
            /\ IF type = "global" \/ raw = <<>>
               THEN UNCHANGED <<seen, names>>
               ELSE /\ seen' = seen \cup Fresh(raw, type = "folder")
                    /\ names' = names + Cost(raw, type = "folder")
            /\ IF type = "file" /\ raw # <<>>
               THEN step' = "body" /\ kept' = kept \cup {Spelled(raw)}
               ELSE step' = "open" /\ kept' = kept
            /\ UNCHANGED <<format, files, written, compressed, out>>

\* checked, of zip: every entry of the directory passes before a byte is written
Checked(raw, type) ==
    /\ step = "open" /\ format = "zip" /\ type # "global"
    /\ IF \/ entries + 1 > MostEntries
          \/ type \notin {"file", "folder"}
          \/ raw # <<>> /\ Refused(raw, type = "folder")
       THEN Refuse
       ELSE /\ entries' = entries + 1
            /\ IF raw = <<>> THEN UNCHANGED <<seen, names>>
               ELSE /\ seen' = seen \cup Fresh(raw, type = "folder")
                    /\ names' = names + Cost(raw, type = "folder")
            /\ files' = IF type = "file" /\ raw # <<>> THEN files \cup {Spelled(raw)} ELSE files
            /\ UNCHANGED <<format, step, kept, written, skipped, headers, compressed, out>>

\* unpack of zip: then each file
ReadFile(path) ==
    /\ step \in {"open", "entry"} /\ format = "zip" /\ path \in files
    /\ files' = files \ {path} /\ kept' = kept \cup {path} /\ step' = "body"
    /\ UNCHANGED <<format, seen, names, entries, written, skipped, headers, compressed, out>>

\* copy: a piece of a member is counted before it is written
Piece ==
    /\ step = "body"
    /\ \E read \in 0 .. Compressed :
         /\ Reads(read) /\ compressed' = read
         /\ written' = written + 1 /\ Gives
         /\ step' = IF written + 1 > MostBytes \/ TooDense(written + 1 + skipped, read)
                    THEN "refused" ELSE "body"
    /\ UNCHANGED <<format, seen, names, files, kept, entries, skipped, headers>>
BodyEnds ==
    /\ step = "body"
    /\ step' = IF format = "zip" THEN "entry" ELSE "open"
    /\ UNCHANGED <<format, seen, names, files, kept, entries, written, skipped, headers, compressed, out>>

\* The end: of a compressed tar, what follows is read, for the stream's own check
ZipEnds ==
    /\ step \in {"open", "entry"} /\ format = "zip" /\ files = {} /\ step' = "done"
    /\ UNCHANGED <<format, seen, names, files, kept, entries, written, skipped, headers, compressed, out>>
TarEnds ==
    /\ step \in {"open", "entry"} /\ format # "zip"
    /\ IF TooDense(written + skipped + headers, compressed) THEN Refuse
       ELSE /\ Skip
            /\ step' = IF format = "tar.gz" THEN "trailing" ELSE "done"
            /\ UNCHANGED <<format, seen, names, files, kept, entries, written, compressed, out>>
Trailing ==
    /\ step = "trailing"
    /\ \/ \E read \in 0 .. Compressed :
            /\ Reads(read) /\ compressed' = read
            /\ headers' = headers + 1 /\ Gives
            /\ step' = IF headers + 1 > HeadersCap THEN "refused" ELSE "trailing"
            /\ UNCHANGED skipped
       \/ /\ Skip
          /\ step' = IF TooDense(written + skipped + headers, compressed) THEN "refused" ELSE "done"
          /\ UNCHANGED <<compressed, out>>
    /\ UNCHANGED <<format, seen, names, files, kept, entries, written>>

\* A stream that is damaged, or a person who stops it
Breaks == step \notin {"done", "refused"} /\ Refuse

Next ==
    \/ \E raw \in Spellings, type \in Types : Entry(raw, type) \/ Checked(raw, type)
    \/ \E path \in files : ReadFile(path)
    \/ Header \/ Piece \/ BodyEnds \/ ZipEnds \/ TarEnds \/ Trailing \/ Breaks
    \/ step \in {"done", "refused"} /\ UNCHANGED vars

Spec == Init /\ [][Next]_vars

-----------------------------------------------------------------------------
IsBelow(path, folder) == Len(path) > Len(folder) /\ SubSeq(path, 1, Len(folder)) = folder

\* An archive that unpacks can be stored on any disk: no two members are one name, none is in the
\* place of a folder of another, and one folder has one spelling.
MembersFit ==
    step = "done" =>
        \A a, b \in kept :
            /\ a # b => Folded(a) # Folded(b) /\ ~IsBelow(Folded(a), Folded(b))
            /\ \A p \in Above(a), q \in Above(b) : Folded(p) = Folded(q) => p = q

\* No archive keeps the decompressor busy for nothing, or fills the disk: what comes out of it is
\* in proportion to what it read, but for a piece, the headers of one member and the floor.
StaysInProportion ==
    /\ written <= MostBytes + 1
    /\ out <= written + skipped + headers
    /\ \/ out <= RatioFloor + HeadersCap + 1
       \/ out <= compressed * Ratio + HeadersCap + 1

-----------------------------------------------------------------------------
(***************************************************************************)
(* Why archives fit, and do not fill the disk.                             *)
(***************************************************************************)
MembersAssumption ==
    /\ Spellings \subseteq Seq(DOMAIN Nfc)
    /\ {MostBytes, Ratio, RatioFloor, HeadersCap, Compressed} \subseteq Nat

Paths == Seq({Nfc[n] : n \in DOMAIN Nfc}) \ {<<>>}
TypeOK ==
    /\ seen \subseteq [path : Paths, folder : BOOLEAN]
    /\ {written, skipped, headers, compressed, out} \subseteq Nat

\* No disk takes two of the names seen for one, and the folders of each are seen.
SeenApart == \A x, y \in seen : Folded(x.path) = Folded(y.path) => x = y
SeenBelow == \A x \in seen : \A p \in Above(x.path) : Node(p, TRUE) \in seen

\* Members are names seen, and never folders.
MembersSeen == \A path \in kept \cup files : Node(path, FALSE) \in seen

\* What came out is counted once, and what was written or forgotten was in proportion.
InProportion ==
    /\ out = written + skipped + headers
    /\ step # "refused" =>
         /\ written <= MostBytes /\ headers <= HeadersCap
         /\ ~TooDense(written + skipped, compressed)
    /\ step = "body" \/ format = "zip" => headers = 0
    /\ step = "trailing" => format # "zip"

IInv == TypeOK /\ SeenApart /\ SeenBelow /\ MembersSeen /\ InProportion /\ StaysInProportion
=============================================================================
