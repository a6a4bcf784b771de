-------------------------------- MODULE Names --------------------------------
(***************************************************************************)
(* The names fetchloom gives to files and folders (name.rs), made of what  *)
(* servers, titles and references say, and what it refuses of a path.  A   *)
(* name is the sequence of its characters; a word that windows or a        *)
(* version control system keeps for itself stands as one character.        *)
(***************************************************************************)
EXTENDS Naturals, SequencesExt

CONSTANTS
    Lower,              \* the lowercase of the characters that have one
    Letters, Digits,    \* in lowercase
    Device, Metadata,   \* the words windows and repositories keep, in lowercase
    Longest, LongestEnding, LongestOnDisk,  \* characters of a file's name
    LongestAny, NearBreak,      \* ... of a dataset's, made of any text
    LongestTitle, MostWords,    \* ... of one made of a title
    Dangling,           \* words no title ends on
    LongestName,        \* ... of any dataset's
    Numbers,            \* what a taken name gets behind it, in their order
    Said,               \* what may be said
    None

VARIABLE said

lowercase(text) ==
    [i \in DOMAIN text |-> IF text[i] \in DOMAIN Lower THEN Lower[text[i]] ELSE text[i]]

\* The text without what is in `these` at its start, at its end
TrimStart(text, these) ==
    LET kept == {i \in DOMAIN text : text[i] \notin these}
    IN  IF kept = {} THEN <<>> ELSE SubSeq(text, Min(kept), Len(text))
TrimEnd(text, these) ==
    LET kept == {i \in DOMAIN text : text[i] \notin these}
    IN  IF kept = {} THEN <<>> ELSE SubSeq(text, 1, Max(kept))

\* The text before its first one of `these`, and after its last
Before(text, these) ==
    LET at == {i \in DOMAIN text : text[i] \in these}
    IN  IF at = {} THEN text ELSE SubSeq(text, 1, Min(at) - 1)
Behind(text, these) ==
    LET at == {i \in DOMAIN text : text[i] \in these}
    IN  IF at = {} THEN text ELSE SubSeq(text, Max(at) + 1, Len(text))

\* The parts between those of `these`
Parts(text, these) ==
    FoldLeft(LAMBDA parts, c : IF c \in these THEN Append(parts, <<>>)
                               ELSE Front(parts) \o <<Append(Last(parts), c)>>,
             <<<<>>>>, text)

-----------------------------------------------------------------------------
(***************************************************************************)
(* What is refused.                                                        *)
(***************************************************************************)
ControlOrBidi == {"bell", "bidi"}
WindowsRefuses == {"bell", ":", "*"}

escapes(path) ==
    \/ path = <<>> \/ (\E i \in DOMAIN path : path[i] \in {"\\"} \cup ControlOrBidi)
    \/ Len(path) > 1 /\ path[2] = ":" /\ lowercase(path)[1] \in Letters
    \/ \E part \in Range(Parts(path, {"/"})) : part \in {<<>>, <<".">>, <<".", ".">>}

is_reserved_on_windows(name) == lowercase(TrimEnd(Before(name, {"."}), {" "})) = <<Device>>

\* On windows; elsewhere only the length counts
unstorable(path) ==
    \E part \in Range(Parts(path, {"/"})) :
        \/ Len(part) > LongestOnDisk \/ is_reserved_on_windows(part)
        \/ \E i \in DOMAIN part : part[i] \in WindowsRefuses
        \/ part # <<>> /\ Last(part) \in {".", " "}

visible_to_hfs(part) == SelectSeq(part, LAMBDA c : c \notin {"joiner", "bidi"})
metadata(path) ==
    \E part \in Range(Parts(path, {"/"})) :
        lowercase(TrimEnd(Before(visible_to_hfs(part), {":"}), {".", " "})) = <<Metadata>>

-----------------------------------------------------------------------------
(***************************************************************************)
(* The names of files, and of their folders.                               *)
(***************************************************************************)
EndingFrom(name, dots) == IF dots = {} THEN <<>> ELSE SubSeq(name, Max(dots), Len(name))
CutTo(name, ending) == SubSeq(name, 1, Longest - Len(ending)) \o ending
shorten(name) ==
    LET ending == EndingFrom(name, {i \in DOMAIN name : name[i] = "."})
    IN  IF Len(name) <= Longest THEN name
        ELSE CutTo(name, IF Len(ending) <= LongestEnding THEN ending ELSE <<>>)

\* Without what windows drops at the end, also once it is cut
Trimmed(name) == TrimEnd(shorten(TrimEnd(name, {".", " "})), {".", " "})

Replaced(raw) == [i \in DOMAIN raw |-> IF raw[i] \in WindowsRefuses THEN "_" ELSE raw[i]]
NoDevice(name) == IF is_reserved_on_windows(name) THEN <<"_">> \o name ELSE name
sanitize(raw) ==
    LET replaced == Replaced(Behind(raw, {"/", "\\"}))
        name == Trimmed(TrimEnd(TrimStart(replaced, {" "}), {" "}))
    IN  IF "bidi" \in Range(raw) \/ name = <<>> THEN None ELSE NoDevice(name)

Stem(file) ==
    LET dots == {i \in DOMAIN file : file[i] = "."} \ {1}
    IN  IF dots = {} THEN file ELSE SubSeq(file, 1, Max(dots) - 1)
Untarred(stem) ==
    IF Len(stem) > 1 /\ lowercase(SubSeq(stem, Len(stem) - 1, Len(stem))) = <<".", "tar">>
    THEN SubSeq(stem, 1, Len(stem) - 2) ELSE stem
folder_for(file) ==
    LET name == TrimStart(Untarred(Stem(file)), {"."})
    IN  IF name = <<>> THEN <<"download">> ELSE name

-----------------------------------------------------------------------------
(***************************************************************************)
(* The names of datasets.                                                  *)
(***************************************************************************)
Word == Letters \cup Digits \cup {"_"}

is_dataset_name(text) ==
    /\ text # <<>> /\ Len(text) <= LongestName
    /\ Range(text) \subseteq Word \cup {"-"} /\ Head(text) \notin {"-", "_"}

\* The text with each run of other characters as one dash
Dashed(text) ==
    FoldLeft(LAMBDA name, c : IF c \in Word THEN Append(name, c)
                              ELSE IF name # <<>> /\ Last(name) = "-" THEN name
                              ELSE Append(name, "-"),
             <<>>, text)
CutAtBreak(name) ==
    LET breaks == {at \in NearBreak .. LongestAny : name[at + 1] = "-"}
    IN  TrimEnd(SubSeq(name, 1, IF breaks = {} THEN LongestAny ELSE Max(breaks)), {"-"})
Within(name) == IF Len(name) > LongestAny THEN CutAtBreak(name) ELSE name
dataset_name(text) ==
    LET name == Within(TrimEnd(TrimStart(Dashed(lowercase(text)), {"-", "_"}), {"-"}))
    IN  IF name = <<>> THEN None ELSE name

Joined(words) ==
    FoldLeft(LAMBDA name, word : IF name = <<>> THEN word ELSE name \o <<"-">> \o word, <<>>, words)

Words(lower) ==
    LET Bare(parts) == [i \in DOMAIN parts |-> TrimStart(parts[i], {"_"})]
    IN  SelectSeq(Bare(Parts(lower, Range(lower) \ Word)), LAMBDA word : word # <<>>)
\* How many words fit; and as many, but for dangling ones at the end
Fit(words) ==
    {n \in 1 .. Len(words) : n <= MostWords /\ Len(Joined(SubSeq(words, 1, n))) <= LongestTitle}
FirstWords(words, fit) ==
    SubSeq(words, 1, Max({n \in fit : n = 1 \/ words[n] \notin Dangling}))
title_name(title) ==
    LET words == Words(lowercase(title))
    IN  IF Fit(words) = {} THEN dataset_name(title) ELSE Joined(FirstWords(words, Fit(words)))

FirstOf(names, otherwise) ==
    LET given == SelectSeq(names, LAMBDA n : n # None)
    IN  IF given = <<>> THEN otherwise ELSE Head(given)

LastPart(bare, parts) == IF parts = <<>> THEN bare ELSE Last(parts)
reference_name(reference) ==
    LET bare == Before(reference, {"@"})
        last == LastPart(bare, SelectSeq(Parts(bare, {"/", ":"}), LAMBDA part : part # <<>>))
        lettered == Range(lowercase(last)) \cap Letters # {}
    IN  FirstOf(<<IF lettered THEN dataset_name(last) ELSE None>>, dataset_name(bare))

Unreserved(name) == IF is_reserved_on_windows(name) THEN name \o <<"-", "data">> ELSE name

\* choose_name, of a file alone, or a title; `taken` names are in data.toml
Single(file) == IF file = None THEN None ELSE dataset_name(folder_for(Behind(file, {"/"})))
Titled(title) == IF title = None THEN None ELSE title_name(title)
Free(name, taken) ==
    SelectSeq(<<name>> \o [i \in DOMAIN Numbers |-> name \o <<"-", Numbers[i]>>],
              LAMBDA n : n \notin taken)
choose_name(file, title, reference, taken) ==
    LET names == <<Single(file), Titled(title), reference_name(reference)>>
    IN  FirstOf(Free(Unreserved(FirstOf(names, <<"dataset">>)), taken), None)

\* The folder `get` makes, for one file or a dataset (cli/get.rs)
get_folder(file, title, reference) ==
    Unreserved(IF file # None THEN folder_for(Behind(file, {"/"}))
               ELSE FirstOf(<<Titled(title), reference_name(reference)>>, <<"download">>))

-----------------------------------------------------------------------------
Init == said \in Said

\* What disks may take a name for
Seen(part) ==
    {lowercase(part), lowercase(visible_to_hfs(part)),
     lowercase(TrimEnd(Before(part, {":"}), {".", " "}))}

\* What is said of a dataset that is one file, or more
Told == {[file |-> said, title |-> None, reference |-> said],
         [file |-> None, title |-> said, reference |-> said],
         [file |-> None, title |-> None, reference |-> said]}

Chosen(told, taken) == choose_name(told.file, told.title, told.reference, taken)
FitsEverywhere(name) == ~escapes(name) /\ ~unstorable(name)
KeepsDataset(name, next) ==
    next # name /\ \A n \in {name, next} : is_dataset_name(n) /\ FitsEverywhere(n)
KeepsFolder(folder) ==
    ~escapes(folder) /\ (is_reserved_on_windows(folder) => "." \in Range(folder))

\* The names fetchloom makes can be stored on every disk, in one folder, whatever a server or a
\* person says: of files as servers name them, also long ones; of datasets, which "data.toml
\* travels to windows machines" with (cli/project.rs) and which take no name twice.  The folder
\* `get` makes for a file that can be stored, or for a dataset, leaves no folder, and is no device
\* but where a dot follows its word, which "-data" does not change.  And no disk sees the metadata
\* of a repository in what is not refused for it.
NamesCanBeKept ==
    /\ sanitize(said) # None => FitsEverywhere(sanitize(said))
    /\ \A told \in Told :
          /\ KeepsDataset(Chosen(told, {}), Chosen(told, {Chosen(told, {})}))
          /\ \/ told.file # None /\ ~FitsEverywhere(said)
             \/ KeepsFolder(get_folder(told.file, told.title, told.reference))
    /\ (\E part \in Range(Parts(said, {"/"})) : <<Metadata>> \in Seen(part)) => metadata(said)
=============================================================================
