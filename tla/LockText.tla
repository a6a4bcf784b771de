------------------------------ MODULE LockText -------------------------------
(***************************************************************************)
(* The text of data.lock (project/lock.rs): how it is written, and its two *)
(* readers, a fast one for what fetchloom itself writes (lock/             *)
(* canonical.rs) and one for any TOML, which takes over after a person     *)
(* edited it.  A text is its lines: a line says something, and is spelled  *)
(* as fetchloom spells it, in another way, or as no TOML.  Of the keys a   *)
(* dataset must have, ref stands also for spec and resolved; of those it   *)
(* may have, title also for license and doi.                               *)
(***************************************************************************)
EXTENDS Naturals, SequencesExt

CONSTANTS
    Locks,      \* what commands may write: the datasets, in any order, each with files in any order
    Typed,      \* lines a person may put in
    Escaping,   \* paths that leave the folder of their dataset
    Coded,      \* the control characters that are written by number
    Changes,    \* how often a person edits
    None, Broken, Later

VARIABLES text, edits
vars == <<text, edits>>

Line(is, value) == [is |-> is, value |-> value, spelled |-> "as written"]
Bare(is) == Line(is, 0)

-----------------------------------------------------------------------------
(***************************************************************************)
(* Strings: a value is a sequence of characters, what is written of it     *)
(* between the quotes too.                                                 *)
(***************************************************************************)
Short == ("\"" :> "\"") @@ ("\\" :> "\\") @@ ("NL" :> "n") @@ ("TAB" :> "t") @@ ("CR" :> "r")

quoted(value) ==
    FlattenSeq([i \in DOMAIN value |->
        CASE value[i] \in DOMAIN Short -> <<"\\", Short[value[i]]>>
          [] value[i] \in DOMAIN Coded -> <<"\\", "u", Coded[value[i]]>>
          [] OTHER -> <<value[i]>>])

\* TOML refuses control characters as they are, but for a tab and those above U+007F
refused(c) == c \in {"NL", "CR", "BEL"}

\* string: the value of what is written, with these escapes of one letter
RECURSIVE string(_, _)
string(written, escapes) ==
    LET After(n, value) ==
            LET rest == string(SubSeq(written, n + 1, Len(written)), escapes)
            IN  IF rest = None THEN None ELSE <<value>> \o rest
        Meant(map, c) == CHOOSE v \in DOMAIN map : map[v] = c
    IN  IF written = <<>> THEN <<>>
        ELSE CASE Head(written) = "\"" \/ refused(Head(written)) -> None
               [] Head(written) # "\\" /\ Head(written) # "\"" /\ ~refused(Head(written)) ->
                    After(1, Head(written))
               [] OTHER ->
                    IF Len(written) = 1 THEN None
                    ELSE IF written[2] \in {escapes[v] : v \in DOMAIN escapes}
                         THEN After(2, Meant(escapes, written[2]))
                    ELSE IF /\ written[2] = "u" /\ Len(written) > 2
                            /\ written[3] \in {Coded[v] : v \in DOMAIN Coded}
                         THEN After(3, Meant(Coded, written[3]))
                    ELSE None

-----------------------------------------------------------------------------
(***************************************************************************)
(* render.                                                                 *)
(***************************************************************************)
ByName(datasets) == SortSeq(datasets, LAMBDA a, b : a.name < b.name)
ByPath(files) == SortSeq(files, LAMBDA a, b : a.path < b.path)

RenderDataset(dataset) ==
    <<Bare("blank"), Bare("[[dataset]]"), Line("name", dataset.name), Line("ref", dataset.ref)>>
    \o (IF dataset.title = None THEN <<>> ELSE <<Line("title", quoted(dataset.title))>>)
    \o <<Line("locked", dataset.locked)>>
    \o (IF dataset.files = <<>> THEN <<Bare("files = []")>>
        ELSE LET files == ByPath(dataset.files)
             IN  <<Bare("files = [")>> \o [i \in DOMAIN files |-> Line("file", files[i])]
                    \o <<Bare("]")>>)

render(lock) ==
    LET datasets == ByName(lock)
    IN  <<Line("version", 1)>> \o FlattenSeq([i \in DOMAIN datasets |-> RenderDataset(datasets[i])])

-----------------------------------------------------------------------------
(***************************************************************************)
(* canonical::read: line by line, as fetchloom writes them, with datasets  *)
(* and files in order.                                                     *)
(***************************************************************************)
\* Mutant: ... or twice the same
NotBehind(before, next) == before <= next

InOrder(before, next) == before < next

Fresh == [name |-> None, ref |-> None, title |-> None, locked |-> None, files |-> <<>>]

Fast(state, line) ==
    LET now == state.dataset
        value == IF line.is = "title" THEN string(line.value, Short) ELSE line.value
        Goes(at) == [state EXCEPT !.at = at]
        Takes(key, at) ==
            IF value = None THEN None ELSE [state EXCEPT !.at = at, !.dataset[key] = value]
        Ends ==
            IF state.datasets = <<>> \/ InOrder(Last(state.datasets).name, now.name)
            THEN [state EXCEPT !.at = "blank", !.datasets = Append(@, now)] ELSE None
        TakesFile ==
            IF /\ now.files = <<>> \/ InOrder(Last(now.files).path, value.path)
               /\ value.path \notin Escaping
            THEN [state EXCEPT !.dataset.files = Append(@, value)] ELSE None
    IN  CASE state = None \/ line.spelled # "as written" -> None
          [] state # None /\ line.spelled = "as written" ->
               CASE state.at = "version" /\ line = Line("version", 1) -> Goes("blank")
                 [] state.at = "blank" /\ line.is = "blank" -> Goes("[[dataset]]")
                 [] state.at = "[[dataset]]" /\ line.is = "[[dataset]]" ->
                      [state EXCEPT !.at = "name", !.dataset = Fresh]
                 [] state.at = "name" /\ line.is = "name" -> Takes("name", "ref")
                 [] state.at = "ref" /\ line.is = "ref" -> Takes("ref", "title")
                 [] state.at = "title" /\ line.is = "title" -> Takes("title", "locked")
                 [] state.at \in {"title", "locked"} /\ line.is = "locked" -> Takes("locked", "files")
                 [] state.at = "files" /\ line.is = "files = [" -> Goes("file")
                 [] state.at = "file" /\ line.is = "file" -> TakesFile
                 [] \/ state.at = "files" /\ line.is = "files = []"
                    \/ state.at = "file" /\ line.is = "]" -> Ends
                 [] OTHER -> None

\* Every line ends, also the last, and nothing follows a dataset but another
read(of) ==
    LET end == FoldLeft(Fast, [at |-> "version", dataset |-> Fresh, datasets |-> <<>>], of.lines)
    IN  IF of.ended /\ end # None /\ end.at = "blank" THEN end.datasets ELSE None

-----------------------------------------------------------------------------
(***************************************************************************)
(* The TOML reader: tables of keys, the first before any header; the order *)
(* of keys, comments and empty lines mean nothing.                         *)
(***************************************************************************)
Must == {"name", "ref", "locked", "files"}
May == Must \cup {"title"}

KeyOf(line) == IF line.is \in {"files = [", "files = []"} THEN "files" ELSE line.is
ValueOf(line) ==
    CASE KeyOf(line) = "files" -> <<>>
      [] line.is = "title" -> string(line.value, Short @@ ("BS" :> "b"))
      [] OTHER -> line.value

Toml(state, line) ==
    LET at == Len(state.tables)
        table == state.tables[at]
    IN  CASE state = None \/ line.spelled = "no TOML" -> None
          [] state # None /\ line.spelled # "no TOML" ->
               CASE line.is \in {"blank", "comment"} -> state
                 [] state.open /\ line.is = "file" ->
                      [state EXCEPT !.tables[at].files = Append(@, line.value)]
                 [] state.open /\ line.is = "]" -> [state EXCEPT !.open = FALSE]
                 [] ~state.open /\ line.is = "[[dataset]]" ->
                      [state EXCEPT !.tables = Append(@, <<>>)]
                 [] /\ ~state.open /\ KeyOf(line) \in (May \cup {"version", "note"}) \ DOMAIN table
                    /\ ValueOf(line) # None ->
                      [state EXCEPT !.tables[at] = (KeyOf(line) :> ValueOf(line)) @@ table,
                                    !.open = line.is = "files = ["]
                 [] OTHER -> None

\* The datasets of a text that says nothing unknown, and all that must be said
Stored(tables) ==
    [i \in 1 .. Len(tables) - 1 |->
        LET of == tables[i + 1]
        IN  [key \in DOMAIN Fresh |->
                CASE key = "files" -> ByPath(of.files)
                  [] key \in DOMAIN of /\ key # "files" -> of[key]
                  [] OTHER -> None]]

Twice(keys) == \E i, j \in DOMAIN keys : i # j /\ keys[i] = keys[j]

full(of) ==
    LET end == FoldLeft(Toml, [tables |-> <<<<>>>>, open |-> FALSE], of.lines)
        root == Head(end.tables)
        known == /\ DOMAIN root = {"version"}
                 /\ \A t \in Range(Tail(end.tables)) : Must \subseteq DOMAIN t /\ DOMAIN t \subseteq May
        lock == ByName(Stored(end.tables))
    IN  IF end = None \/ (end # None /\ (end.open \/ "version" \notin DOMAIN root)) THEN Broken
        ELSE IF root.version # 1 THEN (IF root.version > 1 THEN Later ELSE Broken)
        ELSE IF \/ ~known \/ Twice([i \in DOMAIN lock |-> lock[i].name])
                \/ \E d \in Range(lock) :
                      \/ Twice([i \in DOMAIN d.files |-> d.files[i].path])
                      \/ \E f \in Range(d.files) : f.path \in Escaping
             THEN Broken
        ELSE lock

parse(of) == IF read(of) # None THEN read(of) ELSE full(of)

-----------------------------------------------------------------------------
(***************************************************************************)
(* A person edits what fetchloom wrote.                                    *)
(***************************************************************************)
Written(lock) == [lines |-> render(lock), ended |-> TRUE]

Init == text \in {Written(lock) : lock \in Locks} /\ edits = 0

Edit(lines, ended) ==
    /\ edits < Changes /\ edits' = edits + 1
    /\ text' = [lines |-> lines, ended |-> ended]

PutIn(i, line) == Edit(InsertAt(text.lines, i, line), text.ended)
Retype(i, line) == Edit(ReplaceAt(text.lines, i, line), text.ended)
TakeOut(i) == Edit(RemoveAt(text.lines, i), text.ended)
Swap(i) ==
    /\ i < Len(text.lines)
    /\ Edit([text.lines EXCEPT ![i] = text.lines[i + 1], ![i + 1] = text.lines[i]], text.ended)
Respell(i, how) == Edit([text.lines EXCEPT ![i].spelled = how], text.ended)
CutEnd == text.ended /\ Edit(text.lines, FALSE)

Next ==
    \/ \E i \in DOMAIN text.lines :
         \/ \E line \in Typed : PutIn(i, line) \/ Retype(i, line)
         \/ TakeOut(i) \/ Swap(i)
         \/ \E how \in {"otherwise", "no TOML"} : Respell(i, how)
    \/ \E line \in Typed : PutIn(Len(text.lines) + 1, line)
    \/ CutEnd

Spec == Init /\ [][Next]_vars

-----------------------------------------------------------------------------
IsLock(result) == result \notin {None, Broken, Later}
Turned(lock) == Reverse([i \in DOMAIN lock |-> [lock[i] EXCEPT !.files = Reverse(@)]])

\* The fast reader takes nothing that the TOML reader reads otherwise or refuses, whatever a person
\* edits; a lock that was read is written so that the fast reader reads it back, whatever its
\* strings hold; and "the same inputs always give the same bytes" (lock.rs), in whatever order the
\* datasets and files came.
ReadsBackAsWritten ==
    LET lock == parse(text)
    IN  /\ read(text) # None => full(text) = read(text)
        /\ IsLock(lock) => /\ read(Written(lock)) = lock
                           /\ render(Turned(lock)) = render(lock)
=============================================================================
