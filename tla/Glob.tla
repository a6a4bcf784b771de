-------------------------------- MODULE Glob ---------------------------------
(***************************************************************************)
(* The patterns of `select` and `exclude` (glob.rs): how a pattern is      *)
(* read, how it is matched with the whole path of a file, and the pattern  *)
(* that stands for one path.  Texts and paths are sequences of characters. *)
(***************************************************************************)
EXTENDS Naturals, SequencesExt

CONSTANTS
    Rank,       \* the order of the characters
    Texts,      \* what may be asked for
    Paths,      \* of the files of a dataset
    Many,       \* `*`, in place of a token
    Folders,    \* `**`, in place of the tokens of a name
    Bad         \* what cannot be read

VARIABLE asked  \* a pattern, as typed

Split(text) ==
    FoldLeft(LAMBDA parts, c : IF c = "/" THEN Append(parts, <<>>)
                               ELSE Front(parts) \o <<Append(Last(parts), c)>>,
             <<<<>>>>, text)

\* A token fits one character of a set, or is `*`.  A name's own character is a set of itself, and
\* `?` is everything but nothing.
OneOf(negated, ranges) == [negated |-> negated, ranges |-> ranges]
Char(c) == OneOf(FALSE, {<<c, c>>})
One == OneOf(TRUE, {})

fits(token, c) ==
    (\E r \in token.ranges : Rank[r[1]] <= Rank[c] /\ Rank[c] <= Rank[r[2]]) # token.negated

-----------------------------------------------------------------------------
(***************************************************************************)
(* Reading.                                                                *)
(***************************************************************************)
\* set: what is between the brackets, and what follows them
RECURSIVE Ranges(_, _)
Ranges(chars, first) ==
    LET rest == Tail(chars)
        after == Tail(rest)
        More(range, read) ==
            IF read = Bad THEN Bad ELSE [read EXCEPT !.ranges = @ \cup {range}]
    IN  CASE chars = <<>> -> Bad
          [] chars # <<>> /\ ~first /\ Head(chars) = "]" -> [ranges |-> {}, rest |-> rest]
          [] OTHER ->
               LET c == Head(chars)
               IN  IF rest = <<>> \/ Head(rest) # "-" THEN More(<<c, c>>, Ranges(rest, FALSE))
                   ELSE CASE after = <<>> -> Bad
                          [] after # <<>> /\ Head(after) = "]" ->
                               [ranges |-> {<<c, c>>, <<"-", "-">>}, rest |-> Tail(after)]
                          [] OTHER ->
                               IF Rank[Head(after)] < Rank[c] THEN Bad
                               ELSE More(<<c, Head(after)>>, Ranges(Tail(after), FALSE))

set(chars) ==
    LET negated == chars # <<>> /\ Head(chars) \in {"!", "^"}
        read == Ranges(IF negated THEN Tail(chars) ELSE chars, TRUE)
    IN  IF read = Bad THEN Bad
        ELSE [token |-> OneOf(negated, read.ranges), rest |-> read.rest]

RECURSIVE tokens(_)
tokens(part) ==
    LET Then(token, rest) ==
            LET more == tokens(rest) IN IF more = Bad THEN Bad ELSE <<token>> \o more
    IN  IF part = <<>> THEN <<>>
        ELSE CASE Head(part) = "?" -> Then(One, Tail(part))
               [] Head(part) = "*" ->
                    IF Len(part) > 1 /\ part[2] = "*" THEN Bad ELSE Then(Many, Tail(part))
               [] Head(part) = "[" ->
                    LET read == set(Tail(part))
                    IN  IF read = Bad THEN Bad ELSE Then(read.token, read.rest)
               [] OTHER -> Then(Char(Head(part)), Tail(part))

RECURSIVE TrimStart(_)
TrimStart(text) == IF text # <<>> /\ Head(text) = "/" THEN TrimStart(Tail(text)) ELSE text

\* new: the parts of a pattern, or Bad
new(text) ==
    LET names == Split(TrimStart(text))
        Read(name) == IF name = <<"*", "*">> THEN Folders ELSE tokens(name)
        parts == [i \in DOMAIN names |-> Read(names[i])]
    IN  IF \E i \in DOMAIN names : names[i] = <<>> \/ parts[i] = Bad THEN Bad ELSE parts

\* escape: the pattern of one path
escape(path) ==
    FlattenSeq([i \in DOMAIN path |->
        IF path[i] \in {"[", "*", "?"} THEN <<"[", path[i], "]">> ELSE <<path[i]>>])

-----------------------------------------------------------------------------
(***************************************************************************)
(* Matching.                                                               *)
(***************************************************************************)
\* Where a name goes on once the last star, met at token star[1] and character star[2], takes that
GoesOn(star) == star[2] + 1

\* matches_name: the loop, at token t and character c, with the last star if there was one
RECURSIVE Loop(_, _, _, _, _)
Loop(its, name, t, c, star) ==
    CASE c > Len(name) -> \A i \in t .. Len(its) : its[i] = Many
      [] c <= Len(name) /\ t <= Len(its) /\ its[t] = Many -> Loop(its, name, t + 1, c, <<t, c>>)
      [] OTHER ->
           IF t <= Len(its) /\ fits(its[t], name[c]) THEN Loop(its, name, t + 1, c + 1, star)
           ELSE /\ star # <<>>
                /\ Loop(its, name, star[1] + 1, GoesOn(star), <<star[1], star[2] + 1>>)
matches_name(its, name) == Loop(its, name, 1, 1, <<>>)

\* matches: how many names the parts so far may have taken
matches(parts, path) ==
    LET names == Split(path)
        After(reach, part) ==
            IF part = Folders THEN {j \in 0 .. Len(names) : \E i \in reach : i <= j}
            ELSE {j \in 1 .. Len(names) : j - 1 \in reach /\ matches_name(part, names[j])}
    IN  Len(names) \in FoldLeft(After, {0}, parts)

-----------------------------------------------------------------------------
Init == asked \in Texts

\* What a pattern means: `*` any characters of a name, `**` any folders, also none.
RECURSIVE NameMeant(_, _)
NameMeant(its, name) ==
    IF its = <<>> THEN name = <<>>
    ELSE IF Head(its) = Many
         THEN NameMeant(Tail(its), name) \/ (name # <<>> /\ NameMeant(its, Tail(name)))
         ELSE name # <<>> /\ fits(Head(its), Head(name)) /\ NameMeant(Tail(its), Tail(name))

RECURSIVE Meant(_, _)
Meant(parts, names) ==
    IF parts = <<>> THEN names = <<>>
    ELSE IF Head(parts) = Folders
         THEN Meant(Tail(parts), names) \/ (names # <<>> /\ Meant(parts, Tail(names)))
         ELSE names # <<>> /\ NameMeant(Head(parts), Head(names)) /\ Meant(Tail(parts), Tail(names))

\* Going back only to the last star, and keeping only how many folders were matched, matches what
\* the pattern means; and what stands for the file of a pasted link is that path and no other,
\* whatever characters it has ("an_escaped_path_matches_only_itself", glob.rs).
SelectsAsMeant ==
    LET parts == new(asked)
        alone == new(escape(asked))
        names == Split(asked)
    IN  /\ parts # Bad => \A path \in Paths : matches(parts, path) <=> Meant(parts, Split(path))
        /\ (\A i \in DOMAIN names : names[i] # <<>>) =>
              /\ alone # Bad /\ matches(alone, asked)
              /\ \A path \in Paths : matches(alone, path) => path = asked
=============================================================================
