------------------------------ MODULE Accounts ------------------------------
(***************************************************************************)
(* Keys of accounts at the sources (auth.rs, auth/*.rs, cli/auth.rs, and   *)
(* the offer to sign in of cli.rs): where each is kept, how one is found,  *)
(* saved and removed, and the command that is refused for want of a key    *)
(* and runs again.  One command runs at a time, and may be killed.         *)
(*                                                                         *)
(* A key is kept in a file the source's own tools read, or, for a source   *)
(* without one, in the credential store of the system or in a file of      *)
(* fetchloom's, and then an index says where.                              *)
(***************************************************************************)
EXTENDS Naturals, Sequences, FiniteSets

CONSTANTS
    ToolFiles,      \* of each account: the files its tools read, in their order
    Netrc,          \* the file of them that has an entry for each account
    Exports,        \* of each account: the keys the environment may have
    Tokens,         \* the keys a person may have
    Accepted,       \* those the sources accept
    None

VARIABLES
    exported,       \* the key the environment has for each account
    files,          \* the keys in each tool file, by account
    index,          \* accounts.json: the place each account's key is saved in, and if it parses
    secrets,        \* the keys each place of the store has, by account
    run,            \* the running command and what it knows
    loose           \* the accounts whose saving failed or was cut off half way

vars == <<exported, files, index, secrets, run, loose>>
kept == <<files, index, secrets>>

Accounts == DOMAIN ToolFiles
Stored == {a \in Accounts : ToolFiles[a] = <<>>}
Tools == UNION {{ToolFiles[a][i] : i \in DOMAIN ToolFiles[a]} : a \in Accounts}
Places == {"keyring", "file"}

\* A file of fetchloom's settings that does not parse reads as empty where it is only read (saved,
\* file), and is an error where it would be written back (load).
Entries(file) == IF file.parses THEN file.entries ELSE <<>>

Of(entries, a) == IF a \in DOMAIN entries THEN entries[a] ELSE None
With(entries, a, key) == [b \in DOMAIN entries \cup {a} |-> IF b = a THEN key ELSE entries[b]]
Without(entries, a) == [b \in DOMAIN entries \ {a} |-> entries[b]]

-----------------------------------------------------------------------------
\* Finding a key

\* store::read
Saved(a) ==
    LET place == Of(Entries(index), a)
    IN  IF place = None THEN None ELSE Of(Entries(secrets[place]), a)

\* The tool files of an account that have a key of it
Holding(a) == {i \in DOMAIN ToolFiles[a] : Of(files[ToolFiles[a][i]], a) # None}
Foremost(a) == CHOOSE i \in Holding(a) : \A j \in Holding(a) : i <= j

\* Account::find: its origin and the key, the environment first
Find(a) ==
    IF exported[a] # None THEN [origin |-> "variable", key |-> exported[a]]
    ELSE IF Holding(a) # {}
         THEN LET file == ToolFiles[a][Foremost(a)] IN [origin |-> file, key |-> files[file][a]]
    ELSE IF a \in Stored /\ Saved(a) # None
         THEN [origin |-> Of(Entries(index), a), key |-> Saved(a)]
    ELSE [origin |-> None, key |-> None]

-----------------------------------------------------------------------------
Idle == [step |-> "idle"]

Init ==
    /\ exported = [a \in Accounts |-> None]
    /\ files = [f \in Tools |-> <<>>]
    /\ index = [entries |-> <<>>, parses |-> TRUE]
    /\ secrets = [p \in Places |-> [entries |-> <<>>, parses |-> TRUE]]
    /\ run = Idle /\ loose = {}

Goes(step) == run' = [run EXCEPT !.step = step]

\* A command ends; the work a sign-in was offered for runs again if the offer came to something
Ends == run' = Idle
SignedIn(saved) ==
    IF run.work
    THEN run' = [run EXCEPT !.step = "again", !.unsaved = IF saved THEN None ELSE run.key]
    ELSE Ends

Command(step, a) ==
    run' = [step |-> step, account |-> a, work |-> step = "work", told |-> FALSE,
            key |-> None, place |-> None, before |-> None, entries |-> <<>>, unsaved |-> None]

Begin ==
    /\ run.step = "idle"
    /\ \E a \in Accounts : \E step \in {"sign in", "sign out", "work"} : Command(step, a)
    /\ UNCHANGED <<exported, kept, loose>>

-----------------------------------------------------------------------------
\* The command that needs an account

\* Context::net: a key of this command alone comes before those found
Sends(a) == IF run.unsaved # None THEN run.unsaved ELSE Find(a).key

\* The source serves it or fails, or refuses it for want of a key or of terms accepted, and a
\* person is at the terminal
Work ==
    /\ \/ run.step \in {"work", "again"} /\ Ends
       \/ run.step = "work" /\ Goes("offer")
    /\ UNCHANGED <<exported, kept, loose>>

\* offer: declined; or terms to accept with the key there is; or to sign in
Offer ==
    /\ run.step = "offer"
    /\ \/ Ends
       \/ Goes("sign in")
       \/ Find(run.account).key # None /\ Goes("again")
    /\ UNCHANGED <<exported, kept, loose>>

-----------------------------------------------------------------------------
\* auth login

\* What a person gives is checked with the source, which may not answer
Given(key, told) ==
    /\ run' = [run EXCEPT !.step = "save", !.key = key, !.told = told]
    /\ UNCHANGED <<exported, kept, loose>>

\* sign_in: a key there already is replaced only if the person says so
SignIn ==
    /\ run.step = "sign in"
    /\ \/ \E key \in Tokens : \E told \in (IF run.work THEN {FALSE} ELSE BOOLEAN) : Given(key, told)
       \/ /\ Find(run.account).key # None
          /\ IF run.work THEN Goes("again") ELSE Ends
          /\ UNCHANGED <<exported, kept, loose>>

\* A refused key is never saved
Refused ==
    /\ run.step = "save" /\ run.key \notin Accepted
    /\ Ends
    /\ UNCHANGED <<exported, kept, loose>>

\* The person does not want it saved: it serves this command
NotSaved ==
    /\ run.step = "save" /\ ~run.told
    /\ SignedIn(FALSE)
    /\ UNCHANGED <<exported, kept, loose>>

\* What a tool file holds once a key is saved in it: the key alone, or .netrc with its entry replaced
Rewritten(f, a, key) == With(IF f = Netrc THEN files[f] ELSE <<>>, a, key)

\* save, to a file its tools read
SaveForTools ==
    /\ run.step = "save" /\ run.account \notin Stored
    /\ \E i \in DOMAIN ToolFiles[run.account] :
         LET f == ToolFiles[run.account][i]
         IN  files' = [files EXCEPT ![f] = Rewritten(f, run.account, run.key)]
    /\ SignedIn(TRUE)
    /\ UNCHANGED <<exported, index, secrets, loose>>

\* store::save, in its order: the index is read, the key stored, the one before removed, and the
\* index written.  The keyring may be usable or not, each may refuse.
Load(place) ==
    /\ run.step = "save" /\ run.account \in Stored /\ index.parses
    /\ run' = [run EXCEPT !.step = "put", !.place = place, !.entries = index.entries,
                          !.before = Of(index.entries, run.account)]
    /\ UNCHANGED <<exported, kept, loose>>

\* load, of the keys in a place: the keyring has no file
Loads(place) == secrets[place].parses

Put ==
    /\ run.step = "put" /\ Loads(run.place)
    /\ secrets' = [secrets EXCEPT ![run.place] =
                      [entries |-> With(Entries(secrets[run.place]), run.account, run.key), parses |-> TRUE]]
    /\ Goes("unput")
    /\ UNCHANGED <<exported, files, index, loose>>

\* Mutant: the key stays where it was before
RemoveNone == {}

RemoveBefore == {run.before} \ {run.place, None}

Unput ==
    /\ run.step = "unput" /\ \A p \in RemoveBefore : Loads(p)
    /\ secrets' = [p \in Places |->
                      IF p \in RemoveBefore
                      THEN [secrets[p] EXCEPT !.entries = Without(Entries(secrets[p]), run.account)]
                      ELSE secrets[p]]
    /\ Goes("name")
    /\ UNCHANGED <<exported, files, index, loose>>

Name ==
    /\ run.step = "name"
    /\ index' = [entries |-> With(run.entries, run.account, run.place), parses |-> TRUE]
    /\ SignedIn(TRUE)
    /\ UNCHANGED <<exported, files, secrets, loose>>

-----------------------------------------------------------------------------
\* auth logout

\* sign_out: nothing to remove; a variable is the person's; what other tools read stays unless
\* the person says so
SignOut ==
    /\ run.step = "sign out"
    /\ LET found == Find(run.account)
       IN  \/ Ends /\ UNCHANGED files
           \/ /\ found.origin \in Places
              /\ index.parses
              /\ run' = [run EXCEPT !.step = "forget", !.place = found.origin,
                                    !.entries = Without(index.entries, run.account)]
              /\ UNCHANGED files
           \/ /\ found.origin \in Tools
              /\ files' = [files EXCEPT ![found.origin] = Without(@, run.account)]
              /\ Ends
    /\ UNCHANGED <<exported, index, secrets, loose>>

\* store::forget: the key goes, and then its name
Forget ==
    /\ run.step = "forget" /\ Loads(run.place)
    /\ secrets' = [secrets EXCEPT ![run.place].entries = Without(Entries(secrets[run.place]), run.account)]
    /\ Goes("unname")
    /\ UNCHANGED <<exported, files, index, loose>>

Unname ==
    /\ run.step = "unname"
    /\ index' = [entries |-> run.entries, parses |-> TRUE]
    /\ Ends
    /\ UNCHANGED <<exported, files, secrets, loose>>

\* Any step fails, or the command is killed
Fails ==
    /\ run.step \in {"save", "put", "unput", "name", "forget", "unname"}
    /\ Ends
    /\ loose' = IF run.step \in {"unput", "name"} THEN loose \cup {run.account} ELSE loose
    /\ UNCHANGED <<exported, kept>>

-----------------------------------------------------------------------------
\* A person exports a key, and breaks a file of the settings or mends it

Export(a) ==
    /\ run.step = "idle"
    /\ \E key \in Exports[a] \cup {None} : exported' = [exported EXCEPT ![a] = key]
    /\ UNCHANGED <<kept, run, loose>>

Garble ==
    /\ run.step = "idle"
    /\ \/ index' = [index EXCEPT !.parses = ~@] /\ UNCHANGED secrets
       \/ secrets' = [secrets EXCEPT !["file"].parses = ~@] /\ UNCHANGED index
    /\ UNCHANGED <<exported, files, run, loose>>

Next ==
    \/ Begin \/ Work \/ Offer
    \/ SignIn \/ Refused \/ NotSaved \/ SaveForTools \/ Put \/ Unput \/ Name
    \/ SignOut \/ Forget \/ Unname \/ Fails \/ Garble
    \/ \E place \in Places : Load(place)
    \/ \E a \in Accounts : Export(a)

Spec == Init /\ [][Next]_vars

-----------------------------------------------------------------------------
\* The key the files have for an account, whether or not they parse as they are
Held(a) ==
    IF Holding(a) # {} THEN files[ToolFiles[a][Foremost(a)]][a]
    ELSE IF Of(index.entries, a) = None THEN None
    ELSE Of(secrets[index.entries[a]].entries, a)

\* "a store that refuses it leaves the old key working", "writing it back never drops the keys it
\* held" (auth/store.rs): no step of a sign-in takes away a key of another account, and of its own
\* account only when the new key is stored, however many commands failed or were killed before it
\* and whichever file a person broke.
KeysKept ==
    \A a \in Accounts :
        Held(a) # None /\ Held(a)' # Held(a) =>
            /\ run.step # "idle" /\ run.account = a
            /\ \/ run.step \in {"sign out", "forget", "unname"}
               \/ Held(a)' = run.key
               \/ run.place # None /\ Of(secrets[run.place].entries, a) = run.key

\* "replacing what was saved for it before" (store::save), "returns whether anything was"
\* (forget): when nothing runs, each key in the store is one the index knows of, so that signing
\* out removes it.  Except where saving failed or was cut off after the key was stored.
NothingLeftBehind ==
    run.step = "idle" =>
        \A p \in Places : \A a \in DOMAIN secrets[p].entries \ loose : Of(index.entries, a) = p

\* "then run the command once more with the new key" (cli.rs): the run after a sign-in sends the
\* key that was given, one not saved too.  Except where it was saved behind another: the
\* environment comes before every file, and a file before those its tools read after it.
RunsWithNewKey ==
    run.step = "again" /\ run.key # None =>
        LET a == run.account
            behind == {i \in Holding(a) : i > Foremost(a) /\ files[ToolFiles[a][i]][a] = run.key}
        IN  \/ Sends(a) = run.key
            \/ run.unsaved = None /\ (exported[a] # None \/ behind # {})

-----------------------------------------------------------------------------
(***************************************************************************)
(* Why keys follow.                                                        *)
(***************************************************************************)
\* Only .netrc has entries of several accounts
AccountsAssumption ==
    /\ \A a \in Accounts : DOMAIN ToolFiles[a] \subseteq Nat
    /\ \A a, b \in Accounts : \A i \in DOMAIN ToolFiles[a], j \in DOMAIN ToolFiles[b] :
          a # b /\ ToolFiles[a][i] = ToolFiles[b][j] => ToolFiles[a][i] = Netrc
    /\ Tools \cap (Places \cup {"variable", None}) = {}
    /\ None \notin Places \cup Tokens \cup {"variable"}

Fields == {"step", "account", "work", "told", "key", "place", "before", "entries", "unsaved"}
TypeOK ==
    /\ DOMAIN files = Tools
    /\ DOMAIN index = {"entries", "parses"} /\ \A a \in DOMAIN index.entries : index.entries[a] \in Places
    /\ DOMAIN secrets = Places /\ \A p \in Places : DOMAIN secrets[p] = {"entries", "parses"}
    /\ run.step # "idle" => DOMAIN run = Fields /\ run.account \in Accounts

\* Nobody else writes the index while a command does
KnowsIndex ==
    /\ run.step \in {"put", "unput", "name"} =>
         run.entries = index.entries /\ run.before = Of(index.entries, run.account)
    /\ run.step \in {"forget", "unname"} =>
         /\ run.entries = Without(index.entries, run.account)
         /\ run.place = Of(index.entries, run.account)

\* From Put on the new key is where the index is about to say
KeyInPlace ==
    /\ run.step \in {"work", "offer", "sign in", "sign out"} => run.key = None
    /\ run.step = "save" => run.key \in Tokens
    /\ run.step \in {"put", "unput", "name", "forget", "unname"} =>
         run.account \in Stored /\ run.place \in Places
    /\ run.step \in {"unput", "name"} =>
         /\ secrets[run.place].parses
         /\ run.account \in DOMAIN secrets[run.place].entries
         /\ secrets[run.place].entries[run.account] = run.key

\* Where the store may have a key of the running command's account, while it is moved or forgotten
Passing ==
    CASE run.step = "unput" -> {run.before, run.place}
      [] run.step = "name" -> {run.place}
      [] run.step = "unname" -> {}
LeftWhereNamed ==
    \A p \in Places : \A a \in DOMAIN secrets[p].entries \ loose :
        IF run.step \in {"unput", "name", "unname"} /\ a = run.account THEN p \in Passing
        ELSE Of(index.entries, a) = p

IInv == TypeOK /\ KnowsIndex /\ KeyInPlace /\ LeftWhereNamed /\ RunsWithNewKey
=============================================================================
