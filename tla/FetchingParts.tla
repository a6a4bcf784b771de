--------------------------- MODULE FetchingParts ----------------------------
(***************************************************************************)
(* What small answers are asked for with, and where, where the keys of     *)
(* accounts are kept, and what watches downloads: the parts of fetching    *)
(* beside the claims on downloads whose promises are proved.  A behaviour  *)
(* is one of a part, over the variables it uses here.                      *)
(***************************************************************************)
EXTENDS ClaimLock, Sequences

\* As in Requests
CONSTANTS
    Links, Credentials, Unsendable, Literal, Resolves, Unknown, Written, Proxy, Direct,
    Redirects, Attempts, Limited
\* As in Accounts
CONSTANTS
    ToolFiles, Netrc, Exports, Tokens, Accepted,
    OwnStore    \* accounts of sources whose tools read no file
\* Of Watch
CONSTANTS Downloads, FileSizes, ToldFiles, AskAbove, MostTries

VARIABLES
    component,
    written, proxied, proxies, looked, link, step, hop, redirects, first, attempt, limited, sent,
    been,                                           \* Requests
    exported, files, index, secrets, run, loose     \* Accounts

Q == INSTANCE Requests

A == INSTANCE Accounts
AO == INSTANCE Accounts WITH ToolFiles <- [a \in OwnStore |-> <<>>], Accepted <- Tokens

\* Sources tell the sizes of some downloads, or of none.
W == INSTANCE Watch WITH
        approval <- link, questions <- redirects, step <- proxies, begun <- hop, try <- attempt,
        position <- been, received <- sent, counted <- looked, unbounded <- written,
        sized <- proxied, length <- first, advanced <- limited,
        Files <- Downloads, Sizes <- FileSizes, Told <- ToldFiles, Ask <- AskAbove,
        Tries <- MostTries
WN == INSTANCE Watch WITH
        approval <- link, questions <- redirects, step <- proxies, begun <- hop, try <- attempt,
        position <- been, received <- sent, counted <- looked, unbounded <- written,
        sized <- proxied, length <- first, advanced <- limited,
        Files <- Downloads, Sizes <- FileSizes, Told <- {}, Ask <- AskAbove, Tries <- MostTries

\* Which part a behaviour is one of does not change.
IsOf(name) == component = name /\ [][UNCHANGED component]_component

-----------------------------------------------------------------------------
\* Requests: a key goes to its own host alone, and past a redirect only where it is meant to, and no
\* link and no redirect leads to a private address that nobody wrote.
NothingAstray == component = "requests" => Q!KeysStayHome /\ Q!NothingPrivate

\* Accounts: no sign-in takes a key away that it does not replace, the store has no key that signing
\* out would not remove, and what runs again after a sign-in sends the key that was given, or one
\* before it.
keeping == A!vars
KeysFollow ==
    [][/\ component = "accounts" => A!KeysKept /\ A!NothingLeftBehind' /\ A!RunsWithNewKey'
       /\ component = "stored accounts" =>
             AO!KeysKept /\ AO!NothingLeftBehind' /\ AO!RunsWithNewKey']_keeping

\* Watch: one question is asked before large files of sizes only servers tell, none goes on without
\* its answer, and what arrives is counted once.
AsksOnceBeforeLarge ==
    /\ component = "watching" => W!AsksOnceBeforeLarge /\ W!CountsOnce
    /\ component = "watching untold files" => WN!AsksOnceBeforeLarge /\ WN!CountsOnce
=============================================================================
