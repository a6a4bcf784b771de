----------------------------- MODULE MCFetching -----------------------------
(***************************************************************************)
(* One run for the parts that getting bytes rests on: the claims on        *)
(* unfinished downloads, the accounts at the sources, the requests for     *)
(* small answers, and what watches downloads.  The first state chooses     *)
(* one, and the variables of the others stay as they are.                  *)
(***************************************************************************)
EXTENDS FetchingParts, TLC
CONSTANTS c1, c2, g1, f1, f2, f3, k1, k2, osf, zenodo, kaggle, h1, h2

accounts == <<exported, files, index, secrets, run, loose>>
requests == <<written, proxied, proxies, looked, link, step, hop, redirects, first, attempt,
              limited, sent, been>>
hereVars == <<vars, component, accounts, requests>>

\* ClaimLock as the .cfg says is one on a file system that does not lock gc.lock
Locked == INSTANCE ClaimLock WITH GcLock <- TRUE

\* Three accounts in files of their tools, two of them in .netrc, or two in the store of fetchloom
AllTools ==
    (kaggle :> <<"access_token", "kaggle.json">>) @@ (h1 :> <<"netrc">>) @@ (h2 :> <<"netrc">>)
AllExports == [a \in {kaggle, h1, h2, osf, zenodo} |-> IF a = kaggle THEN {k2} ELSE {}]

\* A host with a key for each of its ports and hosts it may be redirected to: another, whose name
\* may turn out private, a private name, a private address, the proxy itself, and a name nobody knows
Link(scheme, host, port) == [scheme |-> scheme, host |-> host, port |-> port]
KeyOf(host, value, everyHop) ==
    [host |-> host, port |-> 443, header |-> "authorization", value |-> value, everyHop |-> everyHop]
AllLinks ==
    {Link("https", "home", 443), Link("https", "home", 444), Link("http", "home", 80),
     Link("https", "other", 443), Link("https", "lab", 443), Link("https", "ip", 443),
     Link("https", "gate", 443), Link("https", "gone", 443)}
AllCredentials ==
    <<KeyOf("home", "broken", TRUE), KeyOf("home", "first", FALSE), KeyOf("home", "second", TRUE),
      KeyOf("other", "third", TRUE)>>
AllNames ==
    ("home" :> {"public"}) @@ ("other" :> {"public", "private"}) @@ ("lab" :> {"private"})
    @@ ("ip" :> {"private"}) @@ ("gate" :> {"private"}) @@ ("gone" :> {})
AllWritten == {{}, {"lab", "ip"}, {"gate"}}

\* Two large files of sizes their servers may tell, or one beside a file whose source told its own
Lengths == (f1 :> 3) @@ (f2 :> 2)

\* What the theorems about Requests, Accounts and Watch assume
ASSUME PartsAssumptions ==
    /\ Q!RequestsAssumption /\ Q!OneKind /\ A!AccountsAssumption /\ AO!AccountsAssumption
    /\ W!WatchAssumption /\ WN!WatchAssumption

NoAccounts ==
    /\ exported = None /\ files = None /\ index = None
    /\ secrets = None /\ run = None /\ loose = None
NoRequests ==
    /\ written = None /\ proxied = None /\ proxies = None /\ looked = None /\ link = None
    /\ step = None /\ hop = None /\ redirects = None /\ first = None /\ attempt = None
    /\ limited = None /\ sent = None /\ been = None
NoClaims == Init /\ named = None /\ bytes = "none"

HereInit ==
    \/ component \in {"locked claims", "claims"} /\ Init /\ NoAccounts /\ NoRequests
    \/ component = "accounts" /\ A!Init /\ NoClaims /\ NoRequests
    \/ component = "stored accounts" /\ AO!Init /\ NoClaims /\ NoRequests
    \/ component = "requests" /\ Q!Init /\ NoClaims /\ NoAccounts
    \/ /\ \/ component = "watching" /\ W!Init
          \/ component = "watching untold files" /\ WN!Init
       /\ step = None /\ NoClaims /\ NoAccounts

HereNext ==
    /\ UNCHANGED component
    /\ \/ /\ \/ component = "claims" /\ Next
             \/ component = "locked claims" /\ Locked!Next
          /\ UNCHANGED <<accounts, requests>>
       \/ /\ \/ component = "accounts" /\ A!Next
             \/ component = "stored accounts" /\ AO!Next
          /\ UNCHANGED <<vars, requests>>
       \/ /\ component = "requests" /\ Q!Next
          /\ UNCHANGED <<vars, accounts>>
       \/ /\ \/ component = "watching" /\ W!Next
             \/ component = "watching untold files" /\ WN!Next
          /\ UNCHANGED <<vars, accounts, step>>

\* ClaimLock's Fairness, of either instance: they differ in Hold alone
Claiming == component \in {"claims", "locked claims"}
HoldEither(p) == (component = "claims" /\ Hold(p)) \/ (component = "locked claims" /\ Locked!Hold(p))
HereFairness ==
    /\ \A c \in Claimers :
         /\ WF_vars(HoldEither(c) \/ (Claiming /\ (OpenClaim(c) \/ TryClaim(c) \/ CheckName(c))))
         /\ WF_vars(Claiming /\ pc[c] \in {"owned", "private"} /\ Die(c))
         /\ WF_vars(Claiming /\ (CloseLock(c) \/ CloseHold(c) \/ End(c)))
    /\ \A s \in Sweepers :
         WF_vars(\/ HoldEither(s)
                 \/ Claiming /\ \/ OpenSweep(s) \/ TrySweep(s) \/ Judge(s) \/ RemoveBytes(s) \/ Unlink(s)
                                \/ CloseLock(s) \/ CloseHold(s) \/ End(s))
    /\ WF_requests(component = "requests" /\ Q!Works)

HereSpec == HereInit /\ [][HereNext]_hereVars /\ HereFairness

-----------------------------------------------------------------------------
\* ClaimLock and Requests: whoever asks for a claim gets it or is told at last, and so does whoever
\* asks a host that redirects, refuses or fails for ever.
EveryWaitEnds ==
    /\ Claiming => EveryClaimEnds
    /\ component = "requests" => Q!EveryRequestEnds
=============================================================================
