------------------------------ MODULE Requests -------------------------------
(***************************************************************************)
(* One request for a small answer (net.rs, net/address.rs, net/failure.rs, *)
(* net/api.rs): where it may go, the keys that go with it, the redirects   *)
(* it follows one hop at a time, and when it is tried again.               *)
(*                                                                         *)
(* A link is its scheme, host and port.  What names resolve to, the        *)
(* proxy of this machine and the hosts a person wrote stay as they are     *)
(* while a request runs.  Its permits and the limits of hosts are Pace's.  *)
(***************************************************************************)
EXTENDS Naturals, Sequences, FiniteSets

CONSTANTS
    Links,          \* [scheme, host, port] that are asked for or redirected to
    Credentials,    \* the keys found, in their order: [host, port, header, value, everyHop]
    Unsendable,     \* the values no header can carry
    Literal,        \* the hosts that are addresses written out
    Resolves,       \* of each host: the kinds of its addresses, "public" and "private", or none
    Unknown,        \* the hosts no DNS server knows
    Written,        \* the sets of hosts a person may have written
    Proxy,          \* the host of the proxy
    Direct,         \* the hosts that are asked without it
    Redirects, Attempts, Limited,   \* REDIRECTS, ATTEMPTS and LIMITED
    None

VARIABLES
    written, proxied,   \* what a person wrote, and whether they set a proxy
    proxies, looked,    \* the proxies used so far, and what looking up the hosts sent through them found
    link, step,         \* what is asked for, and what comes next
    hop, redirects, first,      \* of this try: the hop, those before it, and whether all had link's origin
    attempt, limited,   \* the tries, and those a limit refused
    sent, been          \* the request on its way; history: the links of this try

vars == <<written, proxied, proxies, looked, link, step, hop, redirects, first, attempt, limited,
          sent, been>>
settings == <<written, proxied>>
trying == <<hop, redirects, first, been>>
retries == <<attempt, limited>>

-----------------------------------------------------------------------------
\* Keys

Same(k, l) == k.host = l.host /\ k.port = l.port /\ k.header = l.header

\* Net::new: the keys a header can carry, the first of each host, port and header
Keys ==
    {Credentials[i] : i \in {j \in DOMAIN Credentials :
        /\ Credentials[j].value \notin Unsendable
        /\ \A h \in 1 .. j - 1 :
             Credentials[h].value \in Unsendable \/ ~Same(Credentials[h], Credentials[j])}}

\* Net::request
Carries(u, home) ==
    {k \in Keys : u.scheme = "https" /\ (home \/ k.everyHop) /\ k.port = u.port /\ k.host = u.host}

-----------------------------------------------------------------------------
\* Where a request may go

\* Typed::check, before a link is followed: it says nothing of names
Allowed(u) ==
    \/ u.host \in written
    \/ u.host \notin proxies /\ (u.host \in Literal => "private" \notin Resolves[u.host])

\* Typed::may_resolve_privately
MayBePrivate(host) == host \in written \cup proxies

Through(u) == proxied /\ u.host \notin Direct

\* private_address, kept for the run: a name that cannot be resolved, or not now, is left to the proxy
Finds(host) ==
    IF host \in DOMAIN looked THEN {looked[host]}
    ELSE {"unresolved", IF "private" \in Resolves[host] THEN "private" ELSE "public"}

\* The addresses the resolver leaves of a name.  A proxy's host is the one connected to.
Peer(u) == IF Through(u) THEN Proxy ELSE u.host
Left(host) ==
    IF host \in Literal \/ MayBePrivate(host) THEN Resolves[host] ELSE Resolves[host] \ {"private"}

-----------------------------------------------------------------------------
Init ==
    /\ written \in Written /\ proxied \in BOOLEAN
    /\ proxies = {} /\ looked = <<>>
    /\ link = None /\ step = "idle"
    /\ hop = None /\ redirects = 0 /\ first = TRUE /\ been = {}
    /\ attempt = 1 /\ limited = 0 /\ sent = None

Goes(label) == step' = label

\* Each try follows the link from its start
Starts(u) ==
    /\ hop' = u /\ redirects' = 0 /\ first' = TRUE /\ been' = {}
    /\ Goes("check")

\* Net::get: refused, or tried for the first time
Ask ==
    /\ step \in {"idle", "answered", "failed"}
    /\ \E u \in Links :
         /\ link' = u
         /\ \/ Allowed(u) /\ Starts(u)
            \/ ~Allowed(u) /\ Goes("failed") /\ UNCHANGED trying
    /\ attempt' = 1 /\ limited' = 0
    /\ UNCHANGED <<settings, proxies, looked, sent>>

\* Proxies::check: a name nobody wrote is looked up, once, before a proxy carries a request to it
Check ==
    /\ step = "check"
    /\ IF ~Through(hop) THEN Goes("send") /\ UNCHANGED <<proxies, looked>>
       ELSE /\ proxies' = proxies \cup {Proxy}
            /\ IF hop.host \in Literal \cup written THEN Goes("send") /\ UNCHANGED looked
               ELSE \E found \in Finds(hop.host) :
                      /\ looked' = [h \in DOMAIN looked \cup {hop.host} |->
                                       IF h = hop.host THEN found ELSE looked[h]]
                      /\ Goes(IF found = "private" THEN "failed" ELSE "send")
    /\ UNCHANGED <<settings, link, trying, retries, sent>>

\* Mutant: a redirect back to the first origin counts as never having left it
SameOrigin == hop = link

\* first_origin
AtHome == first /\ hop = link

\* classify: what no try changes ends the request
Failed(cause) == IF cause \in {"refused", "unknown", "untrusted"} THEN "failed" ELSE "transient"

\* The request goes out once its peer is found: a name no DNS knows, or one with private
\* addresses alone, ends it; a lookup or a connection may fail for now
Send ==
    /\ step = "send"
    /\ first' = AtHome /\ been' = been \cup {hop}
    /\ LET peer == Peer(hop)
       IN  \/ /\ Left(peer) # {}
              /\ Goes("sent")
              /\ sent' = [to |-> hop, carries |-> Carries(hop, AtHome), from |-> been \cup {hop},
                          reaches |-> Left(peer)]
           \/ /\ \/ peer \in Unknown /\ Goes(Failed("unknown"))
                 \/ Resolves[peer] # {} /\ Left(peer) = {} /\ Goes(Failed("refused"))
                 \/ Goes(Failed("timeout"))
              /\ UNCHANGED sent
    /\ UNCHANGED <<settings, proxies, looked, link, hop, redirects, retries>>

\* redirect_target, and what send_on does with it
Redirect ==
    /\ step = "sent"
    /\ \E next \in Links :
         /\ redirects' = redirects + 1
         /\ IF redirects = Redirects \/ ~Allowed(next)
            THEN Goes("failed") /\ UNCHANGED hop
            ELSE Goes("check") /\ hop' = next
    /\ sent' = None
    /\ UNCHANGED <<settings, proxies, looked, link, first, been, retries>>

\* is_transient, refusal: a status that may pass, a limit that ends soon; any other is for who asked
Refusal(status) ==
    CASE status = "may pass" -> "transient"
      [] status = "limit" -> "limited"
      [] OTHER -> "answered"

\* answer: a status, and what it brings read whole; or no answer, or one that breaks off; or one too long
Answer ==
    /\ step = "sent"
    /\ \/ \E status \in {"found", "missing", "may pass", "limit"} : Goes(Refusal(status))
       \/ \E cause \in {"timeout", "broken", "untrusted", "refused"} : Goes(Failed(cause))
    /\ sent' = None
    /\ UNCHANGED <<settings, proxies, looked, link, trying, retries>>

\* Retry::wait: given up, or the server asks for too long a wait, or tried again
Wait ==
    /\ \/ step = "transient"
       \/ step = "limited" /\ limited = Limited
    /\ \/ /\ attempt < Attempts /\ attempt' = attempt + 1
          /\ Starts(link)
       \/ Goes("failed") /\ UNCHANGED <<attempt, trying>>
    /\ UNCHANGED <<settings, proxies, looked, link, limited, sent>>

\* Mutant: the waits for a limit are not counted
WaitUncounted == step = "limited" /\ Starts(link) /\ UNCHANGED <<settings, proxies, looked, link, retries, sent>>

\* Retry::limited: the next try waits for the limit, and is none of the tries
WaitLimited ==
    /\ step = "limited" /\ limited < Limited
    /\ limited' = limited + 1
    /\ Starts(link)
    /\ UNCHANGED <<settings, proxies, looked, link, attempt, sent>>

\* The run is stopped wherever a request waits
Stop ==
    /\ step \in {"check", "send", "sent", "transient", "limited"}
    /\ Goes("failed") /\ sent' = None
    /\ UNCHANGED <<settings, proxies, looked, link, trying, retries>>

Works == Check \/ Send \/ Redirect \/ Answer \/ Wait \/ WaitLimited
Next == Ask \/ Works \/ Stop

Spec == Init /\ [][Next]_vars
FairSpec == Spec /\ WF_vars(Works)

-----------------------------------------------------------------------------
\* "a credential goes only to its own host, and never once a redirect has left the first one,
\* except a saved login" (net.rs): whatever the redirects, also back, a request carries keys of
\* its own host and port alone, over https, one value of a header, and those that do not go on
\* every hop only where this try was nowhere else.
KeysStayHome ==
    sent # None =>
        /\ \A k \in sent.carries :
             /\ sent.to.scheme = "https" /\ k.host = sent.to.host /\ k.port = sent.to.port
             /\ k.everyHop \/ sent.from = {link}
        /\ \A k, l \in sent.carries : k.header = l.header => k = l

\* "a URL nobody wrote may not reach private addresses", "only reaching [a proxy] is allowed"
\* (address.rs): a request that reaches a private address goes to a host a person wrote, or through
\* the proxy and to no host found or written as private.
NothingPrivate ==
    sent # None /\ "private" \in sent.reaches =>
        \/ sent.to.host \in written
        \/ /\ Through(sent.to)
           /\ IF sent.to.host \in Literal THEN "private" \notin Resolves[sent.to.host]
              ELSE looked[sent.to.host] # "private"

\* A request that is redirected, limited or failing for ever ends.
EveryRequestEnds == [](step = "check" => <>(step \in {"answered", "failed"}))
-----------------------------------------------------------------------------
(***************************************************************************)
(* Why nothing goes astray.                                                *)
(***************************************************************************)
RequestsAssumption == Len(Credentials) \in Nat /\ DOMAIN Credentials = 1 .. Len(Credentials)

\* A try follows its link from the start without checking it again: what was looked at is what a
\* person wrote and which hosts are proxies when it was asked for.  A proxy used since lets its host's
\* private addresses show, which matters if that host was asked for itself, and has others as well.
OneKind == "private" \in Resolves[Proxy] => Resolves[Proxy] = {"private"}

Active == step \in {"check", "send", "sent", "transient", "limited"}
OnItsWay == step \in {"check", "send", "sent"}

OnlySent == step # "sent" => sent = None

\* A key that stays at home goes along only until the first hop elsewhere
HomeInv == OnItsWay /\ first => been \subseteq {link}

\* Written by a person, or no private address written out
Checked(u) == u.host \in written \/ (u.host \in Literal => "private" \notin Resolves[u.host])
\* Its private addresses do not show, unless by way of the proxy
Hidden(u) ==
    ~Through(u) /\ u.host \notin written /\ "private" \in Resolves[u.host] => u.host \notin proxies
\* Asks for the proxy itself, which answers nobody who does that
AsksProxy(u) ==
    ~Through(u) /\ u.host = Proxy /\ u.host \notin written /\ "private" \in Resolves[u.host]

PlaceInv ==
    /\ proxies \subseteq {Proxy}
    /\ Active => link \in Links /\ Checked(link) /\ Hidden(link)
    /\ OnItsWay => hop \in Links /\ Checked(hop) /\ Hidden(hop)
    /\ Active /\ AsksProxy(link) => step \in {"check", "send", "transient"} /\ (OnItsWay => hop = link)
    /\ step = "send" /\ Through(hop) /\ hop.host \notin Literal \cup written => looked[hop.host] # "private"

KeyInv == OnlySent /\ HomeInv /\ KeysStayHome
IInv == KeyInv /\ PlaceInv /\ NothingPrivate
=============================================================================
