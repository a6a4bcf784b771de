-------------------------------- MODULE Pace --------------------------------
(***************************************************************************)
(* How requests take turns and keep to a host's rate limit (net.rs,        *)
(* net/pace.rs, net/failure.rs, net/api.rs): slots for each host and       *)
(* permits over all, what a host said of its limit, and the requests that  *)
(* are on their way while the limit is used up.                            *)
(*                                                                         *)
(* One host counts the requests of a window that starts again every Window *)
(* ticks; an answer states what is left of it, and may travel.  Times are  *)
(* kept as the ticks that are left, windows by how long ago they ended.    *)
(***************************************************************************)
EXTENDS Naturals, FiniteSets

CONSTANTS
    Files,          \* downloads and listings, which wait for their permits
    Split,          \* the download that is split
    Streams,        \* its added streams
    Limited,        \* the requests that go to the host with the limit; the others to another
    PerHost, Jobs,  \* the slots of a host, and the permits over all
    Window, Quota,  \* the host's limit
    Longest,        \* the most ticks that are waited for the end of a window
    Attempts,       \* the tries of a request
    Travel,         \* the ticks an answer without a stamp may take
    None

Requests == Files \cup Streams

VARIABLES
    stamped,        \* whether the host states when its window ends, or only how long is left
    left, counted,  \* the host's window: the ticks left, and what it has counted
    known, pending, \* what the client knows of it, and its requests not yet answered
    pc, try, answer,
    sure, lost      \* history: admitted within the limit of this window; an answer of it got lost

vars == <<stamped, left, counted, known, pending, pc, try, answer, sure, lost>>
host == <<stamped, left, counted, lost>>
client == <<known, pending>>

Holding == {"pace", "sent", "answered", "delivers", "backoff"}
Waits == {"host", "all"} \cup Holding
Host(r) == {q \in Requests : (q \in Limited) = (r \in Limited)}
SlotFree(r) == Cardinality({q \in Host(r) : pc[q] \in Holding \cup {"all"}}) < PerHost

\* The requests with a permit over all, which is kept through all tries
Permitted == {r \in Requests : pc[r] \in Holding}

Init ==
    /\ stamped \in BOOLEAN
    /\ left = Window /\ counted = 0 /\ lost = FALSE
    /\ known = None /\ pending = 0
    /\ pc = [r \in Requests |-> "idle"] /\ try = [r \in Requests |-> 1]
    /\ answer = [r \in Requests |-> None] /\ sure = {}

Goto(r, label) == pc' = [pc EXCEPT ![r] = label]

-----------------------------------------------------------------------------
\* permit, try_permit

Ask(r) ==
    /\ pc[r] = "idle" /\ r \in Files /\ Goto(r, "host")
    /\ UNCHANGED <<host, client, try, answer, sure>>

TakeSlot(r) ==
    /\ pc[r] = "host" /\ SlotFree(r) /\ Goto(r, "all")
    /\ UNCHANGED <<host, client, try, answer, sure>>

TakePermit(r) ==
    /\ pc[r] = "all" /\ Cardinality(Permitted) < Jobs /\ Goto(r, "pace")
    /\ UNCHANGED <<host, client, try, answer, sure>>

Adds(r) == pc[r] = "idle" /\ r \in Streams /\ pc[Split] = "delivers"

\* Mutant: an added stream waits as a file does
WaitsAsAFile(r) ==
    /\ Adds(r) /\ Goto(r, "host")
    /\ UNCHANGED <<host, client, try, answer, sure>>

\* add_stream, try_permit: when both are free, and nothing waits for them
TryPermit(r) ==
    /\ Adds(r)
    /\ SlotFree(r) /\ Cardinality(Permitted) < Jobs
    /\ \A q \in Files : pc[q] # "all" /\ (pc[q] = "host" => q \notin Host(r))
    /\ Goto(r, "pace")
    /\ UNCHANGED <<host, client, try, answer, sure>>

-----------------------------------------------------------------------------
\* Paces

\* What is on its way may use up what is left: the request would go past the limit
PastLimit == known # None /\ known.remaining <= pending

\* A limit used up for longer than Longest is left to the host to enforce.
UsedUp == PastLimit /\ known.left <= Longest

Admit(r) ==
    /\ pc[r] = "pace" /\ Goto(r, "sent")
    /\ IF r \in Limited
       THEN /\ ~UsedUp /\ pending' = pending + 1
            /\ sure' = IF PastLimit THEN {q \in sure : pc[q] # "sent"}
                       ELSE IF known # None /\ known.ago = 0 THEN sure \cup {r} ELSE sure
       ELSE UNCHANGED <<pending, sure>>
    /\ UNCHANGED <<host, known, try, answer>>

\* Without a stamp, answers place the end of one window up to a tick apart
Newer(fresh) == IF stamped THEN fresh.ago < known.ago ELSE fresh.left > known.left + 1
Older(fresh) == IF stamped THEN fresh.ago > known.ago ELSE fresh.left + 1 < known.left

\* learn: answers of one window keep the lowest count, an earlier window's changes nothing
Learned(fresh) ==
    IF known = None \/ Newer(fresh) THEN fresh
    ELSE IF Older(fresh) THEN known
    ELSE [known EXCEPT !.remaining = IF fresh.remaining < @ THEN fresh.remaining ELSE @,
                       !.left = IF fresh.left > @ THEN fresh.left ELSE @]

-----------------------------------------------------------------------------
\* The host, and the way there and back

\* It counts the request, or refuses it with a 429
Arrive(r) ==
    /\ pc[r] = "sent" /\ Goto(r, "answered")
    /\ IF r \in Limited
       THEN LET ok == counted < Quota IN
            /\ counted' = IF ok THEN counted + 1 ELSE counted
            /\ answer' = [answer EXCEPT ![r] =
                 [ok |-> ok, remaining |-> Quota - counted', left |-> left, ago |-> 0, late |-> 0]]
       ELSE /\ answer' = [answer EXCEPT ![r] = [ok |-> TRUE, late |-> 0]]
            /\ UNCHANGED counted
    /\ UNCHANGED <<stamped, left, lost, client, try, sure>>

\* The end of a request; that of a download drops its streams.  What one had on its way is lost.
With(r) == {r} \cup (IF r = Split THEN Streams ELSE {})
OnTheWay(r) == {q \in With(r) \cap Limited : pc[q] \in {"sent", "answered"}}
Ends(r, label) ==
    /\ pc' = [q \in Requests |->
          IF q = r THEN label ELSE IF q \in With(r) THEN "idle" ELSE pc[q]]
    /\ try' = [q \in Requests |-> IF q \in With(r) THEN 1 ELSE try[q]]
    /\ answer' = [q \in Requests |-> IF q \in With(r) THEN None ELSE answer[q]]
    /\ sure' = sure \ With(r)
    /\ pending' = pending - Cardinality(OnTheWay(r))

\* Retry: another try while there is one
TryAgain(r, label) ==
    IF try[r] < Attempts
    THEN /\ Goto(r, label) /\ try' = [try EXCEPT ![r] = @ + 1]
         /\ answer' = [answer EXCEPT ![r] = None] /\ sure' = sure \ {r}
         /\ pending' = IF r \in OnTheWay(r) THEN pending - 1 ELSE pending
    ELSE Ends(r, "failed")

Loses(set) == lost' = (lost \/ \E q \in set : pc[q] = "answered")

\* refusal: the next try of a 429 waits for the limit; a wait too long ends the request
Refusal(r) ==
    IF answer[r].left <= Longest THEN TryAgain(r, "pace") ELSE Ends(r, "failed")

\* heard: what the answer states is learned
Hear(r) ==
    /\ pc[r] = "answered"
    /\ known' = IF r \notin Limited \/ answer[r].left = 0 THEN known
                ELSE Learned([remaining |-> answer[r].remaining, left |-> answer[r].left,
                              ago |-> answer[r].ago])
    /\ IF answer[r].ok
       THEN /\ Goto(r, "delivers") /\ answer' = [answer EXCEPT ![r] = None]
            /\ sure' = sure \ {r} /\ UNCHANGED try
            /\ pending' = IF r \in Limited THEN pending - 1 ELSE pending
            /\ UNCHANGED lost
       ELSE Refusal(r) /\ Loses(OnTheWay(r) \ {r})
    /\ UNCHANGED <<stamped, left, counted>>

\* A split download ends when its streams have
Done(r) ==
    /\ pc[r] = "delivers" /\ \A q \in With(r) \ {r} : pc[q] \notin Waits
    /\ Ends(r, "done")
    /\ UNCHANGED <<host, known>>

\* The connection breaks or times out; the ticket is dropped, and the try comes after a wait
Break(r) ==
    /\ pc[r] \in {"sent", "answered", "delivers"}
    /\ TryAgain(r, "backoff") /\ Loses(OnTheWay(r))
    /\ UNCHANGED <<stamped, left, counted, known>>

Back(r) ==
    /\ pc[r] = "backoff" /\ Goto(r, "pace")
    /\ UNCHANGED <<host, client, try, answer, sure>>

\* The next file or listing begins
Again(r) ==
    /\ pc[r] \in {"done", "failed", "stopped"} /\ Goto(r, "idle")
    /\ UNCHANGED <<host, client, try, answer, sure>>

-----------------------------------------------------------------------------
\* Time, and what ends a request from outside

Older1(n) == IF n < 2 THEN n + 1 ELSE n

\* A tick; at the end of its window the host counts anew
Tick ==
    /\ \A r \in Limited : answer[r] # None /\ ~stamped => answer[r].late < Travel
    /\ LET over == left = 1
           Ago(n) == IF over THEN Older1(n) ELSE n IN
         /\ left' = IF over THEN Window ELSE left - 1
         /\ counted' = IF over THEN 0 ELSE counted
         /\ sure' = IF over THEN {} ELSE sure
         /\ lost' = (lost /\ ~over)
         /\ known' = IF known = None \/ known.left = 1 THEN None
                     ELSE [known EXCEPT !.left = @ - 1, !.ago = Ago(@)]
         /\ answer' = [r \in Requests |->
              IF answer[r] = None \/ r \notin Limited THEN answer[r]
              ELSE [answer[r] EXCEPT !.ago = Ago(@), !.late = IF stamped THEN 0 ELSE @ + 1]]
    /\ UNCHANGED <<stamped, pending, pc, try>>

\* The run is asked to stop, or another of its downloads failed: wherever it waits
Dropped(r) ==
    /\ pc[r] \in Waits
    /\ Ends(r, "stopped") /\ Loses(OnTheWay(r))
    /\ UNCHANGED <<stamped, left, counted, known>>

Next ==
    \/ \E r \in Requests :
          \/ Ask(r) \/ TakeSlot(r) \/ TakePermit(r) \/ TryPermit(r)
          \/ Admit(r) \/ Arrive(r) \/ Hear(r) \/ Done(r)
          \/ Break(r) \/ Back(r) \/ Dropped(r) \/ Again(r)
    \/ Tick

Spec == Init /\ [][Next]_vars

-----------------------------------------------------------------------------
\* A request admitted within the limit of the window the host counts in is not refused, however
\* the answers overtake each other, unless an answer of that window never came, or another went
\* past the limit while it was on its way, since the limit was used up for too long to be waited
\* for and left to the host to enforce (admit, learn).
KeepsToTheLimit ==
    \A r \in Limited : r \in sure /\ answer[r] # None /\ answer[r].ago = 0 => answer[r].ok \/ lost

\* Whoever waits for a slot or a permit waits for a request that goes on without one: nobody
\* holds what all wait for while it waits itself (permit, try_permit).
GoesOn(q) ==
    /\ pc[q] \in Holding
    /\ pc[q] = "delivers" => \A p \in With(q) \ {q} : pc[p] \notin {"host", "all"}
NobodyWaitsInVain ==
    \A r \in Requests :
      /\ pc[r] = "all" => Cardinality(Permitted) < Jobs \/ \E q \in Permitted : GoesOn(q)
      /\ pc[r] = "host" => SlotFree(r) \/ \E q \in Host(r) : GoesOn(q) \/ pc[q] = "all"
=============================================================================
