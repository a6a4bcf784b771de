------------------------------ MODULE Answers -------------------------------
(***************************************************************************)
(* What one download of a link means (net/download.rs, cli/fetch.rs and    *)
(* cli/fetch/again.rs): taken from the cache, or known from an earlier     *)
(* download and still current, or waited for while another run downloads   *)
(* it, or fetched; past pages and expired links; and looked up again where *)
(* its source lists it now.  How its bytes arrive is Transfer's, how runs  *)
(* claim a link ClaimLock's: here a claim is had or not.                   *)
(***************************************************************************)
EXTENDS Naturals, FiniteSets

CONSTANTS
    Runs,
    Links,          \* the link a job has, first, and one its source may list instead
    First,
    Serve,          \* what the links may serve at first
    Versions,       \* what links serve: bytes
    Md5, Size,      \* of each version, and of Mixed
    Mixed,          \* bytes of two versions
    Jobs,           \* [pin, md5, size, revalidate, again, online]
    Changes,        \* how often what a link serves changes
    Downloads,      \* how many downloads begin
    Diversions, Attempts,   \* DIVERSIONS and ATTEMPTS
    None

VARIABLES
    served,         \* what each link serves: a version, or None once it is gone
    labelled,       \* whether answers have validators
    objects,        \* the bytes the cache holds
    urls, stated,   \* its records of each link: what was served last, and what had an MD5
    partial, owner, \* the unfinished download of each link, and the run it belongs to
    run,            \* what each run is at: see Starts
    ever,           \* history: what each link served
    changes, begun

cache == <<objects, urls, stated, partial>>
upstream == <<served, labelled, ever, changes>>
vars == <<upstream, cache, owner, run, begun>>

Job(r) == run[r].job
Link(r) == run[r].link
At(r, steps) == run[r].step \in steps
Working(r) == ~At(r, {"idle", "done"})
Goes(r, step) == run' = [run EXCEPT ![r].step = step]

Brings(r, kept, bytes) ==
    run' = [run EXCEPT ![r].step = "body", ![r].earlier = kept, ![r].body = bytes]

\* A run that has job j and link l.  `window` is history: what the link served since it began.
Fresh(j, l, step) ==
    [job |-> j, link |-> l, step |-> step,
     known |-> None, waited |-> FALSE,  \* the record found before it asked, and whether another run had the link
     earlier |-> None, body |-> None,   \* what it continues, and what an answer brings
     pages |-> 0, tries |-> 1, restarted |-> FALSE,
     got |-> None, window |-> {served[l]} \ {None}]

Idle == [Fresh(None, First, "idle") EXCEPT !.window = {}]

Init ==
    /\ served \in Serve /\ labelled \in BOOLEAN
    /\ objects = {} /\ urls = [l \in Links |-> None] /\ stated = {}
    /\ partial = [l \in Links |-> None] /\ owner = [l \in Links |-> None]
    /\ run = [r \in Runs |-> Idle]
    /\ ever = [l \in Links |-> {served[l]}] /\ changes = 0 /\ begun = 0

-----------------------------------------------------------------------------
(***************************************************************************)
(* What is known without asking                                            *)
(***************************************************************************)
Proves(j) == j.pin # None \/ j.md5 # None

\* Cache::stated_md5: what the link itself served under the MD5
Stated(j, l) == {s.version : s \in {t \in stated : t.md5 = j.md5 /\ t.link = l}}

\* Fetch::cached
Cached(j, l) ==
    IF j.pin # None THEN {j.pin} \cap objects
    ELSE IF j.md5 # None THEN {v \in Stated(j, l) \cap objects : j.size \in {None, Size[v]}}
    ELSE {}

\* remembered
Remembered(j, l) == IF j.revalidate /\ urls[l] # None /\ urls[l].version \in objects THEN urls[l] ELSE None

\* What a run ends with.  Its claim is free again.
Ended(v, state) ==
    IF v = None THEN Idle
    ELSE [Fresh(state.job, state.link, "done") EXCEPT
            !.got = v, !.window = state.window, !.waited = state.waited]
Leaves(r) == owner' = [l \in Links |-> IF owner[l] = r THEN None ELSE owner[l]]
Give(r, v) == run' = [run EXCEPT ![r] = Ended(v, run[r])] /\ Leaves(r)
Fail(r) == Give(r, None)

(***************************************************************************)
(* download_in_span.  A run begins again with another job once it ended.   *)
(***************************************************************************)
\* It starts with job j, or again with what recover found
Starts(r, j, l) ==
    LET known == Remembered(j, l)
        fresh == [Fresh(j, l, "claim") EXCEPT !.known = known]
    IN  /\ \/ \E v \in Cached(j, l) : run' = [run EXCEPT ![r] = Ended(v, fresh)]
           \/ /\ Cached(j, l) = {} /\ ~j.online
              /\ run' = [run EXCEPT ![r] = Ended(IF known = None THEN None ELSE known.version, fresh)]
           \/ /\ Cached(j, l) = {} /\ j.online
              /\ run' = [run EXCEPT ![r] = fresh]
        /\ Leaves(r)

Begin(r) ==
    /\ ~Working(r) /\ begun < Downloads /\ begun' = begun + 1
    /\ \E j \in Jobs : Starts(r, j, First)
    /\ UNCHANGED <<upstream, cache>>

\* claim: another run has the link, and is waited for
Wait(r) ==
    /\ At(r, {"claim"}) /\ owner[Link(r)] # None
    /\ run' = [run EXCEPT ![r].waited = TRUE, ![r].window = @ \cup run[owner[Link(r)]].window]
    /\ UNCHANGED <<upstream, cache, owner>>

Claim(r) ==
    /\ At(r, {"claim"}) /\ owner[Link(r)] = None
    /\ owner' = [owner EXCEPT ![Link(r)] = r]
    /\ Goes(r, IF run[r].waited THEN "look" ELSE "ask")
    /\ UNCHANGED <<upstream, cache>>

\* The other run may have finished what this one came for
Look(r) ==
    /\ At(r, {"look"})
    /\ LET found == Cached(Job(r), Link(r))
       IN  IF found # {} THEN \E v \in found : Give(r, v)
           ELSE IF Remembered(Job(r), Link(r)) # None
           THEN Give(r, Remembered(Job(r), Link(r)).version)
           ELSE Goes(r, "ask") /\ UNCHANGED owner
    /\ UNCHANGED <<upstream, cache>>

-----------------------------------------------------------------------------
(***************************************************************************)
(* transfer and attempt                                                    *)
(***************************************************************************)
\* MUTANT of Continued: whatever was kept is continued.
ContinuedAnyway(r) == partial[Link(r)]

\* What an earlier run left, when a hash or a validator keeps it to its version
Continued(r) ==
    LET p == partial[Link(r)]
    IN  IF p # None /\ (Proves(Job(r)) \/ p.labelled) THEN p ELSE None

\* Retry::wait: tried again, or given up with what arrived kept
Retries(r) ==
    \/ /\ run[r].tries < Attempts
       /\ run' = [run EXCEPT ![r].tries = @ + 1, ![r].step = "ask"] /\ UNCHANGED owner
    \/ Fail(r)

Discards(r) == partial' = [partial EXCEPT ![Link(r)] = None]

\* The link is gone: who has a source asks it again, any other job fails
Gone(r) ==
    /\ At(r, {"ask"}) /\ served[Link(r)] = None
    /\ IF Job(r).again THEN Goes(r, "gone") /\ Leaves(r) ELSE Fail(r)
    /\ UNCHANGED <<upstream, cache>>

\* Refused for good, or by a failure or an expired link that may pass
Refused(r) ==
    /\ At(r, {"ask"})
    /\ Retries(r)
    /\ UNCHANGED <<upstream, cache>>

\* instead: a page in place of the file says where it is
Page(r) ==
    /\ At(r, {"ask"})
    /\ IF run[r].pages = Diversions THEN Fail(r)
       ELSE run' = [run EXCEPT ![r].pages = @ + 1] /\ UNCHANGED owner
    /\ UNCHANGED <<upstream, cache>>

\* conditions: a run that continues nothing asks whether what it knows is current
Conditional(r) == Continued(r) = None /\ run[r].known # None /\ run[r].known.labelled

\* 304
NotModified(r) ==
    /\ At(r, {"ask"}) /\ Conditional(r) /\ served[Link(r)] = run[r].known.version
    /\ Give(r, run[r].known.version)
    /\ UNCHANGED <<upstream, cache>>

\* A range of another version by its validators, one past the end of the file, or kept bytes
\* that are not the recorded ones: the download starts over
StartOver(r) ==
    /\ At(r, {"ask"}) /\ Continued(r) # None
    /\ Discards(r)
    /\ UNCHANGED <<upstream, objects, urls, stated, owner, run>>

\* starting_offset and refuse_other_length: 206, the rest of what is continued, of any version if
\* nothing tells; or 200, the whole file, where nothing is continued or If-Range names another
Answer(r) ==
    /\ At(r, {"ask"}) /\ served[Link(r)] # None
    /\ LET v == served[Link(r)]
           kept == Continued(r)
           same == kept # None /\ kept.version = v
           tells == labelled /\ kept # None /\ kept.labelled
       IN  IF Job(r).size \notin {None, Size[v]} THEN Fail(r)
           ELSE /\ \/ /\ kept # None /\ (same \/ ~tells)
                      /\ Brings(r, kept, IF same THEN v ELSE Mixed)
                   \/ /\ ~(same /\ tells) /\ ~(Conditional(r) /\ run[r].known.version = v)
                      /\ Brings(r, None, v)
                /\ UNCHANGED owner
    /\ UNCHANGED <<upstream, cache>>

Keeps(r) == partial' = [partial EXCEPT ![Link(r)] = [version |-> run[r].body, labelled |-> labelled]]

\* The connection breaks
Break(r) ==
    /\ At(r, {"body"})
    /\ Keeps(r) /\ Retries(r)
    /\ UNCHANGED <<upstream, objects, urls, stated>>

\* verify
Matches(j, v) ==
    /\ j.size \in {None, Size[v]}
    /\ j.pin \in {None, v}
    /\ j.pin = None => j.md5 \in {None, Md5[v]}

\* remember: each record is a hint, whose write may fail
Records(r, v) ==
    /\ \/ /\ Job(r).md5 # None /\ Job(r).pin = None
          /\ stated' = stated \cup {[link |-> Link(r), md5 |-> Job(r).md5, version |-> v]}
       \/ UNCHANGED stated
    /\ \/ /\ Job(r).revalidate
          /\ urls' = [urls EXCEPT ![Link(r)] = [version |-> v, labelled |-> labelled]]
       \/ UNCHANGED urls

\* The bytes are in the cache under what they are, whether or not they are what was expected.
\* Bytes of several answers that do not match start over once.
Finish(r) ==
    /\ At(r, {"body"})
    /\ objects' = objects \cup {run[r].body} /\ Discards(r)
    /\ IF Matches(Job(r), run[r].body)
       THEN Give(r, run[r].body) /\ Records(r, run[r].body)
       ELSE /\ UNCHANGED <<stated, urls>>
            /\ IF run[r].earlier # None /\ ~run[r].restarted
               THEN run' = [run EXCEPT ![r].step = "ask", ![r].restarted = TRUE] /\ UNCHANGED owner
               ELSE Fail(r)
    /\ UNCHANGED upstream

\* again::recover: the source is asked where the file is now
Recover(r) ==
    /\ At(r, {"gone"})
    /\ \/ Fail(r)
       \/ \E l \in Links \ {Link(r)} :
            Starts(r, [Job(r) EXCEPT !.revalidate = FALSE, !.again = FALSE], l)
    /\ UNCHANGED <<upstream, cache>>

\* The person stops it, or it is killed: its claim is free, and what arrived is kept
Stop(r) ==
    /\ Working(r) /\ Fail(r)
    /\ \/ At(r, {"body"}) /\ Keeps(r)
       \/ UNCHANGED partial
    /\ UNCHANGED <<upstream, objects, urls, stated>>

-----------------------------------------------------------------------------
\* What a link serves changes
Change ==
    /\ changes < Changes /\ changes' = changes + 1
    /\ \E l \in Links, v \in Versions \cup {None} :
         /\ v # served[l]
         /\ served' = [served EXCEPT ![l] = v]
         /\ ever' = [ever EXCEPT ![l] = @ \cup ({v} \ {None})]
         /\ run' = [r \in Runs |->
                      IF Working(r) /\ Link(r) = l
                      THEN [run[r] EXCEPT !.window = @ \cup ({v} \ {None})] ELSE run[r]]
    /\ UNCHANGED <<labelled, cache, owner>>

\* gc, which no run's hold of the cache lets in
Free ==
    /\ \A r \in Runs : ~Working(r)
    /\ \E v \in objects : objects' = objects \ {v}
    /\ UNCHANGED <<upstream, urls, stated, partial, owner, run>>

Next ==
    \/ \E r \in Runs :
         \/ Begin(r)
         \/ /\ \/ Wait(r) \/ Claim(r) \/ Look(r) \/ Gone(r) \/ Refused(r) \/ Page(r) \/ NotModified(r)
               \/ StartOver(r) \/ Answer(r) \/ Break(r) \/ Finish(r) \/ Recover(r) \/ Stop(r)
            /\ UNCHANGED begun
    \/ Change /\ UNCHANGED begun
    \/ Free /\ UNCHANGED begun
    \/ begun = Downloads /\ (\A r \in Runs : ~Working(r)) /\ UNCHANGED vars

Spec == Init /\ [][Next]_vars

-----------------------------------------------------------------------------
\* A pinned job is given its pin; a stated one bytes its link served, whatever other links state the
\* same MD5 (cache.rs); and one that asks again what the link served while it ran, or, having waited
\* for another run, at some time: never bytes of two versions.
RightBytes ==
    \A r \in Runs : At(r, {"done"}) =>
        LET v == run[r].got IN
        IF Job(r).pin # None THEN v = Job(r).pin
        ELSE /\ v \in ever[Link(r)] /\ Job(r).md5 \in {None, Md5[v]}
             /\ Job(r).md5 = None /\ Job(r).online /\ ~run[r].waited => v \in run[r].window

\* "ask the server whether the file changed since the last download, instead of trusting the cache"
\* (Fetch.revalidate, download.rs): what such a job is given online is what the link served while
\* it ran, or while a run it waited for did.
AskedAgain ==
    \A r \in Runs : At(r, {"done"}) /\ Job(r).revalidate /\ Job(r).online =>
        run[r].got \in run[r].window
-----------------------------------------------------------------------------
(***************************************************************************)
(* Why the bytes are right.                                                *)
(***************************************************************************)
\* A job of the code that asks again has no checksum, and no bytes of two versions have the MD5 of one
AnswersAssumption ==
    /\ First \in Links /\ None \notin Runs \cup Versions \cup {Mixed} /\ Mixed \notin Versions
    /\ Serve \subseteq [Links -> Versions \cup {None}]
    /\ Changes \in Nat /\ Downloads \in Nat /\ Attempts \in Nat
    /\ Jobs \subseteq [pin : Versions \cup {None}, md5 : {j.md5 : j \in Jobs}, size : {j.size : j \in Jobs},
                      revalidate : BOOLEAN, again : BOOLEAN, online : BOOLEAN]
    /\ \A j \in Jobs : (j.revalidate => ~Proves(j)) /\ j.md5 # Md5[Mixed]

Asked ==
    {j \in [pin : Versions \cup {None}, md5 : {j.md5 : j \in Jobs}, size : {j.size : j \in Jobs},
            revalidate : BOOLEAN, again : BOOLEAN, online : BOOLEAN] : j.revalidate => ~Proves(j)}
Bytes == Versions \cup {Mixed}
Labelled(some) == [version : some, labelled : BOOLEAN]
States ==
    [job : Asked \cup {None}, link : Links,
     step : {"idle", "claim", "look", "ask", "gone", "body", "done"},
     known : Labelled(Versions) \cup {None}, waited : BOOLEAN,
     earlier : Labelled(Bytes) \cup {None}, body : Bytes \cup {None},
     pages : Nat, tries : Nat, restarted : BOOLEAN,
     got : Versions \cup {None}, window : SUBSET Versions]

TypeOK ==
    /\ served \in [Links -> Versions \cup {None}] /\ labelled \in BOOLEAN
    /\ objects \subseteq Bytes
    /\ urls \in [Links -> Labelled(Versions) \cup {None}]
    /\ stated \subseteq [link : Links, md5 : {j.md5 : j \in Jobs}, version : Versions]
    /\ partial \in [Links -> Labelled(Bytes) \cup {None}]
    /\ owner \in [Links -> Runs \cup {None}]
    /\ run \in [Runs -> States]
    /\ ever \in [Links -> SUBSET (Versions \cup {None})]
    /\ changes \in Nat /\ begun \in Nat

\* What the cache records of a link is what that link served
RecordsInv ==
    /\ \A l \in Links :
         /\ served[l] \in ever[l] \cup {None}
         /\ urls[l] # None => urls[l].version \in ever[l]
         /\ partial[l] # None => partial[l].labelled = labelled
    /\ \A s \in stated : s.version \in ever[s.link] /\ s.md5 = Md5[s.version]

\* v is right for a run as it is
RightFor(state, v) ==
    IF state.job.pin # None THEN v = state.job.pin
    ELSE /\ v \in ever[state.link] /\ state.job.md5 \in {None, Md5[v]}
         /\ state.job.md5 = None /\ state.job.online /\ ~state.waited => v \in state.window

\* What a run knows was served, and what it brings is of one version or is checked
StateInv(state) ==
    /\ state.step \notin {"idle", "done"} =>
         /\ state.job \in Asked
         /\ served[state.link] \in state.window \cup {None}
         /\ state.known # None => state.job.revalidate /\ state.known.version \in ever[state.link]
    /\ state.step = "look" => state.waited
    /\ state.step = "body" =>
         IF state.body = Mixed THEN Proves(state.job)
         ELSE state.body \in state.window /\ state.body \in ever[state.link]
    /\ state.step = "done" => state.job \in Asked /\ RightFor(state, state.got)

IInv == TypeOK /\ RecordsInv /\ \A r \in Runs : StateInv(run[r])
=============================================================================
