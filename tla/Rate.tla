--------------------------------- MODULE Rate ---------------------------------
(***************************************************************************)
(* The bytes per second all answers of a run share (net/rate.rs): a bucket *)
(* that fills with time, and whoever received bytes takes as many from it, *)
(* in line, before it goes on.                                             *)
(***************************************************************************)
EXTENDS Integers, SequencesExt

CONSTANTS
    Streams,
    PerTick, Capacity,  \* bytes
    Chunks,             \* how many bytes may come at once
    Latest              \* bounds the time

VARIABLES
    now, line,          \* who waits for the bucket, or has it, who is first
    missing,            \* bytes each in line still has to take
    wake,               \* until when the first one sleeps
    credit, updated,
    stopped,
    spent               \* bytes taken at each time

vars == <<now, line, missing, wake, credit, updated, stopped, spent>>

Init ==
    /\ now = 0 /\ line = <<>> /\ wake = 0
    /\ missing = [s \in Streams |-> 0]
    /\ credit = Capacity /\ updated = 0
    /\ stopped = FALSE
    /\ spent = [t \in 0 .. Latest |-> 0]

\* throttle: after a chunk of an answer
Throttle(s, bytes) ==
    /\ ~Contains(line, s)
    /\ line' = Append(line, s) /\ missing' = [missing EXCEPT ![s] = bytes]
    /\ UNCHANGED <<now, wake, credit, updated, stopped, spent>>

Portion(s) == Min({missing[s], Capacity})
Filled == Min({credit + (now - updated) * PerTick, Capacity})
DivCeil(a, b) == (a + b - 1) \div b

\* take: one round of the loop of the first in line, who keeps the bucket while it sleeps
Round ==
    /\ line # <<>> /\ wake <= now
    /\ updated' = now
    /\ LET s == Head(line)
       IN  \/ /\ Filled >= Portion(s)
              /\ credit' = Filled - Portion(s)
              /\ spent' = [spent EXCEPT ![now] = @ + Portion(s)]
              /\ missing' = [missing EXCEPT ![s] = @ - Portion(s)]
              /\ line' = IF missing[s] = Portion(s) THEN Tail(line) ELSE line
              /\ UNCHANGED wake
           \/ /\ Filled < Portion(s)
              /\ credit' = Filled
              /\ wake' = now + DivCeil(Portion(s) - Filled, PerTick)
              /\ UNCHANGED <<line, missing, spent>>
    /\ UNCHANGED <<now, stopped>>

Pass ==
    /\ now < Latest /\ now' = now + 1
    /\ UNCHANGED <<line, missing, wake, credit, updated, stopped, spent>>

Stop ==
    /\ stopped' = TRUE
    /\ UNCHANGED <<now, line, missing, wake, credit, updated, spent>>

\* Whoever waits for the bucket or sleeps leaves once the run stops
Leave(s) ==
    /\ stopped /\ Contains(line, s)
    /\ s = Head(line) => wake > now
    /\ line' = SelectSeq(line, LAMBDA q : q # s)
    /\ wake' = IF s = Head(line) THEN now ELSE wake
    /\ missing' = [missing EXCEPT ![s] = 0]
    /\ UNCHANGED <<now, credit, updated, stopped, spent>>

Next ==
    \/ \E s \in Streams : Leave(s) \/ \E bytes \in Chunks : Throttle(s, bytes)
    \/ Round \/ Pass \/ Stop

Spec == Init /\ [][Next]_vars

-----------------------------------------------------------------------------
\* Never more is taken than the rate brings and a full bucket held, from any time to any later
\* one; and whoever sleeps wakes as soon as what it needs is there, and not before.
KeepsToTheRate ==
    /\ \A from \in 0 .. now : \A to \in from .. now :
          FoldLeft(+, 0, SubSeq([t \in 1 .. Latest + 1 |-> spent[t - 1]], from + 1, to + 1))
             <= Capacity + (to - from) * PerTick
    /\ line # <<>> /\ wake > now =>
          LET there == credit + (wake - updated) * PerTick
          IN  there >= Portion(Head(line)) /\ there - PerTick < Portion(Head(line))
=============================================================================
