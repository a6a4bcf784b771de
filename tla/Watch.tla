-------------------------------- MODULE Watch --------------------------------
(***************************************************************************)
(* What watches the downloads of one call (cli/fetch.rs): the one question *)
(* before a large file whose size only its server tells, and the progress  *)
(* of them all.  Downloads run at once; the events of one come one after   *)
(* the other, try after try, resumed from what is on the disk or from the  *)
(* beginning.                                                              *)
(***************************************************************************)
EXTENDS Naturals, FiniteSetsExt

CONSTANTS
    Files,
    Sizes,      \* of each file
    Told,       \* those whose size its source tells
    Ask,        \* ASK_ABOVE
    Tries, None

VARIABLES
    approval,   \* the answer all files share, "yes" or "no"; before it None, or who asks
    questions,
    step,       \* of each file: "off", "runs", "asks to begin", "asks to go on", "done", "failed"
    begun,      \* the size its server told in this try, or None, and from where it goes on
    try, position, received, counted, unbounded, sized,
    length, advanced    \* of the bar for them all

progress == <<position, received, counted, unbounded, sized, length, advanced>>
vars == <<approval, questions, step, begun, try, progress>>

SumOver(of, files) == MapThenSumSet(LAMBDA f : of[f], files)

Init ==
    /\ approval = None /\ questions = 0
    /\ step = [f \in Files |-> "off"]
    /\ begun = [f \in Files |-> None]
    /\ try = [f \in Files |-> 0]
    /\ position = [f \in Files |-> 0]
    /\ received = [f \in Files |-> 0]
    /\ counted = [f \in Files |-> 0]
    /\ unbounded = [f \in Files |-> FALSE]
    /\ sized = [f \in Files |-> FALSE]
    /\ length = SumOver(Sizes, Told)
    /\ advanced = 0

Goes(f, to) == step' = [step EXCEPT ![f] = to]
left(of) == IF of.total = None THEN 0 ELSE of.total - of.resumed

-----------------------------------------------------------------------------
(***************************************************************************)
(* on: the events of a download.                                           *)
(***************************************************************************)
\* count: the bar for them all moves on to the furthest point this file got to
count(f, at) ==
    /\ counted' = [counted EXCEPT ![f] = Max({@, at})]
    /\ advanced' = advanced + Max({counted[f], at}) - counted[f]

Started(f, of) ==
    /\ IF f \in Told THEN UNCHANGED <<sized, length, unbounded, received>>
       ELSE /\ sized' = [sized EXCEPT ![f] = @ \/ of.total # None]
            /\ length' = IF of.total # None /\ ~sized[f] THEN length + of.total ELSE length
            /\ unbounded' = [unbounded EXCEPT ![f] = of.total = None]
            /\ received' = [received EXCEPT ![f] = of.resumed]
    /\ position' = [position EXCEPT ![f] = of.resumed]
    /\ count(f, of.resumed)

\* What a try may go on from: what an earlier command left, and then what the last try got to
OnDisk(f) == IF try[f] = 0 THEN Sizes[f] ELSE position[f]

Begin(f, of) ==
    /\ step[f] = "off" /\ try[f] < Tries
    /\ try' = [try EXCEPT ![f] = @ + 1]
    /\ begun' = [begun EXCEPT ![f] = of]
    /\ IF f \notin Told /\ left(of) > Ask
       THEN Goes(f, "asks to begin") /\ UNCHANGED progress
       ELSE Goes(f, "runs") /\ Started(f, of)
    /\ UNCHANGED <<approval, questions>>

\* Bytes of the download: what gets large without a size is asked for once it did
Receive(f) ==
    /\ step[f] = "runs" /\ position[f] < Sizes[f]
    /\ position' = [position EXCEPT ![f] = @ + 1]
    /\ count(f, position[f] + 1)
    /\ received' = [received EXCEPT ![f] = @ + 1]
    /\ Goes(f, IF unbounded[f] /\ received[f] + 1 > Ask THEN "asks to go on" ELSE "runs")
    /\ UNCHANGED <<approval, questions, begun, try, unbounded, sized, length>>

-----------------------------------------------------------------------------
(***************************************************************************)
(* approve: the first to ask asks for all, and the others wait.            *)
(***************************************************************************)
Asks(f) == step[f] \in {"asks to begin", "asks to go on"}

\* Mutant: ... or the others ask too
NotAnswered(f) == Asks(f) /\ approval \notin {f, "yes", "no"}

MayAsk(f) == Asks(f) /\ approval = None

Question(f) ==
    /\ MayAsk(f)
    /\ approval' = f /\ questions' = questions + 1
    /\ UNCHANGED <<step, begun, try, progress>>

Answer(yes) ==
    /\ approval \in Files
    /\ approval' = IF yes THEN "yes" ELSE "no"
    /\ UNCHANGED <<questions, step, begun, try, progress>>

Approved(f) ==
    /\ Asks(f) /\ approval = "yes"
    /\ Goes(f, "runs")
    /\ IF step[f] = "asks to begin" THEN Started(f, begun[f])
       ELSE /\ unbounded' = [unbounded EXCEPT ![f] = FALSE]
            /\ UNCHANGED <<position, received, counted, sized, length, advanced>>
    /\ UNCHANGED <<approval, questions, begun, try>>

Refused(f) ==
    /\ Asks(f) /\ approval = "no"
    /\ Goes(f, "failed")
    /\ UNCHANGED <<approval, questions, begun, try, progress>>

-----------------------------------------------------------------------------
Break(f) ==
    /\ step[f] = "runs" /\ Goes(f, "off")
    /\ UNCHANGED <<approval, questions, begun, try, progress>>

End(f) ==
    /\ step[f] = "runs" /\ position[f] = Sizes[f] /\ Goes(f, "done")
    /\ UNCHANGED <<approval, questions, begun, try, progress>>

Ended == \A f \in Files : step[f] \in {"done", "failed"} \/ (step[f] = "off" /\ try[f] = Tries)

Next ==
    \/ \E f \in Files :
         \/ \E total \in {Sizes[f], None}, resumed \in 0 .. OnDisk(f) :
              Begin(f, [total |-> total, resumed |-> resumed])
         \/ Receive(f) \/ Question(f) \/ Approved(f) \/ Refused(f) \/ Break(f) \/ End(f)
    \/ \E yes \in BOOLEAN : Answer(yes)
    \/ Ended /\ UNCHANGED vars

Spec == Init /\ [][Next]_vars

-----------------------------------------------------------------------------
\* A file is large by what its server told is left, or by what came in a try of no told size
Large(f) ==
    \/ left(begun[f]) > Ask
    \/ begun[f].total = None /\ received[f] > Ask /\ received[f] > begun[f].resumed

\* "another file must not proceed while the first file is still waiting for an answer"
\* (cli/fetch.rs): one question is asked for them all, and no file that is large goes on without a
\* yes.
AsksOnceBeforeLarge ==
    /\ questions <= 1
    /\ \A f \in Files \ Told : step[f] \in {"runs", "done"} /\ Large(f) => approval = "yes"

\* Bytes fetched again count once, and sizes told again too: the bar for them all shows what each
\* file got to of what is known, and never passes its end.
CountsOnce ==
    /\ advanced = SumOver(counted, Files)
    /\ \A f \in Files : position[f] <= counted[f] /\ counted[f] <= Sizes[f]
    /\ length = SumOver(Sizes, Told \cup {f \in Files : sized[f]})

-----------------------------------------------------------------------------
(***************************************************************************)
(* Why none goes on without a yes, and the bars come out right.            *)
(***************************************************************************)
WatchAssumption ==
    /\ Files \cap {"yes", "no", None} = {} /\ None \notin {"yes", "no"} \cup Nat
    /\ Sizes \in [Files -> Nat] /\ Ask \in Nat /\ IsFiniteSet(Files) /\ Told \subseteq Files

Steps == {"off", "runs", "asks to begin", "asks to go on", "done", "failed"}
Starts(f) == [total : {Sizes[f], None}, resumed : Nat]

TypeOK ==
    /\ approval \in Files \cup {"yes", "no", None}
    /\ step \in [Files -> Steps]
    /\ DOMAIN begun = Files /\ \A f \in Files : step[f] # "off" => begun[f] \in Starts(f)
    /\ position \in [Files -> Nat] /\ received \in [Files -> Nat] /\ DOMAIN unbounded = Files

\* Whoever asks has told nobody yet what came of it
AskedOnce == questions = (IF approval = None THEN 0 ELSE 1)

\* A try of no told size is asked for when it gets large, unless there was a yes
Counting ==
    \A f \in Files \ Told :
        step[f] # "off" /\ begun[f].total = None =>
            /\ step[f] # "asks to begin"
            /\ unbounded[f] \/ approval = "yes" \/ step[f] = "failed"

\* No try goes on from beyond the end
Counted ==
    /\ counted \in [Files -> Nat] /\ sized \in [Files -> BOOLEAN]
    /\ \A f \in Files : step[f] # "off" => begun[f].resumed <= Sizes[f]
    /\ CountsOnce

Asking == TypeOK /\ AskedOnce /\ Counting /\ AsksOnceBeforeLarge
IInv == Asking /\ Counted
=============================================================================
