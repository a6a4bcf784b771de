----------------------------- MODULE MCDeferred -----------------------------
EXTENDS Deferred, TLC
CONSTANTS t1, t2, u1, u2, d1, d2, i1, i2, i3, i4

\* Two downloads of one link.
SameLink == [t \in {t1, t2} |-> u1]
\* Two downloads of two links.
TwoLinks == (t1 :> u1) @@ (t2 :> u2)
PinFirst == (t1 :> d1) @@ (t2 :> None)
EarlierOne == (u1 :> i1)
EarlierTwo == (u1 :> i1) @@ (u2 :> i2)
=============================================================================
