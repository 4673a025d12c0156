---------------------------- MODULE MCSearchWorker ----------------------------
(***************************************************************************)
(* Small instances of SearchWorker.                                        *)
(***************************************************************************)
EXTENDS SearchWorker, TLC

CONSTANTS s1, s2, a1, b1, booking, w1, w2

OneSearch    == {s1}
TwoSearches  == {s1, s2}
OneProvider  == {booking}
OneProp      == {a1}
TwoProps     == {a1, b1}
Single       == a1 :> booking
Together     == a1 :> booking @@ b1 :> booking
OneTick      == {w1}
TwoTicks     == {w1, w2}

TickSymmetry == Permutations(TwoTicks)

\* Both properties are of the one provider: they may be exchanged.
OverlapSymmetry == TickSymmetry \cup Permutations(TwoProps)
=============================================================================
