--------------------------- MODULE MCPropertyWorker ---------------------------
(***************************************************************************)
(* Small instances of PropertyWorker.                                      *)
(***************************************************************************)
EXTENDS PropertyWorker, TLC

CONSTANTS t1, t2, w1, w2

OneRow   == {t1}
TwoRows  == {t1, t2}
OneTick  == {w1}
TwoTicks == {w1, w2}

RowSymmetry  == Permutations(TwoRows)
TickSymmetry == Permutations(TwoTicks)
Symmetry     == RowSymmetry \cup TickSymmetry
=============================================================================
