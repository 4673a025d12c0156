---------------------------- MODULE MCAlertHistory ----------------------------
(***************************************************************************)
(* A small instance of AlertHistory: alerts of two types, two transactions *)
(* at a time.                                                              *)
(***************************************************************************)
EXTENDS AlertHistory, TLC

CONSTANTS n1, d1, d2, d3, d4, w1, w2

MCAlerts == {n1, d1, d2, d3, d4}
MCTypeOf == [a \in MCAlerts |-> IF a = n1 THEN "new_listing" ELSE "price_drop"]
MCTicks  == {w1, w2}

MCSymmetry == Permutations({d1, d2, d3, d4}) \cup Permutations(MCTicks)
=============================================================================
