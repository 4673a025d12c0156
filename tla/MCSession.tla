------------------------------ MODULE MCSession ------------------------------
(***************************************************************************)
(* A small instance of Session: two tabs, each with the request of a page  *)
(* and that of the login form, so that either can wait behind the other.   *)
(* The tabs may change places, each with its requests.                     *)
(***************************************************************************)
EXTENDS Session, TLC

CONSTANTS t1, t2

MCTabs     == {t1, t2}
MCRequests == MCTabs \X {"page", "form"}
MCTabOf    == [r \in MCRequests |-> r[1]]
MCLoginOf  == [t \in MCTabs |-> <<t, "form">>]

MCSymmetry == Permutations(MCTabs)
=============================================================================
