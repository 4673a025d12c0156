---------------------------- MODULE MCTelegramLink ----------------------------
(***************************************************************************)
(* A small instance of TelegramLink: two accounts on either side, two      *)
(* codes, one target and two handlers.                                     *)
(***************************************************************************)
EXTENDS TelegramLink, TLC

CONSTANTS u1, u2, c1, c2, k1, k2, x1, h1, h2

MCUsers    == {u1, u2}
MCChats    == {c1, c2}
MCCodes    == {k1, k2}
MCTargets  == {x1}
MCHandlers == {h1, h2}

Symmetry == Permutations(MCUsers) \cup Permutations(MCChats)
              \cup Permutations(MCCodes) \cup Permutations(MCHandlers)
=============================================================================
