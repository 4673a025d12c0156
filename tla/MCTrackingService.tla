-------------------------- MODULE MCTrackingService --------------------------
(***************************************************************************)
(* Small instances of TrackingService.  With a limit of one, the first     *)
(* user has targets enough to exceed it; the second user may track only    *)
(* one of them, so that requests for somebody else's target occur.         *)
(***************************************************************************)
EXTENDS TrackingService, TLC

CONSTANTS u1, u2, t1, t2, t3, r1, r2, r3, p1, p2

MCUsers     == {u1, u2}
MCTargets   == {t1, t2, t3}
MCTrackable == {<<u1, t1>>, <<u1, t2>>, <<u1, t3>>, <<u2, t1>>}
MCRowIds    == {r1, r2, r3}
MCRequests  == {p1, p2}

MCOneUser    == {u1}
MCTwoTargets == {t1, t2}
MCOwned      == {<<u1, t1>>, <<u1, t2>>}
MCTwoRows    == {r1, r2}

Symmetry == Permutations(MCRowIds) \cup Permutations(MCRequests)
=============================================================================
