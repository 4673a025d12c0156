----------------------------- MODULE MCSearchRun -----------------------------
(***************************************************************************)
(* A small instance of SearchRun: two searches at two providers, each of   *)
(* which has one property on offer; Booking's page may list it twice.      *)
(***************************************************************************)
EXTENDS SearchRun, TLC

CONSTANTS s1, s2, a1, b1, booking, airbnb

TwoSearches  == {s1, s2}
MCProviders  == {booking, airbnb}
MCProps      == {a1, b1}
MCProviderOf == a1 :> booking @@ b1 :> airbnb

MCCards  == {<<a1, 1>>, <<a1, 2>>, <<b1, 1>>}
MCPropOf == [c \in MCCards |-> c[1]]

\* No provider, both in either order, or one twice.
MCAsks ==
    {<<>>, <<booking, airbnb>>, <<airbnb, booking>>, <<booking, booking>>}
=============================================================================
