-------------------------- MODULE TrackingRegistry ---------------------------
(***************************************************************************)
(* What creating and removing trackings promises, without requests,        *)
(* statements or locks: a register that holds at most one entry for a user *)
(* and a target.  An entry is added, given another interval or switched    *)
(* off, each in one atomic step, and never leaves, changes hands or comes  *)
(* back on.                                                                *)
(***************************************************************************)
EXTENDS Naturals, FiniteSets

CONSTANTS
    Trackable,          \* <<u, t>>: user u may track target t
    ValidIntervals,
    Most                \* active entries a user can come to have

VARIABLE entries        \* [user, target, interval, active]

\* The entry of a user for a target, if there is one: the set has one member at most.
EntryFor(u, t) == {e \in entries : e.user = u /\ e.target = t}

ActiveOf(u) == {e \in entries : e.user = u /\ e.active}

Replace(old, new) == entries' = (entries \ {old}) \cup {new}

Add(u, t, i) ==
    /\ EntryFor(u, t) = {}
    /\ Cardinality(ActiveOf(u)) < Most
    /\ entries' = entries \cup
         {[user |-> u, target |-> t, interval |-> i, active |-> TRUE]}

\* An entry that is off may be given another interval too, and stays off.
Reschedule(e, i) == Replace(e, [e EXCEPT !.interval = i])

SwitchOff(e) == Replace(e, [e EXCEPT !.active = FALSE])

RegistryInit == entries = {}

RegistryNext ==
    \/ \E ut \in Trackable, i \in ValidIntervals : Add(ut[1], ut[2], i)
    \/ \E e \in entries : \/ \E i \in ValidIntervals : Reschedule(e, i)
                          \/ SwitchOff(e)

RegistrySpec == RegistryInit /\ [][RegistryNext]_entries
=============================================================================
