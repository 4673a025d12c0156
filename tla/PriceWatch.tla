----------------------------- MODULE PriceWatch ------------------------------
(***************************************************************************)
(* What price tracking promises, without workers, sessions or locks.  A    *)
(* watch (a tracked search, a tracked property) remembers the lowest price *)
(* it ever observed for each of its items.  An observation is one atomic   *)
(* step: every item that is new or cheaper than ever is written to the     *)
(* notification history together with the price it improves on, and        *)
(* becomes the new lowest price.  Nothing else changes either.             *)
(***************************************************************************)
EXTENDS Integers, Sequences

CONSTANTS
    Watches,
    Items,
    Prices,
    Statuses,           \* what the history may say of the delivery
    AlertOnFirst,       \* is the first price of an item worth an alert?
    NoPrice

VARIABLES
    best,               \* best[w][i]: the lowest price observed
    history             \* history[w][i]: the alerts recorded, oldest first

watchVars == <<best, history>>

Alert == [before : Prices \cup {NoPrice}, after : Prices, status : Statuses]

\* An item of an observation that improves on what is remembered.
Improves(old, price) == price # NoPrice /\ (old = NoPrice \/ price < old)

Notable(old, price) == Improves(old, price) /\ (old # NoPrice \/ AlertOnFirst)

WatchInit ==
    /\ best    = [w \in Watches |-> [i \in Items |-> NoPrice]]
    /\ history = [w \in Watches |-> [i \in Items |-> <<>>]]

Observe(w, price, status) ==
    /\ best' = [best EXCEPT ![w] =
         [i \in Items |-> IF Improves(best[w][i], price[i]) THEN price[i] ELSE best[w][i]]]
    /\ history' = [history EXCEPT ![w] =
         [i \in Items |->
            IF Notable(best[w][i], price[i])
              THEN Append(history[w][i],
                          [before |-> best[w][i], after |-> price[i], status |-> status[i]])
              ELSE history[w][i]]]

WatchNext ==
    \E w \in Watches, price \in [Items -> Prices \cup {NoPrice}], status \in [Items -> Statuses] :
        Observe(w, price, status)

WatchSpec == WatchInit /\ [][WatchNext]_watchVars
=============================================================================
