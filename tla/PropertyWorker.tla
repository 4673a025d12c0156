---------------------------- MODULE PropertyWorker ----------------------------
(***************************************************************************)
(* The arq job recheck_tracked_property (workers/property_worker.py): every *)
(* five minutes a tick loads the tracked properties that are due, switches *)
(* off those whose check-in has come, asks the provider for the price of   *)
(* each other one, alerts the user of a price below the lowest and commits.*)
(*                                                                         *)
(* Unlike the search worker it holds no lock while it compares: the lowest *)
(* price is the one of the row as it was loaded when the tick began.  An   *)
(* UPDATE waits for the row until whoever updated it ends.  Switching a    *)
(* row off is flushed but committed only with the next property that is    *)
(* processed to its end, or with the tick; the row stays locked until then.*)
(*                                                                         *)
(* The rows of users and properties are never deleted and both providers   *)
(* are registered, so those early returns are left out.                    *)
(***************************************************************************)
EXTENDS Integers, Sequences, FiniteSets

CONSTANTS
    Tracked,            \* rows of tracked_properties
    Ticks,              \* jobs that may run at the same time
    Cards,              \* what the page of a property shows as its price
    NoPriceText,        \* a page without a price
    Outcomes,           \* what may become of a Telegram message, see Send
    MaxEntries,         \* bound: no tick begins once a history is this long
    MaxFaults,          \* bound: ticks that die in the middle
    NoPrice,
    NoTick

ASSUME CardsArePrices == Cards \subseteq Nat \cup {NoPriceText} /\ NoPriceText \notin Nat
ASSUME NoPriceIsNoNumber == NoPrice \notin Int
ASSUME NoTickIsNoTick == NoTick \notin Ticks
ASSUME OutcomesKnown == Outcomes \subseteq {"sent", "failed", "sent_no_reply"}
ASSUME BoundsAreNatural == MaxFaults \in Nat /\ MaxEntries \in Nat
ASSUME SomethingToDo == Tracked # {}

VARIABLES
    \* committed in PostgreSQL
    state,              \* [Tracked -> {"absent", "active", "inactive"}]: is_active
    due,                \* next_run_at <= now
    lowest,             \* min_price_seen, or NoPrice
    log,                \* the notification_logs of a row, oldest first
    snapshots,          \* its price_snapshots, oldest first
    linked,             \* the user has a telegram_chat_id
    \* outside
    checkedIn,          \* check_in <= today
    told,               \* the prices of the alerts the user received
    \* PostgreSQL's row locks on tracked_properties
    lock,
    \* local to a tick
    pc,
    queue,              \* overdue rows still to be processed
    loaded,             \* their min_price_seen when the tick began
    cur,                \* tp: the row in progress
    chat,               \* user.telegram_chat_id when its processing began
    price,              \* current_price
    draft,              \* delivery_status of the uncommitted log row, or "none"
    expired,            \* rows switched off and not committed yet
    overlapped,         \* history: a tick began before another had ended
    faults

dbVars   == <<state, due, lowest, log, snapshots, linked>>
tickVars == <<pc, queue, loaded, cur, chat, price, draft, expired, overlapped>>
vars     == <<state, due, lowest, log, snapshots, linked, checkedIn, told, lock,
              pc, queue, loaded, cur, chat, price, draft, expired, overlapped, faults>>

\* _parse_price of the text of the price element, or of "0" without one.
ParsePrice(card) == IF card = NoPriceText THEN 0 ELSE card

Prices   == {ParsePrice(c) : c \in Cards}
Statuses == {"pending", "sent", "failed"}
Alert    == [before : Prices \cup {NoPrice}, after : Prices, status : Statuses]
Blank    == [t \in Tracked |-> NoPrice]
AnyRow   == CHOOSE t \in Tracked : TRUE

TypeOK ==
    /\ state     \in [Tracked -> {"absent", "active", "inactive"}]
    /\ due       \in [Tracked -> BOOLEAN]
    /\ lowest    \in [Tracked -> Prices \cup {NoPrice}]
    /\ log       \in [Tracked -> Seq(Alert)]
    /\ snapshots \in [Tracked -> Seq(Prices)]
    /\ linked    \in BOOLEAN
    /\ checkedIn \in [Tracked -> BOOLEAN]
    /\ told      \in [Tracked -> Seq(Prices)]
    /\ lock      \in [Tracked -> Ticks \cup {NoTick}]
    /\ pc        \in [Ticks -> {"idle", "next", "expire", "scrape", "notify", "update"}]
    /\ queue     \in [Ticks -> SUBSET Tracked]
    /\ loaded    \in [Ticks -> [Tracked -> Prices \cup {NoPrice}]]
    /\ cur       \in [Ticks -> Tracked]
    /\ chat      \in [Ticks -> BOOLEAN]
    /\ price     \in [Ticks -> Prices \cup {NoPrice}]
    /\ draft     \in [Ticks -> Statuses \cup {"none"}]
    /\ expired   \in [Ticks -> SUBSET Tracked]
    /\ overlapped \in BOOLEAN
    /\ faults    \in 0..MaxFaults

-----------------------------------------------------------------------------

Init ==
    /\ state     = [t \in Tracked |-> "absent"]
    /\ due       = [t \in Tracked |-> FALSE]
    /\ lowest    = Blank
    /\ log       = [t \in Tracked |-> <<>>]
    /\ snapshots = [t \in Tracked |-> <<>>]
    /\ linked    \in BOOLEAN
    /\ checkedIn = [t \in Tracked |-> FALSE]
    /\ told      = [t \in Tracked |-> <<>>]
    /\ lock      = [t \in Tracked |-> NoTick]
    /\ pc        = [w \in Ticks |-> "idle"]
    /\ queue     = [w \in Ticks |-> {}]
    /\ loaded    = [w \in Ticks |-> Blank]
    /\ cur       = [w \in Ticks |-> AnyRow]
    /\ chat      = [w \in Ticks |-> FALSE]
    /\ price     = [w \in Ticks |-> NoPrice]
    /\ draft     = [w \in Ticks |-> "none"]
    /\ expired   = [w \in Ticks |-> {}]
    /\ overlapped = FALSE
    /\ faults    = 0

-----------------------------------------------------------------------------
(***************************************************************************)
(* The user, in short transactions of their own, and the clock.            *)
(***************************************************************************)

Track(t) ==
    /\ state[t] = "absent"
    /\ state' = [state EXCEPT ![t] = "active"]
    /\ UNCHANGED <<due, lowest, log, snapshots, linked, checkedIn, told, lock, tickVars, faults>>

\* create_tracked_property for a row that is active; its UPDATE waits.
Reschedule(t) ==
    /\ state[t] = "active"
    /\ lock[t] = NoTick
    /\ due' = [due EXCEPT ![t] = FALSE]
    /\ UNCHANGED <<state, lowest, log, snapshots, linked, checkedIn, told, lock, tickVars, faults>>

Untrack(t) ==
    /\ state[t] = "active"
    /\ lock[t] = NoTick
    /\ state' = [state EXCEPT ![t] = "inactive"]
    /\ UNCHANGED <<due, lowest, log, snapshots, linked, checkedIn, told, lock, tickVars, faults>>

SetLink(b) ==
    /\ linked # b
    /\ linked' = b
    /\ UNCHANGED <<state, due, lowest, log, snapshots, checkedIn, told, lock, tickVars, faults>>

BecomeDue(t) ==
    /\ state[t] = "active"
    /\ ~due[t]
    /\ due' = [due EXCEPT ![t] = TRUE]
    /\ UNCHANGED <<state, lowest, log, snapshots, linked, checkedIn, told, lock, tickVars, faults>>

CheckIn(t) ==
    /\ ~checkedIn[t]
    /\ checkedIn' = [checkedIn EXCEPT ![t] = TRUE]
    /\ UNCHANGED <<dbVars, told, lock, tickVars, faults>>

-----------------------------------------------------------------------------
(***************************************************************************)
(* A tick.                                                                 *)
(***************************************************************************)

OverdueFirst ==                                         \* mutant of Overdue
    LET all == {t \in Tracked : state[t] = "active" /\ due[t]}
    IN  IF all = {} THEN {} ELSE {CHOOSE t \in all : TRUE}

OverdueAny == {t \in Tracked : state[t] # "absent" /\ due[t]}     \* mutant of Overdue

\* get_overdue_tracked_properties
Overdue == {t \in Tracked : state[t] = "active" /\ due[t]}

StartTick(w) ==
    /\ pc[w] = "idle"
    /\ Overdue # {}
    /\ \A t \in Tracked : Len(log[t]) < MaxEntries
    /\ queue'  = [queue EXCEPT ![w] = Overdue]
    /\ loaded' = [loaded EXCEPT ![w] = lowest]
    /\ pc'     = [pc EXCEPT ![w] = "next"]
    /\ overlapped' = (overlapped \/ \E v \in Ticks : pc[v] # "idle")
    /\ UNCHANGED <<dbVars, checkedIn, told, lock, cur, chat, price, draft, expired, faults>>

\* The date is read, and after it the user, when the row's turn comes.
Take(w, t) ==
    /\ pc[w] = "next"
    /\ t \in queue[w]
    /\ queue' = [queue EXCEPT ![w] = @ \ {t}]
    /\ cur'   = [cur EXCEPT ![w] = t]
    /\ \/ /\ checkedIn[t]
          /\ pc' = [pc EXCEPT ![w] = "expire"]
          /\ UNCHANGED chat
       \/ /\ ~checkedIn[t]
          /\ pc'   = [pc EXCEPT ![w] = "scrape"]
          /\ chat' = [chat EXCEPT ![w] = linked]
    /\ UNCHANGED <<dbVars, checkedIn, told, lock, loaded, price, draft, expired, overlapped, faults>>

\* Back to the loop of the tick, with nothing of this row kept.
Finish(w) ==
    /\ pc'    = [pc EXCEPT ![w] = "next"]
    /\ cur'   = [cur EXCEPT ![w] = AnyRow]
    /\ chat'  = [chat EXCEPT ![w] = FALSE]
    /\ price' = [price EXCEPT ![w] = NoPrice]
    /\ draft' = [draft EXCEPT ![w] = "none"]

\* The flush of is_active = False: it waits for the row and keeps it.
Expire(w) ==
    /\ pc[w] = "expire"
    /\ lock[cur[w]] = NoTick
    /\ lock'    = [lock EXCEPT ![cur[w]] = w]
    /\ expired' = [expired EXCEPT ![w] = @ \cup {cur[w]}]
    /\ Finish(w)
    /\ UNCHANGED <<dbVars, checkedIn, told, queue, loaded, overlapped, faults>>

\* prov.details raises, or is not OK: the row stays due.
ScrapeFails(w) ==
    /\ pc[w] = "scrape"
    /\ Finish(w)
    /\ UNCHANGED <<dbVars, checkedIn, told, lock, queue, loaded, expired, overlapped, faults>>

IsNoRise(old, new) == old # NoPrice /\ new <= old       \* mutant of IsDrop
IsDrop(old, new) == old # NoPrice /\ new < old

ScrapeOk(w, card) ==
    /\ pc[w] = "scrape"
    /\ price' = [price EXCEPT ![w] = ParsePrice(card)]
    /\ pc' = [pc EXCEPT ![w] =
                IF IsDrop(loaded[w][cur[w]], ParsePrice(card)) THEN "notify" ELSE "update"]
    /\ UNCHANGED <<dbVars, checkedIn, told, lock, queue, loaded, cur, chat, draft, expired, overlapped, faults>>

\* The log row and the price snapshot are flushed.
Flush(w, status) ==
    /\ pc[w] = "notify"
    /\ draft' = [draft EXCEPT ![w] = status]
    /\ pc'    = [pc EXCEPT ![w] = "update"]
    /\ UNCHANGED <<dbVars, checkedIn, lock, queue, loaded, cur, chat, price, expired, overlapped, faults>>

Record(w) ==
    /\ ~chat[w]
    /\ Flush(w, "pending")
    /\ UNCHANGED told

\* Mutant of Send: the answer of Telegram is ignored.
SendUnchecked(w, outcome) ==
    /\ chat[w]
    /\ Flush(w, "sent")
    /\ told' = IF outcome = "failed" THEN told
               ELSE [told EXCEPT ![cur[w]] = Append(@, price[w])]

\* TelegramNotifier.send: the message arrives and is confirmed, it does not
\* arrive, or it arrives and the confirmation is lost (a timeout: False).
Send(w, outcome) ==
    /\ chat[w]
    /\ Flush(w, IF outcome = "sent" THEN "sent" ELSE "failed")
    /\ told' = IF outcome = "failed" THEN told
               ELSE [told EXCEPT ![cur[w]] = Append(@, price[w])]

Notify(w) == Record(w) \/ \E o \in Outcomes : Send(w, o)

Release(w) == lock' = [t \in Tracked |-> IF lock[t] = w THEN NoTick ELSE lock[t]]

\* Mutants of SwitchedOff: every column of the row in progress is written as it
\* was loaded, or a state that no reader knows.
SwitchedOffStale(w) ==
    [t \in Tracked |-> IF t \in expired[w] THEN "inactive"
                       ELSE IF pc[w] = "update" /\ t = cur[w] THEN "active" ELSE state[t]]
SwitchedOffUnknown(w) == [t \in Tracked |-> IF t \in expired[w] THEN "expired" ELSE state[t]]

\* What a commit of this session makes of is_active: it writes no other rows.
SwitchedOff(w) == [t \in Tracked |-> IF t \in expired[w] THEN "inactive" ELSE state[t]]

LatestPrice(w, t) == price[w]                           \* mutant of NewLowest

\* update_tracked_property_after_run compares with the loaded value, and only a
\* min_price_seen that was assigned is part of the UPDATE.
NewLowest(w, t) ==
    IF loaded[w][t] = NoPrice \/ price[w] < loaded[w][t] THEN price[w] ELSE lowest[t]

\* The UPDATE, once it has the row, and the commit at once after it.
Commit(w) ==
    LET t == cur[w] IN
    /\ pc[w] = "update"
    /\ lock[t] = NoTick
    /\ lowest' = [lowest EXCEPT ![t] = NewLowest(w, t)]
    /\ due'    = [due EXCEPT ![t] = FALSE]
    /\ IF draft[w] = "none" THEN UNCHANGED <<log, snapshots>>
       ELSE /\ log' = [log EXCEPT ![t] = Append(@,
                 [before |-> loaded[w][t], after |-> price[w], status |-> draft[w]])]
            /\ snapshots' = [snapshots EXCEPT ![t] = Append(@, price[w])]
    /\ state'   = SwitchedOff(w)
    /\ expired' = [expired EXCEPT ![w] = {}]
    /\ Release(w)
    /\ Finish(w)
    /\ UNCHANGED <<linked, checkedIn, told, queue, loaded, overlapped, faults>>

\* The tick ends in the middle: its transaction is rolled back.
Die(w) ==
    /\ Release(w)
    /\ pc'      = [pc EXCEPT ![w] = "idle"]
    /\ queue'   = [queue EXCEPT ![w] = {}]
    /\ loaded'  = [loaded EXCEPT ![w] = Blank]
    /\ cur'     = [cur EXCEPT ![w] = AnyRow]
    /\ chat'    = [chat EXCEPT ![w] = FALSE]
    /\ price'   = [price EXCEPT ![w] = NoPrice]
    /\ draft'   = [draft EXCEPT ![w] = "none"]
    /\ expired' = [expired EXCEPT ![w] = {}]
    /\ UNCHANGED <<dbVars, checkedIn, told, overlapped>>

\* Mutant of EndTick: the session is closed without a last commit.
EndTickRolledBack(w) ==
    /\ pc[w] = "next"
    /\ queue[w] = {}
    /\ Die(w)
    /\ UNCHANGED faults

\* The last commit of the tick.
EndTick(w) ==
    /\ pc[w] = "next"
    /\ queue[w] = {}
    /\ state'   = SwitchedOff(w)
    /\ expired' = [expired EXCEPT ![w] = {}]
    /\ loaded'  = [loaded EXCEPT ![w] = Blank]
    /\ pc'      = [pc EXCEPT ![w] = "idle"]
    /\ Release(w)
    /\ UNCHANGED <<due, lowest, log, snapshots, linked, checkedIn, told, queue, cur, chat,
                   price, draft, overlapped, faults>>

\* job_timeout, a database error (nothing catches it), a restart of the worker.
Fault(w) ==
    /\ pc[w] # "idle"
    /\ faults < MaxFaults
    /\ faults' = faults + 1
    /\ Die(w)

\* PostgreSQL breaks a circle of transactions that wait for each other.
Waits(w, v) == pc[w] \in {"expire", "update"} /\ v # w /\ lock[cur[w]] = v

DeadlockVictim(w) ==
    /\ \E C \in SUBSET Ticks : w \in C /\ \A x \in C : \E y \in C : Waits(x, y)
    /\ Die(w)
    /\ UNCHANGED faults

-----------------------------------------------------------------------------

User ==
    \/ \E t \in Tracked : Track(t) \/ Reschedule(t) \/ Untrack(t) \/ BecomeDue(t) \/ CheckIn(t)
    \/ \E b \in BOOLEAN : SetLink(b)

TickStep(w) ==
    \/ EndTick(w)
    \/ \E t \in Tracked : Take(w, t)
    \/ Expire(w)
    \/ ScrapeFails(w)
    \/ \E card \in Cards : ScrapeOk(w, card)
    \/ Notify(w)
    \/ Commit(w)

Next ==
    \/ User
    \/ \E w \in Ticks : StartTick(w) \/ TickStep(w) \/ Fault(w) \/ DeadlockVictim(w)

Spec == Init /\ [][Next]_vars

\* As in SearchWorker: the cron job runs, its steps do not stop unless the tick
\* dies, row locks are granted in the order of arrival, and a provider does not
\* refuse a property for ever.
FairSpec ==
    /\ Spec
    /\ \A w \in Ticks :
         /\ WF_vars(StartTick(w))
         /\ SF_vars(Expire(w) \/ Commit(w))
         /\ WF_vars(TickStep(w))
         /\ \A t \in Tracked :
              /\ SF_vars(Take(w, t))
              /\ SF_vars(cur[w] = t /\ \E card \in Cards : ScrapeOk(w, card))

-----------------------------------------------------------------------------
(***************************************************************************)
(* Properties.                                                             *)
(***************************************************************************)

\* A row that was switched off, by the user or because its check-in came, stays
\* so: the commit of a tick that loaded it before does not bring it back.
InactiveIsFinal ==
    [][\A t \in Tracked : state[t] = "inactive" => state'[t] = "inactive"]_vars

\* Between two steps a row is locked only by a tick that switched it off and
\* has not committed yet, and that tick still knows of it: no lock is left
\* behind by a tick that ended or died.
LocksAreExpiries ==
    \A t \in Tracked, w \in Ticks : lock[t] = w <=> t \in expired[w]

\* An entry marked as sent was received.
SentIsTold ==
    \A t \in Tracked : \A j \in 1..Len(log[t]) : log[t][j].status = "sent" =>
        \E k \in 1..Len(told[t]) : told[t][k] = log[t][j].after

\* The user is told lower and lower prices as long as ticks do not overlap.  If a
\* tick dies between the message and its commit the alert is repeated: the
\* descent starts over at most once for each death.
Restarts(prices) == {k \in 2..Len(prices) : prices[k] >= prices[k - 1]}

AlertsRestartOnlyAfterDeath ==
    ~overlapped => \A t \in Tracked : Cardinality(Restarts(told[t])) <= faults

\* A tick processes the rows it loaded even if the user withdraws one in the
\* meantime.  But once no tick is at work on it, a row that is off is silent: no
\* message, no entry and no new lowest price, and no tick takes it up again.
AtWork(w, t) ==
    t \in queue[w] \/ (pc[w] \in {"expire", "scrape", "notify", "update"} /\ cur[w] = t)

Abandoned(t) == state[t] = "inactive" /\ \A w \in Ticks : ~AtWork(w, t)

InactiveFallsSilent ==
    [][\A t \in Tracked : Abandoned(t) =>
         /\ told'[t] = told[t] /\ log'[t] = log[t] /\ lowest'[t] = lowest[t]
         /\ \A w \in Ticks : ~AtWork(w, t)']_vars

\* A property that was tracked until its check-in came is switched off when it
\* is due, even if ticks die after the flush and before its commit (FR-014).
CheckedInIsSwitchedOff ==
    \A t \in Tracked :
        checkedIn[t] /\ state[t] = "active" /\ due[t] ~> state[t] = "inactive" \/ ~due[t]

\* Every active property that is due is processed, unless the user withdraws it.
DueIsServed ==
    \A t \in Tracked : state[t] = "active" /\ due[t] ~> ~due[t] \/ state[t] # "active"

PW == INSTANCE PriceWatch
        WITH Watches <- Tracked, Items <- {"price"}, AlertOnFirst <- FALSE,
             best    <- [t \in Tracked |-> [i \in {"price"} |-> lowest[t]]],
             history <- [t \in Tracked |-> [i \in {"price"} |-> log[t]]]

\* The commit of a tick that compared with a price which another tick has
\* replaced since.  It may raise the lowest price (data-model.md: the "lowest
\* price ever recorded") and log a drop from a price that was not the lowest.
StaleCommit ==
    \E w \in Ticks :
        /\ pc[w] = "update" /\ pc'[w] = "next"
        /\ loaded[w][cur[w]] # lowest[cur[w]]

\* The worker implements the promise of PriceWatch: the lowest price only falls,
\* each fall but the first is in the log with the price it fell from, and
\* nothing else is.  The one exception is a stale commit, and there is none
\* unless ticks have overlapped.
ImplementsPriceWatch ==
    PW!WatchInit /\ [][PW!WatchNext \/ (StaleCommit /\ overlapped)]_(PW!watchVars)
=============================================================================
