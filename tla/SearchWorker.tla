---------------------------- MODULE SearchWorker -----------------------------
(***************************************************************************)
(* The arq job rerun_tracked_search (workers/search_worker.py): every five *)
(* minutes a tick loads the tracked searches that are due, and for each of *)
(* them scrapes its providers, upserts the listings, compares them with    *)
(* the lowest prices seen, alerts the user by Telegram and commits.        *)
(*                                                                         *)
(* A tick has one session, and one transaction per tracked search.  The    *)
(* upsert of a property locks its row until that transaction ends          *)
(* (INSERT ... ON CONFLICT DO UPDATE), so ticks that overlap wait for each *)
(* other there.  Everything is read at READ COMMITTED, but an object that  *)
(* the session holds is not refreshed: the overdue rows keep the values of *)
(* the moment the tick began.                                              *)
(*                                                                         *)
(* The order in which a tick takes the searches, asks the providers and    *)
(* goes through the listings is left open: no ORDER BY, and the order of a *)
(* page is the provider's.                                                 *)
(*                                                                         *)
(* A search asks some of the providers, or all if its list is empty; one   *)
(* that is not asked looks the same as one that fails.  A list may name a  *)
(* provider twice: its pages are read one after the other, and the last    *)
(* listing of a property counts, as in one page that lists it so.          *)
(***************************************************************************)
EXTENDS Integers, Sequences, FiniteSets

CONSTANTS
    Searches,           \* rows of tracked_searches
    Props,              \* rows of properties
    Providers,
    ProviderOf,         \* [Props -> Providers]: a property belongs to one provider
    Ticks,              \* jobs that may run at the same time
    Intervals,          \* VALID_INTERVALS
    Cards,              \* what a result card shows as its price
    NoPriceText,        \* a card without a price
    Outcomes,           \* what may become of a Telegram message, see Send
    MaxFaults,          \* bound: ticks that die in the middle
    NoPrice,
    NoTick

ASSUME CardsArePrices == Cards \subseteq Nat \cup {NoPriceText} /\ NoPriceText \notin Nat
ASSUME NoPriceIsNoNumber == NoPrice \notin Int
ASSUME NoTickIsNoTick == NoTick \notin Ticks
ASSUME ProviderOfType == ProviderOf \in [Props -> Providers]
ASSUME OutcomesKnown == Outcomes \subseteq {"sent", "failed", "sent_no_reply"}
ASSUME MaxFaultsIsNatural == MaxFaults \in Nat
ASSUME SomethingToDo == Searches # {} /\ Intervals # {}

VARIABLES
    \* committed in PostgreSQL
    tracked,            \* [Searches -> {"absent", "active", "inactive"}]: is_active
    interval,           \* interval_hours
    planned,            \* the interval next_run_at was computed with
    due,                \* next_run_at <= now
    seen,               \* seen[s][p]: min_price_seen, or NoPrice
    log,                \* log[s][p]: the notification_logs, oldest first
    linked,             \* the user has a telegram_chat_id
    \* outside: the alerts the user received in Telegram
    told,               \* told[s][p]: their prices, oldest first
    \* PostgreSQL's row locks on properties
    lock,               \* [Props -> Ticks or NoTick]
    \* local to a tick
    pc,
    queue,              \* overdue searches still to be processed
    loaded,             \* the interval_hours each of them was loaded with
    cur,                \* ts: the search in progress
    chat,               \* user.telegram_chat_id when its processing began
    asked,              \* providers still to be asked
    found,              \* found[w][p]: price in listings_by_prop_id, or NoPrice
    base,               \* base[w][p]: seen_by_prop_id
    todo,               \* events still to be notified
    draft,              \* delivery_status of the uncommitted log row, or "none"
    faults

dbVars   == <<tracked, interval, planned, due, seen, log, linked>>
tickVars == <<pc, queue, loaded, cur, chat, asked, found, base, todo, draft>>
vars     == <<tracked, interval, planned, due, seen, log, linked, told, lock,
              pc, queue, loaded, cur, chat, asked, found, base, todo, draft, faults>>

\* BookingProvider._parse_price, AirbnbProvider._parse_price: no number is 0.
ParsePrice(card) == IF card = NoPriceText THEN 0 ELSE card

Prices   == {ParsePrice(c) : c \in Cards}
Statuses == {"pending", "sent", "failed"}
Alert    == [before : Prices \cup {NoPrice}, after : Prices, status : Statuses]
Blank    == [p \in Props |-> NoPrice]
Undrafted == [p \in Props |-> "none"]

TypeOK ==
    /\ tracked  \in [Searches -> {"absent", "active", "inactive"}]
    /\ interval \in [Searches -> Intervals]
    /\ planned  \in [Searches -> Intervals]
    /\ due      \in [Searches -> BOOLEAN]
    /\ seen     \in [Searches -> [Props -> Prices \cup {NoPrice}]]
    /\ log      \in [Searches -> [Props -> Seq(Alert)]]
    /\ linked   \in BOOLEAN
    /\ told     \in [Searches -> [Props -> Seq(Prices)]]
    /\ lock     \in [Props -> Ticks \cup {NoTick}]
    /\ pc       \in [Ticks -> {"idle", "next", "scrape", "upsert", "notify"}]
    /\ queue    \in [Ticks -> SUBSET Searches]
    /\ loaded   \in [Ticks -> [Searches -> Intervals]]
    /\ cur      \in [Ticks -> Searches]
    /\ chat     \in [Ticks -> BOOLEAN]
    /\ asked    \in [Ticks -> SUBSET Providers]
    /\ found    \in [Ticks -> [Props -> Prices \cup {NoPrice}]]
    /\ base     \in [Ticks -> [Props -> Prices \cup {NoPrice}]]
    /\ todo     \in [Ticks -> SUBSET Props]
    /\ draft    \in [Ticks -> [Props -> Statuses \cup {"none"}]]
    /\ faults   \in 0..MaxFaults

-----------------------------------------------------------------------------

AnySearch   == CHOOSE s \in Searches : TRUE
AnyInterval == CHOOSE i \in Intervals : TRUE

Init ==
    /\ tracked  = [s \in Searches |-> "absent"]
    /\ interval = [s \in Searches |-> AnyInterval]
    /\ planned  = [s \in Searches |-> AnyInterval]
    /\ due      = [s \in Searches |-> FALSE]
    /\ seen     = [s \in Searches |-> Blank]
    /\ log      = [s \in Searches |-> [p \in Props |-> <<>>]]
    /\ linked   \in BOOLEAN
    /\ told     = [s \in Searches |-> [p \in Props |-> <<>>]]
    /\ lock     = [p \in Props |-> NoTick]
    /\ pc       = [w \in Ticks |-> "idle"]
    /\ queue    = [w \in Ticks |-> {}]
    /\ loaded   = [w \in Ticks |-> [s \in Searches |-> AnyInterval]]
    /\ cur      = [w \in Ticks |-> AnySearch]
    /\ chat     = [w \in Ticks |-> FALSE]
    /\ asked    = [w \in Ticks |-> {}]
    /\ found    = [w \in Ticks |-> Blank]
    /\ base     = [w \in Ticks |-> Blank]
    /\ todo     = [w \in Ticks |-> {}]
    /\ draft    = [w \in Ticks |-> Undrafted]
    /\ faults   = 0

-----------------------------------------------------------------------------
(***************************************************************************)
(* The user, through the API or the bot, in short transactions of their    *)
(* own (TrackingService has them statement by statement).                  *)
(***************************************************************************)

Track(s, i) ==
    /\ tracked[s] = "absent"
    /\ tracked'  = [tracked EXCEPT ![s] = "active"]
    /\ interval' = [interval EXCEPT ![s] = i]
    /\ planned'  = [planned EXCEPT ![s] = i]
    /\ UNCHANGED <<due, seen, log, linked, told, lock, tickVars, faults>>

\* create_tracked_search for a search tracked already.
ChangeInterval(s, i) ==
    /\ tracked[s] = "active"
    /\ interval' = [interval EXCEPT ![s] = i]
    /\ planned'  = [planned EXCEPT ![s] = i]
    /\ due'      = [due EXCEPT ![s] = FALSE]
    /\ UNCHANGED <<tracked, seen, log, linked, told, lock, tickVars, faults>>

Untrack(s) ==
    /\ tracked[s] = "active"
    /\ tracked' = [tracked EXCEPT ![s] = "inactive"]
    /\ UNCHANGED <<interval, planned, due, seen, log, linked, told, lock, tickVars, faults>>

\* /start with a link code, and DELETE /telegram/link.
SetLink(b) ==
    /\ linked # b
    /\ linked' = b
    /\ UNCHANGED <<tracked, interval, planned, due, seen, log, told, lock, tickVars, faults>>

\* The clock reaches next_run_at.
BecomeDue(s) ==
    /\ tracked[s] = "active"
    /\ ~due[s]
    /\ due' = [due EXCEPT ![s] = TRUE]
    /\ UNCHANGED <<tracked, interval, planned, seen, log, linked, told, lock, tickVars, faults>>

-----------------------------------------------------------------------------
(***************************************************************************)
(* A tick.                                                                 *)
(***************************************************************************)

Found(w)   == {p \in Props : found[w][p] # NoPrice}
OverdueFirst ==                                         \* mutant of Overdue
    LET all == {s \in Searches : tracked[s] = "active" /\ due[s]}
    IN  IF all = {} THEN {} ELSE {CHOOSE s \in all : TRUE}

OverdueAny == {s \in Searches : tracked[s] # "absent" /\ due[s]}  \* mutant of Overdue
Overdue    == {s \in Searches : tracked[s] = "active" /\ due[s]}

IsNoRise(w, p) == base[w][p] # NoPrice /\ found[w][p] <= base[w][p] \* mutant of IsDrop

\* compute_search_diff: a NewListing or a PriceDrop.
IsNew(w, p)  == base[w][p] = NoPrice
IsDrop(w, p) == base[w][p] # NoPrice /\ found[w][p] < base[w][p]
AllEvents(w) == {p \in Props : IsNew(w, p) \/ IsDrop(w, p)}         \* mutant of Events
Events(w)    == {p \in Found(w) : IsNew(w, p) \/ IsDrop(w, p)}

\* upsert_seen_property: the new row, or the running minimum of the loaded one.
UpsertLatest(old, price) == price                       \* mutant of UpsertSeen
UpsertSeen(old, price) == IF old = NoPrice \/ price < old THEN price ELSE old

\* get_overdue_tracked_searches
StartTick(w) ==
    /\ pc[w] = "idle"
    /\ Overdue # {}
    /\ queue'  = [queue EXCEPT ![w] = Overdue]
    /\ loaded' = [loaded EXCEPT ![w] = interval]
    /\ pc'     = [pc EXCEPT ![w] = "next"]
    /\ UNCHANGED <<dbVars, told, lock, cur, chat, asked, found, base, todo, draft, faults>>

EndTick(w) ==
    /\ pc[w] = "next"
    /\ queue[w] = {}
    /\ pc'     = [pc EXCEPT ![w] = "idle"]
    /\ loaded' = [loaded EXCEPT ![w] = [s \in Searches |-> AnyInterval]]
    /\ UNCHANGED <<dbVars, told, lock, queue, cur, chat, asked, found, base, todo, draft, faults>>

\* The user is read anew for every search, the search row is not.
Take(w, s) ==
    /\ pc[w] = "next"
    /\ s \in queue[w]
    /\ queue' = [queue EXCEPT ![w] = @ \ {s}]
    /\ cur'   = [cur EXCEPT ![w] = s]
    /\ chat'  = [chat EXCEPT ![w] = linked]
    /\ asked' = [asked EXCEPT ![w] = Providers]
    /\ pc'    = [pc EXCEPT ![w] = "scrape"]
    /\ UNCHANGED <<dbVars, told, lock, loaded, found, base, todo, draft, faults>>

\* Back to the loop of the tick, with nothing of this search kept.
Finish(w) ==
    /\ pc'    = [pc EXCEPT ![w] = "next"]
    /\ chat'  = [chat EXCEPT ![w] = FALSE]
    /\ cur'   = [cur EXCEPT ![w] = AnySearch]
    /\ found' = [found EXCEPT ![w] = Blank]
    /\ base'  = [base EXCEPT ![w] = Blank]
    /\ todo'  = [todo EXCEPT ![w] = {}]
    /\ draft' = [draft EXCEPT ![w] = Undrafted]

\* prov.search raises, or returns BLOCKED, CAPTCHA or INCOMPLETE.
ScrapeFails(w, v) ==
    /\ pc[w] = "scrape"
    /\ v \in asked[w]
    /\ asked' = [asked EXCEPT ![w] = @ \ {v}]
    /\ UNCHANGED <<dbVars, told, lock, pc, queue, loaded, cur, chat, found, base, todo, draft, faults>>

\* prov.search returns OK with at least one listing.
ScrapeOk(w, v) ==
    /\ pc[w] = "scrape"
    /\ v \in asked[w]
    /\ asked' = [asked EXCEPT ![w] = @ \ {v}]
    /\ \E page \in SUBSET {p \in Props : ProviderOf[p] = v} \ {{}} :
         \E card \in [page -> Cards] :
            found' = [found EXCEPT ![w] =
              [p \in Props |-> IF p \in page THEN ParsePrice(card[p]) ELSE found[w][p]]]
    /\ UNCHANGED <<dbVars, told, lock, pc, queue, loaded, cur, chat, base, todo, draft, faults>>

\* The cycle is discarded when no provider answered.
EndScrape(w) ==
    /\ pc[w] = "scrape"
    /\ asked[w] = {}
    /\ \/ /\ Found(w) = {}
          /\ Finish(w)
          /\ UNCHANGED <<queue, loaded, asked>>
       \/ /\ Found(w) # {}
          /\ pc' = [pc EXCEPT ![w] = "upsert"]
          /\ UNCHANGED <<queue, loaded, cur, chat, asked, found, base, todo, draft>>
    /\ UNCHANGED <<dbVars, told, lock, faults>>

\* upsert_property waits for the row and keeps it.
Upsert(w, p) ==
    /\ pc[w] = "upsert"
    /\ p \in Found(w)
    /\ lock[p] = NoTick
    /\ lock' = [lock EXCEPT ![p] = w]
    /\ UNCHANGED <<dbVars, told, tickVars, faults>>

\* Mutant of ReadSeen: the baseline is read before the upserts are done.
ReadSeenEarly(w) ==
    /\ pc[w] = "upsert"
    /\ UNCHANGED <<dbVars, told, lock, queue, loaded, cur, chat, asked, found, draft, faults>>
    /\ base' = [base EXCEPT ![w] = seen[cur[w]]]
    /\ todo' = [todo EXCEPT ![w] = Events(w)']
    /\ pc'   = [pc EXCEPT ![w] = "notify"]

\* After the last upsert: get_seen_properties, and the diff.
ReadSeen(w) ==
    /\ pc[w] = "upsert"
    /\ \A p \in Found(w) : lock[p] = w
    /\ UNCHANGED <<dbVars, told, lock, queue, loaded, cur, chat, asked, found, draft, faults>>
    /\ base' = [base EXCEPT ![w] = seen[cur[w]]]
    /\ todo' = [todo EXCEPT ![w] = Events(w)']
    /\ pc'   = [pc EXCEPT ![w] = "notify"]

\* Mutant of Flush: the alert is not logged.
FlushNoRow(w, p, status) ==
    /\ pc[w] = "notify"
    /\ p \in todo[w]
    /\ todo' = [todo EXCEPT ![w] = @ \ {p}]
    /\ UNCHANGED <<dbVars, lock, pc, queue, loaded, cur, chat, asked, found, base, draft, faults>>

\* The log row is flushed with the status of its delivery.
Flush(w, p, status) ==
    /\ pc[w] = "notify"
    /\ p \in todo[w]
    /\ todo'  = [todo EXCEPT ![w] = @ \ {p}]
    /\ draft' = [draft EXCEPT ![w][p] = status]
    /\ UNCHANGED <<dbVars, lock, pc, queue, loaded, cur, chat, asked, found, base, faults>>

\* No Telegram account was linked when the cycle began.
Record(w, p) ==
    /\ ~chat[w]
    /\ Flush(w, p, "pending")
    /\ UNCHANGED told

\* Mutant of Send: the answer of Telegram is ignored.
SendUnchecked(w, p, outcome) ==
    /\ chat[w]
    /\ Flush(w, p, "sent")
    /\ told' = IF outcome = "failed" THEN told
               ELSE [told EXCEPT ![cur[w]][p] = Append(told[cur[w]][p], found[w][p])]

\* TelegramNotifier.send: the message arrives and is confirmed, it does not
\* arrive, or it arrives and the confirmation is lost (a timeout: False).
Send(w, p, outcome) ==
    /\ chat[w]
    /\ Flush(w, p, IF outcome = "sent" THEN "sent" ELSE "failed")
    /\ told' = IF outcome = "failed" THEN told
               ELSE [told EXCEPT ![cur[w]][p] = Append(told[cur[w]][p], found[w][p])]

Notify(w, p) == Record(w, p) \/ \E o \in Outcomes : Send(w, p, o)

Release(w) == lock' = [p \in Props |-> IF lock[p] = w THEN NoTick ELSE lock[p]]

\* The running minima, the log rows and the next run, in one commit.
Commit(w) ==
    LET s == cur[w] IN
    /\ pc[w] = "notify"
    /\ todo[w] = {}
    /\ seen' = [seen EXCEPT ![s] =
         [p \in Props |-> IF p \in Found(w) THEN UpsertSeen(base[w][p], found[w][p])
                                            ELSE seen[s][p]]]
    /\ log' = [log EXCEPT ![s] =
         [p \in Props |->
            IF draft[w][p] = "none" THEN log[s][p]
            ELSE Append(log[s][p], [before |-> base[w][p], after |-> found[w][p],
                                    status |-> draft[w][p]])]]
    /\ planned' = [planned EXCEPT ![s] = loaded[w][s]]
    /\ due'     = [due EXCEPT ![s] = FALSE]
    /\ Release(w)
    /\ Finish(w)
    /\ UNCHANGED <<tracked, interval, linked, told, queue, loaded, asked, faults>>

\* The tick ends in the middle: its transaction is rolled back.
Die(w) ==
    /\ Release(w)
    /\ pc'     = [pc EXCEPT ![w] = "idle"]
    /\ queue'  = [queue EXCEPT ![w] = {}]
    /\ loaded' = [loaded EXCEPT ![w] = [s \in Searches |-> AnyInterval]]
    /\ cur'    = [cur EXCEPT ![w] = AnySearch]
    /\ chat'   = [chat EXCEPT ![w] = FALSE]
    /\ asked'  = [asked EXCEPT ![w] = {}]
    /\ found'  = [found EXCEPT ![w] = Blank]
    /\ base'   = [base EXCEPT ![w] = Blank]
    /\ todo'   = [todo EXCEPT ![w] = {}]
    /\ draft'  = [draft EXCEPT ![w] = Undrafted]
    /\ UNCHANGED <<dbVars, told>>

\* job_timeout, a database error (nothing catches it), a restart of the worker.
Fault(w) ==
    /\ pc[w] # "idle"
    /\ faults < MaxFaults
    /\ faults' = faults + 1
    /\ Die(w)

\* PostgreSQL breaks a circle of transactions that wait for each other.
Waits(w, v) == pc[w] = "upsert" /\ v # w /\ \E p \in Found(w) : lock[p] = v

DeadlockVictim(w) ==
    /\ \E C \in SUBSET Ticks : w \in C /\ \A x \in C : \E y \in C : Waits(x, y)
    /\ Die(w)
    /\ UNCHANGED faults

-----------------------------------------------------------------------------

User ==
    \/ \E s \in Searches, i \in Intervals : Track(s, i) \/ ChangeInterval(s, i)
    \/ \E s \in Searches : Untrack(s) \/ BecomeDue(s)
    \/ \E b \in BOOLEAN : SetLink(b)

TickStep(w) ==
    \/ EndTick(w)
    \/ \E s \in Searches : Take(w, s)
    \/ \E v \in Providers : ScrapeFails(w, v) \/ ScrapeOk(w, v)
    \/ EndScrape(w)
    \/ \E p \in Props : Upsert(w, p)
    \/ ReadSeen(w)
    \/ \E p \in Props : Notify(w, p)
    \/ Commit(w)

Next ==
    \/ User
    \/ \E w \in Ticks : StartTick(w) \/ TickStep(w) \/ Fault(w) \/ DeadlockVictim(w)

Spec == Init /\ [][Next]_vars

\* A cron job runs every five minutes, and its steps do not stop unless the
\* tick dies.  A provider does not refuse a search for ever.  PostgreSQL grants
\* a row lock in the order of arrival.  Users owe nothing; time passes.
FairSpec ==
    /\ Spec
    /\ \A w \in Ticks :
         /\ WF_vars(StartTick(w))
         /\ WF_vars(TickStep(w))
         /\ \A p \in Props : SF_vars(Upsert(w, p))
         /\ \A s \in Searches : SF_vars(Take(w, s))
         /\ \A s \in Searches, v \in Providers : SF_vars(cur[w] = s /\ ScrapeOk(w, v))

-----------------------------------------------------------------------------
(***************************************************************************)
(* Properties.                                                             *)
(***************************************************************************)

\* The history of a listing is a chain: it begins with the new listing, and
\* each price drop states as the old price the price of the entry before it,
\* and a lower one as the new price.  Two ticks at work on the same search, or
\* a tick that died, leave no second entry for the same change.
HistoryChain ==
    \A s \in Searches, p \in Props :
        LET h == log[s][p] IN
        \A k \in 1..Len(h) :
            /\ k = 1 => h[k].before = NoPrice
            /\ k > 1 => h[k].before = h[k - 1].after /\ h[k].after < h[k].before

\* The baseline of the next comparison is the price of the last entry: no drop
\* can be missed because a minimum was stored that nobody was told of.
BaselineIsLastEntry ==
    \A s \in Searches, p \in Props :
        LET h == log[s][p] IN
        seen[s][p] = IF h = <<>> THEN NoPrice ELSE h[Len(h)].after

\* A tick that compares prices holds the rows of its listings, and what it read
\* of the baseline is still what is stored.
BaselineIsStable ==
    \A w \in Ticks : pc[w] = "notify" =>
        \A p \in Found(w) : lock[p] = w /\ base[w][p] = seen[cur[w]][p]

\* The user is never told the same price of a listing again, nor a higher one.
NoRepeatedAlert ==
    \A s \in Searches, p \in Props :
        \A j, k \in 1..Len(told[s][p]) : j < k => told[s][p][k] < told[s][p][j]

\* If ticks die, an alert may be repeated, since its message is sent before the
\* commit; but the descent of the prices that the user was told starts over at
\* most once for each death, also if several ticks are at work.
Restarts(prices) == {k \in 2..Len(prices) : prices[k] >= prices[k - 1]}

AlertsRestartOnlyAfterDeath ==
    \A s \in Searches, p \in Props : Cardinality(Restarts(told[s][p])) <= faults

\* Whatever the user was told by Telegram is in the history once no tick is at
\* work (spec.md FR-011, SC-005).
Quiet == \A w \in Ticks : pc[w] = "idle"

ToldIsInHistory ==
    Quiet => \A s \in Searches, p \in Props :
        \A k \in 1..Len(told[s][p]) :
            \E j \in 1..Len(log[s][p]) : log[s][p][j].after = told[s][p][k]

\* An entry marked as sent was received.
SentIsTold ==
    \A s \in Searches, p \in Props :
        \A j \in 1..Len(log[s][p]) : log[s][p][j].status = "sent" =>
            \E k \in 1..Len(told[s][p]) : told[s][p][k] = log[s][p][j].after

\* A tick processes the searches it loaded even if the user withdraws one in the
\* meantime.  But once no tick is at work on it, a withdrawn search is silent: no
\* message, no entry and no new baseline, and no tick takes it up again.
AtWork(w, s) == s \in queue[w] \/ (pc[w] \in {"scrape", "upsert", "notify"} /\ cur[w] = s)

Abandoned(s) == tracked[s] = "inactive" /\ \A w \in Ticks : ~AtWork(w, s)

WithdrawnFallsSilent ==
    [][\A s \in Searches : Abandoned(s) =>
         /\ told'[s] = told[s] /\ log'[s] = log[s] /\ seen'[s] = seen[s]
         /\ \A w \in Ticks : ~AtWork(w, s)']_vars

\* The worker implements the promise of PriceWatch: a whole cycle, with its
\* scrapes, locks and messages, is one atomic observation.
PW == INSTANCE PriceWatch
        WITH Watches <- Searches, Items <- Props, AlertOnFirst <- TRUE,
             best <- seen, history <- log

ImplementsPriceWatch == PW!WatchSpec

\* Every active search that is due is processed, unless the user withdraws it.
DueIsServed ==
    \A s \in Searches :
        tracked[s] = "active" /\ due[s] ~> ~due[s] \/ tracked[s] # "active"
=============================================================================
