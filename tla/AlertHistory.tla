----------------------------- MODULE AlertHistory -----------------------------
(***************************************************************************)
(* Reading the notification history.  The workers write alerts of a user   *)
(* to notification_logs; NotificationHistoryPage shows them page by page.  *)
(* sent_at is filled by the server default now(), which in PostgreSQL is   *)
(* the time at which the transaction began: all alerts of one transaction  *)
(* have the same sent_at, and a transaction that began earlier may commit  *)
(* later.  A page is read by two statements, each with its own snapshot: a *)
(* count, from which the number of pages is computed, and a select ordered *)
(* by sent_at alone (repositories/notification_repository.py), so the      *)
(* order of alerts with the same sent_at is open and may change from one   *)
(* query to the next.                                                      *)
(*                                                                         *)
(* Rows are never deleted or changed.  A page that react-query still holds *)
(* (for 30 s) is shown again without a query; it has been seen already, so *)
(* this is left out.  The API sends prices as strings, since pydantic      *)
(* writes a Decimal so, and the page throws when it formats one; the model *)
(* takes them for the numbers that types/api.ts declares, or the reader    *)
(* would not get past the first alert.                                     *)
(***************************************************************************)
EXTENDS Integers, FiniteSets

CONSTANTS
    Alerts,             \* the rows that may come to be
    Types,              \* new_listing, price_drop
    TypeOf,             \* [Alerts -> Types]
    All,                \* no filter
    Ticks,              \* transactions of the workers at the same time
    MaxClock,           \* bound: transactions that begin
    Size                \* rows of a page

ASSUME AlertsAreFinite == IsFiniteSet(Alerts)
ASSUME TypeOfType == TypeOf \in [Alerts -> Types] /\ All \notin Types
ASSUME BoundsAreNatural == MaxClock \in Nat /\ Size \in Nat \ {0}

VARIABLES
    \* the workers
    clock,              \* transactions begun
    began,              \* when the transaction of a tick began; 0: none
    drafts,             \* its flushed rows
    sentAt,             \* sent_at of a row, 0 if it was not written
    committed,          \* the rows that others see
    \* the page and its request
    phase,
    typeFilter,
    page,
    total,              \* what the count returned
    items,              \* the rows of the page
    \* ghosts, of the walk through the pages since it was opened or filtered
    present,            \* the rows there were at its beginning
    seen,               \* the rows it showed
    furthest,           \* the last page it reached
    raced               \* the count shown is older than the rows beside it

workers == <<clock, began, drafts, sentAt, committed>>
walk    == <<present, seen, furthest, raced>>
vars    == <<clock, began, drafts, sentAt, committed, phase, typeFilter, page, total, items,
             present, seen, furthest, raced>>

TypeOK ==
    /\ clock      \in 0..MaxClock
    /\ began      \in [Ticks -> 0..MaxClock]
    /\ drafts     \in [Ticks -> SUBSET Alerts]
    /\ sentAt     \in [Alerts -> 0..MaxClock]
    /\ committed  \subseteq Alerts
    /\ phase      \in {"closed", "counting", "selecting", "shown", "error"}
    /\ typeFilter \in Types \cup {All}
    /\ page       \in Nat \ {0}
    /\ total      \in 0..Cardinality(Alerts)
    /\ items      \subseteq Alerts
    /\ present    \subseteq Alerts
    /\ seen       \subseteq Alerts
    /\ furthest   \in Nat
    /\ raced      \in BOOLEAN

\* The WHERE clause.
Matches(f) == {a \in committed : f = All \/ TypeOf[a] = f}
Matching   == Matches(typeFilter)

Init ==
    /\ clock      = 0
    /\ began      = [w \in Ticks |-> 0]
    /\ drafts     = [w \in Ticks |-> {}]
    /\ sentAt     = [a \in Alerts |-> 0]
    /\ committed  = {}
    /\ phase      = "closed"
    /\ typeFilter = All
    /\ page       = 1
    /\ total      = 0
    /\ items      = {}
    /\ present    = {}
    /\ seen       = {}
    /\ furthest   = 0
    /\ raced      = FALSE

-----------------------------------------------------------------------------
(***************************************************************************)
(* The workers.                                                            *)
(***************************************************************************)

Begin(w) ==
    /\ began[w] = 0
    /\ clock < MaxClock
    /\ clock' = clock + 1
    /\ began' = [began EXCEPT ![w] = clock + 1]
    /\ UNCHANGED <<drafts, sentAt, committed, phase, typeFilter, page, total, items, walk>>

Written == committed \cup UNION {drafts[w] : w \in Ticks}

\* The flush of create_notification_log.
Write(w, a) ==
    /\ began[w] # 0
    /\ a \notin Written
    /\ drafts' = [drafts EXCEPT ![w] = @ \cup {a}]
    /\ sentAt' = [sentAt EXCEPT ![a] = began[w]]
    /\ UNCHANGED <<clock, began, committed, phase, typeFilter, page, total, items, walk>>

End(w) ==
    /\ began[w] # 0
    /\ began'  = [began EXCEPT ![w] = 0]
    /\ drafts' = [drafts EXCEPT ![w] = {}]
    /\ UNCHANGED <<clock, phase, typeFilter, page, total, items, walk>>

Commit(w) ==
    /\ End(w)
    /\ committed' = committed \cup drafts[w]
    /\ UNCHANGED sentAt

\* The tick dies, or is the victim of a deadlock.
RollBack(w) ==
    /\ End(w)
    /\ sentAt' = [a \in Alerts |-> IF a \in drafts[w] THEN 0 ELSE sentAt[a]]
    /\ UNCHANGED committed

-----------------------------------------------------------------------------
(***************************************************************************)
(* The reader.                                                             *)
(***************************************************************************)

FirstPageZero == 0                                      \* mutants of FirstPage
PageKept      == page

FirstPage == 1

\* Query parameters change: a walk through the pages begins.
Begins(f) ==
    /\ typeFilter' = f
    /\ page'       = FirstPage
    /\ phase'      = "counting"
    /\ items'      = {}
    /\ present'    = Matches(f)
    /\ seen'       = {}
    /\ furthest'   = 0
    /\ raced'      = FALSE
    /\ UNCHANGED <<workers, total>>

Open == phase = "closed" /\ Begins(All)

ChangeFilter(f) == phase # "closed" /\ f # typeFilter /\ Begins(f)

\* max(1, (total + size - 1) // size)
Pages == IF total = 0 THEN 1 ELSE (total + Size - 1) \div Size

\* The first statement of get_notifications_page.
Count ==
    /\ phase = "counting"
    /\ total' = Cardinality(Matching)
    /\ phase' = "selecting"
    /\ UNCHANGED <<workers, typeFilter, page, items, walk>>

\* The first n rows of M ordered by sent_at DESC, whatever PostgreSQL makes of
\* rows with the same sent_at.
First(M, n) ==
    {S \in SUBSET M :
        /\ Cardinality(S) = IF n < Cardinality(M) THEN n ELSE Cardinality(M)
        /\ \A a \in S, b \in M \ S : sentAt[a] >= sentAt[b]}

NextOffset == page * Size                               \* mutant of Offset

Offset == (page - 1) * Size

\* The second statement, with what was committed meanwhile.
Select ==
    /\ phase = "selecting"
    /\ \E skipped \in First(Matching, Offset), read \in First(Matching, Offset + Size) :
         /\ skipped \subseteq read
         /\ items' = read \ skipped
    /\ phase'    = "shown"
    /\ seen'     = seen \cup items'
    /\ furthest' = IF furthest < page THEN page ELSE furthest
    /\ raced'    = (total # Cardinality(Matching))
    /\ UNCHANGED <<workers, typeFilter, page, total, present>>

\* The request fails: an error is shown, without buttons.
Fail ==
    /\ phase \in {"counting", "selecting"}
    /\ phase' = "error"
    /\ UNCHANGED <<workers, typeFilter, page, total, items, walk>>

\* The query is refetched, as when the window has the focus again.
Refetch ==
    /\ phase \in {"shown", "error"}
    /\ phase' = "counting"
    /\ UNCHANGED <<workers, typeFilter, page, total, items, walk>>

\* The buttons are there if a list of more than one page is shown.
Buttons == phase = "shown" /\ items # {} /\ Pages > 1

GoTo(p) ==
    /\ page'  = p
    /\ phase' = "counting"
    /\ UNCHANGED <<workers, typeFilter, total, items, walk>>

NextPage == Buttons /\ page # Pages /\ GoTo(IF page < Pages THEN page + 1 ELSE Pages)

PreviousPage == Buttons /\ page # 1 /\ GoTo(page - 1)

-----------------------------------------------------------------------------

Worker(w) == Begin(w) \/ Commit(w) \/ RollBack(w) \/ \E a \in Alerts : Write(w, a)

Reader ==
    \/ Open
    \/ \E f \in Types \cup {All} : ChangeFilter(f)
    \/ Count
    \/ Select
    \/ Fail
    \/ Refetch
    \/ NextPage
    \/ PreviousPage

Next == Reader \/ \E w \in Ticks : Worker(w)

Spec == Init /\ [][Next]_vars

-----------------------------------------------------------------------------
(***************************************************************************)
(* Properties.                                                             *)
(***************************************************************************)

AtTheEnd == phase = "shown" /\ page = Pages

\* FR-011 wants every alert shown.  A reader who goes through the pages to the
\* last one has seen each alert that was there when he began, however many were
\* committed meanwhile and with whatever sent_at: an alert that is skipped has the
\* sent_at of one that was seen (both come from one transaction), or alerts
\* were committed between the count and the select of the last page.
OnlyTiesAreSkipped ==
    AtTheEnd /\ ~raced =>
        \A a \in present \ seen : \E b \in seen : sentAt[b] = sentAt[a]

\* An empty list is shown without buttons, so it must not be shown on a page that
\* one could want to go back from.
NobodyIsStranded == phase = "shown" /\ items = {} => page = 1
=============================================================================
