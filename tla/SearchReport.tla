---------------------------- MODULE SearchReport -----------------------------
(***************************************************************************)
(* What a one-time search promises, without scrapers, commits or locks.    *)
(* Its row says pending, then running, until one atomic step publishes the *)
(* report: the listings, a verdict on each provider that was asked, the    *)
(* number of listings and the status.  A report is never changed, and a    *)
(* search that has none shows no listings.                                 *)
(*                                                                         *)
(* The report may be silent about listings of a provider that was asked    *)
(* more than once, but of no others, and it does not invent any.           *)
(***************************************************************************)
EXTENDS Naturals, FiniteSets, Sequences, Functions

CONSTANTS
    Searches,
    Cards,              \* what a provider may list
    Providers,
    Asks,               \* the lists of providers that may be asked for
    Outcomes,           \* "none", or the verdict on a provider that is asked
    NoCount

VARIABLES asks, stage, total, verdicts, listings

reportVars == <<asks, stage, total, verdicts, listings>>

\* All providers had listings, some had, or none.
Verdict(asked, complete) ==
    IF complete = asked THEN "complete" ELSE IF complete # {} THEN "partial" ELSE "failed"

ReportInit ==
    /\ asks     = [s \in Searches |-> <<>>]
    /\ stage    = [s \in Searches |-> "absent"]
    /\ total    = [s \in Searches |-> NoCount]
    /\ verdicts = [s \in Searches |-> [v \in Providers |-> "none"]]
    /\ listings = [s \in Searches |-> {}]

Move(s, from, to) ==
    /\ stage[s] = from
    /\ stage' = [stage EXCEPT ![s] = to]

Accept(s, list) ==
    /\ Move(s, "absent", "pending")
    /\ asks' = [asks EXCEPT ![s] = list]
    /\ UNCHANGED <<total, verdicts, listings>>

Begin(s) == Move(s, "pending", "running") /\ UNCHANGED <<asks, total, verdicts, listings>>

\* A listing is found for an entry of the list.
Findable(s) == (DOMAIN asks[s]) \X Cards

ProvidersOf(s, found) == {asks[s][r[1]] : r \in found}

\* The report tells of some of the listings that were found.  It leaves out
\* another only if its provider was asked twice.
Told(s, found, told) ==
    \A r \in found \ told :
        \E k \in DOMAIN asks[s] : k # r[1] /\ asks[s][k] = asks[s][r[1]]

AskedIn(fate)    == {v \in Providers : fate[v] # "none"}
CompleteIn(fate) == {v \in Providers : fate[v] = "complete"}

\* The number of listings and the complete providers are those of what is told.
SumsUp(s, fate, told) ==
    /\ CompleteIn(fate) = ProvidersOf(s, told)
    /\ total' = [total EXCEPT ![s] = Cardinality(told)]

Says(s, verdict, fate, found) ==
    /\ AskedIn(fate) = Range(asks[s])
    /\ verdict = Verdict(AskedIn(fate), CompleteIn(fate))
    /\ verdicts' = [verdicts EXCEPT ![s] = fate]
    /\ listings' = [listings EXCEPT ![s] = found]
    /\ \E told \in SUBSET found : Told(s, found, told) /\ SumsUp(s, fate, told)

Publish(s, verdict) ==
    /\ Move(s, "running", verdict)
    /\ \E fate \in [Providers -> Outcomes], found \in SUBSET Findable(s) :
         Says(s, verdict, fate, found)
    /\ UNCHANGED asks

ReportNext ==
    \E s \in Searches :
        \/ \E list \in Asks : Accept(s, list)
        \/ Begin(s)
        \/ \E verdict \in {"complete", "partial", "failed"} : Publish(s, verdict)

ReportSpec == ReportInit /\ [][ReportNext]_reportVars
=============================================================================
