------------------------------ MODULE SearchRun ------------------------------
(***************************************************************************)
(* A one-time search: run_search of services/search_service.py, which the  *)
(* request POST /search awaits to its end, and the status that the         *)
(* frontend polls.                                                         *)
(*                                                                         *)
(* The request commits four times: the search as pending, as running, the  *)
(* listings of all providers, the final status.  What is flushed in        *)
(* between is lost when it fails, what was committed before stays, and     *)
(* nobody takes the search up again.  Upserts lock the properties until    *)
(* the listings are committed, so requests wait for each other there.      *)
(*                                                                         *)
(* The caller sends a list of providers, in any order and with any of them *)
(* more than once: each entry is scraped and stored for itself, but the    *)
(* report has one place for each provider, and the last entry takes it.  A *)
(* page may list a property more than once; the order of its listings is   *)
(* left open.                                                              *)
(***************************************************************************)
EXTENDS Naturals, FiniteSets, Sequences, Functions

CONSTANTS
    Searches,           \* each is run by the request that creates it
    Props,              \* rows of properties
    Cards,              \* what a page may list
    PropOf,             \* [Cards -> Props]
    Providers,
    ProviderOf,         \* [Props -> Providers]
    Asks,               \* the lists of providers that callers send
    MaxFaults,          \* bound: requests that fail in the middle
    NoCount,
    NoSearch

ASSUME ProviderOfType == ProviderOf \in [Props -> Providers]
ASSUME PropOfType == PropOf \in [Cards -> Props]
ASSUME CardsFinite == IsFiniteSet(Cards)
ASSUME AsksAreLists == Asks \subseteq Seq(Providers)
ASSUME NoCountIsNoNumber == NoCount \notin Nat
ASSUME NoSearchIsNoSearch == NoSearch \notin Searches
ASSUME MaxFaultsIsNatural == MaxFaults \in Nat

VARIABLES
    \* committed in PostgreSQL
    status,             \* searches.status, "absent" before the row exists
    count,              \* result_count
    provided,           \* provider_statuses: [Providers -> what became of each]
    results,            \* search_results: rows <<entry of the list, card>>
    wanted,             \* searches.providers, the list of the caller
    \* PostgreSQL's row locks on properties
    lock,
    \* local to a request
    pc,
    outcome,            \* scrape_results, by entry of the list
    page,               \* the listings of those that are OK
    polled,             \* the final status the frontend read, "absent" before
    reply,              \* the answer to POST /search
    faults

dbVars    == <<status, count, provided, results, wanted>>
localVars == <<outcome, page>>
vars      == <<status, count, provided, results, wanted, lock, pc, outcome, page,
               polled, reply, faults>>

Final     == {"complete", "partial", "failed"}
Statuses  == {"absent", "pending", "running"} \cup Final
Outcomes  == {"none", "complete", "blocked", "failed"}
Unasked   == [v \in Providers |-> "none"]
Labels    == {"idle", "start", "scrape", "write", "finish"}

TypeOK ==
    /\ status   \in [Searches -> Statuses]
    /\ count    \in [Searches -> Nat \cup {NoCount}]
    /\ provided \in [Searches -> [Providers -> Outcomes]]
    /\ results  \in [Searches -> SUBSET (Nat \X Cards)]
    /\ wanted   \in [Searches -> Seq(Providers)]
    /\ lock     \in [Props -> Searches \cup {NoSearch}]
    /\ pc       \in [Searches -> Labels]
    /\ outcome  \in [Searches -> Seq(Outcomes)]
    /\ page     \in [Searches -> Seq(SUBSET Cards)]
    /\ polled   \in [Searches -> Statuses]
    /\ reply    \in [Searches -> Final \cup {"none", "error"}]
    /\ faults   \in 0..MaxFaults

-----------------------------------------------------------------------------

Init ==
    /\ status   = [s \in Searches |-> "absent"]
    /\ count    = [s \in Searches |-> NoCount]
    /\ provided = [s \in Searches |-> Unasked]
    /\ results  = [s \in Searches |-> {}]
    /\ wanted   = [s \in Searches |-> <<>>]
    /\ lock     = [p \in Props |-> NoSearch]
    /\ pc       = [s \in Searches |-> "idle"]
    /\ outcome  = [s \in Searches |-> <<>>]
    /\ page     = [s \in Searches |-> <<>>]
    /\ polled   = [s \in Searches |-> "absent"]
    /\ reply    = [s \in Searches |-> "none"]
    /\ faults   = 0

\* What a provider has on offer for a search.
Offered(v) == {c \in Cards : ProviderOf[PropOf[c]] = v}

Goto(s, label) == pc' = [pc EXCEPT ![s] = label]

\* The entries of a list before anything is known of them.
Unanswered(list) == [k \in DOMAIN list |-> "none"]
NoPages(list)    == [k \in DOMAIN list |-> {}]

\* create_search, committed.  The schema accepts the empty list, too.
Create(s) ==
    /\ status[s] = "absent"
    /\ status' = [status EXCEPT ![s] = "pending"]
    /\ \E list \in Asks :
         /\ wanted'  = [wanted EXCEPT ![s] = list]
         /\ outcome' = [outcome EXCEPT ![s] = Unanswered(list)]
         /\ page'    = [page EXCEPT ![s] = NoPages(list)]
    /\ Goto(s, "start")
    /\ UNCHANGED <<count, provided, results, lock, polled, reply, faults>>

Start(s) ==
    /\ pc[s] = "start"
    /\ status' = [status EXCEPT ![s] = "running"]
    /\ Goto(s, "scrape")
    /\ UNCHANGED <<count, provided, results, wanted, lock, localVars, polled, reply, faults>>

\* The scrapes of all entries answer in any order: an exception, a status that
\* is not OK (one stands for all of them), or a page with at least one listing.
Answers(s, k, o, found) ==
    /\ pc[s] = "scrape"
    /\ outcome[s][k] = "none"
    /\ outcome' = [outcome EXCEPT ![s][k] = o]
    /\ page'    = [page EXCEPT ![s][k] = found]
    /\ UNCHANGED <<dbVars, lock, pc, polled, reply, faults>>

ScrapeFails(s, k) == \E o \in {"failed", "blocked"} : Answers(s, k, o, {})
ScrapeOk(s, k) ==
    \E found \in (SUBSET Offered(wanted[s][k])) \ {{}} : Answers(s, k, "complete", found)

\* The dictionary provider_results is filled in the order of the list: a later
\* entry of the same provider replaces the earlier one.
LatestIn(list) == {k \in DOMAIN list : \A j \in DOMAIN list : j > k => list[j] # list[k]}
Latest(s) == LatestIn(wanted[s])

\* provider_results, without the number of listings of each.
ProviderResults(s) ==
    [v \in Providers |->
        IF v \notin Range(wanted[s]) THEN "none"
        ELSE outcome[s][CHOOSE k \in Latest(s) : wanted[s][k] = v]]

\* Mutant of Rows: add_results is called once, after the loop.
RowsOfLast(s) == {r \in {Len(wanted[s])} \X Cards : wanted[s] # <<>> /\ r[2] \in page[s][r[1]]}

\* A row of search_results for each listing of each entry.
Rows(s) == {r \in (DOMAIN wanted[s]) \X Cards : r[2] \in page[s][r[1]]}

\* The sum of the numbers in provider_results.
Total(s) == Cardinality({r \in Rows(s) : r[1] \in Latest(s)})

Reported(s) == {outcome[s][k] : k \in Latest(s)}

\* Mutant of FinalStatus: the status of a provider is taken over.
FinalOfSome(s) == IF Reported(s) = {} THEN "complete" ELSE CHOOSE o \in Reported(s) : TRUE

\* all(...) of no provider at all is true.
FinalStatus(s) ==
    IF Reported(s) \subseteq {"complete"} THEN "complete"
    ELSE IF "complete" \in Reported(s) THEN "partial"
    ELSE "failed"

\* The request is over: its session is closed.
Answer(s, r) ==
    /\ reply'   = [reply EXCEPT ![s] = r]
    /\ outcome' = [outcome EXCEPT ![s] = Unanswered(wanted[s])]
    /\ page'    = [page EXCEPT ![s] = NoPages(wanted[s])]
    /\ Goto(s, "idle")

AllAnswered(s) == \A k \in DOMAIN wanted[s] : outcome[s][k] # "none"

\* Mutants of Gather: the final status is written before the listings, or the
\* request returns early when no provider is OK.
GatherReports(s) ==
    /\ pc[s] = "scrape"
    /\ AllAnswered(s)
    /\ status' = [status EXCEPT ![s] = FinalStatus(s)]
    /\ Goto(s, "write")
    /\ UNCHANGED <<count, provided, results, wanted, lock, localVars, polled, reply, faults>>
GatherOrReturn(s) ==
    /\ pc[s] = "scrape"
    /\ AllAnswered(s)
    /\ IF FinalStatus(s) = "failed" THEN Answer(s, "failed")
       ELSE Goto(s, "write") /\ UNCHANGED <<localVars, reply>>
    /\ UNCHANGED <<dbVars, lock, polled, faults>>

\* asyncio.gather returns when all have answered.
Gather(s) ==
    /\ pc[s] = "scrape"
    /\ AllAnswered(s)
    /\ Goto(s, "write")
    /\ UNCHANGED <<dbVars, lock, localVars, polled, reply, faults>>

Written(s) == {p \in Props : lock[p] = s}

\* The properties that an entry's page lists.
Listed(s, k) == {PropOf[c] : c \in page[s][k]}

\* One entry after the other.
InTurn(s, p) ==
    \E k \in DOMAIN wanted[s] :
        /\ p \in Listed(s, k)
        /\ \A j \in 1..(k - 1) : Listed(s, j) \subseteq Written(s)

\* upsert_property waits for the row and keeps it; once more changes nothing.
Upsert(s, p) ==
    /\ pc[s] = "write"
    /\ InTurn(s, p)
    /\ lock[p] = NoSearch
    /\ lock' = [lock EXCEPT ![p] = s]
    /\ UNCHANGED <<dbVars, pc, localVars, polled, reply, faults>>

Release(s) == lock' = [p \in Props |-> IF lock[p] = s THEN NoSearch ELSE lock[p]]

\* The commit after the last add_results.
CommitResults(s) ==
    /\ pc[s] = "write"
    /\ \A k \in DOMAIN wanted[s] : Listed(s, k) \subseteq Written(s)
    /\ results' = [results EXCEPT ![s] = Rows(s)]
    /\ Release(s)
    /\ Goto(s, "finish")
    /\ UNCHANGED <<status, count, provided, wanted, localVars, polled, reply, faults>>

\* The last update_status and its commit.
Finish(s) ==
    /\ pc[s] = "finish"
    /\ status'   = [status EXCEPT ![s] = FinalStatus(s)]
    /\ count'    = [count EXCEPT ![s] = Total(s)]
    /\ provided' = [provided EXCEPT ![s] = ProviderResults(s)]
    /\ Answer(s, FinalStatus(s))
    /\ UNCHANGED <<results, wanted, lock, polled, faults>>

\* What was not committed is rolled back.
Die(s) ==
    /\ Release(s)
    /\ Answer(s, "error")
    /\ UNCHANGED <<dbVars, polled>>

\* A database error, or the backend is restarted.
Fault(s) ==
    /\ pc[s] # "idle"
    /\ faults < MaxFaults
    /\ faults' = faults + 1
    /\ Die(s)

\* PostgreSQL breaks a circle of transactions that wait for each other.
Waits(s, r) == pc[s] = "write" /\ r # s /\ \E p \in Props : InTurn(s, p) /\ lock[p] = r

DeadlockVictim(s) ==
    /\ \E C \in SUBSET Searches : s \in C /\ \A x \in C : \E y \in C : Waits(x, y)
    /\ Die(s)
    /\ UNCHANGED faults

-----------------------------------------------------------------------------
(***************************************************************************)
(* The frontend.  The progress page polls until it reads complete or       *)
(* failed, and leaves for the results on complete or partial.  What it     *)
(* reads before leaves it where it is.                                     *)
(***************************************************************************)

Poll(s) ==
    /\ status[s] \in Final
    /\ polled[s] \notin {"complete", "failed"}
    /\ polled' = [polled EXCEPT ![s] = status[s]]
    /\ UNCHANGED <<dbVars, lock, pc, localVars, reply, faults>>

-----------------------------------------------------------------------------

Step(s) ==
    \/ Start(s)
    \/ \E k \in DOMAIN wanted[s] : ScrapeFails(s, k) \/ ScrapeOk(s, k)
    \/ Gather(s)
    \/ \E p \in Props : Upsert(s, p)
    \/ CommitResults(s)
    \/ Finish(s)

Next ==
    \E s \in Searches :
        Create(s) \/ Step(s) \/ Fault(s) \/ DeadlockVictim(s) \/ Poll(s)

Spec == Init /\ [][Next]_vars

\* A request runs on, and its scrapes have time-outs of their own; PostgreSQL
\* finds the deadlocks.  Every search is run once, so a lock is not taken away
\* for ever and weak fairness is enough.  Nobody has to search or to poll.
FairSpec ==
    /\ Spec
    /\ \A s \in Searches : WF_vars(Step(s))
    /\ WF_vars(\E s \in Searches : DeadlockVictim(s))

-----------------------------------------------------------------------------
(***************************************************************************)
(* Properties.                                                             *)
(***************************************************************************)

AskedTwice(s, v) ==
    \E j, k \in DOMAIN wanted[s] : j # k /\ wanted[s][j] = v /\ wanted[s][k] = v

\* What the report of a search says agrees with the listings that are stored,
\* although they were committed by another transaction.  Every provider that was
\* asked has a verdict, and the status is that of the verdicts.  Nothing is
\* claimed that is not stored: a complete provider has listings, and no more are
\* counted than there are.  And the report is exact unless the caller named a
\* provider twice: only such a one may have listings without being complete, and
\* without one all listings are counted.
ReportIsTrue ==
    \A s \in Searches : status[s] \in Final =>
        LET asked    == {v \in Providers : provided[s][v] # "none"}
            complete == {v \in Providers : provided[s][v] = "complete"}
            stored   == {ProviderOf[PropOf[r[2]]] : r \in results[s]}
        IN  /\ asked = Range(wanted[s])
            /\ status[s] = "complete" <=> complete = asked
            /\ status[s] = "failed" <=> complete = {} /\ asked # {}
            /\ complete \subseteq stored
            /\ \A v \in stored \ complete : AskedTwice(s, v)
            /\ count[s] <= Cardinality(results[s])
            /\ count[s] = Cardinality(results[s]) \/ \E v \in Providers : AskedTwice(s, v)

\* The frontend leaves for the results once, when it reads complete or partial:
\* from then on there is nothing it could miss.
PolledResultsAreFinal ==
    [][\A s \in Searches : polled[s] \in {"complete", "partial"} =>
         results'[s] = results[s] /\ status'[s] = status[s]]_vars

\* The search keeps the promise of SearchReport: for a reader who waits for the
\* final status, as the frontend does, its four commits are one.
SR == INSTANCE SearchReport
        WITH asks <- wanted, stage <- status, total <- count, verdicts <- provided,
             listings <- [s \in Searches |-> IF status[s] \in Final THEN results[s] ELSE {}]

ImplementsSearchReport == SR!ReportSpec

\* A search ends with a final status, or the user is told of an error; searches
\* that want the same properties do not wait for each other for ever.
EndsOrErrs ==
    \A s \in Searches :
        status[s] \in {"pending", "running"} ~> status[s] \in Final \/ reply[s] = "error"
=============================================================================
