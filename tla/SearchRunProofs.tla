---------------------------- MODULE SearchRunProofs ----------------------------
(***************************************************************************)
(* Proofs about SearchRun, for any searches, properties, providers, lists  *)
(* of providers and numbers of requests that fail.  The invariant RunOk    *)
(* follows one search from its request to its report; as the other         *)
(* requests leave its row and its local state alone, it is shown for the   *)
(* search that moves.                                                      *)
(***************************************************************************)
EXTENDS SearchRun, FiniteSetTheorems, SequenceTheorems, WellFoundedInduction, TLAPS

\* The parts of TypeOK.
StoreTypes ==
    /\ status   \in [Searches -> Statuses]
    /\ count    \in [Searches -> Nat \cup {NoCount}]
    /\ provided \in [Searches -> [Providers -> Outcomes]]
    /\ results  \in [Searches -> SUBSET (Nat \X Cards)]
    /\ wanted   \in [Searches -> Seq(Providers)]

LocalTypes ==
    /\ pc       \in [Searches -> Labels]
    /\ outcome  \in [Searches -> Seq(Outcomes)]
    /\ page     \in [Searches -> Seq(SUBSET Cards)]

OtherTypes ==
    /\ lock     \in [Props -> Searches \cup {NoSearch}]
    /\ polled   \in [Searches -> Statuses]
    /\ reply    \in [Searches -> Final \cup {"none", "error"}]
    /\ faults   \in 0..MaxFaults

Types == StoreTypes /\ LocalTypes /\ OtherTypes

\* The status of a request that is under way.
StatusFits(s) ==
    /\ pc[s] = "start" => status[s] = "pending"
    /\ pc[s] \in {"scrape", "write", "finish"} => status[s] = "running"

\* Each entry of the list has an outcome and a page; the page has listings of its
\* provider if it is complete, and none otherwise.
EntriesFit(s) ==
    /\ DOMAIN outcome[s] = DOMAIN wanted[s]
    /\ DOMAIN page[s] = DOMAIN wanted[s]
    /\ \A k \in DOMAIN wanted[s] :
         /\ outcome[s][k] = "complete" <=> page[s][k] # {}
         /\ page[s][k] \subseteq Offered(wanted[s][k])

\* The listings are written when all entries have an outcome, and the report is
\* written when the listings are stored.
StageFits(s) ==
    /\ pc[s] \in {"write", "finish"} => AllAnswered(s)
    /\ pc[s] = "finish" => results[s] = Rows(s)

\* What ReportIsTrue says of one search.
Complete(s) == {v \in Providers : provided[s][v] = "complete"}
Asked(s)    == {v \in Providers : provided[s][v] # "none"}
Stored(s)   == {ProviderOf[PropOf[r[2]]] : r \in results[s]}

Reports(s) ==
    status[s] \in Final =>
        /\ Asked(s) = Range(wanted[s])
        /\ status[s] = "complete" <=> Complete(s) = Asked(s)
        /\ status[s] = "failed" <=> Complete(s) = {} /\ Asked(s) # {}
        /\ Complete(s) \subseteq Stored(s)
        /\ \A v \in Stored(s) \ Complete(s) : AskedTwice(s, v)
        /\ count[s] <= Cardinality(results[s])
        /\ count[s] = Cardinality(results[s]) \/ \E v \in Providers : AskedTwice(s, v)

\* The frontend has read no final status but the one there is.
PolledFits(s) == polled[s] \in Final => status[s] = polled[s]

RunOk(s) == StatusFits(s) /\ EntriesFit(s) /\ StageFits(s) /\ Reports(s) /\ PolledFits(s)

IInv == Types /\ \A s \in Searches : RunOk(s)

-----------------------------------------------------------------------------
(***************************************************************************)
(* Lists of providers, and what the entries come to.                       *)
(***************************************************************************)

LEMMA ListDomain ==
    ASSUME NEW S, NEW list \in Seq(S)
    PROVE  Len(list) \in Nat /\ DOMAIN list = 1..Len(list) /\ DOMAIN list \subseteq Nat
BY LenProperties

\* An entry that is replaced keeps the list what it is.
LEMMA Replaced ==
    ASSUME NEW S, NEW list \in Seq(S), NEW k \in DOMAIN list, NEW e \in S
    PROVE  /\ [list EXCEPT ![k] = e] \in Seq(S)
           /\ DOMAIN [list EXCEPT ![k] = e] = DOMAIN list
BY ListDomain, ExceptSeq

LEMMA NothingKnown ==
    ASSUME NEW list \in Seq(Providers)
    PROVE  /\ Unanswered(list) \in Seq(Outcomes) /\ DOMAIN Unanswered(list) = DOMAIN list
           /\ NoPages(list) \in Seq(SUBSET Cards) /\ DOMAIN NoPages(list) = DOMAIN list
<1>1. Len(list) \in Nat /\ DOMAIN list = 1..Len(list)
  BY ListDomain
<1>2. /\ Unanswered(list) \in [1..Len(list) -> Outcomes]
      /\ NoPages(list) \in [1..Len(list) -> SUBSET Cards]
  BY <1>1 DEF Unanswered, NoPages, Outcomes
<1>3. QED BY <1>1, <1>2, SeqDef

\* Whatever is asked for has a last entry in the list.
LEMMA LatestExists ==
    ASSUME NEW list \in Seq(Providers), NEW v \in Range(list)
    PROVE  \E k \in LatestIn(list) : list[k] = v
<1> DEFINE n == Len(list)
           T == {i \in Nat : i < n /\ list[n - i] = v}
           less == OpToRel(<, Nat)
<1>1. n \in Nat /\ DOMAIN list = 1..n
  BY ListDomain
<1>2. T # {}
  <2>1. PICK k \in 1..n : list[k] = v
    BY <1>1 DEF Range
  <2>2. n - k \in Nat /\ n - k < n /\ n - (n - k) = k
    BY <1>1
  <2>3. QED BY <2>1, <2>2
<1>3. PICK i \in T : \A j \in T : <<j, i>> \notin less
  <2> HIDE DEF less, T
  <2>1. IsWellFoundedOn(less, Nat) /\ T \subseteq Nat
    BY NatLessThanWellFounded DEF less, T
  <2>2. QED BY <1>2, <2>1, WFMin
<1>4. \A j \in T : ~ (j < i)
  BY <1>3 DEF OpToRel
<1>5. n - i \in DOMAIN list /\ list[n - i] = v
  BY <1>1
<1>6. ASSUME NEW j \in DOMAIN list, j > n - i PROVE list[j] # list[n - i]
  <2>1. n - j \in Nat /\ n - j < n /\ n - j < i /\ n - (n - j) = j
    BY <1>1, <1>6
  <2>2. QED BY <1>4, <1>5, <2>1
<1>7. QED BY <1>5, <1>6 DEF LatestIn

\* An entry that is not the last of its provider is there twice.
LEMMA NotLatest ==
    ASSUME NEW s \in Searches, NEW k \in DOMAIN wanted[s], k \notin Latest(s),
           wanted[s] \in Seq(Providers)
    PROVE  AskedTwice(s, wanted[s][k])
<1>1. PICK j \in DOMAIN wanted[s] : j > k /\ wanted[s][j] = wanted[s][k]
  BY DEF Latest, LatestIn
<1>2. j # k
  BY <1>1, ListDomain
<1>3. QED BY <1>1, <1>2 DEF AskedTwice

\* provider_results has the outcome of the last entry of each provider.
LEMMA ResultsAreLatest ==
    ASSUME NEW s \in Searches, wanted[s] \in Seq(Providers)
    PROVE  \A k \in Latest(s) : ProviderResults(s)[wanted[s][k]] = outcome[s][k]
<1> SUFFICES ASSUME NEW k \in Latest(s)
             PROVE  ProviderResults(s)[wanted[s][k]] = outcome[s][k]
  OBVIOUS
<1> DEFINE v == wanted[s][k]
<1>1. k \in DOMAIN wanted[s] /\ DOMAIN wanted[s] \subseteq Nat
  BY ListDomain DEF Latest, LatestIn
<1>2. v \in Providers /\ v \in Range(wanted[s])
  BY <1>1, ListDomain, ElementOfSeq DEF Range
<1>3. \A j \in Latest(s) : wanted[s][j] = v => j = k
  BY <1>1 DEF Latest, LatestIn
<1>4. (CHOOSE j \in Latest(s) : wanted[s][j] = v) = k
  BY <1>3
<1>5. QED BY <1>2, <1>4 DEF ProviderResults

LEMMA ResultsType ==
    ASSUME Types, NEW s \in Searches, EntriesFit(s)
    PROVE  ProviderResults(s) \in [Providers -> Outcomes]
<1>1. wanted[s] \in Seq(Providers) /\ outcome[s] \in Seq(Outcomes)
  BY DEF Types, StoreTypes, LocalTypes
<1>2. \A k \in DOMAIN wanted[s] : outcome[s][k] \in Outcomes
  BY <1>1, ListDomain, ElementOfSeq DEF EntriesFit
<1>3. ASSUME NEW v \in Providers, v \in Range(wanted[s])
      PROVE  outcome[s][CHOOSE k \in Latest(s) : wanted[s][k] = v] \in Outcomes
  <2>1. \E k \in Latest(s) : wanted[s][k] = v
    BY <1>1, <1>3, LatestExists DEF Latest
  <2>2. QED BY <1>2, <2>1 DEF Latest, LatestIn
<1>4. QED BY <1>3 DEF ProviderResults, Outcomes

LEMMA RowsFinite ==
    ASSUME NEW s \in Searches, wanted[s] \in Seq(Providers)
    PROVE  IsFiniteSet(Rows(s)) /\ Rows(s) \in SUBSET (Nat \X Cards)
<1>1. Len(wanted[s]) \in Nat /\ DOMAIN wanted[s] = 1..Len(wanted[s])
  BY ListDomain
<1>2. IsFiniteSet((DOMAIN wanted[s]) \X Cards)
  <2>1. IsFiniteSet(DOMAIN wanted[s])
    BY <1>1, FS_Interval
  <2>2. QED BY <2>1, CardsFinite, FS_Product
<1>3. Rows(s) \in SUBSET ((DOMAIN wanted[s]) \X Cards)
  BY DEF Rows
<1>4. QED BY <1>1, <1>2, <1>3, FS_Subset

\* The listings that are counted are among the stored ones.
Counted(s) == {r \in Rows(s) : r[1] \in Latest(s)}

LEMMA TotalFits ==
    ASSUME NEW s \in Searches, wanted[s] \in Seq(Providers)
    PROVE  Total(s) \in Nat /\ Total(s) <= Cardinality(Rows(s))
<1>1. Counted(s) \in SUBSET Rows(s)
  BY DEF Counted
<1>2. Total(s) = Cardinality(Counted(s))
  BY DEF Total, Counted
<1>3. QED BY <1>1, <1>2, RowsFinite, FS_Subset, FS_CardinalityType

LEMMA FinalStatusType == ASSUME NEW s \in Searches PROVE FinalStatus(s) \in Final
BY DEF FinalStatus, Final

LEMMA TypesAreTypeOK == Types <=> TypeOK
BY DEF Types, TypeOK, StoreTypes, LocalTypes, OtherTypes

\* What a request reports at its end is true of what it has stored.
LEMMA TrueReport ==
    ASSUME Types, NEW s \in Searches, EntriesFit(s), AllAnswered(s)
    PROVE  LET asked    == {v \in Providers : ProviderResults(s)[v] # "none"}
               complete == {v \in Providers : ProviderResults(s)[v] = "complete"}
               stored   == {ProviderOf[PropOf[r[2]]] : r \in Rows(s)}
           IN  /\ asked = Range(wanted[s])
               /\ FinalStatus(s) = "complete" <=> complete = asked
               /\ FinalStatus(s) = "failed" <=> complete = {} /\ asked # {}
               /\ complete = {wanted[s][r[1]] : r \in Counted(s)}
               /\ complete \subseteq stored
               /\ \A v \in stored \ complete : AskedTwice(s, v)
<1> DEFINE asked    == {v \in Providers : ProviderResults(s)[v] # "none"}
           complete == {v \in Providers : ProviderResults(s)[v] = "complete"}
           stored   == {ProviderOf[PropOf[r[2]]] : r \in Rows(s)}
<1>1. wanted[s] \in Seq(Providers)
  BY DEF Types, StoreTypes
<1>2. \A k \in DOMAIN wanted[s] : wanted[s][k] \in Providers
  BY <1>1, ListDomain, ElementOfSeq
<1>3. Latest(s) \subseteq DOMAIN wanted[s]
  BY DEF Latest, LatestIn
<1>4. \A k \in Latest(s) : ProviderResults(s)[wanted[s][k]] = outcome[s][k]
  BY <1>1, ResultsAreLatest
<1>5. \A v \in Range(wanted[s]) : \E k \in Latest(s) : wanted[s][k] = v
  BY <1>1, LatestExists DEF Latest
<1>6. \A v \in Providers \ Range(wanted[s]) : ProviderResults(s)[v] = "none"
  BY DEF ProviderResults
<1>7. asked = Range(wanted[s])
  <2>1. \A v \in Range(wanted[s]) : v \in Providers
    BY <1>2 DEF Range
  <2>2. \A v \in Range(wanted[s]) : ProviderResults(s)[v] # "none"
    BY <1>3, <1>4, <1>5 DEF AllAnswered
  <2>3. QED BY <1>6, <2>1, <2>2
<1>8. Reported(s) = {ProviderResults(s)[v] : v \in asked}
  <2>1. \A k \in Latest(s) : wanted[s][k] \in asked
    BY <1>3, <1>7 DEF Range
  <2>2. QED BY <1>4, <1>5, <1>7, <2>1 DEF Reported
<1>9. complete \subseteq asked
  OBVIOUS
<1>10. Reported(s) \subseteq {"complete"} <=> complete = asked
  BY <1>8, <1>9
<1>11. "complete" \in Reported(s) <=> complete # {}
  BY <1>8, <1>9
<1>12. FinalStatus(s) = "complete" <=> complete = asked
  BY <1>10 DEF FinalStatus
<1>13. FinalStatus(s) = "failed" <=> complete = {} /\ asked # {}
  BY <1>9, <1>10, <1>11 DEF FinalStatus
<1>14. complete = {wanted[s][r[1]] : r \in Counted(s)}
  <2>1. ASSUME NEW v \in complete
        PROVE  \E r \in Counted(s) : wanted[s][r[1]] = v
    <3>1. PICK k \in Latest(s) : wanted[s][k] = v
      BY <1>5, <1>7, <1>9
    <3>2. outcome[s][k] = "complete"
      BY <1>4, <3>1
    <3>3. PICK c \in Cards : c \in page[s][k]
      BY <1>3, <3>2 DEF EntriesFit, Offered
    <3>4. <<k, c>> \in Counted(s)
      BY <1>3, <3>3 DEF Counted, Rows
    <3>5. QED BY <3>1, <3>4
  <2>2. ASSUME NEW r \in Counted(s)
        PROVE  wanted[s][r[1]] \in complete
    <3>1. r[1] \in Latest(s) /\ r[1] \in DOMAIN wanted[s] /\ page[s][r[1]] # {}
      BY DEF Counted, Rows
    <3>2. QED BY <1>2, <1>4, <3>1 DEF EntriesFit
  <2>3. QED BY <2>1, <2>2
<1>15. \A r \in Rows(s) : r[1] \in DOMAIN wanted[s] /\ ProviderOf[PropOf[r[2]]] = wanted[s][r[1]]
  BY DEF Rows, EntriesFit, Offered
<1>16. complete \subseteq stored
  BY <1>14, <1>15 DEF Counted
<1>17. \A v \in stored \ complete : AskedTwice(s, v)
  <2> SUFFICES ASSUME NEW r \in Rows(s), wanted[s][r[1]] \notin complete
               PROVE  AskedTwice(s, wanted[s][r[1]])
    BY <1>15
  <2>1. r[1] \notin Latest(s)
    BY <1>14 DEF Counted
  <2>2. QED BY <1>1, <1>15, <2>1, NotLatest
<1>18. QED BY <1>7, <1>12, <1>13, <1>14, <1>16, <1>17

-----------------------------------------------------------------------------

\* A step of one request, as far as the others are concerned.
Alone(s) ==
    \A r \in Searches \ {s} :
        /\ status'[r] = status[r] /\ count'[r] = count[r] /\ provided'[r] = provided[r]
        /\ results'[r] = results[r] /\ wanted'[r] = wanted[r] /\ pc'[r] = pc[r]
        /\ outcome'[r] = outcome[r] /\ page'[r] = page[r] /\ polled'[r] = polled[r]

LEMMA OthersStand ==
    ASSUME NEW s \in Searches, Alone(s), \A r \in Searches : RunOk(r), RunOk(s)'
    PROVE  \A r \in Searches : RunOk(r)'
<1> SUFFICES ASSUME NEW r \in Searches \ {s} PROVE RunOk(r)'
  OBVIOUS
<1>1. StatusFits(r)' /\ PolledFits(r)'
  BY DEF Alone, RunOk, StatusFits, PolledFits
<1>2. EntriesFit(r)' /\ StageFits(r)'
  BY DEF Alone, RunOk, EntriesFit, StageFits, AllAnswered, Rows
<1>3. Reports(r)'
  BY DEF Alone, RunOk, Reports, Complete, Asked, Stored, AskedTwice
<1>4. QED BY <1>1, <1>2, <1>3 DEF RunOk

-----------------------------------------------------------------------------
(***************************************************************************)
(* The steps of a request.                                                 *)
(***************************************************************************)

\* What the store says of a search stays.
SameStore(s) ==
    /\ status'[s] = status[s] /\ count'[s] = count[s] /\ provided'[s] = provided[s]
    /\ results'[s] = results[s] /\ wanted'[s] = wanted[s] /\ polled'[s] = polled[s]

LEMMA SameReports ==
    ASSUME NEW s \in Searches, RunOk(s), SameStore(s)
    PROVE  Reports(s)' /\ PolledFits(s)'
BY DEF RunOk, Reports, Complete, Asked, Stored, AskedTwice, PolledFits, SameStore

\* A search without a final status has nothing to report.
LEMMA NoReport ==
    ASSUME NEW s \in Searches, RunOk(s), status[s] \notin Final, status'[s] \notin Final,
           polled'[s] = polled[s]
    PROVE  Reports(s)' /\ PolledFits(s)'
BY DEF RunOk, Reports, PolledFits

\* A request knows of its entries what it knew.
SameEntries(s) ==
    wanted'[s] = wanted[s] /\ outcome'[s] = outcome[s] /\ page'[s] = page[s]

LEMMA EntriesStand ==
    ASSUME NEW s \in Searches, EntriesFit(s), SameEntries(s)
    PROVE  EntriesFit(s)' /\ AllAnswered(s)' = AllAnswered(s) /\ Rows(s)' = Rows(s)
BY DEF EntriesFit, SameEntries, AllAnswered, Rows

\* Nothing is known of the entries of its list.
LEMMA EntriesFresh ==
    ASSUME NEW s \in Searches, wanted'[s] \in Seq(Providers),
           outcome'[s] = Unanswered(wanted'[s]), page'[s] = NoPages(wanted'[s])
    PROVE  EntriesFit(s)'
BY NothingKnown DEF EntriesFit, Unanswered, NoPages

LEMMA CreateStep ==
    ASSUME Types, NEW s \in Searches, RunOk(s), Create(s)
    PROVE  Types' /\ Alone(s) /\ RunOk(s)'
<1> USE DEF Types, StoreTypes, LocalTypes, OtherTypes
<1>1. PICK list \in Asks :
         /\ wanted'  = [wanted EXCEPT ![s] = list]
         /\ outcome' = [outcome EXCEPT ![s] = Unanswered(list)]
         /\ page'    = [page EXCEPT ![s] = NoPages(list)]
  BY DEF Create
<1>2. list \in Seq(Providers)
  BY AsksAreLists
<1>3. /\ status' = [status EXCEPT ![s] = "pending"] /\ pc' = [pc EXCEPT ![s] = "start"]
      /\ UNCHANGED <<count, provided, results, lock, polled, reply, faults>>
  BY DEF Create, Goto
<1>4. Types'
  BY <1>1, <1>2, <1>3, NothingKnown DEF Statuses, Labels
<1>5. Alone(s)
  BY <1>1, <1>3 DEF Alone
<1>6. /\ pc'[s] = "start" /\ status'[s] = "pending" /\ polled'[s] = polled[s]
      /\ wanted'[s] = list /\ outcome'[s] = Unanswered(list) /\ page'[s] = NoPages(list)
  BY <1>1, <1>3
<1>7. StatusFits(s)' /\ StageFits(s)'
  BY <1>6 DEF StatusFits, StageFits
<1>8. EntriesFit(s)'
  BY <1>2, <1>6, EntriesFresh
<1>9. status[s] \notin Final /\ status'[s] \notin Final
  BY <1>6 DEF Create, Final
<1>10. QED BY <1>4, <1>5, <1>6, <1>7, <1>8, <1>9, NoReport DEF RunOk

LEMMA StartStep ==
    ASSUME Types, NEW s \in Searches, RunOk(s), Start(s)
    PROVE  Types' /\ Alone(s) /\ RunOk(s)'
<1> USE DEF Start, Goto, localVars, Types, StoreTypes, LocalTypes, OtherTypes
<1>1. Types' /\ Alone(s)
  BY DEF Statuses, Labels, Alone
<1>2. pc'[s] = "scrape" /\ status'[s] = "running" /\ SameEntries(s)
  BY DEF SameEntries
<1>3. StatusFits(s)' /\ StageFits(s)'
  BY <1>2 DEF StatusFits, StageFits
<1>4. EntriesFit(s)'
  BY <1>2, EntriesStand DEF RunOk
<1>5. Reports(s)' /\ PolledFits(s)'
  BY <1>2, NoReport DEF RunOk, StatusFits, Final
<1>6. QED BY <1>1, <1>3, <1>4, <1>5 DEF RunOk

LEMMA AnswerStep ==
    ASSUME Types, NEW s \in Searches, RunOk(s), NEW k \in DOMAIN wanted[s],
           ScrapeFails(s, k) \/ ScrapeOk(s, k)
    PROVE  Types' /\ Alone(s) /\ RunOk(s)'
<1> DEFINE v == wanted[s][k]
<1>0. \E o \in {"failed", "blocked", "complete"} : \E found \in SUBSET Offered(v) :
         Answers(s, k, o, found) /\ (o = "complete" <=> found # {})
  <2>1. CASE ScrapeFails(s, k)
    <3>1. PICK o \in {"failed", "blocked"} : Answers(s, k, o, {})
      BY <2>1 DEF ScrapeFails
    <3>2. {} \in SUBSET Offered(v) /\ o # "complete"
      OBVIOUS
    <3>3. QED BY ONLY <3>1, <3>2
  <2>2. CASE ScrapeOk(s, k)
    <3>1. PICK found \in (SUBSET Offered(v)) \ {{}} : Answers(s, k, "complete", found)
      BY <2>2 DEF ScrapeOk
    <3>2. found \in SUBSET Offered(v) /\ found # {}
      OBVIOUS
    <3>3. QED BY ONLY <3>1, <3>2
  <2>3. QED BY <2>1, <2>2
<1> USE DEF dbVars, Types, StoreTypes, LocalTypes, OtherTypes
<1>1. PICK o \in {"failed", "blocked", "complete"}, found \in SUBSET Offered(v) :
         Answers(s, k, o, found) /\ (o = "complete" <=> found # {})
  BY <1>0
<1>2. o \in Outcomes /\ found \in SUBSET Cards
  BY DEF Offered, Outcomes
<1>3. /\ pc[s] = "scrape"
      /\ UNCHANGED <<status, count, provided, results, wanted, lock, pc, polled, reply, faults>>
      /\ outcome' = [outcome EXCEPT ![s] = [outcome[s] EXCEPT ![k] = o]]
      /\ page' = [page EXCEPT ![s] = [page[s] EXCEPT ![k] = found]]
  BY <1>1 DEF Answers
<1>4. /\ outcome[s] \in Seq(Outcomes) /\ k \in DOMAIN outcome[s]
      /\ page[s] \in Seq(SUBSET Cards) /\ k \in DOMAIN page[s]
  BY DEF RunOk, EntriesFit
<1>5. /\ outcome'[s] = [outcome[s] EXCEPT ![k] = o] /\ page'[s] = [page[s] EXCEPT ![k] = found]
      /\ outcome'[s] \in Seq(Outcomes) /\ DOMAIN outcome'[s] = DOMAIN outcome[s]
      /\ page'[s] \in Seq(SUBSET Cards) /\ DOMAIN page'[s] = DOMAIN page[s]
  BY <1>2, <1>3, <1>4, Replaced
<1>6. Types'
  <2>1. outcome' \in [Searches -> Seq(Outcomes)] /\ page' \in [Searches -> Seq(SUBSET Cards)]
    BY <1>3, <1>5
  <2>2. QED BY <1>3, <2>1
<1>7. Alone(s)
  BY <1>3 DEF Alone
<1>8. EntriesFit(s)'
  <2>1. ASSUME NEW j \in DOMAIN wanted[s]
        PROVE  /\ outcome'[s][j] = "complete" <=> page'[s][j] # {}
               /\ page'[s][j] \subseteq Offered(wanted[s][j])
    <3>1. CASE j = k
      BY <1>1, <1>4, <1>5, <3>1
    <3>2. CASE j # k
      BY <1>4, <1>5, <3>2 DEF RunOk, EntriesFit
    <3>3. QED BY <3>1, <3>2
  <2>2. QED BY <1>3, <1>5, <2>1 DEF RunOk, EntriesFit
<1>9. StatusFits(s)' /\ StageFits(s)'
  BY <1>3 DEF RunOk, StatusFits, StageFits
<1>10. Reports(s)' /\ PolledFits(s)'
  BY <1>3, SameReports DEF SameStore
<1>11. QED BY <1>6, <1>7, <1>8, <1>9, <1>10 DEF RunOk

LEMMA GatherStep ==
    ASSUME Types, NEW s \in Searches, RunOk(s), Gather(s)
    PROVE  Types' /\ Alone(s) /\ RunOk(s)'
<1> USE DEF Gather, Goto, localVars, dbVars, Types, StoreTypes, LocalTypes, OtherTypes
<1>1. Types' /\ Alone(s)
  BY DEF Labels, Alone
<1>2. pc[s] = "scrape" /\ pc'[s] = "write" /\ AllAnswered(s) /\ SameStore(s) /\ SameEntries(s)
  BY DEF SameStore, SameEntries
<1>3. EntriesFit(s)' /\ AllAnswered(s)'
  BY <1>2, EntriesStand DEF RunOk
<1>4. StatusFits(s)' /\ StageFits(s)'
  BY <1>2, <1>3 DEF RunOk, StatusFits, StageFits, SameStore
<1>5. Reports(s)' /\ PolledFits(s)'
  BY <1>2, SameReports
<1>6. QED BY <1>1, <1>3, <1>4, <1>5 DEF RunOk

LEMMA UpsertStep ==
    ASSUME Types, NEW s \in Searches, RunOk(s), NEW p \in Props, Upsert(s, p)
    PROVE  Types' /\ Alone(s) /\ RunOk(s)'
<1> USE DEF Upsert, localVars, dbVars, Types, StoreTypes, LocalTypes, OtherTypes
<1>1. Types' /\ Alone(s)
  BY DEF Alone
<1>2. UNCHANGED pc /\ SameStore(s) /\ SameEntries(s)
  BY DEF SameStore, SameEntries
<1>3. EntriesFit(s)' /\ AllAnswered(s)' = AllAnswered(s) /\ Rows(s)' = Rows(s)
  BY <1>2, EntriesStand DEF RunOk
<1>4. StatusFits(s)' /\ StageFits(s)'
  BY <1>2, <1>3 DEF RunOk, StatusFits, StageFits, SameStore
<1>5. Reports(s)' /\ PolledFits(s)'
  BY <1>2, SameReports
<1>6. QED BY <1>1, <1>3, <1>4, <1>5 DEF RunOk

LEMMA CommitStep ==
    ASSUME Types, NEW s \in Searches, RunOk(s), CommitResults(s)
    PROVE  Types' /\ Alone(s) /\ RunOk(s)'
<1> USE DEF CommitResults, Release, Goto, localVars, Types, StoreTypes, LocalTypes, OtherTypes
<1>1. Types' /\ Alone(s)
  BY RowsFinite DEF Labels, Alone
<1>2. /\ pc[s] = "write" /\ pc'[s] = "finish" /\ results'[s] = Rows(s)
      /\ UNCHANGED <<status, count, provided, polled>> /\ SameEntries(s)
  BY DEF SameEntries
<1>3. EntriesFit(s)' /\ AllAnswered(s)' = AllAnswered(s) /\ Rows(s)' = Rows(s)
  BY <1>2, EntriesStand DEF RunOk
<1>4. StatusFits(s)' /\ StageFits(s)'
  BY <1>2, <1>3 DEF RunOk, StatusFits, StageFits
<1>5. Reports(s)' /\ PolledFits(s)'
  BY <1>2, NoReport DEF RunOk, StatusFits, Final
<1>6. QED BY <1>1, <1>3, <1>4, <1>5 DEF RunOk

\* What a request that ends leaves of its local state.
LEMMA EndStep ==
    ASSUME Types, NEW s \in Searches, NEW r \in Final \cup {"error"}, Answer(s, r)
    PROVE  /\ reply' \in [Searches -> Final \cup {"none", "error"}]
           /\ pc' = [pc EXCEPT ![s] = "idle"] /\ LocalTypes'
           /\ outcome'[s] = Unanswered(wanted[s]) /\ page'[s] = NoPages(wanted[s])
           /\ \A q \in Searches \ {s} : outcome'[q] = outcome[q] /\ page'[q] = page[q]
BY NothingKnown DEF Answer, Goto, Types, StoreTypes, LocalTypes, OtherTypes, Labels

\* The report is that of the listings committed before.
LEMMA FinishStep ==
    ASSUME Types, NEW s \in Searches, RunOk(s), Finish(s)
    PROVE  Types' /\ Alone(s) /\ RunOk(s)'
<1>1. /\ pc[s] = "finish" /\ UNCHANGED <<results, wanted, lock, polled, faults>>
      /\ status' = [status EXCEPT ![s] = FinalStatus(s)]
      /\ count' = [count EXCEPT ![s] = Total(s)]
      /\ provided' = [provided EXCEPT ![s] = ProviderResults(s)]
      /\ Answer(s, FinalStatus(s))
  BY DEF Finish
<1>2. FinalStatus(s) \in Final
  BY FinalStatusType
<1>3. /\ reply' \in [Searches -> Final \cup {"none", "error"}]
      /\ pc' = [pc EXCEPT ![s] = "idle"] /\ LocalTypes'
      /\ outcome'[s] = Unanswered(wanted[s]) /\ page'[s] = NoPages(wanted[s])
      /\ \A q \in Searches \ {s} : outcome'[q] = outcome[q] /\ page'[q] = page[q]
  BY <1>1, <1>2, EndStep
<1>4. /\ EntriesFit(s) /\ AllAnswered(s) /\ results[s] = Rows(s) /\ wanted[s] \in Seq(Providers)
  BY <1>1 DEF RunOk, StageFits, Types, StoreTypes
<1> USE DEF Types, StoreTypes, LocalTypes, OtherTypes
<1>5. Types'
  <2>1. Final \subseteq Statuses
    BY DEF Statuses
  <2>2. Total(s) \in Nat
    BY <1>4, TotalFits
  <2>3. StoreTypes'
    BY <1>1, <1>2, <1>4, <2>1, <2>2, ResultsType
  <2>4. QED BY <1>1, <1>3, <2>3
<1>6. Alone(s)
  BY <1>1, <1>3 DEF Alone
<1>7. /\ pc'[s] = "idle" /\ status'[s] = FinalStatus(s) /\ count'[s] = Total(s)
      /\ provided'[s] = ProviderResults(s) /\ results'[s] = Rows(s) /\ wanted'[s] = wanted[s]
  BY <1>1, <1>3, <1>4
<1>8. StatusFits(s)' /\ StageFits(s)'
  BY <1>7 DEF StatusFits, StageFits
<1>9. EntriesFit(s)'
  BY <1>3, <1>4, <1>7, EntriesFresh
<1>10. Reports(s)'
  <2>1. Complete(s)' = {v \in Providers : ProviderResults(s)[v] = "complete"}
    BY <1>7 DEF Complete
  <2>2. Asked(s)' = {v \in Providers : ProviderResults(s)[v] # "none"}
    BY <1>7 DEF Asked
  <2>3. Stored(s)' = {ProviderOf[PropOf[r[2]]] : r \in Rows(s)}
    BY <1>7 DEF Stored
  <2>4. \A v : AskedTwice(s, v)' <=> AskedTwice(s, v)
    BY <1>7 DEF AskedTwice
  <2>5. /\ Asked(s)' = Range(wanted[s])
        /\ FinalStatus(s) = "complete" <=> Complete(s)' = Asked(s)'
        /\ FinalStatus(s) = "failed" <=> Complete(s)' = {} /\ Asked(s)' # {}
        /\ Complete(s)' \subseteq Stored(s)'
        /\ \A v \in Stored(s)' \ Complete(s)' : AskedTwice(s, v)
    BY <1>4, <2>1, <2>2, <2>3, TrueReport
  <2>6. count'[s] <= Cardinality(results'[s])
    BY <1>4, <1>7, TotalFits
  <2>7. ASSUME \A v \in Providers : ~ AskedTwice(s, v)
        PROVE  count'[s] = Cardinality(results'[s])
    <3>1. \A k \in DOMAIN wanted[s] : wanted[s][k] \in Providers
      BY <1>4, ListDomain, ElementOfSeq
    <3>2. \A k \in DOMAIN wanted[s] : k \in Latest(s)
      BY <1>4, <2>7, <3>1, NotLatest
    <3>3. {r \in Rows(s) : r[1] \in Latest(s)} = Rows(s)
      BY <3>2 DEF Rows
    <3>4. QED BY <1>7, <3>3 DEF Total
  <2>8. Range(wanted[s])' = Range(wanted[s])
    BY <1>7 DEF Range
  <2>9. QED BY <1>7, <2>4, <2>5, <2>6, <2>7, <2>8 DEF Reports
<1>11. PolledFits(s)'
  BY <1>1 DEF RunOk, StatusFits, PolledFits, Final
<1>12. QED BY <1>5, <1>6, <1>8, <1>9, <1>10, <1>11 DEF RunOk

LEMMA DieStep ==
    ASSUME Types, NEW s \in Searches, RunOk(s), Fault(s) \/ DeadlockVictim(s)
    PROVE  Types' /\ Alone(s) /\ RunOk(s)'
<1>1. /\ UNCHANGED <<status, count, provided, results, wanted, polled>>
      /\ lock' = [p \in Props |-> IF lock[p] = s THEN NoSearch ELSE lock[p]]
      /\ Answer(s, "error")
  BY DEF Fault, DeadlockVictim, Die, Release, dbVars
<1>2. /\ reply' \in [Searches -> Final \cup {"none", "error"}]
      /\ pc' = [pc EXCEPT ![s] = "idle"] /\ LocalTypes'
      /\ outcome'[s] = Unanswered(wanted[s]) /\ page'[s] = NoPages(wanted[s])
      /\ \A q \in Searches \ {s} : outcome'[q] = outcome[q] /\ page'[q] = page[q]
  BY <1>1, EndStep
<1> USE DEF Types, StoreTypes, LocalTypes, OtherTypes
<1>3. faults' \in 0..MaxFaults
  <2>1. faults \in 0..MaxFaults
    OBVIOUS
  <2>2. faults' = faults \/ (faults < MaxFaults /\ faults' = faults + 1)
    BY DEF Fault, DeadlockVictim
  <2>3. QED BY ONLY <2>1, <2>2, MaxFaultsIsNatural
<1>4. Types' /\ Alone(s)
  BY <1>1, <1>2, <1>3 DEF Alone
<1>5. pc'[s] = "idle" /\ wanted'[s] = wanted[s] /\ wanted'[s] \in Seq(Providers) /\ SameStore(s)
  BY <1>1, <1>2 DEF SameStore
<1>6. StatusFits(s)' /\ StageFits(s)'
  BY <1>5 DEF StatusFits, StageFits
<1>7. EntriesFit(s)'
  BY <1>2, <1>5, EntriesFresh
<1>8. Reports(s)' /\ PolledFits(s)'
  BY <1>5, SameReports
<1>9. QED BY <1>4, <1>6, <1>7, <1>8 DEF RunOk

LEMMA PollStep ==
    ASSUME Types, NEW s \in Searches, RunOk(s), Poll(s)
    PROVE  Types' /\ Alone(s) /\ RunOk(s)'
<1> USE DEF Poll, localVars, dbVars, Types, StoreTypes, LocalTypes, OtherTypes
<1>1. Types' /\ Alone(s)
  BY DEF Alone
<1>2. /\ UNCHANGED <<status, count, provided, results, pc, wanted, outcome, page>>
      /\ polled'[s] = status[s] /\ SameEntries(s)
  BY DEF SameEntries
<1>3. EntriesFit(s)' /\ AllAnswered(s)' = AllAnswered(s) /\ Rows(s)' = Rows(s)
  BY <1>2, EntriesStand DEF RunOk
<1>4. StatusFits(s)' /\ StageFits(s)'
  BY <1>2, <1>3 DEF RunOk, StatusFits, StageFits
<1>5. Reports(s)' /\ PolledFits(s)'
  BY <1>2 DEF RunOk, Reports, Complete, Asked, Stored, AskedTwice, PolledFits
<1>6. QED BY <1>1, <1>3, <1>4, <1>5 DEF RunOk

-----------------------------------------------------------------------------

LEMMA Initial == Init => IInv
<1> SUFFICES ASSUME Init PROVE IInv
  OBVIOUS
<1> USE DEF Init
<1>1. StoreTypes
  BY EmptySeq DEF StoreTypes, Statuses, Unasked, Outcomes
<1>2. LocalTypes
  BY EmptySeq DEF LocalTypes, Labels
<1>3. OtherTypes
  BY MaxFaultsIsNatural DEF OtherTypes, Statuses
<1>4. ASSUME NEW s \in Searches PROVE RunOk(s)
  <2>1. EntriesFit(s)
    <3>1. DOMAIN wanted[s] = {}
      BY <1>1, EmptySeq, ListDomain DEF StoreTypes
    <3>2. QED BY <3>1 DEF EntriesFit
  <2>2. QED BY <2>1 DEF RunOk, StatusFits, StageFits, Reports, PolledFits, Final
<1>5. QED BY <1>1, <1>2, <1>3, <1>4 DEF IInv, Types

LEMMA NextStep == IInv /\ [Next]_vars => IInv'
<1> SUFFICES ASSUME IInv, [Next]_vars PROVE IInv'
  OBVIOUS
<1>1. CASE UNCHANGED vars
  <2>1. Types'
    BY <1>1 DEF IInv, Types, StoreTypes, LocalTypes, OtherTypes, vars
  <2>2. ASSUME NEW s \in Searches PROVE RunOk(s)'
    <3>1. SameStore(s) /\ SameEntries(s) /\ pc' = pc
      BY <1>1 DEF SameStore, SameEntries, vars
    <3>2. EntriesFit(s)' /\ AllAnswered(s)' = AllAnswered(s) /\ Rows(s)' = Rows(s)
      BY <3>1, EntriesStand DEF IInv, RunOk
    <3>3. StatusFits(s)' /\ StageFits(s)'
      BY <3>1, <3>2 DEF IInv, RunOk, StatusFits, StageFits, SameStore
    <3>4. QED BY <3>1, <3>2, <3>3, SameReports DEF IInv, RunOk
  <2>3. QED BY <2>1, <2>2 DEF IInv
<1>2. CASE Next
  <2>1. PICK s \in Searches :
          Create(s) \/ Step(s) \/ Fault(s) \/ DeadlockVictim(s) \/ Poll(s)
    BY <1>2 DEF Next
  <2>2. Types /\ RunOk(s)
    BY DEF IInv
  <2>3. Types' /\ Alone(s) /\ RunOk(s)'
    BY <2>1, <2>2, CreateStep, StartStep, AnswerStep, GatherStep, UpsertStep, CommitStep,
       FinishStep, DieStep, PollStep DEF Step
  <2>4. QED BY <2>3, OthersStand DEF IInv
<1>3. QED BY <1>1, <1>2

LEMMA Invariance == Spec => []IInv
BY Initial, NextStep, PTL DEF Spec

\* Every variable keeps its type: a status is one of the five that are stored,
\* the count is a number once there is one (search_service.py).
THEOREM TypeCorrect == Spec => []TypeOK
<1>1. IInv => TypeOK
  BY TypesAreTypeOK DEF IInv
<1> QED
  BY <1>1, Invariance, PTL

\* The status, the count and the outcomes that the last commit stores claim
\* nothing that the commit before it has not stored, and are exact unless the
\* caller named a provider twice (search_service.py:79-124), for every list of
\* providers and however requests overlap, fail or break their deadlocks.
THEOREM ReportsAreTrue == Spec => []ReportIsTrue
<1>1. IInv => ReportIsTrue
  BY DEF IInv, RunOk, Reports, Complete, Asked, Stored, ReportIsTrue
<1> QED
  BY <1>1, Invariance, PTL

\* What the progress page has read as complete or partial (search.ts:37-50) is
\* not changed any more.
THEOREM PolledStays == Spec => PolledResultsAreFinal
<1>1. IInv /\ [Next]_vars => [\A s \in Searches : polled[s] \in {"complete", "partial"} =>
         results'[s] = results[s] /\ status'[s] = status[s]]_vars
  <2> SUFFICES ASSUME IInv, Next, NEW r \in Searches, polled[r] \in {"complete", "partial"}
               PROVE  results'[r] = results[r] /\ status'[r] = status[r]
    OBVIOUS
  <2>1. status[r] \in Final /\ pc[r] \notin {"start", "scrape", "write", "finish"}
    BY DEF IInv, RunOk, StatusFits, PolledFits, Final
  <2>2. PICK s \in Searches :
          Create(s) \/ Step(s) \/ Fault(s) \/ DeadlockVictim(s) \/ Poll(s)
    BY DEF Next
  <2>3. CASE s = r
    BY <2>1, <2>2, <2>3
       DEF Create, Step, Start, ScrapeFails, ScrapeOk, Answers, Gather, Upsert, CommitResults,
           Finish, Fault, DeadlockVictim, Die, Poll, Final, dbVars
  <2>4. CASE s # r
    <3>1. Alone(s)
      BY <2>2, CreateStep, StartStep, AnswerStep, GatherStep, UpsertStep, CommitStep,
         FinishStep, DieStep, PollStep DEF Step, IInv
    <3>2. QED BY <2>4, <3>1 DEF Alone
  <2>5. QED BY <2>3, <2>4
<1> QED
  BY <1>1, Invariance, PTL DEF Spec, PolledResultsAreFinal

-----------------------------------------------------------------------------
(***************************************************************************)
(* Refinement of SearchReport.                                             *)
(***************************************************************************)

\* The listings that a reader who waits for the final status can see.
Shown == [s \in Searches |-> IF status[s] \in Final THEN results[s] ELSE {}]

LEMMA ReportStarts == Init => SR!ReportInit
BY DEF Init, SR!ReportInit, Unasked, Final

\* The listings of a search that has no final status before or after are hidden.
LEMMA ShownKept ==
    ASSUME NEW s \in Searches, status[s] \notin Final, status'[s] \notin Final,
           \A r \in Searches \ {s} : status'[r] = status[r] /\ results'[r] = results[r]
    PROVE  Shown' = Shown
BY DEF Shown

\* What the report leaves out was found for a provider that was asked twice.
LEMMA ToldIsCounted ==
    ASSUME Types, NEW s \in Searches
    PROVE  SR!Told(s, Rows(s), Counted(s))
<1> SUFFICES ASSUME NEW r \in Rows(s) \ Counted(s)
             PROVE  \E k \in DOMAIN wanted[s] : k # r[1] /\ wanted[s][k] = wanted[s][r[1]]
  BY DEF SR!Told
<1>1. r[1] \in DOMAIN wanted[s] /\ r[1] \notin Latest(s) /\ wanted[s] \in Seq(Providers)
  BY DEF Counted, Rows, Types, StoreTypes
<1>2. PICK k \in DOMAIN wanted[s] : k > r[1] /\ wanted[s][k] = wanted[s][r[1]]
  BY <1>1 DEF Latest, LatestIn
<1>3. k # r[1]
  BY <1>1, <1>2, ListDomain
<1>4. QED BY <1>2, <1>3

LEMMA FinishPublishes ==
    ASSUME Types, NEW s \in Searches, RunOk(s), Finish(s)
    PROVE  SR!Publish(s, FinalStatus(s))
<1>1. /\ pc[s] = "finish" /\ status[s] = "running" /\ results[s] = Rows(s)
      /\ UNCHANGED <<results, wanted>>
      /\ status' = [status EXCEPT ![s] = FinalStatus(s)]
      /\ count' = [count EXCEPT ![s] = Total(s)]
      /\ provided' = [provided EXCEPT ![s] = ProviderResults(s)]
  BY DEF Finish, RunOk, StatusFits, StageFits
<1>2. EntriesFit(s) /\ AllAnswered(s) /\ wanted[s] \in Seq(Providers)
  BY <1>1 DEF RunOk, StageFits, Types, StoreTypes
<1>3. /\ ProviderResults(s) \in [Providers -> Outcomes]
      /\ Rows(s) \in SUBSET SR!Findable(s)
      /\ Counted(s) \in SUBSET Rows(s)
  BY <1>2, ResultsType DEF SR!Findable, Rows, Counted
<1>4. PICK fate \in [Providers -> Outcomes], found \in SUBSET SR!Findable(s), told \in SUBSET Rows(s) :
         fate = ProviderResults(s) /\ found = Rows(s) /\ told = Counted(s)
  BY <1>3
<1>5. PICK verdict \in Final : verdict = FinalStatus(s)
  BY FinalStatusType
<1>6. /\ SR!AskedIn(fate) = Range(wanted[s])
      /\ verdict = "complete" <=> SR!CompleteIn(fate) = SR!AskedIn(fate)
      /\ verdict = "failed" <=> SR!CompleteIn(fate) = {} /\ SR!AskedIn(fate) # {}
      /\ SR!CompleteIn(fate) = {wanted[s][r[1]] : r \in Counted(s)}
  BY <1>2, <1>4, <1>5, TrueReport DEF SR!AskedIn, SR!CompleteIn
<1>7. verdict = SR!Verdict(SR!AskedIn(fate), SR!CompleteIn(fate))
  <2>1. SR!CompleteIn(fate) \subseteq SR!AskedIn(fate)
    BY DEF SR!AskedIn, SR!CompleteIn
  <2>2. QED BY <1>6, <2>1 DEF SR!Verdict, Final
<1>8. Shown' = [Shown EXCEPT ![s] = found]
  <2>1. \A r \in Searches \ {s} : status'[r] = status[r]
    BY <1>1 DEF Types, StoreTypes
  <2>2. status'[s] \in Final
    BY <1>1, FinalStatusType DEF Types, StoreTypes
  <2>3. QED BY <1>1, <1>4, <2>1, <2>2 DEF Shown
<1>9. SR!Told(s, found, told) /\ SR!SumsUp(s, fate, told)
  <2>1. SR!Cardinality(told) = Cardinality(told)
    BY DEF SR!Cardinality, Cardinality
  <2>2. count' = [count EXCEPT ![s] = SR!Cardinality(told)]
    BY <1>1, <1>4, <2>1 DEF Total, Counted
  <2>3. SR!Told(s, found, told)
    BY <1>4, ToldIsCounted DEF SR!Told
  <2>4. QED BY <1>4, <1>6, <2>2, <2>3 DEF SR!SumsUp, SR!ProvidersOf
<1>10. SR!Says(s, verdict, fate, found)
  <2> DEFINE P(t) == SR!Told(s, found, t) /\ SR!SumsUp(s, fate, t)
  <2>1. told \in SUBSET found /\ P(told)
    BY <1>4, <1>9
  <2> HIDE DEF P
  <2>2. \E t \in SUBSET found : P(t)
    BY <2>1
  <2>3. \E t \in SUBSET found : SR!Told(s, found, t) /\ SR!SumsUp(s, fate, t)
    BY <2>2 DEF P
  <2>4. SR!AskedIn(fate) = SR!Range(wanted[s])
    BY <1>6 DEF SR!Range, Range
  <2>5. provided' = [provided EXCEPT ![s] = fate]
    BY <1>1, <1>4
  <2>6. QED BY <1>7, <1>8, <2>3, <2>4, <2>5 DEF SR!Says, Shown
<1>11. \E g \in [Providers -> Outcomes], F \in SUBSET SR!Findable(s) : SR!Says(s, verdict, g, F)
  <2> DEFINE P(g, F) == SR!Says(s, verdict, g, F)
  <2>1. P(fate, found)
    BY <1>10
  <2> HIDE DEF P
  <2>2. \E g \in [Providers -> Outcomes], F \in SUBSET SR!Findable(s) : P(g, F)
    BY <2>1
  <2>3. QED BY <2>2 DEF P
<1>12. SR!Publish(s, verdict)
  BY <1>1, <1>5, <1>11 DEF SR!Publish, SR!Move
<1>13. QED BY <1>5, <1>12

LEMMA StepsReport ==
    ASSUME IInv, [Next]_vars
    PROVE  [SR!ReportNext]_(SR!reportVars)
<1> USE DEF IInv, Types, StoreTypes, dbVars
<1>0. ASSUME UNCHANGED <<status, count, provided, results, wanted>>
      PROVE  [SR!ReportNext]_(SR!reportVars)
  BY <1>0 DEF SR!reportVars
<1>1. CASE UNCHANGED vars
  BY <1>0, <1>1 DEF vars
<1>2. ASSUME NEW s \in Searches, Create(s) PROVE SR!ReportNext
  <2>1. /\ status[s] = "absent" /\ status' = [status EXCEPT ![s] = "pending"]
        /\ UNCHANGED <<count, provided, results>>
    BY <1>2 DEF Create
  <2>2. PICK list \in Asks : wanted' = [wanted EXCEPT ![s] = list]
    BY <1>2 DEF Create
  <2>3. Shown' = Shown
    BY <2>1, ShownKept DEF Final
  <2>4. SR!Accept(s, list)
    BY <2>1, <2>2, <2>3 DEF SR!Accept, SR!Move, Shown
  <2>5. QED BY <2>4 DEF SR!ReportNext
<1>3. ASSUME NEW s \in Searches, Start(s) PROVE SR!ReportNext
  <2>1. /\ status[s] = "pending" /\ status' = [status EXCEPT ![s] = "running"]
        /\ UNCHANGED <<count, provided, results, wanted>>
    BY <1>3 DEF Start, RunOk, StatusFits
  <2>2. Shown' = Shown
    BY <2>1, ShownKept DEF Final
  <2>3. SR!Begin(s)
    BY <2>1, <2>2 DEF SR!Begin, SR!Move, Shown
  <2>4. QED BY <2>3 DEF SR!ReportNext
<1>4. ASSUME NEW s \in Searches, CommitResults(s) PROVE UNCHANGED SR!reportVars
  <2>1. /\ status[s] = "running" /\ UNCHANGED <<status, count, provided, wanted>>
        /\ results' = [results EXCEPT ![s] = Rows(s)]
    BY <1>4 DEF CommitResults, RunOk, StatusFits
  <2>2. Shown' = Shown
    BY <2>1, ShownKept DEF Final
  <2>3. QED BY <2>1, <2>2 DEF SR!reportVars, Shown
<1>5. ASSUME NEW s \in Searches, Finish(s) PROVE SR!ReportNext
  <2>1. SR!Publish(s, FinalStatus(s))
    BY <1>5, FinishPublishes
  <2>2. FinalStatus(s) \in {"complete", "partial", "failed"}
    BY FinalStatusType DEF Final
  <2>3. \E verdict \in {"complete", "partial", "failed"} : SR!Publish(s, verdict)
    <3> DEFINE P(verdict) == SR!Publish(s, verdict)
    <3>1. P(FinalStatus(s))
      BY <2>1
    <3> HIDE DEF P
    <3>2. \E verdict \in {"complete", "partial", "failed"} : P(verdict)
      BY <2>2, <3>1
    <3>3. QED BY <3>2 DEF P
  <2>4. QED BY <2>3 DEF SR!ReportNext
<1>6. ASSUME NEW s \in Searches,
             \/ \E k \in DOMAIN wanted[s] : ScrapeFails(s, k) \/ ScrapeOk(s, k)
             \/ Gather(s) \/ (\E p \in Props : Upsert(s, p))
             \/ Fault(s) \/ DeadlockVictim(s) \/ Poll(s)
      PROVE  UNCHANGED <<status, count, provided, results, wanted>>
  BY <1>6 DEF ScrapeFails, ScrapeOk, Answers, Gather, Upsert, Fault, DeadlockVictim, Die, Poll
<1>7. QED BY <1>0, <1>1, <1>2, <1>3, <1>4, <1>5, <1>6 DEF Next, Step

\* Four commits, two of them in the middle of a request that may fail or be the
\* victim of a deadlock, are one report to whoever waits for the final status
\* (search_service.py:43-124).
THEOREM Refinement == Spec => ImplementsSearchReport
<1>1. IInv /\ [Next]_vars => [SR!ReportNext]_(SR!reportVars)
  BY StepsReport
<1> QED
  BY <1>1, Invariance, ReportStarts, PTL DEF Spec, ImplementsSearchReport, SR!ReportSpec
=============================================================================
