-------------------------- MODULE AlertHistoryProofs --------------------------
(***************************************************************************)
(* Proofs about AlertHistory, for any alerts, transactions and page size.  *)
(* The argument: what the rows newer than an alert number can only grow,   *)
(* so an alert that lay behind the pages seen so far does not slip in      *)
(* front of the next one, unless rows with its sent_at change their order. *)
(***************************************************************************)
EXTENDS AlertHistory, FiniteSetTheorems, TLAPS

NewerIn(M, a) == {b \in M : sentAt[b] > sentAt[a]}

Tied(a) == \E b \in seen : sentAt[b] = sentAt[a]

\* Rows that are not committed are those of one transaction.
DraftsApart ==
    \A w \in Ticks :
        /\ drafts[w] \cap committed = {}
        /\ \A v \in Ticks \ {w} : drafts[w] \cap drafts[v] = {}

\* What the walk refers to is still there.
WalkOk ==
    /\ present \subseteq Matching
    /\ seen \subseteq Matching

CountOk == phase \in {"selecting", "shown"} => total <= Cardinality(Matching)

\* The page that is asked for has a row.
PageOk == page # 1 => (page - 1) * Size < Cardinality(Matching)

\* The walk has gone through the pages one by one.
FurthestOk ==
    /\ page <= furthest + 1
    /\ phase = "shown" => page <= furthest

\* An alert that was not seen, nor one that is tied with it, is behind all pages
\* that were.
Deep ==
    \A a \in present \ seen :
        Tied(a) \/ Cardinality(NewerIn(Matching, a)) >= furthest * Size

IInv ==
    /\ TypeOK
    /\ DraftsApart
    /\ WalkOk
    /\ CountOk
    /\ PageOk
    /\ FurthestOk
    /\ Deep
    /\ OnlyTiesAreSkipped
    /\ NobodyIsStranded

-----------------------------------------------------------------------------
(***************************************************************************)
(* Arithmetic of pages, and cardinalities.                                 *)
(***************************************************************************)

\* Division with remainder.
LEMMA Division ==
    ASSUME NEW n \in Nat, NEW s \in Nat \ {0}
    PROVE  /\ n \div s \in Nat
           /\ (n \div s) * s <= n
           /\ n < (n \div s) * s + s
BY SMT

\* Pages is the number of pages it takes to hold total rows.
LEMMA PagesHoldAll ==
    ASSUME total \in Nat
    PROVE  /\ Pages \in Nat \ {0}
           /\ total <= Pages * Size
           /\ \A p \in Nat \ {0} : p <= Pages => p = 1 \/ (p - 1) * Size < total
<1>1. CASE total = 0
  BY <1>1, BoundsAreNatural DEF Pages
<1>2. CASE total # 0
  <2> DEFINE q == (total + Size - 1) \div Size
  <2>1. Pages = q
    BY <1>2 DEF Pages
  <2>2. total + Size - 1 \in Nat /\ Size \in Nat \ {0}
    BY BoundsAreNatural
  <2>3. /\ q \in Nat
        /\ q * Size <= total + Size - 1
        /\ total + Size - 1 < q * Size + Size
    BY <2>2, Division
  <2>4. q # 0
    BY <1>2, <2>2, <2>3
  <2>5. \A p \in Nat \ {0} : p <= q => (p - 1) * Size < total
    <3>1. TAKE p \in Nat \ {0}
    <3>2. HAVE p <= q
    <3>3. p * Size <= q * Size
      BY <2>2, <2>3, <3>2
    <3>4. (p - 1) * Size = p * Size - Size
      BY <2>2
    <3>5. p * Size \in Nat /\ q * Size \in Nat
      BY <2>2, <2>3
    <3>. QED
      BY <2>2, <2>3, <3>3, <3>4, <3>5
  <2>6. total <= q * Size
    <3>1. q * Size \in Nat
      BY <2>2, <2>3
    <3>. QED
      BY <2>2, <2>3, <3>1
  <2>. QED
    BY <2>1, <2>3, <2>4, <2>5, <2>6
<1>. QED
  BY <1>1, <1>2

LEMMA SubsetsOfAlerts ==
    ASSUME NEW T \in SUBSET Alerts, NEW S \in SUBSET T
    PROVE  /\ IsFiniteSet(T) /\ IsFiniteSet(S)
           /\ Cardinality(T) \in Nat /\ Cardinality(S) \in Nat
           /\ Cardinality(S) <= Cardinality(T)
           /\ Cardinality(S) = Cardinality(T) => S = T
BY AlertsAreFinite, FS_Subset, FS_CardinalityType

LEMMA ProperSubsetsOfAlerts ==
    ASSUME NEW T \in SUBSET Alerts, NEW S \in SUBSET T, NEW a \in T \ S
    PROVE  Cardinality(S) < Cardinality(T)
BY SubsetsOfAlerts

\* Fewer than n rows are newer than a row among the first n.
LEMMA NewerThanFirst ==
    ASSUME TypeOK, NEW M \in SUBSET Alerts, NEW n \in Nat, NEW S \in First(M, n), NEW a \in S
    PROVE  Cardinality(NewerIn(M, a)) < n
<1>1. /\ S \in SUBSET M /\ S \in SUBSET Alerts
      /\ Cardinality(S) = IF n < Cardinality(M) THEN n ELSE Cardinality(M)
      /\ \A b \in M \ S : sentAt[a] >= sentAt[b]
  BY DEF First
<1>2. sentAt \in [Alerts -> Nat]
  BY DEF TypeOK
<1>3. NewerIn(M, a) \in SUBSET S /\ a \in S \ NewerIn(M, a)
  BY <1>1, <1>2 DEF NewerIn
<1>4. Cardinality(NewerIn(M, a)) < Cardinality(S)
  BY <1>1, <1>3, ProperSubsetsOfAlerts
<1>5. Cardinality(S) <= n
  BY <1>1, SubsetsOfAlerts
<1>6. Cardinality(NewerIn(M, a)) \in Nat /\ Cardinality(S) \in Nat
  BY <1>1, <1>3, SubsetsOfAlerts
<1>. QED
  BY <1>4, <1>5, <1>6

\* If a row is not among the first n, there are n, none of them older.
LEMMA OutsideFirst ==
    ASSUME TypeOK, NEW M \in SUBSET Alerts, NEW n \in Nat, NEW S \in First(M, n), NEW a \in M \ S
    PROVE  /\ S \subseteq M
           /\ Cardinality(S) = n
           /\ \A b \in S : sentAt[b] >= sentAt[a]
<1>1. /\ S \in SUBSET M
      /\ Cardinality(S) = IF n < Cardinality(M) THEN n ELSE Cardinality(M)
      /\ \A b \in S : sentAt[b] >= sentAt[a]
  BY DEF First
<1>2. Cardinality(S) # Cardinality(M)
  BY <1>1, SubsetsOfAlerts
<1>. QED
  BY <1>1, <1>2

-----------------------------------------------------------------------------
(***************************************************************************)
(* The steps.                                                              *)
(***************************************************************************)

LEMMA MatchingIsOk ==
    ASSUME TypeOK
    PROVE  /\ Matching \in SUBSET Alerts
           /\ Cardinality(Matching) \in Nat
<1>1. Matching \in SUBSET Alerts
  BY DEF Matching, Matches, TypeOK
<1>. QED
  BY <1>1, SubsetsOfAlerts

LEMMA InitIInv == Init => IInv
<1>. SUFFICES ASSUME Init PROVE IInv
  OBVIOUS
<1>. USE DEF Init
<1>1. TypeOK
  <2>1. Cardinality(Alerts) \in Nat
    BY AlertsAreFinite, FS_CardinalityType
  <2>2. 0 \in 0..MaxClock /\ 0 \in 0..Cardinality(Alerts)
    BY <2>1, BoundsAreNatural
  <2>3. began \in [Ticks -> 0..MaxClock] /\ sentAt \in [Alerts -> 0..MaxClock]
    BY <2>2
  <2>4. drafts \in [Ticks -> SUBSET Alerts]
    OBVIOUS
  <2>5. /\ clock \in 0..MaxClock /\ total \in 0..Cardinality(Alerts)
        /\ page \in Nat \ {0} /\ furthest \in Nat
    BY <2>2
  <2>6. typeFilter \in Types \cup {All} /\ raced \in BOOLEAN
    OBVIOUS
  <2>. QED
    BY <2>3, <2>4, <2>5, <2>6 DEF TypeOK
<1>2. DraftsApart
  BY DEF DraftsApart
<1>3. WalkOk /\ CountOk /\ PageOk /\ FurthestOk
  BY DEF WalkOk, CountOk, PageOk, FurthestOk
<1>4. Deep /\ OnlyTiesAreSkipped /\ NobodyIsStranded
  BY DEF Deep, OnlyTiesAreSkipped, NobodyIsStranded, AtTheEnd
<1>. QED
  BY <1>1, <1>2, <1>3, <1>4 DEF IInv

\* What the workers do while the reader stands still.
WorkerStep ==
    /\ committed \subseteq committed'
    /\ \A a \in committed : sentAt'[a] = sentAt[a]
    /\ UNCHANGED <<phase, typeFilter, page, total, items, walk>>

\* What the reader does while rows and walk stay as they are.
ReaderStep == UNCHANGED <<workers, typeFilter, walk>>

\* The rows newer than an alert can only become more.
LEMMA WorkersKeepTheWalk ==
    ASSUME IInv, TypeOK', WorkerStep
    PROVE  WalkOk' /\ CountOk' /\ PageOk' /\ FurthestOk' /\ Deep'
           /\ OnlyTiesAreSkipped' /\ NobodyIsStranded'
<1>. USE DEF WorkerStep, walk
<1>1. /\ Matching \in SUBSET Alerts /\ Cardinality(Matching) \in Nat
      /\ Matching' \in SUBSET Alerts /\ Cardinality(Matching') \in Nat
  <2>1. TypeOK
    BY DEF IInv
  <2>2. Matching' \in SUBSET Alerts
    BY DEF Matching, Matches, TypeOK
  <2>. QED
    BY <2>1, <2>2, MatchingIsOk, SubsetsOfAlerts
<1>2. Matching \subseteq Matching'
  BY DEF Matching, Matches
<1>3. Cardinality(Matching) <= Cardinality(Matching')
  BY <1>1, <1>2, SubsetsOfAlerts
<1>4. WalkOk'
  BY <1>2 DEF IInv, WalkOk
<1>5. CountOk'
  BY <1>1, <1>3 DEF IInv, CountOk, TypeOK
<1>6. PageOk'
  <2>1. (page - 1) * Size \in Int
    BY BoundsAreNatural DEF IInv, TypeOK
  <2>. QED
    BY <1>1, <1>3, <2>1 DEF IInv, PageOk
<1>7. FurthestOk'
  BY DEF IInv, FurthestOk
<1>8. \A a \in seen \cup present : a \in committed /\ sentAt'[a] = sentAt[a]
  BY DEF IInv, WalkOk, Matching, Matches
<1>9. \A a \in present : Tied(a)' <=> Tied(a)
  BY <1>8 DEF Tied
<1>10. Deep'
  <2>1. SUFFICES ASSUME NEW a \in present \ seen, ~Tied(a)
                 PROVE  Cardinality(NewerIn(Matching, a)') >= furthest * Size
    BY <1>9 DEF Deep
  <2>2. NewerIn(Matching, a) \subseteq NewerIn(Matching, a)'
    BY <1>2, <1>8 DEF NewerIn, Matching, Matches
  <2>3. NewerIn(Matching, a)' \in SUBSET Alerts
    BY <1>1 DEF NewerIn
  <2>4. /\ Cardinality(NewerIn(Matching, a)) <= Cardinality(NewerIn(Matching, a)')
        /\ Cardinality(NewerIn(Matching, a)) \in Nat
        /\ Cardinality(NewerIn(Matching, a)') \in Nat
    BY <2>2, <2>3, SubsetsOfAlerts
  <2>5. Cardinality(NewerIn(Matching, a)) >= furthest * Size
    BY <2>1 DEF IInv, Deep
  <2>6. furthest * Size \in Nat
    BY BoundsAreNatural DEF IInv, TypeOK
  <2>. QED
    BY <2>4, <2>5, <2>6
<1>11. OnlyTiesAreSkipped'
  <2>1. AtTheEnd' <=> AtTheEnd
    BY DEF AtTheEnd, Pages
  <2>. QED
    BY <1>8, <2>1 DEF IInv, OnlyTiesAreSkipped
<1>12. NobodyIsStranded'
  BY DEF IInv, NobodyIsStranded
<1>. QED
  BY <1>4, <1>5, <1>6, <1>7, <1>10, <1>11, <1>12

LEMMA ReaderKeepsTheRows ==
    ASSUME IInv, ReaderStep
    PROVE  DraftsApart' /\ WalkOk' /\ Deep' /\ Matching' = Matching
<1>. USE DEF ReaderStep, workers, walk
<1>1. Matching' = Matching
  BY DEF Matching, Matches
<1>2. DraftsApart'
  BY DEF IInv, DraftsApart
<1>3. WalkOk'
  BY <1>1 DEF IInv, WalkOk
<1>4. Deep'
  BY <1>1 DEF IInv, Deep, Tied, NewerIn
<1>. QED
  BY <1>1, <1>2, <1>3, <1>4

LEMMA NextTypeOK ==
    ASSUME TypeOK, Next
    PROVE  TypeOK'
<1>. USE DEF TypeOK, workers, walk
<1>0. Cardinality(Matching) \in 0..Cardinality(Alerts)
  <2>1. Matching \in SUBSET Alerts
    BY MatchingIsOk
  <2>. QED
    BY <2>1, SubsetsOfAlerts
<1>1. CASE \E w \in Ticks : Begin(w)
  BY <1>1, BoundsAreNatural DEF Begin
<1>2. CASE \E w \in Ticks : \E a \in Alerts : Write(w, a)
  BY <1>2 DEF Write
<1>3. CASE \E w \in Ticks : Commit(w)
  <2>1. PICK w \in Ticks : Commit(w)
    BY <1>3
  <2>2. 0 \in 0..MaxClock
    BY BoundsAreNatural
  <2>. QED
    BY <2>1, <2>2 DEF Commit, End
<1>4. CASE \E w \in Ticks : RollBack(w)
  <2>1. PICK w \in Ticks : RollBack(w)
    BY <1>4
  <2>2. 0 \in 0..MaxClock
    BY BoundsAreNatural
  <2>. QED
    BY <2>1, <2>2 DEF RollBack, End
<1>5. ASSUME NEW f \in Types \cup {All}, Begins(f)
      PROVE  TypeOK'
  <2>1. present' \subseteq Alerts /\ page' \in Nat \ {0} /\ furthest' \in Nat
    BY <1>5 DEF Begins, FirstPage, Matches
  <2>2. raced' \in BOOLEAN
    BY <1>5 DEF Begins
  <2>. QED
    BY <1>5, <2>1, <2>2 DEF Begins
<1>6. CASE Count
  BY <1>0, <1>6 DEF Count
<1>7. CASE Select
  <2>1. items' \subseteq Alerts
    BY <1>7 DEF Select, First, Matching, Matches
  <2>2. furthest' \in Nat /\ raced' \in BOOLEAN
    BY <1>7 DEF Select
  <2>. QED
    BY <1>7, <2>1, <2>2 DEF Select
<1>8. CASE Fail \/ Refetch
  BY <1>8 DEF Fail, Refetch
<1>9. CASE NextPage
  <2>1. Pages \in Nat \ {0}
    BY PagesHoldAll
  <2>. QED
    BY <1>9, <2>1 DEF NextPage, GoTo
<1>10. CASE PreviousPage
  BY <1>10 DEF PreviousPage, GoTo
<1>. QED
  BY <1>1, <1>2, <1>3, <1>4, <1>5, <1>6, <1>7, <1>8, <1>9, <1>10
     DEF Next, Reader, Worker, Open, ChangeFilter

\* A step of a worker.
LEMMA WorkerKeepsIInv ==
    ASSUME IInv, TypeOK', NEW w \in Ticks, Worker(w)
    PROVE  IInv'
<1>. USE DEF IInv, TypeOK
<1>1. DraftsApart' /\ WorkerStep
  <2>1. CASE Begin(w)
    BY <2>1 DEF Begin, DraftsApart, WorkerStep
  <2>2. ASSUME NEW a \in Alerts, Write(w, a)
        PROVE  DraftsApart' /\ WorkerStep
    <3>1. a \notin committed /\ \A v \in Ticks : a \notin drafts[v]
      BY <2>2 DEF Write, Written
    <3>. QED
      BY <2>2, <3>1 DEF Write, DraftsApart, WorkerStep
  <2>3. CASE Commit(w)
    BY <2>3 DEF Commit, End, DraftsApart, WorkerStep
  <2>4. CASE RollBack(w)
    BY <2>4 DEF RollBack, End, DraftsApart, WorkerStep
  <2>. QED
    BY <2>1, <2>2, <2>3, <2>4 DEF Worker
<1>. QED
  BY <1>1, WorkersKeepTheWalk

\* The walk begins anew.
LEMMA BeginsKeepsIInv ==
    ASSUME IInv, TypeOK', NEW f \in Types \cup {All}, Begins(f)
    PROVE  IInv'
<1>. USE DEF Begins, FirstPage, workers
<1>1. DraftsApart'
  BY DEF IInv, DraftsApart
<1>2. WalkOk'
  BY DEF WalkOk, Matching, Matches
<1>3. CountOk' /\ PageOk' /\ FurthestOk'
  BY DEF CountOk, PageOk, FurthestOk
<1>4. Deep'
  <2>1. ASSUME NEW a \in present'
        PROVE  Cardinality(NewerIn(Matching, a)') >= 0
    <3>1. NewerIn(Matching, a)' \in SUBSET Alerts
      BY DEF NewerIn, Matching, Matches, TypeOK
    <3>. QED
      BY <3>1, SubsetsOfAlerts
  <2>2. furthest' * Size = 0
    BY BoundsAreNatural
  <2>. QED
    BY <2>1, <2>2 DEF Deep
<1>5. OnlyTiesAreSkipped' /\ NobodyIsStranded'
  BY DEF OnlyTiesAreSkipped, NobodyIsStranded, AtTheEnd
<1>. QED
  BY <1>1, <1>2, <1>3, <1>4, <1>5 DEF IInv

\* The reader asks for a page, counts, or fails: only the page needs a thought,
\* which must have a row.
LEMMA AskingKeepsIInv ==
    ASSUME IInv, TypeOK', Count \/ Fail \/ Refetch \/ NextPage \/ PreviousPage
    PROVE  IInv'
<1>. USE DEF IInv
<1>1. ReaderStep /\ phase' # "shown"
  BY DEF ReaderStep, Count, Fail, Refetch, NextPage, PreviousPage, GoTo
<1>2. DraftsApart' /\ WalkOk' /\ Deep' /\ Matching' = Matching
  BY <1>1, ReaderKeepsTheRows
<1>3. OnlyTiesAreSkipped' /\ NobodyIsStranded'
  BY <1>1 DEF OnlyTiesAreSkipped, NobodyIsStranded, AtTheEnd
<1>4. Cardinality(Matching) \in Nat
  BY MatchingIsOk
<1>5. furthest' = furthest
  BY <1>1 DEF ReaderStep, walk
<1>6. CASE Count \/ Fail \/ Refetch
  <2>1. page' = page /\ phase' # "shown" /\ (phase' = "selecting" => total' = Cardinality(Matching))
    BY <1>1, <1>6 DEF Count, Fail, Refetch
  <2>2. CountOk'
    BY <1>2, <1>4, <2>1 DEF CountOk
  <2>3. PageOk' /\ FurthestOk'
    BY <1>2, <1>5, <2>1 DEF PageOk, FurthestOk
  <2>. QED
    BY <1>2, <1>3, <2>2, <2>3
<1>7. CASE NextPage \/ PreviousPage
  <2>1. phase = "shown" /\ phase' = "counting"
    BY <1>7 DEF NextPage, PreviousPage, Buttons, GoTo
  <2>2. page <= furthest /\ total <= Cardinality(Matching)
    BY <2>1 DEF FurthestOk, CountOk
  <2>3. page \in Nat \ {0} /\ total \in Nat /\ furthest \in Nat /\ Size \in Nat \ {0}
    BY BoundsAreNatural DEF TypeOK
  <2>4. /\ Pages \in Nat \ {0}
        /\ \A p \in Nat \ {0} : p <= Pages => p = 1 \/ (p - 1) * Size < total
    BY <2>3, PagesHoldAll
  <2>5. /\ page' \in Nat \ {0}
        /\ page' <= page + 1
        /\ page' <= Pages \/ page' = page - 1
    BY <1>7, <2>3, <2>4 DEF NextPage, PreviousPage, GoTo
  <2>6. page' # 1 => (page' - 1) * Size < Cardinality(Matching)
    <3>1. CASE page' <= Pages
      <4>1. (page' - 1) * Size \in Int
        BY <2>3, <2>5
      <4>. QED
        BY <1>4, <2>2, <2>3, <2>4, <2>5, <3>1, <4>1
    <3>2. CASE page' = page - 1 /\ page' # 1
      <4>1. (page - 1) * Size < Cardinality(Matching)
        BY <2>3, <2>5, <3>2 DEF PageOk
      <4>2. (page' - 1) * Size <= (page - 1) * Size
        BY <2>3, <2>5, <3>2
      <4>3. (page' - 1) * Size \in Int /\ (page - 1) * Size \in Int
        BY <2>3, <2>5
      <4>. QED
        BY <1>4, <4>1, <4>2, <4>3
    <3>. QED
      BY <2>5, <3>1, <3>2
  <2>7. PageOk' /\ CountOk' /\ FurthestOk'
    BY <1>2, <1>5, <2>1, <2>2, <2>3, <2>5, <2>6 DEF PageOk, CountOk, FurthestOk
  <2>. QED
    BY <1>2, <1>3, <2>7
<1>. QED
  BY <1>6, <1>7

\* What a page shows lies behind the pages before it, and what it does not show
\* of the walk lies behind it.
LEMMA SelectGoesDeeper ==
    ASSUME IInv, Select, NEW a \in present \ seen', ~Tied(a)'
    PROVE  Cardinality(NewerIn(Matching, a)) >= page * Size
<1>. USE BoundsAreNatural
<1>1. PICK skipped \in First(Matching, Offset), read \in First(Matching, Offset + Size) :
         items' = read \ skipped
  BY DEF Select
<1>2. /\ TypeOK /\ Matching \in SUBSET Alerts /\ a \in Matching /\ sentAt' = sentAt
      /\ seen' = seen \cup items' /\ page \in Nat \ {0} /\ furthest \in Nat /\ page <= furthest + 1
  BY MatchingIsOk DEF IInv, TypeOK, WalkOk, FurthestOk, Select, workers
<1>3. Offset \in Nat /\ Offset + Size = page * Size
  BY <1>2 DEF Offset
<1>4. sentAt \in [Alerts -> Nat]
  BY <1>2 DEF TypeOK
<1>5. Cardinality(NewerIn(Matching, a)) >= Offset
  <2>1. ~Tied(a)
    BY <1>2 DEF Tied
  <2>2. Cardinality(NewerIn(Matching, a)) >= furthest * Size
    BY <1>2, <2>1 DEF IInv, Deep
  <2>3. furthest * Size >= Offset
    BY <1>2 DEF Offset
  <2>4. NewerIn(Matching, a) \in SUBSET Alerts
    BY <1>2 DEF NewerIn
  <2>5. Cardinality(NewerIn(Matching, a)) \in Nat /\ furthest * Size \in Nat
    BY <1>2, <2>4, SubsetsOfAlerts
  <2>. QED
    BY <1>3, <2>2, <2>3, <2>5
<1>6. a \notin skipped
  <2>1. SUFFICES ASSUME a \in skipped PROVE FALSE
    OBVIOUS
  <2>2. Cardinality(NewerIn(Matching, a)) < Offset
    BY <1>1, <1>2, <1>3, <2>1, NewerThanFirst
  <2>3. NewerIn(Matching, a) \in SUBSET Alerts
    BY <1>2 DEF NewerIn
  <2>4. Cardinality(NewerIn(Matching, a)) \in Nat
    BY <2>3, SubsetsOfAlerts
  <2>. QED
    BY <1>3, <1>5, <2>2, <2>4
<1>7. a \notin read
  BY <1>1, <1>2, <1>6
<1>8. /\ read \subseteq Matching /\ Cardinality(read) = page * Size
      /\ \A b \in read : sentAt[b] >= sentAt[a]
  <2>1. Offset + Size \in Nat
    BY <1>3
  <2>. QED
    BY <1>1, <1>2, <1>3, <1>7, <2>1, OutsideFirst
<1>9. read \subseteq NewerIn(Matching, a)
  <2>1. SUFFICES ASSUME NEW b \in read, sentAt[b] = sentAt[a] PROVE FALSE
    BY <1>2, <1>4, <1>8 DEF NewerIn
  <2>2. b \in skipped
    BY <1>1, <1>2, <2>1 DEF Tied
  <2>3. Cardinality(NewerIn(Matching, b)) < Offset
    BY <1>1, <1>2, <1>3, <2>2, NewerThanFirst
  <2>4. NewerIn(Matching, b) = NewerIn(Matching, a)
    BY <2>1 DEF NewerIn
  <2>5. NewerIn(Matching, a) \in SUBSET Alerts
    BY <1>2 DEF NewerIn
  <2>6. Cardinality(NewerIn(Matching, a)) \in Nat
    BY <2>5, SubsetsOfAlerts
  <2>. QED
    BY <1>3, <1>5, <2>3, <2>4, <2>6
<1>10. NewerIn(Matching, a) \in SUBSET Alerts
  BY <1>2 DEF NewerIn
<1>. QED
  BY <1>8, <1>9, <1>10, SubsetsOfAlerts

LEMMA SelectKeepsIInv ==
    ASSUME IInv, TypeOK', Select
    PROVE  IInv'
<1>. USE BoundsAreNatural
<1>1. /\ UNCHANGED <<workers, typeFilter, page, total, present>>
      /\ phase = "selecting" /\ phase' = "shown"
      /\ seen' = seen \cup items'
      /\ furthest' = IF furthest < page THEN page ELSE furthest
      /\ raced' = (total # Cardinality(Matching))
  BY DEF Select
<1>2. Matching' = Matching
  BY <1>1 DEF Matching, Matches, workers
<1>3. /\ TypeOK /\ Matching \in SUBSET Alerts /\ Cardinality(Matching) \in Nat
      /\ page \in Nat \ {0} /\ furthest \in Nat /\ total \in Nat
      /\ sentAt \in [Alerts -> Nat] /\ sentAt' = sentAt
      /\ present \subseteq Matching
  BY <1>1, MatchingIsOk DEF IInv, TypeOK, WalkOk, workers
<1>4. PICK skipped \in First(Matching, Offset), read \in First(Matching, Offset + Size) :
         skipped \subseteq read /\ items' = read \ skipped
  BY DEF Select
<1>5. DraftsApart'
  BY <1>1 DEF IInv, DraftsApart, workers
<1>6. WalkOk'
  <2>1. items' \subseteq Matching
    BY <1>4 DEF First
  <2>. QED
    BY <1>1, <1>2, <2>1 DEF IInv, WalkOk
<1>7. CountOk' /\ PageOk' /\ FurthestOk'
  BY <1>1, <1>2, <1>3 DEF IInv, CountOk, PageOk, FurthestOk
<1>8. \A a \in present \ seen' : Tied(a)' \/ Cardinality(NewerIn(Matching, a)) >= page * Size
  BY SelectGoesDeeper
<1>9. \A a \in present \ seen' : Tied(a) => Tied(a)'
  BY <1>1, <1>3 DEF Tied
<1>10. \A a \in Alerts : NewerIn(Matching, a)' = NewerIn(Matching, a)
  BY <1>2, <1>3 DEF NewerIn
<1>11. Deep'
  <2>1. SUFFICES ASSUME NEW a \in present \ seen', ~Tied(a)'
                 PROVE  Cardinality(NewerIn(Matching, a)) >= furthest' * Size
    BY <1>1, <1>3, <1>10 DEF Deep
  <2>2. Cardinality(NewerIn(Matching, a)) >= furthest * Size
    BY <1>1, <1>9, <2>1 DEF IInv, Deep
  <2>. QED
    BY <1>1, <1>8, <2>1, <2>2
<1>12. OnlyTiesAreSkipped'
  <2>1. SUFFICES ASSUME AtTheEnd', ~raced', NEW a \in present \ seen', ~Tied(a)'
                 PROVE  FALSE
    BY <1>1 DEF OnlyTiesAreSkipped, Tied
  <2>2. total = Cardinality(Matching) /\ page = Pages
    BY <1>1, <2>1 DEF AtTheEnd, Pages
  <2>3. total <= page * Size
    BY <1>3, <2>2, PagesHoldAll
  <2>4. Cardinality(NewerIn(Matching, a)) >= page * Size
    BY <1>8, <2>1
  <2>5. NewerIn(Matching, a) \in SUBSET Matching /\ a \in Matching \ NewerIn(Matching, a)
    BY <1>3 DEF NewerIn
  <2>6. Cardinality(NewerIn(Matching, a)) < Cardinality(Matching)
    BY <1>3, <2>5, ProperSubsetsOfAlerts
  <2>7. Cardinality(NewerIn(Matching, a)) \in Nat /\ page * Size \in Nat
    BY <1>3, <2>5, SubsetsOfAlerts
  <2>. QED
    BY <1>3, <2>2, <2>3, <2>4, <2>6, <2>7
<1>13. NobodyIsStranded'
  <2>1. SUFFICES ASSUME page # 1 PROVE items' # {}
    BY <1>1 DEF NobodyIsStranded
  <2>2. (page - 1) * Size < Cardinality(Matching)
    BY <2>1 DEF IInv, PageOk
  <2>3. Offset \in Nat /\ Offset < Cardinality(Matching)
    BY <1>3, <2>2 DEF Offset
  <2>4. /\ Cardinality(skipped) = Offset
        /\ skipped \subseteq Matching /\ read \subseteq Matching
        /\ Cardinality(read) =
             IF Offset + Size < Cardinality(Matching) THEN Offset + Size ELSE Cardinality(Matching)
    BY <1>4, <2>3 DEF First
  <2>5. Cardinality(read) # Cardinality(skipped)
    BY <1>3, <2>3, <2>4
  <2>. QED
    BY <1>4, <2>5
<1>. QED
  BY <1>5, <1>6, <1>7, <1>11, <1>12, <1>13 DEF IInv

LEMMA NextIInv == IInv /\ [Next]_vars => IInv'
<1>. SUFFICES ASSUME IInv, [Next]_vars PROVE IInv'
  OBVIOUS
<1>1. CASE UNCHANGED vars
  <2>1. /\ Matching' = Matching /\ Pages' = Pages
        /\ \A a : Tied(a)' <=> Tied(a)
        /\ \A a : NewerIn(Matching, a)' = NewerIn(Matching, a)
    BY <1>1 DEF vars, Matching, Matches, Pages, Tied, NewerIn
  <2>2. TypeOK' /\ DraftsApart' /\ WalkOk' /\ CountOk' /\ PageOk' /\ FurthestOk'
    BY <1>1, <2>1 DEF vars, IInv, TypeOK, DraftsApart, WalkOk, CountOk, PageOk, FurthestOk
  <2>3. Deep'
    BY <1>1, <2>1 DEF vars, IInv, Deep
  <2>4. OnlyTiesAreSkipped' /\ NobodyIsStranded'
    BY <1>1, <2>1 DEF vars, IInv, OnlyTiesAreSkipped, NobodyIsStranded, AtTheEnd
  <2>. QED
    BY <2>2, <2>3, <2>4 DEF IInv
<1>2. CASE Next
  <2>1. TypeOK'
    BY <1>2, NextTypeOK DEF IInv
  <2>2. CASE \E w \in Ticks : Worker(w)
    BY <2>1, <2>2, WorkerKeepsIInv
  <2>3. CASE \E f \in Types \cup {All} : Begins(f)
    BY <2>1, <2>3, BeginsKeepsIInv
  <2>4. CASE Select
    BY <2>1, <2>4, SelectKeepsIInv
  <2>5. CASE Count \/ Fail \/ Refetch \/ NextPage \/ PreviousPage
    BY <2>1, <2>5, AskingKeepsIInv
  <2>. QED
    BY <1>2, <2>2, <2>3, <2>4, <2>5 DEF Next, Reader, Open, ChangeFilter
<1>. QED
  BY <1>1, <1>2

LEMMA IInvHolds == Spec => []IInv
BY InitIInv, NextIInv, PTL DEF Spec

-----------------------------------------------------------------------------

\* Types of what the workers wrote and of what the reader saw.
THEOREM TypeCorrect == Spec => []TypeOK
<1>1. IInv => TypeOK
  BY DEF IInv
<1>. QED
  BY <1>1, IInvHolds, PTL

\* A walk through all pages of the notification history skips only alerts that
\* are tied with one that it showed, or that were displaced between the two
\* statements of the last page: for any size of the page, and any number of
\* transactions that commit while it lasts.
THEOREM WalkIsComplete == Spec => []OnlyTiesAreSkipped
<1>1. IInv => OnlyTiesAreSkipped
  BY DEF IInv
<1>. QED
  BY <1>1, IInvHolds, PTL

\* The reader never stands on an empty page behind the first.
THEOREM NoEmptyPage == Spec => []NobodyIsStranded
<1>1. IInv => NobodyIsStranded
  BY DEF IInv
<1>. QED
  BY <1>1, IInvHolds, PTL
=============================================================================
