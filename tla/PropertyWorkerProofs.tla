------------------------ MODULE PropertyWorkerProofs -------------------------
(***************************************************************************)
(* Proofs about PropertyWorker, for any properties, prices and numbers of  *)
(* ticks, faults and entries.  The invariant IInv says what a tick may     *)
(* rely on from the load of its rows to the commit of one: its draft is    *)
(* there exactly if the price fell below the loaded one, and the loaded    *)
(* price is the stored one unless ticks have overlapped.                   *)
(***************************************************************************)
EXTENDS PropertyWorker, FiniteSetTheorems, TLAPS

\* The parts of TypeOK.
StoreTypes ==
    /\ state  \in [Tracked -> {"absent", "active", "inactive"}]
    /\ due    \in [Tracked -> BOOLEAN]
    /\ lowest \in [Tracked -> Prices \cup {NoPrice}]
    /\ linked \in BOOLEAN

HistoryTypes ==
    /\ log       \in [Tracked -> Seq(Alert)]
    /\ snapshots \in [Tracked -> Seq(Prices)]
    /\ told      \in [Tracked -> Seq(Prices)]

RowTypes ==
    /\ checkedIn \in [Tracked -> BOOLEAN]
    /\ lock      \in [Tracked -> Ticks \cup {NoTick}]

TickTypes ==
    /\ pc      \in [Ticks -> {"idle", "next", "expire", "scrape", "notify", "update"}]
    /\ queue   \in [Ticks -> SUBSET Tracked]
    /\ loaded  \in [Ticks -> [Tracked -> Prices \cup {NoPrice}]]
    /\ cur     \in [Ticks -> Tracked]
    /\ expired \in [Ticks -> SUBSET Tracked]

DraftTypes ==
    /\ chat  \in [Ticks -> BOOLEAN]
    /\ price \in [Ticks -> Prices \cup {NoPrice}]
    /\ draft \in [Ticks -> Statuses \cup {"none"}]

CountTypes == overlapped \in BOOLEAN /\ faults \in 0..MaxFaults

Types == StoreTypes /\ HistoryTypes /\ RowTypes /\ TickTypes /\ DraftTypes /\ CountTypes

\* A tick has taken a row from its queue.
Busy(w) == pc[w] \in {"expire", "scrape", "notify", "update"}

\* What a tick knows of the row in progress.
TickInv ==
    \A w \in Ticks :
        /\ Busy(w) => cur[w] \notin queue[w]
        /\ pc[w] \in {"notify", "update"} => price[w] \in Prices
        /\ pc[w] = "notify" => IsDrop(loaded[w][cur[w]], price[w])
        /\ draft[w] # "none" => pc[w] = "update"
        /\ pc[w] = "update" => (draft[w] # "none" <=> IsDrop(loaded[w][cur[w]], price[w]))

TInv == Types /\ TickInv

-----------------------------------------------------------------------------

LEMMA TypesAreTypeOK == Types <=> TypeOK
BY DEF Types, TypeOK, StoreTypes, HistoryTypes, RowTypes, TickTypes, DraftTypes, CountTypes

LEMMA PricesAreNumbers == Prices \subseteq Nat /\ NoPrice \notin Prices
BY CardsArePrices, NoPriceIsNoNumber DEF Prices, ParsePrice

LEMMA AnyRowIsTracked == AnyRow \in Tracked
BY SomethingToDo DEF AnyRow

LEMMA BlankType == Blank \in [Tracked -> Prices \cup {NoPrice}]
BY DEF Blank

LEMMA InitTypes == Init => TInv
<1> SUFFICES ASSUME Init PROVE TInv
  OBVIOUS
<1> USE AnyRowIsTracked, BlankType, BoundsAreNatural DEF Init
<1>1. StoreTypes /\ RowTypes
  BY DEF StoreTypes, RowTypes, Blank
<1>2. HistoryTypes
  BY DEF HistoryTypes
<1>3. TickTypes
  BY DEF TickTypes
<1>4. DraftTypes /\ CountTypes
  <2>1. faults \in 0..MaxFaults
    OBVIOUS
  <2>2. QED BY <2>1 DEF DraftTypes, CountTypes
<1>5. TickInv
  BY DEF TickInv, Busy
<1>6. QED BY <1>1, <1>2, <1>3, <1>4, <1>5 DEF TInv, Types

LEMMA TypesStep == ASSUME TInv, [Next]_vars PROVE TInv'
<1> USE DEF TInv, Types
<1>1. CASE \E t \in Tracked : Track(t)
  <2> PICK t \in Tracked : Track(t)
    BY <1>1
  <2> USE DEF Track, dbVars, tickVars
  <2>1. StoreTypes' /\ RowTypes'
    BY DEF StoreTypes, RowTypes, DraftTypes, TickInv, TickTypes
  <2>2. HistoryTypes' /\ TickTypes' /\ DraftTypes' /\ CountTypes'
    BY DEF HistoryTypes, TickTypes, DraftTypes, CountTypes
  <2>3. TickInv'
    BY DEF TickInv, Busy
  <2>4. QED BY <2>1, <2>2, <2>3 DEF TInv, Types
<1>2. CASE \E t \in Tracked : Reschedule(t)
  <2> PICK t \in Tracked : Reschedule(t)
    BY <1>2
  <2> USE DEF Reschedule, dbVars, tickVars
  <2>1. StoreTypes' /\ RowTypes'
    BY DEF StoreTypes, RowTypes, DraftTypes, TickInv, TickTypes
  <2>2. HistoryTypes' /\ TickTypes' /\ DraftTypes' /\ CountTypes'
    BY DEF HistoryTypes, TickTypes, DraftTypes, CountTypes
  <2>3. TickInv'
    BY DEF TickInv, Busy
  <2>4. QED BY <2>1, <2>2, <2>3 DEF TInv, Types
<1>3. CASE \E t \in Tracked : Untrack(t)
  <2> PICK t \in Tracked : Untrack(t)
    BY <1>3
  <2> USE DEF Untrack, dbVars, tickVars
  <2>1. StoreTypes' /\ RowTypes'
    BY DEF StoreTypes, RowTypes, DraftTypes, TickInv, TickTypes
  <2>2. HistoryTypes' /\ TickTypes' /\ DraftTypes' /\ CountTypes'
    BY DEF HistoryTypes, TickTypes, DraftTypes, CountTypes
  <2>3. TickInv'
    BY DEF TickInv, Busy
  <2>4. QED BY <2>1, <2>2, <2>3 DEF TInv, Types
<1>4. CASE \E t \in Tracked : BecomeDue(t)
  <2> PICK t \in Tracked : BecomeDue(t)
    BY <1>4
  <2> USE DEF BecomeDue, dbVars, tickVars
  <2>1. StoreTypes' /\ RowTypes'
    BY DEF StoreTypes, RowTypes, DraftTypes, TickInv, TickTypes
  <2>2. HistoryTypes' /\ TickTypes' /\ DraftTypes' /\ CountTypes'
    BY DEF HistoryTypes, TickTypes, DraftTypes, CountTypes
  <2>3. TickInv'
    BY DEF TickInv, Busy
  <2>4. QED BY <2>1, <2>2, <2>3 DEF TInv, Types
<1>5. CASE \E t \in Tracked : CheckIn(t)
  <2> PICK t \in Tracked : CheckIn(t)
    BY <1>5
  <2> USE DEF CheckIn, dbVars, tickVars
  <2>1. StoreTypes' /\ RowTypes'
    BY DEF StoreTypes, RowTypes, DraftTypes, TickInv, TickTypes
  <2>2. HistoryTypes' /\ TickTypes' /\ DraftTypes' /\ CountTypes'
    BY DEF HistoryTypes, TickTypes, DraftTypes, CountTypes
  <2>3. TickInv'
    BY DEF TickInv, Busy
  <2>4. QED BY <2>1, <2>2, <2>3 DEF TInv, Types
<1>6. CASE \E b \in BOOLEAN : SetLink(b)
  <2> PICK b \in BOOLEAN : SetLink(b)
    BY <1>6
  <2> USE DEF SetLink, dbVars, tickVars
  <2>1. StoreTypes' /\ RowTypes'
    BY DEF StoreTypes, RowTypes, DraftTypes, TickInv, TickTypes
  <2>2. HistoryTypes' /\ TickTypes' /\ DraftTypes' /\ CountTypes'
    BY DEF HistoryTypes, TickTypes, DraftTypes, CountTypes
  <2>3. TickInv'
    BY DEF TickInv, Busy
  <2>4. QED BY <2>1, <2>2, <2>3 DEF TInv, Types
<1>7. CASE \E w \in Ticks : StartTick(w)
  <2> PICK w \in Ticks : StartTick(w)
    BY <1>7
  <2> USE DEF StartTick, Overdue, dbVars, tickVars
  <2>1. StoreTypes' /\ RowTypes'
    BY DEF StoreTypes, RowTypes, DraftTypes, TickInv, TickTypes
  <2>2. HistoryTypes'
    BY DEF HistoryTypes, Alert, TickInv, TickTypes, DraftTypes
  <2>3. TickTypes' /\ CountTypes'
    BY AnyRowIsTracked, BlankType, BoundsAreNatural DEF TickTypes, CountTypes, StoreTypes
  <2>4. DraftTypes'
    BY OutcomesKnown DEF DraftTypes, Prices, Statuses, StoreTypes
  <2>5. TickInv'
    BY PricesAreNumbers DEF TickInv, Busy, TickTypes, DraftTypes, Statuses, Prices
  <2>6. QED BY <2>1, <2>2, <2>3, <2>4, <2>5 DEF TInv, Types
<1>8. CASE \E w \in Ticks, t \in Tracked : Take(w, t)
  <2> PICK w \in Ticks, t \in Tracked : Take(w, t)
    BY <1>8
  <2> USE DEF Take, dbVars, tickVars
  <2>1. StoreTypes' /\ RowTypes'
    BY DEF StoreTypes, RowTypes, DraftTypes, TickInv, TickTypes
  <2>2. HistoryTypes'
    BY DEF HistoryTypes, Alert, TickInv, TickTypes, DraftTypes
  <2>3. TickTypes' /\ CountTypes'
    BY AnyRowIsTracked, BlankType, BoundsAreNatural DEF TickTypes, CountTypes, StoreTypes
  <2>4. DraftTypes'
    BY OutcomesKnown DEF DraftTypes, Prices, Statuses, StoreTypes
  <2>5. TickInv'
    BY PricesAreNumbers DEF TickInv, Busy, TickTypes, DraftTypes, Statuses, Prices
  <2>6. QED BY <2>1, <2>2, <2>3, <2>4, <2>5 DEF TInv, Types
<1>9. CASE \E w \in Ticks : Expire(w)
  <2> PICK w \in Ticks : Expire(w)
    BY <1>9
  <2> USE DEF Expire, Finish, dbVars, tickVars
  <2>1. StoreTypes' /\ RowTypes'
    BY DEF StoreTypes, RowTypes, DraftTypes, TickInv, TickTypes
  <2>2. HistoryTypes'
    BY DEF HistoryTypes, Alert, TickInv, TickTypes, DraftTypes
  <2>3. TickTypes' /\ CountTypes'
    BY AnyRowIsTracked, BlankType, BoundsAreNatural DEF TickTypes, CountTypes, StoreTypes
  <2>4. DraftTypes'
    BY OutcomesKnown DEF DraftTypes, Prices, Statuses, StoreTypes
  <2>5. TickInv'
    BY PricesAreNumbers DEF TickInv, Busy, TickTypes, DraftTypes, Statuses, Prices
  <2>6. QED BY <2>1, <2>2, <2>3, <2>4, <2>5 DEF TInv, Types
<1>10. CASE \E w \in Ticks : ScrapeFails(w)
  <2> PICK w \in Ticks : ScrapeFails(w)
    BY <1>10
  <2> USE DEF ScrapeFails, Finish, dbVars, tickVars
  <2>1. StoreTypes' /\ RowTypes'
    BY DEF StoreTypes, RowTypes, DraftTypes, TickInv, TickTypes
  <2>2. HistoryTypes'
    BY DEF HistoryTypes, Alert, TickInv, TickTypes, DraftTypes
  <2>3. TickTypes' /\ CountTypes'
    BY AnyRowIsTracked, BlankType, BoundsAreNatural DEF TickTypes, CountTypes, StoreTypes
  <2>4. DraftTypes'
    BY OutcomesKnown DEF DraftTypes, Prices, Statuses, StoreTypes
  <2>5. TickInv'
    BY PricesAreNumbers DEF TickInv, Busy, TickTypes, DraftTypes, Statuses, Prices
  <2>6. QED BY <2>1, <2>2, <2>3, <2>4, <2>5 DEF TInv, Types
<1>11. CASE \E w \in Ticks, card \in Cards : ScrapeOk(w, card)
  <2> PICK w \in Ticks, card \in Cards : ScrapeOk(w, card)
    BY <1>11
  <2> USE DEF ScrapeOk, dbVars, tickVars
  <2>1. StoreTypes' /\ RowTypes'
    BY DEF StoreTypes, RowTypes, DraftTypes, TickInv, TickTypes
  <2>2. HistoryTypes'
    BY DEF HistoryTypes, Alert, TickInv, TickTypes, DraftTypes
  <2>3. TickTypes' /\ CountTypes'
    BY AnyRowIsTracked, BlankType, BoundsAreNatural DEF TickTypes, CountTypes, StoreTypes
  <2>4. DraftTypes'
    BY OutcomesKnown DEF DraftTypes, Prices, Statuses, StoreTypes
  <2>5. TickInv'
    BY PricesAreNumbers DEF TickInv, Busy, TickTypes, DraftTypes, Statuses, Prices
  <2>6. QED BY <2>1, <2>2, <2>3, <2>4, <2>5 DEF TInv, Types
<1>12. CASE \E w \in Ticks : Record(w)
  <2> PICK w \in Ticks : Record(w)
    BY <1>12
  <2> USE DEF Record, Flush, dbVars, tickVars
  <2>1. StoreTypes' /\ RowTypes'
    BY DEF StoreTypes, RowTypes, DraftTypes, TickInv, TickTypes
  <2>2. HistoryTypes'
    BY DEF HistoryTypes, Alert, TickInv, TickTypes, DraftTypes
  <2>3. TickTypes' /\ CountTypes'
    BY AnyRowIsTracked, BlankType, BoundsAreNatural DEF TickTypes, CountTypes, StoreTypes
  <2>4. DraftTypes'
    BY OutcomesKnown DEF DraftTypes, Prices, Statuses, StoreTypes
  <2>5. TickInv'
    BY PricesAreNumbers DEF TickInv, Busy, TickTypes, DraftTypes, Statuses, Prices
  <2>6. QED BY <2>1, <2>2, <2>3, <2>4, <2>5 DEF TInv, Types
<1>13. CASE \E w \in Ticks, o \in Outcomes : Send(w, o)
  <2> PICK w \in Ticks, o \in Outcomes : Send(w, o)
    BY <1>13
  <2> USE DEF Send, Flush, dbVars, tickVars
  <2>1. StoreTypes' /\ RowTypes'
    BY DEF StoreTypes, RowTypes, DraftTypes, TickInv, TickTypes
  <2>2. HistoryTypes'
    <3>1. price[w] \in Prices /\ cur[w] \in Tracked
      BY DEF TickInv, TickTypes
    <3>2. told' \in [Tracked -> Seq(Prices)]
      BY <3>1 DEF HistoryTypes
    <3>3. QED BY <3>2 DEF HistoryTypes
  <2>3. TickTypes' /\ CountTypes'
    BY AnyRowIsTracked, BlankType, BoundsAreNatural DEF TickTypes, CountTypes, StoreTypes
  <2>4. DraftTypes'
    BY OutcomesKnown DEF DraftTypes, Prices, Statuses, StoreTypes
  <2>5. TickInv'
    BY PricesAreNumbers DEF TickInv, Busy, TickTypes, DraftTypes, Statuses, Prices
  <2>6. QED BY <2>1, <2>2, <2>3, <2>4, <2>5 DEF TInv, Types
<1>14. CASE \E w \in Ticks : Commit(w)
  <2> PICK w \in Ticks : Commit(w)
    BY <1>14
  <2> USE DEF Commit, Finish, Release, SwitchedOff, NewLowest, dbVars, tickVars
  <2>1. StoreTypes' /\ RowTypes'
    BY DEF StoreTypes, RowTypes, DraftTypes, TickInv, TickTypes
  <2>2. HistoryTypes'
    <3> DEFINE entry == [before |-> loaded[w][cur[w]], after |-> price[w], status |-> draft[w]]
    <3>1. price[w] \in Prices /\ cur[w] \in Tracked
      BY DEF TickInv, TickTypes
    <3>2. draft[w] # "none" => entry \in Alert
      BY <3>1 DEF Alert, TickTypes, DraftTypes
    <3>3. \/ log' = log /\ snapshots' = snapshots
          \/ /\ draft[w] # "none"
             /\ log' = [log EXCEPT ![cur[w]] = Append(@, entry)]
             /\ snapshots' = [snapshots EXCEPT ![cur[w]] = Append(@, price[w])]
      OBVIOUS
    <3> HIDE DEF entry
    <3>4. log' \in [Tracked -> Seq(Alert)]
      <4>1. CASE log' = log
        BY <4>1 DEF HistoryTypes
      <4>2. CASE draft[w] # "none" /\ log' = [log EXCEPT ![cur[w]] = Append(@, entry)]
        <5>1. Append(log[cur[w]], entry) \in Seq(Alert)
          BY <3>1, <3>2, <4>2 DEF HistoryTypes
        <5>2. QED BY <4>2, <5>1 DEF HistoryTypes
      <4>3. QED BY <3>3, <4>1, <4>2
    <3>5. snapshots' \in [Tracked -> Seq(Prices)]
      <4>1. CASE snapshots' = snapshots
        BY <4>1 DEF HistoryTypes
      <4>2. CASE snapshots' = [snapshots EXCEPT ![cur[w]] = Append(@, price[w])]
        BY <3>1, <4>2 DEF HistoryTypes
      <4>3. QED BY <3>3, <4>1, <4>2
    <3>6. told' = told
      OBVIOUS
    <3>7. QED BY <3>4, <3>5, <3>6 DEF HistoryTypes
  <2>3. TickTypes' /\ CountTypes'
    BY AnyRowIsTracked, BlankType, BoundsAreNatural DEF TickTypes, CountTypes, StoreTypes
  <2>4. DraftTypes'
    BY OutcomesKnown DEF DraftTypes, Prices, Statuses, StoreTypes
  <2>5. TickInv'
    BY PricesAreNumbers DEF TickInv, Busy, TickTypes, DraftTypes, Statuses, Prices
  <2>6. QED BY <2>1, <2>2, <2>3, <2>4, <2>5 DEF TInv, Types
<1>15. CASE \E w \in Ticks : EndTick(w)
  <2> PICK w \in Ticks : EndTick(w)
    BY <1>15
  <2> USE DEF EndTick, Release, SwitchedOff, dbVars, tickVars
  <2>1. StoreTypes' /\ RowTypes'
    BY DEF StoreTypes, RowTypes, DraftTypes, TickInv, TickTypes
  <2>2. HistoryTypes'
    BY DEF HistoryTypes, Alert, TickInv, TickTypes, DraftTypes
  <2>3. TickTypes' /\ CountTypes'
    BY AnyRowIsTracked, BlankType, BoundsAreNatural DEF TickTypes, CountTypes, StoreTypes
  <2>4. DraftTypes'
    BY OutcomesKnown DEF DraftTypes, Prices, Statuses, StoreTypes
  <2>5. TickInv'
    BY PricesAreNumbers DEF TickInv, Busy, TickTypes, DraftTypes, Statuses, Prices
  <2>6. QED BY <2>1, <2>2, <2>3, <2>4, <2>5 DEF TInv, Types
<1>16. CASE \E w \in Ticks : Fault(w) \/ DeadlockVictim(w)
  <2> PICK w \in Ticks : Fault(w) \/ DeadlockVictim(w)
    BY <1>16
  <2>a. Die(w)
    BY DEF Fault, DeadlockVictim
  <2>b. faults' \in 0..MaxFaults
    BY BoundsAreNatural DEF Fault, DeadlockVictim, CountTypes
  <2> USE <2>a, <2>b DEF Die, Release, dbVars
  <2>1. StoreTypes' /\ RowTypes'
    BY DEF StoreTypes, RowTypes, DraftTypes, TickInv, TickTypes
  <2>2. HistoryTypes'
    BY DEF HistoryTypes, Alert, TickInv, TickTypes, DraftTypes
  <2>3. TickTypes' /\ CountTypes'
    <3>1. TickTypes'
      BY AnyRowIsTracked, BlankType DEF TickTypes
    <3>2. overlapped' = overlapped
      OBVIOUS
    <3>3. QED BY <3>1, <3>2 DEF CountTypes
  <2>4. DraftTypes'
    BY DEF DraftTypes
  <2>5. TickInv'
    <3>1. pc'[w] = "idle" /\ draft'[w] = "none"
      BY DEF TickTypes, DraftTypes
    <3>2. \A v \in Ticks \ {w} : /\ pc'[v] = pc[v] /\ cur'[v] = cur[v] /\ queue'[v] = queue[v]
                                  /\ loaded'[v] = loaded[v] /\ price'[v] = price[v]
                                  /\ draft'[v] = draft[v]
      BY DEF TickTypes, DraftTypes
    <3>3. QED BY <3>1, <3>2 DEF TickInv, Busy
  <2>6. QED BY <2>1, <2>2, <2>3, <2>4, <2>5 DEF TInv, Types
<1>17. CASE UNCHANGED vars
  BY <1>17 DEF vars, TInv, Types, StoreTypes, HistoryTypes, RowTypes, TickTypes, DraftTypes, CountTypes, TickInv, Busy
<1>18. QED
  BY <1>1, <1>2, <1>3, <1>4, <1>5, <1>6, <1>7, <1>8, <1>9, <1>10, <1>11, <1>12, <1>13, <1>14, <1>15, <1>16, <1>17
     DEF Next, User, TickStep, Notify

-----------------------------------------------------------------------------
(***************************************************************************)
(* The row locks, and the rows that were switched off.                     *)
(***************************************************************************)

\* A step of the tick w leaves the other ticks' locks and expired rows alone.
ReleasedBy(w) ==
    /\ lock' = [t \in Tracked |-> IF lock[t] = w THEN NoTick ELSE lock[t]]
    /\ expired' = [expired EXCEPT ![w] = {}]

LEMMA ReleaseKeepsLocks ==
    ASSUME TInv, LocksAreExpiries, NEW w \in Ticks, ReleasedBy(w)
    PROVE  LocksAreExpiries'
BY NoTickIsNoTick DEF TInv, Types, RowTypes, TickTypes, LocksAreExpiries, ReleasedBy

LEMMA LocksStep ==
    ASSUME TInv, LocksAreExpiries, [Next]_vars
    PROVE  LocksAreExpiries'
<1>1. CASE UNCHANGED <<lock, expired>>
  BY <1>1 DEF LocksAreExpiries
<1>2. CASE User
  BY <1>1, <1>2 DEF User, Track, Reschedule, Untrack, BecomeDue, CheckIn, SetLink, tickVars
<1>3. CASE \E w \in Ticks : StartTick(w) \/ ScrapeFails(w) \/ Notify(w)
                              \/ \E t \in Tracked : Take(w, t)
  BY <1>1, <1>3 DEF StartTick, ScrapeFails, Notify, Record, Send, Flush, Take
<1>4. CASE \E w \in Ticks, card \in Cards : ScrapeOk(w, card)
  BY <1>1, <1>4 DEF ScrapeOk
<1>5. CASE \E w \in Ticks : Expire(w)
  BY <1>5, NoTickIsNoTick DEF Expire, TInv, Types, RowTypes, TickTypes, LocksAreExpiries
<1>6. CASE \E w \in Ticks : Commit(w) \/ EndTick(w)
  BY <1>6, ReleaseKeepsLocks DEF Commit, EndTick, Release, ReleasedBy
<1>7. CASE \E w \in Ticks : Fault(w) \/ DeadlockVictim(w)
  <2> PICK w \in Ticks : Fault(w) \/ DeadlockVictim(w)
    BY <1>7
  <2>1. Die(w)
    BY DEF Fault, DeadlockVictim
  <2>2. QED BY <2>1, ReleaseKeepsLocks DEF Die, Release, ReleasedBy
<1>8. CASE UNCHANGED vars
  BY <1>1, <1>8 DEF vars
<1>9. QED
  BY <1>2, <1>3, <1>4, <1>5, <1>6, <1>7, <1>8 DEF Next, TickStep

LEMMA InactiveStep ==
    ASSUME TInv, [Next]_vars, NEW t \in Tracked, state[t] = "inactive"
    PROVE  state'[t] = "inactive"
<1> USE DEF TInv, Types, StoreTypes
<1>1. CASE User
  BY <1>1 DEF User, Track, Reschedule, Untrack, BecomeDue, CheckIn, SetLink, dbVars
<1>2. CASE \E w \in Ticks : StartTick(w) \/ ScrapeFails(w) \/ Notify(w) \/ Expire(w)
                              \/ \E r \in Tracked : Take(w, r)
  BY <1>2 DEF StartTick, ScrapeFails, Notify, Record, Send, Flush, Expire, Take, dbVars
<1>3. CASE \E w \in Ticks, card \in Cards : ScrapeOk(w, card)
  BY <1>3 DEF ScrapeOk, dbVars
<1>4. CASE \E w \in Ticks : Commit(w) \/ EndTick(w)
  BY <1>4 DEF Commit, EndTick, SwitchedOff
<1>5. CASE \E w \in Ticks : Fault(w) \/ DeadlockVictim(w)
  BY <1>5 DEF Fault, DeadlockVictim, Die, dbVars
<1>6. CASE UNCHANGED vars
  BY <1>6 DEF vars
<1>7. QED
  BY <1>1, <1>2, <1>3, <1>4, <1>5, <1>6 DEF Next, TickStep

\* What a step has to keep of a row that nobody is at work on.
Silent(t) ==
    /\ told'[t] = told[t] /\ log'[t] = log[t] /\ lowest'[t] = lowest[t]
    /\ \A w \in Ticks : ~AtWork(w, t)'

LEMMA SilentStep ==
    ASSUME TInv, [Next]_vars, NEW t \in Tracked, Abandoned(t)
    PROVE  Silent(t)
<1> USE DEF TInv, Types, StoreTypes, HistoryTypes, TickTypes, dbVars, tickVars, Abandoned, Silent
<1>1. CASE UNCHANGED vars \/ User
  BY <1>1 DEF vars, AtWork, User, Track, Reschedule, Untrack, BecomeDue, CheckIn, SetLink
<1>2. ASSUME NEW w \in Ticks, StartTick(w) PROVE Silent(t)
  BY <1>2 DEF StartTick, Overdue, AtWork
<1>3. ASSUME NEW w \in Ticks, NEW r \in Tracked, Take(w, r) PROVE Silent(t)
  BY <1>3 DEF Take, AtWork
<1>4. ASSUME NEW w \in Ticks, ScrapeFails(w) \/ Expire(w) \/ EndTick(w) PROVE Silent(t)
  BY <1>4 DEF ScrapeFails, Expire, EndTick, Finish, AtWork
<1>5. ASSUME NEW w \in Ticks, NEW card \in Cards, ScrapeOk(w, card) PROVE Silent(t)
  BY <1>5 DEF ScrapeOk, AtWork
<1>6. ASSUME NEW w \in Ticks, Notify(w) PROVE Silent(t)
  <2>1. cur[w] # t
    BY <1>6 DEF Notify, Record, Send, Flush, AtWork
  <2>2. told'[t] = told[t]
    BY <1>6, <2>1 DEF Notify, Record, Send
  <2>3. QED BY <1>6, <2>1, <2>2 DEF Notify, Record, Send, Flush, AtWork
<1>7. ASSUME NEW w \in Ticks, Commit(w) PROVE Silent(t)
  <2>1. cur[w] # t /\ told' = told
    BY <1>7 DEF Commit, AtWork
  <2>2. log'[t] = log[t] /\ lowest'[t] = lowest[t]
    BY <1>7, <2>1 DEF Commit
  <2>3. \A v \in Ticks : ~AtWork(v, t)'
    BY <1>7 DEF Commit, Finish, AtWork
  <2>4. QED BY <2>1, <2>2, <2>3
<1>8. ASSUME NEW w \in Ticks, Fault(w) \/ DeadlockVictim(w) PROVE Silent(t)
  <2>1. Die(w)
    BY <1>8 DEF Fault, DeadlockVictim
  <2>2. QED BY <2>1 DEF Die, AtWork
<1>9. QED
  BY <1>1, <1>2, <1>3, <1>4, <1>5, <1>6, <1>7, <1>8 DEF Next, TickStep

-----------------------------------------------------------------------------
(***************************************************************************)
(* What the user was told.                                                 *)
(***************************************************************************)

\* The prices that the user has received, each with its property.
Received ==
    {e \in Tracked \X Prices : \E k \in 1..Len(told[e[1]]) : told[e[1]][k] = e[2]}

DraftIsTold ==
    \A w \in Ticks :
        pc[w] = "update" /\ draft[w] = "sent" => <<cur[w], price[w]>> \in Received

LogIsTold ==
    \A t \in Tracked : \A j \in 1..Len(log[t]) :
        log[t][j].status = "sent" => <<t, log[t][j].after>> \in Received

LEMMA ToldGrows ==
    ASSUME told \in [Tracked -> Seq(Prices)], NEW c \in Tracked, NEW p \in Prices,
           told' = [told EXCEPT ![c] = Append(@, p)]
    PROVE  Received \subseteq Received' /\ <<c, p>> \in Received'
<1>1. Len(told'[c]) = Len(told[c]) + 1 /\ told'[c][Len(told[c]) + 1] = p
  OBVIOUS
<1>2. \A t \in Tracked : /\ Len(told[t]) \in Nat /\ Len(told[t]) <= Len(told'[t])
                         /\ Len(told'[t]) \in Nat
                         /\ \A k \in 1..Len(told[t]) : told'[t][k] = told[t][k]
  OBVIOUS
<1>3. Len(told[c]) + 1 \in 1..Len(told'[c])
  BY <1>1, <1>2
<1>4. \E k \in 1..Len(told'[c]) : told'[c][k] = p
  BY <1>1, <1>3
<1>5. ASSUME NEW e \in Received
      PROVE  e \in Received'
  <2>1. PICK k \in 1..Len(told[e[1]]) : told[e[1]][k] = e[2]
    BY DEF Received
  <2>2. e \in Tracked \X Prices
    BY DEF Received
  <2>3. k \in 1..Len(told'[e[1]]) /\ told'[e[1]][k] = e[2]
    BY <1>2, <2>1, <2>2
  <2>4. QED BY <2>2, <2>3 DEF Received
<1>6. QED BY <1>4, <1>5 DEF Received

\* What is known to have been received stays so if the log and the drafts do.
LEMMA ReceivedKept ==
    ASSUME DraftIsTold, LogIsTold, UNCHANGED log, Received \subseteq Received',
           \A w \in Ticks : pc'[w] = "update" /\ draft'[w] = "sent" =>
               \/ <<cur'[w], price'[w]>> \in Received'
               \/ /\ pc[w] = "update" /\ draft[w] = "sent"
                  /\ cur'[w] = cur[w] /\ price'[w] = price[w]
    PROVE  DraftIsTold' /\ LogIsTold'
BY DEF DraftIsTold, LogIsTold

\* An element of an extended sequence is the new one or was there before.
LEMMA AppendedElement ==
    ASSUME NEW S, NEW s \in Seq(S), NEW e \in S, NEW j \in 1..Len(Append(s, e))
    PROVE  \/ Append(s, e)[j] = e
           \/ j \in 1..Len(s) /\ Append(s, e)[j] = s[j]
<1>1. CASE j = Len(s) + 1
  BY <1>1
<1>2. CASE j # Len(s) + 1
  BY <1>2
<1>3. QED BY <1>1, <1>2

LEMMA ToldStep ==
    ASSUME TInv, DraftIsTold, LogIsTold, [Next]_vars
    PROVE  DraftIsTold' /\ LogIsTold'
<1> USE DEF TInv, Types, TickTypes, DraftTypes
<1>0. told' = told => Received' = Received
  BY DEF Received
<1>1. CASE User
  BY <1>0, <1>1, ReceivedKept
     DEF User, Track, Reschedule, Untrack, BecomeDue, CheckIn, SetLink, dbVars, tickVars
<1>2. CASE \E w \in Ticks : StartTick(w) \/ ScrapeFails(w) \/ Expire(w) \/ EndTick(w) \/ Record(w)
                              \/ \E t \in Tracked : Take(w, t)
  BY <1>0, <1>2, ReceivedKept
     DEF StartTick, ScrapeFails, Expire, Finish, EndTick, Record, Flush, Take, dbVars
<1>3. CASE \E w \in Ticks, card \in Cards : ScrapeOk(w, card)
  BY <1>0, <1>3, ReceivedKept DEF ScrapeOk, TickInv, dbVars
<1>4. CASE \E w \in Ticks, o \in Outcomes : Send(w, o)
  <2> PICK w \in Ticks, o \in Outcomes : Send(w, o)
    BY <1>4
  <2>1. cur[w] \in Tracked /\ price[w] \in Prices /\ UNCHANGED <<log, cur, price>>
    BY DEF Send, Flush, TickInv, dbVars
  <2>2. \A v \in Ticks \ {w} : pc'[v] = pc[v] /\ draft'[v] = draft[v]
    BY DEF Send, Flush
  <2>3. CASE o = "failed"
    <3>1. told' = told /\ draft'[w] = "failed"
      BY <2>3 DEF Send, Flush
    <3>2. QED BY <1>0, <2>1, <2>2, <3>1, ReceivedKept
  <2>4. CASE o # "failed"
    <3>1. told' = [told EXCEPT ![cur[w]] = Append(@, price[w])]
      BY <2>4 DEF Send
    <3>2. Received \subseteq Received' /\ <<cur[w], price[w]>> \in Received'
      BY <2>1, <3>1, ToldGrows DEF HistoryTypes
    <3>3. QED BY <2>1, <2>2, <3>2, ReceivedKept
  <2>5. QED BY <2>3, <2>4
<1>5. CASE \E w \in Ticks : Commit(w)
  <2> PICK w \in Ticks : Commit(w)
    BY <1>5
  <2>1. Received' = Received
    BY <1>0 DEF Commit
  <2>2. DraftIsTold'
    <3>1. pc'[w] = "next"
      BY DEF Commit, Finish
    <3>2. \A v \in Ticks \ {w} : /\ pc'[v] = pc[v] /\ draft'[v] = draft[v]
                                  /\ cur'[v] = cur[v] /\ price'[v] = price[v]
      BY DEF Commit, Finish
    <3>3. QED BY <2>1, <3>1, <3>2 DEF DraftIsTold
  <2>3. LogIsTold'
    <3> DEFINE entry == [before |-> loaded[w][cur[w]], after |-> price[w], status |-> draft[w]]
    <3>1. cur[w] \in Tracked /\ log \in [Tracked -> Seq(Alert)] /\ price[w] \in Prices
      BY DEF Commit, TickInv, HistoryTypes
    <3>2. CASE draft[w] = "none"
      BY <2>1, <3>2 DEF Commit, LogIsTold
    <3>3. CASE draft[w] # "none"
      <4>1. log' = [log EXCEPT ![cur[w]] = Append(@, entry)]
        BY <3>3 DEF Commit
      <4>2. entry.after = price[w] /\ entry.status = draft[w]
        OBVIOUS
      <4>3. entry \in Alert
        BY <3>1, <3>3 DEF Alert
      <4>4. draft[w] = "sent" => <<cur[w], entry.after>> \in Received
        BY <4>2 DEF DraftIsTold, Commit
      <4> HIDE DEF entry
      <4>5. ASSUME NEW t \in Tracked, NEW j \in 1..Len(log'[t]), log'[t][j].status = "sent"
            PROVE  <<t, log'[t][j].after>> \in Received
        <5>1. CASE t = cur[w]
          <6>1. log[t] \in Seq(Alert) /\ log'[t] = Append(log[t], entry)
            BY <3>1, <4>1, <5>1
          <6>2. j \in 1..Len(Append(log[t], entry))
            BY <4>5, <6>1
          <6>3. \/ log'[t][j] = entry
                \/ j \in 1..Len(log[t]) /\ log'[t][j] = log[t][j]
            BY <4>3, <6>1, <6>2, AppendedElement
          <6>4. CASE log'[t][j] = entry
            BY <4>2, <4>4, <4>5, <5>1, <6>4
          <6>5. CASE j \in 1..Len(log[t]) /\ log'[t][j] = log[t][j]
            BY <4>5, <6>5 DEF LogIsTold
          <6>6. QED BY <6>3, <6>4, <6>5
        <5>2. CASE t # cur[w]
          <6>1. log'[t] = log[t]
            BY <3>1, <4>1, <5>2
          <6>2. QED BY <4>5, <6>1 DEF LogIsTold
        <5>3. QED BY <5>1, <5>2
      <4>6. QED BY <2>1, <4>5 DEF LogIsTold
    <3>4. QED BY <3>2, <3>3
  <2>4. QED BY <2>2, <2>3
<1>6. CASE \E w \in Ticks : Fault(w) \/ DeadlockVictim(w)
  <2> PICK w \in Ticks : Fault(w) \/ DeadlockVictim(w)
    BY <1>6
  <2>1. Die(w)
    BY DEF Fault, DeadlockVictim
  <2>2. QED BY <1>0, <2>1, ReceivedKept DEF Die, dbVars
<1>7. CASE UNCHANGED vars
  BY <1>0, <1>7, ReceivedKept DEF vars
<1>8. QED
  BY <1>1, <1>2, <1>3, <1>4, <1>5, <1>6, <1>7 DEF Next, TickStep, Notify

-----------------------------------------------------------------------------
(***************************************************************************)
(* What a tick compares with.                                              *)
(***************************************************************************)

\* Unless ticks have overlapped there is one at most, and it knows the prices.
LoadedIsLowest ==
    ~overlapped =>
        /\ \A v, w \in Ticks : pc[v] # "idle" /\ pc[w] # "idle" => v = w
        /\ \A w \in Ticks : pc[w] # "idle" =>
             \A t \in Tracked : t \in queue[w] \/ (Busy(w) /\ t = cur[w]) =>
                loaded[w][t] = lowest[t]

\* A step within a tick, or none, that writes no price.
Within ==
    /\ UNCHANGED <<lowest, overlapped>>
    /\ \A w \in Ticks :
         pc'[w] # "idle" =>
            /\ pc[w] # "idle" /\ loaded'[w] = loaded[w] /\ queue'[w] \subseteq queue[w]
            /\ Busy(w)' => cur'[w] \in queue[w] \/ (Busy(w) /\ cur'[w] = cur[w])

LEMMA WithinKeeps ==
    ASSUME Types, LoadedIsLowest, Within
    PROVE  LoadedIsLowest'
BY DEF LoadedIsLowest, Within, Types, TickTypes

LEMMA LoadedStep ==
    ASSUME TInv, LoadedIsLowest, [Next]_vars
    PROVE  LoadedIsLowest'
<1> USE DEF TInv, Types, TickTypes
<1>0. CASE Within
  BY <1>0, WithinKeeps
<1>1. CASE User
  BY <1>0, <1>1 DEF Within, Busy, User, Track, Reschedule, Untrack, BecomeDue, CheckIn, SetLink,
                    dbVars, tickVars
<1>2. CASE \E w \in Ticks : StartTick(w)
  <2> PICK w \in Ticks : StartTick(w)
    BY <1>2
  <2>1. /\ lowest' = lowest /\ loaded' = [loaded EXCEPT ![w] = lowest]
        /\ queue' = [queue EXCEPT ![w] = Overdue] /\ pc' = [pc EXCEPT ![w] = "next"]
        /\ overlapped' <=> overlapped \/ \E v \in Ticks : pc[v] # "idle"
    BY DEF StartTick, dbVars
  <2> SUFFICES ASSUME ~overlapped' PROVE LoadedIsLowest'
    BY DEF LoadedIsLowest
  <2>2. \A v \in Ticks : pc[v] = "idle"
    BY <2>1
  <2>3. \A v \in Ticks \ {w} : pc'[v] = "idle"
    BY <2>1, <2>2
  <2>4. pc'[w] = "next" /\ loaded'[w] = lowest'
    BY <2>1
  <2>5. QED BY <2>3, <2>4 DEF LoadedIsLowest, Busy
<1>3. CASE \E w \in Ticks, t \in Tracked : Take(w, t)
  BY <1>0, <1>3 DEF Within, Busy, Take, dbVars
<1>4. CASE \E w \in Ticks : Expire(w) \/ ScrapeFails(w) \/ EndTick(w)
  BY <1>0, <1>4 DEF Within, Busy, Expire, ScrapeFails, Finish, EndTick, dbVars
<1>5. CASE \E w \in Ticks, card \in Cards : ScrapeOk(w, card)
  BY <1>0, <1>5 DEF Within, Busy, ScrapeOk, dbVars
<1>6. CASE \E w \in Ticks : Notify(w)
  BY <1>0, <1>6 DEF Within, Busy, Notify, Record, Send, Flush, dbVars
<1>7. CASE \E w \in Ticks : Commit(w)
  <2> PICK w \in Ticks : Commit(w)
    BY <1>7
  <2>1. /\ UNCHANGED <<queue, loaded, overlapped>> /\ pc[w] = "update"
        /\ pc' = [pc EXCEPT ![w] = "next"]
        /\ \A t \in Tracked \ {cur[w]} : lowest'[t] = lowest[t]
    BY DEF Commit, Finish, StoreTypes
  <2> SUFFICES ASSUME ~overlapped PROVE LoadedIsLowest'
    BY <2>1 DEF LoadedIsLowest
  <2>2. \A v \in Ticks \ {w} : pc[v] = "idle" /\ pc'[v] = "idle"
    BY <2>1 DEF LoadedIsLowest
  <2>3. cur[w] \notin queue[w]
    BY <2>1 DEF TickInv, Busy
  <2>4. \A t \in queue[w] : loaded[w][t] = lowest[t] /\ lowest'[t] = lowest[t]
    BY <2>1, <2>3 DEF LoadedIsLowest
  <2>5. QED BY <2>1, <2>2, <2>4 DEF LoadedIsLowest, Busy
<1>8. CASE \E w \in Ticks : Fault(w) \/ DeadlockVictim(w)
  <2> PICK w \in Ticks : Fault(w) \/ DeadlockVictim(w)
    BY <1>8
  <2>1. Die(w)
    BY DEF Fault, DeadlockVictim
  <2>2. QED BY <1>0, <2>1 DEF Within, Busy, Die, dbVars
<1>9. CASE UNCHANGED vars
  BY <1>0, <1>9 DEF Within, Busy, vars
<1>10. QED
  BY <1>1, <1>2, <1>3, <1>4, <1>5, <1>6, <1>7, <1>8, <1>9 DEF Next, TickStep

-----------------------------------------------------------------------------
(***************************************************************************)
(* Refinement of PriceWatch.                                               *)
(***************************************************************************)

LEMMA WatchStarts == Init => PW!WatchInit
BY DEF Init, PW!WatchInit, Blank

\* A commit that compared with the stored price is one observation.
LEMMA CommitObserves ==
    ASSUME TInv, NEW w \in Ticks, Commit(w), loaded[w][cur[w]] = lowest[cur[w]]
    PROVE  PW!WatchNext
<1> DEFINE t == cur[w]
           fate == IF draft[w] = "none" THEN "sent" ELSE draft[w]
           cost == [i \in {"price"} |-> price[w]]
           sent == [i \in {"price"} |-> fate]
<1>1. /\ t \in Tracked /\ price[w] \in Prices /\ price[w] # NoPrice
      /\ lowest \in [Tracked -> Prices \cup {NoPrice}]
      /\ log \in [Tracked -> Seq(Alert)]
  BY PricesAreNumbers DEF Commit, TInv, TickInv, Types, TickTypes, StoreTypes, HistoryTypes
<1>2. cost \in [{"price"} -> Prices \cup {NoPrice}] /\ sent \in [{"price"} -> Statuses]
  <2>1. fate \in Statuses
    BY DEF TInv, Types, DraftTypes, Statuses
  <2>2. QED BY <1>1, <2>1
<1>3. lowest' = [lowest EXCEPT ![t] =
         IF PW!Improves(lowest[t], price[w]) THEN price[w] ELSE lowest[t]]
  BY <1>1 DEF Commit, NewLowest, PW!Improves
<1>4. draft[w] # "none" <=> PW!Notable(lowest[t], price[w])
  BY <1>1 DEF Commit, TInv, TickInv, IsDrop, PW!Notable, PW!Improves
<1>5. log' = [log EXCEPT ![t] =
         IF PW!Notable(lowest[t], price[w])
           THEN Append(log[t], [before |-> lowest[t], after |-> price[w], status |-> fate])
           ELSE log[t]]
  <2>1. CASE draft[w] = "none"
    BY <1>1, <1>4, <2>1 DEF Commit
  <2>2. CASE draft[w] # "none"
    <3>1. log' = [log EXCEPT ![t] = Append(@,
             [before |-> lowest[t], after |-> price[w], status |-> fate])]
      BY <2>2 DEF Commit
    <3>2. QED BY <1>4, <2>2, <3>1
  <2>3. QED BY <2>1, <2>2
<1> HIDE DEF t, fate
<1>6. cost["price"] = price[w] /\ sent["price"] = fate
  OBVIOUS
<1>7. PW!Observe(t, cost, sent)
  <2> DEFINE low == [r \in Tracked |-> [i \in {"price"} |-> lowest[r]]]
             past == [r \in Tracked |-> [i \in {"price"} |-> log[r]]]
             cheaper == [i \in {"price"} |->
                IF PW!Improves(low[t][i], cost[i]) THEN cost[i] ELSE low[t][i]]
             longer == [i \in {"price"} |->
                IF PW!Notable(low[t][i], cost[i])
                  THEN Append(past[t][i], [before |-> low[t][i], after |-> cost[i], status |-> sent[i]])
                  ELSE past[t][i]]
  <2> HIDE DEF cost, sent
  <2>1. \A i \in {"price"} : /\ low[t][i] = lowest[t] /\ past[t][i] = log[t]
                             /\ cost[i] = price[w] /\ sent[i] = fate
    BY <1>1, <1>6
  <2>2. cheaper = [i \in {"price"} |-> lowest'[t]]
    <3>1. lowest'[t] = IF PW!Improves(lowest[t], price[w]) THEN price[w] ELSE lowest[t]
      BY <1>1, <1>3
    <3> HIDE DEF low
    <3>2. QED BY <2>1, <3>1
  <2>3. longer = [i \in {"price"} |-> log'[t]]
    <3>1. log'[t] = IF PW!Notable(lowest[t], price[w])
            THEN Append(log[t], [before |-> lowest[t], after |-> price[w], status |-> fate])
            ELSE log[t]
      BY <1>1, <1>5
    <3> HIDE DEF low, past
    <3>2. QED BY <2>1, <3>1
  <2>4. [r \in Tracked |-> [i \in {"price"} |-> lowest'[r]]] = [low EXCEPT ![t] = cheaper]
    <3> HIDE DEF cheaper
    <3>1. \A r \in Tracked \ {t} : lowest'[r] = lowest[r]
      BY <1>1, <1>3
    <3>2. QED BY <2>2, <3>1
  <2>5. [r \in Tracked |-> [i \in {"price"} |-> log'[r]]] = [past EXCEPT ![t] = longer]
    <3> HIDE DEF longer
    <3>1. \A r \in Tracked \ {t} : log'[r] = log[r]
      BY <1>1, <1>5
    <3>2. QED BY <2>3, <3>1
  <2>6. QED BY <2>4, <2>5 DEF PW!Observe
<1> HIDE DEF cost, sent
<1>8. PICK r \in Tracked, p \in [{"price"} -> Prices \cup {NoPrice}], s \in [{"price"} -> Statuses] :
        r = t /\ p = cost /\ s = sent
  BY <1>1, <1>2
<1>9. PW!Observe(r, p, s)
  BY <1>7, <1>8 DEF PW!Observe
<1>10. QED BY <1>9 DEF PW!WatchNext

\* Every other step is invisible to PriceWatch, unless it is a stale commit.
LEMMA StepsObserve ==
    ASSUME TInv, LoadedIsLowest, [Next]_vars
    PROVE  [PW!WatchNext \/ (StaleCommit /\ overlapped)]_(PW!watchVars)
<1>0. CASE UNCHANGED <<lowest, log>>
  BY <1>0 DEF PW!watchVars
<1>1. CASE User
  BY <1>0, <1>1 DEF User, Track, Reschedule, Untrack, BecomeDue, CheckIn, SetLink, dbVars
<1>2. CASE \E w \in Ticks : StartTick(w) \/ ScrapeFails(w) \/ Expire(w) \/ EndTick(w) \/ Notify(w)
                              \/ \E t \in Tracked : Take(w, t)
  BY <1>0, <1>2 DEF StartTick, ScrapeFails, Expire, EndTick, Notify, Record, Send, Flush, Take, dbVars
<1>3. CASE \E w \in Ticks, card \in Cards : ScrapeOk(w, card)
  BY <1>0, <1>3 DEF ScrapeOk, dbVars
<1>4. CASE \E w \in Ticks : Commit(w)
  <2> PICK w \in Ticks : Commit(w)
    BY <1>4
  <2>1. CASE loaded[w][cur[w]] = lowest[cur[w]]
    BY <2>1, CommitObserves
  <2>2. CASE loaded[w][cur[w]] # lowest[cur[w]]
    <3>1. pc[w] = "update" /\ pc'[w] = "next" /\ cur[w] \in Tracked
      BY DEF Commit, Finish, TInv, Types, TickTypes
    <3>2. StaleCommit
      BY <2>2, <3>1 DEF StaleCommit
    <3>3. overlapped
      BY <2>2, <3>1 DEF LoadedIsLowest, Busy
    <3>4. QED BY <3>2, <3>3
  <2>3. QED BY <2>1, <2>2
<1>5. CASE \E w \in Ticks : Fault(w) \/ DeadlockVictim(w)
  BY <1>0, <1>5 DEF Fault, DeadlockVictim, Die, dbVars
<1>6. CASE UNCHANGED vars
  BY <1>0, <1>6 DEF vars
<1>7. QED
  BY <1>1, <1>2, <1>3, <1>4, <1>5, <1>6 DEF Next, TickStep

-----------------------------------------------------------------------------

IInv == TInv /\ LocksAreExpiries /\ DraftIsTold /\ LogIsTold /\ LoadedIsLowest

LEMMA Invariance == Spec => []IInv
<1>1. Init => IInv
  <2> SUFFICES ASSUME Init PROVE IInv
    OBVIOUS
  <2>1. TInv
    BY InitTypes
  <2>2. LocksAreExpiries
    BY NoTickIsNoTick DEF Init, LocksAreExpiries
  <2>3. DraftIsTold /\ LogIsTold
    BY DEF Init, DraftIsTold, LogIsTold
  <2>4. LoadedIsLowest
    BY DEF Init, LoadedIsLowest
  <2>5. QED BY <2>1, <2>2, <2>3, <2>4 DEF IInv
<1>2. IInv /\ [Next]_vars => IInv'
  BY TypesStep, LocksStep, ToldStep, LoadedStep DEF IInv
<1> QED
  BY <1>1, <1>2, PTL DEF Spec

\* Every variable keeps its type: a price is the number of a card or none, a
\* draft exists only in the middle of a tick (property_worker.py).
THEOREM TypeCorrect == Spec => []TypeOK
<1>1. IInv => TypeOK
  BY TypesAreTypeOK DEF IInv, TInv
<1> QED
  BY <1>1, Invariance, PTL

\* The only locks between two steps are those of the flushed is_active = False
\* of an expired row, and each is released by the commit or the end of the tick
\* that took it (property_worker.py:51-53).
THEOREM LocksAreOfExpiries == Spec => []LocksAreExpiries
<1>1. IInv => LocksAreExpiries
  BY DEF IInv
<1> QED
  BY <1>1, Invariance, PTL

\* The commit of a row loaded while it was active does not undo an untracking
\* or an expiry: the UPDATE names only the columns that were assigned.
THEOREM InactiveStays == Spec => InactiveIsFinal
<1>1. IInv /\ [Next]_vars => [\A t \in Tracked : state[t] = "inactive" => state'[t] = "inactive"]_vars
  BY InactiveStep DEF IInv
<1> QED
  BY <1>1, Invariance, PTL DEF Spec, InactiveIsFinal

\* Once the ticks that loaded a row are done with it and it is off, the user
\* hears no more of it and its lowest price stays (property_worker.py:34).
THEOREM InactiveIsSilent == Spec => InactiveFallsSilent
<1>1. IInv /\ [Next]_vars =>
        [\A t \in Tracked : Abandoned(t) =>
           /\ told'[t] = told[t] /\ log'[t] = log[t] /\ lowest'[t] = lowest[t]
           /\ \A w \in Ticks : ~AtWork(w, t)']_vars
  BY SilentStep DEF IInv, Silent
<1> QED
  BY <1>1, Invariance, PTL DEF Spec, InactiveFallsSilent

\* delivery_status is "sent" only if Telegram confirmed the message, whatever
\* dies or overlaps between the message and the commit of its log row.
THEOREM SentWasTold == Spec => []SentIsTold
<1>1. IInv => SentIsTold
  BY DEF IInv, LogIsTold, Received, SentIsTold
<1> QED
  BY <1>1, Invariance, PTL

\* Seen through the lowest prices and the history, the ticks are atomic
\* observations of one property at a time; only a tick that overlapped another
\* may compare with a price that is no longer the stored one.
THEOREM Refinement == Spec => ImplementsPriceWatch
<1>1. IInv /\ [Next]_vars => [PW!WatchNext \/ (StaleCommit /\ overlapped)]_(PW!watchVars)
  BY StepsObserve DEF IInv
<1> QED
  BY <1>1, Invariance, WatchStarts, PTL DEF Spec, ImplementsPriceWatch

-----------------------------------------------------------------------------
(***************************************************************************)
(* Repeated alerts.  A tick that died after its message leaves a debt: the *)
(* last price told is covered neither by the stored one nor by a tick that *)
(* has still to store it.  Each death pays for one restart of the descent, *)
(* as long as ticks do not overlap.                                        *)
(***************************************************************************)

LastTold(t) == told[t][Len(told[t])]

\* No price will be told that is not below the last one.
Covered(t, last) ==
    \/ lowest[t] # NoPrice /\ lowest[t] <= last
    \/ \E w \in Ticks : pc[w] = "update" /\ cur[w] = t /\ draft[w] # "none" /\ price[w] <= last

Debt(t) == told[t] # <<>> /\ ~Covered(t, LastTold(t))

RestartInv ==
    ~overlapped => \A t \in Tracked :
        /\ Cardinality(Restarts(told[t])) <= faults
        /\ Debt(t) => Cardinality(Restarts(told[t])) < faults

LEMMA RestartsFinite ==
    ASSUME NEW t \in Seq(Nat)
    PROVE  IsFiniteSet(Restarts(t)) /\ Cardinality(Restarts(t)) \in Nat
<1>1. IsFiniteSet(2..Len(t))
  BY FS_Interval
<1>2. Restarts(t) \subseteq 2..Len(t)
  BY DEF Restarts
<1> QED
  BY <1>1, <1>2, FS_Subset, FS_CardinalityType

\* A further price is one restart more if it is not below the last one.
LEMMA RestartsOfAppend ==
    ASSUME NEW t \in Seq(Nat), NEW x \in Nat
    PROVE  /\ Cardinality(Restarts(Append(t, x))) <= Cardinality(Restarts(t)) + 1
           /\ (t # <<>> => x < t[Len(t)]) =>
                Cardinality(Restarts(Append(t, x))) = Cardinality(Restarts(t))
           /\ Cardinality(Restarts(Append(t, x))) \in Nat
<1> DEFINE n == Len(t)
           u == Append(t, x)
<1>1. /\ n \in Nat /\ Len(u) = n + 1 /\ u[n + 1] = x
      /\ \A k \in 1..n : u[k] = t[k] /\ t[k] \in Nat
      /\ t = <<>> <=> n = 0
  OBVIOUS
<1>2. IsFiniteSet(Restarts(t)) /\ Cardinality(Restarts(t)) \in Nat
  BY RestartsFinite
<1>3. n + 1 \notin Restarts(t)
  BY <1>1 DEF Restarts
<1> HIDE DEF n, u
<1>4. \A k \in Restarts(u) : k \in Restarts(t) \/ (k = n + 1 /\ n # 0 /\ u[n + 1] >= u[n])
  <2> SUFFICES ASSUME NEW k \in 2..(n + 1), u[k] >= u[k - 1], k # n + 1
               PROVE  k \in 2..n /\ t[k] >= t[k - 1]
    BY <1>1 DEF Restarts, n
  <2>1. k \in 2..n /\ k \in 1..n /\ k - 1 \in 1..n
    BY <1>1
  <2> QED
    BY <1>1, <2>1
<1>5. \A k \in Restarts(t) : k \in Restarts(u)
  <2> SUFFICES ASSUME NEW k \in 2..n, t[k] >= t[k - 1]
               PROVE  k \in 2..(n + 1) /\ u[k] >= u[k - 1]
    BY <1>1 DEF Restarts, n
  <2>1. k \in 2..(n + 1) /\ k \in 1..n /\ k - 1 \in 1..n
    BY <1>1
  <2> QED
    BY <1>1, <2>1
<1>6. Restarts(u) = Restarts(t) \/ Restarts(u) = Restarts(t) \cup {n + 1}
  BY <1>4, <1>5
<1>7. Cardinality(Restarts(t) \cup {n + 1}) = Cardinality(Restarts(t)) + 1
  BY <1>2, <1>3, FS_AddElement
<1>8. ASSUME t # <<>> => x < t[n]
      PROVE  Restarts(u) = Restarts(t)
  <2>1. ~(n # 0 /\ u[n + 1] >= u[n])
    BY <1>1, <1>8
  <2> QED
    BY <1>4, <1>5, <2>1
<1>9. Cardinality(Restarts(u)) <= Cardinality(Restarts(t)) + 1
      /\ Cardinality(Restarts(u)) \in Nat
  <2>1. CASE Restarts(u) = Restarts(t)
    BY <1>2, <2>1
  <2>2. CASE Restarts(u) = Restarts(t) \cup {n + 1}
    <3>1. Cardinality(Restarts(u)) = Cardinality(Restarts(t)) + 1
      BY <1>7, <2>2
    <3> QED
      BY <1>2, <3>1
  <2> QED
    BY <1>6, <2>1, <2>2
<1> QED
  BY <1>8, <1>9 DEF n, u

LEMMA SeqOfLarger ==
    ASSUME NEW S, NEW T, S \subseteq T, NEW u \in Seq(S)
    PROVE  u \in Seq(T)
OBVIOUS

LEMMA ToldAreNumbers ==
    ASSUME Types, NEW t \in Tracked
    PROVE  /\ told[t] \in Seq(Nat)
           /\ told[t] # <<>> => LastTold(t) \in Prices /\ LastTold(t) \in Nat
           /\ Cardinality(Restarts(told[t])) \in Nat
<1>1. told[t] \in Seq(Prices) /\ Prices \subseteq Nat
  BY PricesAreNumbers DEF Types, HistoryTypes
<1>2. told[t] \in Seq(Nat)
  BY <1>1, SeqOfLarger
<1>3. QED BY <1>1, <1>2, RestartsFinite DEF LastTold

\* Without overlap nobody waits in a circle: a tick never dies as its victim.
LEMMA NoVictim ==
    ASSUME LoadedIsLowest, ~overlapped, NEW w \in Ticks, DeadlockVictim(w)
    PROVE  FALSE
<1>1. PICK C \in SUBSET Ticks : w \in C /\ \A x \in C : \E y \in C : Waits(x, y)
  BY DEF DeadlockVictim
<1>2. PICK v \in C : Waits(w, v)
  BY <1>1
<1>3. PICK u \in C : Waits(v, u)
  BY <1>1
<1>4. v # w /\ pc[w] # "idle" /\ pc[v] # "idle"
  BY <1>2, <1>3 DEF Waits
<1>5. QED BY <1>1, <1>4 DEF LoadedIsLowest

\* Steps that tell nothing and take no cover away.
LEMMA RestartQuiet ==
    ASSUME Types, RestartInv, UNCHANGED <<told, faults>>, overlapped => overlapped',
           ~overlapped' =>
              \A t \in Tracked, x \in Prices : Covered(t, x) => Covered(t, x)'
    PROVE  RestartInv'
<1> SUFFICES ASSUME ~overlapped', NEW t \in Tracked, Debt(t)'
             PROVE  Debt(t)
  BY DEF RestartInv
<1>1. told[t] # <<>> /\ LastTold(t)' = LastTold(t) /\ LastTold(t) \in Prices
  BY ToldAreNumbers DEF Debt, LastTold
<1>2. ~Covered(t, LastTold(t))'
  BY DEF Debt
<1>3. ~Covered(t, LastTold(t))
  BY <1>1, <1>2
<1>4. QED BY <1>1, <1>3 DEF Debt

LEMMA RestartFault ==
    ASSUME TInv, RestartInv, NEW w \in Ticks, Fault(w)
    PROVE  RestartInv'
<1>1. UNCHANGED <<told, overlapped>> /\ faults' = faults + 1 /\ faults \in Nat
  BY BoundsAreNatural DEF Fault, Die, TInv, Types, CountTypes
<1>2. \A t \in Tracked : Cardinality(Restarts(told[t])) \in Nat
  BY ToldAreNumbers DEF TInv
<1>3. ~overlapped => \A t \in Tracked : Cardinality(Restarts(told[t])) < faults'
  BY <1>1, <1>2 DEF RestartInv
<1>4. QED BY <1>1, <1>2, <1>3 DEF RestartInv

\* An alert: its price is below the stored one, so it restarts the descent only
\* if a debt allows for it.
LEMMA RestartSend ==
    ASSUME TInv, LoadedIsLowest, RestartInv, NEW w \in Ticks, NEW o \in Outcomes,
           o # "failed", Send(w, o)
    PROVE  RestartInv'
<1> DEFINE c == cur[w]
           x == price[w]
           old == told[c]
<1> USE DEF TInv, dbVars
<1>1. /\ UNCHANGED <<lowest, cur, price, overlapped, faults>> /\ faults \in Nat
      /\ c \in Tracked /\ x \in Prices /\ pc[w] = "notify"
      /\ IsDrop(loaded[w][c], x)
      /\ pc'[w] = "update" /\ draft'[w] # "none"
      /\ told' = [told EXCEPT ![c] = Append(old, x)]
      /\ \A v \in Ticks \ {w} : pc'[v] = pc[v] /\ draft'[v] = draft[v]
  BY BoundsAreNatural DEF Send, Flush, TickInv, Types, TickTypes, DraftTypes, CountTypes
<1> SUFFICES ASSUME ~overlapped, NEW t \in Tracked
             PROVE  /\ Cardinality(Restarts(told'[t])) <= faults
                    /\ Debt(t)' => Cardinality(Restarts(told'[t])) < faults
  BY <1>1 DEF RestartInv
<1>2. lowest[c] # NoPrice /\ x < lowest[c] /\ lowest[c] \in Nat /\ x \in Nat
  <2>1. loaded[w][c] = lowest[c]
    BY <1>1 DEF LoadedIsLowest, Busy
  <2>2. lowest[c] \in Prices \cup {NoPrice}
    BY <1>1 DEF Types, StoreTypes
  <2>3. QED BY <1>1, <2>1, <2>2, PricesAreNumbers DEF IsDrop
<1>3. \A v \in Ticks : pc[v] # "update"
  BY <1>1 DEF LoadedIsLowest
<1>4. CASE t # c
  <2>1. told'[t] = told[t]
    BY <1>1, <1>4 DEF Types, HistoryTypes
  <2>2. Debt(t)' => Debt(t)
    BY <1>1, <1>3, <2>1 DEF Debt, Covered, LastTold
  <2>3. QED BY <2>1, <2>2 DEF RestartInv
<1>5. CASE t = c
  <2>1. told'[t] = Append(old, x)
    BY <1>1, <1>5 DEF Types, HistoryTypes
  <2>2. /\ old \in Seq(Nat) /\ Cardinality(Restarts(old)) \in Nat
        /\ old # <<>> => old[Len(old)] \in Nat
    BY <1>1, ToldAreNumbers DEF LastTold
  <2>3. /\ Cardinality(Restarts(old)) <= faults
        /\ Debt(c) => Cardinality(Restarts(old)) < faults
    BY <1>1 DEF RestartInv
  <2>4. ~Debt(c) /\ old # <<>> => lowest[c] <= old[Len(old)]
    BY <1>3 DEF Debt, Covered, LastTold
  <2>5. Cardinality(Restarts(Append(old, x))) <= faults
    <3> HIDE DEF c, x, old
    <3>1. ~Debt(c) /\ old # <<>> => x < old[Len(old)]
      BY <1>2, <2>2, <2>4
    <3>2. /\ Cardinality(Restarts(Append(old, x))) \in Nat
          /\ Cardinality(Restarts(Append(old, x))) <= Cardinality(Restarts(old)) + 1
          /\ ~Debt(c) => Cardinality(Restarts(Append(old, x))) = Cardinality(Restarts(old))
      BY <1>2, <2>2, <3>1, RestartsOfAppend
    <3>3. QED BY <1>1, <2>2, <2>3, <3>2
  <2>6. ~Debt(t)'
    <3>1. Append(old, x)[Len(Append(old, x))] = x
      BY <1>2, <2>2
    <3>2. LastTold(t)' = x
      BY <2>1, <3>1 DEF LastTold
    <3>3. pc'[w] = "update" /\ cur'[w] = t /\ draft'[w] # "none" /\ price'[w] <= x
      BY <1>1, <1>2, <1>5
    <3>4. QED BY <3>2, <3>3 DEF Debt, Covered
  <2> HIDE DEF c, x, old
  <2>7. QED BY <2>1, <2>5, <2>6
<1>6. QED BY <1>4, <1>5

LEMMA CoveredCommit ==
    ASSUME TInv, LoadedIsLowest, ~overlapped, NEW w \in Ticks, Commit(w),
           NEW t \in Tracked, NEW y \in Prices, Covered(t, y)
    PROVE  Covered(t, y)'
<1> DEFINE c == cur[w]
           x == price[w]
<1> USE DEF TInv
<1>1. /\ c \in Tracked /\ x \in Prices /\ pc[w] = "update"
      /\ loaded[w][c] = lowest[c]
      /\ lowest' = [lowest EXCEPT ![c] = NewLowest(w, c)]
      /\ lowest \in [Tracked -> Prices \cup {NoPrice}]
      /\ \A v \in Ticks : pc[v] = "update" => v = w
      /\ draft[w] # "none" => lowest[c] # NoPrice /\ x < lowest[c]
  BY DEF Commit, TickInv, IsDrop, Types, TickTypes, StoreTypes, LoadedIsLowest, Busy
<1>2. y \in Nat /\ x \in Nat /\ (lowest[t] # NoPrice => lowest[t] \in Nat) /\ x # NoPrice
  BY <1>1, PricesAreNumbers
<1>3. CASE t # c
  <2>1. lowest'[t] = lowest[t]
    BY <1>1, <1>3
  <2>2. lowest[t] # NoPrice /\ lowest[t] <= y
    BY <1>1, <1>3 DEF Covered
  <2>3. QED BY <2>1, <2>2 DEF Covered
<1>4. CASE t = c
  <2>1. lowest'[t] = IF lowest[t] = NoPrice \/ x < lowest[t] THEN x ELSE lowest[t]
    BY <1>1, <1>4 DEF NewLowest
  <2>2. \/ lowest[t] # NoPrice /\ lowest[t] <= y
        \/ draft[w] # "none" /\ x <= y
    BY <1>1 DEF Covered
  <2>3. lowest'[t] # NoPrice /\ lowest'[t] <= y
    BY <1>1, <1>2, <1>4, <2>1, <2>2
  <2>4. QED BY <2>3 DEF Covered
<1>5. QED BY <1>3, <1>4

LEMMA RestartStep ==
    ASSUME TInv, LoadedIsLowest, RestartInv, [Next]_vars
    PROVE  RestartInv'
<1> USE DEF TInv, dbVars
<1>1. ASSUME UNCHANGED <<lowest, told, faults>>, overlapped => overlapped',
             \A v \in Ticks : pc[v] = "update" =>
                /\ pc'[v] = "update" /\ cur'[v] = cur[v]
                /\ draft'[v] = draft[v] /\ price'[v] = price[v]
      PROVE  RestartInv'
  <2>1. \A t \in Tracked, x \in Prices : Covered(t, x) => Covered(t, x)'
    BY <1>1 DEF Covered
  <2>2. QED BY <1>1, <2>1, RestartQuiet
<1> USE DEF Types, TickTypes, DraftTypes
<1>2. CASE User \/ UNCHANGED vars
  BY <1>1, <1>2 DEF User, Track, Reschedule, Untrack, BecomeDue, CheckIn, SetLink, tickVars, vars
<1>3. ASSUME NEW w \in Ticks,
             StartTick(w) \/ ScrapeFails(w) \/ Expire(w) \/ EndTick(w) \/ \E t \in Tracked : Take(w, t)
      PROVE  RestartInv'
  <2>1. CASE StartTick(w)
    <3>1. UNCHANGED <<lowest, told, faults, cur, draft, price>> /\ (overlapped => overlapped')
      BY <2>1 DEF StartTick, CountTypes
    <3>2. QED BY <1>1, <2>1, <3>1 DEF StartTick
  <2>2. CASE \E t \in Tracked : Take(w, t)
    BY <1>1, <2>2 DEF Take
  <2>3. CASE ScrapeFails(w) \/ Expire(w) \/ EndTick(w)
    BY <1>1, <2>3 DEF ScrapeFails, Expire, Finish, EndTick
  <2>4. QED BY <1>3, <2>1, <2>2, <2>3
<1>4. CASE \E w \in Ticks, card \in Cards : ScrapeOk(w, card)
  BY <1>1, <1>4 DEF ScrapeOk
<1>5. CASE \E w \in Ticks : Record(w)
  BY <1>1, <1>5 DEF Record, Flush
<1>6. ASSUME NEW w \in Ticks, NEW o \in Outcomes, Send(w, o) PROVE RestartInv'
  <2>1. CASE o = "failed"
    BY <1>1, <1>6, <2>1 DEF Send, Flush
  <2>2. CASE o # "failed"
    BY <1>6, <2>2, RestartSend
  <2>3. QED BY <2>1, <2>2
<1>7. ASSUME NEW w \in Ticks, Commit(w) PROVE RestartInv'
  <2>1. UNCHANGED <<told, faults, overlapped>>
    BY <1>7 DEF Commit
  <2>2. QED BY <1>7, <2>1, CoveredCommit, RestartQuiet
<1>8. ASSUME NEW w \in Ticks, Fault(w) PROVE RestartInv'
  BY <1>8, RestartFault
<1>9. ASSUME NEW w \in Ticks, DeadlockVictim(w) PROVE RestartInv'
  <2>1. overlapped'
    BY <1>9, NoVictim DEF DeadlockVictim, Die
  <2>2. QED BY <2>1 DEF RestartInv
<1>10. QED
  BY <1>2, <1>3, <1>4, <1>5, <1>6, <1>7, <1>8, <1>9 DEF Next, TickStep, Notify

\* Unless ticks overlap, an alert is repeated only for a death of a tick between
\* the message and the commit: the descent of the prices told starts over once
\* for each at most.
THEOREM AlertsRestartForDeaths == Spec => []AlertsRestartOnlyAfterDeath
<1>1. Init => RestartInv
  <2> SUFFICES ASSUME Init, NEW t \in Tracked
               PROVE  Cardinality(Restarts(told[t])) = 0 /\ faults = 0 /\ ~Debt(t)
    BY DEF RestartInv
  <2>1. told[t] = <<>> /\ faults = 0
    BY DEF Init
  <2>2. Restarts(<<>>) = {}
    BY DEF Restarts
  <2>3. QED BY <2>1, <2>2, FS_EmptySet DEF Debt
<1>2. IInv /\ RestartInv /\ [Next]_vars => RestartInv'
  BY RestartStep DEF IInv
<1>3. RestartInv => AlertsRestartOnlyAfterDeath
  BY DEF RestartInv, AlertsRestartOnlyAfterDeath
<1> QED
  BY <1>1, <1>2, <1>3, Invariance, PTL DEF Spec
=============================================================================
