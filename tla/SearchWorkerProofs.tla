------------------------- MODULE SearchWorkerProofs --------------------------
(***************************************************************************)
(* For any number of searches, properties, providers and overlapping       *)
(* ticks, whatever dies in the middle: the history of every listing is a   *)
(* chain, the baseline is its last entry, and a cycle is one atomic        *)
(* observation of PriceWatch.                                              *)
(***************************************************************************)
EXTENDS SearchWorker, TLAPS

\* A transaction holds a flushed log row for exactly the events notified so far.
DraftInv ==
    \A w \in Ticks :
        /\ pc[w] = "notify" =>
             /\ todo[w] \subseteq Events(w)
             /\ \A p \in Props : draft[w][p] # "none" <=> p \in Events(w) \ todo[w]
        /\ pc[w] # "notify" => \A p \in Props : draft[w][p] = "none"

CoreInv == TypeOK /\ DraftInv /\ BaselineIsStable /\ HistoryChain /\ BaselineIsLastEntry

LEMMA PricesAreNumbers ==
    /\ Prices \subseteq Nat
    /\ NoPrice \notin Prices
    /\ \A c \in Cards : ParsePrice(c) \in Prices
BY CardsArePrices, NoPriceIsNoNumber DEF Prices, ParsePrice

LEMMA DefaultsAreTyped == AnySearch \in Searches /\ AnyInterval \in Intervals
BY SomethingToDo DEF AnySearch, AnyInterval

-----------------------------------------------------------------------------

LEMMA TypeInit == Init => TypeOK
BY DefaultsAreTyped, NoTickIsNoTick, MaxFaultsIsNatural
DEF Init, TypeOK, Blank, Undrafted, Statuses

LEMMA TypeUser == TypeOK /\ User => TypeOK'
<1> SUFFICES ASSUME TypeOK, User PROVE TypeOK'
  OBVIOUS
<1> USE DEF TypeOK, dbVars, tickVars
<1>1. ASSUME NEW s \in Searches, NEW i \in Intervals, Track(s, i) PROVE TypeOK'
  BY <1>1 DEF Track
<1>2. ASSUME NEW s \in Searches, NEW i \in Intervals, ChangeInterval(s, i) PROVE TypeOK'
  BY <1>2 DEF ChangeInterval
<1>3. ASSUME NEW s \in Searches, Untrack(s) PROVE TypeOK'
  BY <1>3 DEF Untrack
<1>4. ASSUME NEW s \in Searches, BecomeDue(s) PROVE TypeOK'
  BY <1>4 DEF BecomeDue
<1>5. ASSUME NEW b \in BOOLEAN, SetLink(b) PROVE TypeOK'
  BY <1>5 DEF SetLink
<1> QED
  BY <1>1, <1>2, <1>3, <1>4, <1>5 DEF User

LEMMA TypeDie ==
    ASSUME TypeOK, NEW w \in Ticks, Die(w), faults' \in 0..MaxFaults
    PROVE  TypeOK'
BY DefaultsAreTyped, NoTickIsNoTick DEF TypeOK, Die, Release, dbVars, tickVars, Blank, Undrafted

LEMMA TypeFinish ==
    ASSUME TypeOK, NEW w \in Ticks, Finish(w)
    PROVE  /\ pc' \in [Ticks -> {"idle", "next", "scrape", "upsert", "notify"}]
           /\ chat' \in [Ticks -> BOOLEAN]
           /\ cur' \in [Ticks -> Searches]
           /\ found' \in [Ticks -> [Props -> Prices \cup {NoPrice}]]
           /\ base' \in [Ticks -> [Props -> Prices \cup {NoPrice}]]
           /\ todo' \in [Ticks -> SUBSET Props]
           /\ draft' \in [Ticks -> [Props -> Statuses \cup {"none"}]]
BY DefaultsAreTyped DEF TypeOK, Finish, Blank, Undrafted

LEMMA TypeTick == ASSUME TypeOK, DraftInv, NEW w \in Ticks, StartTick(w) \/ TickStep(w)
                  PROVE  TypeOK'
<1> USE DEF TypeOK, dbVars, tickVars
<1>1. CASE StartTick(w)
  BY <1>1 DEF StartTick, Overdue
<1>2. CASE EndTick(w)
  BY <1>2, DefaultsAreTyped DEF EndTick
<1>3. ASSUME NEW s \in Searches, Take(w, s) PROVE TypeOK'
  BY <1>3 DEF Take
<1>4. ASSUME NEW v \in Providers, ScrapeFails(w, v) PROVE TypeOK'
  BY <1>4 DEF ScrapeFails
<1>5. ASSUME NEW v \in Providers, ScrapeOk(w, v) PROVE TypeOK'
  <2>0. PICK page \in SUBSET Props : \E card \in [page -> Cards] :
            found' = [found EXCEPT ![w] =
              [p \in Props |-> IF p \in page THEN ParsePrice(card[p]) ELSE found[w][p]]]
    BY <1>5 DEF ScrapeOk
  <2>1. PICK card \in [page -> Cards] :
            found' = [found EXCEPT ![w] =
              [p \in Props |-> IF p \in page THEN ParsePrice(card[p]) ELSE found[w][p]]]
    BY <2>0
  <2>2. [p \in Props |-> IF p \in page THEN ParsePrice(card[p]) ELSE found[w][p]]
            \in [Props -> Prices \cup {NoPrice}]
    BY PricesAreNumbers
  <2>3. found' \in [Ticks -> [Props -> Prices \cup {NoPrice}]]
    BY <2>1, <2>2
  <2> QED
    BY <1>5, <2>3 DEF ScrapeOk
<1>6. CASE EndScrape(w)
  BY <1>6, TypeFinish DEF EndScrape
<1>7. ASSUME NEW p \in Props, Upsert(w, p) PROVE TypeOK'
  BY <1>7 DEF Upsert
<1>8. CASE ReadSeen(w)
  BY <1>8 DEF ReadSeen, Events, Found
<1>9. ASSUME NEW p \in Props, Notify(w, p) PROVE TypeOK'
  <2>1. PICK status \in Statuses : Flush(w, p, status)
    BY <1>9 DEF Notify, Record, Send, Statuses
  <2>2. found[w][p] \in Prices /\ cur[w] \in Searches
    BY <2>1 DEF Flush, DraftInv, Events, Found
  <2>3. CASE told' = told
    BY <2>1, <2>3 DEF Flush
  <2>4. CASE told' = [told EXCEPT ![cur[w]][p] = Append(told[cur[w]][p], found[w][p])]
    <3>1. Append(told[cur[w]][p], found[w][p]) \in Seq(Prices)
      BY <2>2
    <3>2. told' \in [Searches -> [Props -> Seq(Prices)]]
      BY <2>2, <2>4, <3>1
    <3> QED
      BY <2>1, <3>2 DEF Flush
  <2> QED
    BY <1>9, <2>3, <2>4 DEF Notify, Record, Send
<1>10. CASE Commit(w)
  <2>1. cur[w] \in Searches /\ loaded[w][cur[w]] \in Intervals
    OBVIOUS
  <2>2. seen' \in [Searches -> [Props -> Prices \cup {NoPrice}]]
    <3>1. \A p \in Found(w) : UpsertSeen(base[w][p], found[w][p]) \in Prices \cup {NoPrice}
      BY DEF Found, UpsertSeen
    <3> QED
      BY <1>10, <2>1, <3>1 DEF Commit
  <2>3. log' \in [Searches -> [Props -> Seq(Alert)]]
    <3>1. \A p \in Props : draft[w][p] # "none" =>
              [before |-> base[w][p], after |-> found[w][p], status |-> draft[w][p]] \in Alert
      BY <1>10 DEF Commit, DraftInv, Events, Found, Alert
    <3> QED
      BY <1>10, <2>1, <3>1 DEF Commit
  <2>4. lock' \in [Props -> Ticks \cup {NoTick}]
    BY <1>10 DEF Commit, Release
  <2> QED
    BY <1>10, <2>1, <2>2, <2>3, <2>4, TypeFinish DEF Commit
<1> QED
  BY <1>1, <1>2, <1>3, <1>4, <1>5, <1>6, <1>7, <1>8, <1>9, <1>10 DEF TickStep

-----------------------------------------------------------------------------
(***************************************************************************)
(* The invariant.                                                          *)
(***************************************************************************)

\* A tick that is not notifying, or one that a step leaves as it is.
Away(w) == pc[w] # "notify" /\ \A p \in Props : draft[w][p] = "none"

Still(w) ==
    /\ pc[w] = "notify" /\ pc'[w] = "notify"
    /\ cur'[w] = cur[w] /\ found'[w] = found[w] /\ base'[w] = base[w]
    /\ todo'[w] = todo[w] /\ draft'[w] = draft[w]
    /\ \A p \in Props : lock[p] = w => lock'[p] = w

LEMMA CoreInit == Init => CoreInv
BY TypeInit DEF Init, CoreInv, DraftInv, BaselineIsStable, HistoryChain, BaselineIsLastEntry,
                Blank, Undrafted

LEMMA CoreQuiet ==
    ASSUME CoreInv, TypeOK', UNCHANGED <<seen, log>>,
           \A w \in Ticks : Away(w)' \/ Still(w)
    PROVE  CoreInv'
<1>1. \A w \in Ticks : Still(w) => Found(w)' = Found(w) /\ Events(w)' = Events(w)
  BY DEF Still, Found, Events, IsNew, IsDrop
<1>2. DraftInv'
  BY <1>1 DEF CoreInv, DraftInv, Away, Still
<1>3. BaselineIsStable'
  BY <1>1 DEF CoreInv, BaselineIsStable, Away, Still, Found
<1>4. HistoryChain' /\ BaselineIsLastEntry'
  BY DEF CoreInv, HistoryChain, BaselineIsLastEntry
<1> QED
  BY <1>2, <1>3, <1>4 DEF CoreInv

\* The steps of a tick before it reads the baseline, and its end in the middle.
Outside(w) ==
    \/ StartTick(w)
    \/ EndTick(w)
    \/ \E s \in Searches : Take(w, s)
    \/ \E v \in Providers : ScrapeFails(w, v) \/ ScrapeOk(w, v)
    \/ EndScrape(w)
    \/ \E p \in Props : Upsert(w, p)
    \/ Die(w)

LEMMA OutsideLeavesOthers ==
    ASSUME TypeOK, NEW w \in Ticks, Outside(w)
    PROVE  /\ UNCHANGED <<seen, log, told>>
           /\ \A v \in Ticks \ {w} :
                /\ pc'[v] = pc[v] /\ cur'[v] = cur[v]
                /\ found'[v] = found[v] /\ base'[v] = base[v]
                /\ todo'[v] = todo[v] /\ draft'[v] = draft[v]
                /\ \A p \in Props : lock[p] = v => lock'[p] = v
<1> USE DEF dbVars, tickVars, Outside
<1>1. UNCHANGED <<seen, log, told>>
  BY DEF StartTick, EndTick, Take, ScrapeFails, ScrapeOk, EndScrape, Upsert, Die
<1>2. \A v \in Ticks \ {w} :
        /\ pc'[v] = pc[v] /\ cur'[v] = cur[v] /\ found'[v] = found[v] /\ base'[v] = base[v]
        /\ todo'[v] = todo[v] /\ draft'[v] = draft[v]
  <2> USE DEF TypeOK
  <2>1. CASE StartTick(w) \/ EndTick(w)
    BY <2>1 DEF StartTick, EndTick
  <2>2. CASE \E s \in Searches : Take(w, s)
    BY <2>2 DEF Take
  <2>3. CASE \E v \in Providers : ScrapeFails(w, v) \/ ScrapeOk(w, v)
    <3>1. \A v \in Ticks \ {w} : found'[v] = found[v]
      BY <2>3 DEF ScrapeFails, ScrapeOk
    <3>2. UNCHANGED <<pc, cur, base, todo, draft>>
      BY <2>3 DEF ScrapeFails, ScrapeOk
    <3> QED
      BY <3>1, <3>2
  <2>4. CASE EndScrape(w)
    BY <2>4 DEF EndScrape, Finish
  <2>5. CASE \E p \in Props : Upsert(w, p)
    BY <2>5 DEF Upsert
  <2>6. CASE Die(w)
    BY <2>6 DEF Die
  <2> QED
    BY <2>1, <2>2, <2>3, <2>4, <2>5, <2>6
<1>3. \A v \in Ticks \ {w}, p \in Props : lock[p] = v => lock'[p] = v
  <2>1. CASE \E p \in Props : Upsert(w, p)
    BY <2>1, NoTickIsNoTick DEF TypeOK, Upsert
  <2>2. CASE Die(w)
    BY <2>2 DEF Die, Release
  <2>3. CASE lock' = lock
    BY <2>3
  <2> QED
    BY <2>1, <2>2, <2>3 DEF StartTick, EndTick, Take, ScrapeFails, ScrapeOk, EndScrape
<1> QED
  BY <1>1, <1>2, <1>3

LEMMA CoreOutside ==
    ASSUME CoreInv, TypeOK', NEW w \in Ticks, Outside(w)
    PROVE  CoreInv'
<1>1. TypeOK
  BY DEF CoreInv
<1>2. Away(w)'
  <2>1. CASE Die(w)
    BY <1>1, <2>1 DEF TypeOK, Die, Away, Undrafted
  <2>2. CASE ~Die(w)
    <3>1. pc[w] # "notify" /\ pc'[w] # "notify"
      BY <1>1, <2>2 DEF TypeOK, Outside, StartTick, EndTick, Take, ScrapeFails, ScrapeOk,
                        EndScrape, Upsert, Finish, tickVars
    <3>2. draft'[w] = draft[w] \/ draft'[w] = Undrafted
      BY <1>1, <2>2 DEF TypeOK, Outside, StartTick, EndTick, Take, ScrapeFails, ScrapeOk,
                        EndScrape, Upsert, Finish, tickVars
    <3> QED
      BY <3>1, <3>2 DEF CoreInv, DraftInv, Away, Undrafted
  <2> QED
    BY <2>1, <2>2
<1>3. \A v \in Ticks \ {w} : Away(v)' \/ Still(v)
  BY <1>1, OutsideLeavesOthers DEF CoreInv, DraftInv, Away, Still
<1>4. UNCHANGED <<seen, log>>
  BY <1>1, OutsideLeavesOthers
<1> QED
  BY <1>2, <1>3, <1>4, CoreQuiet

LEMMA CoreUser ==
    ASSUME CoreInv, TypeOK', User
    PROVE  CoreInv'
<1>1. UNCHANGED <<seen, log, lock, tickVars>>
  BY DEF User, Track, ChangeInterval, Untrack, BecomeDue, SetLink
<1>2. \A w \in Ticks : Away(w)' \/ Still(w)
  BY <1>1 DEF CoreInv, DraftInv, Away, Still, tickVars
<1> QED
  BY <1>1, <1>2, CoreQuiet DEF tickVars

LEMMA CoreReadSeen ==
    ASSUME CoreInv, TypeOK', NEW w \in Ticks, ReadSeen(w)
    PROVE  CoreInv'
<1> USE DEF dbVars
<1>0. TypeOK
  BY DEF CoreInv
<1>1. /\ pc[w] # "notify" /\ pc'[w] = "notify"
      /\ base'[w] = seen[cur[w]] /\ todo'[w] = Events(w)'
      /\ UNCHANGED <<seen, log, lock, found, cur, draft>>
  BY <1>0 DEF ReadSeen, TypeOK
<1>2. \A p \in Found(w) : lock[p] = w
  BY DEF ReadSeen
<1>3. Found(w)' = Found(w)
  BY <1>1 DEF Found
<1>4. \A v \in Ticks \ {w} : Away(v)' \/ Still(v)
  BY <1>0, <1>1 DEF ReadSeen, TypeOK, CoreInv, DraftInv, Away, Still
<1>5. DraftInv'
  <2>1. \A v \in Ticks \ {w} : Still(v) => Events(v)' = Events(v)
    BY DEF Still, Found, Events, IsNew, IsDrop
  <2> QED
    BY <1>1, <1>4, <2>1 DEF CoreInv, DraftInv, Away, Still
<1>6. BaselineIsStable'
  <2>1. \A v \in Ticks \ {w} : Still(v) => Found(v)' = Found(v)
    BY DEF Still, Found
  <2>2. \A p \in Found(w)' : lock'[p] = w /\ base'[w][p] = seen'[cur'[w]][p]
    BY <1>1, <1>2, <1>3
  <2> QED
    BY <1>1, <1>4, <2>1, <2>2 DEF CoreInv, BaselineIsStable, Away, Still, Found
<1>7. HistoryChain' /\ BaselineIsLastEntry'
  BY <1>1 DEF CoreInv, HistoryChain, BaselineIsLastEntry
<1> QED
  BY <1>5, <1>6, <1>7 DEF CoreInv

LEMMA CoreNotify ==
    ASSUME CoreInv, TypeOK', NEW w \in Ticks, NEW p \in Props, NEW status \in Statuses,
           Flush(w, p, status)
    PROVE  CoreInv'
<1> USE DEF dbVars
<1>0. TypeOK
  BY DEF CoreInv
<1>1. /\ pc[w] = "notify" /\ p \in todo[w]
      /\ todo'[w] = todo[w] \ {p}
      /\ draft'[w] = [draft[w] EXCEPT ![p] = status]
      /\ \A v \in Ticks \ {w} : todo'[v] = todo[v] /\ draft'[v] = draft[v]
      /\ UNCHANGED <<seen, log, lock, pc, cur, found, base>>
  BY <1>0 DEF Flush, TypeOK
<1>2. \A v : Found(v)' = Found(v) /\ Events(v)' = Events(v)
  BY <1>1 DEF Found, Events, IsNew, IsDrop
<1>3. status # "none"
  BY DEF Statuses
<1>4. DraftInv'
  <2>1. \A q \in Props : draft'[w][q] = IF q = p THEN status ELSE draft[w][q]
    BY <1>0, <1>1 DEF TypeOK
  <2> QED
    <3>1. ASSUME NEW v \in Ticks, v # w
          PROVE  /\ pc'[v] = pc[v] /\ todo'[v] = todo[v] /\ draft'[v] = draft[v]
                 /\ Events(v)' = Events(v)
      BY <1>1, <1>2, <3>1
    <3>2. /\ todo'[w] \subseteq Events(w)'
          /\ \A q \in Props : draft'[w][q] # "none" <=> q \in Events(w)' \ todo'[w]
      BY <1>1, <1>2, <1>3, <2>1 DEF CoreInv, DraftInv
    <3>3. ASSUME NEW v \in Ticks
          PROVE  /\ pc'[v] = "notify" =>
                      /\ todo'[v] \subseteq Events(v)'
                      /\ \A q \in Props : draft'[v][q] # "none" <=> q \in Events(v)' \ todo'[v]
                 /\ pc'[v] # "notify" => \A q \in Props : draft'[v][q] = "none"
      <4>1. CASE v = w
        BY <1>1, <3>2, <4>1
      <4>2. CASE v # w
        BY <3>1, <4>2 DEF CoreInv, DraftInv
      <4> QED
        BY <4>1, <4>2
    <3> QED
      BY <3>3 DEF DraftInv
<1>5. BaselineIsStable' /\ HistoryChain' /\ BaselineIsLastEntry'
  BY <1>1, <1>2 DEF CoreInv, BaselineIsStable, HistoryChain, BaselineIsLastEntry, Found
<1> QED
  BY <1>4, <1>5 DEF CoreInv

-----------------------------------------------------------------------------

\* What the commit of a tick does to a listing: an event becomes the baseline
\* and the last entry of the history, anything else changes neither.
LEMMA CommitEffect ==
    ASSUME CoreInv, NEW w \in Ticks, Commit(w), NEW s \in Searches, NEW p \in Props
    PROVE  /\ s = cur[w] /\ p \in Events(w) =>
                /\ found[w][p] \in Prices
                /\ seen[s][p] = NoPrice \/ found[w][p] < seen[s][p]
                /\ draft[w][p] \in Statuses
                /\ seen'[s][p] = found[w][p]
                /\ log'[s][p] = Append(log[s][p],
                     [before |-> seen[s][p], after |-> found[w][p], status |-> draft[w][p]])
           /\ ~(s = cur[w] /\ p \in Events(w)) =>
                seen'[s][p] = seen[s][p] /\ log'[s][p] = log[s][p]
<1>1. TypeOK /\ pc[w] = "notify" /\ todo[w] = {}
  BY DEF CoreInv, Commit
<1>2. draft[w][p] # "none" <=> p \in Events(w)
  BY <1>1 DEF CoreInv, DraftInv
<1>3. draft[w][p] \in Statuses \cup {"none"} /\ found[w][p] \in Prices \cup {NoPrice}
      /\ seen[s][p] \in Prices \cup {NoPrice}
  BY <1>1 DEF TypeOK
<1>4. p \in Found(w) <=> found[w][p] # NoPrice
  BY DEF Found
<1>5. p \in Found(w) => base[w][p] = seen[cur[w]][p]
  BY <1>1 DEF CoreInv, BaselineIsStable
<1>6. p \in Events(w) <=> p \in Found(w) /\ (base[w][p] = NoPrice \/ found[w][p] < base[w][p])
  BY DEF Events, IsNew, IsDrop
<1>7. CASE s # cur[w]
  BY <1>1, <1>7 DEF TypeOK, Commit
<1>8. CASE s = cur[w]
  <2>1. seen'[s][p] = IF p \in Found(w) THEN UpsertSeen(base[w][p], found[w][p]) ELSE seen[s][p]
    BY <1>1, <1>8 DEF TypeOK, Commit
  <2>2. log'[s][p] = IF draft[w][p] = "none" THEN log[s][p]
                     ELSE Append(log[s][p], [before |-> base[w][p], after |-> found[w][p],
                                             status |-> draft[w][p]])
    BY <1>1, <1>8 DEF TypeOK, Commit
  <2>3. CASE p \in Events(w)
    BY <1>2, <1>3, <1>4, <1>5, <1>6, <1>8, <2>1, <2>2, <2>3 DEF UpsertSeen
  <2>4. CASE p \notin Events(w)
    BY <1>2, <1>3, <1>4, <1>5, <1>6, <1>8, <2>1, <2>2, <2>4 DEF UpsertSeen
  <2> QED
    BY <2>3, <2>4
<1> QED
  BY <1>7, <1>8

LEMMA CoreCommit ==
    ASSUME CoreInv, TypeOK', NEW w \in Ticks, Commit(w)
    PROVE  CoreInv'
<1>0. TypeOK /\ pc[w] = "notify"
  BY DEF CoreInv, Commit
<1>1. Away(w)'
  BY <1>0 DEF TypeOK, Commit, Finish, Away, Undrafted
<1>2. \A v \in Ticks \ {w} :
        /\ pc'[v] = pc[v] /\ cur'[v] = cur[v] /\ found'[v] = found[v] /\ base'[v] = base[v]
        /\ todo'[v] = todo[v] /\ draft'[v] = draft[v]
        /\ \A p \in Props : lock[p] = v => lock'[p] = v
  BY <1>0 DEF TypeOK, Commit, Finish, Release
<1>3. \A v \in Ticks \ {w} : Found(v)' = Found(v) /\ Events(v)' = Events(v)
  BY <1>2 DEF Found, Events, IsNew, IsDrop
<1>4. DraftInv'
  BY <1>1, <1>2, <1>3 DEF CoreInv, DraftInv, Away
<1>5. BaselineIsStable'
  <2> SUFFICES ASSUME NEW v \in Ticks, pc'[v] = "notify", NEW p \in Found(v)'
               PROVE  lock'[p] = v /\ base'[v][p] = seen'[cur'[v]][p]
    BY DEF BaselineIsStable
  <2>1. v # w
    BY <1>1 DEF Away
  <2>2. p \in Props /\ p \in Found(v) /\ lock[p] = v /\ base[v][p] = seen[cur[v]][p]
    BY <1>2, <1>3, <2>1 DEF CoreInv, BaselineIsStable, Found
  <2>3. p \notin Events(w)
    BY <1>0, <2>1, <2>2 DEF CoreInv, BaselineIsStable, Events
  <2>4. cur[v] \in Searches
    BY <1>0 DEF TypeOK
  <2>5. seen'[cur[v]][p] = seen[cur[v]][p]
    BY <2>2, <2>3, <2>4, CommitEffect
  <2> QED
    BY <1>2, <2>1, <2>2, <2>5
<1>6. HistoryChain' /\ BaselineIsLastEntry'
  <2> SUFFICES ASSUME NEW s \in Searches, NEW p \in Props
               PROVE  /\ \A k \in 1..Len(log'[s][p]) :
                           /\ k = 1 => log'[s][p][k].before = NoPrice
                           /\ k > 1 => /\ log'[s][p][k].before = log'[s][p][k - 1].after
                                       /\ log'[s][p][k].after < log'[s][p][k].before
                      /\ seen'[s][p] = IF log'[s][p] = <<>> THEN NoPrice
                                       ELSE log'[s][p][Len(log'[s][p])].after
    BY DEF HistoryChain, BaselineIsLastEntry
  <2> DEFINE h == log[s][p]
  <2>1. /\ h \in Seq(Alert)
        /\ \A k \in 1..Len(h) :
             /\ k = 1 => h[k].before = NoPrice
             /\ k > 1 => h[k].before = h[k - 1].after /\ h[k].after < h[k].before
        /\ seen[s][p] = IF h = <<>> THEN NoPrice ELSE h[Len(h)].after
    BY <1>0 DEF TypeOK, CoreInv, HistoryChain, BaselineIsLastEntry
  <2>2. CASE ~(s = cur[w] /\ p \in Events(w))
    BY <2>1, <2>2, CommitEffect
  <2>3. CASE s = cur[w] /\ p \in Events(w)
    <3> DEFINE e == [before |-> seen[s][p], after |-> found[w][p], status |-> draft[w][p]]
    <3>1. /\ found[w][p] \in Prices /\ draft[w][p] \in Statuses
          /\ seen[s][p] = NoPrice \/ found[w][p] < seen[s][p]
          /\ seen'[s][p] = found[w][p] /\ log'[s][p] = Append(h, e)
      BY <2>3, CommitEffect
    <3>2. e \in Alert /\ e.before = seen[s][p] /\ e.after = found[w][p]
      BY <1>0, <3>1 DEF TypeOK, Alert
    <3>3. \A k \in 1..Len(h) : h[k] \in Alert /\ h[k].after \in Prices
      <4>1. \A a \in Alert : a.after \in Prices
        BY DEF Alert
      <4> HIDE DEF h
      <4>2. \A k \in 1..Len(h) : h[k] \in Alert
        BY <2>1
      <4> QED
        BY <4>1, <4>2
    <3>4. h # <<>> => seen[s][p] # NoPrice
      BY <2>1, <3>3, PricesAreNumbers
    <3> HIDE DEF e, h
    <3>5. /\ Len(Append(h, e)) = Len(h) + 1
          /\ \A k \in 1..Len(h) : Append(h, e)[k] = h[k]
          /\ Append(h, e)[Len(h) + 1] = e
          /\ Append(h, e) # <<>>
          /\ Len(h) \in Nat
          /\ h = <<>> <=> Len(h) = 0
      BY <2>1, <3>2
    <3>6. ASSUME NEW k \in 1..Len(Append(h, e))
          PROVE  /\ k = 1 => Append(h, e)[k].before = NoPrice
                 /\ k > 1 => /\ Append(h, e)[k].before = Append(h, e)[k - 1].after
                             /\ Append(h, e)[k].after < Append(h, e)[k].before
      <4>1. CASE k \in 1..Len(h)
        BY <2>1, <3>5, <4>1
      <4>2. CASE k = Len(h) + 1
        BY <2>1, <3>1, <3>2, <3>4, <3>5, <4>2
      <4> QED
        BY <3>5, <4>1, <4>2
    <3> QED
      BY <3>1, <3>2, <3>5, <3>6
  <2> QED
    BY <2>2, <2>3
<1> QED
  BY <1>4, <1>5, <1>6 DEF CoreInv

-----------------------------------------------------------------------------

LEMMA CoreNext == CoreInv /\ [Next]_vars => CoreInv'
<1> SUFFICES ASSUME CoreInv, [Next]_vars PROVE CoreInv'
  OBVIOUS
<1>0. TypeOK /\ DraftInv
  BY DEF CoreInv
<1>1. CASE UNCHANGED vars
  BY <1>1 DEF vars, CoreInv, TypeOK, DraftInv, BaselineIsStable, HistoryChain,
              BaselineIsLastEntry, Found, Events, IsNew, IsDrop
<1>2. CASE User
  BY <1>0, <1>2, TypeUser, CoreUser
<1>3. ASSUME NEW w \in Ticks, StartTick(w) \/ TickStep(w) PROVE CoreInv'
  <2>0. TypeOK'
    BY <1>0, <1>3, TypeTick
  <2>1. CASE Outside(w)
    BY <2>0, <2>1, CoreOutside
  <2>2. CASE ReadSeen(w)
    BY <2>0, <2>2, CoreReadSeen
  <2>3. ASSUME NEW p \in Props, Notify(w, p) PROVE CoreInv'
    <3>1. PICK status \in Statuses : Flush(w, p, status)
      BY <2>3 DEF Notify, Record, Send, Statuses
    <3> QED
      BY <2>0, <3>1, CoreNotify
  <2>4. CASE Commit(w)
    BY <2>0, <2>4, CoreCommit
  <2> QED
    BY <1>3, <2>1, <2>2, <2>3, <2>4 DEF TickStep, Outside
<1>4. ASSUME NEW w \in Ticks, Fault(w) \/ DeadlockVictim(w) PROVE CoreInv'
  <2>1. Die(w) /\ faults' \in 0..MaxFaults
    BY <1>0, <1>4, MaxFaultsIsNatural DEF TypeOK, Fault, DeadlockVictim
  <2>2. TypeOK'
    BY <1>0, <2>1, TypeDie
  <2> QED
    BY <2>1, <2>2, CoreOutside DEF Outside
<1> QED
  BY <1>1, <1>2, <1>3, <1>4 DEF Next

LEMMA Invariance == Spec => []CoreInv
<1>1. CoreInv /\ [Next]_vars => CoreInv'
  BY CoreNext
<1> QED
  BY CoreInit, <1>1, PTL DEF Spec

\* Every variable of the worker keeps its type: what is stored, alerted and
\* compared is a price that some card showed.
THEOREM TypeCorrect == Spec => []TypeOK
BY Invariance, PTL DEF CoreInv

\* The history of a listing is a chain, however the ticks overlap and die.
THEOREM HistoryIsChain == Spec => []HistoryChain
BY Invariance, PTL DEF CoreInv

\* The stored minimum is always the price of the last entry.
THEOREM BaselineMatchesHistory == Spec => []BaselineIsLastEntry
BY Invariance, PTL DEF CoreInv

\* From the comparison to the commit nobody moves the baseline under a tick.
THEOREM BaselineStable == Spec => []BaselineIsStable
BY Invariance, PTL DEF CoreInv

-----------------------------------------------------------------------------
(***************************************************************************)
(* Withdrawn searches.                                                     *)
(***************************************************************************)

\* What a step has to keep of a search that nobody is at work on.
Silent(s) ==
    /\ told'[s] = told[s] /\ log'[s] = log[s] /\ seen'[s] = seen[s]
    /\ \A w \in Ticks : ~AtWork(w, s)'

LEMMA SilentStep ==
    ASSUME CoreInv, [Next]_vars, NEW s \in Searches, Abandoned(s)
    PROVE  Silent(s)
<1> USE DEF dbVars, tickVars, Abandoned, Silent
<1>0. TypeOK
  BY DEF CoreInv
<1>1. CASE UNCHANGED vars \/ User
  BY <1>1 DEF vars, AtWork, User, Track, ChangeInterval, Untrack, BecomeDue, SetLink
<1>2. ASSUME NEW w \in Ticks, Outside(w) PROVE Silent(s)
  <2>1. UNCHANGED <<told, log, seen>>
    BY <1>0, <1>2, OutsideLeavesOthers
  <2>2. ASSUME NEW v \in Ticks PROVE ~AtWork(v, s)'
    <3>1. CASE StartTick(w)
      BY <1>0, <3>1 DEF TypeOK, AtWork, StartTick, Overdue
    <3>2. CASE \E t \in Searches : Take(w, t)
      BY <1>0, <3>2 DEF TypeOK, AtWork, Take
    <3>3. CASE \E u \in Providers : ScrapeFails(w, u) \/ ScrapeOk(w, u)
      <4>1. UNCHANGED <<queue, cur, pc>>
        BY <3>3 DEF ScrapeFails, ScrapeOk
      <4> QED
        BY <4>1 DEF AtWork
    <3>4. CASE EndTick(w) \/ EndScrape(w) \/ \E p \in Props : Upsert(w, p)
      BY <1>0, <3>4 DEF TypeOK, AtWork, EndTick, EndScrape, Finish, Upsert
    <3>5. CASE Die(w)
      BY <1>0, <3>5 DEF TypeOK, AtWork, Die
    <3> QED
      BY <1>2, <3>1, <3>2, <3>3, <3>4, <3>5 DEF Outside
  <2> QED
    BY <2>1, <2>2
<1>3. ASSUME NEW w \in Ticks, ReadSeen(w) PROVE Silent(s)
  BY <1>0, <1>3 DEF TypeOK, AtWork, ReadSeen
<1>4. ASSUME NEW w \in Ticks, NEW p \in Props, Notify(w, p) PROVE Silent(s)
  <2>1. /\ UNCHANGED <<log, seen, queue, cur, pc>> /\ pc[w] = "notify"
        /\ \/ told' = told
           \/ told' = [told EXCEPT ![cur[w]][p] = Append(told[cur[w]][p], found[w][p])]
    BY <1>4 DEF Notify, Record, Send, Flush
  <2>2. cur[w] # s
    BY <2>1 DEF AtWork
  <2>3. told'[s] = told[s]
    BY <1>0, <2>1, <2>2 DEF TypeOK
  <2> QED
    BY <2>1, <2>3 DEF AtWork
<1>5. ASSUME NEW w \in Ticks, Commit(w) PROVE Silent(s)
  <2>1. cur[w] # s /\ told' = told
    BY <1>5 DEF AtWork, Commit
  <2>2. log'[s] = log[s] /\ seen'[s] = seen[s]
    BY <1>0, <1>5, <2>1 DEF TypeOK, Commit
  <2>3. \A v \in Ticks : ~AtWork(v, s)'
    BY <1>0, <1>5 DEF TypeOK, AtWork, Commit, Finish
  <2> QED
    BY <2>1, <2>2, <2>3
<1> QED
  BY <1>1, <1>2, <1>3, <1>4, <1>5
  DEF Next, TickStep, Fault, DeadlockVictim, Outside

\* The rows of a tick are minutes old when their turn comes (search_worker.py:76)
\* but a search that was withdrawn before the tick began, or that the tick is
\* done with, is never alerted or compared again.
THEOREM WithdrawnIsSilent == Spec => WithdrawnFallsSilent
<1>1. CoreInv /\ [Next]_vars =>
        [\A s \in Searches : Abandoned(s) =>
           /\ told'[s] = told[s] /\ log'[s] = log[s] /\ seen'[s] = seen[s]
           /\ \A w \in Ticks : ~AtWork(w, s)']_vars
  BY SilentStep DEF Silent
<1> QED
  BY <1>1, Invariance, PTL DEF Spec, WithdrawnFallsSilent

-----------------------------------------------------------------------------
(***************************************************************************)
(* Refinement of PriceWatch.                                               *)
(***************************************************************************)

LEMMA WatchStarts == Init => PW!WatchInit
BY DEF Init, PW!WatchInit, Blank

\* A commit is one observation: of what the tick found, with the statuses of
\* the log rows it flushed.
LEMMA CommitObserves ==
    ASSUME CoreInv, CoreInv', NEW w \in Ticks, Commit(w)
    PROVE  PW!WatchNext
<1> DEFINE s == cur[w]
           status == [p \in Props |-> IF draft[w][p] = "none" THEN "sent" ELSE draft[w][p]]
<1>0. TypeOK /\ TypeOK' /\ pc[w] = "notify"
  BY DEF CoreInv, Commit
<1>1. /\ s \in Searches
      /\ found[w] \in [Props -> Prices \cup {NoPrice}]
      /\ status \in [Props -> Statuses]
  BY <1>0 DEF TypeOK, Statuses
<1>2. \A p \in Props :
        p \in Events(w) <=> PW!Improves(seen[s][p], found[w][p])
  <2> SUFFICES ASSUME NEW p \in Props
               PROVE  p \in Events(w) <=> PW!Improves(seen[s][p], found[w][p])
    OBVIOUS
  <2>1. p \in Found(w) <=> found[w][p] # NoPrice
    BY DEF Found
  <2>2. p \in Found(w) => base[w][p] = seen[s][p]
    BY <1>0 DEF CoreInv, BaselineIsStable
  <2> QED
    BY <2>1, <2>2 DEF Events, IsNew, IsDrop, PW!Improves
<1>3. \A p \in Props : PW!Notable(seen[s][p], found[w][p]) <=> p \in Events(w)
  BY <1>2 DEF PW!Notable
<1>4. \A t \in Searches, p \in Props :
        seen'[t][p] = IF t = s /\ p \in Events(w) THEN found[w][p] ELSE seen[t][p]
  BY CommitEffect
<1>5. \A t \in Searches, p \in Props :
        log'[t][p] = IF t = s /\ p \in Events(w)
                     THEN Append(log[t][p], [before |-> seen[t][p], after |-> found[w][p],
                                             status |-> status[p]])
                     ELSE log[t][p]
  <2> SUFFICES ASSUME NEW t \in Searches, NEW p \in Props, t = s, p \in Events(w)
               PROVE  log'[t][p] = Append(log[t][p],
                          [before |-> seen[t][p], after |-> found[w][p], status |-> status[p]])
    BY CommitEffect
  <2>1. draft[w][p] \in Statuses /\ draft[w][p] # "none"
    BY CommitEffect DEF Statuses
  <2>2. status[p] = draft[w][p]
    BY <2>1
  <2> HIDE DEF status
  <2> QED
    BY <2>2, CommitEffect
<1> HIDE DEF s, status
<1>6. seen' = [seen EXCEPT ![s] =
         [p \in Props |-> IF PW!Improves(seen[s][p], found[w][p]) THEN found[w][p]
                                                                    ELSE seen[s][p]]]
  <2> DEFINE row == [p \in Props |-> IF PW!Improves(seen[s][p], found[w][p])
                                       THEN found[w][p] ELSE seen[s][p]]
  <2>0. row \in [Props -> Prices \cup {NoPrice}]
        /\ \A p \in Props : seen'[s][p] = row[p]
    BY <1>0, <1>1, <1>2, <1>4 DEF TypeOK
  <2> HIDE DEF row
  <2>1. \A t \in Searches : seen'[t] = IF t = s THEN row ELSE seen[t]
    <3>1. \A t \in Searches : seen[t] \in [Props -> Prices \cup {NoPrice}]
                              /\ seen'[t] \in [Props -> Prices \cup {NoPrice}]
      BY <1>0 DEF TypeOK
    <3>2. ASSUME NEW t \in Searches, t # s PROVE seen'[t] = seen[t]
      <4>1. \A p \in Props : seen'[t][p] = seen[t][p]
        BY <1>4, <3>2
      <4> QED
        BY <3>1, <4>1
    <3>3. seen'[s] = row
      BY <1>1, <2>0, <3>1
    <3> QED
      BY <3>2, <3>3
  <2>2. seen' = [seen EXCEPT ![s] = row]
    BY <1>0, <1>1, <2>1 DEF TypeOK
  <2> QED
    BY <2>2 DEF row
<1>7. log' = [log EXCEPT ![s] =
         [p \in Props |->
            IF PW!Notable(seen[s][p], found[w][p])
              THEN Append(log[s][p], [before |-> seen[s][p], after |-> found[w][p],
                                      status |-> status[p]])
              ELSE log[s][p]]]
  <2> DEFINE row == [p \in Props |->
            IF PW!Notable(seen[s][p], found[w][p])
              THEN Append(log[s][p], [before |-> seen[s][p], after |-> found[w][p],
                                      status |-> status[p]])
              ELSE log[s][p]]
  <2>0. /\ row = [p \in Props |-> row[p]]
        /\ \A p \in Props : log'[s][p] = row[p]
    BY <1>1, <1>3, <1>5
  <2> HIDE DEF row
  <2>1. \A t \in Searches : log'[t] = IF t = s THEN row ELSE log[t]
    <3>1. \A t \in Searches : log[t] = [p \in Props |-> log[t][p]]
                              /\ log'[t] = [p \in Props |-> log'[t][p]]
      BY <1>0 DEF TypeOK
    <3>2. ASSUME NEW t \in Searches, t # s PROVE log'[t] = log[t]
      <4>1. \A p \in Props : log'[t][p] = log[t][p]
        BY <1>5, <3>2
      <4> QED
        BY <3>1, <4>1
    <3>3. log'[s] = row
      BY <1>1, <2>0, <3>1
    <3> QED
      BY <3>2, <3>3
  <2>2. log' = [log EXCEPT ![s] = row]
    BY <1>0, <1>1, <2>1 DEF TypeOK
  <2> QED
    BY <2>2 DEF row
<1>8. PW!Observe(s, found[w], status)
  BY <1>6, <1>7 DEF PW!Observe
<1> QED
  BY <1>1, <1>8 DEF PW!WatchNext

\* Every other step is invisible to PriceWatch.
LEMMA StepsObserve ==
    ASSUME CoreInv, CoreInv', [Next]_vars
    PROVE  [PW!WatchNext]_(PW!watchVars)
<1> USE DEF PW!watchVars
<1>1. CASE \E w \in Ticks : Commit(w)
  BY <1>1, CommitObserves
<1>2. CASE ~ \E w \in Ticks : Commit(w)
  <2> USE DEF dbVars
  <2>1. CASE UNCHANGED vars
    BY <2>1 DEF vars
  <2>2. CASE User
    BY <2>2 DEF User, Track, ChangeInterval, Untrack, BecomeDue, SetLink
  <2>3. ASSUME NEW w \in Ticks, StartTick(w) \/ TickStep(w) PROVE UNCHANGED <<seen, log>>
    BY <1>2, <2>3 DEF StartTick, TickStep, EndTick, Take, ScrapeFails, ScrapeOk, EndScrape, Upsert,
                      ReadSeen, Notify, Record, Send, Flush
  <2>4. ASSUME NEW w \in Ticks, Fault(w) \/ DeadlockVictim(w) PROVE UNCHANGED <<seen, log>>
    BY <2>4 DEF Fault, DeadlockVictim, Die
  <2> QED
    BY <2>1, <2>2, <2>3, <2>4 DEF Next
<1> QED
  BY <1>1, <1>2

\* Scraping, locking, messaging, dying and overlapping ticks, seen through the
\* stored minima and the history, are atomic observations of one watch at a time.
THEOREM Refinement == Spec => ImplementsPriceWatch
<1>1. CoreInv /\ CoreInv' /\ [Next]_vars => [PW!WatchNext]_(PW!watchVars)
  BY StepsObserve
<1> QED
  BY <1>1, Invariance, WatchStarts, PTL DEF Spec, ImplementsPriceWatch, PW!WatchSpec

=============================================================================
