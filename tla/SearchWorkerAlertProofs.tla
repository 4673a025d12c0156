----------------------- MODULE SearchWorkerAlertProofs -----------------------
(***************************************************************************)
(* What the user is told by Telegram, for any number of overlapping ticks. *)
(*                                                                         *)
(* If no tick dies between a message and the commit of its transaction     *)
(* (MaxFaults = 0; deadlock victims die before they send anything): every  *)
(* price of a listing is told once, in descending order, and ends up in    *)
(* the history.  ToldInv says who answers for a price already told: the    *)
(* stored minimum and the history, or the tick that sent it and has not    *)
(* committed yet, which still holds the row of the listing.                *)
(*                                                                         *)
(* Whatever dies: an entry marked sent was received (SentInv), and the     *)
(* descent of the prices starts over once for each death at most, since a  *)
(* price nobody answers for is paid for by a death (RestartInv).           *)
(***************************************************************************)
EXTENDS SearchWorkerProofs, FiniteSetTheorems

\* Tick w has notified the event of listing p of search s and has not committed.
Pending(w, s, p) == pc[w] = "notify" /\ cur[w] = s /\ p \in Events(w) \ todo[w]

Decreasing(t) == \A j, k \in 1..Len(t) : j < k => t[k] < t[j]

\* No price will be told that is not below the last one.
Covered(s, p, last) ==
    \/ seen[s][p] # NoPrice /\ seen[s][p] <= last
    \/ \E w \in Ticks : Pending(w, s, p) /\ found[w][p] <= last

Answered(s, p, price) ==
    \/ \E j \in 1..Len(log[s][p]) : log[s][p][j].after = price
    \/ \E w \in Ticks : Pending(w, s, p) /\ found[w][p] = price

ToldInv ==
    \A s \in Searches, p \in Props, y \in Prices :
        /\ Decreasing(told[s][p])
        /\ told[s][p] # <<>> /\ told[s][p][Len(told[s][p])] = y => Covered(s, p, y)
        /\ \A k \in 1..Len(told[s][p]) : told[s][p][k] = y => Answered(s, p, y)

-----------------------------------------------------------------------------

LEMMA SeqOfLarger ==
    ASSUME NEW S, NEW T, S \subseteq T, NEW t \in Seq(S)
    PROVE  t \in Seq(T)
OBVIOUS

LEMMA AppendDecreasing ==
    ASSUME NEW t \in Seq(Nat), NEW x \in Nat, Decreasing(t), t # <<>> => x < t[Len(t)]
    PROVE  Decreasing(Append(t, x))
<1>1. /\ Len(t) \in Nat /\ Len(Append(t, x)) = Len(t) + 1
      /\ \A k \in 1..Len(t) : Append(t, x)[k] = t[k] /\ t[k] \in Nat
      /\ Append(t, x)[Len(t) + 1] = x
      /\ t = <<>> <=> Len(t) = 0
  OBVIOUS
<1>2. \A j \in 1..Len(t) : x < t[j]
  BY <1>1 DEF Decreasing
<1>3. ASSUME NEW j \in 1..Len(Append(t, x)), NEW k \in 1..Len(Append(t, x)), j < k
      PROVE  Append(t, x)[k] < Append(t, x)[j]
  <2>1. j \in 1..Len(t)
    BY <1>1, <1>3
  <2>2. CASE k \in 1..Len(t)
    BY <1>1, <1>3, <2>1, <2>2 DEF Decreasing
  <2>3. CASE k = Len(t) + 1
    BY <1>1, <1>2, <2>1, <2>3
  <2> QED
    BY <1>1, <2>2, <2>3
<1> QED
  BY <1>3 DEF Decreasing

LEMMA PendingStill ==
    ASSUME NEW w \in Ticks, NEW s, NEW p, Still(w), Pending(w, s, p)
    PROVE  Pending(w, s, p)' /\ found'[w][p] = found[w][p]
BY DEF Still, Pending, Events, Found, IsNew, IsDrop

LEMMA ToldInit == Init => ToldInv
BY DEF Init, ToldInv, Decreasing

\* Steps that send and commit nothing, and keep the ticks that are notifying.
LEMMA CoveredQuiet ==
    ASSUME UNCHANGED seen, \A w \in Ticks : pc[w] = "notify" => Still(w),
           NEW s \in Searches, NEW p \in Props, NEW x, Covered(s, p, x)
    PROVE  Covered(s, p, x)'
<1>1. ASSUME NEW w \in Ticks, Pending(w, s, p)
      PROVE  Pending(w, s, p)' /\ found'[w][p] = found[w][p]
  BY <1>1, PendingStill DEF Pending
<1> QED
  BY <1>1 DEF Covered

LEMMA ToldQuiet ==
    ASSUME ToldInv, UNCHANGED <<seen, log, told>>,
           \A w \in Ticks : pc[w] = "notify" => Still(w)
    PROVE  ToldInv'
<1>1. ASSUME NEW s \in Searches, NEW p \in Props, NEW x, Covered(s, p, x)
      PROVE  Covered(s, p, x)'
  BY <1>1, CoveredQuiet
<1>2. ASSUME NEW s \in Searches, NEW p \in Props, NEW x, Answered(s, p, x)
      PROVE  Answered(s, p, x)'
  <2>1. ASSUME NEW w \in Ticks, Pending(w, s, p)
        PROVE  Pending(w, s, p)' /\ found'[w][p] = found[w][p]
    BY <2>1, PendingStill DEF Pending
  <2> QED
    BY <1>2, <2>1 DEF Answered
<1> QED
  BY <1>1, <1>2 DEF ToldInv

\* The rows of a tick's events are its own, so nobody else is at work on them.
LEMMA NotedAlone ==
    ASSUME CoreInv, NEW w \in Ticks, pc[w] = "notify", NEW p \in Events(w),
           NEW v \in Ticks, NEW s, Pending(v, s, p)
    PROVE  v = w
BY DEF Pending, Events, CoreInv, BaselineIsStable

\* A message: a new or lower price, of a listing that no other tick is at work
\* on; from now on its tick answers for it.
LEMMA NotifyEffect ==
    ASSUME CoreInv, NEW w \in Ticks, NEW p \in Props, Notify(w, p)
    PROVE  /\ cur[w] \in Searches /\ found[w][p] \in Prices
           /\ seen[cur[w]][p] = NoPrice \/ found[w][p] < seen[cur[w]][p]
           /\ \A v \in Ticks : ~Pending(v, cur[w], p)
           /\ UNCHANGED <<seen, log, cur, found, faults>>
           /\ Pending(w, cur[w], p)'
           /\ \A s \in Searches, q \in Props : \A x :
                /\ Covered(s, q, x) => Covered(s, q, x)'
                /\ Answered(s, q, x) => Answered(s, q, x)'
<1> USE DEF dbVars
<1>0. TypeOK
  BY DEF CoreInv
<1>1. /\ pc[w] = "notify" /\ p \in todo[w] /\ p \in Events(w) /\ cur[w] \in Searches
      /\ todo'[w] = todo[w] \ {p}
      /\ \A v \in Ticks \ {w} : todo'[v] = todo[v]
      /\ UNCHANGED <<seen, log, pc, cur, found, base, faults>>
  <2>1. PICK status \in Statuses : Flush(w, p, status)
    BY DEF Notify, Record, Send, Statuses
  <2> QED
    BY <1>0, <2>1 DEF Flush, TypeOK, CoreInv, DraftInv
<1>2. ASSUME NEW v \in Ticks PROVE Found(v)' = Found(v) /\ Events(v)' = Events(v)
  BY <1>1 DEF Found, Events, IsNew, IsDrop
<1>3. ASSUME NEW v \in Ticks, NEW s \in Searches, NEW q \in Props, Pending(v, s, q)
      PROVE  Pending(v, s, q)'
  BY <1>1, <1>2, <1>3 DEF Pending
<1>4. /\ found[w][p] \in Prices
      /\ seen[cur[w]][p] = NoPrice \/ found[w][p] < seen[cur[w]][p]
  BY <1>0, <1>1 DEF TypeOK, CoreInv, BaselineIsStable, Events, IsNew, IsDrop, Found
<1>5. ASSUME NEW v \in Ticks, Pending(v, cur[w], p) PROVE FALSE
  <2>1. v = w
    BY <1>1, <1>5, NotedAlone
  <2> QED
    BY <1>1, <1>5, <2>1 DEF Pending
<1>6. Pending(w, cur[w], p)'
  BY <1>1, <1>2 DEF Pending
<1>7. ASSUME NEW s \in Searches, NEW q \in Props, NEW x
      PROVE  /\ Covered(s, q, x) => Covered(s, q, x)'
             /\ Answered(s, q, x) => Answered(s, q, x)'
  BY <1>1, <1>3 DEF Covered, Answered
<1> QED
  BY <1>1, <1>4, <1>5, <1>6, <1>7

\* Its price is below every price told, or there was none.
LEMMA ToldNotify ==
    ASSUME CoreInv, ToldInv, NEW w \in Ticks, NEW p \in Props, Notify(w, p)
    PROVE  ToldInv'
<1> DEFINE s == cur[w]
           x == found[w][p]
<1>0. TypeOK
  BY DEF CoreInv
<1>1. /\ s \in Searches /\ x \in Prices /\ Prices \subseteq Nat
      /\ seen[s][p] = NoPrice \/ x < seen[s][p]
      /\ \A v \in Ticks : ~Pending(v, s, p)
      /\ UNCHANGED <<seen, log, cur, found>>
      /\ Pending(w, s, p)'
  BY NotifyEffect, PricesAreNumbers
<1>4. ASSUME NEW t \in Searches, NEW q \in Props, NEW y, Covered(t, q, y)
      PROVE  Covered(t, q, y)'
  BY <1>4, NotifyEffect
<1>5. ASSUME NEW t \in Searches, NEW q \in Props, NEW y, Answered(t, q, y)
      PROVE  Answered(t, q, y)'
  BY <1>5, NotifyEffect
<1>6. CASE told' = told
  BY <1>4, <1>5, <1>6 DEF ToldInv
<1>7. CASE told' = [told EXCEPT ![s][p] = Append(told[s][p], x)]
  <2> SUFFICES ASSUME NEW t \in Searches, NEW q \in Props, NEW y \in Prices
               PROVE  /\ Decreasing(told'[t][q])
                      /\ told'[t][q] # <<>> /\ told'[t][q][Len(told'[t][q])] = y
                           => Covered(t, q, y)'
                      /\ \A k \in 1..Len(told'[t][q]) : told'[t][q][k] = y => Answered(t, q, y)'
    BY DEF ToldInv, Decreasing
  <2>3. CASE ~(t = s /\ q = p)
    <3>1. told'[t][q] = told[t][q]
      BY <1>0, <1>1, <1>7, <2>3 DEF TypeOK
    <3> QED
      BY <1>4, <1>5, <3>1 DEF ToldInv
  <2>4. CASE t = s /\ q = p
    <3> DEFINE old == told[t][q]
    <3>1. told'[t][q] = Append(old, x)
      BY <1>0, <1>1, <1>7, <2>4 DEF TypeOK
    <3>2. /\ old \in Seq(Prices) /\ old \in Seq(Nat)
          /\ Decreasing(old)
          /\ \A z \in Prices : old # <<>> /\ old[Len(old)] = z => Covered(t, q, z)
          /\ \A k \in 1..Len(old) : old[k] = y => Answered(t, q, y)
      <4>1. old \in Seq(Prices)
        BY <1>0 DEF TypeOK
      <4>2. old \in Seq(Nat)
        BY <1>1, <4>1, SeqOfLarger
      <4> QED
        BY <4>1, <4>2 DEF ToldInv
    <3>3. \A v \in Ticks : ~Pending(v, t, q)
      BY <1>1, <2>4
    <3>4. seen[t][q] = NoPrice \/ seen[t][q] \in Nat
      <4>1. seen[t][q] \in Prices \cup {NoPrice}
        BY <1>0 DEF TypeOK
      <4> QED
        BY <1>1, <4>1
    <3>5. x \in Nat /\ (seen[t][q] = NoPrice \/ x < seen[t][q])
      BY <1>1, <2>4
    <3>6. x = y => Pending(w, t, q)' /\ found'[w][q] = y
      BY <1>1, <2>4
    <3> HIDE DEF x, old, s
    <3>7. old # <<>> => x < old[Len(old)]
      <4> SUFFICES ASSUME old # <<>> PROVE x < old[Len(old)]
        OBVIOUS
      <4>1. old[Len(old)] \in Prices /\ old[Len(old)] \in Nat
        BY <3>2
      <4>2. Covered(t, q, old[Len(old)])
        BY <3>2, <4>1
      <4>3. seen[t][q] # NoPrice /\ seen[t][q] <= old[Len(old)]
        BY <3>3, <4>2 DEF Covered
      <4> QED
        BY <3>4, <3>5, <4>1, <4>3
    <3>8. Decreasing(Append(old, x))
      BY <3>2, <3>5, <3>7, AppendDecreasing
    <3>9. /\ Len(old) \in Nat /\ Len(Append(old, x)) = Len(old) + 1
          /\ \A k \in 1..Len(old) : Append(old, x)[k] = old[k]
          /\ Append(old, x)[Len(old) + 1] = x
      BY <3>2
    <3>10. x = y => Covered(t, q, y)' /\ Answered(t, q, y)'
      <4>1. y <= y
        BY <1>1
      <4> QED
        BY <3>6, <4>1 DEF Covered, Answered
    <3>11. \A k \in 1..Len(old) : old[k] = y => Answered(t, q, y)'
      BY <1>5, <3>2
    <3>12. \A k \in 1..Len(Append(old, x)) :
              Append(old, x)[k] = y => Answered(t, q, y)'
      <4> SUFFICES ASSUME NEW k \in 1..Len(Append(old, x)), Append(old, x)[k] = y
                   PROVE  Answered(t, q, y)'
        OBVIOUS
      <4>1. CASE k \in 1..Len(old)
        BY <3>9, <3>11, <4>1
      <4>2. CASE k = Len(old) + 1
        BY <3>9, <3>10, <4>2
      <4> QED
        BY <3>9, <4>1, <4>2
    <3> QED
      BY <3>1, <3>8, <3>9, <3>10, <3>12
  <2> QED
    BY <2>3, <2>4
<1> QED
  BY <1>6, <1>7 DEF Notify, Record, Send

LEMMA PendingCommit ==
    ASSUME TypeOK, NEW w \in Ticks, Commit(w), NEW v \in Ticks, v # w,
           NEW s, NEW p, Pending(v, s, p)
    PROVE  Pending(v, s, p)' /\ found'[v][p] = found[v][p]
<1>1. Still(v)
  BY DEF TypeOK, Commit, Finish, Release, Still, Pending
<1> QED
  BY <1>1, PendingStill

\* A commit: the stored minimum takes over from the tick.
LEMMA CoveredCommit ==
    ASSUME CoreInv, NEW w \in Ticks, Commit(w),
           NEW s \in Searches, NEW p \in Props, NEW x \in Prices, Covered(s, p, x)
    PROVE  Covered(s, p, x)'
<1>0. TypeOK /\ pc[w] = "notify"
  BY DEF CoreInv, Commit
<1>1. /\ x \in Nat /\ Prices \subseteq Nat /\ NoPrice \notin Prices
      /\ seen[s][p] \in Prices \cup {NoPrice}
  BY <1>0, PricesAreNumbers DEF TypeOK
<1>2. CASE s = cur[w] /\ p \in Events(w)
  <2>1. /\ found[w][p] \in Prices /\ seen'[s][p] = found[w][p]
        /\ seen[s][p] = NoPrice \/ found[w][p] < seen[s][p]
    BY <1>2, CommitEffect
  <2>2. found[w][p] <= x
    <3>1. CASE seen[s][p] # NoPrice /\ seen[s][p] <= x
      <4>1. /\ seen[s][p] \in Nat /\ found[w][p] \in Nat /\ x \in Nat
            /\ found[w][p] < seen[s][p] /\ seen[s][p] <= x
        BY <1>1, <2>1, <3>1
      <4> QED
        BY <4>1
    <3>2. CASE \E v \in Ticks : Pending(v, s, p) /\ found[v][p] <= x
      BY <1>0, <1>2, <3>2, NotedAlone
    <3> QED
      BY <3>1, <3>2 DEF Covered
  <2>3. seen'[s][p] # NoPrice /\ seen'[s][p] <= x
    BY <1>1, <2>1, <2>2
  <2> QED
    BY <2>3 DEF Covered
<1>3. CASE ~(s = cur[w] /\ p \in Events(w))
  <2>1. seen'[s][p] = seen[s][p]
    BY <1>3, CommitEffect
  <2>2. ASSUME NEW v \in Ticks, Pending(v, s, p) PROVE v # w
    BY <1>3, <2>2 DEF Pending
  <2> QED
    BY <1>0, <2>1, <2>2, PendingCommit DEF Covered
<1> QED
  BY <1>2, <1>3

\* The commit: the stored minimum and the history take over from the tick.
LEMMA ToldCommit ==
    ASSUME CoreInv, ToldInv, NEW w \in Ticks, Commit(w)
    PROVE  ToldInv'
<1>0. TypeOK /\ pc[w] = "notify"
  BY DEF CoreInv, Commit
<1>1. UNCHANGED told
  BY DEF Commit
<1>2. ASSUME NEW v \in Ticks, v # w, NEW t \in Searches, NEW q \in Props, Pending(v, t, q)
      PROVE  Pending(v, t, q)' /\ found'[v][q] = found[v][q]
  BY <1>0, <1>2, PendingCommit
<1>3. ASSUME NEW t \in Searches, NEW q \in Props, NEW y \in Prices, Covered(t, q, y)
      PROVE  Covered(t, q, y)'
  BY <1>3, CoveredCommit
<1>4. ASSUME NEW t \in Searches, NEW q \in Props, NEW y \in Prices, Answered(t, q, y)
      PROVE  Answered(t, q, y)'
  <2> DEFINE h == log[t][q]
  <2>0. h \in Seq(Alert)
    BY <1>0 DEF TypeOK
  <2>1. CASE t = cur[w] /\ q \in Events(w)
    <3> DEFINE e == [before |-> seen[t][q], after |-> found[w][q], status |-> draft[w][q]]
    <3>1. log'[t][q] = Append(h, e) /\ found[w][q] \in Prices /\ draft[w][q] \in Statuses
      BY <2>1, CommitEffect
    <3>2. e \in Alert /\ e.after = found[w][q]
      BY <1>0, <3>1 DEF TypeOK, Alert
    <3> HIDE DEF e
    <3>3. CASE \E j \in 1..Len(h) : h[j].after = y
      <4> HIDE DEF h
      <4>1. PICK j \in 1..Len(h) : h[j].after = y
        BY <3>3
      <4>2. j \in 1..Len(Append(h, e)) /\ Append(h, e)[j] = h[j]
        BY <2>0, <3>2, <4>1
      <4>3. j \in 1..Len(log'[t][q]) /\ log'[t][q][j].after = y
        BY <3>1, <4>1, <4>2
      <4> QED
        BY <4>3 DEF Answered
    <3>4. CASE \E v \in Ticks : Pending(v, t, q) /\ found[v][q] = y
      <4>1. PICK v \in Ticks : Pending(v, t, q) /\ found[v][q] = y
        BY <3>4
      <4>2. v = w
        BY <1>0, <2>1, <4>1, NotedAlone
      <4> HIDE DEF h
      <4>3. Len(h) + 1 \in 1..Len(Append(h, e)) /\ Append(h, e)[Len(h) + 1] = e
        BY <2>0, <3>2
      <4>4. Len(h) + 1 \in 1..Len(log'[t][q]) /\ log'[t][q][Len(h) + 1].after = y
        BY <3>1, <3>2, <4>1, <4>2, <4>3
      <4> QED
        BY <4>4 DEF Answered
    <3> QED
      BY <1>4, <3>3, <3>4 DEF Answered
  <2>2. CASE ~(t = cur[w] /\ q \in Events(w))
    <3>1. log'[t][q] = log[t][q]
      BY <2>2, CommitEffect
    <3>2. ASSUME NEW v \in Ticks, Pending(v, t, q) PROVE v # w
      BY <2>2, <3>2 DEF Pending
    <3> QED
      BY <1>2, <1>4, <3>1, <3>2 DEF Answered
  <2> QED
    BY <2>1, <2>2
<1> QED
  BY <1>1, <1>3, <1>4 DEF ToldInv

LEMMA ToldOutside ==
    ASSUME TypeOK, ToldInv, NEW w \in Ticks, Outside(w), pc[w] # "notify"
    PROVE  ToldInv'
<1>1. \A v \in Ticks : pc[v] = "notify" => Still(v)
  BY OutsideLeavesOthers DEF Still
<1> QED
  BY <1>1, OutsideLeavesOthers, ToldQuiet

LEMMA ToldNext ==
    ASSUME CoreInv, ToldInv, MaxFaults = 0, [Next]_vars
    PROVE  ToldInv'
<1> USE DEF dbVars, tickVars
<1>0. TypeOK
  BY DEF CoreInv
<1>1. CASE UNCHANGED vars \/ User
  <2>1. UNCHANGED <<seen, log, told, lock, tickVars>>
    BY <1>1 DEF vars, User, Track, ChangeInterval, Untrack, BecomeDue, SetLink
  <2>2. \A v \in Ticks : pc[v] = "notify" => Still(v)
    BY <2>1 DEF Still
  <2> QED
    BY <2>1, <2>2, ToldQuiet
<1>2. ASSUME NEW w \in Ticks, StartTick(w) \/ TickStep(w) PROVE ToldInv'
  <2>1. CASE ReadSeen(w)
    <3>1. \A v \in Ticks : pc[v] = "notify" => Still(v)
      BY <1>0, <2>1 DEF ReadSeen, TypeOK, Still
    <3>2. UNCHANGED <<seen, log, told>>
      BY <2>1 DEF ReadSeen
    <3> QED
      BY <3>1, <3>2, ToldQuiet
  <2>2. ASSUME NEW p \in Props, Notify(w, p) PROVE ToldInv'
    BY <2>2, ToldNotify
  <2>3. CASE Commit(w)
    BY <2>3, ToldCommit
  <2>4. CASE ~(ReadSeen(w) \/ (\E p \in Props : Notify(w, p)) \/ Commit(w))
    <3>1. Outside(w)
      BY <1>2, <2>4 DEF TickStep, Outside
    <3>2. pc[w] # "notify"
      BY <1>2, <2>4 DEF StartTick, TickStep, EndTick, Take, ScrapeFails, ScrapeOk, EndScrape, Upsert
    <3> QED
      BY <1>0, <3>1, <3>2, ToldOutside
  <2> QED
    BY <2>1, <2>2, <2>3, <2>4
<1>3. ASSUME NEW w \in Ticks, Fault(w) PROVE FALSE
  <2>1. faults \in 0..0 /\ faults < 0
    BY <1>0, <1>3 DEF TypeOK, Fault
  <2> QED
    BY <2>1
<1>4. ASSUME NEW w \in Ticks, DeadlockVictim(w) PROVE ToldInv'
  <2>1. Outside(w) /\ pc[w] = "upsert"
    BY <1>4 DEF DeadlockVictim, Waits, Outside
  <2> QED
    BY <1>0, <2>1, ToldOutside
<1> QED
  BY <1>1, <1>2, <1>3, <1>4 DEF Next

-----------------------------------------------------------------------------

LEMMA ToldInvariance == ASSUME MaxFaults = 0 PROVE Spec => [](CoreInv /\ ToldInv)
<1>1. CoreInv /\ ToldInv /\ [Next]_vars => (CoreInv /\ ToldInv)'
  BY CoreNext, ToldNext
<1> QED
  BY <1>1, CoreInit, ToldInit, PTL DEF Spec

\* As long as no tick dies in the middle, no alert is repeated: ticks that
\* overlap on a search do not tell the user the same price twice.
THEOREM AlertsNotRepeated == ASSUME MaxFaults = 0 PROVE Spec => []NoRepeatedAlert
<1>1. TypeOK /\ ToldInv => NoRepeatedAlert
  <2> SUFFICES ASSUME TypeOK, ToldInv, NEW s \in Searches, NEW p \in Props
               PROVE  Decreasing(told[s][p])
    BY DEF NoRepeatedAlert, Decreasing
  <2>1. CASE told[s][p] = <<>>
    BY <2>1 DEF Decreasing
  <2>2. CASE told[s][p] # <<>>
    <3>1. told[s][p][1] \in Prices
      BY <2>2 DEF TypeOK
    <3> QED
      BY <3>1 DEF ToldInv
  <2> QED
    BY <2>1, <2>2
<1>2. CoreInv /\ ToldInv => NoRepeatedAlert
  BY <1>1 DEF CoreInv
<1> QED
  BY <1>2, ToldInvariance, PTL

\* As long as no tick dies in the middle, every price the user was told is in
\* the history when no tick is at work.
THEOREM AlertsRecorded == ASSUME MaxFaults = 0 PROVE Spec => []ToldIsInHistory
<1>1. CoreInv /\ ToldInv => ToldIsInHistory
  <2> SUFFICES ASSUME CoreInv, ToldInv, Quiet, NEW s \in Searches, NEW p \in Props,
                      NEW k \in 1..Len(told[s][p])
               PROVE  \E j \in 1..Len(log[s][p]) : log[s][p][j].after = told[s][p][k]
    BY DEF ToldIsInHistory
  <2>1. told[s][p] \in Seq(Prices)
    BY DEF CoreInv, TypeOK
  <2>2. told[s][p][k] \in Prices
    BY <2>1
  <2>3. Answered(s, p, told[s][p][k])
    BY <2>2 DEF ToldInv
  <2>4. \A w \in Ticks : ~Pending(w, s, p)
    BY DEF Quiet, Pending
  <2> QED
    BY <2>3, <2>4 DEF Answered
<1> QED
  BY <1>1, ToldInvariance, PTL

-----------------------------------------------------------------------------
(***************************************************************************)
(* Ticks that die: the descent restarts once for each death at most.       *)
(***************************************************************************)

LastTold(s, p) == told[s][p][Len(told[s][p])]

\* A tick died between the message and its commit: nothing that is stored or
\* in progress keeps the last price from being told again.
Debt(s, p) == told[s][p] # <<>> /\ ~Covered(s, p, LastTold(s, p))

RestartInv ==
    \A s \in Searches, p \in Props :
        /\ Cardinality(Restarts(told[s][p])) <= faults
        /\ Debt(s, p) => Cardinality(Restarts(told[s][p])) < faults

LEMMA RestartsFinite ==
    ASSUME NEW t \in Seq(Nat)
    PROVE  IsFiniteSet(Restarts(t)) /\ Cardinality(Restarts(t)) \in Nat
<1>1. IsFiniteSet(2..Len(t))
  BY FS_Interval
<1>2. Restarts(t) \subseteq 2..Len(t)
  BY DEF Restarts
<1> QED
  BY <1>1, <1>2, FS_Subset, FS_CardinalityType

\* A further price is one restart more if it is not below the last one.
LEMMA RestartsOfAppend ==
    ASSUME NEW t \in Seq(Nat), NEW x \in Nat
    PROVE  /\ Cardinality(Restarts(Append(t, x))) <= Cardinality(Restarts(t)) + 1
           /\ (t # <<>> => x < t[Len(t)]) =>
                Cardinality(Restarts(Append(t, x))) = Cardinality(Restarts(t))
           /\ Cardinality(Restarts(Append(t, x))) \in Nat
<1> DEFINE n == Len(t)
           u == Append(t, x)
<1>1. /\ n \in Nat /\ Len(u) = n + 1 /\ u[n + 1] = x
      /\ \A k \in 1..n : u[k] = t[k] /\ t[k] \in Nat
      /\ t = <<>> <=> n = 0
  OBVIOUS
<1>2. IsFiniteSet(Restarts(t)) /\ Cardinality(Restarts(t)) \in Nat
  BY RestartsFinite
<1>3. n + 1 \notin Restarts(t)
  BY <1>1 DEF Restarts
<1> HIDE DEF n, u
<1>4. \A k \in Restarts(u) : k \in Restarts(t) \/ (k = n + 1 /\ n # 0 /\ u[n + 1] >= u[n])
  <2> SUFFICES ASSUME NEW k \in 2..(n + 1), u[k] >= u[k - 1], k # n + 1
               PROVE  k \in 2..n /\ t[k] >= t[k - 1]
    BY <1>1 DEF Restarts, n
  <2>1. k \in 2..n /\ k \in 1..n /\ k - 1 \in 1..n
    BY <1>1
  <2> QED
    BY <1>1, <2>1
<1>5. \A k \in Restarts(t) : k \in Restarts(u)
  <2> SUFFICES ASSUME NEW k \in 2..n, t[k] >= t[k - 1]
               PROVE  k \in 2..(n + 1) /\ u[k] >= u[k - 1]
    BY <1>1 DEF Restarts, n
  <2>1. k \in 2..(n + 1) /\ k \in 1..n /\ k - 1 \in 1..n
    BY <1>1
  <2> QED
    BY <1>1, <2>1
<1>6. Restarts(u) = Restarts(t) \/ Restarts(u) = Restarts(t) \cup {n + 1}
  BY <1>4, <1>5
<1>7. Cardinality(Restarts(t) \cup {n + 1}) = Cardinality(Restarts(t)) + 1
  BY <1>2, <1>3, FS_AddElement
<1>8. ASSUME t # <<>> => x < t[n]
      PROVE  Restarts(u) = Restarts(t)
  <2>1. ~(n # 0 /\ u[n + 1] >= u[n])
    BY <1>1, <1>8
  <2> QED
    BY <1>4, <1>5, <2>1
<1>9. Cardinality(Restarts(u)) <= Cardinality(Restarts(t)) + 1
      /\ Cardinality(Restarts(u)) \in Nat
  <2>1. CASE Restarts(u) = Restarts(t)
    BY <1>2, <2>1
  <2>2. CASE Restarts(u) = Restarts(t) \cup {n + 1}
    <3>1. Cardinality(Restarts(u)) = Cardinality(Restarts(t)) + 1
      BY <1>7, <2>2
    <3> QED
      BY <1>2, <3>1
  <2> QED
    BY <1>6, <2>1, <2>2
<1> QED
  BY <1>8, <1>9 DEF n, u

LEMMA ToldAreNumbers ==
    ASSUME TypeOK, NEW s \in Searches, NEW p \in Props
    PROVE  /\ told[s][p] \in Seq(Nat)
           /\ told[s][p] # <<>> => LastTold(s, p) \in Prices /\ LastTold(s, p) \in Nat
<1>1. told[s][p] \in Seq(Prices) /\ Prices \subseteq Nat
  BY PricesAreNumbers DEF TypeOK
<1>2. told[s][p] \in Seq(Nat)
  BY <1>1, SeqOfLarger
<1> QED
  BY <1>1, <1>2 DEF LastTold

LEMMA RestartInit == Init => RestartInv
<1> SUFFICES ASSUME Init, NEW s \in Searches, NEW p \in Props
             PROVE  Cardinality(Restarts(told[s][p])) = 0 /\ faults = 0 /\ ~Debt(s, p)
  BY DEF RestartInv
<1>1. told[s][p] = <<>> /\ faults = 0
  BY DEF Init
<1>2. Restarts(<<>>) = {}
  BY DEF Restarts
<1> QED
  BY <1>1, <1>2, FS_EmptySet DEF Debt

\* Steps that tell nothing and take no cover away.
LEMMA RestartQuiet ==
    ASSUME TypeOK, RestartInv, UNCHANGED <<told, faults>>,
           \A s \in Searches, p \in Props, x \in Prices : Covered(s, p, x) => Covered(s, p, x)'
    PROVE  RestartInv'
<1> SUFFICES ASSUME NEW s \in Searches, NEW p \in Props, Debt(s, p)'
             PROVE  Debt(s, p)
  BY DEF RestartInv
<1>1. told[s][p] # <<>> /\ LastTold(s, p)' = LastTold(s, p) /\ LastTold(s, p) \in Prices
  BY ToldAreNumbers DEF Debt, LastTold
<1>2. ~Covered(s, p, LastTold(s, p))'
  BY DEF Debt
<1>3. ~Covered(s, p, LastTold(s, p))
  BY <1>1, <1>2
<1> QED
  BY <1>1, <1>3 DEF Debt

\* A death pays for whatever was told and not committed.
LEMMA RestartFault ==
    ASSUME TypeOK, RestartInv, NEW w \in Ticks, Fault(w)
    PROVE  RestartInv'
<1>1. UNCHANGED told /\ faults' = faults + 1 /\ faults \in Nat
  BY MaxFaultsIsNatural DEF TypeOK, Fault, Die
<1>2. \A s \in Searches, p \in Props : Cardinality(Restarts(told[s][p])) \in Nat
  BY ToldAreNumbers, RestartsFinite
<1>3. \A s \in Searches, p \in Props : Cardinality(Restarts(told[s][p])) < faults'
  BY <1>1, <1>2 DEF RestartInv
<1> QED
  BY <1>1, <1>2, <1>3 DEF RestartInv

\* A message: it restarts the descent only if a debt allows for it.
LEMMA RestartNotify ==
    ASSUME CoreInv, RestartInv, NEW w \in Ticks, NEW p \in Props, Notify(w, p)
    PROVE  RestartInv'
<1> DEFINE s == cur[w]
           x == found[w][p]
           old == told[s][p]
<1>0. TypeOK /\ faults \in Nat
  BY MaxFaultsIsNatural DEF CoreInv, TypeOK
<1>1. /\ s \in Searches /\ x \in Prices /\ Prices \subseteq Nat
      /\ seen[s][p] = NoPrice \/ x < seen[s][p]
      /\ \A v \in Ticks : ~Pending(v, s, p)
      /\ UNCHANGED <<seen, cur, found, faults>>
      /\ Pending(w, s, p)'
      /\ \A t \in Searches, q \in Props : \A y : Covered(t, q, y) => Covered(t, q, y)'
  BY NotifyEffect, PricesAreNumbers
<1>2. CASE told' = told
  BY <1>0, <1>1, <1>2, RestartQuiet
<1>3. CASE told' = [told EXCEPT ![s][p] = Append(old, x)]
  <2>1. told'[s][p] = Append(old, x)
    BY <1>0, <1>1, <1>3 DEF TypeOK
  <2>2. ASSUME NEW t \in Searches, NEW q \in Props, ~(t = s /\ q = p)
        PROVE  told'[t][q] = told[t][q]
    BY <1>0, <1>1, <1>3, <2>2 DEF TypeOK
  <2>3. /\ old \in Seq(Nat) /\ x \in Nat
        /\ old # <<>> => old[Len(old)] \in Nat /\ old[Len(old)] \in Prices
        /\ Cardinality(Restarts(old)) \in Nat
        /\ Cardinality(Restarts(old)) <= faults
        /\ Debt(s, p) => Cardinality(Restarts(old)) < faults
        /\ seen[s][p] = NoPrice \/ seen[s][p] \in Nat
    <3>1. old \in Seq(Nat) /\ (old # <<>> => old[Len(old)] \in Nat /\ old[Len(old)] \in Prices)
      BY <1>0, <1>1, ToldAreNumbers DEF LastTold
    <3>2. Cardinality(Restarts(old)) \in Nat
      BY <3>1, RestartsFinite
    <3>3. seen[s][p] \in Prices \cup {NoPrice}
      BY <1>0, <1>1 DEF TypeOK
    <3> QED
      BY <1>1, <3>1, <3>2, <3>3 DEF RestartInv
  <2>4. ~Debt(s, p) /\ old # <<>> => seen[s][p] # NoPrice /\ seen[s][p] <= old[Len(old)]
    BY <1>1 DEF Debt, Covered, LastTold
  <2>5. ~Debt(s, p) /\ old # <<>> => x < old[Len(old)]
    <3> HIDE DEF s, x, old
    <3> QED
      BY <1>1, <2>3, <2>4
  <2>6. Cardinality(Restarts(Append(old, x))) <= faults
    <3> HIDE DEF s, x, old
    <3>1. /\ Cardinality(Restarts(Append(old, x))) \in Nat
          /\ Cardinality(Restarts(Append(old, x))) <= Cardinality(Restarts(old)) + 1
          /\ ~Debt(s, p) => Cardinality(Restarts(Append(old, x))) = Cardinality(Restarts(old))
      BY <2>3, <2>5, RestartsOfAppend
    <3> QED
      BY <1>0, <2>3, <3>1
  <2>7. ASSUME NEW t \in Searches, NEW q \in Props, t = s, q = p
        PROVE  ~Debt(t, q)' /\ told'[t][q] = Append(old, x)
    <3>1. told'[t][q] = Append(old, x)
      BY <2>1, <2>7
    <3>2. Append(old, x)[Len(Append(old, x))] = x
      BY <2>3
    <3>3. LastTold(t, q)' = x
      BY <3>1, <3>2 DEF LastTold
    <3>4. Pending(w, t, q)' /\ found'[w][q] <= x
      BY <1>1, <2>3, <2>7 DEF Pending
    <3> QED
      BY <3>1, <3>3, <3>4 DEF Debt, Covered
  <2>8. ASSUME NEW t \in Searches, NEW q \in Props, ~(t = s /\ q = p), Debt(t, q)'
        PROVE  Debt(t, q)
    <3>1. told'[t][q] = told[t][q]
      BY <2>2, <2>8
    <3> QED
      BY <1>1, <2>8, <3>1 DEF Debt, LastTold
  <2> SUFFICES ASSUME NEW t \in Searches, NEW q \in Props
               PROVE  /\ Cardinality(Restarts(told'[t][q])) <= faults'
                      /\ Debt(t, q)' => Cardinality(Restarts(told'[t][q])) < faults'
    BY DEF RestartInv
  <2>9. CASE t = s /\ q = p
    <3> HIDE DEF old, x, s
    <3> QED
      BY <1>1, <2>6, <2>7, <2>9
  <2>10. CASE ~(t = s /\ q = p)
    <3> HIDE DEF old, x, s
    <3> QED
      BY <1>1, <2>2, <2>8, <2>10 DEF RestartInv
  <2> QED
    BY <2>9, <2>10
<1> QED
  BY <1>2, <1>3 DEF Notify, Record, Send

LEMMA RestartOutside ==
    ASSUME TypeOK, RestartInv, NEW w \in Ticks, Outside(w), pc[w] # "notify", UNCHANGED faults
    PROVE  RestartInv'
<1>1. \A v \in Ticks : pc[v] = "notify" => Still(v)
  BY OutsideLeavesOthers DEF Still
<1>2. UNCHANGED <<seen, told>>
  BY OutsideLeavesOthers
<1> QED
  BY <1>1, <1>2, CoveredQuiet, RestartQuiet

LEMMA RestartNext ==
    ASSUME CoreInv, RestartInv, [Next]_vars
    PROVE  RestartInv'
<1> USE DEF dbVars, tickVars
<1>0. TypeOK
  BY DEF CoreInv
<1>1. CASE UNCHANGED vars \/ User
  <2>1. UNCHANGED <<seen, told, lock, tickVars, faults>>
    BY <1>1 DEF vars, User, Track, ChangeInterval, Untrack, BecomeDue, SetLink
  <2>2. \A v \in Ticks : pc[v] = "notify" => Still(v)
    BY <2>1 DEF Still
  <2> QED
    BY <1>0, <2>1, <2>2, CoveredQuiet, RestartQuiet
<1>2. ASSUME NEW w \in Ticks, StartTick(w) \/ TickStep(w) PROVE RestartInv'
  <2>1. CASE ReadSeen(w)
    <3>1. \A v \in Ticks : pc[v] = "notify" => Still(v)
      BY <1>0, <2>1 DEF ReadSeen, TypeOK, Still
    <3>2. UNCHANGED <<seen, told, faults>>
      BY <2>1 DEF ReadSeen
    <3> QED
      BY <1>0, <3>1, <3>2, CoveredQuiet, RestartQuiet
  <2>2. ASSUME NEW p \in Props, Notify(w, p) PROVE RestartInv'
    BY <2>2, RestartNotify
  <2>3. CASE Commit(w)
    <3>1. UNCHANGED <<told, faults>>
      BY <2>3 DEF Commit
    <3> QED
      BY <1>0, <2>3, <3>1, CoveredCommit, RestartQuiet
  <2>4. CASE ~(ReadSeen(w) \/ (\E p \in Props : Notify(w, p)) \/ Commit(w))
    <3>1. Outside(w)
      BY <1>2, <2>4 DEF TickStep, Outside
    <3>2. pc[w] # "notify" /\ UNCHANGED faults
      BY <1>2, <2>4 DEF StartTick, TickStep, EndTick, Take, ScrapeFails, ScrapeOk, EndScrape, Upsert
    <3> QED
      BY <1>0, <3>1, <3>2, RestartOutside
  <2> QED
    BY <2>1, <2>2, <2>3, <2>4
<1>3. ASSUME NEW w \in Ticks, Fault(w) PROVE RestartInv'
  BY <1>0, <1>3, RestartFault
<1>4. ASSUME NEW w \in Ticks, DeadlockVictim(w) PROVE RestartInv'
  <2>1. Outside(w) /\ pc[w] = "upsert" /\ UNCHANGED faults
    BY <1>4 DEF DeadlockVictim, Waits, Outside
  <2> QED
    BY <1>0, <2>1, RestartOutside
<1> QED
  BY <1>1, <1>2, <1>3, <1>4 DEF Next

\* Whatever dies, and however ticks overlap, an alert is repeated only for a
\* death: the descent of the prices told starts over once for each at most.
THEOREM AlertsRestartForDeaths == Spec => []AlertsRestartOnlyAfterDeath
<1>1. CoreInv /\ RestartInv /\ [Next]_vars => (CoreInv /\ RestartInv)'
  BY CoreNext, RestartNext
<1>2. RestartInv => AlertsRestartOnlyAfterDeath
  BY DEF RestartInv, AlertsRestartOnlyAfterDeath
<1> QED
  BY <1>1, <1>2, CoreInit, RestartInit, PTL DEF Spec

-----------------------------------------------------------------------------
(***************************************************************************)
(* An entry marked sent was received: what is told is never taken back.    *)
(***************************************************************************)

Received(s, p, price) == \E k \in 1..Len(told[s][p]) : told[s][p][k] = price

SentInv ==
    /\ SentIsTold
    /\ \A w \in Ticks, p \in Props :
         pc[w] = "notify" /\ draft[w][p] = "sent" => Received(cur[w], p, found[w][p])

LEMMA SentInit == Init => SentInv
BY DEF Init, SentInv, SentIsTold

LEMMA ReceivedNotify ==
    ASSUME CoreInv, NEW w \in Ticks, NEW p \in Props, NEW o \in Outcomes, o # "failed",
           Send(w, p, o)
    PROVE  /\ \A s \in Searches, q \in Props : \A y : Received(s, q, y) => Received(s, q, y)'
           /\ Received(cur[w], p, found[w][p])'
<1> DEFINE s == cur[w]
           x == found[w][p]
           old == told[s][p]
<1>0. TypeOK
  BY DEF CoreInv
<1>1. s \in Searches /\ x \in Prices /\ UNCHANGED <<cur, found>>
  BY NotifyEffect DEF Notify
<1>2. told' = [told EXCEPT ![s][p] = Append(old, x)]
  BY DEF Send
<1>3. told'[s][p] = Append(old, x)
  BY <1>0, <1>1, <1>2 DEF TypeOK
<1>4. old \in Seq(Prices)
  BY <1>0, <1>1 DEF TypeOK
<1>5. /\ Len(Append(old, x)) = Len(old) + 1 /\ Len(old) \in Nat
      /\ \A k \in 1..Len(old) : Append(old, x)[k] = old[k]
      /\ Append(old, x)[Len(old) + 1] = x
  <2> HIDE DEF old, x
  <2> QED
    BY <1>1, <1>4
<1>6. Received(s, p, x)'
  <2>1. Len(old) + 1 \in 1..Len(told'[s][p]) /\ told'[s][p][Len(old) + 1] = x
    <3> HIDE DEF old, x, s
    <3> QED
      BY <1>3, <1>5
  <2> QED
    BY <1>1, <2>1 DEF Received
<1>7. ASSUME NEW t \in Searches, NEW q \in Props, NEW y, Received(t, q, y)
      PROVE  Received(t, q, y)'
  <2>1. PICK k \in 1..Len(told[t][q]) : told[t][q][k] = y
    BY <1>7 DEF Received
  <2>2. CASE t = s /\ q = p
    <3>1. k \in 1..Len(told'[t][q]) /\ told'[t][q][k] = y
      <4> HIDE DEF x
      <4>1. told'[t][q] = Append(old, x) /\ told[t][q] = old
        BY <1>3, <2>2
      <4> HIDE DEF old, s
      <4> QED
        BY <1>5, <2>1, <4>1
    <3> QED
      BY <3>1 DEF Received
  <2>3. CASE ~(t = s /\ q = p)
    <3>1. told'[t][q] = told[t][q]
      BY <1>0, <1>1, <1>2, <2>3 DEF TypeOK
    <3> QED
      BY <2>1, <3>1 DEF Received
  <2> QED
    BY <2>2, <2>3
<1> QED
  BY <1>1, <1>6, <1>7

LEMMA SentQuiet ==
    ASSUME SentInv, UNCHANGED <<log, told>>,
           \A w \in Ticks : pc'[w] = "notify" =>
              Still(w) \/ \A p \in Props : draft'[w][p] # "sent"
    PROVE  SentInv'
<1>1. SentIsTold'
  BY DEF SentInv, SentIsTold
<1>2. ASSUME NEW w \in Ticks, NEW p \in Props, pc'[w] = "notify", draft'[w][p] = "sent"
      PROVE  Received(cur[w], p, found[w][p])'
  <2>1. Still(w)
    BY <1>2
  <2>2. /\ pc[w] = "notify" /\ draft[w][p] = "sent"
        /\ cur'[w] = cur[w] /\ found'[w] = found[w]
    BY <1>2, <2>1 DEF Still
  <2> QED
    BY <2>2 DEF SentInv, Received
<1> QED
  BY <1>1, <1>2 DEF SentInv

LEMMA SentNotify ==
    ASSUME CoreInv, SentInv, NEW w \in Ticks, NEW p \in Props, Notify(w, p)
    PROVE  SentInv'
<1> USE DEF dbVars
<1>0. TypeOK
  BY DEF CoreInv
<1>1. UNCHANGED <<log, cur, found, pc>> /\ cur[w] \in Searches
  BY <1>0 DEF Notify, Record, Send, Flush, TypeOK
<1>2. ASSUME NEW v \in Ticks, NEW q \in Props, ~(v = w /\ q = p)
      PROVE  draft'[v][q] = draft[v][q]
  BY <1>0, <1>2 DEF Notify, Record, Send, Flush, TypeOK
<1>3. /\ \A s \in Searches, q \in Props : \A y : Received(s, q, y) => Received(s, q, y)'
      /\ draft'[w][p] = "sent" => Received(cur[w], p, found[w][p])'
  <2>1. CASE Record(w, p)
    <3>1. told' = told /\ draft'[w][p] = "pending"
      BY <1>0, <2>1 DEF Record, Flush, TypeOK
    <3> QED
      BY <3>1 DEF Received
  <2>2. ASSUME NEW o \in Outcomes, Send(w, p, o), o = "failed"
        PROVE  /\ \A s \in Searches, q \in Props : \A y : Received(s, q, y) => Received(s, q, y)'
               /\ draft'[w][p] = "sent" => Received(cur[w], p, found[w][p])'
    <3>1. told' = told /\ draft'[w][p] = "failed"
      BY <1>0, <2>2 DEF Send, Flush, TypeOK
    <3> QED
      BY <3>1 DEF Received
  <2>3. ASSUME NEW o \in Outcomes, Send(w, p, o), o # "failed"
        PROVE  /\ \A s \in Searches, q \in Props : \A y : Received(s, q, y) => Received(s, q, y)'
               /\ draft'[w][p] = "sent" => Received(cur[w], p, found[w][p])'
    BY <2>3, ReceivedNotify
  <2> QED
    BY <2>1, <2>2, <2>3 DEF Notify
<1>4. SentIsTold'
  <2>1. ASSUME NEW s \in Searches, NEW q \in Props, NEW j \in 1..Len(log[s][q]),
               log[s][q][j].status = "sent", NEW y, y = log[s][q][j].after
        PROVE  \E k \in 1..Len(told'[s][q]) : told'[s][q][k] = y
    <3>1. Received(s, q, y)
      BY <2>1 DEF SentInv, SentIsTold, Received
    <3>2. Received(s, q, y)'
      BY <1>3, <3>1
    <3> QED
      BY <3>2 DEF Received
  <2>2. ASSUME NEW s \in Searches, NEW q \in Props, NEW j \in 1..Len(log'[s][q]),
               log'[s][q][j].status = "sent"
        PROVE  \E k \in 1..Len(told'[s][q]) : told'[s][q][k] = log'[s][q][j].after
    <3>1. log' = log
      BY <1>1
    <3> QED
      BY <2>1, <2>2, <3>1
  <2> QED
    BY <2>2 DEF SentIsTold
<1>5. ASSUME NEW v \in Ticks, NEW q \in Props, pc'[v] = "notify", draft'[v][q] = "sent"
      PROVE  Received(cur[v], q, found[v][q])'
  <2>1. CASE v = w /\ q = p
    BY <1>3, <1>5, <2>1
  <2>2. CASE ~(v = w /\ q = p)
    <3>1. cur[v] \in Searches /\ Received(cur[v], q, found[v][q])
      BY <1>0, <1>1, <1>2, <1>5, <2>2 DEF SentInv, TypeOK
    <3>2. PICK s \in Searches, y \in {found[v][q]} : s = cur[v]
      BY <3>1
    <3>3. Received(s, q, y)'
      BY <1>3, <3>1, <3>2
    <3>4. s = cur'[v] /\ y = found'[v][q]
      BY <1>1, <3>2
    <3> QED
      BY <3>3, <3>4 DEF Received
  <2> QED
    BY <2>1, <2>2
<1> QED
  BY <1>4, <1>5 DEF SentInv

LEMMA SentCommit ==
    ASSUME CoreInv, SentInv, NEW w \in Ticks, Commit(w)
    PROVE  SentInv'
<1>0. TypeOK /\ pc[w] = "notify" /\ UNCHANGED told
  BY DEF CoreInv, Commit
<1>1. SentIsTold'
  <2> SUFFICES ASSUME NEW s \in Searches, NEW p \in Props, NEW j \in 1..Len(log'[s][p]),
                      log'[s][p][j].status = "sent"
               PROVE  Received(s, p, log'[s][p][j].after)
    BY <1>0 DEF SentIsTold, Received
  <2> DEFINE h == log[s][p]
             e == [before |-> seen[s][p], after |-> found[w][p], status |-> draft[w][p]]
  <2>1. \A k \in 1..Len(h) : h[k].status = "sent" => Received(s, p, h[k].after)
    BY DEF SentInv, SentIsTold, Received
  <2>2. CASE ~(s = cur[w] /\ p \in Events(w))
    BY <2>1, <2>2, CommitEffect
  <2>3. CASE s = cur[w] /\ p \in Events(w)
    <3>1. log'[s][p] = Append(h, e) /\ found[w][p] \in Prices /\ draft[w][p] \in Statuses
      BY <2>3, CommitEffect
    <3>2. e \in Alert /\ e.after = found[w][p] /\ e.status = draft[w][p] /\ h \in Seq(Alert)
      BY <1>0, <3>1 DEF TypeOK, Alert
    <3>3. draft[w][p] = "sent" => Received(s, p, found[w][p])
      BY <1>0, <2>3 DEF SentInv
    <3> HIDE DEF e, h
    <3>4. /\ Len(Append(h, e)) = Len(h) + 1 /\ Len(h) \in Nat
          /\ \A k \in 1..Len(h) : Append(h, e)[k] = h[k]
          /\ Append(h, e)[Len(h) + 1] = e
      BY <3>2
    <3>5. CASE j \in 1..Len(h)
      <4>1. log'[s][p][j] = h[j]
        BY <3>1, <3>4, <3>5
      <4> QED
        BY <2>1, <3>5, <4>1
    <3>6. CASE j = Len(h) + 1
      <4>1. log'[s][p][j] = e
        BY <3>1, <3>4, <3>6
      <4> QED
        BY <3>2, <3>3, <4>1
    <3> QED
      BY <3>1, <3>4, <3>5, <3>6
  <2> QED
    BY <2>2, <2>3
<1>2. ASSUME NEW v \in Ticks, NEW p \in Props, pc'[v] = "notify", draft'[v][p] = "sent"
      PROVE  Received(cur[v], p, found[v][p])'
  <2>1. v # w
    BY <1>0, <1>2 DEF TypeOK, Commit, Finish
  <2>2. pc[v] = "notify" /\ draft[v][p] = "sent" /\ cur'[v] = cur[v] /\ found'[v] = found[v]
    BY <1>0, <1>2, <2>1 DEF TypeOK, Commit, Finish
  <2> QED
    BY <1>0, <2>2 DEF SentInv, Received
<1> QED
  BY <1>1, <1>2 DEF SentInv

LEMMA SentNext ==
    ASSUME CoreInv, SentInv, CoreInv', [Next]_vars
    PROVE  SentInv'
<1> USE DEF dbVars, tickVars
<1>0. TypeOK
  BY DEF CoreInv
<1>1. CASE UNCHANGED vars \/ User
  <2>1. UNCHANGED <<log, told, lock, tickVars>>
    BY <1>1 DEF vars, User, Track, ChangeInterval, Untrack, BecomeDue, SetLink
  <2>2. \A v \in Ticks : pc'[v] = "notify" => Still(v)
    BY <2>1 DEF Still
  <2> QED
    BY <2>1, <2>2, SentQuiet
<1>2. ASSUME NEW w \in Ticks, Outside(w) PROVE SentInv'
  <2>1. \A v \in Ticks : pc'[v] = "notify" => Still(v)
    <3>1. \A v \in Ticks \ {w} : pc'[v] = "notify" => Still(v)
      BY <1>0, <1>2, OutsideLeavesOthers DEF Still
    <3>2. pc'[w] # "notify"
      BY <1>0, <1>2 DEF TypeOK, Outside, StartTick, EndTick, Take, ScrapeFails, ScrapeOk,
                        EndScrape, Upsert, Finish, Die
    <3> QED
      BY <3>1, <3>2
  <2>2. UNCHANGED <<log, told>>
    BY <1>0, <1>2, OutsideLeavesOthers
  <2> QED
    BY <2>1, <2>2, SentQuiet
<1>3. ASSUME NEW w \in Ticks, ReadSeen(w) PROVE SentInv'
  <2>1. UNCHANGED <<log, told, draft>> /\ pc[w] = "upsert"
    BY <1>3 DEF ReadSeen
  <2>2. \A p \in Props : draft'[w][p] # "sent"
    BY <2>1 DEF CoreInv, DraftInv
  <2>3. \A v \in Ticks \ {w} : pc'[v] = "notify" => Still(v)
    BY <1>0, <1>3 DEF ReadSeen, TypeOK, Still
  <2> QED
    BY <2>1, <2>2, <2>3, SentQuiet
<1>4. ASSUME NEW w \in Ticks, Fault(w) \/ DeadlockVictim(w) PROVE SentInv'
  BY <1>2, <1>4 DEF Fault, DeadlockVictim, Outside
<1>5. ASSUME NEW w \in Ticks, StartTick(w) \/ TickStep(w) PROVE SentInv'
  BY <1>2, <1>3, <1>5, SentNotify, SentCommit DEF TickStep, Outside
<1> QED
  BY <1>1, <1>4, <1>5 DEF Next

\* Whatever dies, an entry of the history that is marked sent was received.
THEOREM SentWasReceived == Spec => []SentIsTold
<1>1. CoreInv /\ SentInv /\ [Next]_vars => (CoreInv /\ SentInv)'
  BY CoreNext, SentNext
<1>2. SentInv => SentIsTold
  BY DEF SentInv
<1> QED
  BY <1>1, <1>2, CoreInit, SentInit, PTL DEF Spec

=============================================================================
