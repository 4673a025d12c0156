------------------------ MODULE TrackingServiceProofs ------------------------
(***************************************************************************)
(* For any number of users, targets and concurrent requests: the unique    *)
(* constraint keeps one row per target, untracking is final, and the limit *)
(* is exceeded by less than the number of requests in progress; so the     *)
(* table is a register of atomic steps.                                    *)
(***************************************************************************)
EXTENDS TrackingService, FiniteSetTheorems, TLAPS

\* What a request has loaded or inserted is what its next statement needs.
ArgInv ==
    \A p \in Requests :
        pc[p] \in {"count", "insert", "commit_insert", "update", "commit_update"}
            => arg[p] \in Asked

RidInv ==
    \A p \in Requests :
        pc[p] \in {"update", "commit_update", "deactivate", "commit_deactivate"}
            => rid[p] \in Stored

\* A flushed insert holds an id and an index entry that nobody else has.
InsertInv ==
    \A p \in Requests : pc[p] = "commit_insert" =>
        /\ rid[p] \in RowIds \ Stored
        /\ IndexedFor(arg[p].user, arg[p].target) = {}

DistinctInv ==
    \A p, q \in Requests :
        pc[p] = "commit_insert" /\ pc[q] = "commit_insert" /\ p # q =>
            /\ rid[p] # rid[q]
            /\ <<arg[p].user, arg[p].target>> # <<arg[q].user, arg[q].target>>

\* The requests that counted, found room and have not committed their row.
Passed(u) ==
    {p \in Requests : pc[p] \in {"insert", "commit_insert"} /\ arg[p].user = u}

OvershootInv ==
    \A u \in Users :
        Cardinality(Active(u)) + Cardinality(Passed(u)) <= Limit + Cardinality(Requests) - 1

KeyInv == TypeOK /\ ArgInv /\ RidInv /\ InsertInv /\ DistinctInv /\ OneRowPerTarget

IInv == KeyInv /\ OvershootInv

-----------------------------------------------------------------------------

LEMMA TypeInit == Init => TypeOK
BY DEF Init, TypeOK, Replies

LEMMA TypeNext == TypeOK /\ ArgInv /\ RidInv /\ InsertInv /\ [Next]_vars => TypeOK'
<1> SUFFICES ASSUME TypeOK, ArgInv, RidInv, InsertInv, [Next]_vars
             PROVE  TypeOK'
  OBVIOUS
<1> USE DEF TypeOK, Replies, Awaiting, Goto, Answer
<1>1. CASE UNCHANGED vars
  BY <1>1 DEF vars
<1>2. ASSUME NEW p \in Requests, NEW a \in Asked, RejectCreate(p, a) PROVE TypeOK'
  BY <1>2 DEF RejectCreate
<1>3. ASSUME NEW p \in Requests, NEW a \in Asked, BeginCreate(p, a) PROVE TypeOK'
  BY <1>3 DEF BeginCreate, ActiveFor, Stored
<1>4. ASSUME NEW p \in Requests, NEW u \in Users, NEW r \in RowIds, BeginRemove(p, u, r)
      PROVE  TypeOK'
  BY <1>4 DEF BeginRemove
<1>5. ASSUME NEW p \in Requests, Count(p) PROVE TypeOK'
  BY <1>5 DEF Count
<1>6. ASSUME NEW p \in Requests, Insert(p) PROVE TypeOK'
  BY <1>6 DEF Insert, Fresh
<1>7. ASSUME NEW p \in Requests, CommitInsert(p) PROVE TypeOK'
  <2>1. arg[p] \in Asked /\ rid[p] \in RowIds
    BY <1>7 DEF CommitInsert, ArgInv, InsertInv
  <2> QED
    BY <1>7, <2>1 DEF CommitInsert, Row, Asked
<1>8. ASSUME NEW p \in Requests, Update(p) PROVE TypeOK'
  BY <1>8 DEF Update
<1>9. ASSUME NEW p \in Requests, CommitUpdate(p) PROVE TypeOK'
  <2>1. arg[p] \in Asked /\ rid[p] \in Stored
    BY <1>9 DEF CommitUpdate, ArgInv, RidInv
  <2>2. rows[rid[p]] \in Row
    BY <2>1 DEF Stored
  <2> QED
    BY <1>9, <2>1, <2>2 DEF CommitUpdate, Rescheduled, Row, Asked, Stored
<1>10. ASSUME NEW p \in Requests, Deactivate(p) PROVE TypeOK'
  BY <1>10 DEF Deactivate
<1>11. ASSUME NEW p \in Requests, CommitDeactivate(p) PROVE TypeOK'
  <2>1. rid[p] \in Stored /\ rows[rid[p]] \in Row
    BY <1>11 DEF CommitDeactivate, RidInv, Stored
  <2> QED
    BY <1>11, <2>1 DEF CommitDeactivate, Row, Stored
<1>12. ASSUME NEW p \in Requests, Fail(p) PROVE TypeOK'
  BY <1>12 DEF Fail
<1> QED
  BY <1>1, <1>2, <1>3, <1>4, <1>5, <1>6, <1>7, <1>8, <1>9, <1>10, <1>11, <1>12
  DEF Next, Begin, Step

-----------------------------------------------------------------------------

\* An action that leaves the table alone, and whose request ends or moves to a
\* statement that holds no uncommitted insert.
LEMMA KeyInvQuiet ==
    ASSUME KeyInv, TypeOK', UNCHANGED rows, NEW p \in Requests,
           \A q \in Requests \ {p} :
               pc'[q] = pc[q] /\ arg'[q] = arg[q] /\ rid'[q] = rid[q],
           pc'[p] # "commit_insert",
           pc'[p] \in {"count", "insert", "update", "commit_update"} => arg'[p] \in Asked,
           pc'[p] \in {"update", "commit_update", "deactivate", "commit_deactivate"}
               => rid'[p] \in Stored
    PROVE  KeyInv'
<1>1. Stored' = Stored /\ \A u, t : IndexedFor(u, t)' = IndexedFor(u, t)
  BY DEF Stored, IndexedFor
<1>2. ArgInv' /\ RidInv'
  BY <1>1 DEF KeyInv, ArgInv, RidInv
<1>3. InsertInv' /\ DistinctInv'
  BY <1>1 DEF KeyInv, InsertInv, DistinctInv
<1>4. OneRowPerTarget'
  BY <1>1 DEF KeyInv, OneRowPerTarget
<1> QED
  BY <1>2, <1>3, <1>4 DEF KeyInv

LEMMA KeyInvInsert ==
    ASSUME KeyInv, TypeOK', NEW p \in Requests, Insert(p), UniqueOk(p)
    PROVE  KeyInv'
<1>1. UNCHANGED <<rows, arg>> /\ pc' = [pc EXCEPT ![p] = "commit_insert"]
  BY DEF Insert, Answer, Goto
<1>2. PICK r \in Fresh : rid' = [rid EXCEPT ![p] = r]
  BY DEF Insert, Answer
<1>3. arg[p] \in Asked /\ IndexedFor(arg[p].user, arg[p].target) = {}
  BY DEF Insert, UniqueOk, KeyInv, ArgInv
<1>4. pc \in [Requests -> Awaiting \cup {"idle"}] /\ rid \in [Requests -> RowIds \cup {None}]
  BY DEF KeyInv, TypeOK
<1>5. Stored' = Stored /\ \A u, t : IndexedFor(u, t)' = IndexedFor(u, t)
  BY <1>1 DEF Stored, IndexedFor
<1>6. ArgInv' /\ RidInv'
  BY <1>1, <1>2, <1>3, <1>4, <1>5 DEF KeyInv, ArgInv, RidInv
<1>7. InsertInv'
  BY <1>1, <1>2, <1>3, <1>4, <1>5 DEF KeyInv, InsertInv, Fresh
<1>8. \A q \in Requests : pc[q] = "commit_insert" =>
          /\ rid[q] # r
          /\ <<arg[q].user, arg[q].target>> # <<arg[p].user, arg[p].target>>
  BY <1>2 DEF Insert, KeyLocked, Fresh
<1>9. DistinctInv'
  BY <1>1, <1>2, <1>4, <1>8 DEF KeyInv, DistinctInv
<1>10. OneRowPerTarget'
  BY <1>1, <1>5 DEF KeyInv, OneRowPerTarget
<1> QED
  BY <1>6, <1>7, <1>9, <1>10 DEF KeyInv

LEMMA KeyInvCommitInsert ==
    ASSUME KeyInv, TypeOK', NEW p \in Requests, CommitInsert(p)
    PROVE  KeyInv'
<1> DEFINE new == [user |-> arg[p].user, target |-> arg[p].target,
                   interval |-> arg[p].interval, active |-> TRUE]
<1>1. /\ arg[p] \in Asked
      /\ rid[p] \in RowIds \ Stored
      /\ IndexedFor(arg[p].user, arg[p].target) = {}
  BY DEF CommitInsert, KeyInv, ArgInv, InsertInv
<1>2. rows' = [rows EXCEPT ![rid[p]] = new] /\ rows \in [RowIds -> Row \cup {None}]
  BY DEF CommitInsert, KeyInv, TypeOK
<1>3. new \in Row /\ new # None
  <2>1. arg[p].user \in Users /\ arg[p].target \in Targets /\ arg[p].interval \in AskedIntervals
    BY <1>1 DEF Asked
  <2>2. new \in Row
    BY <2>1 DEF Row, new
  <2> HIDE DEF new
  <2> QED
    BY <2>2, NoneIsNoValue
<1>4. Stored' = Stored \cup {rid[p]}
  BY <1>1, <1>2, <1>3 DEF Stored
<1>5. \A r \in Stored : rows'[r] = rows[r] /\ r # rid[p]
  BY <1>1, <1>2 DEF Stored
<1>6. rows'[rid[p]] = new
  BY <1>1, <1>2
<1>7. \A q \in Requests \ {p} :
          pc'[q] = pc[q] /\ arg'[q] = arg[q] /\ rid'[q] = rid[q]
  BY DEF CommitInsert, Answer, KeyInv, TypeOK
<1>8. pc'[p] = "idle"
  BY DEF CommitInsert, Answer, KeyInv, TypeOK
<1>9. ArgInv' /\ RidInv'
  BY <1>4, <1>7, <1>8 DEF KeyInv, ArgInv, RidInv
<1>10. ASSUME NEW q \in Requests, pc'[q] = "commit_insert"
       PROVE  /\ rid'[q] \in (RowIds \ Stored)'
              /\ IndexedFor(arg[q].user, arg[q].target)' = {}
  <2>1. q # p /\ pc[q] = "commit_insert" /\ arg'[q] = arg[q] /\ rid'[q] = rid[q]
    BY <1>7, <1>8, <1>10
  <2>2. /\ rid[q] \in RowIds \ Stored
        /\ IndexedFor(arg[q].user, arg[q].target) = {}
        /\ rid[q] # rid[p]
        /\ <<arg[p].user, arg[p].target>> # <<arg[q].user, arg[q].target>>
    BY <2>1 DEF CommitInsert, KeyInv, InsertInv, DistinctInv
  <2>3. IndexedFor(arg[q].user, arg[q].target)' = {}
    BY <2>1, <2>2, <1>4, <1>5, <1>6 DEF IndexedFor, new
  <2> QED
    BY <2>1, <2>2, <2>3, <1>4 DEF IndexedFor
<1>11. InsertInv'
  BY <1>10 DEF InsertInv
<1>12. DistinctInv'
  BY <1>7, <1>8 DEF KeyInv, DistinctInv
<1>13. OneRowPerTarget'
  BY <1>1, <1>4, <1>5, <1>6 DEF KeyInv, OneRowPerTarget, IndexedFor, new
<1> QED
  BY <1>9, <1>11, <1>12, <1>13 DEF KeyInv

\* CommitUpdate and CommitDeactivate rewrite one row and leave its key alone.
LEMMA KeyInvRewrite ==
    ASSUME KeyInv, TypeOK', NEW p \in Requests, NEW r \in Stored, NEW row \in Row,
           rows' = [rows EXCEPT ![r] = row],
           row.user = rows[r].user, row.target = rows[r].target,
           \A q \in Requests \ {p} :
               pc'[q] = pc[q] /\ arg'[q] = arg[q] /\ rid'[q] = rid[q],
           pc'[p] = "idle"
    PROVE  KeyInv'
<1>1. rows \in [RowIds -> Row \cup {None}] /\ row # None /\ r \in RowIds
  BY NoneIsNoValue DEF KeyInv, TypeOK, Stored
<1>2. Stored' = Stored
  BY <1>1 DEF Stored
<1>3. \A s \in Stored : rows'[s].user = rows[s].user /\ rows'[s].target = rows[s].target
  BY <1>1 DEF Stored
<1>4. \A u, t : IndexedFor(u, t)' = IndexedFor(u, t)
  BY <1>2, <1>3 DEF IndexedFor
<1>5. ArgInv' /\ RidInv'
  BY <1>2 DEF KeyInv, ArgInv, RidInv
<1>6. InsertInv' /\ DistinctInv'
  BY <1>2, <1>4 DEF KeyInv, InsertInv, DistinctInv
<1>7. OneRowPerTarget'
  BY <1>2, <1>3 DEF KeyInv, OneRowPerTarget
<1> QED
  BY <1>5, <1>6, <1>7 DEF KeyInv

LEMMA KeyInit == Init => KeyInv
BY TypeInit DEF Init, KeyInv, ArgInv, RidInv, InsertInv, DistinctInv, OneRowPerTarget, Stored

LEMMA KeyNext == KeyInv /\ [Next]_vars => KeyInv'
<1> SUFFICES ASSUME KeyInv, [Next]_vars
             PROVE  KeyInv'
  OBVIOUS
<1>0. TypeOK /\ TypeOK'
  BY TypeNext DEF KeyInv
<1>a. /\ pc \in [Requests -> Awaiting \cup {"idle"}]
      /\ arg \in [Requests -> Asked \cup {None}]
      /\ rid \in [Requests -> RowIds \cup {None}]
  BY <1>0 DEF TypeOK
<1>b. \A q \in Requests : pc[q] = "commit_update" => arg[q] \in Asked
  BY DEF KeyInv, ArgInv
<1>c. \A q \in Requests : pc[q] \in {"update", "commit_update", "deactivate", "commit_deactivate"}
          => rid[q] \in Stored /\ rows[rid[q]] \in Row
  BY <1>0 DEF KeyInv, RidInv, Stored, TypeOK
<1>1. CASE UNCHANGED vars
  BY <1>1, <1>0 DEF vars, KeyInv, ArgInv, RidInv, InsertInv, DistinctInv, OneRowPerTarget,
                    Stored, IndexedFor
<1>2. ASSUME NEW p \in Requests, NEW a \in Asked, RejectCreate(p, a) PROVE KeyInv'
  BY <1>2, <1>0, <1>a, KeyInvQuiet DEF RejectCreate, Answer
<1>3. ASSUME NEW p \in Requests, NEW a \in Asked, BeginCreate(p, a) PROVE KeyInv'
  BY <1>3, <1>0, <1>a, KeyInvQuiet DEF BeginCreate, Goto, ActiveFor
<1>4. ASSUME NEW p \in Requests, NEW u \in Users, NEW r \in RowIds, BeginRemove(p, u, r)
      PROVE  KeyInv'
  BY <1>4, <1>0, <1>a, KeyInvQuiet DEF BeginRemove, Goto, Answer
<1>5. ASSUME NEW p \in Requests, Count(p) PROVE KeyInv'
  <2>1. arg[p] \in Asked
    BY <1>5 DEF Count, KeyInv, ArgInv
  <2> QED
    BY <1>5, <2>1, <1>0, <1>a, KeyInvQuiet DEF Count, Goto, Answer
<1>6. ASSUME NEW p \in Requests, Insert(p) PROVE KeyInv'
  <2>1. CASE UniqueOk(p)
    BY <1>6, <2>1, <1>0, KeyInvInsert
  <2>2. CASE ~UniqueOk(p)
    BY <1>6, <2>2, <1>0, <1>a, KeyInvQuiet DEF Insert, Answer
  <2> QED
    BY <2>1, <2>2
<1>7. ASSUME NEW p \in Requests, CommitInsert(p) PROVE KeyInv'
  BY <1>7, <1>0, KeyInvCommitInsert
<1>8. ASSUME NEW p \in Requests, Update(p) PROVE KeyInv'
  <2>1. arg[p] \in Asked /\ rid[p] \in Stored
    BY <1>8, <1>c DEF Update, KeyInv, ArgInv
  <2> QED
    BY <1>8, <2>1, <1>0, <1>a, KeyInvQuiet DEF Update, Goto
<1>9. ASSUME NEW p \in Requests, CommitUpdate(p) PROVE KeyInv'
  <2> DEFINE row == [rows[rid[p]] EXCEPT !.interval = arg[p].interval]
  <2>1. arg[p] \in Asked /\ rid[p] \in Stored /\ rows[rid[p]] \in Row
    BY <1>9, <1>b, <1>c DEF CommitUpdate
  <2>2. row \in Row /\ row.user = rows[rid[p]].user /\ row.target = rows[rid[p]].target
    BY <2>1 DEF Row, Asked
  <2>3. rows' = [rows EXCEPT ![rid[p]] = row]
    BY <1>9 DEF CommitUpdate, Rescheduled
  <2>4. /\ \A q \in Requests \ {p} :
                pc'[q] = pc[q] /\ arg'[q] = arg[q] /\ rid'[q] = rid[q]
        /\ pc'[p] = "idle"
    BY <1>9, <1>a DEF CommitUpdate, Answer
  <2> HIDE DEF row
  <2> QED
    BY <2>1, <2>2, <2>3, <2>4, <1>0, KeyInvRewrite
<1>10. ASSUME NEW p \in Requests, Deactivate(p) PROVE KeyInv'
  <2>1. rid[p] \in Stored
    BY <1>10, <1>c DEF Deactivate
  <2> QED
    BY <1>10, <2>1, <1>0, <1>a, KeyInvQuiet DEF Deactivate, Goto
<1>11. ASSUME NEW p \in Requests, CommitDeactivate(p) PROVE KeyInv'
  <2> DEFINE row == [rows[rid[p]] EXCEPT !.active = FALSE]
  <2>1. rid[p] \in Stored /\ rows[rid[p]] \in Row
    BY <1>11, <1>c DEF CommitDeactivate
  <2>2. row \in Row /\ row.user = rows[rid[p]].user /\ row.target = rows[rid[p]].target
    BY <2>1 DEF Row
  <2>3. rows' = [rows EXCEPT ![rid[p]] = row]
    BY <1>11 DEF CommitDeactivate
  <2>4. /\ \A q \in Requests \ {p} :
                pc'[q] = pc[q] /\ arg'[q] = arg[q] /\ rid'[q] = rid[q]
        /\ pc'[p] = "idle"
    BY <1>11, <1>a DEF CommitDeactivate, Answer
  <2> HIDE DEF row
  <2> QED
    BY <2>1, <2>2, <2>3, <2>4, <1>0, KeyInvRewrite
<1>12. ASSUME NEW p \in Requests, Fail(p) PROVE KeyInv'
  BY <1>12, <1>0, <1>a, KeyInvQuiet DEF Fail, Answer
<1> QED
  BY <1>1, <1>2, <1>3, <1>4, <1>5, <1>6, <1>7, <1>8, <1>9, <1>10, <1>11, <1>12
  DEF Next, Begin, Step

LEMMA KeyInvariant == Spec => []KeyInv
BY KeyInit, KeyNext, PTL DEF Spec

-----------------------------------------------------------------------------

\* Every row is well typed at all times.
THEOREM TypeCorrect == Spec => []TypeOK
<1>1. KeyInv => TypeOK
  BY DEF KeyInv
<1> QED
  BY KeyInvariant, <1>1, PTL

\* The unique constraint survives every interleaving of inserts, so no lookup
\* by user and target ever meets two rows.
THEOREM RowsStayUnique == Spec => []OneRowPerTarget
<1>1. KeyInv => OneRowPerTarget
  BY DEF KeyInv
<1> QED
  BY KeyInvariant, <1>1, PTL

\* No create, however stale the row it loaded, revives an untracked row.
THEOREM UntrackedStaysUntracked == Spec => UntrackIsFinal
<1> DEFINE Final == \A r \in Stored : ~rows[r].active => r \in Stored' /\ ~rows'[r].active
<1>1. ASSUME KeyInv, [Next]_vars PROVE [Final]_vars
  <2> SUFFICES ASSUME NEW r \in Stored, ~rows[r].active, NEW p \in Requests, Step(p)
               PROVE  rows'[r] # None /\ ~rows'[r].active
    BY <1>1 DEF Next, Begin, Fail, RejectCreate, BeginCreate, BeginRemove, Stored, vars
  <2>0. /\ rows \in [RowIds -> Row \cup {None}]
        /\ r \in RowIds /\ rows[r] \in Row
    BY <1>1 DEF KeyInv, TypeOK, Stored
  <2>1. CASE CommitInsert(p)
    BY <1>1, <2>0, <2>1 DEF KeyInv, InsertInv, CommitInsert, Stored
  <2>2. CASE CommitUpdate(p)
    <3>1. rid[p] \in RowIds /\ rid[p] \in Stored
      BY <1>1, <2>2 DEF KeyInv, RidInv, CommitUpdate, Stored
    <3>2. CASE rid[p] = r
      <4>1. rows'[r] = [rows[r] EXCEPT !.interval = arg[p].interval] /\ arg[p] \in Asked
        BY <1>1, <2>0, <2>2, <3>2 DEF KeyInv, ArgInv, CommitUpdate, Rescheduled
      <4>2. rows'[r] \in Row
        BY <2>0, <4>1 DEF Row, Asked
      <4>3. rows'[r].active = rows[r].active
        BY <2>0, <4>1 DEF Row
      <4> QED
        BY <4>2, <4>3, NoneIsNoValue
    <3>3. CASE rid[p] # r
      BY <2>0, <2>2, <3>1, <3>3 DEF CommitUpdate, Stored
    <3> QED
      BY <3>2, <3>3
  <2>3. CASE CommitDeactivate(p)
    <3>1. rid[p] \in RowIds /\ rid[p] \in Stored
      BY <1>1, <2>3 DEF KeyInv, RidInv, CommitDeactivate, Stored
    <3>2. CASE rid[p] = r
      <4>1. rows'[r] = [rows[r] EXCEPT !.active = FALSE]
        BY <2>0, <2>3, <3>2 DEF CommitDeactivate
      <4>2. rows'[r] \in Row
        BY <2>0, <4>1 DEF Row
      <4>3. ~rows'[r].active
        BY <2>0, <4>1 DEF Row
      <4> QED
        BY <4>2, <4>3, NoneIsNoValue
    <3>3. CASE rid[p] # r
      BY <2>0, <2>3, <3>1, <3>3 DEF CommitDeactivate, Stored
    <3> QED
      BY <3>2, <3>3
  <2>4. CASE UNCHANGED rows
    BY <2>0, <2>4 DEF Stored
  <2> QED
    BY <2>1, <2>2, <2>3, <2>4 DEF Step, Count, Insert, Update, Deactivate
<1> QED
  BY KeyInvariant, <1>1, PTL DEF Spec, UntrackIsFinal

-----------------------------------------------------------------------------
(***************************************************************************)
(* The limit.  A request that counted has seen room for one row: summed    *)
(* with the requests still to insert, the active rows of a user stay under *)
(* the limit and the number of handlers.                                   *)
(***************************************************************************)

LEMMA FiniteParts ==
    ASSUME NEW u
    PROVE  /\ IsFiniteSet(Active(u)) /\ Cardinality(Active(u)) \in Nat
           /\ IsFiniteSet(Passed(u)) /\ Cardinality(Passed(u)) \in Nat
           /\ Cardinality(Passed(u)) <= Cardinality(Requests)
           /\ Cardinality(Requests) \in Nat /\ Cardinality(Requests) >= 1
<1>1. Active(u) \subseteq RowIds /\ Passed(u) \subseteq Requests
  BY DEF Active, Stored, Passed
<1>2. /\ IsFiniteSet(Active(u)) /\ IsFiniteSet(Passed(u))
      /\ Cardinality(Passed(u)) <= Cardinality(Requests)
  BY <1>1, RowIdsFinite, RequestsFinite, FS_Subset
<1>3. Cardinality(Requests) # 0
  BY RequestsFinite, FS_EmptySet
<1> QED
  BY <1>2, <1>3, RequestsFinite, FS_CardinalityType

LEMMA FinitePartsNext ==
    ASSUME NEW u
    PROVE  /\ IsFiniteSet(Active(u)') /\ Cardinality(Active(u)') \in Nat
           /\ IsFiniteSet(Passed(u)') /\ Cardinality(Passed(u)') \in Nat
           /\ Cardinality(Passed(u)') <= Cardinality(Requests)
<1>1. Active(u)' \subseteq RowIds /\ Passed(u)' \subseteq Requests
  BY DEF Active, Stored, Passed
<1> QED
  BY <1>1, RowIdsFinite, RequestsFinite, FS_Subset, FS_CardinalityType

\* A step after which a user has no new active row and no new insert to come.
LEMMA OvershootShrinks ==
    ASSUME NEW u, Active(u)' \subseteq Active(u), Passed(u)' \subseteq Passed(u),
           Cardinality(Active(u)) + Cardinality(Passed(u)) <= Limit + Cardinality(Requests) - 1
    PROVE  Cardinality(Active(u)') + Cardinality(Passed(u)') <= Limit + Cardinality(Requests) - 1
<1>1. /\ Cardinality(Active(u)') <= Cardinality(Active(u))
      /\ Cardinality(Passed(u)') <= Cardinality(Passed(u))
  BY FiniteParts, FS_Subset
<1> QED
  BY <1>1, FiniteParts, FinitePartsNext, LimitIsNatural

LEMMA OvershootCount ==
    ASSUME TypeOK, OvershootInv, NEW p \in Requests, Count(p)
    PROVE  OvershootInv'
<1> SUFFICES ASSUME NEW u \in Users
             PROVE  Cardinality(Active(u)') + Cardinality(Passed(u)')
                        <= Limit + Cardinality(Requests) - 1
  BY DEF OvershootInv
<1>1. Active(u)' = Active(u)
  BY DEF Count, Active, Stored
<1>2. CASE CountOk(p) /\ arg[p].user = u
  <2>1. Cardinality(Active(u)') < Limit
    BY <1>1, <1>2 DEF CountOk
  <2> QED
    BY <2>1, FinitePartsNext, FiniteParts, LimitIsNatural
<1>3. CASE ~(CountOk(p) /\ arg[p].user = u)
  <2>1. Passed(u)' \subseteq Passed(u)
    BY <1>3 DEF TypeOK, Count, Goto, Answer, Passed
  <2> QED
    BY <1>1, <2>1, OvershootShrinks DEF OvershootInv
<1> QED
  BY <1>2, <1>3

LEMMA OvershootCommitInsert ==
    ASSUME KeyInv, OvershootInv, NEW p \in Requests, CommitInsert(p)
    PROVE  OvershootInv'
<1> SUFFICES ASSUME NEW u \in Users
             PROVE  Cardinality(Active(u)') + Cardinality(Passed(u)')
                        <= Limit + Cardinality(Requests) - 1
  BY DEF OvershootInv
<1>1. /\ arg[p] \in Asked /\ rid[p] \in RowIds \ Stored
      /\ rows \in [RowIds -> Row \cup {None}]
      /\ pc \in [Requests -> Awaiting \cup {"idle"}]
  BY DEF KeyInv, ArgInv, InsertInv, CommitInsert, TypeOK
<1>2. \A r \in RowIds \ {rid[p]} : rows'[r] = rows[r]
  BY <1>1 DEF CommitInsert
<1>3. rows'[rid[p]].user = arg[p].user
  BY <1>1 DEF CommitInsert
<1>4. Passed(u)' = Passed(u) \ {p}
  BY <1>1 DEF CommitInsert, Answer, Passed, KeyInv, TypeOK
<1>5. CASE arg[p].user = u
  <2>1. Active(u)' \subseteq Active(u) \cup {rid[p]}
    BY <1>2 DEF Active, Stored
  <2>2. Cardinality(Active(u)') <= Cardinality(Active(u)) + 1
    <3>0. /\ IsFiniteSet(Active(u) \cup {rid[p]})
          /\ \/ Cardinality(Active(u) \cup {rid[p]}) = Cardinality(Active(u))
             \/ Cardinality(Active(u) \cup {rid[p]}) = Cardinality(Active(u)) + 1
      <4>1. IsFiniteSet(Active(u))
        BY FiniteParts
      <4> HIDE DEF Active
      <4> QED
        BY <4>1, FS_AddElement
    <3>1. /\ IsFiniteSet(Active(u) \cup {rid[p]})
          /\ Cardinality(Active(u) \cup {rid[p]}) <= Cardinality(Active(u)) + 1
          /\ Cardinality(Active(u) \cup {rid[p]}) \in Nat
      BY <3>0, FiniteParts
    <3>2. Cardinality(Active(u)') <= Cardinality(Active(u) \cup {rid[p]})
      BY <2>1, <3>1, FS_Subset
    <3> QED
      BY <3>1, <3>2, FiniteParts, FinitePartsNext
  <2>3. p \in Passed(u)
    BY <1>5 DEF CommitInsert, Passed
  <2>4. Cardinality(Passed(u)') = Cardinality(Passed(u)) - 1
    BY <1>4, <2>3, FiniteParts, FS_RemoveElement
  <2>5. Cardinality(Active(u)) + Cardinality(Passed(u)) <= Limit + Cardinality(Requests) - 1
    BY DEF OvershootInv
  <2> QED
    BY <2>2, <2>4, <2>5, FiniteParts, FinitePartsNext, LimitIsNatural
<1>6. CASE arg[p].user # u
  <2>1. Active(u)' \subseteq Active(u)
    BY <1>2, <1>3, <1>6 DEF Active, Stored
  <2> QED
    BY <1>4, <2>1, OvershootShrinks DEF OvershootInv
<1> QED
  BY <1>5, <1>6

LEMMA OvershootInit == Init => OvershootInv
<1> SUFFICES ASSUME Init, NEW u \in Users
             PROVE  Cardinality(Active(u)) + Cardinality(Passed(u))
                        <= Limit + Cardinality(Requests) - 1
  BY DEF OvershootInv
<1>1. Active(u) = {} /\ Passed(u) = {}
  BY DEF Init, Active, Stored, Passed
<1> QED
  BY <1>1, FS_EmptySet, FiniteParts, LimitIsNatural

LEMMA OvershootNext == KeyInv /\ OvershootInv /\ [Next]_vars => OvershootInv'
<1> SUFFICES ASSUME KeyInv, OvershootInv, [Next]_vars
             PROVE  OvershootInv'
  OBVIOUS
<1>0. TypeOK
  BY DEF KeyInv
<1>1. ASSUME NEW u \in Users, Active(u)' \subseteq Active(u), Passed(u)' \subseteq Passed(u)
      PROVE  Cardinality(Active(u)') + Cardinality(Passed(u)')
                 <= Limit + Cardinality(Requests) - 1
  BY <1>1, OvershootShrinks DEF OvershootInv
<1>2. CASE UNCHANGED vars
  <2>1. \A u \in Users : Active(u)' \subseteq Active(u) /\ Passed(u)' \subseteq Passed(u)
    BY <1>2 DEF vars, Active, Stored, Passed
  <2> QED
    BY <1>1, <2>1 DEF OvershootInv
<1>3. ASSUME NEW p \in Requests, Begin(p) \/ Fail(p) \/ Update(p) \/ Deactivate(p) \/ Insert(p)
      PROVE  OvershootInv'
  <2>1. rows' = rows
    BY <1>3 DEF Begin, RejectCreate, BeginCreate, BeginRemove, Fail, Update, Deactivate, Insert
  <2>2. \A q \in Requests \ {p} : pc'[q] = pc[q] /\ arg'[q] = arg[q]
    BY <1>3, <1>0 DEF TypeOK, Begin, RejectCreate, BeginCreate, BeginRemove, Fail, Update,
                      Deactivate, Insert, Goto, Answer
  <2>3. \/ pc'[p] \notin {"insert", "commit_insert"}
        \/ pc[p] = "insert" /\ arg'[p] = arg[p]
    BY <1>3, <1>0 DEF TypeOK, Begin, RejectCreate, BeginCreate, BeginRemove, Fail, Update,
                      Deactivate, Insert, Goto, Answer
  <2>4. \A u \in Users : Active(u)' \subseteq Active(u) /\ Passed(u)' \subseteq Passed(u)
    BY <2>1, <2>2, <2>3 DEF Active, Stored, Passed
  <2> QED
    BY <1>1, <2>4 DEF OvershootInv
<1>4. ASSUME NEW p \in Requests, Count(p) PROVE OvershootInv'
  BY <1>0, <1>4, OvershootCount
<1>5. ASSUME NEW p \in Requests, CommitInsert(p) PROVE OvershootInv'
  BY <1>5, OvershootCommitInsert
<1>6. ASSUME NEW p \in Requests, CommitUpdate(p) \/ CommitDeactivate(p)
      PROVE  OvershootInv'
  <2>1. rid[p] \in Stored /\ rows[rid[p]] \in Row
    BY <1>6, <1>0 DEF KeyInv, RidInv, TypeOK, Stored, CommitUpdate, CommitDeactivate
  <2>2. \A r \in RowIds \ {rid[p]} : rows'[r] = rows[r]
    BY <1>6, <1>0 DEF TypeOK, CommitUpdate, CommitDeactivate
  <2>3. /\ rows'[rid[p]].user = rows[rid[p]].user
        /\ rows'[rid[p]].active => rows[rid[p]].active
    BY <1>6, <1>0, <2>1 DEF TypeOK, CommitUpdate, Rescheduled, CommitDeactivate, Row, Stored
  <2>4. /\ \A q \in Requests \ {p} : pc'[q] = pc[q] /\ arg'[q] = arg[q]
        /\ pc'[p] = "idle"
    BY <1>6, <1>0 DEF TypeOK, CommitUpdate, CommitDeactivate, Answer
  <2>5. \A u \in Users : Active(u)' \subseteq Active(u)
    BY <2>1, <2>2, <2>3 DEF Active, Stored
  <2>6. \A u \in Users : Passed(u)' \subseteq Passed(u)
    BY <2>4 DEF Passed
  <2> QED
    BY <1>1, <2>5, <2>6 DEF OvershootInv
<1> QED
  BY <1>2, <1>3, <1>4, <1>5, <1>6 DEF Next, Step

LEMMA Invariance == Spec => []IInv
<1>1. Init => IInv
  BY KeyInit, OvershootInit DEF IInv
<1>2. IInv /\ [Next]_vars => IInv'
  BY KeyNext, OvershootNext DEF IInv
<1> QED
  BY <1>1, <1>2, PTL DEF Spec

\* With n handlers at work a user has at most Limit + n - 1 active trackings:
\* one handler alone never exceeds the limit.
THEOREM LimitOvershoot == Spec => []LimitOvershootBounded
<1>1. IInv => LimitOvershootBounded
  <2> SUFFICES ASSUME OvershootInv, NEW u \in Users
               PROVE  Cardinality(Active(u)) <= Limit + Cardinality(Requests) - 1
    BY DEF IInv, LimitOvershootBounded
  <2>1. Cardinality(Active(u)) + Cardinality(Passed(u)) <= Limit + Cardinality(Requests) - 1
    BY DEF OvershootInv
  <2> QED
    BY <2>1, FiniteParts, LimitIsNatural
<1> QED
  BY Invariance, <1>1, PTL

-----------------------------------------------------------------------------
(***************************************************************************)
(* The committed table implements TrackingRegistry.  Only the three commits *)
(* are visible: each is a step of the register, and its guard holds when    *)
(* the commit comes, not only when the request asked.                       *)
(***************************************************************************)

\* What was validated before the first statement is still what is written.
AskInv ==
    \A p \in Requests :
        pc[p] \in {"count", "insert", "commit_insert", "update", "commit_update"} =>
            /\ arg[p].interval \in ValidIntervals
            /\ <<arg[p].user, arg[p].target>> \in Trackable

Entries == {rows[r] : r \in Stored}

LEMMA AskInit == Init => AskInv
BY DEF Init, AskInv

LEMMA AskNext == TypeOK /\ AskInv /\ [Next]_vars => AskInv'
<1> SUFFICES ASSUME TypeOK, AskInv, [Next]_vars
             PROVE  AskInv'
  OBVIOUS
<1> USE DEF AskInv, TypeOK, Goto, Answer
<1>1. CASE UNCHANGED vars
  BY <1>1 DEF vars
<1>2. ASSUME NEW p \in Requests, Begin(p) PROVE AskInv'
  BY <1>2 DEF Begin, RejectCreate, BeginCreate, BeginRemove
<1>3. ASSUME NEW p \in Requests, Count(p) \/ Insert(p) \/ Update(p) \/ Deactivate(p)
      PROVE  AskInv'
  BY <1>3 DEF Count, Insert, Update, Deactivate
<1>4. ASSUME NEW p \in Requests,
             CommitInsert(p) \/ CommitUpdate(p) \/ CommitDeactivate(p) \/ Fail(p)
      PROVE  AskInv'
  BY <1>4 DEF CommitInsert, CommitUpdate, CommitDeactivate, Fail
<1> QED
  BY <1>1, <1>2, <1>3, <1>4 DEF Next, Step

\* As many active entries as active rows: no more of a user's rows show.
LEMMA ActiveEntries ==
    ASSUME NEW u
    PROVE  Cardinality(TR!ActiveOf(u)) <= Cardinality(Active(u))
<1> DEFINE f == [r \in Active(u) |-> rows[r]]
<1>1. f \in Surjection(Active(u), TR!ActiveOf(u))
  BY DEF TR!ActiveOf, Active, Surjection
<1> HIDE DEF f
<1>2. IsFiniteSet(Active(u))
  BY FiniteParts
<1> QED
  BY <1>1, <1>2, FS_Surjection

LEMMA CommitInsertAdds ==
    ASSUME IInv, NEW p \in Requests, CommitInsert(p),
           NEW u, NEW t, NEW i,
           u = arg[p].user, t = arg[p].target, i = arg[p].interval
    PROVE  TR!Add(u, t, i)
<1> DEFINE new == [user |-> u, target |-> t, interval |-> i, active |-> TRUE]
<1>1. /\ arg[p] \in Asked
      /\ rid[p] \in RowIds \ Stored
      /\ IndexedFor(u, t) = {}
      /\ rows \in [RowIds -> Row \cup {None}]
  BY DEF CommitInsert, IInv, KeyInv, ArgInv, InsertInv, TypeOK
<1>2. rows' = [rows EXCEPT ![rid[p]] = new]
  BY DEF CommitInsert
<1>3. new # None
  <2>1. new \in Row
    BY <1>1 DEF Row, Asked
  <2> HIDE DEF new
  <2> QED
    BY <2>1, NoneIsNoValue
<1>4. TR!EntryFor(u, t) = {}
  BY <1>1 DEF TR!EntryFor, IndexedFor
<1>5. Entries' = Entries \cup {new}
  <2> HIDE DEF new
  <2> QED
    BY <1>1, <1>2, <1>3 DEF Entries, Stored
<1>6. TR!Cardinality(TR!ActiveOf(u)) < Limit + Cardinality(Requests) - 1
  <2>1. Cardinality(Active(u)) + Cardinality(Passed(u)) <= Limit + Cardinality(Requests) - 1
    BY <1>1 DEF IInv, OvershootInv, Asked
  <2>2. Cardinality(Passed(u)) # 0
    <3>1. p \in Passed(u)
      BY DEF CommitInsert, Passed
    <3>2. IsFiniteSet(Passed(u))
      BY FiniteParts
    <3> QED
      BY <3>1, <3>2, FS_EmptySet
  <2>3. Cardinality(TR!ActiveOf(u)) <= Cardinality(Active(u))
    BY ActiveEntries
  <2>4. Cardinality(TR!ActiveOf(u)) \in Nat
    <3>1. IsFiniteSet(TR!ActiveOf(u))
      <4> DEFINE f == [r \in Active(u) |-> rows[r]]
      <4>1. f \in Surjection(Active(u), TR!ActiveOf(u))
        BY DEF TR!ActiveOf, Active, Surjection
      <4> HIDE DEF f
      <4> QED
        BY <4>1, FiniteParts, FS_Surjection
    <3> QED
      BY <3>1, FS_CardinalityType
  <2>5. TR!Cardinality(TR!ActiveOf(u)) = Cardinality(TR!ActiveOf(u))
    BY DEF TR!Cardinality, Cardinality
  <2> QED
    BY <2>1, <2>2, <2>3, <2>4, <2>5, FiniteParts, LimitIsNatural
<1> QED
  BY <1>4, <1>5, <1>6 DEF TR!Add, Entries

\* A rewritten row is a replaced entry: no other row shows the old one.
LEMMA RewriteReplaces ==
    ASSUME IInv, NEW r \in Stored, NEW row \in Row, rows' = [rows EXCEPT ![r] = row]
    PROVE  Entries' = (Entries \ {rows[r]}) \cup {row}
<1>1. rows \in [RowIds -> Row \cup {None}] /\ r \in RowIds /\ row # None
  BY NoneIsNoValue DEF IInv, KeyInv, TypeOK, Stored
<1>2. Stored' = Stored /\ rows'[r] = row
  BY <1>1 DEF Stored
<1>3. \A s \in Stored \ {r} : rows'[s] = rows[s] /\ rows[s] # rows[r]
  BY <1>1 DEF Stored, IInv, KeyInv, OneRowPerTarget
<1> QED
  BY <1>2, <1>3 DEF Entries

LEMMA CommitUpdateReschedules ==
    ASSUME IInv, AskInv, NEW p \in Requests, CommitUpdate(p)
    PROVE  TR!RegistryNext
<1> DEFINE row == [rows[rid[p]] EXCEPT !.interval = arg[p].interval]
<1>1. arg[p] \in Asked /\ rid[p] \in Stored /\ rows[rid[p]] \in Row
  BY DEF CommitUpdate, IInv, KeyInv, ArgInv, RidInv, TypeOK, Stored
<1>2. arg[p].interval \in ValidIntervals
  BY DEF CommitUpdate, AskInv
<1>3. row \in Row
  BY <1>1 DEF Row, Asked
<1>4. rows' = [rows EXCEPT ![rid[p]] = row]
  BY DEF CommitUpdate, Rescheduled
<1>5. Entries' = (Entries \ {rows[rid[p]]}) \cup {row}
  <2> HIDE DEF row
  <2> QED
    BY <1>1, <1>3, <1>4, RewriteReplaces
<1>6. rows[rid[p]] \in Entries
  BY <1>1 DEF Entries
<1> QED
  BY <1>2, <1>5, <1>6 DEF TR!RegistryNext, TR!Reschedule, TR!Replace, Entries

LEMMA CommitDeactivateSwitchesOff ==
    ASSUME IInv, NEW p \in Requests, CommitDeactivate(p)
    PROVE  TR!RegistryNext
<1> DEFINE row == [rows[rid[p]] EXCEPT !.active = FALSE]
<1>1. rid[p] \in Stored /\ rows[rid[p]] \in Row
  BY DEF CommitDeactivate, IInv, KeyInv, RidInv, TypeOK, Stored
<1>2. row \in Row
  BY <1>1 DEF Row
<1>3. rows' = [rows EXCEPT ![rid[p]] = row]
  BY DEF CommitDeactivate
<1>4. Entries' = (Entries \ {rows[rid[p]]}) \cup {row}
  <2> HIDE DEF row
  <2> QED
    BY <1>1, <1>2, <1>3, RewriteReplaces
<1>5. rows[rid[p]] \in Entries
  BY <1>1 DEF Entries
<1> QED
  BY <1>4, <1>5 DEF TR!RegistryNext, TR!SwitchOff, TR!Replace, Entries

LEMMA StepsRegister == IInv /\ AskInv /\ [Next]_vars => [TR!RegistryNext]_Entries
<1> SUFFICES ASSUME IInv, AskInv, [Next]_vars
             PROVE  [TR!RegistryNext]_Entries
  OBVIOUS
<1>1. CASE UNCHANGED rows
  BY <1>1 DEF Entries, Stored
<1>2. ASSUME NEW p \in Requests, CommitInsert(p) PROVE TR!RegistryNext
  <2>1. <<arg[p].user, arg[p].target>> \in Trackable /\ arg[p].interval \in ValidIntervals
    BY <1>2 DEF AskInv, CommitInsert
  <2>2. PICK ut \in Trackable, i \in ValidIntervals :
            ut[1] = arg[p].user /\ ut[2] = arg[p].target /\ i = arg[p].interval
    BY <2>1
  <2>3. TR!Add(ut[1], ut[2], i)
    BY <1>2, <2>2, CommitInsertAdds
  <2> QED
    BY <2>3 DEF TR!RegistryNext
<1>3. ASSUME NEW p \in Requests, CommitUpdate(p) PROVE TR!RegistryNext
  BY <1>3, CommitUpdateReschedules
<1>4. ASSUME NEW p \in Requests, CommitDeactivate(p) PROVE TR!RegistryNext
  BY <1>4, CommitDeactivateSwitchesOff
<1> QED
  BY <1>1, <1>2, <1>3, <1>4
  DEF Next, Step, Begin, RejectCreate, BeginCreate, BeginRemove, Count, Insert, Update,
      Deactivate, Fail, vars

LEMMA RegistryStarts == Init => TR!RegistryInit
BY DEF Init, TR!RegistryInit, Stored

\* Racing requests are atomic steps of the register, or invisible: whatever ran
\* between its statements, a create that commits adds the one entry of its user
\* for the target, valid, and with room under the limit and its overshoot
\* (tracking_service.py:49-141 with tracking_repository.py:17-74).
THEOREM Refinement == Spec => ImplementsTrackingRegistry
<1>1. Init => AskInv /\ TR!RegistryInit
  BY AskInit, RegistryStarts
<1>2. IInv /\ AskInv /\ [Next]_vars => AskInv'
  BY AskNext DEF IInv, KeyInv
<1>3. IInv /\ AskInv /\ [Next]_vars => [TR!RegistryNext]_Entries
  BY StepsRegister
<1> QED
  BY <1>1, <1>2, <1>3, Invariance, PTL
  DEF Spec, ImplementsTrackingRegistry, TR!RegistrySpec, Entries
=============================================================================
