--------------------------- MODULE TrackingService ---------------------------
(***************************************************************************)
(* Creating and removing trackings: tracking_service.py with the           *)
(* repository statements it issues and the routes (or bot commands) that   *)
(* commit.  create_tracked_search and create_tracked_property, and their   *)
(* two removals, are the same protocol over a different table, so one      *)
(* module stands for both: a target is a saved search, or a property with  *)
(* a pair of dates, and Limit is MAX_TRACKED_SEARCHES or                   *)
(* MAX_TRACKED_PROPERTIES.                                                 *)
(*                                                                         *)
(* Every request runs in a session of its own against PostgreSQL at READ   *)
(* COMMITTED.  One action is one awaited statement: another request may    *)
(* run between any two of them.  A flushed statement holds its row (or its *)
(* unique-index entry) until the transaction ends, and whoever needs the   *)
(* same row waits.                                                         *)
(***************************************************************************)
EXTENDS Naturals, FiniteSets

CONSTANTS
    Users,
    Targets,            \* what may be tracked
    RowIds,             \* primary keys, drawn by uuid4
    Requests,           \* requests in progress at a time
    ValidIntervals,     \* VALID_INTERVALS
    AskedIntervals,     \* the intervals callers send, valid or not
    Limit,              \* active trackings a user may have
    Trackable,          \* <<u, t>>: the target exists and u may track it
    None

ASSUME RequestsFinite == IsFiniteSet(Requests) /\ Requests # {}
ASSUME RowIdsFinite   == IsFiniteSet(RowIds)
ASSUME LimitIsNatural == Limit \in Nat

VARIABLES
    rows,       \* the committed table: a row for each id in use
    pc,         \* what each request awaits
    arg,        \* the row a request asks for: its user, target and interval
    rid,        \* the row a request has loaded or inserted
    reply       \* the outcome of each handler's latest request

vars == <<rows, pc, arg, rid, reply>>

Row   == [user : Users, target : Targets, interval : AskedIntervals, active : BOOLEAN]
Asked == [user : Users, target : Targets, interval : AskedIntervals]

ASSUME NoneIsNoValue == None \notin RowIds \cup Row \cup Asked

Awaiting == {"count", "insert", "update", "deactivate",
             "commit_insert", "commit_update", "commit_deactivate"}

Replies == {"none", "created", "updated", "removed", "invalid", "not_found",
            "limit", "conflict", "error"}

TypeOK ==
    /\ rows  \in [RowIds -> Row \cup {None}]
    /\ pc    \in [Requests -> Awaiting \cup {"idle"}]
    /\ arg   \in [Requests -> Asked \cup {None}]
    /\ rid   \in [Requests -> RowIds \cup {None}]
    /\ reply \in [Requests -> Replies]

-----------------------------------------------------------------------------

Stored == {r \in RowIds : rows[r] # None}

\* get_tracked_search_by_search_id, get_tracked_property_duplicate
ActiveFor(u, t) ==
    {r \in Stored : rows[r].user = u /\ rows[r].target = t /\ rows[r].active}

\* The entries of the unique index (user_id, search_id): it knows no is_active.
IndexedFor(u, t) == {r \in Stored : rows[r].user = u /\ rows[r].target = t}

\* count_active_tracked_searches, count_active_tracked_properties
Active(u) == {r \in Stored : rows[r].user = u /\ rows[r].active}

\* An uncommitted insert of the same key: a second insert waits for it.
KeyLocked(u, t) ==
    \E q \in Requests : pc[q] = "commit_insert" /\ arg[q].user = u /\ arg[q].target = t

\* An uncommitted UPDATE of the row.
RowLocked(r) ==
    \E q \in Requests : pc[q] \in {"commit_update", "commit_deactivate"} /\ rid[q] = r

Fresh == {r \in RowIds \ Stored : \A q \in Requests : rid[q] # r}

Goto(p, label) == pc' = [pc EXCEPT ![p] = label]

\* The session is closed: what was not committed is rolled back.
Answer(p, outcome) ==
    /\ pc'    = [pc EXCEPT ![p] = "idle"]
    /\ arg'   = [arg EXCEPT ![p] = None]
    /\ rid'   = [rid EXCEPT ![p] = None]
    /\ reply' = [reply EXCEPT ![p] = outcome]

-----------------------------------------------------------------------------

Init ==
    /\ rows  = [r \in RowIds |-> None]
    /\ pc    = [p \in Requests |-> "idle"]
    /\ arg   = [p \in Requests |-> None]
    /\ rid   = [p \in Requests |-> None]
    /\ reply = [p \in Requests |-> "none"]

\* _validate_interval, and the ownership check before the first statement.
RejectCreate(p, a) ==
    /\ pc[p] = "idle"
    /\ \/ a.interval \notin ValidIntervals /\ Answer(p, "invalid")
       \/ /\ a.interval \in ValidIntervals
          /\ <<a.user, a.target>> \notin Trackable
          /\ Answer(p, "not_found")
    /\ UNCHANGED rows

\* The SELECT of an active row: it decides between update and insert.
BeginCreate(p, a) ==
    /\ pc[p] = "idle"
    /\ a.interval \in ValidIntervals
    /\ <<a.user, a.target>> \in Trackable
    /\ arg' = [arg EXCEPT ![p] = a]
    /\ \/ /\ ActiveFor(a.user, a.target) = {}
          /\ Goto(p, "count")
          /\ UNCHANGED rid
       \/ \E r \in ActiveFor(a.user, a.target) :
             /\ rid' = [rid EXCEPT ![p] = r]
             /\ Goto(p, "update")
    /\ UNCHANGED <<rows, reply>>

CountOffByOne(p) == Cardinality(Active(arg[p].user)) <= Limit      \* mutant of CountOk

CountOk(p) == Cardinality(Active(arg[p].user)) < Limit

Count(p) ==
    /\ pc[p] = "count"
    /\ \/ CountOk(p) /\ Goto(p, "insert") /\ UNCHANGED <<arg, rid, reply>>
       \/ ~CountOk(p) /\ Answer(p, "limit")
    /\ UNCHANGED rows

\* The flush of a new row, checked against the unique constraint.
UniqueAmongActive(p) == ActiveFor(arg[p].user, arg[p].target) = {} \* mutant of UniqueOk

UniqueOk(p) == IndexedFor(arg[p].user, arg[p].target) = {}

Insert(p) ==
    /\ pc[p] = "insert"
    /\ ~KeyLocked(arg[p].user, arg[p].target)
    /\ \/ /\ UniqueOk(p)
          /\ \E r \in Fresh : rid' = [rid EXCEPT ![p] = r]
          /\ Goto(p, "commit_insert")
          /\ UNCHANGED <<arg, reply>>
       \/ ~UniqueOk(p) /\ Answer(p, "conflict")
    /\ UNCHANGED rows

CommitInsert(p) ==
    /\ pc[p] = "commit_insert"
    /\ rows' = [rows EXCEPT ![rid[p]] =
                  [user |-> arg[p].user, target |-> arg[p].target,
                   interval |-> arg[p].interval, active |-> TRUE]]
    /\ Answer(p, "created")

\* The flush of the loaded row: only the assigned columns are written.
Update(p) ==
    /\ pc[p] = "update"
    /\ ~RowLocked(rid[p])
    /\ Goto(p, "commit_update")
    /\ UNCHANGED <<rows, arg, rid, reply>>

\* Mutants of Rescheduled: the row is switched on again, or loses its interval.
RescheduledOn(row, p)      == [row EXCEPT !.interval = arg[p].interval, !.active = TRUE]
RescheduledNull(row, p)    == [row EXCEPT !.interval = None]

Rescheduled(row, p) == [row EXCEPT !.interval = arg[p].interval]

CommitUpdate(p) ==
    /\ pc[p] = "commit_update"
    /\ rows' = [rows EXCEPT ![rid[p]] = Rescheduled(rows[rid[p]], p)]
    /\ Answer(p, "updated")

\* get_tracked_search_by_id has no is_active filter; assigning False to an
\* is_active that is False already issues no UPDATE.
BeginRemove(p, u, r) ==
    /\ pc[p] = "idle"
    /\ r \in Stored
    /\ \/ rows[r].user # u /\ Answer(p, "not_found")
       \/ rows[r].user = u /\ ~rows[r].active /\ Answer(p, "removed")
       \/ /\ rows[r].user = u
          /\ rows[r].active
          /\ rid' = [rid EXCEPT ![p] = r]
          /\ Goto(p, "deactivate")
          /\ UNCHANGED <<arg, reply>>
    /\ UNCHANGED rows

Deactivate(p) ==
    /\ pc[p] = "deactivate"
    /\ ~RowLocked(rid[p])
    /\ Goto(p, "commit_deactivate")
    /\ UNCHANGED <<rows, arg, rid, reply>>

CommitDeactivate(p) ==
    /\ pc[p] = "commit_deactivate"
    /\ rows' = [rows EXCEPT ![rid[p]].active = FALSE]
    /\ Answer(p, "removed")

\* The backend dies, the client goes away or the database refuses a statement:
\* the session is closed without a commit.
Fail(p) ==
    /\ pc[p] # "idle"
    /\ Answer(p, "error")
    /\ UNCHANGED rows

Begin(p) ==
    \/ \E a \in Asked : RejectCreate(p, a) \/ BeginCreate(p, a)
    \/ \E u \in Users, r \in RowIds : BeginRemove(p, u, r)

Step(p) ==
    \/ Count(p)
    \/ Insert(p)
    \/ CommitInsert(p)
    \/ Update(p)
    \/ CommitUpdate(p)
    \/ Deactivate(p)
    \/ CommitDeactivate(p)

Next == \E p \in Requests : Begin(p) \/ Step(p) \/ Fail(p)

Spec == Init /\ [][Next]_vars

-----------------------------------------------------------------------------
(***************************************************************************)
(* What holds of every interleaving.                                       *)
(***************************************************************************)

\* At most one row for a user and a target, whatever requests race: the
\* scalar_one_or_none() of the lookups never meets two rows.
OneRowPerTarget ==
    \A r, s \in Stored :
        rows[r].user = rows[s].user /\ rows[r].target = rows[s].target => r = s

\* The count and the insert are separate statements, so racing requests can
\* pass the count together; each of them adds one row at most.
LimitOvershootBounded ==
    \A u \in Users : Cardinality(Active(u)) <= Limit + Cardinality(Requests) - 1

\* An untracked row stays untracked: a create that loaded the row before the
\* untrack committed does not bring it back with its own commit.
UntrackIsFinal ==
    [][\A r \in Stored : ~rows[r].active => r \in Stored' /\ ~rows'[r].active]_vars

\* The committed table is a register with one entry for a user and a target:
\* every request is one atomic step on it or none, whatever runs in between, and
\* adds no entry to a user who has already overshot the limit as far as racing
\* requests can (tracking_service.py:49-141, tracking_repository.py:17-74).
TR == INSTANCE TrackingRegistry WITH
          entries <- {rows[r] : r \in Stored},
          Most    <- Limit + Cardinality(Requests) - 1

ImplementsTrackingRegistry == TR!RegistrySpec

-----------------------------------------------------------------------------
(***************************************************************************)
(* What the documents say and the code does not do.                        *)
(***************************************************************************)

Refused(p) == pc[p] = "insert" /\ pc'[p] = "idle" /\ reply'[p] = "conflict"

\* spec.md, user story 2: a click on "track" starts monitoring, also for a
\* target that was tracked before and is not now.
RetrackSucceeds ==
    [][\A p \in Requests : Refused(p) => ActiveFor(arg[p].user, arg[p].target) # {}]_vars
=============================================================================
