# travelsearch in TLA+

travelsearch searches Booking and Airbnb for accommodation, lets a user track
searches and properties, and alerts the user by Telegram when something new or
cheaper turns up. The backend is FastAPI over PostgreSQL and Redis; arq runs
two cron jobs every five minutes; a React frontend talks to the API. This
directory holds TLA+ models of it, TLC configurations and TLAPS proofs. Paths
below are relative to `backend/app/` unless they say otherwise.

Each awaited database statement, HTTP call or scrape is a point where another
request, job or bot message may run. Sessions are at READ COMMITTED, nothing
uses `SELECT ... FOR UPDATE`, and commits are explicit. Almost everything that
can go wrong here goes wrong between two such awaits, so one action of a model
is the code between two awaits, and the row locks PostgreSQL takes on behalf of
flushed statements are part of the models.

## Inventory

| Component | State | Operations | Hard part | What makes it correct |
|---|---|---|---|---|
| Tracking service (`services/tracking_service.py`, its repository and routes) | `tracked_searches`, `tracked_properties` | create (or change the interval), list, remove | check, then count, then insert, over several awaits; a unique key that ignores `is_active` | one row per target; a limit; an untracked row stays so |
| Search worker (`workers/search_worker.py`) | `next_run_at`, `seen_properties`, `notification_logs` | a tick: load, scrape, upsert, compare, alert, commit | overlapping ticks, a death between message and commit, deadlocks on `properties` | each new minimum is recorded once, told once, and nothing is missed |
| Property worker (`workers/property_worker.py`) | `next_run_at`, `min_price_seen`, logs, snapshots | the same for one price; switches rows off at check-in | no lock while it compares; a flush that is committed by a later row | as above; rows go off and stay off |
| Search run (`services/search_service.py`) | `searches`, `search_results` | run a search, poll its status, page and export results | four commits in one request, providers in parallel, deadlocks | the final status agrees with the listings; it only moves forward |
| Telegram link and bot (`services/telegram_bot_service.py`) | `users.telegram_chat_id`, link codes in Redis | `/start`, `/follow`, `/unfollow`, `/list`, unlink | GET and DELETE of a code, and the commit in another store | a code links once; commands act for the linked user |
| Authentication (`services/auth_service.py`, `api/v1/routes/auth.py`) | revocation list and login counter in Redis | login, refresh with rotation, logout | check and revoke are two commands; the counter is read, incremented and given its expiry by three | a session ends only when it should; wrong passwords are limited, for a while |
| Token refresh in the browser (`frontend/src/api/client.ts`) | access token, queue of waiting requests | interceptor: refresh once, retry the rest | the queue when the refresh fails | every request is answered |
| Providers (`providers/`) | none | search, details, parse URLs and prices | pages without what they should hold | no price is not the price 0 |
| Notifier (`notifiers/telegram.py`) | none | send | the lost answer | "sent" means received |
| Notification history (`services/notification_service.py`, `frontend/src/pages/NotificationHistoryPage.tsx`) | `notification_logs`; the page, filter and rows shown | paged reads | two snapshots per page, commits between pages, `sent_at` is the beginning of a transaction | who goes through the pages sees every alert |
| Project administrator (`project-administrator/`, `scripts/`, `run-agents.sh` of the repository) | files | reports | - | no part of the running system |

The workers and the search run meet in `properties`: each upserts the listings
it found and keeps the row locks to the end of its transaction. The workers and
the tracking service meet in the tracked rows. Bot and workers meet in
`telegram_chat_id`, read anew for each row of a tick. Redis holds link codes,
revocations and counters, and no transaction spans it and PostgreSQL.

## Modules

    PriceWatch                        what tracking a price promises
      ^ refined by
    SearchWorker      <- MCSearchWorker      SearchWorkerProofs <- SearchWorkerAlertProofs
    PropertyWorker    <- MCPropertyWorker    PropertyWorkerProofs
    TrackingRegistry                  what creating and removing trackings promises
      ^ refined by
    TrackingService   <- MCTrackingService   TrackingServiceProofs
    SearchReport                      what a one-time search promises
      ^ refined by
    SearchRun         <- MCSearchRun         SearchRunProofs
    TelegramLink      <- MCTelegramLink      TelegramLinkProofs
    Session           <- MCSession           SessionProofs
    AlertHistory      <- MCAlertHistory      AlertHistoryProofs

An `MC` module only gives values to the constants of the module it extends.
Operators whose comment calls them a mutant are faulty variants of a definition,
with which the properties are shown to be able to fail; no specification uses
them.

**TrackingRegistry** is abstract: a set of entries, one for a user and a target at
most, with three atomic steps: add a valid entry to a user who has room, give an
entry another interval, switch one off. The committed table of TrackingService
is such a register (`ImplementsTrackingRegistry`), with `Most` the limit and the
overshoot that racing requests can cause. The workers' modules and TelegramLink
have trackings come and go in steps of this kind.

**TrackingService** is the protocol shared by `create_tracked_search` and
`create_tracked_property` and by the two removals; a target is a saved search,
or a property with its dates. `BeginCreate` is the lookup of the active row,
`Count` the count of active rows, `Insert` and `Update` the flushes, the
`Commit...` actions the commit in the route. `KeyLocked` and `RowLocked` are the
waits PostgreSQL imposes: an insert waits for an uncommitted insert of the same
key, an UPDATE for an uncommitted UPDATE. `Fail` ends any request before its
commit. A removal by primary key does not ask for `is_active`, and assigning
False to False writes nothing, as in the ORM.

**PriceWatch** is abstract: a watch remembers the lowest price of each item; one
observation is one atomic step that records every improvement together with the
price it improves on. It knows no workers.

**SearchWorker** is a tick, step by step: `StartTick` loads the overdue rows
with their intervals, `Take` starts the next one and reads the user,
`ScrapeOk`/`ScrapeFails` are the providers, `EndScrape` discards a cycle without
results, `Upsert` takes the row lock of a property, `ReadSeen` reads the
baseline and computes the diff, `Record`/`Send` flush a log row (after the
message, if there is a chat), `Commit` writes minima, logs and the next run. The
order in which rows, providers and listings are taken is left open. Several
ticks may run. `Fault` ends a tick anywhere (a job timeout, an exception, a
restart), `DeadlockVictim` ends one of a circle of ticks that wait for each
other. `Send` has three outcomes: confirmed, not delivered, delivered with the
confirmation lost. Prices are small numbers, and a card without one is parsed as
the code does, to 0; that Numeric(10,2) rounds and has a largest number does not
show on the prices of the pages the providers ask for. A search that names a
provider twice reads its pages one after the other, and the last listing of a
property counts: the same as one page.

**PropertyWorker** has the same frame and different transactions: it compares
with the `min_price_seen` loaded when the tick began, holds no lock while doing
so, and `Expire` flushes `is_active = False` and keeps the row's lock until the
next commit, which may be that of another row or of the end of the tick. A
`StaleCommit` is one that compared with a price which another tick has replaced
since; the refinement of PriceWatch has it as its only exception, and shows that
there is none unless two ticks have been at work at the same time
(`overlapped`).

**SearchReport** is abstract: a search is pending, then running, then in one atomic
step final, with its listings, their number, what became of each provider, and
the verdict that follows from these. Of the listings of a provider that was asked
for more than once it may leave some out of the number and the verdict (`Told`), of
no others. `ImplementsSearchReport` maps a SearchRun to it that shows listings only
when its status is final, which is when the frontend asks for them.

**SearchRun** is `run_search` with its four commits: `Create`, `Start`, the
providers' answers in any order and `Gather`, one `Upsert` per listing with its
lock, `CommitResults`, `Finish`. `Poll` is the status query of the
frontend that finds it final; before that its page stays as it is.
`wanted` is the list of providers as the caller sends it (`Asks`), which the schema
accepts (`schemas/search.py:23`): in any order, empty, and with a provider twice.
Outcomes (`outcome`) and pages (`page`) are those of its entries, and `results` has
a row for each listing of each entry; `ProviderResults` and `Total`, in which a
later entry replaces an earlier one of the same provider, are `provider_results`
with its sum. A page lists `Cards`, of which several may be one property.

**TelegramLink** is the bot between its two stores. `GenerateCode` and `Expire`
are the codes in Redis; `/start` is `BeginStart` (GET), `Delete`, `Load` and
`Link` (the commit, with the unique `telegram_chat_id`, and without the column if
the row was loaded with the same chat, as in the ORM). `BeginUnlink`/`Unlink` is
the route of the app, `BeginCommand` the lookup of `/follow` and `/unfollow` by
chat, `Follow`/`Unfollow` their commit. Ghost variables keep the messages and the
links there have been.

**Session** is the refresh token that the tabs of a browser share. `Send`,
`Answer`, `Wait` and `Lead` are a request and what the interceptor does with its
answer; `Read` and `Rotate` are the two Redis commands of `/auth/refresh`;
`Refreshed` and `RefreshFailed` the interceptor after that; `BeginLogout`,
`Revoke`, `EndLogout` a logout. Calls may fail before, between and after their
commands (`CallFails`), and answers of several tabs arrive in any order. Access
tokens may expire at any time, so any request may be answered 401. The login is
a request of its own kind: `Submit`, `ReadCounter` (GET, and 429 at the limit),
`Count` and `SetExpiry` (INCR and EXPIRE after a wrong password) or `Accept`
(DEL and the tokens), then `LoggedIn`, or the interceptor, which takes the 401 of
a wrong password for an expired access token (`Lead`, `Wait`), or `ShowRefusal`
if it comes a second time. `WindowEnds` is the expiry of the counter. There is
one counter, since all clients reach the server through nginx.

**AlertHistory** has the workers' transactions as far as the history sees them
(`Begin`, `Write`, `Commit`, `RollBack`) and the reader: `Open` and
`ChangeFilter` begin a walk, `Count` and `Select` are the two statements of a
page, `NextPage` and `PreviousPage` its buttons, `Fail` and `Refetch` the
request. `sent_at` is the time at which the transaction began; `First` leaves the
order of equal `sent_at` open. Ghost variables keep what was there when the walk
began and what it has shown.

## Runs

| Run | Instance | Shows |
|---|---|---|
| `TrackingService_safety` | 2 users, 3 targets, 3 rows, 2 requests, limit 1 | types; one row per target; refinement of TrackingRegistry: no untracked row comes back, and the race of count and insert exceeds the limit by at most one less than the requests in progress |
| `TrackingService_retrack` | 1 user, 2 targets | **fails**: tracking again after untracking is refused |
| `SearchWorker_overlap` | 1 search, 2 listings, 2 ticks, 2 prices | the history of a listing is a chain; no alert is repeated or missing, all under overlaps and deadlocks; a withdrawn search is silent once the ticks that loaded it are done |
| `SearchWorker_crash` | 1 search, 1 listing with or without a price, 2 ticks, 1 death, all outcomes of a message | refinement of PriceWatch; "sent" means received; a death restarts the alerts at most once |
| `SearchWorker_live` | 2 searches, 1 tick, 1 death | every search that is due is processed |
| `PropertyWorker_prices` | 1 row with or without a price, 2 ticks, 3 prices, 1 death | refinement of PriceWatch but for stale commits of ticks that have overlapped; "sent" means received; restarts bounded by deaths unless ticks have overlapped |
| `PropertyWorker_overlap` | 2 rows, 2 ticks, 1 death | types; a row switched off stays off, and silent once the ticks that loaded it are done |
| `PropertyWorker_live` | 2 rows, 1 tick, 1 death | rows are switched off after check-in, served when due |
| `SearchRun` | 2 searches, 2 properties of which one may be listed twice, 4 lists: none, both in either order, one twice; 1 death | a report claims nothing that is not stored, and is exact unless a provider was named twice; results do not change once the frontend has left for them; refinement of SearchReport; each search ends or reports an error |
| `TelegramLink` | 2 users, 2 chats, 2 codes, 1 target, 2 handlers | a chat belongs to one user; links come from a user's own code; what the bot tracks was asked for by a chat linked to that user; a code is used again only by handlers that overlap |
| `Session` | 2 tabs with a page and a login form each, 3 tokens, a limit of 1 wrong password, 1 failed call | one refresh at a time in a tab, led by one request; no request waits in vain; the cookie stays good; a tab goes to the login page only for a reason; overlapping logins exceed the limit by one less than there are tabs; the counter has a time to live unless a call failed |
| `AlertHistory` | 5 alerts of 2 types, 2 transactions at a time of at most 3, pages of 2 | a reader who got to the last page has seen every alert that was there when he began, but for alerts with the `sent_at` of one he saw; only the first page can be empty |

*Bounds.* Two of everything that races: a lost update, a double insert, an
overtaken read and a circle of waits need two actors, and two rows where a lock
outlives the row it is for. `TrackingService` takes three targets and rows so
that the overshoot could be larger than the bound allows. Two prices make a new
listing and a drop, three a repeated drop. `MaxFaults` bounds deaths,
`MaxEntries` in `PropertyWorker` stops new ticks once a history is long.
Lists of two entries have the order in which requests can wait for each other, the
repetition, and the listing that is stored twice and counted once; a third entry
could only be another repetition. A property listed twice makes the numbers of
listings and of properties differ.
`MaxTokens` in `Session` allows, besides the token at the beginning, for two
rotations of one token, or a rotation and a login; at the bound a refresh is
refused (`"bound"`), which the properties leave out, and a login is not accepted.
Three pages of two alerts let a walk turn back, and let rows move over two page
breaks; three transactions let one that began before the walk, or before what it
has shown, commit in the middle of it. Symmetry
is used in safety runs only. The proofs below have none of these bounds.

*Fairness.* Users, deaths, failed messages and check-ins are never fair. A tick
runs because cron starts one every five minutes, and its steps are weakly fair:
every await in it has a timeout of its own. Row locks are strongly fair
(`Upsert`, or `Expire` and `Commit`), since PostgreSQL grants them in order of
arrival. `Take` is strongly fair for each row: the overdue query has no ORDER BY
and no LIMIT, a tick goes through all of its rows unless it dies, and deaths are
finite; that the 300 seconds of `job_timeout` are enough for all rows is assumed
and not shown (if every tick dies in its first rows, the last are starved, and
`DueIsServed` does not see it). A provider does not refuse the same row for ever (strong fairness
of `ScrapeOk`): a row whose provider always refuses is never served, and the code
means it so (the row stays due). In `SearchRun` weak fairness is enough, since
each search is run once; PostgreSQL's deadlock detection is weakly fair.
`CHECK_DEADLOCK FALSE` is set there, since the model stops when all searches are
over, and in `Session`, since no token is left for a login at the bound.
`Session` states as safety what fairness would turn into an answer: whoever waits
is in the queue of a refresh that is under way (`NobodyWaitsInVain`).

## Proofs

`TrackingServiceProofs`, for any users, targets, rows and requests: types; one
row per target; an untracked row stays untracked; the overshoot of the limit.
Uniqueness needs to know that a request about to commit an insert holds its key:
no stored row and no other such request has the same user and target. The
overshoot counts, for each user, the active rows together with the requests past
their count, whose inserts are still to come. The refinement of TrackingRegistry
uses all of it: when an insert commits, its key is still free and its own place
in that count leaves room for it (`CommitInsertAdds`); what was validated before
the first statement is what is written (`AskInv`); and since no two rows are the
same, rewriting one row replaces one entry (`RewriteReplaces`).

`SearchWorkerProofs`, for any number of searches, listings, providers and ticks,
with deaths and deadlocks: types; `HistoryChain`, `BaselineIsLastEntry`,
`BaselineIsStable`; and the refinement of PriceWatch. `HistoryChain` is not
inductive: a commit appends a price compared with a `base` read earlier. The
invariant `CoreInv` adds what the locks give: a tick between `ReadSeen` and
`Commit` holds the rows of all listings it found, what it read of them still is
what is stored, and what it drafted or has still to alert is exactly its diff
(`DraftInv`). Since another tick cannot commit a listing without that lock, it
cannot move the baseline. With `CoreInv` a commit maps to one `Observe` step and
every other step to a stutter. `WithdrawnFallsSilent` needs that a tick which
flushes or commits is at work on the search it writes to.

`SearchWorkerAlertProofs` adds `NoRepeatedAlert` and `ToldIsInHistory`, under
the assumption `MaxFaults = 0`, without which they are false: whatever was told
is either in the history or was sent in the current cycle by the tick that holds
the lock (`ToldInv`). Deadlock victims are covered without that assumption: a
victim waits for a lock, hence it has sent nothing. For any `MaxFaults`,
`AlertsRestartOnlyAfterDeath` follows from `RestartInv`: if nothing that is
stored or in progress keeps the last price told from being told again (`Debt`),
a death has happened that no restart has been charged to yet. A death may leave
such a debt, the next message that does not descend pays it, and no other step
makes one. `SentIsTold` needs that a draft marked as sent was received before its
commit (`SentInv`).

`TelegramLinkProofs`, for any users, chats, codes, targets and handlers: all
invariants of the run. `HandlerOk` says what a handler may rely on after each
await (its code was made for its user; the code is gone once it was deleted; its
chat brought it); `OneMoves` shows that this is not disturbed by the others.
`UsesBounded` is counted: the uses of a code and the handlers still at work on it
are together no more than the handlers, since nobody joins them once the code is
deleted, and each leaves when it uses it.

`PropertyWorkerProofs`, for any properties, prices and ticks, with deaths and
deadlocks: types; a lock belongs to a tick that has switched the row off and
not committed it (`LocksAreExpiries`, beyond the runs); `InactiveIsFinal`;
`SentIsTold`; and the refinement of PriceWatch with its exception. A tick holds
no lock while it compares, so the refinement needs to know when the loaded price
is the stored one: `LoadedIsLowest` says that without overlap there is one tick
at most and it knows the prices of the rows it has still to do, and `TickInv`
that there is a draft exactly if the price fell below the loaded one. Then a
commit that is not stale is one `Observe` step, a stale one proves the overlap,
and every other step is a stutter. `SentIsTold` is not inductive either: a draft
marked as sent has to be received before its commit (`DraftIsTold`).
`AlertsRestartOnlyAfterDeath` has the same debt as in the search worker, under
the condition that ticks have not overlapped; without overlap no tick waits for
another, so that there is no deadlock victim that has sent anything (`NoVictim`).

`SessionProofs`, for any tabs, requests and tokens: all properties of the run.
Those about the interceptor rest on the correspondence of `refreshing`, `call`
and the leading request in each tab (`FlagsFit`, `LeadersFit`). `CookieIsGood`
needs that a token on its way to the browser is in no other place and not
revoked (`FreshTokens`); `LeavesForAReason` that calls under way together have
met (`Met`) and that only such a meeting can have revoked what a refresh presents
(`Refusals`). `LoginOvershootBounded` counts the attempts together with the
handlers past the check (`CounterInv`).

`AlertHistoryProofs`, for any alerts, transactions and page sizes: all invariants
of the run. `OnlyTiesAreSkipped` follows from `Deep`: an alert of the beginning
that was not seen, nor one tied with it, has at least as many newer ones as all
the pages the walk has gone through. Commits only add newer rows, so a step
forward may show an alert twice and skips none; and a page shows whatever has
fewer newer rows than it has rows behind it, unless a tie takes its place.
`NobodyIsStranded` needs that the page asked for has a row (`PageOk`), which holds
since rows are never deleted and the count is no more than there is (`CountOk`).

`SearchRunProofs`, for any searches, properties, finite sets of cards, lists of
providers of any length and failed requests: all but the liveness of the run. The
invariant `RunOk` follows one search: its status fits the place of its request
(`StatusFits`); each entry of the list has an outcome, which is `complete` exactly if
its page has listings (`EntriesFit`); and between the third commit and the last the
stored rows are those of all pages (`StageFits`). So what the last commit writes is
true of them (`TrueReport`): the latest entry of each provider exists
(`LatestExists`), so that every provider asked has a verdict, and what is counted are
rows of latest entries; a row of another entry has a later entry of its provider
(`NotLatest`), which is what `ReportIsTrue` and `Told` excuse. `Alone` says of each
step that it changes nothing of the other searches, and `OthersStand` lifts `RunOk`
from the search that moves to all of them. The refinement of SearchReport maps the
last commit to `Publish`, with the counted rows as what is told (`ToldIsCounted`,
`FinishPublishes`), and the verdict of the code, which looks at the set of outcomes
(`FinalStatus`), is the one SearchReport reads off the providers.

Only model-checked: liveness (`DueIsServed`, `CheckedInIsSwitchedOff`,
`EndsOrErrs`), which is beyond the proof system. Every
invariant and action property of the passing runs is a theorem, as are the four
refinements. `LimitOvershootBounded`, `UntrackIsFinal` and `BaselineIsStable` are
theorems too and have no run of their own: the first two follow from the refinement
of TrackingRegistry with `OneRowPerTarget`, the last is a reason for that of
PriceWatch. Also
proved and in no run: `BaselineIsLastEntry`, `UsedCodeIsGone`, `LocksAreExpiries`, which
are steps of the proofs.

## Where code and documents disagree

One run ends in a counterexample; PROJECT.json quotes the documents.

- *Tracking again is refused* (`models/tracked_search.py:24`): the lookup filters
  on `is_active`, the unique constraint does not.

Others are in the models and have no run of their own:

- A search that has failed can have listings (`services/search_service.py:85`): the
  list of providers may name one twice (`schemas/search.py:23`), the outcomes are kept
  by name and the listings by entry. If Booking answers and then refuses, the search
  is `failed` with the count 0, and the listings of the answer are stored
  (docs/ux/user-flows.md:33 reads `failed` as both providers, and
  review-findings-phase3-providers.md:155 has no listings written then); if it answers
  twice, there are twice as many rows as `result_count` says. `ReportIsTrue` says that
  nothing else makes a report differ from what is stored. The app's own form sends each
  provider once.
- The lowest price can rise (`repositories/tracking_repository.py:249`;
  data-model.md:167, "lowest price ever recorded"): two ticks compare with the
  value both loaded, and the later commit wins. The user gets the same alert
  twice. `ImplementsPriceWatch` has it as `StaleCommit`.
- Prices leave the API as strings, since pydantic writes a Decimal so
  (`schemas/notification.py:14`; contracts/api.md:293 and `frontend/src/types/api.ts:106`
  have a number), and `NotificationHistoryPage.tsx:69` calls `toFixed` on them: the
  page throws when there is an alert to show. `AlertHistory` takes the prices for
  numbers, to say something of the pages behind that.
- Two alerts of one transaction have one `sent_at`, and the query orders by
  nothing else (`repositories/notification_repository.py:61`): at a page break one
  of them may be shown twice and the other never (FR-011, spec.md:199-200, wants
  every alert). `OnlyTiesAreSkipped` says that this is the only way to miss one.
- `sent_at` is when the transaction began, not when the message was sent
  (`models/notification_log.py:36-38`): a tick that takes minutes puts its alerts
  below newer ones, and the "When" of the page is minutes early.
- A wrong password is a 401 and meets the interceptor
  (`frontend/src/api/client.ts:43-73`). Without a cookie the refresh fails and the login
  page is reloaded, so that its message (`LoginPage.tsx:25`) is not seen; with a good
  one the login is sent again, and one wrong password counts twice.
- A failure between INCR and EXPIRE leaves a counter without a time to live
  (`api/v1/routes/auth.py:41-42`): at the limit nobody may log in until Redis restarts.
  `CounterIsTimed` says that nothing else does. The counter is one for all users,
  since `request.client.host` is nginx (line 29; test-plan.md:285 has it by IP).
- Redis keeps nothing on disk (`docker-compose.yml:21` of the repository): a restart
  makes revoked refresh tokens good again.
- The limit can be exceeded (`services/tracking_service.py:68`; spec.md:195-196):
  the count and the insert are separate statements and nothing serialises a
  user's requests. `LimitOvershootBounded` says by how much.
- A missing price is the price 0 (`providers/booking.py:177`; FR-013,
  spec.md:203-204): it passes as a listing, is alerted, and as the minimum hides
  every later drop.
- Two `/start` with one code can both link
  (`services/telegram_bot_service.py:82-87`; data-model.md wants the second to
  fail). `UsesBounded` says how many can.
- A `/start` from the chat that is linked already, while an unlink commits: the
  ORM leaves the unchanged `telegram_chat_id` out of its UPDATE, so the user stays
  unlinked while the bot reports success (`telegram_bot_service.py:101-104`).
- If the chat belongs to another user, the commit of `/start` fails after the code
  was deleted: the code is used up and the bot does not answer
  (`telegram_bot_service.py:87-103`).
- A `/follow` in progress acts although its chat is unlinked meanwhile
  (`telegram_bot_service.py:144`; spec.md:151).
- Two tabs that refresh at the same time can send one of them to the login page
  (`services/auth_service.py:53-59`; research.md:96 calls it transparent).

- A search untracked while a tick runs is still scraped once
  (`workers/search_worker.py:76`; data-model.md:127 says only active rows are).
  `WithdrawnFallsSilent` says that this is the last of it.
- An interval changed while a tick runs: the tick plans the next run by the old
  one (`search_worker.py:212`; data-model.md:126).
- Without a linked account `delivery_status` stays `pending`
  (`search_worker.py:172`; data-model.md:222).
- The baseline keeps listings that disappeared (data-model.md:133-134 calls it
  the last cycle's).
- A price snapshot of a property is written only with a price drop
  (`workers/property_worker.py:96`; data-model.md:185).
- A message is sent before its commit: after a death it is repeated, or, if the
  price recovers, missing from the history. `AlertsRestartOnlyAfterDeath` bounds
  the first.
- A search whose two providers have nothing to offer ends as `failed`
  (`services/search_service.py:108`; spec.md:158 wants an empty state, no error).
- A search whose request dies keeps the status `running`
  (data-model.md:260 ends the lifecycle in `complete` or `failed`). `EndsOrErrs`
  shows that its user saw an error.

## Plan

Done, in this order: TrackingService and its proofs, PriceWatch, SearchWorker
and its proofs, PropertyWorker, SearchRun, TelegramLink and its proofs, Session,
AlertHistory and its proofs, the login in Session, SessionProofs,
PropertyWorkerProofs, SearchRunProofs, the proofs of the restarts after deaths, of
the silence of withdrawn rows, and of the refinements of SearchReport and
TrackingRegistry. Next: a composition of the workers with SearchRun over the locks
of `properties`, and of the bot's commands with TrackingRegistry.

## Not modelled

Browser automation and HTML selectors (I/O; their outcome is a nondeterministic
answer), search results and their export (they read what no longer changes),
presentation, settings, logging, process start, migrations and deployment, tools
of the development process. Clock times are reduced to "due" and "checked in".
Users and properties are never deleted by the code, so the branches for missing
ones are left out. What no property says: that a message which arrived is not marked
`failed` (`SentIsTold` is the converse, and the code cannot know); that a `/follow`
stops at an unlink (`FollowedByOwner` asks for a link at some time); that a logout
is not undone by the late answer of a refresh (`CookieIsGood` says that the cookie is
good, not that there is none); that the waits for the rows a tick of the property
worker has switched off come to an end (PostgreSQL releases them with the
transaction). A restart of Redis is not an action of `Session`: what its
invariants say of revoked tokens cannot be broken by a shorter list.
