------------------------------- MODULE Session -------------------------------
(***************************************************************************)
(* Logging a user in and keeping them so.  The refresh token is a cookie   *)
(* that the tabs of a browser share; POST /auth/refresh exchanges it for a *)
(* new one and puts the old one on a revocation list in Redis              *)
(* (services/auth_service.py, api/v1/routes/auth.py).  In each tab the     *)
(* interceptor of frontend/src/api/client.ts meets the answers 401: the    *)
(* first request that gets one leads a refresh, the others queue behind    *)
(* it, and all of them are sent again.  The login is a request like the    *)
(* others: its 401, a wrong password, meets the interceptor as well.       *)
(*                                                                         *)
(* POST /auth/login counts wrong passwords in Redis.  The key is the       *)
(* address of the client, which behind nginx is that of nginx: one counter *)
(* for all.                                                                *)
(*                                                                         *)
(* JavaScript runs to its next await, and so does a handler of the server: *)
(* that is one action here.  Access tokens are left out.  They expire at   *)
(* any time, in flight too, so any request may be answered 401.            *)
(***************************************************************************)
EXTENDS Integers, FiniteSets

CONSTANTS
    Tabs,
    Requests,
    TabOf,              \* [Requests -> Tabs]
    LoginOf,            \* [Tabs -> Requests]: the login form's request
    RateLimitMax,       \* RATE_LIMIT_MAX
    MaxTokens,          \* bound: refresh tokens that are issued
    MaxFaults,          \* bound: calls of refresh, logout and login that fail
    None

ASSUME TabOfType == TabOf \in [Requests -> Tabs]
ASSUME LoginOfType ==
    LoginOf \in [Tabs -> Requests] /\ \A t \in Tabs : TabOf[LoginOf[t]] = t
ASSUME RateLimitIsPositive == RateLimitMax \in Nat \ {0}
ASSUME BoundsAreNatural == MaxTokens \in Nat \ {0} /\ MaxFaults \in Nat
ASSUME TabsAreFinite == IsFiniteSet(Tabs)
ASSUME NoneIsNoToken == None \notin Int

VARIABLES
    cookie,         \* the refresh token in the browser
    issued,         \* tokens are numbered from 1 as they are issued
    revoked,        \* Redis: revoked_rt:<jti>
    attempts,       \* Redis: login_attempts:<ip>, or 0 without the key
    timed,          \* the key has a time to live
    page,           \* what each tab shows; "leaving": location.href is set
    refreshing,     \* isRefreshing
    queue,          \* refreshSubscribers
    req,            \* what each request waits for
    retry,          \* original._retry
    call,           \* progress of a tab's POST /auth/refresh
    old,            \* the token that this call carries
    new,            \* the token that its answer brings
    out,            \* progress of a tab's POST /auth/logout
    outOld,         \* the token that this call carries
    login,          \* progress of a tab's POST /auth/login
    right,          \* the password typed is right
    granted,        \* the token that its answer brings
    overlapped,     \* the tab's refresh met another refresh or a logout
    faults

browser == <<cookie, page, refreshing, queue, req, retry>>
server  == <<issued, revoked>>
counter == <<attempts, timed>>
logouts == <<out, outOld>>
logins  == <<login, right, granted>>
vars    == <<cookie, issued, revoked, attempts, timed, page, refreshing, queue, req, retry,
             call, old, new, out, outOld, login, right, granted, overlapped, faults>>

Tokens == 1..MaxTokens

TypeOK ==
    /\ cookie     \in Tokens \cup {None}
    /\ issued     \in 0..MaxTokens
    /\ revoked    \subseteq 1..issued
    /\ attempts   \in Nat
    /\ timed      \in BOOLEAN
    /\ page       \in [Tabs -> {"login", "app", "leaving"}]
    /\ refreshing \in [Tabs -> BOOLEAN]
    /\ queue      \in [Tabs -> SUBSET Requests]
    /\ req        \in [Requests -> {"idle", "sent", "leading", "waiting"}]
    /\ retry      \in [Requests -> BOOLEAN]
    /\ call       \in [Tabs -> {"none", "sent", "read", "good", "bad", "bound"}]
    /\ old        \in [Tabs -> Tokens \cup {None}]
    /\ new        \in [Tabs -> Tokens \cup {None}]
    /\ out        \in [Tabs -> {"none", "sent", "done"}]
    /\ outOld     \in [Tabs -> Tokens \cup {None}]
    /\ login      \in [Tabs -> {"none", "sent", "passed", "counted", "refused", "granted"}]
    /\ right      \in [Tabs -> BOOLEAN]
    /\ granted    \in [Tabs -> Tokens \cup {None}]
    /\ overlapped \in [Tabs -> BOOLEAN]
    /\ faults     \in 0..MaxFaults

RequestsOf(t) == {r \in Requests : TabOf[r] = t}

Leading(t) == {r \in RequestsOf(t) : req[r] = "leading"}

IsLogin(r) == r = LoginOf[TabOf[r]]

\* A call of the tab that reads or sets the cookie is on its way.
Busy(t) == call[t] # "none" \/ out[t] # "none" \/ login[t] # "none"

\* Each tab is logged in.  Token 1 is that of the last login, the only one
\* that a browser still has.
Init ==
    /\ cookie     = 1
    /\ issued     = 1
    /\ revoked    = {}
    /\ attempts   = 0
    /\ timed      = FALSE
    /\ page       = [t \in Tabs |-> "app"]
    /\ refreshing = [t \in Tabs |-> FALSE]
    /\ queue      = [t \in Tabs |-> {}]
    /\ req        = [r \in Requests |-> "idle"]
    /\ retry      = [r \in Requests |-> FALSE]
    /\ call       = [t \in Tabs |-> "none"]
    /\ old        = [t \in Tabs |-> None]
    /\ new        = [t \in Tabs |-> None]
    /\ out        = [t \in Tabs |-> "none"]
    /\ outOld     = [t \in Tabs |-> None]
    /\ login      = [t \in Tabs |-> "none"]
    /\ right      = [t \in Tabs |-> FALSE]
    /\ granted    = [t \in Tabs |-> None]
    /\ overlapped = [t \in Tabs |-> FALSE]
    /\ faults     = 0

-----------------------------------------------------------------------------
(***************************************************************************)
(* Requests of the pages.                                                  *)
(***************************************************************************)

Send(r) ==
    /\ ~IsLogin(r)
    /\ page[TabOf[r]] = "app"
    /\ req[r] = "idle"
    /\ req' = [req EXCEPT ![r] = "sent"]
    /\ UNCHANGED <<cookie, server, page, refreshing, queue, retry, call, old, new, logouts, counter, logins, overlapped, faults>>

\* An answer other than 401, or a second 401.
Answer(r) ==
    /\ ~IsLogin(r)
    /\ req[r] = "sent"
    /\ req'   = [req EXCEPT ![r] = "idle"]
    /\ retry' = [retry EXCEPT ![r] = FALSE]
    /\ UNCHANGED <<cookie, server, page, refreshing, queue, call, old, new, logouts, counter, logins, overlapped, faults>>

\* The answer is 401: at any time, for a login only after a wrong password.
Unauthorized(r) ==
    /\ req[r] = "sent"
    /\ IsLogin(r) => login[TabOf[r]] = "refused"
    /\ login' = [login EXCEPT ![TabOf[r]] = IF IsLogin(r) THEN "none" ELSE @]

\* 401 while a refresh is under way; _retry stays as it is.
Wait(r) ==
    LET t == TabOf[r] IN
    /\ Unauthorized(r)
    /\ ~retry[r]
    /\ refreshing[t]
    /\ req'   = [req EXCEPT ![r] = "waiting"]
    /\ queue' = [queue EXCEPT ![t] = @ \cup {r}]
    /\ UNCHANGED <<cookie, server, page, refreshing, retry, call, old, new, logouts, counter, right, granted, overlapped, faults>>

FlagForgotten(t) == UNCHANGED refreshing                    \* mutant of SetFlag

SetFlag(t) == refreshing' = [refreshing EXCEPT ![t] = TRUE]

\* The refresh of tab t overlaps with the calls that are on their way.
Meet(t) ==
    overlapped' = [s \in Tabs |->
        IF s = t THEN \E x \in Tabs : out[x] # "none" \/ (x # t /\ call[x] # "none")
                 ELSE overlapped[s] \/ call[s] # "none"]

\* 401 with no refresh under way: the request leads one.
Lead(r) ==
    LET t == TabOf[r] IN
    /\ Unauthorized(r)
    /\ ~retry[r]
    /\ ~refreshing[t]
    /\ req'   = [req EXCEPT ![r] = "leading"]
    /\ retry' = [retry EXCEPT ![r] = TRUE]
    /\ SetFlag(t)
    /\ call'  = [call EXCEPT ![t] = "sent"]
    /\ old'   = [old EXCEPT ![t] = cookie]
    /\ Meet(t)
    /\ UNCHANGED <<cookie, server, page, queue, new, logouts, counter, right, granted, faults>>

-----------------------------------------------------------------------------
(***************************************************************************)
(* POST /auth/refresh.                                                     *)
(***************************************************************************)

\* No cookie, or redis.get finds the token revoked.
Read(t) ==
    /\ call[t] = "sent"
    /\ call' = [call EXCEPT ![t] =
                  IF old[t] = None \/ old[t] \in revoked THEN "bad" ELSE "read"]
    /\ UNCHANGED <<browser, server, old, new, logouts, counter, logins, overlapped, faults>>

NewToken(t) == issued + 1                                   \* mutant of OldToken

OldToken(t) == old[t]

\* redis.setex, then a new pair of tokens.  At the bound the call is refused.
Rotate(t) ==
    /\ call[t] = "read"
    /\ \/ /\ issued < MaxTokens
          /\ issued'  = issued + 1
          /\ revoked' = revoked \cup {OldToken(t)}
          /\ new'     = [new EXCEPT ![t] = issued + 1]
          /\ call'    = [call EXCEPT ![t] = "good"]
       \/ /\ issued = MaxTokens
          /\ call' = [call EXCEPT ![t] = "bound"]
          /\ UNCHANGED <<server, new>>
    /\ UNCHANGED <<browser, old, logouts, counter, logins, overlapped, faults>>

\* The server or the network fails: before, between or after its steps.
CallFails(t) ==
    /\ call[t] \in {"sent", "read", "good"}
    /\ faults < MaxFaults
    /\ faults' = faults + 1
    /\ call'   = [call EXCEPT ![t] = "bad"]
    /\ new'    = [new EXCEPT ![t] = None]
    /\ UNCHANGED <<browser, server, old, logouts, counter, logins, overlapped>>

CookieKept(t) == cookie                                     \* mutant of NewCookie

NewCookie(t) == new[t]

\* Mutant of Resumed: the subscribers are dropped before they are called.
ResumedLeader(t) == Leading(t)

\* onTokenRefreshed, and the request that led.
Resumed(t) == Leading(t) \cup queue[t]

Refreshed(t) ==
    /\ call[t] = "good"
    /\ cookie'     = NewCookie(t)
    /\ req'        = [r \in Requests |-> IF r \in Resumed(t) THEN "sent" ELSE req[r]]
    /\ login'      = [login EXCEPT ![t] = IF LoginOf[t] \in Resumed(t) THEN "sent" ELSE @]
    /\ queue'      = [queue EXCEPT ![t] = {}]
    /\ refreshing' = [refreshing EXCEPT ![t] = FALSE]
    /\ call'       = [call EXCEPT ![t] = "none"]
    /\ old'        = [old EXCEPT ![t] = None]
    /\ new'        = [new EXCEPT ![t] = None]
    /\ overlapped' = [overlapped EXCEPT ![t] = FALSE]
    /\ UNCHANGED <<server, page, retry, logouts, counter, right, granted, faults>>

\* The catch branch: the queue is dropped unanswered, and the page is left.
RefreshFailed(t) ==
    /\ call[t] \in {"bad", "bound"}
    /\ req'        = [r \in Requests |-> IF r \in Leading(t) THEN "idle" ELSE req[r]]
    /\ retry'      = [r \in Requests |-> retry[r] /\ r \notin Leading(t)]
    /\ queue'      = [queue EXCEPT ![t] = {}]
    /\ refreshing' = [refreshing EXCEPT ![t] = FALSE]
    /\ page'       = [page EXCEPT ![t] = "leaving"]
    /\ call'       = [call EXCEPT ![t] = "none"]
    /\ old'        = [old EXCEPT ![t] = None]
    /\ overlapped' = [overlapped EXCEPT ![t] = FALSE]
    /\ UNCHANGED <<cookie, server, new, logouts, counter, logins, faults>>

\* The login page is loaded: nothing of the old page is left.
Reload(t) ==
    /\ page[t] = "leaving"
    /\ ~Busy(t)
    /\ page'  = [page EXCEPT ![t] = "login"]
    /\ req'   = [r \in Requests |-> IF TabOf[r] = t THEN "idle" ELSE req[r]]
    /\ retry' = [r \in Requests |-> TabOf[r] # t /\ retry[r]]
    /\ UNCHANGED <<cookie, server, refreshing, queue, call, old, new, logouts, counter, logins, overlapped, faults>>

-----------------------------------------------------------------------------
(***************************************************************************)
(* POST /auth/login.  The form is disabled until the answer is there.      *)
(***************************************************************************)

\* The login's request is answered for good: the form can be used again.
Settle(t) ==
    /\ req'   = [req EXCEPT ![LoginOf[t]] = "idle"]
    /\ retry' = [retry EXCEPT ![LoginOf[t]] = FALSE]
    /\ login' = [login EXCEPT ![t] = "none"]
    /\ right' = [right EXCEPT ![t] = FALSE]

Submit(t, isRight) ==
    /\ page[t] = "login"
    /\ req[LoginOf[t]] = "idle"
    /\ req'   = [req EXCEPT ![LoginOf[t]] = "sent"]
    /\ login' = [login EXCEPT ![t] = "sent"]
    /\ right' = [right EXCEPT ![t] = isRight]
    /\ UNCHANGED <<cookie, server, counter, page, refreshing, queue, retry, call, old, new,
                   logouts, granted, overlapped, faults>>

OneMoreTry == attempts <= RateLimitMax                      \* mutant of MayTry

MayTry == attempts < RateLimitMax

\* redis.get.  At the limit the answer is 429, which the interceptor passes on.
ReadCounter(t) ==
    /\ login[t] = "sent"
    /\ \/ /\ MayTry
          /\ login' = [login EXCEPT ![t] = "passed"]
          /\ UNCHANGED <<req, retry, right>>
       \/ /\ ~MayTry
          /\ Settle(t)
    /\ UNCHANGED <<cookie, server, counter, page, refreshing, queue, call, old, new,
                   logouts, granted, overlapped, faults>>

\* authenticate_user finds the password wrong; redis.incr creates the key
\* without a time to live, and keeps that of an old one.
Count(t) ==
    /\ login[t] = "passed"
    /\ ~right[t]
    /\ attempts' = attempts + 1
    /\ login' = [login EXCEPT ![t] = "counted"]
    /\ UNCHANGED <<browser, server, timed, call, old, new, logouts, right, granted,
                   overlapped, faults>>

ExpiryForgotten == timed                                    \* mutant of Expiry

\* redis.expire, which does nothing if the key is gone.
Expiry == attempts > 0

\* The answer after it is 401.
SetExpiry(t) ==
    /\ login[t] = "counted"
    /\ timed' = Expiry
    /\ login' = [login EXCEPT ![t] = "refused"]
    /\ UNCHANGED <<browser, server, attempts, call, old, new, logouts, right, granted,
                   overlapped, faults>>

\* The second 401 is the page's.
ShowRefusal(t) ==
    /\ login[t] = "refused"
    /\ retry[LoginOf[t]]
    /\ Settle(t)
    /\ UNCHANGED <<cookie, server, counter, page, refreshing, queue, call, old, new, logouts,
                   granted, overlapped, faults>>

\* redis.delete and a pair of tokens.
Accept(t) ==
    /\ login[t] = "passed"
    /\ right[t]
    /\ issued < MaxTokens
    /\ attempts' = 0
    /\ timed'    = FALSE
    /\ issued'   = issued + 1
    /\ granted'  = [granted EXCEPT ![t] = issued + 1]
    /\ login'    = [login EXCEPT ![t] = "granted"]
    /\ UNCHANGED <<browser, revoked, call, old, new, logouts, right, overlapped, faults>>

LoggedIn(t) ==
    /\ login[t] = "granted"
    /\ cookie'  = granted[t]
    /\ granted' = [granted EXCEPT ![t] = None]
    /\ page'    = [page EXCEPT ![t] = IF @ = "login" THEN "app" ELSE @]
    /\ Settle(t)
    /\ UNCHANGED <<server, counter, refreshing, queue, call, old, new, logouts,
                   overlapped, faults>>

\* The server or the network fails before, between or after the handler's steps.
LoginFails(t) ==
    /\ login[t] # "none"
    /\ faults < MaxFaults
    /\ faults'  = faults + 1
    /\ granted' = [granted EXCEPT ![t] = None]
    /\ Settle(t)
    /\ UNCHANGED <<cookie, server, counter, page, refreshing, queue, call, old, new, logouts,
                   overlapped>>

\* RATE_LIMIT_WINDOW has passed since the last wrong password.
WindowEnds ==
    /\ timed
    /\ attempts' = 0
    /\ timed'    = FALSE
    /\ UNCHANGED <<browser, server, call, old, new, logouts, logins, overlapped, faults>>

-----------------------------------------------------------------------------
(***************************************************************************)
(* POST /auth/logout.                                                      *)
(***************************************************************************)

BeginLogout(t) ==
    /\ page[t] = "app"
    /\ out[t] = "none"
    /\ out'        = [out EXCEPT ![t] = "sent"]
    /\ outOld'     = [outOld EXCEPT ![t] = cookie]
    /\ overlapped' = [s \in Tabs |-> overlapped[s] \/ call[s] # "none"]
    /\ UNCHANGED <<browser, server, call, old, new, counter, logins, faults>>

Presented(t) == {outOld[t]}                                 \* mutant of ToRevoke

ToRevoke(t) == {outOld[t]} \ {None}

\* revoke_refresh_token
Revoke(t) ==
    /\ out[t] = "sent"
    /\ revoked' = revoked \cup ToRevoke(t)
    /\ out'     = [out EXCEPT ![t] = "done"]
    /\ UNCHANGED <<browser, issued, call, old, new, outOld, counter, logins, overlapped, faults>>

ToLogin(t) == page' = [page EXCEPT ![t] = IF @ = "app" THEN "login" ELSE @]

\* The answer deletes whatever cookie there is.  A call that fails does not,
\* but the tab forgets its user all the same.
EndLogout(t) ==
    /\ out[t] # "none"
    /\ \/ out[t] = "done" /\ cookie' = None /\ UNCHANGED faults
       \/ faults < MaxFaults /\ faults' = faults + 1 /\ UNCHANGED cookie
    /\ out'    = [out EXCEPT ![t] = "none"]
    /\ outOld' = [outOld EXCEPT ![t] = None]
    /\ ToLogin(t)
    /\ UNCHANGED <<server, refreshing, queue, req, retry, call, old, new, counter, logins, overlapped>>

-----------------------------------------------------------------------------

Answered(r) == Answer(r) \/ Wait(r) \/ Lead(r)

LoginStep(t) ==
    \/ ReadCounter(t)
    \/ Count(t)
    \/ SetExpiry(t)
    \/ ShowRefusal(t)
    \/ Accept(t)
    \/ LoggedIn(t)

TabStep(t) ==
    \/ Read(t)
    \/ Rotate(t)
    \/ Refreshed(t)
    \/ RefreshFailed(t)
    \/ Revoke(t)
    \/ EndLogout(t)

Next ==
    \/ \E r \in Requests : Send(r) \/ Answered(r)
    \/ \E t \in Tabs :
         \/ TabStep(t)
         \/ LoginStep(t)
         \/ CallFails(t)
         \/ LoginFails(t)
         \/ Reload(t)
         \/ \E isRight \in BOOLEAN : Submit(t, isRight)
         \/ BeginLogout(t)
    \/ WindowEnds

Spec == Init /\ [][Next]_vars

-----------------------------------------------------------------------------

\* A tab has one refresh under way or none, led by one request; whoever waits
\* in its queue waits for a refresh that is under way.
QueueBehindOneRefresh ==
    \A t \in Tabs :
        /\ Cardinality(Leading(t)) = IF refreshing[t] THEN 1 ELSE 0
        /\ refreshing[t] <=> call[t] # "none"
        /\ queue[t] # {} => refreshing[t]

\* However the refreshes and logouts of several tabs overlap, and in whatever
\* order their answers come: unless a call failed, the token in the browser is
\* good, or the call that has used it up is about to replace it.
CookieIsGood ==
    cookie \in revoked =>
        \/ faults > 0
        \/ \E t \in Tabs : call[t] = "good" /\ old[t] = cookie
        \/ \E t \in Tabs : out[t] = "done" /\ outOld[t] = cookie

\* research.md, 5: 401, refresh and retry are transparent.  A tab is sent to the
\* login page only without a cookie, after a call that failed, or if its refresh
\* overlapped with another tab's refresh or a logout.
LeavesForAReason ==
    [][\A t \in Tabs : page[t] # "leaving" /\ page'[t] = "leaving" =>
          old[t] = None \/ faults > 0 \/ overlapped[t] \/ call[t] = "bound"]_vars

\* No request waits for ever: while a request waits, it is in the queue of a
\* refresh that is under way and will resume it, or its page is being left.
NobodyWaitsInVain ==
    \A r \in Requests : req[r] = "waiting" =>
        \/ refreshing[TabOf[r]] /\ r \in queue[TabOf[r]]
        \/ page[TabOf[r]] = "leaving"

\* The login counter is read before the password is checked and incremented
\* after: handlers that read it together pass together, and exceed the limit by
\* at most the logins that are under way at the same time.
LoginOvershootBounded == attempts <= RateLimitMax - 1 + Cardinality(Tabs)

\* Nobody is locked out for ever: a counter that counts has a time to live, or
\* a handler is about to give it one; only a failure right between the two
\* commands leaves it without.
CounterIsTimed ==
    attempts > 0 /\ ~timed => faults > 0 \/ \E t \in Tabs : login[t] = "counted"
=============================================================================
