--------------------------- MODULE SessionProofs -----------------------------
(***************************************************************************)
(* Proofs about Session, for any tabs, requests, limit and number of       *)
(* tokens and faults.                                                      *)
(***************************************************************************)
EXTENDS Session, FiniteSetTheorems, TLAPS

\* The parts of TypeOK.
TokenTypes ==
    /\ cookie  \in Tokens \cup {None}
    /\ issued  \in 0..MaxTokens
    /\ revoked \subseteq 1..issued
    /\ faults  \in 0..MaxFaults

CounterTypes == attempts \in Nat /\ timed \in BOOLEAN

RequestTypes ==
    /\ queue \in [Tabs -> SUBSET Requests]
    /\ req   \in [Requests -> {"idle", "sent", "leading", "waiting"}]
    /\ retry \in [Requests -> BOOLEAN]

TabTypes ==
    /\ page       \in [Tabs -> {"login", "app", "leaving"}]
    /\ refreshing \in [Tabs -> BOOLEAN]
    /\ call       \in [Tabs -> {"none", "sent", "read", "good", "bad", "bound"}]
    /\ out        \in [Tabs -> {"none", "sent", "done"}]
    /\ login      \in [Tabs -> {"none", "sent", "passed", "counted", "refused", "granted"}]
    /\ right      \in [Tabs -> BOOLEAN]
    /\ overlapped \in [Tabs -> BOOLEAN]

HeldTypes ==
    /\ old     \in [Tabs -> Tokens \cup {None}]
    /\ new     \in [Tabs -> Tokens \cup {None}]
    /\ outOld  \in [Tabs -> Tokens \cup {None}]
    /\ granted \in [Tabs -> Tokens \cup {None}]

Types == TokenTypes /\ CounterTypes /\ RequestTypes /\ TabTypes /\ HeldTypes

Known == (1..issued) \cup {None}

\* A token that is held somewhere has been issued.
HeldTokens ==
    /\ cookie \in Known
    /\ \A t \in Tabs : old[t] \in Known /\ new[t] \in Known
    /\ \A t \in Tabs : outOld[t] \in Known /\ granted[t] \in Known

\* Which calls carry a token, and which answers bring one.
CallsCarry ==
    \A t \in Tabs :
        /\ call[t] = "none" => old[t] = None
        /\ call[t] \in {"read", "good"} => old[t] # None
        /\ call[t] = "good" <=> new[t] # None
        /\ login[t] = "granted" <=> granted[t] # None

\* While the server has a login its request waits for nothing else, and in a
\* tab's queue are requests of this tab that wait.
RequestsFit ==
    \A t \in Tabs :
        /\ login[t] # "none" => req[LoginOf[t]] = "sent"
        /\ \A r \in queue[t] : TabOf[r] = t /\ req[r] = "waiting"

\* The flag of the interceptor tells whether a refresh is under way.
FlagsFit ==
    \A t \in Tabs :
        /\ refreshing[t] <=> call[t] # "none"
        /\ queue[t] # {} => refreshing[t]

TInv == Types /\ HeldTokens /\ CallsCarry /\ RequestsFit /\ FlagsFit

-----------------------------------------------------------------------------

LEMMA TypesAreTypeOK == Types <=> TypeOK
BY DEF Types, TypeOK, TokenTypes, CounterTypes, RequestTypes, TabTypes, HeldTypes

LEMMA InitTypes == Init => TInv
<1> SUFFICES ASSUME Init PROVE TInv
  OBVIOUS
<1> USE NoneIsNoToken, BoundsAreNatural DEF Init
<1>1. TokenTypes
  BY DEF TokenTypes, Tokens
<1>2. CounterTypes /\ RequestTypes
  BY DEF CounterTypes, RequestTypes
<1>3. TabTypes
  BY DEF TabTypes
<1>4. HeldTypes
  BY DEF HeldTypes
<1>5. HeldTokens
  BY DEF HeldTokens, Known
<1>6. CallsCarry /\ RequestsFit /\ FlagsFit
  BY DEF CallsCarry, RequestsFit, FlagsFit
<1>7. QED BY <1>1, <1>2, <1>3, <1>4, <1>5, <1>6 DEF TInv, Types

LEMMA TypesStep == ASSUME TInv, [Next]_vars PROVE TInv'
<1> USE DEF TInv, Types
<1>1. CASE \E r \in Requests : Send(r)
  <2> PICK r \in Requests : Send(r)
    BY <1>1
  <2> USE DEF Send, IsLogin, browser, server, counter, logouts, logins
  <2>1. CounterTypes'
    BY SMT DEF CounterTypes
  <2>2. TokenTypes' /\ HeldTypes' /\ HeldTokens'
    BY NoneIsNoToken, BoundsAreNatural, TabOfType, LoginOfType
       DEF TokenTypes, HeldTypes, HeldTokens, Known, Tokens, CallsCarry
  <2>3. RequestTypes' /\ TabTypes'
    BY TabOfType, LoginOfType DEF RequestTypes, TabTypes
  <2>4. CallsCarry' /\ RequestsFit' /\ FlagsFit'
    BY NoneIsNoToken, TabOfType, LoginOfType
       DEF CallsCarry, RequestsFit, FlagsFit, RequestTypes, TabTypes, HeldTypes
  <2>5. QED BY <2>1, <2>2, <2>3, <2>4 DEF TInv, Types
<1>2. CASE \E r \in Requests : Answer(r)
  <2> PICK r \in Requests : Answer(r)
    BY <1>2
  <2> USE DEF Answer, IsLogin, browser, server, counter, logouts, logins
  <2>1. CounterTypes'
    BY SMT DEF CounterTypes
  <2>2. TokenTypes' /\ HeldTypes' /\ HeldTokens'
    BY NoneIsNoToken, BoundsAreNatural, TabOfType, LoginOfType
       DEF TokenTypes, HeldTypes, HeldTokens, Known, Tokens, CallsCarry
  <2>3. RequestTypes' /\ TabTypes'
    BY TabOfType, LoginOfType DEF RequestTypes, TabTypes
  <2>4. CallsCarry' /\ RequestsFit' /\ FlagsFit'
    BY NoneIsNoToken, TabOfType, LoginOfType
       DEF CallsCarry, RequestsFit, FlagsFit, RequestTypes, TabTypes, HeldTypes
  <2>5. QED BY <2>1, <2>2, <2>3, <2>4 DEF TInv, Types
<1>3. CASE \E r \in Requests : Wait(r)
  <2> PICK r \in Requests : Wait(r)
    BY <1>3
  <2> USE DEF Wait, Unauthorized, IsLogin, browser, server, counter, logouts, logins
  <2>1. TokenTypes'
    BY NoneIsNoToken, BoundsAreNatural, TabOfType, LoginOfType DEF TokenTypes, HeldTypes, HeldTokens, Known, Tokens, CallsCarry
  <2>2. CounterTypes'
    BY SMT DEF CounterTypes
  <2>3. RequestTypes'
    <3>1. TabOf[r] \in Tabs
      BY TabOfType
    <3>2. queue' \in [Tabs -> SUBSET Requests]
      BY <3>1 DEF RequestTypes
    <3>3. QED BY <3>2 DEF RequestTypes
  <2>4. TabTypes'
    BY NoneIsNoToken, BoundsAreNatural, TabOfType, LoginOfType DEF TabTypes
  <2>5. HeldTypes'
    BY NoneIsNoToken, BoundsAreNatural, TabOfType, LoginOfType DEF HeldTypes, TokenTypes, Tokens
  <2>6. HeldTokens'
    BY NoneIsNoToken, BoundsAreNatural, TabOfType, LoginOfType DEF HeldTokens, Known, TokenTypes, HeldTypes
  <2>7. CallsCarry'
    BY NoneIsNoToken, BoundsAreNatural, TabOfType, LoginOfType DEF CallsCarry, RequestsFit, HeldTokens, Known, TokenTypes, TabTypes, RequestTypes, HeldTypes
  <2>8. RequestsFit'
    BY NoneIsNoToken, BoundsAreNatural, TabOfType, LoginOfType DEF RequestsFit, RequestTypes, TabTypes
  <2>9. FlagsFit'
    BY NoneIsNoToken, BoundsAreNatural, TabOfType, LoginOfType DEF FlagsFit, RequestTypes, TabTypes
  <2>10. QED BY <2>1, <2>2, <2>3, <2>4, <2>5, <2>6, <2>7, <2>8, <2>9 DEF TInv, Types
<1>4. CASE \E r \in Requests : Lead(r)
  <2> PICK r \in Requests : Lead(r)
    BY <1>4
  <2> USE DEF Lead, Unauthorized, IsLogin, SetFlag, Meet, browser, server, counter, logouts, logins
  <2>1. TokenTypes'
    BY NoneIsNoToken, BoundsAreNatural, TabOfType, LoginOfType DEF TokenTypes, HeldTypes, HeldTokens, Known, Tokens, CallsCarry
  <2>2. CounterTypes'
    BY SMT DEF CounterTypes
  <2>3. RequestTypes'
    BY NoneIsNoToken, BoundsAreNatural, TabOfType, LoginOfType DEF RequestTypes, TabTypes
  <2>4. TabTypes'
    BY NoneIsNoToken, BoundsAreNatural, TabOfType, LoginOfType DEF TabTypes
  <2>5. HeldTypes'
    BY NoneIsNoToken, BoundsAreNatural, TabOfType, LoginOfType DEF HeldTypes, TokenTypes, Tokens
  <2>6. HeldTokens'
    BY NoneIsNoToken, BoundsAreNatural, TabOfType, LoginOfType DEF HeldTokens, Known, TokenTypes, HeldTypes
  <2>7. CallsCarry'
    <3>1. TabOf[r] \in Tabs /\ call[TabOf[r]] = "none"
      BY TabOfType DEF FlagsFit
    <3>2. QED BY <3>1, NoneIsNoToken, LoginOfType DEF CallsCarry, TabTypes, HeldTypes
  <2>8. RequestsFit'
    BY NoneIsNoToken, BoundsAreNatural, TabOfType, LoginOfType DEF RequestsFit, RequestTypes, TabTypes
  <2>9. FlagsFit'
    BY NoneIsNoToken, BoundsAreNatural, TabOfType, LoginOfType DEF FlagsFit, RequestTypes, TabTypes
  <2>10. QED BY <2>1, <2>2, <2>3, <2>4, <2>5, <2>6, <2>7, <2>8, <2>9 DEF TInv, Types
<1>5. CASE \E t \in Tabs : Read(t)
  <2> PICK t \in Tabs : Read(t)
    BY <1>5
  <2> USE DEF Read, browser, server, counter, logouts, logins
  <2>1. CounterTypes'
    BY SMT DEF CounterTypes
  <2>2. TokenTypes' /\ HeldTypes' /\ HeldTokens'
    BY NoneIsNoToken, BoundsAreNatural, TabOfType, LoginOfType
       DEF TokenTypes, HeldTypes, HeldTokens, Known, Tokens, CallsCarry
  <2>3. RequestTypes' /\ TabTypes'
    BY TabOfType, LoginOfType DEF RequestTypes, TabTypes
  <2>4. CallsCarry' /\ RequestsFit' /\ FlagsFit'
    BY NoneIsNoToken, TabOfType, LoginOfType
       DEF CallsCarry, RequestsFit, FlagsFit, RequestTypes, TabTypes, HeldTypes
  <2>5. QED BY <2>1, <2>2, <2>3, <2>4 DEF TInv, Types
<1>6. CASE \E t \in Tabs : Rotate(t)
  <2> PICK t \in Tabs : Rotate(t)
    BY <1>6
  <2> USE DEF Rotate, OldToken, browser, server, counter, logouts, logins
  <2>1. TokenTypes'
    <3>1. old[t] \in 1..issued
      BY DEF CallsCarry, HeldTokens, Known
    <3>2. CASE issued < MaxTokens
      <4>1. issued' = issued + 1 /\ revoked' = revoked \cup {old[t]}
        BY <3>2 DEF TokenTypes
      <4>2. 1..issued \subseteq 1..issued'
        BY <4>1 DEF TokenTypes
      <4>3. issued' \in 0..MaxTokens
        BY <4>1, <3>2, BoundsAreNatural DEF TokenTypes
      <4>4. QED BY <3>1, <4>1, <4>2, <4>3 DEF TokenTypes
    <3>3. CASE ~(issued < MaxTokens)
      BY <3>3 DEF TokenTypes
    <3>4. QED BY <3>2, <3>3
  <2>2. CounterTypes'
    BY SMT DEF CounterTypes
  <2>3. RequestTypes'
    BY NoneIsNoToken, BoundsAreNatural, TabOfType, LoginOfType DEF RequestTypes, TabTypes
  <2>4. TabTypes'
    BY NoneIsNoToken, BoundsAreNatural, TabOfType, LoginOfType DEF TabTypes
  <2>5. HeldTypes'
    BY NoneIsNoToken, BoundsAreNatural, TabOfType, LoginOfType DEF HeldTypes, TokenTypes, Tokens
  <2>6. HeldTokens'
    BY NoneIsNoToken, BoundsAreNatural, TabOfType, LoginOfType DEF HeldTokens, Known, TokenTypes, HeldTypes
  <2>7. CallsCarry'
    BY NoneIsNoToken, BoundsAreNatural, TabOfType, LoginOfType DEF CallsCarry, RequestsFit, HeldTokens, Known, TokenTypes, TabTypes, RequestTypes, HeldTypes
  <2>8. RequestsFit'
    BY NoneIsNoToken, BoundsAreNatural, TabOfType, LoginOfType DEF RequestsFit, RequestTypes, TabTypes
  <2>9. FlagsFit'
    BY NoneIsNoToken, BoundsAreNatural, TabOfType, LoginOfType DEF FlagsFit, RequestTypes, TabTypes
  <2>10. QED BY <2>1, <2>2, <2>3, <2>4, <2>5, <2>6, <2>7, <2>8, <2>9 DEF TInv, Types
<1>7. CASE \E t \in Tabs : Refreshed(t)
  <2> PICK t \in Tabs : Refreshed(t)
    BY <1>7
  <2> USE DEF Refreshed, NewCookie, Resumed, Leading, RequestsOf, browser, server, counter, logouts, logins
  <2>1. TokenTypes'
    BY NoneIsNoToken, BoundsAreNatural, TabOfType, LoginOfType DEF TokenTypes, HeldTypes, HeldTokens, Known, Tokens, CallsCarry
  <2>2. CounterTypes'
    BY SMT DEF CounterTypes
  <2>3. RequestTypes'
    BY NoneIsNoToken, BoundsAreNatural, TabOfType, LoginOfType DEF RequestTypes, TabTypes
  <2>4. TabTypes'
    BY NoneIsNoToken, BoundsAreNatural, TabOfType, LoginOfType DEF TabTypes
  <2>5. HeldTypes'
    BY NoneIsNoToken, BoundsAreNatural, TabOfType, LoginOfType DEF HeldTypes, TokenTypes, Tokens
  <2>6. HeldTokens'
    BY NoneIsNoToken, BoundsAreNatural, TabOfType, LoginOfType DEF HeldTokens, Known, TokenTypes, HeldTypes
  <2>7. CallsCarry'
    <3>1. login[t] # "none" => LoginOf[t] \notin Resumed(t)
      BY LoginOfType DEF RequestsFit
    <3>2. login[t] # "none" => login'[t] = login[t]
      BY <3>1 DEF TabTypes
    <3>3. login[t] = "none" => login'[t] # "granted"
      BY DEF TabTypes
    <3>4. login'[t] = "granted" <=> granted'[t] # None
      BY <3>2, <3>3 DEF CallsCarry
    <3>5. \A s \in Tabs \ {t} : login'[s] = login[s] /\ granted'[s] = granted[s]
      BY DEF TabTypes
    <3>6. QED BY <3>4, <3>5, NoneIsNoToken DEF CallsCarry, TabTypes, HeldTypes
  <2>8. RequestsFit'
    <3>1. \A r \in Resumed(t) : TabOf[r] = t
      BY DEF RequestsFit
    <3> SUFFICES ASSUME NEW s \in Tabs
                 PROVE  /\ login'[s] # "none" => req'[LoginOf[s]] = "sent"
                        /\ \A r \in queue'[s] : TabOf[r] = s /\ req'[r] = "waiting"
      BY DEF RequestsFit
    <3>2. login'[s] # "none" => req'[LoginOf[s]] = "sent"
      <4>1. LoginOf[s] \in Requests /\ TabOf[LoginOf[s]] = s
        BY LoginOfType
      <4>2. CASE LoginOf[s] \in Resumed(t)
        BY <4>1, <4>2 DEF RequestTypes
      <4>3. CASE ~(LoginOf[s] \in Resumed(t))
        BY <4>1, <4>3 DEF RequestsFit, RequestTypes, TabTypes
      <4>4. QED BY <4>2, <4>3
    <3>3. CASE s = t
      BY <3>2, <3>3 DEF RequestTypes
    <3>4. CASE s # t
      <4>1. queue'[s] = queue[s]
        BY <3>4 DEF RequestTypes
      <4>2. \A r \in queue[s] : r \in Requests /\ TabOf[r] = s /\ req[r] = "waiting"
        BY DEF RequestsFit, RequestTypes
      <4>3. \A r \in queue[s] : r \notin Resumed(t)
        BY <3>1, <3>4, <4>2
      <4>4. QED BY <3>2, <4>1, <4>2, <4>3 DEF RequestTypes
    <3>5. QED BY <3>3, <3>4
  <2>9. FlagsFit'
    BY NoneIsNoToken, BoundsAreNatural, TabOfType, LoginOfType DEF FlagsFit, RequestTypes, TabTypes
  <2>10. QED BY <2>1, <2>2, <2>3, <2>4, <2>5, <2>6, <2>7, <2>8, <2>9 DEF TInv, Types
<1>8. CASE \E t \in Tabs : RefreshFailed(t)
  <2> PICK t \in Tabs : RefreshFailed(t)
    BY <1>8
  <2> USE DEF RefreshFailed, Leading, RequestsOf, browser, server, counter, logouts, logins
  <2>1. TokenTypes'
    BY NoneIsNoToken, BoundsAreNatural, TabOfType, LoginOfType DEF TokenTypes, HeldTypes, HeldTokens, Known, Tokens, CallsCarry
  <2>2. CounterTypes'
    BY SMT DEF CounterTypes
  <2>3. RequestTypes'
    BY NoneIsNoToken, BoundsAreNatural, TabOfType, LoginOfType DEF RequestTypes, TabTypes
  <2>4. TabTypes'
    BY NoneIsNoToken, BoundsAreNatural, TabOfType, LoginOfType DEF TabTypes
  <2>5. HeldTypes'
    BY NoneIsNoToken, BoundsAreNatural, TabOfType, LoginOfType DEF HeldTypes, TokenTypes, Tokens
  <2>6. HeldTokens'
    BY NoneIsNoToken, BoundsAreNatural, TabOfType, LoginOfType DEF HeldTokens, Known, TokenTypes, HeldTypes
  <2>7. CallsCarry'
    BY NoneIsNoToken, BoundsAreNatural, TabOfType, LoginOfType DEF CallsCarry, RequestsFit, HeldTokens, Known, TokenTypes, TabTypes, RequestTypes, HeldTypes
  <2>8. RequestsFit'
    <3> SUFFICES ASSUME NEW s \in Tabs
                 PROVE  /\ login'[s] # "none" => req'[LoginOf[s]] = "sent"
                        /\ \A r \in queue'[s] : TabOf[r] = s /\ req'[r] = "waiting"
      BY DEF RequestsFit
    <3>1. LoginOf[s] \in Requests
      BY LoginOfType
    <3>2. login'[s] # "none" => req'[LoginOf[s]] = "sent"
      BY <3>1 DEF RequestsFit
    <3>3. queue'[s] \subseteq queue[s]
      BY DEF RequestTypes
    <3>4. \A r \in queue[s] : r \in Requests /\ TabOf[r] = s /\ req[r] = "waiting"
      BY DEF RequestsFit, RequestTypes
    <3>5. \A r \in queue[s] : req'[r] = "waiting"
      BY <3>4
    <3>6. QED BY <3>2, <3>3, <3>4, <3>5
  <2>9. FlagsFit'
    BY NoneIsNoToken, BoundsAreNatural, TabOfType, LoginOfType DEF FlagsFit, RequestTypes, TabTypes
  <2>10. QED BY <2>1, <2>2, <2>3, <2>4, <2>5, <2>6, <2>7, <2>8, <2>9 DEF TInv, Types
<1>9. CASE \E t \in Tabs : Revoke(t)
  <2> PICK t \in Tabs : Revoke(t)
    BY <1>9
  <2> USE DEF Revoke, ToRevoke, browser, server, counter, logouts, logins
  <2>1. CounterTypes'
    BY SMT DEF CounterTypes
  <2>2. TokenTypes' /\ HeldTypes' /\ HeldTokens'
    BY NoneIsNoToken, BoundsAreNatural, TabOfType, LoginOfType
       DEF TokenTypes, HeldTypes, HeldTokens, Known, Tokens, CallsCarry
  <2>3. RequestTypes' /\ TabTypes'
    BY TabOfType, LoginOfType DEF RequestTypes, TabTypes
  <2>4. CallsCarry' /\ RequestsFit' /\ FlagsFit'
    BY NoneIsNoToken, TabOfType, LoginOfType
       DEF CallsCarry, RequestsFit, FlagsFit, RequestTypes, TabTypes, HeldTypes
  <2>5. QED BY <2>1, <2>2, <2>3, <2>4 DEF TInv, Types
<1>10. CASE \E t \in Tabs : EndLogout(t)
  <2> PICK t \in Tabs : EndLogout(t)
    BY <1>10
  <2> USE DEF EndLogout, ToLogin, browser, server, counter, logouts, logins
  <2>1. CounterTypes'
    BY SMT DEF CounterTypes
  <2>2. TokenTypes' /\ HeldTypes' /\ HeldTokens'
    BY NoneIsNoToken, BoundsAreNatural, TabOfType, LoginOfType
       DEF TokenTypes, HeldTypes, HeldTokens, Known, Tokens, CallsCarry
  <2>3. RequestTypes' /\ TabTypes'
    BY TabOfType, LoginOfType DEF RequestTypes, TabTypes
  <2>4. CallsCarry' /\ RequestsFit' /\ FlagsFit'
    BY NoneIsNoToken, TabOfType, LoginOfType
       DEF CallsCarry, RequestsFit, FlagsFit, RequestTypes, TabTypes, HeldTypes
  <2>5. QED BY <2>1, <2>2, <2>3, <2>4 DEF TInv, Types
<1>11. CASE \E t \in Tabs : ReadCounter(t)
  <2> PICK t \in Tabs : ReadCounter(t)
    BY <1>11
  <2> USE DEF ReadCounter, Settle, MayTry, browser, server, counter, logouts, logins
  <2>1. TokenTypes'
    BY NoneIsNoToken, BoundsAreNatural, TabOfType, LoginOfType DEF TokenTypes, HeldTypes, HeldTokens, Known, Tokens, CallsCarry
  <2>2. CounterTypes'
    BY SMT DEF CounterTypes
  <2>3. RequestTypes'
    <3>1. LoginOf[t] \in Requests
      BY LoginOfType
    <3>2. CASE attempts < RateLimitMax
      BY <3>2, RateLimitIsPositive DEF RequestTypes, CounterTypes
    <3>3. CASE ~(attempts < RateLimitMax)
      BY <3>1, <3>3 DEF RequestTypes
    <3>4. QED BY <3>2, <3>3
  <2>4. TabTypes'
    <3>1. LoginOf[t] \in Requests
      BY LoginOfType
    <3>2. CASE attempts < RateLimitMax
      BY <3>2, RateLimitIsPositive DEF TabTypes, CounterTypes
    <3>3. CASE ~(attempts < RateLimitMax)
      BY <3>1, <3>3 DEF TabTypes
    <3>4. QED BY <3>2, <3>3
  <2>5. HeldTypes'
    BY NoneIsNoToken, BoundsAreNatural, TabOfType, LoginOfType DEF HeldTypes, TokenTypes, Tokens
  <2>6. HeldTokens'
    BY NoneIsNoToken, BoundsAreNatural, TabOfType, LoginOfType DEF HeldTokens, Known, TokenTypes, HeldTypes
  <2>7. CallsCarry'
    BY NoneIsNoToken, BoundsAreNatural, TabOfType, LoginOfType DEF CallsCarry, RequestsFit, HeldTokens, Known, TokenTypes, TabTypes, RequestTypes, HeldTypes
  <2>8. RequestsFit'
    BY NoneIsNoToken, BoundsAreNatural, TabOfType, LoginOfType DEF RequestsFit, RequestTypes, TabTypes
  <2>9. FlagsFit'
    BY NoneIsNoToken, BoundsAreNatural, TabOfType, LoginOfType DEF FlagsFit, RequestTypes, TabTypes
  <2>10. QED BY <2>1, <2>2, <2>3, <2>4, <2>5, <2>6, <2>7, <2>8, <2>9 DEF TInv, Types
<1>12. CASE \E t \in Tabs : Count(t)
  <2> PICK t \in Tabs : Count(t)
    BY <1>12
  <2> USE DEF Count, browser, server, counter, logouts, logins
  <2>1. CounterTypes'
    BY SMT DEF CounterTypes
  <2>2. TokenTypes' /\ HeldTypes' /\ HeldTokens'
    BY NoneIsNoToken, BoundsAreNatural, TabOfType, LoginOfType
       DEF TokenTypes, HeldTypes, HeldTokens, Known, Tokens, CallsCarry
  <2>3. RequestTypes' /\ TabTypes'
    BY TabOfType, LoginOfType DEF RequestTypes, TabTypes
  <2>4. CallsCarry' /\ RequestsFit' /\ FlagsFit'
    BY NoneIsNoToken, TabOfType, LoginOfType
       DEF CallsCarry, RequestsFit, FlagsFit, RequestTypes, TabTypes, HeldTypes
  <2>5. QED BY <2>1, <2>2, <2>3, <2>4 DEF TInv, Types
<1>13. CASE \E t \in Tabs : SetExpiry(t)
  <2> PICK t \in Tabs : SetExpiry(t)
    BY <1>13
  <2> USE DEF SetExpiry, Expiry, browser, server, counter, logouts, logins
  <2>1. CounterTypes'
    BY SMT DEF CounterTypes
  <2>2. TokenTypes' /\ HeldTypes' /\ HeldTokens'
    BY NoneIsNoToken, BoundsAreNatural, TabOfType, LoginOfType
       DEF TokenTypes, HeldTypes, HeldTokens, Known, Tokens, CallsCarry
  <2>3. RequestTypes' /\ TabTypes'
    BY TabOfType, LoginOfType DEF RequestTypes, TabTypes
  <2>4. CallsCarry' /\ RequestsFit' /\ FlagsFit'
    BY NoneIsNoToken, TabOfType, LoginOfType
       DEF CallsCarry, RequestsFit, FlagsFit, RequestTypes, TabTypes, HeldTypes
  <2>5. QED BY <2>1, <2>2, <2>3, <2>4 DEF TInv, Types
<1>14. CASE \E t \in Tabs : ShowRefusal(t)
  <2> PICK t \in Tabs : ShowRefusal(t)
    BY <1>14
  <2> USE DEF ShowRefusal, Settle, browser, server, counter, logouts, logins
  <2>1. CounterTypes'
    BY SMT DEF CounterTypes
  <2>2. TokenTypes' /\ HeldTypes' /\ HeldTokens'
    BY NoneIsNoToken, BoundsAreNatural, TabOfType, LoginOfType
       DEF TokenTypes, HeldTypes, HeldTokens, Known, Tokens, CallsCarry
  <2>3. RequestTypes' /\ TabTypes'
    BY TabOfType, LoginOfType DEF RequestTypes, TabTypes
  <2>4. CallsCarry' /\ RequestsFit' /\ FlagsFit'
    BY NoneIsNoToken, TabOfType, LoginOfType
       DEF CallsCarry, RequestsFit, FlagsFit, RequestTypes, TabTypes, HeldTypes
  <2>5. QED BY <2>1, <2>2, <2>3, <2>4 DEF TInv, Types
<1>15. CASE \E t \in Tabs : Accept(t)
  <2> PICK t \in Tabs : Accept(t)
    BY <1>15
  <2> USE DEF Accept, browser, server, counter, logouts, logins
  <2>1. CounterTypes'
    <3>1. attempts' \in Nat
      BY SMT
    <3>2. timed' \in BOOLEAN
      BY Zenon
    <3>3. QED BY <3>1, <3>2 DEF CounterTypes
  <2>2. TokenTypes' /\ HeldTypes' /\ HeldTokens'
    BY NoneIsNoToken, BoundsAreNatural, TabOfType, LoginOfType
       DEF TokenTypes, HeldTypes, HeldTokens, Known, Tokens
  <2>3. RequestTypes' /\ TabTypes'
    BY TabOfType, LoginOfType DEF RequestTypes, TabTypes
  <2>4. CallsCarry' /\ RequestsFit' /\ FlagsFit'
    BY NoneIsNoToken, TabOfType, LoginOfType
       DEF CallsCarry, RequestsFit, FlagsFit, RequestTypes, TabTypes, HeldTypes
  <2>5. QED BY <2>1, <2>2, <2>3, <2>4 DEF TInv, Types
<1>16. CASE \E t \in Tabs : LoggedIn(t)
  <2> PICK t \in Tabs : LoggedIn(t)
    BY <1>16
  <2> USE DEF LoggedIn, Settle, browser, server, counter, logouts, logins
  <2>1. CounterTypes'
    BY SMT DEF CounterTypes
  <2>2. TokenTypes' /\ HeldTypes' /\ HeldTokens'
    BY NoneIsNoToken, BoundsAreNatural, TabOfType, LoginOfType
       DEF TokenTypes, HeldTypes, HeldTokens, Known, Tokens, CallsCarry
  <2>3. RequestTypes' /\ TabTypes'
    BY TabOfType, LoginOfType DEF RequestTypes, TabTypes
  <2>4. CallsCarry' /\ RequestsFit' /\ FlagsFit'
    BY NoneIsNoToken, TabOfType, LoginOfType
       DEF CallsCarry, RequestsFit, FlagsFit, RequestTypes, TabTypes, HeldTypes
  <2>5. QED BY <2>1, <2>2, <2>3, <2>4 DEF TInv, Types
<1>17. CASE \E t \in Tabs : CallFails(t)
  <2> PICK t \in Tabs : CallFails(t)
    BY <1>17
  <2> USE DEF CallFails, browser, server, counter, logouts, logins
  <2>1. CounterTypes'
    BY SMT DEF CounterTypes
  <2>2. TokenTypes' /\ HeldTypes' /\ HeldTokens'
    BY NoneIsNoToken, BoundsAreNatural, TabOfType, LoginOfType
       DEF TokenTypes, HeldTypes, HeldTokens, Known, Tokens, CallsCarry
  <2>3. RequestTypes' /\ TabTypes'
    BY TabOfType, LoginOfType DEF RequestTypes, TabTypes
  <2>4. CallsCarry' /\ RequestsFit' /\ FlagsFit'
    BY NoneIsNoToken, TabOfType, LoginOfType
       DEF CallsCarry, RequestsFit, FlagsFit, RequestTypes, TabTypes, HeldTypes
  <2>5. QED BY <2>1, <2>2, <2>3, <2>4 DEF TInv, Types
<1>18. CASE \E t \in Tabs : LoginFails(t)
  <2> PICK t \in Tabs : LoginFails(t)
    BY <1>18
  <2> USE DEF LoginFails, Settle, browser, server, counter, logouts, logins
  <2>1. CounterTypes'
    BY SMT DEF CounterTypes
  <2>2. TokenTypes' /\ HeldTypes' /\ HeldTokens'
    BY NoneIsNoToken, BoundsAreNatural, TabOfType, LoginOfType
       DEF TokenTypes, HeldTypes, HeldTokens, Known, Tokens, CallsCarry
  <2>3. RequestTypes' /\ TabTypes'
    BY TabOfType, LoginOfType DEF RequestTypes, TabTypes
  <2>4. CallsCarry' /\ RequestsFit' /\ FlagsFit'
    BY NoneIsNoToken, TabOfType, LoginOfType
       DEF CallsCarry, RequestsFit, FlagsFit, RequestTypes, TabTypes, HeldTypes
  <2>5. QED BY <2>1, <2>2, <2>3, <2>4 DEF TInv, Types
<1>19. CASE \E t \in Tabs : Reload(t)
  <2> PICK t \in Tabs : Reload(t)
    BY <1>19
  <2> USE DEF Reload, browser, server, counter, logouts, logins
  <2>1. TokenTypes'
    BY NoneIsNoToken, BoundsAreNatural, TabOfType, LoginOfType DEF TokenTypes, HeldTypes, HeldTokens, Known, Tokens, CallsCarry
  <2>2. CounterTypes'
    BY SMT DEF CounterTypes
  <2>3. RequestTypes'
    BY NoneIsNoToken, BoundsAreNatural, TabOfType, LoginOfType DEF RequestTypes, TabTypes
  <2>4. TabTypes'
    BY NoneIsNoToken, BoundsAreNatural, TabOfType, LoginOfType DEF TabTypes
  <2>5. HeldTypes'
    BY NoneIsNoToken, BoundsAreNatural, TabOfType, LoginOfType DEF HeldTypes, TokenTypes, Tokens
  <2>6. HeldTokens'
    BY NoneIsNoToken, BoundsAreNatural, TabOfType, LoginOfType DEF HeldTokens, Known, TokenTypes, HeldTypes
  <2>7. CallsCarry'
    BY NoneIsNoToken, BoundsAreNatural, TabOfType, LoginOfType DEF CallsCarry, RequestsFit, HeldTokens, Known, TokenTypes, TabTypes, RequestTypes, HeldTypes
  <2>8. RequestsFit'
    <3>1. queue[t] = {} /\ login[t] = "none"
      BY DEF Busy, FlagsFit
    <3> SUFFICES ASSUME NEW s \in Tabs
                 PROVE  /\ login'[s] # "none" => req'[LoginOf[s]] = "sent"
                        /\ \A r \in queue'[s] : TabOf[r] = s /\ req'[r] = "waiting"
      BY DEF RequestsFit
    <3>2. LoginOf[s] \in Requests /\ TabOf[LoginOf[s]] = s
      BY LoginOfType
    <3>3. CASE s = t
      BY <3>1, <3>3
    <3>4. CASE s # t
      BY <3>2, <3>4 DEF RequestsFit, RequestTypes
    <3>5. QED BY <3>3, <3>4
  <2>9. FlagsFit'
    BY NoneIsNoToken, BoundsAreNatural, TabOfType, LoginOfType DEF FlagsFit, RequestTypes, TabTypes
  <2>10. QED BY <2>1, <2>2, <2>3, <2>4, <2>5, <2>6, <2>7, <2>8, <2>9 DEF TInv, Types
<1>20. CASE \E t \in Tabs : BeginLogout(t)
  <2> PICK t \in Tabs : BeginLogout(t)
    BY <1>20
  <2> USE DEF BeginLogout, browser, server, counter, logouts, logins
  <2>1. CounterTypes'
    BY SMT DEF CounterTypes
  <2>2. TokenTypes' /\ HeldTypes' /\ HeldTokens'
    BY NoneIsNoToken, BoundsAreNatural, TabOfType, LoginOfType
       DEF TokenTypes, HeldTypes, HeldTokens, Known, Tokens, CallsCarry
  <2>3. RequestTypes' /\ TabTypes'
    BY TabOfType, LoginOfType DEF RequestTypes, TabTypes
  <2>4. CallsCarry' /\ RequestsFit' /\ FlagsFit'
    BY NoneIsNoToken, TabOfType, LoginOfType
       DEF CallsCarry, RequestsFit, FlagsFit, RequestTypes, TabTypes, HeldTypes
  <2>5. QED BY <2>1, <2>2, <2>3, <2>4 DEF TInv, Types
<1>21. CASE \E t \in Tabs, b \in BOOLEAN : Submit(t, b)
  <2> PICK t \in Tabs, b \in BOOLEAN : Submit(t, b)
    BY <1>21
  <2> USE DEF Submit, browser, server, counter, logouts, logins
  <2>1. TokenTypes'
    BY NoneIsNoToken, BoundsAreNatural, TabOfType, LoginOfType DEF TokenTypes, HeldTypes, HeldTokens, Known, Tokens, CallsCarry
  <2>2. CounterTypes'
    BY SMT DEF CounterTypes
  <2>3. RequestTypes'
    BY NoneIsNoToken, BoundsAreNatural, TabOfType, LoginOfType DEF RequestTypes, TabTypes
  <2>4. TabTypes'
    BY NoneIsNoToken, BoundsAreNatural, TabOfType, LoginOfType DEF TabTypes
  <2>5. HeldTypes'
    BY NoneIsNoToken, BoundsAreNatural, TabOfType, LoginOfType DEF HeldTypes, TokenTypes, Tokens
  <2>6. HeldTokens'
    BY NoneIsNoToken, BoundsAreNatural, TabOfType, LoginOfType DEF HeldTokens, Known, TokenTypes, HeldTypes
  <2>7. CallsCarry'
    <3>1. login[t] = "none" /\ granted[t] = None
      BY DEF RequestsFit, CallsCarry
    <3>2. QED BY <3>1 DEF CallsCarry, TabTypes
  <2>8. RequestsFit'
    <3> SUFFICES ASSUME NEW s \in Tabs
                 PROVE  /\ login'[s] # "none" => req'[LoginOf[s]] = "sent"
                        /\ \A r \in queue'[s] : TabOf[r] = s /\ req'[r] = "waiting"
      BY DEF RequestsFit
    <3>1. LoginOf[s] \in Requests /\ TabOf[LoginOf[s]] = s
      BY LoginOfType
    <3>2. LoginOf[t] \in Requests /\ TabOf[LoginOf[t]] = t
      BY LoginOfType
    <3>3. login'[s] # "none" => req'[LoginOf[s]] = "sent"
      BY <3>1, <3>2 DEF RequestsFit, RequestTypes, TabTypes
    <3>4. \A r \in queue[s] : r \in Requests /\ TabOf[r] = s /\ req[r] = "waiting"
      BY DEF RequestsFit, RequestTypes
    <3>5. \A r \in queue[s] : req'[r] = "waiting"
      BY <3>2, <3>4 DEF RequestTypes
    <3>6. QED BY <3>3, <3>4, <3>5
  <2>9. FlagsFit'
    BY NoneIsNoToken, BoundsAreNatural, TabOfType, LoginOfType DEF FlagsFit, RequestTypes, TabTypes
  <2>10. QED BY <2>1, <2>2, <2>3, <2>4, <2>5, <2>6, <2>7, <2>8, <2>9 DEF TInv, Types
<1>22. CASE WindowEnds
  <2> USE DEF WindowEnds, browser, server, counter, logouts, logins
  <2>1. CounterTypes'
    <3>1. attempts' \in Nat
      BY <1>22, SMT
    <3>2. timed' \in BOOLEAN
      BY <1>22, Zenon
    <3>3. QED BY <3>1, <3>2 DEF CounterTypes
  <2>2. TokenTypes' /\ HeldTypes' /\ HeldTokens'
    BY <1>22, NoneIsNoToken, BoundsAreNatural, TabOfType, LoginOfType
       DEF TokenTypes, HeldTypes, HeldTokens, Known, Tokens, CallsCarry
  <2>3. RequestTypes' /\ TabTypes'
    BY <1>22, TabOfType, LoginOfType DEF RequestTypes, TabTypes
  <2>4. CallsCarry' /\ RequestsFit' /\ FlagsFit'
    BY <1>22, NoneIsNoToken, TabOfType, LoginOfType
       DEF CallsCarry, RequestsFit, FlagsFit, RequestTypes, TabTypes, HeldTypes
  <2>5. QED BY <2>1, <2>2, <2>3, <2>4 DEF TInv, Types
<1>23. CASE UNCHANGED vars
  <2> USE DEF vars, browser, server, counter, logouts, logins
  <2>1. CounterTypes'
    BY <1>23, SMT DEF CounterTypes
  <2>2. TokenTypes' /\ HeldTypes' /\ HeldTokens'
    BY <1>23, NoneIsNoToken, BoundsAreNatural, TabOfType, LoginOfType
       DEF TokenTypes, HeldTypes, HeldTokens, Known, Tokens, CallsCarry
  <2>3. RequestTypes' /\ TabTypes'
    BY <1>23, TabOfType, LoginOfType DEF RequestTypes, TabTypes
  <2>4. CallsCarry' /\ RequestsFit' /\ FlagsFit'
    BY <1>23, NoneIsNoToken, TabOfType, LoginOfType
       DEF CallsCarry, RequestsFit, FlagsFit, RequestTypes, TabTypes, HeldTypes
  <2>5. QED BY <2>1, <2>2, <2>3, <2>4 DEF TInv, Types
<1>24. QED
  BY <1>1, <1>2, <1>3, <1>4, <1>5, <1>6, <1>7, <1>8, <1>9, <1>10, <1>11, <1>12, <1>13, <1>14, <1>15, <1>16, <1>17, <1>18, <1>19, <1>20, <1>21, <1>22, <1>23 DEF Next, Answered, TabStep, LoginStep, vars

-----------------------------------------------------------------------------
(***************************************************************************)
(* The interceptor: one leader for each refresh, and nobody waits in vain. *)
(***************************************************************************)

LeadersFit ==
    /\ \A r \in Requests : req[r] = "leading" => refreshing[TabOf[r]]
    /\ \A r, q \in Requests :
         req[r] = "leading" /\ req[q] = "leading" /\ TabOf[r] = TabOf[q] => r = q
    /\ \A t \in Tabs : refreshing[t] =>
         \E r \in Requests : TabOf[r] = t /\ req[r] = "leading"

SameLeaders ==
    /\ refreshing' = refreshing
    /\ \A r \in Requests : req'[r] = "leading" <=> req[r] = "leading"

LEMMA LeadersStep ==
    ASSUME TInv, LeadersFit, [Next]_vars
    PROVE  LeadersFit'
<1> USE TabOfType, LoginOfType DEF TInv, Types, RequestTypes, TabTypes
<1>1. CASE SameLeaders
  BY <1>1 DEF LeadersFit, SameLeaders
<1>2. CASE \E r \in Requests : Send(r) \/ Answer(r) \/ Wait(r)
  BY <1>1, <1>2 DEF SameLeaders, Send, Answer, Wait, Unauthorized
<1>3. CASE \E r \in Requests : Lead(r)
  BY <1>3 DEF Lead, Unauthorized, SetFlag, LeadersFit
<1>4. CASE \E t \in Tabs : Read(t) \/ Rotate(t) \/ CallFails(t) \/ Revoke(t)
                             \/ EndLogout(t) \/ BeginLogout(t)
  BY <1>1, <1>4 DEF SameLeaders, Read, Rotate, CallFails, Revoke, EndLogout, BeginLogout, browser
<1>5. CASE \E t \in Tabs : Refreshed(t) \/ RefreshFailed(t)
  <2> PICK t \in Tabs : Refreshed(t) \/ RefreshFailed(t)
    BY <1>5
  <2>1. \A r \in Requests : req'[r] = "leading" <=> req[r] = "leading" /\ TabOf[r] # t
    BY DEF Refreshed, RefreshFailed, Resumed, Leading, RequestsOf, RequestsFit
  <2>2. \A s \in Tabs : refreshing'[s] <=> refreshing[s] /\ s # t
    BY DEF Refreshed, RefreshFailed
  <2>3. QED BY <2>1, <2>2 DEF LeadersFit
<1>6. CASE \E t \in Tabs : Reload(t)
  <2> PICK t \in Tabs : Reload(t)
    BY <1>6
  <2>1. ~refreshing[t] /\ refreshing' = refreshing
    BY DEF Reload, Busy, FlagsFit
  <2>2. \A r \in Requests : req'[r] = "leading" <=> req[r] = "leading"
    BY <2>1 DEF Reload, LeadersFit
  <2>3. QED BY <1>1, <2>1, <2>2 DEF SameLeaders
<1>7. CASE \E t \in Tabs : ReadCounter(t) \/ Count(t) \/ SetExpiry(t) \/ ShowRefusal(t)
                             \/ Accept(t) \/ LoggedIn(t) \/ LoginFails(t)
  <2> PICK t \in Tabs : ReadCounter(t) \/ Count(t) \/ SetExpiry(t) \/ ShowRefusal(t)
                          \/ Accept(t) \/ LoggedIn(t) \/ LoginFails(t)
    BY <1>7
  <2>1. req[LoginOf[t]] = "sent" /\ LoginOf[t] \in Requests
    BY DEF RequestsFit, ReadCounter, Count, SetExpiry, ShowRefusal, Accept, LoggedIn, LoginFails
  <2>2. refreshing' = refreshing /\ (req' = req \/ req' = [req EXCEPT ![LoginOf[t]] = "idle"])
    BY DEF ReadCounter, Count, SetExpiry, ShowRefusal, Accept, LoggedIn, LoginFails, Settle, browser
  <2>3. QED BY <1>1, <2>1, <2>2 DEF SameLeaders
<1>8. CASE \E t \in Tabs, b \in BOOLEAN : Submit(t, b)
  BY <1>1, <1>8 DEF SameLeaders, Submit
<1>9. CASE WindowEnds \/ UNCHANGED vars
  BY <1>1, <1>9 DEF SameLeaders, WindowEnds, browser, vars
<1>10. QED
  BY <1>2, <1>3, <1>4, <1>5, <1>6, <1>7, <1>8, <1>9
     DEF Next, Answered, TabStep, LoginStep

LEMMA LeadersAreOne ==
    ASSUME TInv, LeadersFit
    PROVE  QueueBehindOneRefresh
<1> SUFFICES ASSUME NEW t \in Tabs
             PROVE  /\ Cardinality(Leading(t)) = IF refreshing[t] THEN 1 ELSE 0
                    /\ refreshing[t] <=> call[t] # "none"
                    /\ queue[t] # {} => refreshing[t]
  BY DEF QueueBehindOneRefresh
<1>1. CASE refreshing[t]
  <2>1. PICK r \in Requests : TabOf[r] = t /\ req[r] = "leading"
    BY <1>1 DEF LeadersFit
  <2>2. Leading(t) = {r}
    BY <2>1 DEF LeadersFit, Leading, RequestsOf
  <2>3. Cardinality(Leading(t)) = 1
    BY <2>2, FS_Singleton
  <2>4. QED BY <1>1, <2>3 DEF TInv, FlagsFit
<1>2. CASE ~refreshing[t]
  <2>1. Leading(t) = {}
    BY <1>2 DEF LeadersFit, Leading, RequestsOf
  <2>2. Cardinality(Leading(t)) = 0
    BY <2>1, FS_EmptySet
  <2>3. QED BY <1>2, <2>2 DEF TInv, FlagsFit
<1>3. QED BY <1>1, <1>2

LEMMA WaitStep ==
    ASSUME TInv, NobodyWaitsInVain, [Next]_vars
    PROVE  NobodyWaitsInVain'
<1> USE TabOfType, LoginOfType DEF TInv, Types, RequestTypes, TabTypes, NobodyWaitsInVain
<1>1. CASE \E r \in Requests : Send(r) \/ Answer(r)
  BY <1>1 DEF Send, Answer
<1>2. CASE \E r \in Requests : Wait(r)
  <2> PICK r \in Requests : Wait(r)
    BY <1>2
  <2>1. TabOf[r] \in Tabs /\ refreshing[TabOf[r]]
    BY DEF Wait
  <2>2. \A s \in Tabs : queue[s] \subseteq queue'[s]
    BY DEF Wait
  <2>3. r \in queue'[TabOf[r]]
    BY <2>1 DEF Wait
  <2>4. \A q \in Requests \ {r} : req'[q] = req[q]
    BY DEF Wait
  <2>5. refreshing' = refreshing /\ page' = page
    BY DEF Wait
  <2>6. QED BY <2>1, <2>2, <2>3, <2>4, <2>5
<1>3. CASE \E r \in Requests : Lead(r)
  BY <1>3 DEF Lead, SetFlag
<1>4. CASE \E t \in Tabs : Read(t) \/ Rotate(t) \/ CallFails(t) \/ Revoke(t) \/ BeginLogout(t)
                             \/ Count(t) \/ SetExpiry(t) \/ Accept(t)
  BY <1>4 DEF Read, Rotate, CallFails, Revoke, BeginLogout, Count, SetExpiry, Accept, browser
<1>5. CASE \E t \in Tabs : EndLogout(t)
  BY <1>5 DEF EndLogout, ToLogin
<1>6. CASE \E t \in Tabs : Refreshed(t)
  BY <1>6 DEF Refreshed, Resumed
<1>7. CASE \E t \in Tabs : RefreshFailed(t)
  BY <1>7 DEF RefreshFailed
<1>8. CASE \E t \in Tabs : Reload(t)
  BY <1>8 DEF Reload
<1>9. CASE \E t \in Tabs : ReadCounter(t) \/ ShowRefusal(t) \/ LoggedIn(t) \/ LoginFails(t)
  <2> PICK t \in Tabs : ReadCounter(t) \/ ShowRefusal(t) \/ LoggedIn(t) \/ LoginFails(t)
    BY <1>9
  <2>1. UNCHANGED <<queue, refreshing>>
    BY DEF ReadCounter, ShowRefusal, LoggedIn, LoginFails
  <2>2. \A r \in Requests : req'[r] = "waiting" => req[r] = "waiting"
    BY DEF ReadCounter, ShowRefusal, LoggedIn, LoginFails, Settle
  <2>3. \A s \in Tabs : page[s] = "leaving" => page'[s] = "leaving"
    BY DEF ReadCounter, ShowRefusal, LoggedIn, LoginFails
  <2>4. QED BY <2>1, <2>2, <2>3
<1>10. CASE \E t \in Tabs, b \in BOOLEAN : Submit(t, b)
  BY <1>10 DEF Submit
<1>11. CASE WindowEnds \/ UNCHANGED vars
  BY <1>11 DEF WindowEnds, browser, vars
<1>12. QED
  BY <1>1, <1>2, <1>3, <1>4, <1>5, <1>6, <1>7, <1>8, <1>9, <1>10, <1>11
     DEF Next, Answered, TabStep, LoginStep

-----------------------------------------------------------------------------
(***************************************************************************)
(* The login counter.                                                      *)
(***************************************************************************)

\* The logins that have read a counter below the limit.
Passed == {t \in Tabs : login[t] = "passed"}

CounterInv == attempts + Cardinality(Passed) <= RateLimitMax - 1 + Cardinality(Tabs)

LEMMA PassedIsSmall ==
    /\ IsFiniteSet(Passed) /\ Cardinality(Passed) <= Cardinality(Tabs)
    /\ Cardinality(Passed) \in Nat /\ Cardinality(Tabs) \in Nat
BY TabsAreFinite, FS_Subset, FS_CardinalityType DEF Passed

\* Neither the counter nor the logins that may raise it become more.
Fewer == attempts' <= attempts /\ \A t \in Tabs : login'[t] = "passed" => login[t] = "passed"

LEMMA FewerKeepsInv ==
    ASSUME attempts \in Nat, attempts' \in Nat, CounterInv, Fewer
    PROVE  CounterInv'
<1>1. Passed' \subseteq Passed
  BY DEF Passed, Fewer
<1>2. Cardinality(Passed') <= Cardinality(Passed) /\ Cardinality(Passed') \in Nat
  BY <1>1, PassedIsSmall, FS_Subset, FS_CardinalityType
<1>3. QED BY <1>2, PassedIsSmall, RateLimitIsPositive DEF CounterInv, Fewer

LEMMA CounterStep ==
    ASSUME TInv, TInv', CounterInv, [Next]_vars
    PROVE  CounterInv'
<1>0. attempts \in Nat /\ attempts' \in Nat
  BY DEF TInv, Types, CounterTypes
<1> USE LoginOfType, TabOfType DEF TInv, Types, CounterTypes, TabTypes, RequestTypes
<1>1. CASE Fewer
  BY <1>0, <1>1, FewerKeepsInv
<1>2. CASE \E r \in Requests : Send(r) \/ Answer(r) \/ Wait(r) \/ Lead(r)
  BY <1>1, <1>2 DEF Fewer, Send, Answer, Wait, Lead, Unauthorized, counter, logins
<1>3. CASE \E t \in Tabs : Read(t) \/ Rotate(t) \/ CallFails(t) \/ RefreshFailed(t)
                             \/ Revoke(t) \/ EndLogout(t) \/ BeginLogout(t) \/ Reload(t)
  BY <1>1, <1>3 DEF Fewer, Read, Rotate, CallFails, RefreshFailed, Revoke, EndLogout,
                    BeginLogout, Reload, counter, logins
<1>4. CASE \E t \in Tabs : Refreshed(t) \/ SetExpiry(t) \/ ShowRefusal(t) \/ LoggedIn(t)
                             \/ LoginFails(t)
  BY <1>1, <1>4 DEF Fewer, Refreshed, SetExpiry, ShowRefusal, LoggedIn, LoginFails, Settle, counter
<1>5. CASE \E t \in Tabs : Accept(t)
  BY <1>1, <1>5 DEF Fewer, Accept
<1>6. CASE \E t \in Tabs : ReadCounter(t)
  <2> PICK t \in Tabs : ReadCounter(t)
    BY <1>6
  <2>1. CASE MayTry
    <3>1. attempts' = attempts /\ attempts <= RateLimitMax - 1
      BY <1>0, <2>1, RateLimitIsPositive DEF ReadCounter, MayTry, counter
    <3>2. Cardinality(Passed') <= Cardinality(Tabs) /\ Cardinality(Passed') \in Nat
      <4>1. Passed' \subseteq Tabs
        BY DEF Passed
      <4>2. QED BY <4>1, TabsAreFinite, FS_Subset, FS_CardinalityType
    <3>3. QED BY <1>0, <3>1, <3>2, PassedIsSmall, RateLimitIsPositive DEF CounterInv
  <2>2. CASE ~MayTry
    BY <1>1, <2>2 DEF Fewer, ReadCounter, Settle, counter
  <2>3. QED BY <2>1, <2>2
<1>7. CASE \E t \in Tabs : Count(t)
  <2> PICK t \in Tabs : Count(t)
    BY <1>7
  <2>1. Passed' = Passed \ {t} /\ t \in Passed
    BY DEF Passed, Count
  <2>2. Cardinality(Passed') = Cardinality(Passed) - 1
    BY <2>1, PassedIsSmall, FS_RemoveElement
  <2>3. attempts' = attempts + 1
    BY DEF Count
  <2>4. QED BY <1>0, <2>2, <2>3, PassedIsSmall, RateLimitIsPositive DEF CounterInv
<1>8. CASE (\E t \in Tabs, b \in BOOLEAN : Submit(t, b)) \/ UNCHANGED vars
  BY <1>1, <1>8 DEF Fewer, Submit, counter, vars
<1>9. CASE WindowEnds
  BY <1>1, <1>9 DEF Fewer, WindowEnds, logins
<1>10. QED
  BY <1>2, <1>3, <1>4, <1>5, <1>6, <1>7, <1>8, <1>9
     DEF Next, Answered, TabStep, LoginStep

LEMMA TimedStep ==
    ASSUME TInv, CounterIsTimed, [Next]_vars
    PROVE  CounterIsTimed'
<1> USE LoginOfType, TabOfType, BoundsAreNatural
    DEF TInv, Types, TokenTypes, CounterTypes, TabTypes, RequestTypes, CounterIsTimed
<1>1. CASE \E r \in Requests : Send(r) \/ Answer(r) \/ Wait(r) \/ Lead(r)
  BY <1>1 DEF Send, Answer, Wait, Lead, Unauthorized, counter, logins
<1>2. CASE \E t \in Tabs : Read(t) \/ Rotate(t) \/ CallFails(t) \/ RefreshFailed(t)
                             \/ Revoke(t) \/ EndLogout(t) \/ BeginLogout(t) \/ Reload(t)
  BY <1>2 DEF Read, Rotate, CallFails, RefreshFailed, Revoke, EndLogout, BeginLogout, Reload,
              counter, logins
<1>3. CASE \E t \in Tabs : Refreshed(t)
  <2> PICK t \in Tabs : Refreshed(t)
    BY <1>3
  <2>1. \A s \in Tabs : login[s] = "counted" => login'[s] = "counted"
    BY DEF Refreshed, Resumed, Leading, RequestsOf, RequestsFit
  <2>2. QED BY <2>1 DEF Refreshed, counter
<1>4. CASE \E t \in Tabs : Count(t) \/ SetExpiry(t) \/ Accept(t)
  <2>1. CASE \E t \in Tabs : Count(t)
    BY <2>1 DEF Count
  <2>2. CASE \E t \in Tabs : SetExpiry(t)
    <3>1. attempts' = attempts /\ (attempts > 0 => timed')
      BY <2>2, Zenon DEF SetExpiry, Expiry
    <3>2. QED BY <3>1
  <2>3. CASE \E t \in Tabs : Accept(t)
    <3>1. attempts' = 0
      BY <2>3 DEF Accept
    <3>2. QED BY <3>1
  <2>4. QED BY <1>4, <2>1, <2>2, <2>3
<1>5. CASE \E t \in Tabs : ReadCounter(t) \/ ShowRefusal(t) \/ LoggedIn(t) \/ LoginFails(t)
  BY <1>5 DEF ReadCounter, ShowRefusal, LoggedIn, LoginFails, Settle, counter
<1>6. CASE \E t \in Tabs, b \in BOOLEAN : Submit(t, b)
  BY <1>6 DEF Submit, RequestsFit, counter
<1>7. CASE WindowEnds \/ UNCHANGED vars
  BY <1>7 DEF WindowEnds, vars
<1>8. QED
  BY <1>1, <1>2, <1>3, <1>4, <1>5, <1>6, <1>7
     DEF Next, Answered, TabStep, LoginStep

-----------------------------------------------------------------------------
(***************************************************************************)
(* The tokens: one that an answer brings is new to everybody else.         *)
(***************************************************************************)

Fresh(n) ==
    /\ n \notin revoked
    /\ n # cookie
    /\ \A s \in Tabs : n # old[s] /\ n # outOld[s]

FreshTokens ==
    \A t \in Tabs :
        /\ new[t] # None => Fresh(new[t])
        /\ granted[t] # None => Fresh(granted[t])
        /\ \A s \in Tabs :
             /\ new[t] # None => new[t] # granted[s] /\ (s # t => new[t] # new[s])
             /\ granted[t] # None /\ s # t => granted[t] # granted[s]

\* A step that hands out no token and carries none further.
SameTokens ==
    /\ UNCHANGED <<cookie, revoked, outOld>>
    /\ \A t \in Tabs : /\ old'[t] \in {old[t], None}
                       /\ new'[t] \in {new[t], None}
                       /\ granted'[t] \in {granted[t], None}

LEMMA FreshStep ==
    ASSUME TInv, FreshTokens, [Next]_vars
    PROVE  FreshTokens'
<1> USE TabOfType, LoginOfType, NoneIsNoToken
    DEF TInv, Types, TokenTypes, TabTypes, HeldTypes, Tokens
<1>1. CASE SameTokens
  BY <1>1 DEF SameTokens, FreshTokens, Fresh
<1>2. CASE \E r \in Requests : Send(r) \/ Answer(r) \/ Wait(r)
  BY <1>1, <1>2 DEF SameTokens, Send, Answer, Wait, server, logouts, logins
<1>3. CASE \E r \in Requests : Lead(r)
  BY <1>3 DEF Lead, FreshTokens, Fresh, server, logouts
<1>4. CASE \E t \in Tabs : Read(t) \/ CallFails(t) \/ RefreshFailed(t) \/ Reload(t)
  BY <1>1, <1>4 DEF SameTokens, Read, CallFails, RefreshFailed, Reload, browser, server, logouts, logins
<1>5. CASE \E t \in Tabs : Rotate(t)
  <2> PICK t \in Tabs : Rotate(t)
    BY <1>5
  <2>1. CASE UNCHANGED <<server, new>>
    BY <1>1, <2>1 DEF SameTokens, Rotate, browser, server, logouts, logins
  <2>2. CASE ~UNCHANGED <<server, new>>
    <3>1. /\ UNCHANGED <<cookie, old, outOld, granted>>
          /\ revoked' = revoked \cup {old[t]}
          /\ new' = [new EXCEPT ![t] = issued + 1]
      BY <2>2 DEF Rotate, OldToken, browser, server, logouts, logins
    <3>2. /\ issued + 1 \notin revoked /\ issued + 1 # cookie /\ issued + 1 # None
          /\ \A s \in Tabs : issued + 1 \notin {old[s], outOld[s], new[s], granted[s]}
      BY DEF HeldTokens, Known
    <3>3. QED BY <3>1, <3>2 DEF FreshTokens, Fresh
  <2>3. QED BY <2>1, <2>2
<1>6. CASE \E t \in Tabs : Refreshed(t)
  <2> PICK t \in Tabs : Refreshed(t)
    BY <1>6
  <2>1. new[t] # None
    BY DEF Refreshed, CallsCarry
  <2>2. QED BY <2>1 DEF Refreshed, NewCookie, FreshTokens, Fresh, server, logouts
<1>7. CASE \E t \in Tabs : Revoke(t)
  BY <1>7 DEF Revoke, ToRevoke, FreshTokens, Fresh, browser, logins
<1>8. CASE \E t \in Tabs : EndLogout(t)
  BY <1>8 DEF EndLogout, FreshTokens, Fresh, server, logins
<1>9. CASE \E t \in Tabs : BeginLogout(t)
  BY <1>9 DEF BeginLogout, FreshTokens, Fresh, browser, server, logins
<1>10. CASE \E t \in Tabs : ReadCounter(t) \/ Count(t) \/ SetExpiry(t) \/ ShowRefusal(t)
                              \/ LoginFails(t)
  BY <1>1, <1>10 DEF SameTokens, ReadCounter, Count, SetExpiry, ShowRefusal, LoginFails, Settle,
                     browser, server, logouts
<1>11. CASE \E t \in Tabs : Accept(t)
  <2> PICK t \in Tabs : Accept(t)
    BY <1>11
  <2>1. /\ UNCHANGED <<cookie, old, outOld, new, revoked>>
        /\ granted' = [granted EXCEPT ![t] = issued + 1]
    BY DEF Accept, browser, logouts
  <2>2. /\ issued + 1 \notin revoked /\ issued + 1 # cookie /\ issued + 1 # None
        /\ \A s \in Tabs : issued + 1 \notin {old[s], outOld[s], new[s], granted[s]}
    BY DEF HeldTokens, Known
  <2>3. QED BY <2>1, <2>2 DEF FreshTokens, Fresh
<1>12. CASE \E t \in Tabs : LoggedIn(t)
  <2> PICK t \in Tabs : LoggedIn(t)
    BY <1>12
  <2>1. granted[t] # None
    BY DEF LoggedIn, CallsCarry
  <2>2. QED BY <2>1 DEF LoggedIn, FreshTokens, Fresh, server, logouts
<1>13. CASE (\E t \in Tabs, b \in BOOLEAN : Submit(t, b)) \/ WindowEnds \/ UNCHANGED vars
  BY <1>1, <1>13 DEF SameTokens, Submit, WindowEnds, browser, server, logouts, logins, vars
<1>14. QED
  BY <1>2, <1>3, <1>4, <1>5, <1>6, <1>7, <1>8, <1>9, <1>10, <1>11, <1>12, <1>13
     DEF Next, Answered, TabStep, LoginStep

LEMMA CookieStep ==
    ASSUME TInv, FreshTokens, CookieIsGood, [Next]_vars
    PROVE  CookieIsGood'
<1> USE TabOfType, LoginOfType, NoneIsNoToken, BoundsAreNatural
    DEF TInv, Types, TokenTypes, TabTypes, HeldTypes, Tokens, CookieIsGood
<1>1. CASE \E r \in Requests : Send(r) \/ Answer(r) \/ Wait(r)
  BY <1>1 DEF Send, Answer, Wait, server, logouts
<1>2. CASE \E r \in Requests : Lead(r)
  BY <1>2 DEF Lead, FlagsFit, server, logouts
<1>3. CASE \E t \in Tabs : Read(t) \/ CallFails(t) \/ RefreshFailed(t) \/ Reload(t)
  BY <1>3 DEF Read, CallFails, RefreshFailed, Reload, browser, server, logouts
<1>4. CASE \E t \in Tabs : Rotate(t)
  BY <1>4 DEF Rotate, OldToken, browser, server, logouts
<1>5. CASE \E t \in Tabs : Refreshed(t)
  BY <1>5 DEF Refreshed, NewCookie, CallsCarry, FreshTokens, Fresh, server
<1>6. CASE \E t \in Tabs : Revoke(t)
  BY <1>6 DEF Revoke, ToRevoke, browser
<1>7. CASE \E t \in Tabs : EndLogout(t)
  BY <1>7 DEF EndLogout, server
<1>8. CASE \E t \in Tabs : BeginLogout(t)
  BY <1>8 DEF BeginLogout, browser, server
<1>9. CASE \E t \in Tabs : ReadCounter(t) \/ Count(t) \/ SetExpiry(t) \/ ShowRefusal(t)
                             \/ LoginFails(t) \/ Accept(t)
  BY <1>9 DEF ReadCounter, Count, SetExpiry, ShowRefusal, LoginFails, Accept,
              browser, server, logouts
<1>10. CASE \E t \in Tabs : LoggedIn(t)
  BY <1>10 DEF LoggedIn, CallsCarry, FreshTokens, Fresh, server
<1>11. CASE (\E t \in Tabs, b \in BOOLEAN : Submit(t, b)) \/ WindowEnds \/ UNCHANGED vars
  BY <1>11 DEF Submit, WindowEnds, browser, server, logouts, vars
<1>12. QED
  BY <1>1, <1>2, <1>3, <1>4, <1>5, <1>6, <1>7, <1>8, <1>9, <1>10, <1>11
     DEF Next, Answered, TabStep, LoginStep

-----------------------------------------------------------------------------
(***************************************************************************)
(* The reasons to leave for the login page.                                *)
(***************************************************************************)

\* Calls that are under way together have met.
Met ==
    \A t \in Tabs : call[t] # "none" =>
        /\ \A s \in Tabs \ {t} : call[s] # "none" => overlapped[t]
        /\ \A s \in Tabs : out[s] # "none" => overlapped[t]

\* Why a refresh is about to be refused, or has been.
Refusals ==
    faults = 0 => \A t \in Tabs :
        /\ call[t] = "sent" /\ old[t] \in revoked => overlapped[t]
        /\ call[t] = "bad" => old[t] = None \/ overlapped[t]

\* The calls stay as they are, or end.
SameCalls ==
    /\ UNCHANGED <<revoked, overlapped, old>>
    /\ faults' \in Nat /\ faults' >= faults
    /\ \A t \in Tabs : call'[t] = call[t] /\ out'[t] \in {out[t], "none"}

LEMMA SameCallsStep ==
    ASSUME TInv, Met, Refusals, SameCalls
    PROVE  Met' /\ Refusals'
BY DEF TInv, Types, TokenTypes, SameCalls, Met, Refusals

LEMMA RefusalsStep ==
    ASSUME TInv, CookieIsGood, Met, Refusals, [Next]_vars
    PROVE  Met' /\ Refusals'
<1> USE TabOfType, LoginOfType, NoneIsNoToken, BoundsAreNatural
    DEF TInv, Types, TokenTypes, TabTypes, HeldTypes, Tokens
<1>1. CASE SameCalls
  BY <1>1, SameCallsStep
<1>2. CASE \E r \in Requests : Send(r) \/ Answer(r) \/ Wait(r)
  BY <1>1, <1>2 DEF SameCalls, Send, Answer, Wait, server, logouts
<1>3. CASE \E r \in Requests : Lead(r)
  <2> PICK r \in Requests : Lead(r)
    BY <1>3
  <2> DEFINE t == TabOf[r]
  <2>1. /\ t \in Tabs /\ call[t] = "none" /\ UNCHANGED <<revoked, out, faults>>
        /\ call' = [call EXCEPT ![t] = "sent"] /\ old' = [old EXCEPT ![t] = cookie]
    BY DEF Lead, FlagsFit, server, logouts
  <2>2. /\ overlapped'[t] <=> \E x \in Tabs : out[x] # "none" \/ (x # t /\ call[x] # "none")
        /\ \A s \in Tabs \ {t} : overlapped'[s] <=> overlapped[s] \/ call[s] # "none"
    BY <2>1 DEF Lead, Meet
  <2> HIDE DEF t
  <2>3. Met'
    BY <2>1, <2>2 DEF Met
  <2>4. Refusals'
    <3> SUFFICES ASSUME faults = 0, NEW s \in Tabs
                 PROVE  /\ call'[s] = "sent" /\ old'[s] \in revoked => overlapped'[s]
                        /\ call'[s] = "bad" => old'[s] = None \/ overlapped'[s]
      BY <2>1 DEF Refusals
    <3>1. CASE s = t
      BY <2>1, <2>2, <3>1 DEF CookieIsGood
    <3>2. CASE s # t
      BY <2>1, <2>2, <3>2 DEF Refusals
    <3>3. QED BY <3>1, <3>2
  <2>5. QED BY <2>3, <2>4
<1>4. CASE \E t \in Tabs : Read(t)
  <2> PICK t \in Tabs : Read(t)
    BY <1>4
  <2>1. /\ UNCHANGED <<revoked, old, out, overlapped, faults>>
        /\ \A s \in Tabs : call'[s] = "none" <=> call[s] = "none"
        /\ \A s \in Tabs \ {t} : call'[s] = call[s]
        /\ call[t] = "sent" /\ call'[t] # "sent"
        /\ call'[t] = "bad" => old[t] = None \/ old[t] \in revoked
    BY DEF Read, server, logouts
  <2>2. QED BY <2>1 DEF Met, Refusals
<1>5. CASE \E t \in Tabs : Rotate(t)
  <2> PICK t \in Tabs : Rotate(t)
    BY <1>5
  <2>1. /\ UNCHANGED <<old, out, overlapped, faults>>
        /\ revoked' \subseteq revoked \cup {old[t]}
        /\ call[t] = "read" /\ call'[t] \in {"good", "bound"}
        /\ \A s \in Tabs \ {t} : call'[s] = call[s]
    BY DEF Rotate, OldToken, server, logouts
  <2>2. Met'
    BY <2>1 DEF Met
  <2>3. \A s \in Tabs : call'[s] = "sent" => overlapped[s]
    BY <2>1 DEF Met
  <2>4. QED BY <2>1, <2>2, <2>3 DEF Refusals
<1>6. CASE \E t \in Tabs : Refreshed(t) \/ RefreshFailed(t)
  <2> PICK t \in Tabs : Refreshed(t) \/ RefreshFailed(t)
    BY <1>6
  <2>1. /\ UNCHANGED <<revoked, out, faults>>
        /\ call'[t] = "none"
        /\ \A s \in Tabs \ {t} : /\ call'[s] = call[s] /\ old'[s] = old[s]
                                 /\ overlapped'[s] = overlapped[s]
    BY DEF Refreshed, RefreshFailed, server, logouts
  <2>2. Met'
    BY <2>1 DEF Met
  <2>3. Refusals'
    <3> SUFFICES ASSUME faults = 0, NEW s \in Tabs, call'[s] # "none"
                 PROVE  /\ call'[s] = "sent" /\ old'[s] \in revoked => overlapped'[s]
                        /\ call'[s] = "bad" => old'[s] = None \/ overlapped'[s]
      BY <2>1 DEF Refusals
    <3>1. s # t
      BY <2>1
    <3>2. QED BY <2>1, <3>1 DEF Refusals
  <2>4. QED BY <2>2, <2>3
<1>7. CASE \E t \in Tabs : CallFails(t)
  <2> PICK t \in Tabs : CallFails(t)
    BY <1>7
  <2>1. faults' # 0 /\ UNCHANGED <<out, overlapped>>
    BY DEF CallFails, logouts
  <2>2. \A s \in Tabs : call'[s] # "none" => call[s] # "none"
    BY DEF CallFails
  <2>3. QED BY <2>1, <2>2 DEF Met, Refusals
<1>8. CASE \E t \in Tabs : Revoke(t)
  <2> PICK t \in Tabs : Revoke(t)
    BY <1>8
  <2>1. /\ UNCHANGED <<call, old, overlapped, faults>> /\ out[t] # "none"
        /\ \A s \in Tabs : out'[s] # "none" => out[s] # "none"
    BY DEF Revoke
  <2>2. Met'
    BY <2>1 DEF Met
  <2>3. QED BY <2>1, <2>2 DEF Met, Refusals
<1>9. CASE \E t \in Tabs : BeginLogout(t)
  <2> PICK t \in Tabs : BeginLogout(t)
    BY <1>9
  <2>1. /\ UNCHANGED <<call, old, revoked, faults>>
        /\ \A s \in Tabs : overlapped'[s] <=> overlapped[s] \/ call[s] # "none"
    BY DEF BeginLogout, server
  <2>2. QED BY <2>1 DEF Met, Refusals
<1>10. CASE \E t \in Tabs : EndLogout(t)
  BY <1>1, <1>10 DEF SameCalls, EndLogout, server
<1>11. CASE \E t \in Tabs : Reload(t) \/ ReadCounter(t) \/ Count(t) \/ SetExpiry(t)
                              \/ ShowRefusal(t) \/ LoginFails(t) \/ Accept(t) \/ LoggedIn(t)
  BY <1>1, <1>11 DEF SameCalls, Reload, ReadCounter, Count, SetExpiry, ShowRefusal, LoginFails,
                     Accept, LoggedIn, server, logouts
<1>12. CASE (\E t \in Tabs, b \in BOOLEAN : Submit(t, b)) \/ WindowEnds \/ UNCHANGED vars
  BY <1>1, <1>12 DEF SameCalls, Submit, WindowEnds, server, logouts, vars
<1>13. QED
  BY <1>2, <1>3, <1>4, <1>5, <1>6, <1>7, <1>8, <1>9, <1>10, <1>11, <1>12
     DEF Next, Answered, TabStep, LoginStep

\* Only a failed refresh leaves the page.
LEMMA LeaveStep ==
    ASSUME TInv, Refusals, [Next]_vars, NEW t \in Tabs, page[t] # "leaving", page'[t] = "leaving"
    PROVE  old[t] = None \/ faults > 0 \/ overlapped[t] \/ call[t] = "bound"
<1> USE BoundsAreNatural DEF TInv, Types, TokenTypes, TabTypes
<1>1. CASE RefreshFailed(t)
  BY <1>1 DEF RefreshFailed, Refusals
<1>2. CASE \E r \in Requests : Send(r) \/ Answer(r) \/ Wait(r) \/ Lead(r)
  BY <1>2 DEF Send, Answer, Wait, Lead
<1>3. CASE \E s \in Tabs : Read(s) \/ Rotate(s) \/ Refreshed(s) \/ Revoke(s) \/ EndLogout(s)
                             \/ CallFails(s) \/ Reload(s) \/ BeginLogout(s)
  BY <1>3 DEF Read, Rotate, Refreshed, Revoke, EndLogout, ToLogin, CallFails, Reload, BeginLogout,
              browser
<1>4. CASE \E s \in Tabs : ReadCounter(s) \/ Count(s) \/ SetExpiry(s) \/ ShowRefusal(s)
                             \/ LoginFails(s) \/ Accept(s) \/ LoggedIn(s)
  BY <1>4 DEF ReadCounter, Count, SetExpiry, ShowRefusal, LoginFails, Accept, LoggedIn, browser
<1>5. CASE (\E s \in Tabs, b \in BOOLEAN : Submit(s, b)) \/ WindowEnds \/ UNCHANGED vars
  BY <1>5 DEF Submit, WindowEnds, browser, vars
<1>6. CASE \E s \in Tabs \ {t} : RefreshFailed(s)
  BY <1>6 DEF RefreshFailed
<1>7. QED
  BY <1>1, <1>2, <1>3, <1>4, <1>5, <1>6
     DEF Next, Answered, TabStep, LoginStep

-----------------------------------------------------------------------------
(***************************************************************************)
(* The theorems.                                                           *)
(***************************************************************************)

IInv ==
    /\ TInv
    /\ LeadersFit /\ NobodyWaitsInVain
    /\ FreshTokens /\ CookieIsGood
    /\ Met /\ Refusals
    /\ CounterInv /\ CounterIsTimed

LEMMA InitIInv == Init => IInv
<1> SUFFICES ASSUME Init PROVE IInv
  OBVIOUS
<1> USE DEF Init
<1>1. TInv
  BY InitTypes
<1>2. LeadersFit /\ NobodyWaitsInVain
  BY TabOfType DEF LeadersFit, NobodyWaitsInVain
<1>3. FreshTokens /\ CookieIsGood /\ Met /\ Refusals /\ CounterIsTimed
  BY DEF FreshTokens, CookieIsGood, Met, Refusals, CounterIsTimed
<1>4. CounterInv
  BY PassedIsSmall, RateLimitIsPositive DEF CounterInv
<1>5. QED BY <1>1, <1>2, <1>3, <1>4 DEF IInv

LEMMA IInvStep == IInv /\ [Next]_vars => IInv'
<1> SUFFICES ASSUME IInv, [Next]_vars PROVE IInv'
  OBVIOUS
<1> USE DEF IInv
<1>1. TInv'
  BY TypesStep
<1>2. LeadersFit' /\ NobodyWaitsInVain'
  BY LeadersStep, WaitStep
<1>3. FreshTokens' /\ CookieIsGood'
  BY FreshStep, CookieStep
<1>4. Met' /\ Refusals'
  BY RefusalsStep
<1>5. CounterInv' /\ CounterIsTimed'
  BY <1>1, CounterStep, TimedStep
<1>6. QED BY <1>1, <1>2, <1>3, <1>4, <1>5

\* IInv holds of every state of the specification.
LEMMA Invariance == Spec => []IInv
BY InitIInv, IInvStep, PTL DEF Spec

\* Every variable has its type, for any tabs and requests.
THEOREM TypeCorrect == Spec => []TypeOK
<1>1. IInv => TypeOK
  BY TypesAreTypeOK DEF IInv, TInv
<1>2. QED BY <1>1, Invariance, PTL

\* The interceptor (client.ts:43-73): a tab has one refresh under way or none,
\* led by one request, and only behind it a request waits.
THEOREM OneRefresh == Spec => []QueueBehindOneRefresh
<1>1. IInv => QueueBehindOneRefresh
  BY LeadersAreOne DEF IInv
<1>2. QED BY <1>1, Invariance, PTL

\* The interceptor's queue (client.ts:29-51): who waits will be sent again, or
\* the page is being left.
THEOREM WaitersAreResumed == Spec => []NobodyWaitsInVain
<1>1. IInv => NobodyWaitsInVain
  BY DEF IInv
<1>2. QED BY <1>1, Invariance, PTL

\* Rotation (auth_service.py:53-63) and the answers that set the cookie, in
\* any order: without a failure the cookie is good or about to be replaced.
THEOREM CookieStaysGood == Spec => []CookieIsGood
<1>1. IInv => CookieIsGood
  BY DEF IInv
<1>2. QED BY <1>1, Invariance, PTL

\* The login counter (auth.py:31-42): handlers that overlap exceed the limit
\* by at most the number of those that can overlap, minus one.
THEOREM LoginOvershoot == Spec => []LoginOvershootBounded
<1>1. IInv => LoginOvershootBounded
  <2> SUFFICES ASSUME IInv PROVE LoginOvershootBounded
    OBVIOUS
  <2>1. attempts \in Nat /\ CounterInv
    BY DEF IInv, TInv, Types, CounterTypes
  <2>2. QED BY <2>1, PassedIsSmall, RateLimitIsPositive DEF CounterInv, LoginOvershootBounded
<1>2. QED BY <1>1, Invariance, PTL

\* The login counter (auth.py:41-42): unless something failed between INCR and
\* EXPIRE, a lock-out ends.
THEOREM CounterHasExpiry == Spec => []CounterIsTimed
<1>1. IInv => CounterIsTimed
  BY DEF IInv
<1>2. QED BY <1>1, Invariance, PTL

\* The catch branch (client.ts:67-73) is taken for a reason: no cookie, a call
\* that failed, or a refresh that overlapped with another call.
THEOREM LeavingHasAReason == Spec => LeavesForAReason
<1>1. IInv /\ [Next]_vars =>
        [\A t \in Tabs : page[t] # "leaving" /\ page'[t] = "leaving" =>
           old[t] = None \/ faults > 0 \/ overlapped[t] \/ call[t] = "bound"]_vars
  BY LeaveStep DEF IInv
<1>2. QED BY <1>1, Invariance, PTL DEF Spec, LeavesForAReason
=============================================================================
