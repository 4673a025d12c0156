------------------------- MODULE TelegramLinkProofs --------------------------
(***************************************************************************)
(* Proofs about TelegramLink, for any users, chats, codes, targets and     *)
(* handlers.  The invariant IInv says of each handler in progress what it  *)
(* may rely on after an await: that its code was made for its user, that   *)
(* the code is gone once it has been deleted, that its chat brought it.    *)
(***************************************************************************)
EXTENDS TelegramLink, FiniteSetTheorems, TLAPS

\* Handlers of /start that have read their code.
Starting(h) == pc[h] \in {"delete", "load", "link"}

HandlerOk(h) ==
    /\ Starting(h) =>
          /\ arg[h] \in Codes /\ user[h] \in Users /\ chat[h] \in Chats
          /\ issued[arg[h]] = user[h]
          /\ <<chat[h], arg[h]>> \in said
          /\ pc[h] # "delete" => stored[arg[h]] = None
    /\ pc[h] \in {"follow", "unfollow"} =>
          /\ arg[h] \in Targets /\ user[h] \in Users /\ chat[h] \in Chats
          /\ <<user[h], chat[h]>> \in links
          /\ <<chat[h], arg[h]>> \in said
    /\ pc[h] = "unlink" => user[h] \in Users

HandlersInv == \A h \in Handlers : HandlerOk(h)

CodeInv ==
    \A c \in Codes :
        /\ stored[c] # None => stored[c] = issued[c] /\ uses[c] = 0
        /\ issued[c] = None => uses[c] = 0

ChatInv == \A u \in Users : chatOf[u] # None => <<u, chatOf[u]>> \in links

\* The handlers that may still link by the code c.
Working(c) == {h \in Handlers : Starting(h) /\ arg[h] = c}

UseInv == \A c \in Codes : uses[c] + Cardinality(Working(c)) <= Cardinality(Handlers)

StoresInv   == CodeInv /\ ChatInv /\ OneUserPerChat /\ LinkedByOwnCode /\ FollowedByOwner

IInv == TypeOK /\ HandlersInv /\ StoresInv

-----------------------------------------------------------------------------

LEMMA InitIInv == Init => IInv
BY NoneIsNobody
   DEF Init, IInv, TypeOK, HandlersInv, HandlerOk, Starting, StoresInv,
       CodeInv, ChatInv, OneUserPerChat, LinkedByOwnCode, FollowedByOwner

\* The handlers that a step does not move.
Unmoved(g) ==
    pc'[g] = pc[g] /\ chat'[g] = chat[g] /\ arg'[g] = arg[g] /\ user'[g] = user[g]

\* A step takes nothing away from them that they rely on.
Grows ==
    /\ issued' = issued
    /\ said \subseteq said'
    /\ links \subseteq links'
    /\ \A c \in Codes : stored[c] = None => stored'[c] = None

LEMMA OneMoves ==
    ASSUME HandlersInv, Grows, NEW h \in Handlers,
           \A g \in Handlers \ {h} : Unmoved(g), HandlerOk(h)'
    PROVE  HandlersInv'
<1> SUFFICES ASSUME NEW g \in Handlers, g # h
             PROVE  HandlerOk(g)'
  BY DEF HandlersInv
<1>1. HandlerOk(g) /\ Unmoved(g)
  BY DEF HandlersInv
<1>2. QED BY <1>1 DEF HandlerOk, Starting, Unmoved, Grows

LEMMA NoneMoves ==
    ASSUME HandlersInv, Grows, \A g \in Handlers : Unmoved(g)
    PROVE  HandlersInv'
BY DEF HandlersInv, HandlerOk, Starting, Unmoved, Grows

LocalTypes ==
    /\ pc     \in [Handlers -> {"idle", "delete", "load", "link", "unlink", "follow", "unfollow"}]
    /\ chat   \in [Handlers -> Chats \cup {None}]
    /\ arg    \in [Handlers -> Codes \cup Targets \cup {None}]
    /\ user   \in [Handlers -> Users \cup {None}]
    /\ loaded \in [Handlers -> Chats \cup {None}]

LEMMA DoneLocal ==
    ASSUME TypeOK, NEW h \in Handlers, Done(h)
    PROVE  /\ LocalTypes'
           /\ \A g \in Handlers \ {h} : Unmoved(g)
           /\ HandlerOk(h)'
<1>1. LocalTypes'
  BY DEF TypeOK, LocalTypes, Done, Goto
<1>2. \A g \in Handlers \ {h} : Unmoved(g)
  BY DEF TypeOK, Done, Goto, Unmoved
<1>3. pc'[h] = "idle"
  BY DEF TypeOK, Done, Goto
<1>4. QED BY <1>1, <1>2, <1>3 DEF HandlerOk, Starting

\* A message is added and nothing else changes in the stores.
LEMMA Said ==
    ASSUME StoresInv, NEW t, NEW m, said' = said \cup {<<t, m>>},
           UNCHANGED <<stored, issued, chatOf, tracked, links, uses>>
    PROVE  StoresInv'
BY DEF StoresInv, CodeInv, ChatInv, OneUserPerChat, LinkedByOwnCode, FollowedByOwner

-----------------------------------------------------------------------------
(***************************************************************************)
(* One lemma per action, with a step for each part that it can disturb.    *)
(***************************************************************************)

LEMMA GenerateCodeStep ==
    ASSUME IInv, NEW u \in Users, NEW c \in Codes, GenerateCode(u, c)
    PROVE  IInv'
<1> USE DEF GenerateCode, IInv, local, history
<1>1. TypeOK'
  BY DEF TypeOK
<1>2. HandlersInv'
  <2> SUFFICES ASSUME NEW h \in Handlers PROVE HandlerOk(h)'
    BY DEF HandlersInv
  <2>1. HandlerOk(h)
    BY DEF HandlersInv
  <2>2. Starting(h) => arg[h] # c
    BY <2>1, NoneIsNobody DEF HandlerOk
  <2>3. QED BY <2>1, <2>2 DEF TypeOK, HandlerOk, Starting
<1>3. StoresInv'
  <2>1. uses[c] = 0
    BY DEF StoresInv, CodeInv
  <2>2. CodeInv'
    BY <2>1, NoneIsNobody DEF TypeOK, StoresInv, CodeInv
  <2>3. LinkedByOwnCode'
    <3> SUFFICES ASSUME NEW v \in Users, chatOf[v] # None
                 PROVE  \E d \in Codes : issued'[d] = v /\ <<chatOf[v], d>> \in said
      BY DEF LinkedByOwnCode
    <3>1. PICK d \in Codes : issued[d] = v /\ <<chatOf[v], d>> \in said
      BY DEF StoresInv, LinkedByOwnCode
    <3>2. issued'[d] = v
      BY <3>1, NoneIsNobody DEF TypeOK
    <3>3. QED BY <3>1, <3>2
  <2>4. (ChatInv /\ OneUserPerChat /\ FollowedByOwner)'
    BY DEF StoresInv, ChatInv, OneUserPerChat, FollowedByOwner
  <2>5. QED BY <2>2, <2>3, <2>4 DEF StoresInv
<1>4. QED BY <1>1, <1>2, <1>3

LEMMA ExpireStep ==
    ASSUME IInv, NEW c \in Codes, Expire(c)
    PROVE  IInv'
<1> USE DEF Expire, IInv, local, history
<1>1. TypeOK'
  BY DEF TypeOK
<1>2. HandlersInv'
  BY NoneMoves DEF TypeOK, Grows, Unmoved
<1>3. StoresInv'
  BY DEF TypeOK, StoresInv, CodeInv, ChatInv, OneUserPerChat, LinkedByOwnCode, FollowedByOwner
<1>4. QED BY <1>1, <1>2, <1>3

LEMMA BeginStartStep ==
    ASSUME IInv, NEW h \in Handlers, NEW t \in Chats, NEW c \in Codes, BeginStart(h, t, c)
    PROVE  IInv'
<1> USE DEF IInv
<1>1. StoresInv'
  BY Said DEF BeginStart, Receive
<1>2. Grows
  BY DEF BeginStart, Receive, Grows
<1>3. CASE Done(h)
  <2>1. TypeOK'
    BY <1>3, DoneLocal DEF BeginStart, Receive, TypeOK, LocalTypes
  <2>2. HandlersInv'
    BY <1>2, <1>3, DoneLocal, OneMoves
  <2>3. QED BY <1>1, <2>1, <2>2
<1>4. CASE /\ stored[c] # None
           /\ Continue(h, "delete", t, c)
           /\ Remember(h, stored[c])
           /\ UNCHANGED loaded
  <2>1. TypeOK'
    BY <1>4 DEF BeginStart, Receive, Continue, Remember, Goto, TypeOK
  <2>2. \A g \in Handlers \ {h} : Unmoved(g)
    BY <1>4 DEF Continue, Remember, Goto, TypeOK, Unmoved
  <2>3. /\ pc'[h] = "delete" /\ arg'[h] = c /\ chat'[h] = t /\ user'[h] = stored[c]
        /\ stored[c] = issued[c] /\ stored[c] \in Users
        /\ <<t, c>> \in said' /\ issued' = issued
    BY <1>4 DEF BeginStart, Receive, Continue, Remember, Goto, TypeOK, StoresInv, CodeInv
  <2>4. HandlerOk(h)'
    BY <2>3 DEF HandlerOk, Starting
  <2>5. HandlersInv'
    BY <1>2, <2>2, <2>4, OneMoves
  <2>6. QED BY <1>1, <2>1, <2>5
<1>5. QED BY <1>3, <1>4 DEF BeginStart

LEMMA DeleteStep ==
    ASSUME IInv, NEW h \in Handlers, Delete(h)
    PROVE  IInv'
<1> USE DEF Delete, Spend, Goto, IInv, history
<1>0. HandlerOk(h) /\ Starting(h)
  BY DEF HandlersInv, Starting
<1>1. TypeOK'
  BY DEF TypeOK
<1>2. HandlersInv'
  <2>1. Grows /\ \A g \in Handlers \ {h} : Unmoved(g)
    BY DEF TypeOK, Grows, Unmoved
  <2>2. pc'[h] = "load" /\ stored'[arg[h]] = None
    BY <1>0 DEF TypeOK, HandlerOk
  <2>3. HandlerOk(h)'
    BY <1>0, <2>2 DEF HandlerOk, Starting
  <2>4. QED BY <2>1, <2>3, OneMoves
<1>3. StoresInv'
  BY DEF TypeOK, StoresInv, CodeInv, ChatInv, OneUserPerChat, LinkedByOwnCode, FollowedByOwner
<1>4. QED BY <1>1, <1>2, <1>3

LEMMA LoadStep ==
    ASSUME IInv, NEW h \in Handlers, Load(h)
    PROVE  IInv'
<1> USE DEF Load, LoadedChat, Goto, IInv, history
<1>0. HandlerOk(h) /\ Starting(h)
  BY DEF HandlersInv, Starting
<1>1. TypeOK'
  BY <1>0 DEF TypeOK, HandlerOk
<1>2. HandlersInv'
  <2>1. Grows /\ \A g \in Handlers \ {h} : Unmoved(g)
    BY DEF TypeOK, Grows, Unmoved
  <2>2. pc'[h] = "link"
    BY DEF TypeOK
  <2>3. HandlerOk(h)'
    BY <1>0, <2>2 DEF HandlerOk, Starting
  <2>4. QED BY <2>1, <2>3, OneMoves
<1>3. StoresInv'
  BY DEF StoresInv, CodeInv, ChatInv, OneUserPerChat, LinkedByOwnCode, FollowedByOwner
<1>4. QED BY <1>1, <1>2, <1>3

LEMMA LinkStep ==
    ASSUME IInv, NEW h \in Handlers, Link(h)
    PROVE  IInv'
<1> USE DEF Link, IInv
<1>0. /\ arg[h] \in Codes /\ user[h] \in Users /\ chat[h] \in Chats
      /\ issued[arg[h]] = user[h]
      /\ <<chat[h], arg[h]>> \in said
      /\ stored[arg[h]] = None
  BY DEF HandlersInv, HandlerOk, Starting
<1>1. TypeOK'
  <2>1. LocalTypes'
    BY DoneLocal
  <2>2. chatOf' \in [Users -> Chats \cup {None}]
    BY <1>0 DEF TypeOK
  <2>3. links' \in SUBSET (Users \X Chats)
    BY <1>0 DEF TypeOK
  <2>4. uses' \in [Codes -> Nat]
    <3>1. uses' = uses \/ uses' = [uses EXCEPT ![arg[h]] = @ + 1]
      OBVIOUS
    <3>2. QED BY <1>0, <3>1 DEF TypeOK
  <2>5. QED BY <2>1, <2>2, <2>3, <2>4 DEF TypeOK, LocalTypes
<1>2. HandlersInv'
  <2>1. Grows
    BY DEF Grows
  <2>2. QED BY <2>1, DoneLocal, OneMoves
<1>3. CodeInv'
  BY <1>0, NoneIsNobody DEF TypeOK, StoresInv, CodeInv
<1>4. ChatInv'
  BY <1>0 DEF TypeOK, StoresInv, ChatInv
<1>5. OneUserPerChat'
  BY <1>0 DEF TypeOK, StoresInv, OneUserPerChat, UniqueOk
<1>6. LinkedByOwnCode'
  <2> SUFFICES ASSUME NEW v \in Users, chatOf'[v] # None
               PROVE  \E c \in Codes : issued[c] = v /\ <<chatOf'[v], c>> \in said
    BY DEF LinkedByOwnCode
  <2>1. CASE chatOf'[v] = chatOf[v]
    BY <2>1 DEF StoresInv, LinkedByOwnCode
  <2>2. CASE v = user[h] /\ chatOf'[v] = chat[h]
    BY <1>0, <2>2
  <2>3. QED BY <2>1, <2>2 DEF TypeOK
<1>7. FollowedByOwner'
  BY DEF TypeOK, StoresInv, FollowedByOwner
<1>8. QED BY <1>1, <1>2, <1>3, <1>4, <1>5, <1>6, <1>7 DEF StoresInv

LEMMA BeginUnlinkStep ==
    ASSUME IInv, NEW h \in Handlers, NEW u \in Users, BeginUnlink(h, u)
    PROVE  IInv'
<1> USE DEF BeginUnlink, Remember, Goto, IInv, history
<1>1. TypeOK'
  BY DEF TypeOK
<1>2. HandlersInv'
  <2>1. Grows /\ \A g \in Handlers \ {h} : Unmoved(g)
    BY DEF TypeOK, Grows, Unmoved
  <2>2. pc'[h] = "unlink" /\ user'[h] = u
    BY DEF TypeOK
  <2>3. HandlerOk(h)'
    BY <2>2 DEF HandlerOk, Starting
  <2>4. QED BY <2>1, <2>3, OneMoves
<1>3. StoresInv'
  BY DEF StoresInv, CodeInv, ChatInv, OneUserPerChat, LinkedByOwnCode, FollowedByOwner
<1>4. QED BY <1>1, <1>2, <1>3

LEMMA UnlinkStep ==
    ASSUME IInv, NEW h \in Handlers, Unlink(h)
    PROVE  IInv'
<1> USE DEF Unlink, IInv, history
<1>1. TypeOK'
  <2>1. LocalTypes'
    BY DoneLocal
  <2>2. QED BY <2>1 DEF TypeOK, LocalTypes
<1>2. HandlersInv'
  <2>1. Grows
    BY DEF Grows
  <2>2. QED BY <2>1, DoneLocal, OneMoves
<1>3. StoresInv'
  <2>1. \A u \in Users : chatOf'[u] \in {chatOf[u], None}
    BY DEF TypeOK
  <2>2. QED
    BY <2>1 DEF StoresInv, CodeInv, ChatInv, OneUserPerChat, LinkedByOwnCode, FollowedByOwner
<1>4. QED BY <1>1, <1>2, <1>3

LEMMA CommandStep ==
    ASSUME IInv, NEW h \in Handlers, NEW command \in {"follow", "unfollow"},
           NEW t \in Chats, NEW x \in Targets, BeginCommand(h, command, t, x)
    PROVE  IInv'
<1> USE DEF IInv
<1>1. StoresInv'
  BY Said DEF BeginCommand, Receive
<1>2. Grows
  BY DEF BeginCommand, Receive, Grows
<1>3. CASE Done(h)
  <2>1. TypeOK'
    BY <1>3, DoneLocal DEF BeginCommand, Receive, TypeOK, LocalTypes
  <2>2. HandlersInv'
    BY <1>2, <1>3, DoneLocal, OneMoves
  <2>3. QED BY <1>1, <2>1, <2>2
<1>4. CASE \E u \in Linked(t) :
             /\ Continue(h, command, t, x)
             /\ Remember(h, u)
             /\ UNCHANGED loaded
  <2> PICK u \in Linked(t) :
             /\ Continue(h, command, t, x)
             /\ Remember(h, u)
             /\ UNCHANGED loaded
    BY <1>4
  <2>0. u \in Users /\ chatOf[u] = t
    BY DEF Linked
  <2>1. TypeOK'
    BY <2>0 DEF BeginCommand, Receive, Continue, Remember, Goto, TypeOK
  <2>2. \A g \in Handlers \ {h} : Unmoved(g)
    BY DEF Continue, Remember, Goto, TypeOK, Unmoved
  <2>3. /\ pc'[h] = command /\ arg'[h] = x /\ chat'[h] = t /\ user'[h] = u
        /\ <<t, x>> \in said' /\ links' = links
    BY DEF BeginCommand, Receive, Continue, Remember, Goto, TypeOK
  <2>4. <<u, t>> \in links
    BY <2>0, NoneIsNobody DEF StoresInv, ChatInv
  <2>5. HandlerOk(h)'
    BY <2>0, <2>3, <2>4 DEF HandlerOk, Starting
  <2>6. HandlersInv'
    BY <1>2, <2>2, <2>5, OneMoves
  <2>7. QED BY <1>1, <2>1, <2>6
<1>5. QED BY <1>3, <1>4 DEF BeginCommand

LEMMA TrackStep ==
    ASSUME IInv, NEW h \in Handlers, Follow(h) \/ Unfollow(h)
    PROVE  IInv'
<1> USE DEF IInv
<1>0. /\ arg[h] \in Targets /\ user[h] \in Users /\ chat[h] \in Chats
      /\ <<user[h], chat[h]>> \in links
      /\ <<chat[h], arg[h]>> \in said
  BY DEF HandlersInv, HandlerOk, Follow, Unfollow
<1>1. PICK state \in {"active", "inactive"} : SetTracked(h, state)
  BY DEF Follow, Unfollow
<1>2. TypeOK'
  <2>1. LocalTypes'
    BY <1>1, DoneLocal DEF SetTracked
  <2>2. tracked' \in [Users -> [Targets -> {"absent", "active", "inactive"}]]
    BY <1>0, <1>1 DEF SetTracked, TypeOK
  <2>3. QED BY <1>1, <2>1, <2>2 DEF SetTracked, TypeOK, LocalTypes, history
<1>3. HandlersInv'
  <2>1. Grows
    BY <1>1 DEF SetTracked, Grows, history
  <2>2. QED BY <1>1, <2>1, DoneLocal, OneMoves DEF SetTracked
<1>4. FollowedByOwner'
  <2> SUFFICES ASSUME NEW u \in Users, NEW x \in Targets, tracked'[u][x] # "absent"
               PROVE  \E t \in Chats : <<u, t>> \in links /\ <<t, x>> \in said
    BY <1>1 DEF FollowedByOwner, SetTracked, history
  <2>1. CASE u = user[h] /\ x = arg[h]
    BY <1>0, <2>1
  <2>2. CASE ~ (u = user[h] /\ x = arg[h])
    <3>1. tracked'[u][x] = tracked[u][x]
      BY <1>0, <1>1, <2>2 DEF SetTracked, TypeOK
    <3>2. QED BY <3>1 DEF StoresInv, FollowedByOwner
  <2>3. QED BY <2>1, <2>2
<1>5. (CodeInv /\ ChatInv /\ OneUserPerChat /\ LinkedByOwnCode)'
  BY <1>1 DEF SetTracked, history, StoresInv, CodeInv, ChatInv, OneUserPerChat, LinkedByOwnCode
<1>6. QED BY <1>2, <1>3, <1>4, <1>5 DEF StoresInv

LEMMA FailStep ==
    ASSUME IInv, NEW h \in Handlers, Fail(h)
    PROVE  IInv'
<1> USE DEF Fail, IInv, history
<1>1. TypeOK'
  <2>1. LocalTypes'
    BY DoneLocal
  <2>2. QED BY <2>1 DEF TypeOK, LocalTypes
<1>2. HandlersInv'
  <2>1. Grows
    BY DEF Grows
  <2>2. QED BY <2>1, DoneLocal, OneMoves
<1>3. StoresInv'
  BY DEF StoresInv, CodeInv, ChatInv, OneUserPerChat, LinkedByOwnCode, FollowedByOwner
<1>4. QED BY <1>1, <1>2, <1>3

LEMMA NextIInv == IInv /\ [Next]_vars => IInv'
<1> SUFFICES ASSUME IInv, [Next]_vars PROVE IInv'
  OBVIOUS
<1>1. CASE \E u \in Users, c \in Codes : GenerateCode(u, c)
  BY <1>1, GenerateCodeStep
<1>2. CASE \E c \in Codes : Expire(c)
  BY <1>2, ExpireStep
<1>3. CASE \E h \in Handlers, t \in Chats, c \in Codes : BeginStart(h, t, c)
  BY <1>3, BeginStartStep
<1>4. CASE \E h \in Handlers : Delete(h)
  BY <1>4, DeleteStep
<1>5. CASE \E h \in Handlers : Load(h)
  BY <1>5, LoadStep
<1>6. CASE \E h \in Handlers : Link(h)
  BY <1>6, LinkStep
<1>7. CASE \E h \in Handlers : Unlink(h) \/ \E u \in Users : BeginUnlink(h, u)
  BY <1>7, UnlinkStep, BeginUnlinkStep
<1>8. CASE \E h \in Handlers, command \in {"follow", "unfollow"}, t \in Chats, x \in Targets :
              BeginCommand(h, command, t, x)
  BY <1>8, CommandStep
<1>9. CASE \E h \in Handlers : Follow(h) \/ Unfollow(h)
  BY <1>9, TrackStep
<1>10. CASE \E h \in Handlers : Fail(h)
  BY <1>10, FailStep
<1>11. CASE UNCHANGED vars
  BY <1>11
     DEF vars, IInv, TypeOK, HandlersInv, StoresInv, HandlerOk, Starting, local,
         CodeInv, ChatInv, OneUserPerChat, LinkedByOwnCode, FollowedByOwner
<1>12. QED
  BY <1>1, <1>2, <1>3, <1>4, <1>5, <1>6, <1>7, <1>8, <1>9, <1>10, <1>11 DEF Next

LEMMA IInvHolds == Spec => []IInv
BY InitIInv, NextIInv, PTL DEF Spec

-----------------------------------------------------------------------------
(***************************************************************************)
(* The theorems.                                                           *)
(***************************************************************************)

\* The types of the stores and of what the handlers hold, for any instance.
THEOREM TypeCorrect == Spec => []TypeOK
<1>1. IInv => TypeOK
  BY DEF IInv
<1>2. QED BY <1>1, IInvHolds, PTL

\* However many /start messages race, a chat belongs to one user at most: the
\* lookup by chat id of the bot finds one row or none.
THEOREM ChatsBelongToOne == Spec => []OneUserPerChat
<1>1. IInv => OneUserPerChat
  BY DEF IInv, StoresInv
<1>2. QED BY <1>1, IInvHolds, PTL

\* A user's chat has brought a code that was generated for this user.
THEOREM LinksAreOwn == Spec => []LinkedByOwnCode
<1>1. IInv => LinkedByOwnCode
  BY DEF IInv, StoresInv
<1>2. QED BY <1>1, IInvHolds, PTL

\* Whatever the bot tracks for a user was asked for by a chat that has been
\* linked to this user, whatever links and unlinks the command overlapped with.
THEOREM FollowsAreOwn == Spec => []FollowedByOwner
<1>1. IInv => FollowedByOwner
  BY DEF IInv, StoresInv
<1>2. QED BY <1>1, IInvHolds, PTL

\* No code that has linked an account is left in Redis.
THEOREM UsedCodesAreGone == Spec => []UsedCodeIsGone
<1>1. IInv => UsedCodeIsGone
  BY DEF IInv, StoresInv, CodeInv, UsedCodeIsGone
<1>2. QED BY <1>1, IInvHolds, PTL

-----------------------------------------------------------------------------
(***************************************************************************)
(* A code is used at most as often as there are handlers: as long as it is *)
(* stored it has not been used, and after that no handler joins those that *)
(* have read it, of which each leaves when it uses it.                     *)
(***************************************************************************)

LEMMA WorkingFinite ==
    ASSUME NEW c
    PROVE  /\ IsFiniteSet(Working(c))
           /\ Cardinality(Working(c)) \in Nat
           /\ Cardinality(Working(c)) <= Cardinality(Handlers)
<1>1. Working(c) \subseteq Handlers
  BY DEF Working
<1>2. QED BY <1>1, HandlersFinite, FS_Subset, FS_CardinalityType

\* A step after which no more handlers work on a code, unless it is unused.
LEMMA UsesKept ==
    ASSUME TypeOK, UseInv, uses' = uses,
           \A c \in Codes : Working(c)' \subseteq Working(c) \/ uses[c] = 0
    PROVE  UseInv'
<1> SUFFICES ASSUME NEW c \in Codes
             PROVE  uses[c] + Cardinality(Working(c)') <= Cardinality(Handlers)
  BY DEF UseInv
<1>1. Working(c)' \subseteq Handlers
  BY DEF Working
<1>2. /\ Cardinality(Handlers) \in Nat
      /\ Cardinality(Working(c)') \in Nat
      /\ Cardinality(Working(c)') <= Cardinality(Handlers)
  BY <1>1, HandlersFinite, FS_Subset, FS_CardinalityType
<1>3. uses[c] \in Nat
  BY DEF TypeOK
<1>4. CASE uses[c] = 0
  BY <1>2, <1>4
<1>5. CASE Working(c)' \subseteq Working(c)
  <2>1. Cardinality(Working(c)') <= Cardinality(Working(c))
    BY <1>5, WorkingFinite, FS_Subset
  <2>2. uses[c] + Cardinality(Working(c)) <= Cardinality(Handlers)
    BY DEF UseInv
  <2>3. QED BY <1>2, <1>3, <2>1, <2>2, WorkingFinite
<1>6. QED BY <1>4, <1>5

LEMMA LinkUses ==
    ASSUME IInv, UseInv, NEW h \in Handlers, Link(h)
    PROVE  UseInv'
<1>1. arg[h] \in Codes /\ h \in Working(arg[h])
  BY DEF IInv, HandlersInv, HandlerOk, Starting, Working, Link
<1>2. \A c \in Codes : Working(c)' \subseteq Working(c)
  BY DEF IInv, TypeOK, Link, Done, Goto, Working, Starting
<1>3. CASE uses' = uses
  BY <1>2, <1>3, UsesKept DEF IInv
<1>4. CASE uses' = [uses EXCEPT ![arg[h]] = @ + 1]
  <2> SUFFICES ASSUME NEW c \in Codes
               PROVE  uses'[c] + Cardinality(Working(c)') <= Cardinality(Handlers)
    BY DEF UseInv
  <2>1. uses[c] \in Nat /\ uses[c] + Cardinality(Working(c)) <= Cardinality(Handlers)
    BY DEF IInv, TypeOK, UseInv
  <2>2. Cardinality(Handlers) \in Nat /\ Cardinality(Working(c)) \in Nat
    BY WorkingFinite, HandlersFinite, FS_CardinalityType
  <2>3. CASE c = arg[h]
    <3>1. Working(c)' \subseteq Working(c) \ {h}
      BY <1>2 DEF IInv, TypeOK, Link, Done, Goto, Working, Starting
    <3>2. /\ IsFiniteSet(Working(c) \ {h})
          /\ Cardinality(Working(c) \ {h}) = Cardinality(Working(c)) - 1
      BY <1>1, <2>3, WorkingFinite, FS_RemoveElement
    <3>3. /\ Cardinality(Working(c)') \in Nat
          /\ Cardinality(Working(c)') <= Cardinality(Working(c)) - 1
      BY <3>1, <3>2, FS_Subset, FS_CardinalityType
    <3>4. uses'[c] = uses[c] + 1
      BY <1>4, <2>3 DEF IInv, TypeOK
    <3>5. QED BY <2>1, <2>2, <3>3, <3>4
  <2>4. CASE c # arg[h]
    <3>1. Cardinality(Working(c)') \in Nat /\ Cardinality(Working(c)') <= Cardinality(Working(c))
      BY <1>2, WorkingFinite, FS_Subset, FS_CardinalityType
    <3>2. uses'[c] = uses[c]
      BY <1>4, <2>4 DEF IInv, TypeOK
    <3>3. QED BY <2>1, <2>2, <3>1, <3>2
  <2>5. QED BY <2>3, <2>4
<1>5. QED BY <1>3, <1>4 DEF Link

LEMMA NextUses == IInv /\ UseInv /\ [Next]_vars => UseInv'
<1> SUFFICES ASSUME IInv, UseInv, [Next]_vars PROVE UseInv'
  OBVIOUS
<1>1. CASE \E h \in Handlers : Link(h)
  BY <1>1, LinkUses
<1>2. CASE \E h \in Handlers, t \in Chats, c \in Codes : BeginStart(h, t, c)
  <2> PICK h \in Handlers, t \in Chats, c \in Codes : BeginStart(h, t, c)
    BY <1>2
  <2>1. \A d \in Codes : Working(d)' \subseteq Working(d) \/ uses[d] = 0
    BY DEF IInv, TypeOK, StoresInv, CodeInv, BeginStart, Receive, Continue, Done, Goto,
           Working, Starting
  <2>2. QED BY <2>1, UsesKept DEF IInv, BeginStart, Receive
<1>3. CASE ~ \E h \in Handlers : Link(h) \/ \E t \in Chats, c \in Codes : BeginStart(h, t, c)
  <2>1. uses' = uses
    BY <1>3 DEF Next, vars, history, GenerateCode, Expire, Delete, Load, BeginUnlink, Unlink,
           BeginCommand, Receive, Follow, Unfollow, SetTracked, Fail
  <2>2. ASSUME NEW h \in Handlers
        PROVE  Starting(h)' => Starting(h) /\ arg'[h] = arg[h]
    <3> USE DEF IInv, TypeOK, Starting
    <3>1. CASE UNCHANGED <<pc, arg>>
      BY <3>1
    <3>2. CASE \E k \in Handlers : Delete(k) \/ Load(k)
      BY <3>2 DEF Delete, Load, Goto
    <3>3. CASE \E k \in Handlers : Done(k)
      BY <3>3 DEF Done, Goto
    <3>4. CASE \E k \in Handlers, u \in Users : BeginUnlink(k, u)
      BY <3>4 DEF BeginUnlink, Goto
    <3>5. CASE \E k \in Handlers, command \in {"follow", "unfollow"}, t \in Chats, x \in Targets :
                  Continue(k, command, t, x)
      BY <3>5 DEF Continue, Goto
    <3>6. QED
      BY <1>3, <3>1, <3>2, <3>3, <3>4, <3>5
         DEF Next, vars, local, GenerateCode, Expire, BeginCommand, Unlink, Follow, Unfollow,
             SetTracked, Fail
  <2>3. \A c \in Codes : Working(c)' \subseteq Working(c)
    BY <2>2 DEF Working
  <2>4. QED BY <2>1, <2>3, UsesKept DEF IInv
<1>4. QED BY <1>1, <1>2, <1>3

\* GET and DELETE of a code are two commands, and yet a code is not used more
\* often than there are handlers that overlap.
THEOREM UsesStayBounded == Spec => []UsesBounded
<1>1. Init => UseInv
  <2> SUFFICES ASSUME Init, NEW c \in Codes
               PROVE  uses[c] + Cardinality(Working(c)) <= Cardinality(Handlers)
    BY DEF UseInv
  <2>1. uses[c] = 0
    BY DEF Init
  <2>2. QED BY <2>1, WorkingFinite
<1>2. IInv /\ UseInv => UsesBounded
  <2> SUFFICES ASSUME IInv, UseInv, NEW c \in Codes
               PROVE  uses[c] <= Cardinality(Handlers)
    BY DEF UsesBounded
  <2>1. uses[c] \in Nat
    BY DEF IInv, TypeOK
  <2>2. uses[c] + Cardinality(Working(c)) <= Cardinality(Handlers)
    BY DEF UseInv
  <2>3. QED BY <2>1, <2>2, WorkingFinite, HandlersFinite, FS_CardinalityType
<1>3. QED BY <1>1, <1>2, IInvHolds, NextUses, PTL DEF Spec
=============================================================================
