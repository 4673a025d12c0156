---------------------------- MODULE TelegramLink -----------------------------
(***************************************************************************)
(* The Telegram bot and the account link it acts by                        *)
(* (services/telegram_bot_service.py, api/v1/routes/telegram.py): a        *)
(* one-time code is generated in the app and kept in Redis, /start <code>  *)
(* in the bot exchanges it for a chat id in the user's row in PostgreSQL,  *)
(* DELETE /telegram/link clears that, and /follow and /unfollow act for    *)
(* the user whose row has the chat id.                                     *)
(*                                                                         *)
(* One action is the code up to the next await.  No transaction spans the  *)
(* two stores.  The UPDATE of a commit touches one row and is followed by  *)
(* the COMMIT at once: whoever needs the row or the chat id waits in       *)
(* between, so both are one action here.                                   *)
(*                                                                         *)
(* telegram_linked_at is left out: nothing reads it.  Two codes, 8 random  *)
(* letters each, are taken to be different.  What /follow and /unfollow do *)
(* once they know the user is one step here; TrackingService has it        *)
(* statement by statement.                                                 *)
(***************************************************************************)
EXTENDS Naturals, FiniteSets

CONSTANTS
    Users,
    Chats,              \* Telegram accounts
    Codes,
    Targets,            \* properties with dates, the links /follow may bring
    Handlers,           \* requests and webhook calls in progress at a time
    None

ASSUME HandlersFinite == IsFiniteSet(Handlers)
ASSUME NoneIsNobody == None \notin Users \cup Chats \cup Codes \cup Targets

VARIABLES
    stored,     \* Redis: telegram_link:<code> -> the user's id
    issued,     \* the user each code was generated for, kept for ever
    chatOf,     \* users.telegram_chat_id
    tracked,    \* tracked_properties made by the bot: is_active, or "absent"
    pc,         \* what each handler awaits
    chat,       \* the chat its message came from
    arg,        \* the code or the target it brought
    user,       \* the user it is about
    loaded,     \* telegram_chat_id of the user's row when it was loaded
    said,       \* <<chat, code or target>>: the messages there have been
    links,      \* <<user, chat>>: the links there have been
    uses        \* the commits that each code led to

local   == <<pc, chat, arg, user, loaded>>
history == <<said, links, uses>>
vars    == <<stored, issued, chatOf, tracked, pc, chat, arg, user, loaded, said, links, uses>>

TypeOK ==
    /\ stored    \in [Codes -> Users \cup {None}]
    /\ issued    \in [Codes -> Users \cup {None}]
    /\ chatOf    \in [Users -> Chats \cup {None}]
    /\ tracked   \in [Users -> [Targets -> {"absent", "active", "inactive"}]]
    /\ pc        \in [Handlers -> {"idle", "delete", "load", "link", "unlink",
                                   "follow", "unfollow"}]
    /\ chat      \in [Handlers -> Chats \cup {None}]
    /\ arg       \in [Handlers -> Codes \cup Targets \cup {None}]
    /\ user      \in [Handlers -> Users \cup {None}]
    /\ loaded    \in [Handlers -> Chats \cup {None}]
    /\ said      \in SUBSET (Chats \X (Codes \cup Targets))
    /\ links     \in SUBSET (Users \X Chats)
    /\ uses      \in [Codes -> Nat]

Goto(h, label) == pc' = [pc EXCEPT ![h] = label]

\* The session is closed: what was not committed is rolled back.
Done(h) ==
    /\ Goto(h, "idle")
    /\ chat'   = [chat EXCEPT ![h] = None]
    /\ arg'    = [arg EXCEPT ![h] = None]
    /\ user'   = [user EXCEPT ![h] = None]
    /\ loaded' = [loaded EXCEPT ![h] = None]

Init ==
    /\ stored  = [c \in Codes |-> None]
    /\ issued  = [c \in Codes |-> None]
    /\ chatOf  = [u \in Users |-> None]
    /\ tracked = [u \in Users |-> [x \in Targets |-> "absent"]]
    /\ pc      = [h \in Handlers |-> "idle"]
    /\ chat    = [h \in Handlers |-> None]
    /\ arg     = [h \in Handlers |-> None]
    /\ user    = [h \in Handlers |-> None]
    /\ loaded  = [h \in Handlers |-> None]
    /\ said    = {}
    /\ links   = {}
    /\ uses    = [c \in Codes |-> 0]

-----------------------------------------------------------------------------

\* POST /telegram/link-code
GenerateCode(u, c) ==
    /\ issued[c] = None
    /\ stored' = [stored EXCEPT ![c] = u]
    /\ issued' = [issued EXCEPT ![c] = u]
    /\ UNCHANGED <<chatOf, tracked, local, history>>

\* The 15 minutes of LINK_CODE_TTL are over.
Expire(c) ==
    /\ stored[c] # None
    /\ stored' = [stored EXCEPT ![c] = None]
    /\ UNCHANGED <<issued, chatOf, tracked, local, history>>

\* Mutant of Remember: one variable for all handlers.
RememberForAll(h, u) == user' = [x \in Handlers |-> u]

Remember(h, u) == user' = [user EXCEPT ![h] = u]

\* A message arrives: from chat t, with the code or target m.
Receive(h, t, m) ==
    /\ pc[h] = "idle"
    /\ said' = said \cup {<<t, m>>}
    /\ UNCHANGED <<stored, issued, chatOf, tracked, links, uses>>

Continue(h, label, t, m) ==
    /\ Goto(h, label)
    /\ chat' = [chat EXCEPT ![h] = t]
    /\ arg'  = [arg EXCEPT ![h] = m]

\* /start <code>, up to the answer of redis.get.
BeginStart(h, t, c) ==
    /\ issued[c] # None
    /\ Receive(h, t, c)
    /\ \/ stored[c] = None /\ Done(h)
       \/ /\ stored[c] # None
          /\ Continue(h, "delete", t, c)
          /\ Remember(h, stored[c])
          /\ UNCHANGED loaded

DeleteNothing(h) == UNCHANGED stored                        \* mutant of Spend

Spend(h) == stored' = [stored EXCEPT ![arg[h]] = None]

\* redis.delete
Delete(h) ==
    /\ pc[h] = "delete"
    /\ Spend(h)
    /\ Goto(h, "load")
    /\ UNCHANGED <<issued, chatOf, tracked, chat, arg, user, loaded, history>>

LoadedUser(h) == user[h]                                    \* mutant of LoadedChat

LoadedChat(h) == chatOf[user[h]]

\* user_repository.get_by_id
Load(h) ==
    /\ pc[h] = "load"
    /\ loaded' = [loaded EXCEPT ![h] = LoadedChat(h)]
    /\ Goto(h, "link")
    /\ UNCHANGED <<stored, issued, chatOf, tracked, chat, arg, user, history>>

\* Mutant of UniqueOk: looked up in the row that was loaded.
UniqueWhenLoaded(h) == loaded[h] = None

\* The unique constraint on telegram_chat_id.
UniqueOk(h) == \A u \in Users \ {user[h]} : chatOf[u] # chat[h]

\* db.commit(): the ORM writes the chat id only if it differs from the loaded
\* one.  A violated constraint ends the handler without a reply.
Link(h) ==
    /\ pc[h] = "link"
    /\ \/ /\ chat[h] # loaded[h]
          /\ UniqueOk(h)
          /\ chatOf' = [chatOf EXCEPT ![user[h]] = chat[h]]
          /\ links'  = links \cup {<<user[h], chat[h]>>}
          /\ uses'   = [uses EXCEPT ![arg[h]] = @ + 1]
       \/ /\ chat[h] # loaded[h]
          /\ ~UniqueOk(h)
          /\ UNCHANGED <<chatOf, links, uses>>
       \/ /\ chat[h] = loaded[h]
          /\ uses' = [uses EXCEPT ![arg[h]] = @ + 1]
          /\ UNCHANGED <<chatOf, links>>
    /\ Done(h)
    /\ UNCHANGED <<stored, issued, tracked, said>>

\* DELETE /telegram/link, after get_current_user has loaded the row.
BeginUnlink(h, u) ==
    /\ pc[h] = "idle"
    /\ Remember(h, u)
    /\ loaded' = [loaded EXCEPT ![h] = chatOf[u]]
    /\ Goto(h, "unlink")
    /\ UNCHANGED <<stored, issued, chatOf, tracked, chat, arg, history>>

\* None assigned to None is no change, so nothing is written.
Unlink(h) ==
    /\ pc[h] = "unlink"
    /\ \/ loaded[h] # None /\ chatOf' = [chatOf EXCEPT ![user[h]] = None]
       \/ loaded[h] = None /\ UNCHANGED chatOf
    /\ Done(h)
    /\ UNCHANGED <<stored, issued, tracked, history>>

-----------------------------------------------------------------------------

\* get_by_telegram_chat_id
Linked(t) == {u \in Users : chatOf[u] = t}

\* /follow <url> and /unfollow <url>, with a link the bot accepts.
BeginCommand(h, command, t, x) ==
    /\ Receive(h, t, x)
    /\ \/ Linked(t) = {} /\ Done(h)
       \/ \E u \in Linked(t) :
             /\ Continue(h, command, t, x)
             /\ Remember(h, u)
             /\ UNCHANGED loaded

SetTracked(h, state) ==
    /\ tracked' = [tracked EXCEPT ![user[h]][arg[h]] = state]
    /\ Done(h)
    /\ UNCHANGED <<stored, issued, chatOf, history>>

\* create_tracked_property and the commit; Fail stands for its refusals.
Follow(h) ==
    /\ pc[h] = "follow"
    /\ tracked[user[h]][arg[h]] # "inactive"
    /\ SetTracked(h, "active")

\* The row of the target that is active, remove_tracked_property, the commit.
Unfollow(h) ==
    /\ pc[h] = "unfollow"
    /\ tracked[user[h]][arg[h]] = "active"
    /\ SetTracked(h, "inactive")

\* The backend dies, Redis or PostgreSQL refuses a command, or a command is
\* answered by an error: the limit, a row that is inactive or absent.
Fail(h) ==
    /\ pc[h] # "idle"
    /\ Done(h)
    /\ UNCHANGED <<stored, issued, chatOf, tracked, history>>

Next ==
    \/ \E u \in Users, c \in Codes : GenerateCode(u, c)
    \/ \E c \in Codes : Expire(c)
    \/ \E h \in Handlers :
         \/ \E t \in Chats, c \in Codes : BeginStart(h, t, c)
         \/ Delete(h)
         \/ Load(h)
         \/ Link(h)
         \/ \E u \in Users : BeginUnlink(h, u)
         \/ Unlink(h)
         \/ \E command \in {"follow", "unfollow"}, t \in Chats, x \in Targets :
               BeginCommand(h, command, t, x)
         \/ Follow(h)
         \/ Unfollow(h)
         \/ Fail(h)

Spec == Init /\ [][Next]_vars

-----------------------------------------------------------------------------

\* A chat belongs to one user at most, whatever /start messages race: the
\* scalar_one_or_none() of get_by_telegram_chat_id never meets two rows.
OneUserPerChat ==
    \A u, v \in Users : chatOf[u] # None /\ chatOf[u] = chatOf[v] => u = v

\* A user is linked only to a chat that brought a code generated for this very
\* user, also if several /start are handled at the same time.
LinkedByOwnCode ==
    \A u \in Users : chatOf[u] # None =>
        \E c \in Codes : issued[c] = u /\ <<chatOf[u], c>> \in said

\* What a user tracks by the bot was asked for by a chat that has been linked
\* to this user, also if the chat changed hands while the command was handled.
FollowedByOwner ==
    \A u \in Users, x \in Targets : tracked[u][x] # "absent" =>
        \E t \in Chats : <<u, t>> \in links /\ <<t, x>> \in said

\* A code that linked an account is gone from Redis, wherever the handler or
\* another one has died: the two stores never disagree in this direction.
UsedCodeIsGone == \A c \in Codes : uses[c] > 0 => stored[c] = None

\* GET and DELETE are two commands, so handlers that overlap can use the same
\* code; but not more of them than are at work at a time.
UsesBounded == \A c \in Codes : uses[c] <= Cardinality(Handlers)
=============================================================================
