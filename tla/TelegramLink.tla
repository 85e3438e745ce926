---------------------------- MODULE TelegramLink ----------------------------
(***************************************************************************)
(* A user's Telegram account (routers/notifications.py and the /start half *)
(* of routers/telegram_webhook.py).  The site issues a link with a token   *)
(* that is kept in the user's row; the bot is sent /start with the token,  *)
(* and the webhook connects the chat that sent it.  Telegram delivers an   *)
(* update again until it is answered with 200.                             *)
(***************************************************************************)
EXTENDS Naturals

CONSTANTS
    Users, Links, Chats,
    Handlers,            \* the webhook's requests that may be under way at once
    NoUser, NoLink, NoChat, NoMessage,
    MaxFaults            \* bound: requests to the webhook that fail

ASSUME NoneAssumption ==
    NoUser \notin Users /\ NoLink \notin Links /\ NoChat \notin Chats /\ NoMessage \notin Links \X Chats
ASSUME FaultAssumption == MaxFaults \in Nat

Messages == Links \X Chats

VARIABLES
    chat, token,   \* the users' rows: telegram_chat_id, telegram_link_token
    issuedTo,      \* whose a link is
    expired,       \* links older than fifteen minutes
    void,          \* links that are to be refused: superseded, disconnected, used or stale
    sent, inbox,   \* messages sent; those Telegram holds to be delivered
    pc, message,   \* a request of the webhook: where it is, its message ...
    user, had,     \* ... the user it loaded, and that user's chat as loaded
    faults

row == <<chat, token>>
mail == <<sent, inbox>>
request == <<pc, message, user, had>>
vars == <<row, issuedTo, expired, void, mail, request, faults>>

\* Every variable has its type; a request past its query has a user.
TypeOK ==
    /\ chat \in [Users -> Chats \cup {NoChat}]
    /\ token \in [Users -> Links \cup {NoLink}]
    /\ issuedTo \in [Links -> Users \cup {NoUser}]
    /\ expired \in SUBSET Links /\ void \in SUBSET Links
    /\ sent \in SUBSET Messages /\ inbox \in SUBSET sent
    /\ pc \in [Handlers -> {"idle", "found", "reply"}]
    /\ message \in [Handlers -> Messages \cup {NoMessage}]
    /\ user \in [Handlers -> Users \cup {NoUser}]
    /\ had \in [Handlers -> Chats \cup {NoChat}]
    /\ faults \in Nat
    /\ \A h \in Handlers :
           /\ pc[h] # "idle" => message[h] \in Messages
           /\ pc[h] = "found" => user[h] \in Users

Init ==
    /\ chat = [u \in Users |-> NoChat] /\ token = [u \in Users |-> NoLink]
    /\ issuedTo = [l \in Links |-> NoUser]
    /\ expired = {} /\ void = {} /\ sent = {} /\ inbox = {}
    /\ pc = [h \in Handlers |-> "idle"] /\ message = [h \in Handlers |-> NoMessage]
    /\ user = [h \in Handlers |-> NoUser] /\ had = [h \in Handlers |-> NoChat]
    /\ faults = 0

LinksOf(u) == {l \in Links : issuedTo[l] = u}
-----------------------------------------------------------------------------
(* The site.                                                               *)

\* POST /notifications/telegram/link-token: the new token replaces the old one.
CreateLink(u, l) ==
    /\ issuedTo[l] = NoUser
    /\ issuedTo' = [issuedTo EXCEPT ![l] = u]
    /\ token' = [token EXCEPT ![u] = l]
    /\ void' = void \cup LinksOf(u)
    /\ UNCHANGED <<chat, expired, mail, request, faults>>

\* Mutant of Disconnect: the link in the row is left there.
DisconnectChat(u) ==
    /\ chat' = [chat EXCEPT ![u] = NoChat] /\ UNCHANGED token
    /\ void' = void \cup LinksOf(u)
    /\ UNCHANGED <<issuedTo, expired, mail, request, faults>>

\* DELETE /notifications/telegram
Disconnect(u) ==
    /\ chat' = [chat EXCEPT ![u] = NoChat] /\ token' = [token EXCEPT ![u] = NoLink]
    /\ void' = void \cup LinksOf(u)
    /\ UNCHANGED <<issuedTo, expired, mail, request, faults>>

Expires(l) ==
    /\ issuedTo[l] # NoUser /\ expired' = expired \cup {l}
    /\ UNCHANGED <<row, issuedTo, void, mail, request, faults>>

\* Whoever has the link presses Start.
Send(m) ==
    /\ issuedTo[m[1]] # NoUser /\ m \notin sent
    /\ sent' = sent \cup {m} /\ inbox' = inbox \cup {m}
    /\ UNCHANGED <<row, issuedTo, expired, void, request, faults>>
-----------------------------------------------------------------------------
(* The webhook.                                                            *)

Step(h, place) == pc' = [pc EXCEPT ![h] = place]
End(h) ==
    /\ Step(h, "idle")
    /\ message' = [message EXCEPT ![h] = NoMessage]
    /\ user' = [user EXCEPT ![h] = NoUser] /\ had' = [had EXCEPT ![h] = NoChat]

\* Mutant of LookUp: "is None" is asked of the query and not of its result.
LookUpUnasked(h, m) ==
    /\ pc[h] = "idle" /\ m \in inbox
    /\ message' = [message EXCEPT ![h] = m] /\ Step(h, "found")
    /\ \E u \in Users \cup {NoUser} :
            /\ u = NoUser => \A v \in Users : token[v] # m[1]
            /\ user' = [user EXCEPT ![h] = u] /\ UNCHANGED had
    /\ UNCHANGED <<row, issuedTo, expired, void, mail, faults>>

\* Telegram delivers an update, for the first time or again; the handler loads the user.
LookUp(h, m) ==
    /\ pc[h] = "idle" /\ m \in inbox
    /\ message' = [message EXCEPT ![h] = m]
    /\ \/ \E u \in Users :
            /\ token[u] = m[1]
            /\ user' = [user EXCEPT ![h] = u] /\ had' = [had EXCEPT ![h] = chat[u]]
            /\ Step(h, "found")
       \/ /\ \A u \in Users : token[u] # m[1]
          /\ user' = [user EXCEPT ![h] = NoUser] /\ had' = [had EXCEPT ![h] = NoChat]
          /\ Step(h, "reply")
    /\ UNCHANGED <<row, issuedTo, expired, void, mail, faults>>

\* The ORM writes the columns that differ from the row as it was loaded: the token always,
\* even if it has been replaced meanwhile, the chat if it is another one.
Connect(h) ==
    /\ chat' = IF had[h] = message[h][2] THEN chat
               ELSE [chat EXCEPT ![user[h]] = message[h][2]]
    /\ token' = [token EXCEPT ![user[h]] = NoLink]
    /\ void' = void \cup {message[h][1]}

ClearExpired(h) ==
    /\ token' = [token EXCEPT ![user[h]] = NoLink]
    /\ void' = void \cup {message[h][1]}
    /\ UNCHANGED chat

\* _handle_start_command, from the comparison with the clock to its commit.
Check(h) ==
    /\ pc[h] = "found"
    /\ Step(h, "reply")
    /\ IF message[h][1] \in expired THEN ClearExpired(h) ELSE Connect(h)
    /\ UNCHANGED <<issuedTo, expired, mail, message, user, had, faults>>

\* The bot sends its message and the request is answered with 200.
Reply(h) ==
    /\ pc[h] = "reply"
    /\ End(h) /\ inbox' = inbox \ {message[h]}
    /\ UNCHANGED <<row, issuedTo, expired, void, sent, faults>>

\* Mutant of Fails: the exception is logged and the update answered with 200.
FailsQuietly(h) ==
    /\ pc[h] # "idle" /\ faults < MaxFaults
    /\ End(h) /\ faults' = faults + 1 /\ inbox' = inbox \ {message[h]}
    /\ UNCHANGED <<row, issuedTo, expired, void, sent>>

\* The Bot API or the database fails, before the commit or after it.
Fails(h) ==
    /\ pc[h] # "idle" /\ faults < MaxFaults
    /\ End(h) /\ faults' = faults + 1
    /\ UNCHANGED <<row, issuedTo, expired, void, mail>>

Handle(h) == Check(h) \/ Reply(h) \/ \E m \in Messages : LookUp(h, m)

Next ==
    \/ \E u \in Users : Disconnect(u) \/ \E l \in Links : CreateLink(u, l)
    \/ \E l \in Links : Expires(l)
    \/ \E m \in Messages : Send(m)
    \/ \E h \in Handlers : Handle(h) \/ Fails(h)

Spec == Init /\ [][Next]_vars

\* Telegram delivers every update until it is answered, and a request is carried on.
FairSpec ==
    /\ Spec
    /\ \A h \in Handlers : WF_vars(Check(h) \/ Reply(h))
    /\ \A m \in Messages : WF_vars(\E h \in Handlers : LookUp(h, m))
-----------------------------------------------------------------------------
(* Properties.                                                             *)

\* A link that a newer one has replaced, that was issued before a disconnect, that has
\* connected a chat or been found stale is in no row, so a message delivered from then
\* on, late or again, finds nobody; whatever the requests under way wrote in between.
VoidLinksAreGone == \A u \in Users : token[u] \notin void

\* A link presented to the bot is used up, though the Bot API fails before or after the
\* commit: Telegram repeats the update, and handling it again is harmless.
InARow(l) == \E u \in Users : token[u] = l
StartIsServed ==
    \A m \in Messages :
        m \in inbox /\ InARow(m[1]) ~> ~InARow(m[1])
-----------------------------------------------------------------------------
(* Proved in TelegramLinkProofs.                                           *)

\* The chat in a row is one that has sent the bot a link issued to that very user,
\* whatever a late answer or an update delivered again writes over the row.
ChatsHadALink ==
    \A u \in Users : chat[u] # NoChat => \E l \in LinksOf(u) : <<l, chat[u]>> \in sent

\* Telegram is told to forget a message only when its link is in no row: what failed
\* before its commit is delivered again.
AnsweredAreSpent == [][\A m \in inbox \ inbox' : ~InARow(m[1])]_vars

\* A chat gets into a row by a link of that user alone, one that is not stale by then,
\* and the same commit takes from the row whatever link it has.
ConnectsByOwnLink ==
    [][\A u \in Users : chat'[u] \notin {chat[u], NoChat} =>
          \E h \in Handlers : /\ pc[h] = "found" /\ pc'[h] # "found" /\ user[h] = u
                              /\ message[h][1] \in LinksOf(u) \ expired /\ token'[u] = NoLink]_vars
-----------------------------------------------------------------------------
(* What a comment says and the code does not do.                           *)

\* telegram_webhook.py:124, "token cleared on first successful use - cannot be replayed":
\* of two messages that loaded the row both connect.
UsedOnce ==
    [][\A h \in Handlers : chat' # chat /\ pc[h] = "found" /\ pc'[h] = "reply"
                              => message[h][1] \notin void]_vars
=============================================================================
