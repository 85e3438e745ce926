------------------------- MODULE TelegramLinkProofs -------------------------
(***************************************************************************)
(* Theorems about TelegramLink, for any users, links, chats and requests   *)
(* of the webhook under way at once.                                       *)
(***************************************************************************)
EXTENDS TelegramLink, TLAPS

\* VoidLinksAreGone, and whose the links are that a row or a request holds.
LinkInv ==
    /\ \A u \in Users : token[u] \notin void
    /\ \A u \in Users : token[u] \in Links => issuedTo[token[u]] = u
    /\ \A l \in Links : issuedTo[l] = NoUser => l \notin void
    /\ \A h \in Handlers : pc[h] = "found" => issuedTo[message[h][1]] = user[h]

LEMMA NextCases ==
    ASSUME Next
    PROVE  \/ \E u \in Users : Disconnect(u)
           \/ \E u \in Users, l \in Links : CreateLink(u, l)
           \/ \E l \in Links : Expires(l)
           \/ \E m \in Messages : Send(m)
           \/ \E h \in Handlers : Check(h) \/ Reply(h) \/ Fails(h)
           \/ \E h \in Handlers, m \in Messages : LookUp(h, m)
BY DEF Next, Handle

\* A request has the message of a link once it has loaded a user.
LEMMA FoundRequest ==
    ASSUME TypeOK, NEW h \in Handlers, pc[h] = "found"
    PROVE  user[h] \in Users /\ message[h] \in Messages
           /\ message[h][1] \in Links /\ message[h][2] \in Chats
BY DEF TypeOK, Messages

LEMMA EndFacts ==
    ASSUME TypeOK, NEW h \in Handlers, End(h)
    PROVE  /\ pc' \in [Handlers -> {"idle", "found", "reply"}]
           /\ message' \in [Handlers -> Messages \cup {NoMessage}]
           /\ user' \in [Handlers -> Users \cup {NoUser}]
           /\ had' \in [Handlers -> Chats \cup {NoChat}]
           /\ pc'[h] = "idle"
           /\ \A g \in Handlers \ {h} : pc'[g] = pc[g] /\ message'[g] = message[g] /\ user'[g] = user[g]
BY DEF TypeOK, End, Step

\* The variables keep their types; a request that is past its query has a user.
THEOREM TypeCorrect == Spec => []TypeOK
<1>1. Init => TypeOK
  BY DEF Init, TypeOK
<1>2. TypeOK /\ [Next]_vars => TypeOK'
  <2> SUFFICES ASSUME TypeOK, [Next]_vars PROVE TypeOK'
    OBVIOUS
  <2>1. CASE UNCHANGED vars
    BY <2>1 DEF TypeOK, vars, row, mail, request
  <2>2. ASSUME NEW u \in Users, Disconnect(u) PROVE TypeOK'
    BY <2>2 DEF TypeOK, Disconnect, LinksOf, mail, request
  <2>3. ASSUME NEW u \in Users, NEW l \in Links, CreateLink(u, l) PROVE TypeOK'
    BY <2>3 DEF TypeOK, CreateLink, LinksOf, mail, request
  <2>4. ASSUME NEW l \in Links, Expires(l) PROVE TypeOK'
    BY <2>4 DEF TypeOK, Expires, row, mail, request
  <2>5. ASSUME NEW m \in Messages, Send(m) PROVE TypeOK'
    BY <2>5 DEF TypeOK, Send, row, request
  <2>6. ASSUME NEW h \in Handlers, Check(h) PROVE TypeOK'
    <3>1. user[h] \in Users /\ message[h][1] \in Links /\ message[h][2] \in Chats
      BY <2>6, FoundRequest DEF Check
    <3>2. chat' \in [Users -> Chats \cup {NoChat}]
      BY <2>6, <3>1 DEF TypeOK, Check, Connect, ClearExpired
    <3>3. token' \in [Users -> Links \cup {NoLink}] /\ void' \in SUBSET Links
      BY <2>6, <3>1 DEF TypeOK, Check, Connect, ClearExpired
    <3>4. /\ pc' \in [Handlers -> {"idle", "found", "reply"}]
          /\ \A g \in Handlers : pc'[g] # "idle" => pc[g] # "idle"
          /\ \A g \in Handlers : pc'[g] = "found" => pc[g] = "found"
      BY <2>6 DEF TypeOK, Check, Step
    <3>5. UNCHANGED <<issuedTo, expired, mail, message, user, had, faults>>
      BY <2>6 DEF Check
    <3> QED
      BY <3>2, <3>3, <3>4, <3>5 DEF TypeOK, mail
  <2>7. ASSUME NEW h \in Handlers, Reply(h) PROVE TypeOK'
    BY <2>7, EndFacts DEF TypeOK, Reply, row
  <2>8. ASSUME NEW h \in Handlers, Fails(h) PROVE TypeOK'
    <3>1. faults' \in Nat
      BY <2>8 DEF TypeOK, Fails
    <3> QED
      BY <2>8, <3>1, EndFacts DEF TypeOK, Fails, row, mail
  <2>9. ASSUME NEW h \in Handlers, NEW m \in Messages, LookUp(h, m) PROVE TypeOK'
    <3>1. /\ message' \in [Handlers -> Messages \cup {NoMessage}] /\ message'[h] = m
          /\ \A g \in Handlers \ {h} : message'[g] = message[g]
      BY <2>9 DEF TypeOK, LookUp
    <3>2. /\ user' \in [Handlers -> Users \cup {NoUser}]
          /\ had' \in [Handlers -> Chats \cup {NoChat}]
          /\ pc' \in [Handlers -> {"idle", "found", "reply"}]
          /\ pc'[h] = "found" => user'[h] \in Users
          /\ \A g \in Handlers \ {h} : pc'[g] = pc[g] /\ user'[g] = user[g]
      BY <2>9 DEF TypeOK, LookUp, Step
    <3>3. UNCHANGED <<row, issuedTo, expired, void, mail, faults>>
      BY <2>9 DEF LookUp
    <3> QED
      BY <3>1, <3>2, <3>3 DEF TypeOK, row, mail
  <2> QED
    BY NextCases, <2>1, <2>2, <2>3, <2>4, <2>5, <2>6, <2>7, <2>8, <2>9
<1> QED
  BY <1>1, <1>2, PTL DEF Spec
-----------------------------------------------------------------------------
\* Whose a link is, in a row or with a request that has loaded the row, and that a void
\* one is in none.
LEMMA LinkInvariant == Spec => []LinkInv
<1>1. Init => LinkInv
  BY NoneAssumption DEF Init, LinkInv
<1>2. TypeOK /\ LinkInv /\ [Next]_vars => LinkInv'
  <2> SUFFICES ASSUME TypeOK, LinkInv, [Next]_vars PROVE LinkInv'
    OBVIOUS
  <2>1. CASE UNCHANGED <<token, issuedTo, void, pc, message, user>>
    BY <2>1 DEF LinkInv
  <2>2. CASE UNCHANGED vars \/ (\E l \in Links : Expires(l)) \/ (\E m \in Messages : Send(m))
    BY <2>1, <2>2 DEF vars, Expires, Send, row, request
  <2>3. ASSUME NEW u \in Users, Disconnect(u) PROVE LinkInv'
    <3>1. /\ token'[u] = NoLink /\ \A v \in Users \ {u} : token'[v] = token[v]
          /\ void' = void \cup LinksOf(u) /\ UNCHANGED <<issuedTo, pc, message, user>>
      BY <2>3 DEF TypeOK, Disconnect, request
    <3>2. NoLink \notin void' /\ NoLink \notin Links /\ NoUser \notin Users
      BY <3>1, NoneAssumption DEF TypeOK, LinksOf
    <3> QED
      BY <3>1, <3>2 DEF LinkInv, LinksOf
  <2>4. ASSUME NEW u \in Users, NEW l \in Links, CreateLink(u, l) PROVE LinkInv'
    <3>1. /\ token'[u] = l /\ \A v \in Users \ {u} : token'[v] = token[v]
          /\ issuedTo[l] = NoUser /\ issuedTo'[l] = u
          /\ \A k \in Links \ {l} : issuedTo'[k] = issuedTo[k]
          /\ void' = void \cup LinksOf(u) /\ UNCHANGED <<pc, message, user>>
      BY <2>4 DEF TypeOK, CreateLink, request
    <3>2. NoLink \notin Links /\ NoUser \notin Users
      BY NoneAssumption
    <3>3. \A v \in Users : token[v] \in Links \cup {NoLink}
      BY DEF TypeOK
    <3>4. \A h \in Handlers : pc[h] = "found" => user[h] \in Users /\ message[h][1] \in Links
      BY FoundRequest
    <3>5. \A v \in Users : token'[v] \notin void'
      BY <3>1, <3>2, <3>3 DEF LinkInv, LinksOf
    <3>6. \A v \in Users : token'[v] \in Links => issuedTo'[token'[v]] = v
      BY <3>1, <3>2 DEF LinkInv
    <3>7. \A k \in Links : issuedTo'[k] = NoUser => k \notin void'
      BY <3>1, <3>2 DEF LinkInv, LinksOf
    <3>8. \A h \in Handlers : pc'[h] = "found" => issuedTo'[message'[h][1]] = user'[h]
      BY <3>1, <3>2, <3>4 DEF LinkInv
    <3> QED
      BY <3>5, <3>6, <3>7, <3>8 DEF LinkInv
  <2>5. ASSUME NEW h \in Handlers, Check(h) PROVE LinkInv'
    <3>1. /\ user[h] \in Users /\ message[h][1] \in Links
          /\ issuedTo[message[h][1]] = user[h]
      BY <2>5, FoundRequest DEF Check, LinkInv
    <3>2. /\ token'[user[h]] = NoLink
          /\ \A v \in Users \ {user[h]} : token'[v] = token[v]
          /\ void' = void \cup {message[h][1]} /\ UNCHANGED <<issuedTo, message, user>>
          /\ \A g \in Handlers : pc'[g] = "found" => pc[g] = "found"
      BY <2>5, <3>1 DEF TypeOK, Check, Connect, ClearExpired, Step
    <3>3. NoLink \notin void' /\ NoLink \notin Links /\ NoUser \notin Users
      BY <3>1, <3>2, NoneAssumption DEF TypeOK
    <3> QED
      BY <3>1, <3>2, <3>3 DEF LinkInv
  <2>6. ASSUME NEW h \in Handlers, Reply(h) \/ Fails(h) PROVE LinkInv'
    <3>1. End(h) /\ UNCHANGED <<token, issuedTo, void>>
      BY <2>6 DEF Reply, Fails, row
    <3> QED
      BY <3>1, EndFacts DEF LinkInv
  <2>7. ASSUME NEW h \in Handlers, NEW m \in Messages, LookUp(h, m) PROVE LinkInv'
    <3>1. UNCHANGED <<token, issuedTo, void>> /\ m[1] \in Links
      BY <2>7 DEF LookUp, row, Messages
    <3>2. \A g \in Handlers \ {h} : pc'[g] = pc[g] /\ message'[g] = message[g] /\ user'[g] = user[g]
      BY <2>7 DEF TypeOK, LookUp, Step
    <3>3. message'[h] = m /\ (pc'[h] = "found" => user'[h] \in Users /\ token[user'[h]] = m[1])
      BY <2>7 DEF TypeOK, LookUp, Step
    <3> QED
      BY <3>1, <3>2, <3>3 DEF LinkInv
  <2> QED
    BY NextCases, <2>2, <2>3, <2>4, <2>5, <2>6, <2>7
<1> QED
  BY <1>1, <1>2, TypeCorrect, PTL DEF Spec

\* A link that was replaced, disconnected, used or found stale is in no row, whatever
\* requests of the site and of the webhook overlap: it connects nobody any more.
THEOREM VoidSafe == Spec => []VoidLinksAreGone
<1>1. LinkInv => VoidLinksAreGone
  BY DEF LinkInv, VoidLinksAreGone
<1> QED
  BY <1>1, LinkInvariant, PTL
-----------------------------------------------------------------------------
\* What a request that has loaded a row is about to write was sent to the bot.
SentInv ==
    /\ ChatsHadALink
    /\ \A h \in Handlers : pc[h] = "found" => message[h] \in sent

\* A chat in a row has sent the bot a link issued to that user, with any number of
\* requests of the webhook under way, failing and repeated.
THEOREM ChatsSafe == Spec => []ChatsHadALink
<1>1. Init => SentInv
  BY DEF Init, SentInv, ChatsHadALink
<1>2. TypeOK /\ LinkInv /\ SentInv /\ [Next]_vars => SentInv'
  <2> SUFFICES ASSUME TypeOK, LinkInv, SentInv, [Next]_vars PROVE SentInv'
    OBVIOUS
  <2>1. CASE UNCHANGED <<chat, issuedTo, sent, pc, message>>
    BY <2>1 DEF SentInv, ChatsHadALink, LinksOf
  <2>2. CASE UNCHANGED vars \/ \E l \in Links : Expires(l)
    BY <2>1, <2>2 DEF vars, Expires, row, mail, request
  <2>3. ASSUME NEW u \in Users, Disconnect(u) PROVE SentInv'
    <3>1. /\ chat'[u] = NoChat /\ \A v \in Users \ {u} : chat'[v] = chat[v]
          /\ UNCHANGED <<issuedTo, sent, pc, message>>
      BY <2>3 DEF TypeOK, Disconnect, mail, request
    <3> QED
      BY <3>1 DEF SentInv, ChatsHadALink, LinksOf
  \* A new link takes none from those that a user has.
  <2>4. ASSUME NEW u \in Users, NEW k \in Links, CreateLink(u, k) PROVE SentInv'
    <3>1. UNCHANGED <<chat, sent, pc, message>>
      BY <2>4 DEF CreateLink, mail, request
    <3>2. \A v \in Users : LinksOf(v) \subseteq LinksOf(v)'
      BY <2>4, NoneAssumption DEF TypeOK, CreateLink, LinksOf
    <3> QED
      BY <3>1, <3>2 DEF SentInv, ChatsHadALink
  <2>5. ASSUME NEW m \in Messages, Send(m) PROVE SentInv'
    <3>1. sent \subseteq sent' /\ UNCHANGED <<chat, issuedTo, pc, message>>
      BY <2>5 DEF Send, row, request
    <3> QED
      BY <3>1 DEF SentInv, ChatsHadALink, LinksOf
  <2>6. ASSUME NEW h \in Handlers, Check(h) PROVE SentInv'
    <3>1. /\ UNCHANGED <<issuedTo, sent, message>>
          /\ \A g \in Handlers : pc'[g] = "found" => pc[g] = "found"
      BY <2>6 DEF TypeOK, Check, Step, mail
    <3>2. CASE UNCHANGED chat
      BY <3>1, <3>2 DEF SentInv, ChatsHadALink, LinksOf
    <3>3. CASE chat' = [chat EXCEPT ![user[h]] = message[h][2]]
      <4>1. /\ message[h] \in sent /\ message[h] = <<message[h][1], message[h][2]>>
            /\ message[h][1] \in LinksOf(user[h])
        BY <2>6, FoundRequest DEF SentInv, LinkInv, LinksOf, Check, Messages
      <4>2. /\ \A v \in Users \ {user[h]} : chat'[v] = chat[v]
            /\ chat'[user[h]] = message[h][2]
        BY <2>6, <3>3, FoundRequest DEF TypeOK, Check
      <4> QED
        BY <3>1, <4>1, <4>2 DEF SentInv, ChatsHadALink, LinksOf
    <3> QED
      BY <2>6, <3>2, <3>3 DEF Check, Connect, ClearExpired
  <2>7. ASSUME NEW h \in Handlers, Reply(h) \/ Fails(h) PROVE SentInv'
    <3>1. End(h) /\ UNCHANGED <<chat, issuedTo, sent>>
      BY <2>7 DEF Reply, Fails, row, mail
    <3> QED
      BY <3>1, EndFacts DEF SentInv, ChatsHadALink, LinksOf
  <2>8. ASSUME NEW h \in Handlers, NEW m \in Messages, LookUp(h, m) PROVE SentInv'
    <3>1. UNCHANGED <<chat, issuedTo, sent>> /\ m \in sent /\ message'[h] = m
      BY <2>8 DEF TypeOK, LookUp, row, mail
    <3>2. \A g \in Handlers \ {h} : pc'[g] = pc[g] /\ message'[g] = message[g]
      BY <2>8 DEF TypeOK, LookUp, Step
    <3> QED
      BY <3>1, <3>2 DEF SentInv, ChatsHadALink, LinksOf
  <2> QED
    BY NextCases, <2>2, <2>3, <2>4, <2>5, <2>6, <2>7, <2>8
<1>3. SentInv => ChatsHadALink
  BY DEF SentInv
<1> QED
  BY <1>1, <1>2, <1>3, TypeCorrect, LinkInvariant, PTL DEF Spec

\* A chat is connected by a link issued to that user alone, one that is not stale, and
\* the commit takes away whatever link the row has: an update delivered again, or late,
\* can connect another chat only if it had loaded the row before.
THEOREM ConnectsSafe == Spec => ConnectsByOwnLink
<1>1. ASSUME TypeOK, LinkInv, [Next]_vars, NEW u \in Users, chat'[u] \notin {chat[u], NoChat}
      PROVE  \E h \in Handlers : /\ pc[h] = "found" /\ pc'[h] # "found" /\ user[h] = u
                                 /\ message[h][1] \in LinksOf(u) \ expired /\ token'[u] = NoLink
  <2>1. CASE \/ UNCHANGED vars
             \/ \E v \in Users, l \in Links : CreateLink(v, l)
             \/ (\E l \in Links : Expires(l)) \/ (\E m \in Messages : Send(m))
             \/ (\E h \in Handlers : Reply(h) \/ Fails(h))
             \/ (\E h \in Handlers, m \in Messages : LookUp(h, m))
    <3>1. UNCHANGED chat
      BY <2>1 DEF vars, CreateLink, Expires, Send, Reply, Fails, LookUp, row
    <3> QED
      BY <1>1, <3>1
  <2>2. ASSUME NEW v \in Users, Disconnect(v) PROVE chat'[u] \in {chat[u], NoChat}
    BY <1>1, <2>2 DEF TypeOK, Disconnect
  <2>3. ASSUME NEW h \in Handlers, Check(h)
        PROVE  /\ pc[h] = "found" /\ pc'[h] # "found" /\ user[h] = u
               /\ message[h][1] \in LinksOf(u) \ expired /\ token'[u] = NoLink
    <3>1. /\ pc[h] = "found" /\ pc'[h] = "reply"
          /\ user[h] \in Users /\ message[h][1] \in Links
          /\ issuedTo[message[h][1]] = user[h]
      BY <1>1, <2>3, FoundRequest DEF TypeOK, Check, Step, LinkInv
    <3>2. message[h][1] \notin expired /\ Connect(h)
      BY <1>1, <2>3 DEF Check, ClearExpired
    <3>3. user[h] = u
      BY <1>1, <3>1, <3>2 DEF TypeOK, Connect
    <3> QED
      BY <1>1, <3>1, <3>2, <3>3 DEF TypeOK, Connect, LinksOf
  <2> QED
    BY <1>1, <2>1, <2>2, <2>3, NextCases
<1>2. TypeOK /\ LinkInv /\ [Next]_vars =>
        [\A u \in Users : chat'[u] \notin {chat[u], NoChat} =>
          \E h \in Handlers : /\ pc[h] = "found" /\ pc'[h] # "found" /\ user[h] = u
                              /\ message[h][1] \in LinksOf(u) \ expired /\ token'[u] = NoLink]_vars
  BY <1>1
<1> QED
  BY <1>2, TypeCorrect, LinkInvariant, PTL DEF Spec, ConnectsByOwnLink
-----------------------------------------------------------------------------
(* AnsweredAreSpent.  A request about to be answered has a link that is in   *)
(* no row, and none issued later is that one.                                *)
SpentInv ==
    /\ \A m \in sent : issuedTo[m[1]] # NoUser
    /\ \A h \in Handlers : pc[h] # "idle" => message[h] \in sent
    /\ \A h \in Handlers : pc[h] = "reply" => \A u \in Users : token[u] # message[h][1]

\* Lookups, commits and new links that overlap leave the request of each handler as
\* SpentInv has it (_handle_start_command).
LEMMA SpentInvariant == Spec => []SpentInv
<1>1. Init => SpentInv
  BY DEF Init, SpentInv
<1>2. TypeOK /\ LinkInv /\ SpentInv /\ [Next]_vars => SpentInv'
  <2> SUFFICES ASSUME TypeOK, LinkInv, SpentInv, [Next]_vars PROVE SpentInv'
    OBVIOUS
  <2>1. CASE UNCHANGED vars \/ \E l \in Links : Expires(l)
    BY <2>1 DEF SpentInv, vars, Expires, row, mail, request
  <2>2. ASSUME NEW u \in Users, Disconnect(u) PROVE SpentInv'
    <3>1. /\ UNCHANGED <<issuedTo, sent, pc, message>>
          /\ token'[u] = NoLink /\ \A v \in Users \ {u} : token'[v] = token[v]
      BY <2>2 DEF TypeOK, Disconnect, mail, request
    <3>2. \A h \in Handlers : pc[h] # "idle" => message[h][1] # NoLink
      BY NoneAssumption DEF TypeOK, Messages
    <3> QED
      BY <3>1, <3>2 DEF SpentInv
  <2>3. ASSUME NEW u \in Users, NEW l \in Links, CreateLink(u, l) PROVE SpentInv'
    <3>1. /\ issuedTo[l] = NoUser /\ issuedTo'[l] = u /\ UNCHANGED <<sent, pc, message>>
          /\ \A k \in Links \ {l} : issuedTo'[k] = issuedTo[k]
          /\ token'[u] = l /\ \A v \in Users \ {u} : token'[v] = token[v]
      BY <2>3 DEF TypeOK, CreateLink, mail, request
    <3>2. u # NoUser /\ \A m \in sent : m[1] \in Links /\ m[1] # l
      BY <3>1, NoneAssumption DEF TypeOK, Messages, SpentInv
    <3> QED
      BY <3>1, <3>2 DEF SpentInv
  <2>4. ASSUME NEW m \in Messages, Send(m) PROVE SpentInv'
    BY <2>4 DEF SpentInv, Send, row, request
  <2>5. ASSUME NEW h \in Handlers, Check(h) PROVE SpentInv'
    <3>1. /\ pc[h] = "found" /\ user[h] \in Users /\ message[h][1] \in Links
          /\ issuedTo[message[h][1]] = user[h]
      BY <2>5, FoundRequest DEF Check, LinkInv
    <3>2. /\ UNCHANGED <<issuedTo, sent, message>>
          /\ pc'[h] = "reply" /\ \A g \in Handlers \ {h} : pc'[g] = pc[g]
      BY <2>5 DEF TypeOK, Check, Step, mail
    <3>3. token'[user[h]] = NoLink /\ \A v \in Users \ {user[h]} : token'[v] = token[v]
      BY <2>5, <3>1 DEF TypeOK, Check, Connect, ClearExpired
    <3>4. \A g \in Handlers : pc[g] # "idle" => message[g][1] # NoLink
      BY NoneAssumption DEF TypeOK, Messages
    <3>5. \A v \in Users \ {user[h]} : token[v] # message[h][1]
      BY <3>1 DEF LinkInv
    <3> QED
      BY <3>1, <3>2, <3>3, <3>4, <3>5 DEF SpentInv
  <2>6. ASSUME NEW h \in Handlers, Reply(h) \/ Fails(h) PROVE SpentInv'
    <3>1. End(h) /\ UNCHANGED <<token, issuedTo, sent>>
      BY <2>6 DEF Reply, Fails, row, mail
    <3> QED
      BY <3>1, EndFacts DEF SpentInv
  <2>7. ASSUME NEW h \in Handlers, NEW m \in Messages, LookUp(h, m) PROVE SpentInv'
    <3>1. UNCHANGED <<token, issuedTo, sent>> /\ m \in sent /\ message'[h] = m
      BY <2>7 DEF TypeOK, LookUp, row, mail
    <3>2. \A g \in Handlers \ {h} : pc'[g] = pc[g] /\ message'[g] = message[g]
      BY <2>7 DEF TypeOK, LookUp, Step
    <3>3. pc'[h] = "reply" => \A u \in Users : token[u] # m[1]
      BY <2>7 DEF TypeOK, LookUp, Step
    <3> QED
      BY <3>1, <3>2, <3>3 DEF SpentInv
  <2> QED
    BY NextCases, <2>1, <2>2, <2>3, <2>4, <2>5, <2>6, <2>7
<1> QED
  BY <1>1, <1>2, TypeCorrect, LinkInvariant, PTL DEF Spec

\* An update is answered with 200, and so not delivered again, only when its link is in
\* no row: a failure before the commit loses no message (telegram_webhook.py:165).
THEOREM AnsweredSafe == Spec => AnsweredAreSpent
<1>1. TypeOK /\ SpentInv /\ [Next]_vars => [\A m \in inbox \ inbox' : ~InARow(m[1])]_vars
  <2> SUFFICES ASSUME TypeOK, SpentInv, [Next]_vars, NEW m \in inbox \ inbox'
               PROVE  ~InARow(m[1])
    OBVIOUS
  <2>1. CASE \/ UNCHANGED vars \/ (\E u \in Users : Disconnect(u))
             \/ (\E u \in Users, l \in Links : CreateLink(u, l))
             \/ (\E l \in Links : Expires(l)) \/ (\E k \in Messages : Send(k))
             \/ (\E h \in Handlers : Check(h) \/ Fails(h))
             \/ (\E h \in Handlers, k \in Messages : LookUp(h, k))
    BY <2>1 DEF vars, Disconnect, CreateLink, Expires, Send, Check, Fails, LookUp, mail
  <2>2. ASSUME NEW h \in Handlers, Reply(h) PROVE ~InARow(m[1])
    BY <2>2 DEF Reply, SpentInv, InARow
  <2> QED
    BY NextCases, <2>1, <2>2
<1> QED
  BY <1>1, TypeCorrect, SpentInvariant, PTL DEF Spec, AnsweredAreSpent
=============================================================================
