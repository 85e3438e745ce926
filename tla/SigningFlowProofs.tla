------------------------- MODULE SigningFlowProofs -------------------------
(***************************************************************************)
(* Theorems about SigningFlow, for any number of presses on Sign and       *)
(* however sockets close, open again and answer.                           *)
(***************************************************************************)
EXTENDS SigningFlow, TLAPS

Statuses == {"disconnected", "connecting", "connected", "signing", "encrypting", "error"}
Messages == {Greeting} \cup Flows

\* CryptoConnected; a program without a connection has nothing to send.
SocketInv ==
    /\ \A h \in Hooks : queue[h] # <<>> => socket[h] = "open"
    /\ CryptoConnected

\* A flow gets a price once, before it saves it: what is saved is what it has.
PastPrice == {"cms", "cmsing", "saveSigns", "offers", "markReady", "failed", "done"}
PriceInv ==
    /\ \A f \in Flows : price[f] = "other" => crossed
    /\ \A f \in Flows : at[f] = "addEncrypt" => price[f] # "none"
    /\ \A f \in Flows : "price" \in kept[f] =>
          at[f] \in PastPrice /\ price[f] \in {"own", "other"}

\* OneRequest: the page runs one flow at a time, and that flow awaits the answer.
QueueInv ==
    /\ \A f, g \in Flows : at[f] \notin Ended /\ at[g] \notin Ended => f = g
    /\ ~crossed => \A h \in Hooks : \A i \in 1..Len(queue[h]) :
          queue[h][i] # Greeting => at[queue[h][i]] \in Awaiting(h)
    /\ OneRequest

\* The steps of a flow that the proxy passes on and that leave nothing.
PostStep(f) ==
    \/ SaveDraft(f) \/ Login(f) \/ CreateDraft(f) \/ AddLots(f) \/ LotsNext(f)
    \/ Beneficiary(f) \/ DocsNext(f) \/ GetEncrInfo(f) \/ PriceoffersNext(f) \/ MarkReady(f)

LEMMA NextCases ==
    ASSUME Next
    PROVE  \/ \E h \in Hooks : Connect(h) \/ Opened(h) \/ Closes(h)
           \/ \E h \in Hooks : Greeted(h) \/ Ignored(h)
           \/ \E f \in Flows : SignXml(f) \/ CreateCMSSignature(f) \/ EncryptOfferPrice(f)
           \/ \E f \in Flows : HandleSign(f)
           \/ \E f \in Flows : \/ Request("nca", f, "sign", "signing")
                               \/ Request("nca", f, "cms", "cmsing")
                               \/ Request("cs", f, "encrypt", "encrypting")
           \/ \E f \in Flows : PostStep(f)
           \/ \E f \in Flows : AddEncrypt(f) \/ SaveGammaSigns(f)
<1>1. CASE \E h \in Hooks : Connect(h) \/ Opened(h) \/ Closes(h) \/ Message(h)
  BY <1>1 DEF Message
<1>2. CASE \E f \in Flows : HandleSign(f) \/ SaveDraft(f) \/ RunSigningFlow(f)
  BY <1>2 DEF RunSigningFlow, PostStep
<1> QED
  BY <1>1, <1>2 DEF Next

\* The greeting is no flow's number.
LEMMA GreetingApart == Greeting \notin Flows /\ NoHandler \notin Flows /\ Greeting # NoHandler
BY BoundAssumption DEF Greeting, NoHandler, Flows

LEMMA ShowFacts ==
    ASSUME TypeOK, NEW h \in Hooks, NEW s \in Statuses, Show(h, s)
    PROVE  /\ status' \in [Hooks -> Statuses] /\ status'[h] = s
           /\ \A k \in Hooks \ {h} : status'[k] = status[k]
BY DEF TypeOK, Show, Statuses

LEMMA GotoFacts ==
    ASSUME TypeOK, NEW f \in Flows, NEW place \in Places, Goto(f, place)
    PROVE  /\ at' \in [Flows -> Places] /\ at'[f] = place
           /\ \A g \in Flows \ {f} : at'[g] = at[g]
BY DEF TypeOK, Goto

\* A step of the wizard moves its own flow, and never back.
LEMMA PostFacts ==
    ASSUME TypeOK, NEW f \in Flows, PostStep(f)
    PROVE  /\ at' \in [Flows -> Places]
           /\ at[f] \in HttpSteps \ {"addEncrypt"} /\ at'[f] # "addEncrypt"
           /\ at[f] \in PastPrice => at'[f] \in PastPrice
           /\ \A g \in Flows \ {f} : at'[g] = at[g]
           /\ UNCHANGED <<hooks, sign, price, kept, history>>
<1>1. ASSUME NEW step \in HttpSteps \ {"addEncrypt"}, NEW next \in Places \ {"addEncrypt"},
             step \in PastPrice => next \in PastPrice,
             Post(f, step, next)
      PROVE  /\ at' \in [Flows -> Places]
             /\ at[f] \in HttpSteps \ {"addEncrypt"} /\ at'[f] # "addEncrypt"
             /\ at[f] \in PastPrice => at'[f] \in PastPrice
             /\ \A g \in Flows \ {f} : at'[g] = at[g]
             /\ UNCHANGED <<hooks, sign, price, kept, history>>
  <2>1. "failed" \in Places /\ "failed" \in PastPrice
    BY DEF Places, Ended, PastPrice
  <2> QED
    BY <1>1, <2>1, GotoFacts DEF Post
<1>2. CASE SaveDraft(f) \/ Login(f) \/ CreateDraft(f) \/ AddLots(f) \/ LotsNext(f)
  BY <1>1, <1>2 DEF SaveDraft, Login, CreateDraft, AddLots, LotsNext, HttpSteps, Places, PastPrice
<1>3. CASE Beneficiary(f) \/ DocsNext(f) \/ GetEncrInfo(f) \/ PriceoffersNext(f) \/ MarkReady(f)
  BY <1>1, <1>3 DEF Beneficiary, DocsNext, GetEncrInfo, PriceoffersNext, MarkReady, HttpSteps,
                    Places, Ended, PastPrice
<1> QED
  BY <1>2, <1>3 DEF PostStep

\* It never leaves its flow to wait for an answer.
LEMMA PostAwaitsNothing ==
    ASSUME TypeOK, NEW f \in Flows, PostStep(f)
    PROVE  at'[f] \notin {"signing", "cmsing", "encrypting"}
<1>1. ASSUME NEW step, NEW next \in Places \ {"signing", "cmsing", "encrypting"},
             Post(f, step, next)
      PROVE  at'[f] \notin {"signing", "cmsing", "encrypting"}
  <2>1. "failed" \in Places
    BY DEF Places, Ended
  <2> QED
    BY <1>1, <2>1, GotoFacts DEF Post
<1>2. CASE SaveDraft(f) \/ Login(f) \/ CreateDraft(f) \/ AddLots(f) \/ LotsNext(f)
  BY <1>1, <1>2 DEF SaveDraft, Login, CreateDraft, AddLots, LotsNext, HttpSteps, Places
<1>3. CASE Beneficiary(f) \/ DocsNext(f) \/ GetEncrInfo(f) \/ PriceoffersNext(f) \/ MarkReady(f)
  BY <1>1, <1>3 DEF Beneficiary, DocsNext, GetEncrInfo, PriceoffersNext, MarkReady, HttpSteps,
                    Places, Ended
<1> QED
  BY <1>2, <1>3 DEF PostStep

LEMMA AddEncryptFacts ==
    ASSUME TypeOK, NEW f \in Flows, AddEncrypt(f)
    PROVE  /\ at' \in [Flows -> Places]
           /\ at[f] = "addEncrypt" /\ at'[f] \in {"cms", "failed"}
           /\ \A g \in Flows \ {f} : at'[g] = at[g]
           /\ kept' \in [Flows -> SUBSET {"price", "signature"}]
           /\ price[f] = "junk" => kept'[f] = kept[f]
           /\ \A g \in Flows \ {f} : kept'[g] = kept[g]
           /\ UNCHANGED <<hooks, sign, price, history>>
<1>1. "failed" \in Places /\ "cms" \in Places
  BY DEF Places, Ended
<1>2. CASE price[f] = "junk" /\ at[f] = "addEncrypt"
  BY <1>1, <1>2, GotoFacts DEF AddEncrypt, TypeOK
<1>3. CASE ~(price[f] = "junk" /\ at[f] = "addEncrypt")
  <2>1. PostAndKeep(f, "addEncrypt", "cms", "price")
    BY <1>3 DEF AddEncrypt
  <2>2. /\ kept' \in [Flows -> SUBSET {"price", "signature"}]
        /\ \A g \in Flows \ {f} : kept'[g] = kept[g]
    BY <2>1 DEF PostAndKeep, TypeOK
  <2> QED
    BY <1>1, <1>3, <2>1, <2>2, GotoFacts DEF PostAndKeep
<1> QED
  BY <1>2, <1>3

LEMMA SaveSignsFacts ==
    ASSUME TypeOK, NEW f \in Flows, SaveGammaSigns(f)
    PROVE  /\ at' \in [Flows -> Places]
           /\ at[f] = "saveSigns" /\ at'[f] \in {"offers", "failed"}
           /\ \A g \in Flows \ {f} : at'[g] = at[g]
           /\ kept' \in [Flows -> SUBSET {"price", "signature"}]
           /\ \A g \in Flows : "price" \in kept'[g] => "price" \in kept[g]
           /\ UNCHANGED <<hooks, sign, price, history>>
<1>1. "failed" \in Places /\ "offers" \in Places
  BY DEF Places, Ended, HttpSteps
<1>2. PostAndKeep(f, "saveSigns", "offers", "signature")
  BY DEF SaveGammaSigns
<1>3. /\ kept' \in [Flows -> SUBSET {"price", "signature"}]
      /\ \A g \in Flows : "price" \in kept'[g] => "price" \in kept[g]
  <2>1. CASE UNCHANGED kept
    BY <2>1 DEF TypeOK
  <2>2. CASE kept' = [kept EXCEPT ![f] = @ \cup {"signature"}]
    <3>1. kept'[f] = kept[f] \cup {"signature"} /\ \A g \in Flows \ {f} : kept'[g] = kept[g]
      BY <2>2 DEF TypeOK
    <3>2. kept' \in [Flows -> SUBSET {"price", "signature"}]
      BY <2>2 DEF TypeOK
    <3> QED
      BY <3>1, <3>2
  <2> QED
    BY <1>2, <2>1, <2>2 DEF PostAndKeep
<1> QED
  BY <1>1, <1>2, <1>3, GotoFacts DEF PostAndKeep

\* A request goes out through an open socket, or its flow ends.
LEMMA RequestFacts ==
    ASSUME TypeOK, NEW h \in Hooks, NEW f \in Flows, NEW place \in {"sign", "cms", "encrypt"},
           NEW wait \in Places, Request(h, f, place, wait)
    PROVE  /\ at[f] = place
           /\ at' \in [Flows -> Places]
           /\ \A g \in Flows \ {f} : at'[g] = at[g]
           /\ status' \in [Hooks -> Statuses]
           /\ \A k \in Hooks \ {h} : status'[k] = status[k]
           /\ handler' \in [Hooks -> {NoHandler, Greeting} \cup Flows]
           /\ queue' \in [Hooks -> Seq(Messages)]
           /\ \A k \in Hooks \ {h} : queue'[k] = queue[k] /\ handler'[k] = handler[k]
           /\ \/ /\ socket[h] = "open" /\ at'[f] = wait
                 /\ handler'[h] = f /\ queue'[h] = Append(queue[h], f)
              \/ /\ at'[f] = "failed" /\ handler'[h] = handler[h] /\ queue'[h] = queue[h]
                 /\ h = "cs" => status'[h] = status[h]
           /\ UNCHANGED <<socket, sign, price, kept, history>>
<1>1. "failed" \in Places /\ at[f] = place /\ UNCHANGED <<socket, sign, price, kept, history>>
  BY DEF Request, Places, Ended
<1>2. queue \in [Hooks -> Seq(Messages)] /\ f \in Messages
  BY DEF TypeOK, Messages
<1>3. CASE socket[h] = "open"
  <2>1. /\ Goto(f, wait)
        /\ Show(h, IF h = "nca" THEN "signing" ELSE "encrypting")
        /\ handler' = [handler EXCEPT ![h] = f]
        /\ queue' = [queue EXCEPT ![h] = Append(@, f)]
    BY <1>3 DEF Request
  <2>2. /\ status' \in [Hooks -> Statuses] /\ \A k \in Hooks \ {h} : status'[k] = status[k]
    BY <2>1, ShowFacts DEF Statuses
  <2>3. /\ handler' \in [Hooks -> {NoHandler, Greeting} \cup Flows] /\ handler'[h] = f
        /\ \A k \in Hooks \ {h} : handler'[k] = handler[k]
    BY <2>1 DEF TypeOK
  <2>4. /\ queue' \in [Hooks -> Seq(Messages)] /\ queue'[h] = Append(queue[h], f)
        /\ \A k \in Hooks \ {h} : queue'[k] = queue[k]
    BY <1>2, <2>1
  <2> QED
    BY <1>1, <1>3, <2>1, <2>2, <2>3, <2>4, GotoFacts
<1>4. CASE socket[h] # "open"
  <2>1. /\ Goto(f, "failed") /\ UNCHANGED <<handler, queue>>
        /\ (h = "nca" /\ Show(h, "connected")) \/ (h # "nca" /\ UNCHANGED status)
    BY <1>4 DEF Request
  <2>2. /\ status' \in [Hooks -> Statuses] /\ (h = "cs" => status'[h] = status[h])
        /\ \A k \in Hooks \ {h} : status'[k] = status[k]
    BY <2>1, ShowFacts DEF TypeOK, Statuses
  <2> QED
    BY <1>1, <1>2, <2>1, <2>2, GotoFacts DEF TypeOK
<1> QED
  BY <1>3, <1>4

\* The message at the head of the queue resolves the promise of flow f.
LEMMA ReplyFacts ==
    ASSUME TypeOK, NEW h \in Hooks, NEW f \in Flows, Reply(h, f)
    PROVE  /\ queue[h] # <<>> /\ Head(queue[h]) \in Messages
           /\ queue' \in [Hooks -> Seq(Messages)] /\ queue'[h] = Tail(queue[h])
           /\ \A k \in Hooks \ {h} : queue'[k] = queue[k]
           /\ status' \in [Hooks -> Statuses]
           /\ \A k \in Hooks \ {h} : status'[k] = status[k]
           /\ crossed' \in BOOLEAN /\ (crossed => crossed')
           /\ Head(queue[h]) # f => crossed'
           /\ UNCHANGED <<socket, kept, orphaned>>
<1>1. queue \in [Hooks -> Seq(Messages)]
  BY DEF TypeOK, Messages
<1>2. queue[h] # <<>> /\ Show(h, "connected") /\ UNCHANGED <<socket, kept, orphaned>>
  BY DEF Reply
<1>3. queue[h] \in Seq(Messages) /\ Tail(queue[h]) \in Seq(Messages)
      /\ Head(queue[h]) \in Messages
  BY <1>1, <1>2
<1>4. queue' = [queue EXCEPT ![h] = Tail(queue[h])]
  BY DEF Reply
<1>5. crossed' \in BOOLEAN /\ (crossed => crossed') /\ (Head(queue[h]) # f => crossed')
  BY DEF Reply, TypeOK
<1> QED
  BY <1>1, <1>2, <1>3, <1>4, <1>5, ShowFacts DEF Statuses

LEMMA ContentFacts ==
    ASSUME NEW f \in Flows, NEW m, NEW r \in Content(f, m)
    PROVE  /\ r \in {"own", "other", "junk"}
           /\ r = "other" => m # f
           /\ r = "junk" \/ m # Greeting
BY DEF Content

\* The three replies: what a flow makes of a message, and where it goes on.
LEMMA AnswerFacts ==
    ASSUME TypeOK, NEW f \in Flows,
           SignXml(f) \/ CreateCMSSignature(f) \/ EncryptOfferPrice(f)
    PROVE  /\ at' \in [Flows -> Places] /\ \A g \in Flows \ {f} : at'[g] = at[g]
           /\ handler' \in [Hooks -> {NoHandler, Greeting} \cup Flows]
           /\ sign' \in [Flows -> Results] /\ price' \in [Flows -> Results]
           /\ \A g \in Flows \ {f} : price'[g] = price[g]
           /\ \/ /\ Reply("nca", f) /\ price'[f] = price[f]
                 /\ at[f] = "signing" /\ at'[f] \in {"login", "failed"}
              \/ /\ Reply("nca", f) /\ price'[f] = price[f]
                 /\ at[f] = "cmsing" /\ at'[f] \in {"saveSigns", "failed"}
              \/ /\ Reply("cs", f) /\ at[f] = "encrypting"
                 /\ \/ at'[f] = "failed" /\ price'[f] = price[f]
                    \/ /\ at'[f] = "addEncrypt" /\ price'[f] # "none"
                       /\ price'[f] = "other" => Head(queue["cs"]) # f
<1>1. CASE SignXml(f)
  <2>1. PICK r \in Content(f, Head(queue["nca"])) :
           /\ sign' = [sign EXCEPT ![f] = r]
           /\ Goto(f, "login") \/ (r = "junk" /\ Goto(f, "failed"))
    BY <1>1 DEF SignXml
  <2>2. sign' \in [Flows -> Results]
    BY <2>1, ContentFacts DEF TypeOK, Results
  <2>3. at' \in [Flows -> Places] /\ at'[f] \in {"login", "failed"}
        /\ \A g \in Flows \ {f} : at'[g] = at[g]
    BY <2>1, GotoFacts DEF Places, Ended, HttpSteps
  <2> QED
    BY <1>1, <2>2, <2>3 DEF SignXml, TypeOK
<1>2. CASE CreateCMSSignature(f)
  <2>1. PICK r \in Content(f, Head(queue["nca"])) :
           sign' = [sign EXCEPT ![f] = r] /\ (Goto(f, "saveSigns") \/ Goto(f, "failed"))
    BY <1>2 DEF CreateCMSSignature
  <2>2. sign' \in [Flows -> Results]
    BY <2>1, ContentFacts DEF TypeOK, Results
  <2>3. at' \in [Flows -> Places] /\ at'[f] \in {"saveSigns", "failed"}
        /\ \A g \in Flows \ {f} : at'[g] = at[g]
    BY <2>1, GotoFacts DEF Places, Ended, HttpSteps
  <2> QED
    BY <1>2, <2>2, <2>3 DEF CreateCMSSignature, TypeOK
<1>3. CASE EncryptOfferPrice(f)
  <2>1. handler' \in [Hooks -> {NoHandler, Greeting} \cup Flows] /\ sign' \in [Flows -> Results]
    BY <1>3 DEF EncryptOfferPrice, TypeOK
  <2>2. PICK r \in Content(f, Head(queue["cs"])) :
           \/ price' = [price EXCEPT ![f] = r] /\ Goto(f, "addEncrypt")
           \/ Goto(f, "failed") /\ UNCHANGED price
    BY <1>3 DEF EncryptOfferPrice
  <2>3. CASE price' = [price EXCEPT ![f] = r] /\ Goto(f, "addEncrypt")
    <3>1. /\ price' \in [Flows -> Results] /\ price'[f] = r
          /\ \A g \in Flows \ {f} : price'[g] = price[g]
      BY <2>2, <2>3, ContentFacts DEF TypeOK, Results
    <3>2. at' \in [Flows -> Places] /\ at'[f] = "addEncrypt"
          /\ \A g \in Flows \ {f} : at'[g] = at[g]
      BY <2>3, GotoFacts DEF Places, HttpSteps
    <3> QED
      BY <1>3, <2>1, <2>2, <3>1, <3>2, ContentFacts DEF EncryptOfferPrice
  <2>4. CASE Goto(f, "failed") /\ UNCHANGED price
    <3>1. at' \in [Flows -> Places] /\ at'[f] = "failed"
          /\ \A g \in Flows \ {f} : at'[g] = at[g]
      BY <2>4, GotoFacts DEF Places, Ended
    <3> QED
      BY <1>3, <2>1, <2>4, <3>1 DEF EncryptOfferPrice, TypeOK
  <2> QED
    BY <2>2, <2>3, <2>4
<1> QED
  BY <1>1, <1>2, <1>3

\* The variables keep their types: no hook, promise or flow gets into a state that the
\* page does not know.
THEOREM TypeCorrect == Spec => []TypeOK
<1>1. Init => TypeOK
  <2> SUFFICES ASSUME Init PROVE TypeOK
    OBVIOUS
  <2>1. queue \in [Hooks -> Seq({Greeting} \cup Flows)]
    BY DEF Init
  <2>2. kept \in [Flows -> SUBSET {"price", "signature"}]
    BY DEF Init
  <2> QED
    BY <2>1, <2>2 DEF Init, TypeOK, Places, Ended, Results
<1>2. TypeOK /\ [Next]_vars => TypeOK'
  <2> SUFFICES ASSUME TypeOK, [Next]_vars PROVE TypeOK'
    OBVIOUS
  <2>1. CASE UNCHANGED vars
    BY <2>1 DEF TypeOK, vars, hooks, flow, history
  <2>2. ASSUME NEW h \in Hooks, Connect(h) \/ Opened(h) \/ Closes(h) PROVE TypeOK'
    <3>1. status' \in [Hooks -> Statuses]
      BY <2>2, ShowFacts DEF TypeOK, Connect, Opened, Closes, Statuses
    <3>2. socket' \in [Hooks -> {"none", "opening", "open"}]
      BY <2>2 DEF TypeOK, Connect, Opened, Closes
    <3>3. handler' \in [Hooks -> {NoHandler, Greeting} \cup Flows]
      BY <2>2 DEF TypeOK, Connect, Opened, Closes
    <3>4. queue' \in [Hooks -> Seq({Greeting} \cup Flows)]
      <4>1. <<>> \in Seq({Greeting} \cup Flows) /\ <<Greeting>> \in Seq({Greeting} \cup Flows)
        OBVIOUS
      <4>2. \/ queue' = queue \/ queue' = [queue EXCEPT ![h] = <<>>]
            \/ queue' = [queue EXCEPT ![h] = <<Greeting>>]
        BY <2>2 DEF Connect, Opened, Closes
      <4> QED
        BY <4>1, <4>2 DEF TypeOK
    <3>5. orphaned' \in SUBSET Flows /\ UNCHANGED <<at, sign, price, kept, crossed>>
      BY <2>2 DEF TypeOK, Connect, Opened, Closes, Orphan, flow, history
    <3> QED
      BY <3>1, <3>2, <3>3, <3>4, <3>5 DEF TypeOK, Statuses
  <2>3. ASSUME NEW h \in Hooks, Greeted(h) \/ Ignored(h) PROVE TypeOK'
    <3>1. queue[h] # <<>> /\ queue[h] \in Seq({Greeting} \cup Flows)
          /\ queue' = [queue EXCEPT ![h] = Tail(queue[h])]
      BY <2>3 DEF TypeOK, Greeted, Ignored
    <3>2. queue' \in [Hooks -> Seq({Greeting} \cup Flows)]
      <4>1. Tail(queue[h]) \in Seq({Greeting} \cup Flows)
        BY <3>1
      <4> QED
        BY <3>1, <4>1 DEF TypeOK
    <3>3. status' \in [Hooks -> Statuses]
      BY <2>3, ShowFacts DEF TypeOK, Greeted, Ignored, Statuses
    <3>4. handler' \in [Hooks -> {NoHandler, Greeting} \cup Flows]
      BY <2>3 DEF TypeOK, Greeted, Ignored
    <3>5. UNCHANGED <<socket, at, sign, price, kept, crossed, orphaned>>
      BY <2>3 DEF Greeted, Ignored, flow, history
    <3> QED
      BY <3>2, <3>3, <3>4, <3>5 DEF TypeOK, Statuses
  <2>4. ASSUME NEW f \in Flows, SignXml(f) \/ CreateCMSSignature(f) \/ EncryptOfferPrice(f)
        PROVE TypeOK'
    <3>1. PICK h \in Hooks : Reply(h, f)
      BY <2>4, AnswerFacts DEF Hooks
    <3> QED
      BY <2>4, <3>1, AnswerFacts, ReplyFacts DEF TypeOK, Statuses, Messages
  <2>5. ASSUME NEW f \in Flows, HandleSign(f) PROVE TypeOK'
    <3>1. at' \in [Flows -> Places]
      BY <2>5, GotoFacts DEF HandleSign, Places, HttpSteps
    <3> QED
      BY <2>5, <3>1 DEF TypeOK, HandleSign, hooks, history
  <2>6. ASSUME NEW f \in Flows, NEW h \in Hooks, NEW place \in {"sign", "cms", "encrypt"},
               NEW wait \in Places, Request(h, f, place, wait)
        PROVE TypeOK'
    BY <2>6, RequestFacts DEF TypeOK, Statuses, Messages, history
  <2>7. ASSUME NEW f \in Flows, PostStep(f) PROVE TypeOK'
    BY <2>7, PostFacts DEF TypeOK, hooks, history
  <2>8. ASSUME NEW f \in Flows, AddEncrypt(f) \/ SaveGammaSigns(f) PROVE TypeOK'
    BY <2>8, AddEncryptFacts, SaveSignsFacts DEF TypeOK, hooks, history
  <2> QED
    BY NextCases, <2>1, <2>2, <2>3, <2>4, <2>5, <2>6, <2>7, <2>8 DEF Hooks, Places
<1> QED
  BY <1>1, <1>2, PTL DEF Spec
-----------------------------------------------------------------------------
\* While the page shows CryptoSocket as connected there is a connection, however often
\* both programs are lost and connected again.
THEOREM ConnectedSafe == Spec => []CryptoConnected
<1>1. Init => SocketInv
  BY DEF Init, SocketInv, CryptoConnected, Hooks
<1>2. TypeOK /\ SocketInv /\ [Next]_vars => SocketInv'
  <2> SUFFICES ASSUME TypeOK, SocketInv, [Next]_vars PROVE SocketInv'
    OBVIOUS
  <2>0. "cs" \in Hooks
    BY DEF Hooks
  \* Steps that leave the sockets alone and show no connection that is not there.
  <2>1. ASSUME UNCHANGED socket,
               \A h \in Hooks : queue'[h] # <<>> => queue[h] # <<>> \/ socket[h] = "open",
               status'["cs"] = status["cs"] \/ socket["cs"] = "open"
        PROVE  SocketInv'
    BY <2>0, <2>1 DEF SocketInv, CryptoConnected
  <2>2. CASE UNCHANGED vars
    BY <2>1, <2>2 DEF vars, hooks
  <2>3. ASSUME NEW h \in Hooks, Connect(h) PROVE SocketInv'
    <3>1. /\ socket[h] = "none" /\ socket'[h] = "opening"
          /\ \A k \in Hooks \ {h} : socket'[k] = socket[k]
          /\ queue' = queue /\ (h = "cs" => status'["cs"] = "connecting")
          /\ (h # "cs" => status'["cs"] = status["cs"])
      BY <2>0, <2>3, ShowFacts DEF TypeOK, Connect, Statuses
    <3> QED
      BY <2>0, <3>1 DEF SocketInv, CryptoConnected
  <2>4. ASSUME NEW h \in Hooks, Opened(h) PROVE SocketInv'
    <3>1. /\ socket'[h] = "open" /\ \A k \in Hooks \ {h} : socket'[k] = socket[k]
          /\ \A k \in Hooks \ {h} : queue'[k] = queue[k] /\ status'[k] = status[k]
      BY <2>4, ShowFacts DEF TypeOK, Opened, Statuses
    <3> QED
      BY <2>0, <3>1 DEF SocketInv, CryptoConnected
  <2>5. ASSUME NEW h \in Hooks, Closes(h) PROVE SocketInv'
    <3>1. /\ queue'[h] = <<>> /\ \A k \in Hooks \ {h} : socket'[k] = socket[k]
          /\ \A k \in Hooks \ {h} : queue'[k] = queue[k] /\ status'[k] = status[k]
          /\ status'[h] \in {"error", "disconnected"}
      BY <2>5, ShowFacts DEF TypeOK, Closes, Statuses
    <3> QED
      BY <2>0, <3>1 DEF SocketInv, CryptoConnected
  <2>6. ASSUME NEW h \in Hooks, Greeted(h) \/ Ignored(h) PROVE SocketInv'
    <3>1. socket' = socket /\ socket[h] = "open"
      BY <2>6 DEF SocketInv, Greeted, Ignored
    <3>2. \A k \in Hooks \ {h} : queue'[k] = queue[k] /\ status'[k] = status[k]
      BY <2>6, ShowFacts DEF TypeOK, Greeted, Ignored, Statuses
    <3> QED
      BY <2>0, <2>1, <3>1, <3>2
  <2>7. ASSUME NEW f \in Flows, SignXml(f) \/ CreateCMSSignature(f) \/ EncryptOfferPrice(f)
        PROVE SocketInv'
    <3>1. PICK h \in Hooks : Reply(h, f)
      BY <2>7, AnswerFacts DEF Hooks
    <3>2. socket[h] = "open"
      BY <3>1, ReplyFacts DEF SocketInv
    <3> QED
      BY <2>0, <2>1, <3>1, <3>2, ReplyFacts
  <2>8. ASSUME NEW f \in Flows, NEW h \in Hooks, NEW place \in {"sign", "cms", "encrypt"},
               NEW wait \in Places, Request(h, f, place, wait)
        PROVE SocketInv'
    BY <2>0, <2>1, <2>8, RequestFacts
  <2>9. ASSUME NEW f \in Flows,
               HandleSign(f) \/ PostStep(f) \/ AddEncrypt(f) \/ SaveGammaSigns(f)
        PROVE SocketInv'
    <3>1. UNCHANGED <<status, socket, queue>>
      BY <2>9, PostFacts, AddEncryptFacts, SaveSignsFacts DEF HandleSign, hooks
    <3> QED
      BY <2>1, <3>1
  <2> QED
    BY NextCases, <2>2, <2>3, <2>4, <2>5, <2>6, <2>7, <2>8, <2>9 DEF Hooks, Places
<1>3. SocketInv => CryptoConnected
  BY DEF SocketInv
<1> QED
  BY <1>1, <1>2, <1>3, TypeCorrect, PTL DEF Spec
-----------------------------------------------------------------------------
\* The portal never keeps as an encrypted price what no encryption gave, and keeps
\* another flow's only if a socket handed a message to the wrong one.
THEOREM PriceSafe == Spec => []SavedPriceIsEncrypted
<1>1. Init => PriceInv
  BY DEF Init, PriceInv
<1>2. TypeOK /\ PriceInv /\ [Next]_vars => PriceInv'
  <2> SUFFICES ASSUME TypeOK, PriceInv, [Next]_vars PROVE PriceInv'
    OBVIOUS
  <2>1. CASE UNCHANGED <<at, price, kept, crossed>>
    BY <2>1 DEF PriceInv
  \* A flow moves on and gets no price.
  <2>2. ASSUME NEW f \in Flows, UNCHANGED <<price, kept>>, crossed => crossed',
               at'[f] # "addEncrypt", at[f] \in PastPrice => at'[f] \in PastPrice,
               \A g \in Flows \ {f} : at'[g] = at[g]
        PROVE  PriceInv'
    BY <2>2 DEF PriceInv
  <2>3. CASE \/ UNCHANGED vars
             \/ \E h \in Hooks : Connect(h) \/ Opened(h) \/ Closes(h) \/ Greeted(h) \/ Ignored(h)
    BY <2>1, <2>3 DEF vars, flow, history, Connect, Opened, Closes, Greeted, Ignored
  <2>4. ASSUME NEW f \in Flows, SignXml(f) \/ CreateCMSSignature(f) \/ EncryptOfferPrice(f)
        PROVE PriceInv'
    <3>1. CASE at'[f] # "addEncrypt"
      <4>1. price'[f] = price[f] /\ (at[f] \in PastPrice => at'[f] \in PastPrice)
        BY <2>4, <3>1, AnswerFacts DEF PastPrice
      <4>2. price' = price
        BY <2>4, <4>1, AnswerFacts DEF TypeOK
      <4>3. UNCHANGED kept /\ (crossed => crossed')
        BY <2>4, AnswerFacts, ReplyFacts DEF Hooks
      <4> QED
        BY <2>2, <2>4, <3>1, <4>1, <4>2, <4>3, AnswerFacts
    <3>2. CASE at'[f] = "addEncrypt"
      <4>1. /\ Reply("cs", f) /\ at[f] = "encrypting" /\ price'[f] # "none"
            /\ price'[f] = "other" => Head(queue["cs"]) # f
        BY <2>4, <3>2, AnswerFacts
      <4>2. /\ UNCHANGED kept /\ (crossed => crossed')
            /\ Head(queue["cs"]) # f => crossed'
        BY <4>1, ReplyFacts DEF Hooks
      <4>3. "price" \notin kept[f]
        BY <4>1 DEF PriceInv, PastPrice
      <4> QED
        BY <2>4, <4>1, <4>2, <4>3, AnswerFacts DEF PriceInv
    <3> QED
      BY <3>1, <3>2
  <2>5. ASSUME NEW f \in Flows, HandleSign(f) PROVE PriceInv'
    <3>1. /\ at[f] = "idle" /\ at'[f] = "create"
          /\ \A g \in Flows \ {f} : at'[g] = at[g]
          /\ UNCHANGED <<price, kept, crossed>>
      BY <2>5, GotoFacts DEF HandleSign, history, Places, HttpSteps
    <3> QED
      BY <2>2, <3>1 DEF PastPrice
  <2>6. ASSUME NEW f \in Flows, NEW h \in Hooks, NEW place \in {"sign", "cms", "encrypt"},
               NEW wait \in {"signing", "cmsing", "encrypting"},
               Request(h, f, place, wait), place = "cms" => wait = "cmsing"
        PROVE PriceInv'
    <3>1. wait \in Places
      BY DEF Places
    <3>2. at'[f] \in {wait, "failed"} /\ at[f] = place
      BY <2>6, <3>1, RequestFacts
    <3>3. at[f] \in PastPrice => at'[f] \in PastPrice
      BY <2>6, <3>2 DEF PastPrice
    <3> QED
      BY <2>2, <2>6, <3>1, <3>2, <3>3, RequestFacts DEF history
  <2>7. ASSUME NEW f \in Flows, PostStep(f) PROVE PriceInv'
    BY <2>2, <2>7, PostFacts DEF history
  <2>8. ASSUME NEW f \in Flows, AddEncrypt(f) PROVE PriceInv'
    <3>1. /\ price[f] \in Results /\ price[f] # "none"
      BY <2>8, AddEncryptFacts DEF TypeOK, PriceInv
    <3>2. "price" \in kept'[f] => price[f] \in {"own", "other"}
      BY <2>8, <3>1, AddEncryptFacts DEF PriceInv, Results
    <3>3. at'[f] \in PastPrice /\ at'[f] # "addEncrypt" /\ UNCHANGED <<price, crossed>>
      BY <2>8, AddEncryptFacts DEF PastPrice, history
    <3> QED
      BY <2>8, <3>2, <3>3, AddEncryptFacts DEF PriceInv
  <2>9. ASSUME NEW f \in Flows, SaveGammaSigns(f) PROVE PriceInv'
    <3>1. at[f] \in PastPrice /\ at'[f] \in PastPrice /\ at'[f] # "addEncrypt"
      BY <2>9, SaveSignsFacts DEF PastPrice
    <3>2. UNCHANGED <<price, crossed>>
      BY <2>9, SaveSignsFacts DEF history
    <3> QED
      BY <2>9, <3>1, <3>2, SaveSignsFacts DEF PriceInv
  <2> QED
    BY NextCases, <2>3, <2>4, <2>5, <2>6, <2>7, <2>8, <2>9 DEF Hooks
<1>3. PriceInv => SavedPriceIsEncrypted
  BY DEF PriceInv, SavedPriceIsEncrypted
<1> QED
  BY <1>1, <1>2, <1>3, TypeCorrect, PTL DEF Spec
-----------------------------------------------------------------------------
\* One flow at a time, and what a program has to answer is awaited.
LEMMA QueueInvariant == Spec => []QueueInv
<1>1. Init => QueueInv
  <2> SUFFICES ASSUME Init PROVE QueueInv
    OBVIOUS
  <2>1. \A h \in Hooks : queue[h] = <<>>
    BY DEF Init
  <2>2. \A h \in Hooks : 1..Len(queue[h]) = {}
    BY <2>1
  <2>3. \A f \in Flows : at[f] \in Ended
    BY DEF Init, Ended
  <2> QED
    BY <2>2, <2>3 DEF QueueInv, OneRequest
<1>2. TypeOK /\ QueueInv /\ [Next]_vars => QueueInv'
  <2> SUFFICES ASSUME TypeOK, QueueInv, [Next]_vars PROVE QueueInv'
    OBVIOUS
  <2>1. CASE UNCHANGED <<at, queue, crossed>>
    BY <2>1 DEF QueueInv, OneRequest
  <2>2. CASE UNCHANGED vars \/ \E h \in Hooks : Connect(h)
    BY <2>1, <2>2 DEF vars, hooks, flow, history, Connect
  \* The socket of h is opened or closed.
  <2>3. ASSUME NEW h \in Hooks, Opened(h) \/ Closes(h) PROVE QueueInv'
    <3>1. /\ UNCHANGED <<at, crossed>>
          /\ \A k \in Hooks \ {h} : queue'[k] = queue[k]
          /\ queue'[h] = <<>> \/ queue'[h] = <<Greeting>>
      BY <2>3 DEF TypeOK, Opened, Closes, flow, history
    <3>2. \A i \in 1..Len(queue'[h]) : queue'[h][i] = Greeting
      BY <3>1
    <3> QED
      BY <3>1, <3>2 DEF QueueInv, OneRequest
  <2>4. ASSUME NEW h \in Hooks, Greeted(h) \/ Ignored(h) PROVE QueueInv'
    <3>1. /\ UNCHANGED <<at, crossed>> /\ queue[h] # <<>> /\ queue'[h] = Tail(queue[h])
          /\ \A k \in Hooks \ {h} : queue'[k] = queue[k]
      BY <2>4 DEF TypeOK, Greeted, Ignored, flow, history
    <3>2. /\ Len(queue[h]) \in Nat /\ Len(queue'[h]) = Len(queue[h]) - 1
          /\ \A i \in 1..Len(queue'[h]) : queue'[h][i] = queue[h][i + 1]
      BY <3>1 DEF TypeOK
    <3>3. \A i \in 1..Len(queue'[h]) : i + 1 \in 1..Len(queue[h])
      BY <3>2
    <3>4. ~crossed => \A i, j \in 1..Len(queue'[h]) :
             Greeting \notin {queue'[h][i], queue'[h][j]} => i = j
      <4> SUFFICES ASSUME ~crossed, NEW i \in 1..Len(queue'[h]), NEW j \in 1..Len(queue'[h]),
                          Greeting \notin {queue'[h][i], queue'[h][j]}
                   PROVE  i = j
        OBVIOUS
      <4>1. i + 1 = j + 1
        BY <3>2, <3>3 DEF QueueInv, OneRequest
      <4> QED
        BY <4>1, <3>2
    <3>5. ~crossed => \A i \in 1..Len(queue'[h]) :
             queue'[h][i] # Greeting => at[queue'[h][i]] \in Awaiting(h)
      BY <3>2, <3>3 DEF QueueInv
    <3> QED
      BY <3>1, <3>4, <3>5 DEF QueueInv, OneRequest, Awaiting
  <2>5. ASSUME NEW f \in Flows, SignXml(f) \/ CreateCMSSignature(f) \/ EncryptOfferPrice(f)
        PROVE QueueInv'
    <3>1. PICK h \in Hooks : Reply(h, f) /\ at[f] \in Awaiting(h)
      BY <2>5, AnswerFacts DEF Hooks, Awaiting
    <3>2. /\ queue[h] # <<>> /\ queue'[h] = Tail(queue[h])
          /\ \A k \in Hooks \ {h} : queue'[k] = queue[k]
          /\ crossed => crossed'
          /\ Head(queue[h]) # f => crossed'
      BY <3>1, ReplyFacts
    <3>3. /\ Len(queue[h]) \in Nat /\ Len(queue'[h]) = Len(queue[h]) - 1
          /\ \A i \in 1..Len(queue'[h]) : queue'[h][i] = queue[h][i + 1]
          /\ Head(queue[h]) = queue[h][1] /\ 1 \in 1..Len(queue[h])
      BY <3>2 DEF TypeOK
    <3>4. \A i \in 1..Len(queue'[h]) : i + 1 \in 1..Len(queue[h]) /\ i + 1 # 1
      BY <3>3
    <3>5. \A g, k \in Flows : at'[g] \notin Ended /\ at'[k] \notin Ended => g = k
      <4>1. at[f] \notin Ended
        BY <3>1 DEF Awaiting, Ended
      <4> QED
        BY <2>5, <4>1, AnswerFacts DEF QueueInv
    <3>6. ASSUME ~crossed'
          PROVE  /\ \A i \in 1..Len(queue'[h]) : queue'[h][i] = Greeting
                 /\ \A k \in Hooks \ {h} : \A i \in 1..Len(queue[k]) :
                       queue[k][i] # Greeting =>
                          queue[k][i] # f /\ queue[k][i] \in Flows
                          /\ at[queue[k][i]] \in Awaiting(k)
      <4>1. ~crossed /\ queue[h][1] = f /\ f # Greeting
        BY <3>2, <3>3, <3>6, GreetingApart
      <4>2. \A i \in 1..Len(queue'[h]) : queue'[h][i] = Greeting
        BY <3>3, <3>4, <4>1 DEF QueueInv, OneRequest
      <4>3. ASSUME NEW k \in Hooks \ {h}, NEW i \in 1..Len(queue[k]), queue[k][i] # Greeting
            PROVE  queue[k][i] # f /\ queue[k][i] \in Flows /\ at[queue[k][i]] \in Awaiting(k)
        <5>1. at[queue[k][i]] \in Awaiting(k)
          BY <4>1, <4>3 DEF QueueInv
        <5>2. queue[k][i] \in Flows
          BY <4>3 DEF TypeOK
        <5>3. at[f] \notin Awaiting(k)
          BY <3>1 DEF Hooks, Awaiting
        <5> QED
          BY <5>1, <5>2, <5>3
      <4> QED
        BY <4>2, <4>3
    <3>7. ~crossed' => \A k \in Hooks : \A i \in 1..Len(queue'[k]) :
             queue'[k][i] # Greeting => at'[queue'[k][i]] \in Awaiting(k)
      <4> SUFFICES ASSUME ~crossed', NEW k \in Hooks, NEW i \in 1..Len(queue'[k]),
                          queue'[k][i] # Greeting
                   PROVE  at'[queue'[k][i]] \in Awaiting(k)
        OBVIOUS
      <4>1. k # h /\ queue'[k] = queue[k]
        BY <3>2, <3>6
      <4>2. queue[k][i] \in Flows \ {f} /\ at[queue[k][i]] \in Awaiting(k)
        BY <3>6, <4>1
      <4>3. \A g \in Flows \ {f} : at'[g] = at[g]
        BY <2>5, AnswerFacts
      <4> QED
        BY <4>1, <4>2, <4>3
    <3>8. OneRequest'
      BY <3>2, <3>6 DEF OneRequest, QueueInv
    <3> QED
      BY <3>5, <3>7, <3>8 DEF QueueInv, Awaiting
  \* A flow that awaits nothing is in no queue: it moves without being missed.
  <2>6. ASSUME NEW f \in Flows, UNCHANGED <<queue, crossed>>,
               \A h \in Hooks : at[f] \notin Awaiting(h),
               \A g \in Flows \ {f} : at'[g] = at[g],
               at[f] \notin Ended \/ \A g \in Flows : at[g] \in Ended
        PROVE  QueueInv'
    <3>1. \A g, k \in Flows : at'[g] \notin Ended /\ at'[k] \notin Ended => g = k
      BY <2>6 DEF QueueInv
    <3>2. ASSUME ~crossed, NEW h \in Hooks, NEW i \in 1..Len(queue[h]), queue[h][i] # Greeting
          PROVE  at'[queue[h][i]] \in Awaiting(h)
      <4>1. queue[h][i] \in Flows
        BY <3>2 DEF TypeOK
      <4>2. at[queue[h][i]] \in Awaiting(h)
        BY <3>2 DEF QueueInv
      <4> QED
        BY <2>6, <4>1, <4>2
    <3> QED
      BY <2>6, <3>1, <3>2 DEF QueueInv, OneRequest, Awaiting
  <2>7. ASSUME NEW f \in Flows, HandleSign(f) PROVE QueueInv'
    <3>1. /\ at[f] = "idle" /\ \A g \in Flows : at[g] \in Ended
          /\ \A g \in Flows \ {f} : at'[g] = at[g]
          /\ UNCHANGED <<queue, crossed>>
      BY <2>7, GotoFacts DEF HandleSign, CanSign, Loading, hooks, history, Places, HttpSteps
    <3> QED
      BY <2>6, <3>1 DEF Awaiting
  <2>8. ASSUME NEW f \in Flows, NEW h \in Hooks, NEW place \in {"sign", "cms", "encrypt"},
               NEW wait \in Places, Request(h, f, place, wait), wait \in Awaiting(h)
        PROVE QueueInv'
    <3>1. /\ at[f] = place /\ at[f] \notin Ended
          /\ \A k \in Hooks : at[f] \notin Awaiting(k)
          /\ \A g \in Flows \ {f} : at'[g] = at[g]
          /\ UNCHANGED crossed
          /\ \A k \in Hooks \ {h} : queue'[k] = queue[k]
      <4>1. /\ at[f] = place /\ \A g \in Flows \ {f} : at'[g] = at[g]
            /\ \A k \in Hooks \ {h} : queue'[k] = queue[k]
        BY <2>8, RequestFacts
      <4>2. UNCHANGED crossed
        BY <2>8, RequestFacts DEF history
      <4> QED
        BY <4>1, <4>2 DEF Awaiting, Ended
    <3>2. CASE at'[f] = "failed" /\ queue'[h] = queue[h]
      <4>1. queue' = queue
        BY <2>8, <3>1, <3>2, RequestFacts DEF TypeOK, Messages
      <4> QED
        BY <2>6, <3>1, <4>1
    <3>3. CASE at'[f] = wait /\ queue'[h] = Append(queue[h], f)
      <4>1. /\ Len(queue[h]) \in Nat /\ Len(queue'[h]) = Len(queue[h]) + 1
            /\ \A i \in 1..Len(queue[h]) : queue'[h][i] = queue[h][i]
            /\ queue'[h][Len(queue[h]) + 1] = f
        BY <3>3 DEF TypeOK
      <4>2. ASSUME ~crossed, NEW k \in Hooks, NEW i \in 1..Len(queue[k]), queue[k][i] # Greeting
            PROVE  queue[k][i] \in Flows \ {f} /\ at[queue[k][i]] \in Awaiting(k) /\ k # h
        <5>1. queue[k][i] \in Flows
          BY <4>2 DEF TypeOK
        <5>2. at[queue[k][i]] \in Awaiting(k)
          BY <4>2 DEF QueueInv
        <5>3. at[queue[k][i]] \notin Ended /\ queue[k][i] # f
          BY <3>1, <5>2 DEF Awaiting, Ended
        <5> QED
          BY <3>1, <5>1, <5>3 DEF QueueInv
      <4>3. \A g, k \in Flows : at'[g] \notin Ended /\ at'[k] \notin Ended => g = k
        BY <3>1 DEF QueueInv
      <4>4. ~crossed' => \A k \in Hooks : \A i \in 1..Len(queue'[k]) :
               queue'[k][i] # Greeting => at'[queue'[k][i]] \in Awaiting(k)
        <5> SUFFICES ASSUME ~crossed', NEW k \in Hooks, NEW i \in 1..Len(queue'[k]),
                            queue'[k][i] # Greeting
                     PROVE  at'[queue'[k][i]] \in Awaiting(k)
          OBVIOUS
        <5>1. CASE k = h /\ i = Len(queue[h]) + 1
          BY <2>8, <3>3, <4>1, <5>1
        <5>2. CASE ~(k = h /\ i = Len(queue[h]) + 1)
          <6>1. i \in 1..Len(queue[k]) /\ queue'[k][i] = queue[k][i]
            BY <3>1, <4>1, <5>2
          <6> QED
            BY <3>1, <4>2, <6>1
        <5> QED
          BY <5>1, <5>2
      <4>5. OneRequest'
        <5> SUFFICES ASSUME ~crossed', NEW k \in Hooks, NEW i \in 1..Len(queue'[k]),
                            NEW j \in 1..Len(queue'[k]), queue'[k][i] # Greeting,
                            queue'[k][j] # Greeting
                     PROVE  i = j
          BY DEF OneRequest
        <5>1. CASE k = h
          <6>1. \A n \in 1..Len(queue[h]) : queue[h][n] = Greeting
            BY <3>1, <4>2
          <6>2. i \notin 1..Len(queue[h]) /\ j \notin 1..Len(queue[h])
            BY <4>1, <5>1, <6>1
          <6> QED
            BY <4>1, <5>1, <6>2
        <5>2. CASE k # h
          BY <3>1, <5>2 DEF QueueInv, OneRequest
        <5> QED
          BY <5>1, <5>2
      <4> QED
        BY <4>3, <4>4, <4>5 DEF QueueInv, Awaiting
    <3> QED
      BY <2>8, <3>2, <3>3, RequestFacts
  <2>9. ASSUME NEW f \in Flows, PostStep(f) \/ AddEncrypt(f) \/ SaveGammaSigns(f)
        PROVE QueueInv'
    <3>1. /\ at[f] \in HttpSteps /\ \A g \in Flows \ {f} : at'[g] = at[g]
          /\ UNCHANGED <<queue, crossed>>
      BY <2>9, PostFacts, AddEncryptFacts, SaveSignsFacts DEF hooks, history, HttpSteps
    <3> QED
      BY <2>6, <3>1 DEF HttpSteps, Awaiting, Ended
  <2> QED
    BY NextCases, <2>2, <2>3, <2>4, <2>5, <2>7, <2>8, <2>9 DEF Hooks, Places, Awaiting
<1> QED
  BY <1>1, <1>2, TypeCorrect, PTL DEF Spec

\* A program has one request at most to answer, unless a socket mistook a message for
\* a reply: for any number of presses, refusals and reconnections.
THEOREM OneRequestSafe == Spec => []OneRequest
<1>1. QueueInv => OneRequest
  BY DEF QueueInv
<1> QED
  BY <1>1, QueueInvariant, PTL
-----------------------------------------------------------------------------
\* WaitersAreServed and OrphansBlock: a waiting promise has its handler, until the
\* socket is closed under it, and then no handler is ever its own again.
WaitInv ==
    /\ WaitersAreServed
    /\ \A f \in orphaned : \E h \in Hooks : at[f] \in Awaiting(h) /\ handler[h] # f

\* Places where no promise is awaited.
LEMMA Unawaited ==
    /\ \A h \in Hooks : Awaiting(h) \cap (HttpSteps \cup Ended \cup {"sign", "cms", "encrypt"}) = {}
    /\ \A h, k \in Hooks : h # k => Awaiting(h) \cap Awaiting(k) = {}
    /\ \A h \in Hooks : Awaiting(h) \in SUBSET {"signing", "cmsing", "encrypting"}
BY DEF Awaiting, Hooks, HttpSteps, Ended

\* The invariant holds of every run, however the sockets of a flow are closed, opened
\* again and answer.
LEMMA WaitInvariant == Spec => []WaitInv
<1>1. Init => WaitInv
  BY DEF Init, WaitInv, WaitersAreServed, Awaiting
<1>2. TypeOK /\ QueueInv /\ WaitInv /\ [Next]_vars => WaitInv'
  <2> SUFFICES ASSUME TypeOK, QueueInv, WaitInv, [Next]_vars PROVE WaitInv'
    OBVIOUS
  <2>1. CASE UNCHANGED <<socket, handler, queue, at, orphaned>>
    BY <2>1 DEF WaitInv, WaitersAreServed, Awaiting
  <2>2. CASE UNCHANGED vars
    BY <2>1, <2>2 DEF vars, hooks, flow, history
  <2>3. ASSUME NEW h \in Hooks, Connect(h) PROVE WaitInv'
    <3>1. /\ UNCHANGED <<handler, queue, at, orphaned>> /\ socket[h] = "none"
          /\ \A k \in Hooks \ {h} : socket'[k] = socket[k]
      BY <2>3 DEF Connect, TypeOK, flow, history
    <3> QED
      BY <3>1 DEF WaitInv, WaitersAreServed, Awaiting
  <2>4. ASSUME NEW h \in Hooks, Opened(h) PROVE WaitInv'
    <3>1. /\ UNCHANGED <<at, orphaned>> /\ socket[h] = "opening" /\ handler'[h] = Greeting
          /\ \A k \in Hooks \ {h} : /\ socket'[k] = socket[k] /\ handler'[k] = handler[k]
                                    /\ queue'[k] = queue[k]
      BY <2>4 DEF Opened, TypeOK, flow, history
    <3>2. WaitersAreServed'
      BY <3>1 DEF WaitInv, WaitersAreServed, Awaiting
    <3>3. ASSUME NEW f \in orphaned PROVE \E k \in Hooks : at[f] \in Awaiting(k) /\ handler'[k] # f
      <4>1. PICK k \in Hooks : at[f] \in Awaiting(k) /\ handler[k] # f
        BY <3>3 DEF WaitInv
      <4>2. f # Greeting
        BY GreetingApart DEF TypeOK
      <4> QED
        BY <3>1, <4>1, <4>2
    <3> QED
      BY <3>1, <3>2, <3>3 DEF WaitInv, Awaiting
  <2>5. ASSUME NEW h \in Hooks, Closes(h) PROVE WaitInv'
    <3>1. /\ UNCHANGED at /\ handler'[h] = NoHandler
          /\ orphaned' = orphaned \cup {f \in Flows : handler[h] = f /\ at[f] \in Awaiting(h)}
          /\ \A k \in Hooks \ {h} : /\ socket'[k] = socket[k] /\ handler'[k] = handler[k]
                                    /\ queue'[k] = queue[k]
      BY <2>5 DEF Closes, Orphan, TypeOK, flow
    <3>2. ASSUME NEW k \in Hooks, NEW f \in Flows, at[f] \in Awaiting(k), f \notin orphaned'
          PROVE  socket'[k] = "open" /\ handler'[k] = f /\ queue'[k] # <<>>
      <4>1. socket[k] = "open" /\ handler[k] = f /\ queue[k] # <<>>
        BY <3>1, <3>2 DEF WaitInv, WaitersAreServed
      <4>2. k # h
        BY <3>1, <3>2, <4>1
      <4> QED
        BY <3>1, <4>1, <4>2
    <3>3. ASSUME NEW f \in orphaned' PROVE \E k \in Hooks : at[f] \in Awaiting(k) /\ handler'[k] # f
      <4>1. f # NoHandler
        BY <3>1, <3>3, GreetingApart DEF TypeOK
      <4>2. PICK k \in Hooks : at[f] \in Awaiting(k) /\ (k = h \/ handler[k] # f)
        BY <3>1, <3>3 DEF WaitInv
      <4> QED
        BY <3>1, <4>1, <4>2
    <3> QED
      BY <3>1, <3>2, <3>3 DEF WaitInv, WaitersAreServed, Awaiting
  \* A message is taken that no promise waits for.
  <2>6. ASSUME NEW h \in Hooks, Greeted(h) \/ Ignored(h) PROVE WaitInv'
    <3>1. /\ UNCHANGED <<at, orphaned, socket>>
          /\ \A k \in Hooks \ {h} : handler'[k] = handler[k] /\ queue'[k] = queue[k]
          /\ handler'[h] \in {handler[h], NoHandler}
      BY <2>6 DEF Greeted, Ignored, TypeOK, flow, history
    <3>2. ASSUME NEW f \in Flows, handler[h] = f PROVE at[f] \notin Awaiting(h)
      BY <2>6, <3>2, GreetingApart DEF Greeted, Ignored
    <3>3. WaitersAreServed'
      BY <3>1, <3>2 DEF WaitInv, WaitersAreServed, Awaiting
    <3>4. ASSUME NEW f \in orphaned PROVE \E k \in Hooks : at[f] \in Awaiting(k) /\ handler'[k] # f
      <4>1. PICK k \in Hooks : at[f] \in Awaiting(k) /\ handler[k] # f
        BY <3>4 DEF WaitInv
      <4>2. f # NoHandler
        BY GreetingApart DEF TypeOK
      <4> QED
        BY <3>1, <4>1, <4>2
    <3> QED
      BY <3>1, <3>3, <3>4 DEF WaitInv, Awaiting
  \* Flow f moves, and it is the flow there is; f itself was not orphaned.
  <2>7. ASSUME NEW f \in Flows, UNCHANGED <<socket, orphaned>>, f \notin orphaned,
               \A g \in Flows \ {f} : at'[g] = at[g],
               \A g \in Flows \ {f}, h \in Hooks : at[g] \notin Awaiting(h),
               \A h \in Hooks : at'[f] \in Awaiting(h)
                  => socket[h] = "open" /\ handler'[h] = f /\ queue'[h] # <<>>
        PROVE  WaitInv'
    <3>1. WaitersAreServed'
      BY <2>7 DEF WaitersAreServed, Awaiting
    <3>2. ASSUME NEW g \in orphaned PROVE FALSE
      <4>1. g \in Flows \ {f}
        BY <2>7 DEF TypeOK
      <4>2. \E h \in Hooks : at[g] \in Awaiting(h)
        BY DEF WaitInv
      <4> QED
        BY <2>7, <4>1, <4>2
    <3> QED
      BY <2>7, <3>1, <3>2 DEF WaitInv
  \* The flow at work is the only one that may await anything.
  <2>8. ASSUME NEW f \in Flows, at[f] \notin Ended
        PROVE  \A g \in Flows \ {f}, h \in Hooks : at[g] \notin Awaiting(h)
    <3>1. \A g \in Flows \ {f} : at[g] \in Ended
      BY <2>8 DEF QueueInv
    <3> QED
      BY <3>1, Unawaited
  <2>9. ASSUME NEW f \in Flows, \A h \in Hooks : at[f] \notin Awaiting(h) PROVE f \notin orphaned
    BY <2>9 DEF WaitInv
  <2>10. ASSUME NEW f \in Flows, SignXml(f) \/ CreateCMSSignature(f) \/ EncryptOfferPrice(f)
         PROVE WaitInv'
    <3>1. PICK h \in Hooks : Reply(h, f) /\ at[f] \in Awaiting(h)
      BY <2>10, AnswerFacts DEF Hooks, Awaiting
    <3>2. handler[h] = f /\ UNCHANGED <<socket, orphaned>>
      BY <3>1 DEF Reply
    <3>3. f \notin orphaned
      BY <3>1, <3>2, Unawaited DEF WaitInv
    <3>4. at[f] \notin Ended
      BY <3>1, Unawaited
    <3>5. at'[f] \in {"login", "failed", "saveSigns", "addEncrypt"}
      BY <2>10, AnswerFacts
    <3>6. \A k \in Hooks : at'[f] \notin Awaiting(k)
      BY <3>5, Unawaited DEF HttpSteps, Ended
    <3> QED
      BY <2>7, <2>8, <2>10, <3>2, <3>3, <3>4, <3>6, AnswerFacts
  <2>11. ASSUME NEW f \in Flows, HandleSign(f) PROVE WaitInv'
    <3>1. /\ at[f] = "idle" /\ \A g \in Flows : at[g] \in Ended
          /\ at'[f] = "create" /\ \A g \in Flows \ {f} : at'[g] = at[g]
          /\ UNCHANGED <<socket, orphaned>>
      BY <2>11, GotoFacts DEF HandleSign, CanSign, Loading, hooks, history, Places, HttpSteps
    <3>2. \A g \in Flows, h \in Hooks : at[g] \notin Awaiting(h)
      BY <3>1, Unawaited
    <3>3. \A h \in Hooks : at'[f] \notin Awaiting(h)
      BY <3>1, Unawaited DEF HttpSteps
    <3> QED
      BY <2>7, <2>9, <3>1, <3>2, <3>3
  <2>12. ASSUME NEW f \in Flows, NEW h \in Hooks, NEW place \in {"sign", "cms", "encrypt"},
                NEW wait \in Places, Request(h, f, place, wait), wait \in Awaiting(h)
         PROVE WaitInv'
    <3>1. at[f] = place /\ \A g \in Flows \ {f} : at'[g] = at[g]
      BY <2>12, RequestFacts
    <3>2. UNCHANGED <<socket, orphaned>>
      BY <2>12, RequestFacts DEF history
    <3>3. at[f] \notin Ended /\ \A k \in Hooks : at[f] \notin Awaiting(k)
      BY <3>1, Unawaited DEF Ended
    <3>4. CASE at'[f] = "failed"
      <4>1. \A k \in Hooks : at'[f] \notin Awaiting(k)
        BY <3>4, Unawaited DEF Ended
      <4> QED
        BY <2>7, <2>8, <2>9, <3>1, <3>2, <3>3, <4>1
    <3>5. CASE /\ socket[h] = "open" /\ at'[f] = wait
               /\ handler'[h] = f /\ queue'[h] = Append(queue[h], f)
      <4>1. queue'[h] # <<>>
        <5>1. queue[h] \in Seq({Greeting} \cup Flows) /\ f \in {Greeting} \cup Flows
          BY DEF TypeOK
        <5>2. Append(queue[h], f) # <<>>
          BY <5>1
        <5> QED
          BY <3>5, <5>2
      <4>2. \A k \in Hooks : at'[f] \in Awaiting(k) => k = h
        BY <2>12, <3>5, Unawaited
      <4> QED
        BY <2>7, <2>8, <2>9, <3>1, <3>2, <3>3, <3>5, <4>1, <4>2
    <3> QED
      BY <2>12, <3>4, <3>5, RequestFacts
  <2>13. ASSUME NEW f \in Flows, PostStep(f) \/ AddEncrypt(f) \/ SaveGammaSigns(f)
         PROVE WaitInv'
    <3>1. /\ at[f] \in HttpSteps /\ \A g \in Flows \ {f} : at'[g] = at[g]
          /\ UNCHANGED <<socket, orphaned>>
      BY <2>13, PostFacts, AddEncryptFacts, SaveSignsFacts DEF hooks, history, HttpSteps
    <3>2. at[f] \notin Ended /\ \A k \in Hooks : at[f] \notin Awaiting(k)
      BY <3>1, Unawaited DEF Ended, HttpSteps
    <3>3. at'[f] \notin {"signing", "cmsing", "encrypting"}
      BY <2>13, PostAwaitsNothing, AddEncryptFacts, SaveSignsFacts
    <3>4. \A k \in Hooks : at'[f] \notin Awaiting(k)
      BY <3>3, Unawaited
    <3> QED
      BY <2>7, <2>8, <2>9, <3>1, <3>2, <3>4
  <2> QED
    BY NextCases, <2>2, <2>3, <2>4, <2>5, <2>6, <2>10, <2>11, <2>12, <2>13
       DEF Hooks, Places, Awaiting
<1> QED
  BY <1>1, <1>2, TypeCorrect, QueueInvariant, PTL DEF Spec

\* Whatever closes and reopens under it, a promise that waits is the one its socket
\* answers, with a request that the program still has, until the socket closes.
THEOREM ServedSafe == Spec => []WaitersAreServed
<1>1. WaitInv => WaitersAreServed
  BY DEF WaitInv
<1> QED
  BY <1>1, WaitInvariant, PTL

\* A flow whose socket was closed under its request hangs for good and leaves the Sign
\* button disabled, whatever the user connects anew.
THEOREM OrphansSafe == Spec => []OrphansBlock
<1>1. TypeOK /\ WaitInv => OrphansBlock
  <2> SUFFICES ASSUME TypeOK, WaitInv, NEW f \in orphaned
               PROVE  at[f] \in Awaiting("nca") \cup Awaiting("cs") /\ ~CanSign
    BY DEF OrphansBlock
  <2>1. PICK h \in Hooks : at[f] \in Awaiting(h)
    BY DEF WaitInv
  <2>2. at[f] \notin Ended /\ f \in Flows
    BY <2>1, Unawaited DEF TypeOK
  <2> QED
    BY <2>1, <2>2 DEF CanSign, Loading, Hooks
<1> QED
  BY <1>1, TypeCorrect, WaitInvariant, PTL
-----------------------------------------------------------------------------
\* The step of a flow has the one after it, and refusals end it.
FlowStep(f) ==
    \/ SaveDraft(f) \/ RunSigningFlow(f)
    \/ SignXml(f) \/ CreateCMSSignature(f) \/ EncryptOfferPrice(f)

LEMMA TogoNat == \A place \in Places : Togo[place] \in Nat
BY DEF Places, HttpSteps, Ended, Togo

LEMMA Falls ==
    ASSUME TypeOK, NEW f \in Flows, FlowStep(f)
    PROVE  /\ at[f] \notin Ended /\ at'[f] \in Places /\ Togo[at'[f]] < Togo[at[f]]
           /\ \A g \in Flows \ {f} : at'[g] = at[g]
<1>1. ASSUME NEW step \in HttpSteps, NEW next \in Places, Togo["failed"] < Togo[step],
             Togo[next] < Togo[step], Post(f, step, next) \/ \E w : PostAndKeep(f, step, next, w)
      PROVE  /\ at[f] \notin Ended /\ at'[f] \in Places /\ Togo[at'[f]] < Togo[at[f]]
             /\ \A g \in Flows \ {f} : at'[g] = at[g]
  <2>1. at[f] = step /\ (Goto(f, next) \/ Goto(f, "failed"))
    BY <1>1 DEF Post, PostAndKeep
  <2>2. at'[f] \in Places /\ at'[f] \in {next, "failed"} /\ \A g \in Flows \ {f} : at'[g] = at[g]
    BY <2>1, GotoFacts DEF Places, Ended
  <2> QED
    BY <1>1, <2>1, <2>2 DEF HttpSteps, Ended
<1>2. CASE SaveDraft(f) \/ Login(f) \/ CreateDraft(f) \/ AddLots(f)
  BY <1>1, <1>2 DEF SaveDraft, Login, CreateDraft, AddLots, HttpSteps, Places, Togo
<1>3. CASE LotsNext(f) \/ Beneficiary(f) \/ DocsNext(f) \/ GetEncrInfo(f)
  BY <1>1, <1>3 DEF LotsNext, Beneficiary, DocsNext, GetEncrInfo, HttpSteps, Places, Togo
<1>4. CASE SaveGammaSigns(f) \/ PriceoffersNext(f) \/ MarkReady(f)
  <2>1. CASE SaveGammaSigns(f)
    BY <1>1, <2>1 DEF SaveGammaSigns, HttpSteps, Places, Togo
  <2>2. CASE PriceoffersNext(f)
    BY <1>1, <2>2 DEF PriceoffersNext, HttpSteps, Places, Togo
  <2>3. CASE MarkReady(f)
    <3>1. "markReady" \in HttpSteps /\ "done" \in Places
      BY DEF HttpSteps, Places, Ended
    <3>2. Togo["failed"] < Togo["markReady"] /\ Togo["done"] < Togo["markReady"]
      BY DEF Togo
    <3> QED
      BY <1>1, <2>3, <3>1, <3>2 DEF MarkReady
  <2> QED
    BY <1>4, <2>1, <2>2, <2>3
<1>5. CASE AddEncrypt(f)
  BY <1>5, AddEncryptFacts DEF Togo, Ended
<1>6. ASSUME NEW h \in Hooks, NEW place \in {"sign", "cms", "encrypt"},
             NEW wait \in {"signing", "cmsing", "encrypting"}, Request(h, f, place, wait),
             Togo[wait] < Togo[place]
      PROVE  /\ at[f] \notin Ended /\ at'[f] \in Places /\ Togo[at'[f]] < Togo[at[f]]
             /\ \A g \in Flows \ {f} : at'[g] = at[g]
  <2>1. wait \in Places
    BY DEF Places
  <2>2. at[f] = place /\ at'[f] \in Places /\ at'[f] \in {wait, "failed"} /\ \A g \in Flows \ {f} : at'[g] = at[g]
    BY <1>6, <2>1, RequestFacts
  <2>3. Togo["failed"] < Togo[place]
    BY DEF Togo
  <2> QED
    BY <1>6, <2>2, <2>3 DEF Ended
<1>7. CASE SignXml(f) \/ CreateCMSSignature(f) \/ EncryptOfferPrice(f)
  BY <1>7, AnswerFacts DEF Togo, Ended
<1>8. Togo["signing"] < Togo["sign"] /\ Togo["cmsing"] < Togo["cms"]
      /\ Togo["encrypting"] < Togo["encrypt"]
  BY DEF Togo
<1> QED
  BY <1>2, <1>3, <1>4, <1>5, <1>6, <1>7, <1>8 DEF FlowStep, RunSigningFlow, Hooks

\* A flow that has begun only goes on: every step of it has fewer steps to come, an
\* ended one stays as it is, and nothing else that happens moves it.
THEOREM GoesOnSafe == Spec => FlowsGoOn
<1>1. ASSUME TypeOK, [Next]_vars, NEW f \in Flows, at[f] # "idle"
      PROVE  /\ Togo[at'[f]] <= Togo[at[f]]
             /\ at[f] \in Ended => at'[f] = at[f]
             /\ FlowStep(f) => Togo[at'[f]] < Togo[at[f]]
  <2>1. Togo[at[f]] \in Nat
    BY <1>1, TogoNat DEF TypeOK
  <2>2. CASE at'[f] = at[f]
    <3>1. ~FlowStep(f)
      BY <1>1, <2>1, <2>2, Falls
    <3> QED
      BY <2>1, <2>2, <3>1
  <2>3. CASE FlowStep(f)
    <3>1. Togo[at'[f]] \in Nat
      BY <1>1, <2>3, Falls, TogoNat
    <3> QED
      BY <1>1, <2>1, <2>3, <3>1, Falls
  <2>4. CASE \/ UNCHANGED vars
             \/ \E h \in Hooks : Connect(h) \/ Opened(h) \/ Closes(h) \/ Greeted(h) \/ Ignored(h)
    BY <2>2, <2>4 DEF vars, flow, Connect, Opened, Closes, Greeted, Ignored
  <2>5. ASSUME NEW g \in Flows, HandleSign(g) PROVE at'[f] = at[f]
    BY <1>1, <2>5, GotoFacts DEF HandleSign, Places, HttpSteps
  <2>6. ASSUME NEW g \in Flows, g # f, FlowStep(g) PROVE at'[f] = at[f]
    BY <1>1, <2>6, Falls
  <2> QED
    BY <1>1, <2>2, <2>3, <2>4, <2>5, <2>6 DEF Next, Message, FlowStep
<1>2. TypeOK /\ [Next]_vars =>
        [\A f \in Flows : at[f] # "idle" =>
          /\ Togo[at'[f]] <= Togo[at[f]]
          /\ at[f] \in Ended => at'[f] = at[f]
          /\ SaveDraft(f) \/ RunSigningFlow(f) \/ SignXml(f) \/ CreateCMSSignature(f)
                \/ EncryptOfferPrice(f) => Togo[at'[f]] < Togo[at[f]]]_vars
  BY <1>1 DEF FlowStep
<1> QED
  BY <1>2, TypeCorrect, PTL DEF Spec, FlowsGoOn
=============================================================================
