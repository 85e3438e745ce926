---------------------------- MODULE SigningFlow ----------------------------
(***************************************************************************)
(* The signing page of the browser: the hooks useNCALayer and              *)
(* useCryptoSocket, each the owner of one WebSocket to a program on the    *)
(* user's machine, and runSigningFlow (lib/goszakup.ts), which takes an    *)
(* application through the portal's wizard by way of the backend's proxy.  *)
(*                                                                         *)
(* Requests and replies carry no ids: a message goes to whatever handler   *)
(* the socket has when it comes in.                                        *)
(***************************************************************************)
EXTENDS Naturals, Sequences

CONSTANT MaxFlows  \* bound: how often the user presses Sign

ASSUME BoundAssumption == MaxFlows \in Nat

Hooks == {"nca", "cs"}
Flows == 1..MaxFlows

\* Messages: the greeting (NCALayer's version, CryptoSocket's answer to the API
\* key), and the reply to flow f, which is the number f.
Greeting == 0
NoHandler == MaxFlows + 1  \* handlers: this, Greeting, or the flow whose promise waits

VARIABLES
    status,   \* per hook, what the page shows
    socket,   \* wsRef: "none", "opening", "open"
    handler,  \* ws.onmessage
    queue,    \* what the program will send
    at,       \* where each flow is
    sign,     \* the signature NCALayer gave it last: "none", "own", "other", "junk"
    price,    \* the price CryptoSocket gave it
    kept,     \* what the portal keeps of it: "price", "signature"
    \* History, read by the properties only:
    crossed,  \* a flow took a message that was not its reply
    orphaned  \* flows under whose request the socket was closed

hooks == <<status, socket, handler, queue>>
flow == <<at, sign, price, kept>>
history == <<crossed, orphaned>>
vars == <<hooks, flow, history>>

HttpSteps == {"create", "login", "draft", "lots", "confirm", "beneficiary", "docs",
              "encrInfo", "addEncrypt", "saveSigns", "offers", "markReady"}
\* "sign", "encrypt" and "cms" make a request; in "signing" ... the flow awaits it.
Awaiting(h) == IF h = "nca" THEN {"signing", "cmsing"} ELSE {"encrypting"}
Ended == {"idle", "failed", "done"}
Places == HttpSteps \cup {"sign", "signing", "encrypt", "encrypting", "cms", "cmsing"}
          \cup Ended
Results == {"none", "own", "other", "junk"}

\* Every variable has its type: a socket, a promise and a flow are in the states the hooks know.
TypeOK ==
    /\ status \in [Hooks -> {"disconnected", "connecting", "connected", "signing",
                             "encrypting", "error"}]
    /\ socket \in [Hooks -> {"none", "opening", "open"}]
    /\ handler \in [Hooks -> {NoHandler, Greeting} \cup Flows]
    /\ queue \in [Hooks -> Seq({Greeting} \cup Flows)]
    /\ at \in [Flows -> Places]
    /\ sign \in [Flows -> Results] /\ price \in [Flows -> Results]
    /\ kept \in [Flows -> SUBSET {"price", "signature"}]
    /\ crossed \in BOOLEAN /\ orphaned \in SUBSET Flows

Init ==
    /\ status = [h \in Hooks |-> "disconnected"] /\ socket = [h \in Hooks |-> "none"]
    /\ handler = [h \in Hooks |-> NoHandler] /\ queue = [h \in Hooks |-> <<>>]
    /\ at = [f \in Flows |-> "idle"]
    /\ sign = [f \in Flows |-> "none"] /\ price = [f \in Flows |-> "none"]
    /\ kept = [f \in Flows |-> {}]
    /\ crossed = FALSE /\ orphaned = {}

Show(h, s) == status' = [status EXCEPT ![h] = s]
Goto(f, place) == at' = [at EXCEPT ![f] = place]
-----------------------------------------------------------------------------
(* The sockets.                                                            *)

ConnectButton(h) == status[h] \in {"disconnected", "error"}

\* Mutant of Connect: the socket's state is shown for the hook's.
ConnectShown(h) ==
    /\ ConnectButton(h) /\ socket[h] = "none"
    /\ socket' = [socket EXCEPT ![h] = "opening"]
    /\ Show(h, "opening")
    /\ UNCHANGED <<handler, queue, flow, history>>

\* connect; with a socket in wsRef it does nothing.
Connect(h) ==
    /\ ConnectButton(h) /\ socket[h] = "none"
    /\ socket' = [socket EXCEPT ![h] = "opening"]
    /\ IF h = "cs" THEN Show(h, "connecting") ELSE UNCHANGED status
    /\ UNCHANGED <<handler, queue, flow, history>>

\* onopen: NCALayer sends its version unasked, CryptoSocket is sent the API key.
Opened(h) ==
    /\ socket[h] = "opening"
    /\ socket' = [socket EXCEPT ![h] = "open"]
    /\ handler' = [handler EXCEPT ![h] = Greeting]
    /\ queue' = [queue EXCEPT ![h] = <<Greeting>>]
    /\ Show(h, "connecting")
    /\ UNCHANGED <<flow, history>>

Orphan(h) ==
    orphaned' = orphaned \cup {f \in Flows : handler[h] = f /\ at[f] \in Awaiting(h)}

\* Mutant of Closes: onclose leaves the status to the next request.
ClosesQuietly(h) ==
    /\ socket[h] # "none"
    /\ socket' = [socket EXCEPT ![h] = "none"]
    /\ handler' = [handler EXCEPT ![h] = NoHandler]
    /\ queue' = [queue EXCEPT ![h] = <<>>]
    /\ Orphan(h)
    /\ UNCHANGED <<status, flow, crossed>>

\* onerror (the only way an opening socket ends) and onclose.  A promise that
\* waits for the socket is neither resolved nor rejected.
Closes(h) ==
    /\ socket[h] # "none"
    /\ socket' = [socket EXCEPT ![h] = "none"]
    /\ handler' = [handler EXCEPT ![h] = NoHandler]
    /\ queue' = [queue EXCEPT ![h] = <<>>]
    /\ \/ Show(h, "error")
       \/ socket[h] = "open" /\ status[h] # "error" /\ Show(h, "disconnected")
    /\ Orphan(h)
    /\ UNCHANGED <<flow, crossed>>

\* The first message after onopen: CryptoSocket may refuse the key, and NCALayer's is
\* dropped if no version is in it.
Greeted(h) ==
    /\ queue[h] # <<>> /\ handler[h] = Greeting
    /\ queue' = [queue EXCEPT ![h] = Tail(@)]
    /\ handler' = [handler EXCEPT ![h] = NoHandler]
    /\ \/ Show(h, "connected")
       \/ h = "cs" /\ Show(h, "error")
       \/ h = "nca" /\ UNCHANGED status
    /\ UNCHANGED <<socket, flow, history>>

\* A message nobody waits for: no handler, or one that was resolved before.
Ignored(h) ==
    /\ queue[h] # <<>>
    /\ handler[h] # Greeting
    /\ handler[h] \in Flows => at[handler[h]] \notin Awaiting(h)
    /\ queue' = [queue EXCEPT ![h] = Tail(@)]
    /\ UNCHANGED <<status, socket, handler, flow, history>>
-----------------------------------------------------------------------------
(* Requests and replies.                                                   *)

\* Mutant of Request: send without a look at readyState.
RequestBlindly(h, f, place, wait) ==
    /\ at[f] = place
    /\ Goto(f, wait)
    /\ Show(h, IF h = "nca" THEN "signing" ELSE "encrypting")
    /\ handler' = IF socket[h] = "open" THEN [handler EXCEPT ![h] = f] ELSE handler
    /\ queue' = IF socket[h] = "open" THEN [queue EXCEPT ![h] = Append(@, f)] ELSE queue
    /\ UNCHANGED <<socket, sign, price, kept, history>>

\* Without an open socket the promise is rejected at once; NCALayer's finally
\* then shows "connected" all the same.
Request(h, f, place, wait) ==
    /\ at[f] = place
    /\ IF socket[h] = "open"
       THEN /\ Goto(f, wait)
            /\ Show(h, IF h = "nca" THEN "signing" ELSE "encrypting")
            /\ handler' = [handler EXCEPT ![h] = f]
            /\ queue' = [queue EXCEPT ![h] = Append(@, f)]
       ELSE /\ Goto(f, "failed")
            /\ IF h = "nca" THEN Show(h, "connected") ELSE UNCHANGED status
            /\ UNCHANGED <<handler, queue>>
    /\ UNCHANGED <<socket, sign, price, kept, history>>

\* What flow f makes of message m: a refusal has the fields of no result.
Content(f, m) ==
    IF m = Greeting THEN {"junk"} ELSE {IF m = f THEN "own" ELSE "other", "junk"}

Reply(h, f) ==
    /\ queue[h] # <<>> /\ handler[h] = f /\ at[f] \in Awaiting(h)
    /\ queue' = [queue EXCEPT ![h] = Tail(@)]
    /\ Show(h, "connected")
    /\ crossed' = (crossed \/ Head(queue[h]) # f)
    /\ UNCHANGED <<socket, kept, orphaned>>

\* signXml: String(undefined) for a refusal, which atob throws on (NCALayer 2.x), as
\* JSON.parse does on what is no JSON.
SignXml(f) ==
    /\ at[f] = "signing" /\ Reply("nca", f)
    /\ \E r \in Content(f, Head(queue["nca"])) :
          /\ sign' = [sign EXCEPT ![f] = r]
          /\ Goto(f, "login") \/ (r = "junk" /\ Goto(f, "failed"))
    /\ UNCHANGED <<handler, price>>

\* createCMSSignatureFromBase64; of what is junk, only what is no JSON rejects.
CreateCMSSignature(f) ==
    /\ at[f] = "cmsing" /\ Reply("nca", f)
    /\ \E r \in Content(f, Head(queue["nca"])) :
          /\ sign' = [sign EXCEPT ![f] = r]
          /\ Goto(f, "saveSigns") \/ (r = "junk" /\ Goto(f, "failed"))
    /\ UNCHANGED <<handler, price>>

\* encryptOfferPrice: only {"result": "true"} resolves, which a greeting has too.
EncryptOfferPrice(f) ==
    /\ at[f] = "encrypting" /\ Reply("cs", f)
    /\ \E r \in Content(f, Head(queue["cs"])) :
          \/ /\ r # "junk" \/ Head(queue["cs"]) = Greeting
             /\ price' = [price EXCEPT ![f] = r]
             /\ Goto(f, "addEncrypt")
          \/ r = "junk" /\ Goto(f, "failed") /\ UNCHANGED price
    /\ handler' = [handler EXCEPT !["cs"] = NoHandler]
    /\ UNCHANGED sign
-----------------------------------------------------------------------------
(* The page and the steps through the proxy.                               *)

Loading == \E f \in Flows : at[f] \notin Ended

\* Mutant of CanSign: without isLoading.
CanSignTwice == \A h \in Hooks : status[h] = "connected"

CanSign == (\A h \in Hooks : status[h] = "connected") /\ ~Loading

\* A press on Sign; once a flow is done the page is left.
HandleSign(f) ==
    /\ CanSign /\ at[f] = "idle" /\ \A g \in Flows : at[g] # "done"
    /\ \A g \in Flows : g < f => at[g] # "idle"
    /\ Goto(f, "create")
    /\ UNCHANGED <<hooks, sign, price, kept, history>>

\* The step is done, or refused in an answer of HTTP 200 that nobody reads; or
\* apiFetch rejects, before or after the step was done.
Post(f, step, next) ==
    /\ at[f] = step
    /\ Goto(f, next) \/ Goto(f, "failed")
    /\ UNCHANGED <<hooks, sign, price, kept, history>>

\* The same for a step that leaves something on the portal.
PostAndKeep(f, step, next, what) ==
    /\ at[f] = step
    /\ Goto(f, next) \/ Goto(f, "failed")
    /\ kept' = [kept EXCEPT ![f] = @ \cup {what}] \/ UNCHANGED kept
    /\ UNCHANGED <<hooks, sign, price, history>>

\* POST or PATCH /api/applications.
SaveDraft(f) == Post(f, "create", "sign")

\* ValueError without a PHPSESSID, which the portal, if it likes, gives to anybody.
Login(f) == Post(f, "login", "draft")

\* ValueError without an id.
CreateDraft(f) == Post(f, "draft", "lots")
AddLots(f) == Post(f, "lots", "confirm")
LotsNext(f) == Post(f, "confirm", "beneficiary")
Beneficiary(f) == Post(f, "beneficiary", "docs")
DocsNext(f) == Post(f, "docs", "encrInfo")
GetEncrInfo(f) == Post(f, "encrInfo", "encrypt")

\* Mutant of AddEncrypt: the fields of AddEncryptRequest are optional.
AddEncryptAny(f) == PostAndKeep(f, "addEncrypt", "cms", "price")

\* A request without the fields of a result is not valid (422).
AddEncrypt(f) ==
    IF price[f] = "junk" /\ at[f] = "addEncrypt"
    THEN Goto(f, "failed") /\ UNCHANGED <<hooks, sign, price, kept, history>>
    ELSE PostAndKeep(f, "addEncrypt", "cms", "price")

SaveGammaSigns(f) == PostAndKeep(f, "saveSigns", "offers", "signature")
PriceoffersNext(f) == Post(f, "offers", "markReady")

\* mark-ready makes the row "waiting": see Submission.
MarkReady(f) == Post(f, "markReady", "done")

RunSigningFlow(f) ==
    \/ Request("nca", f, "sign", "signing") \/ Login(f) \/ CreateDraft(f) \/ AddLots(f)
    \/ LotsNext(f) \/ Beneficiary(f) \/ DocsNext(f) \/ GetEncrInfo(f)
    \/ Request("cs", f, "encrypt", "encrypting") \/ AddEncrypt(f)
    \/ Request("nca", f, "cms", "cmsing") \/ SaveGammaSigns(f) \/ PriceoffersNext(f)
    \/ MarkReady(f)

\* A message of the program of hook h, or the user's part in it, is taken.
Message(h) ==
    \/ Greeted(h) \/ Ignored(h)
    \/ \E f \in Flows : \/ h = "nca" /\ (SignXml(f) \/ CreateCMSSignature(f))
                        \/ h = "cs" /\ EncryptOfferPrice(f)

Next ==
    \/ \E h \in Hooks : Connect(h) \/ Opened(h) \/ Closes(h) \/ Message(h)
    \/ \E f \in Flows : HandleSign(f) \/ SaveDraft(f) \/ RunSigningFlow(f)

Spec == Init /\ [][Next]_vars

\* HTTP requests are answered or fail, and an open socket brings the replies: the
\* user enters the PIN or cancels.
FairSpec ==
    /\ Spec
    /\ \A h \in Hooks : WF_vars(Message(h))
    /\ \A f \in Flows : WF_vars(SaveDraft(f) \/ RunSigningFlow(f))
-----------------------------------------------------------------------------
(* Properties.                                                             *)

\* Unless a message was mistaken for a reply, a program has one request at most to
\* answer (useNCALayer.ts:124), whatever closes and reopens under the flow.
OneRequest ==
    ~crossed => \A h \in Hooks : \A i, j \in 1..Len(queue[h]) :
        Greeting \notin {queue[h][i], queue[h][j]} => i = j

\* What the portal keeps as the encrypted price is one, not the greeting of a
\* CryptoSocket that was reconnected at the wrong moment; and the flow's own.
SavedPriceIsEncrypted ==
    \A f \in Flows : "price" \in kept[f] =>
        price[f] \in IF crossed THEN {"own", "other"} ELSE {"own"}

\* CryptoSocket's status can be trusted: connected means there is a connection.
CryptoConnected == status["cs"] \in {"connected", "encrypting"} => socket["cs"] = "open"

\* Every flow ends; only one whose socket is closed under a request may not.
FlowEnds == \A f \in Flows : at[f] \notin Ended ~> at[f] \in Ended \/ f \in orphaned
-----------------------------------------------------------------------------
(* Why flows end, and what becomes of those that do not: proved in           *)
(* SigningFlowProofs.                                                        *)

\* A promise that waits has its request before the program and its handler on an
\* open socket, unless the socket was closed under it.
WaitersAreServed ==
    \A h \in Hooks, f \in Flows : at[f] \in Awaiting(h) /\ f \notin orphaned
        => socket[h] = "open" /\ handler[h] = f /\ queue[h] # <<>>

\* A flow whose socket was closed under its request never ends, whatever is connected
\* anew, and while it waits the page offers no other.
OrphansBlock ==
    \A f \in orphaned : at[f] \in Awaiting("nca") \cup Awaiting("cs") /\ ~CanSign

\* The steps of runSigningFlow that are still to come.
Togo == [idle |-> 0, failed |-> 0, done |-> 0, markReady |-> 1, offers |-> 2,
         saveSigns |-> 3, cmsing |-> 4, cms |-> 5, addEncrypt |-> 6, encrypting |-> 7,
         encrypt |-> 8, encrInfo |-> 9, docs |-> 10, beneficiary |-> 11, confirm |-> 12,
         lots |-> 13, draft |-> 14, login |-> 15, signing |-> 16, sign |-> 17,
         create |-> 18]

\* A flow that has begun only goes on: no answer, no other flow and nothing that
\* happens to a socket takes it back or starts it again, and its steps move it.
FlowsGoOn ==
    [][\A f \in Flows : at[f] # "idle" =>
          /\ Togo[at'[f]] <= Togo[at[f]]
          /\ at[f] \in Ended => at'[f] = at[f]
          /\ SaveDraft(f) \/ RunSigningFlow(f) \/ SignXml(f) \/ CreateCMSSignature(f)
                \/ EncryptOfferPrice(f) => Togo[at'[f]] < Togo[at[f]]]_vars
-----------------------------------------------------------------------------
(* What comments say and the code does not do.                             *)

\* SigningStep.tsx:49, "Sign button requires NCALayer connected AND CryptoSocket
\* connected".
SignNeedsConnections == CanSign => \A h \in Hooks : socket[h] = "open"

\* goszakup.ts:98, "@throws GoszakupFlowError on any step failure": what NCALayer
\* refuses to sign is not saved as signed.
RefusalsEndFlow == \A f \in Flows : "signature" \in kept[f] => sign[f] # "junk"
=============================================================================
