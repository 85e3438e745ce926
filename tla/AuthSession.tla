---------------------------- MODULE AuthSession ----------------------------
(***************************************************************************)
(* The session of one account in one browser: routers/auth.py on the       *)
(* server, lib/api.ts in each of the browser's tabs, which share the       *)
(* cookies.  Redis keeps one refresh token per user; an access token is a  *)
(* JWT that nobody can take back and that expires by itself.               *)
(*                                                                         *)
(* Which password is typed is left open: a login that finds the row may    *)
(* succeed or be refused.                                                  *)
(***************************************************************************)
EXTENDS Naturals

CONSTANTS
    Tabs,
    Links,     \* password-reset links that may be mailed
    MaxCalls,  \* bound: calls of the API made in all
    MaxFaults  \* bound: requests or replies lost, requests that die

ASSUME BoundAssumption == MaxCalls \in Nat /\ MaxFaults \in Nat

NoToken == 0  \* refresh tokens are 1, 2, ... in the order of their creation

VARIABLES
    rows,           \* rows of users with the account's e-mail
    stored,         \* Redis: refresh_token:{user_id}
    reset,          \* Redis: reset:{token}, per link
    issued,         \* refresh tokens created so far
    access, cookie, \* the cookies: is there an access token; the refresh token
    at,             \* where the call of a tab is
    op, link,       \* what it calls, with which reset link
    again,          \* apiFetch's didRetry
    auth,           \* the request carries an access token
    shown,          \* the refresh token /refresh was sent
    minted,         \* the refresh token created for the call
    calls, faults,  \* what has been used of the bounds
    \* History, read by the properties only:
    ran,            \* how often the endpoint ran for the call
    resets,         \* passwords set with a link
    retired,        \* tokens that Redis no longer holds
    disturbed       \* two tabs called at once, or a request was lost

session == <<rows, stored, reset, issued, retired, resets>>
cookies == <<access, cookie>>
call == <<op, link, again, auth, shown>>
bounds == <<calls, faults, disturbed>>
vars == <<session, cookies, at, call, minted, ran, bounds>>

Ops == {"register", "login", "call", "logout", "forgot", "reset"}
\* Inside the server: "sent" (arrived), "insert", "store", "rehash", "refresh",
\* "rotate"; its replies: "done", "failed", "denied" (401), "signed" and "cleared"
\* (with cookies), "refreshed", "refused"; "resend": the browser has new tokens.
Replies == {"done", "failed", "denied", "signed", "cleared", "refreshed", "refused"}
Places == Replies \cup {"idle", "sent", "insert", "store", "rehash", "refresh",
                        "rotate", "resend"}

\* Every variable has its type; a call is in one of the places above.
TypeOK ==
    /\ rows \in Nat /\ stored \in Nat /\ issued \in Nat
    /\ reset \in [Links -> {"unsent", "live", "spent"}]
    /\ access \in BOOLEAN /\ cookie \in Nat
    /\ at \in [Tabs -> Places]
    /\ op \in [Tabs -> Ops] /\ link \in [Tabs -> Links]
    /\ again \in [Tabs -> BOOLEAN] /\ auth \in [Tabs -> BOOLEAN]
    /\ shown \in [Tabs -> Nat] /\ minted \in [Tabs -> Nat]
    /\ calls \in Nat /\ faults \in Nat
    /\ ran \in [Tabs -> Nat] /\ resets \in [Links -> Nat]
    /\ retired \in SUBSET Nat /\ disturbed \in BOOLEAN

Init ==
    /\ rows \in {0, 1} /\ stored = NoToken /\ issued = 0
    /\ reset = [l \in Links |-> "unsent"]
    /\ access = FALSE /\ cookie = NoToken
    /\ at = [t \in Tabs |-> "idle"]
    /\ op = [t \in Tabs |-> "call"] /\ link \in [Tabs -> Links]
    /\ again = [t \in Tabs |-> FALSE] /\ auth = [t \in Tabs |-> FALSE]
    /\ shown = [t \in Tabs |-> NoToken] /\ minted = [t \in Tabs |-> NoToken]
    /\ calls = 0 /\ faults = 0
    /\ ran = [t \in Tabs |-> 0] /\ resets = [l \in Links |-> 0]
    /\ retired = {} /\ disturbed = FALSE

Goto(t, place) == at' = [at EXCEPT ![t] = place]

\* The call returns or throws; what it knew is gone.
EndCall(t) ==
    /\ Goto(t, "idle")
    /\ op' = [op EXCEPT ![t] = "call"]
    /\ again' = [again EXCEPT ![t] = FALSE] /\ auth' = [auth EXCEPT ![t] = FALSE]
    /\ shown' = [shown EXCEPT ![t] = NoToken] /\ minted' = [minted EXCEPT ![t] = NoToken]
    /\ ran' = [ran EXCEPT ![t] = 0]
    /\ UNCHANGED link

\* Mutant of CreateTokens: derived from the user and the second of the creation.
CreateByTheSecond(t) ==
    \E n \in {issued, issued + 1} \ {NoToken} :
        issued' = n /\ minted' = [minted EXCEPT ![t] = n]

\* create_access_token and create_refresh_token.
CreateTokens(t) ==
    /\ issued' = issued + 1
    /\ minted' = [minted EXCEPT ![t] = issued + 1]

\* SETEX or DEL of the user's only key.
Store(token) ==
    /\ stored' = token
    /\ retired' = retired \cup ({stored} \ {NoToken, token})
-----------------------------------------------------------------------------
(* The endpoints.                                                          *)

At(t, o) == at[t] = "sent" /\ op[t] = o

Register(t) ==
    /\ At(t, "register")
    /\ Goto(t, IF rows > 0 THEN "failed" ELSE "insert")
    /\ UNCHANGED <<session, cookies, call, minted, ran, bounds>>

\* The unique index turns the loser of two registrations into an error.
InsertUser(t) ==
    /\ at[t] = "insert"
    /\ IF rows > 0
       THEN Goto(t, "failed") /\ UNCHANGED <<rows, issued, minted>>
       ELSE rows' = rows + 1 /\ CreateTokens(t) /\ Goto(t, "store")
    /\ UNCHANGED <<stored, reset, retired, resets, cookies, call, ran, bounds>>

Login(t) ==
    /\ At(t, "login")
    /\ \/ rows > 0 /\ CreateTokens(t) /\ Goto(t, "store")
       \/ Goto(t, "denied") /\ UNCHANGED <<issued, minted>>
    /\ UNCHANGED <<rows, stored, reset, retired, resets, cookies, call, ran, bounds>>

\* store_refresh_token, the last await of register and login.
StoreRefreshToken(t) ==
    /\ at[t] = "store"
    /\ Store(minted[t])
    /\ Goto(t, "signed")
    /\ UNCHANGED <<rows, reset, issued, resets, cookies, call, minted, ran, bounds>>

Logout(t) ==
    /\ At(t, "logout")
    /\ IF auth[t]
       THEN Store(NoToken) /\ Goto(t, "cleared")
       ELSE Goto(t, "denied") /\ UNCHANGED <<stored, retired>>
    /\ UNCHANGED <<rows, reset, issued, resets, cookies, call, minted, ran, bounds>>

\* Mutant of Endpoint: a 401 that is taken for a reply of the portal's.
EndpointMisread(t) ==
    /\ At(t, "call")
    /\ IF auth[t]
       THEN ran' = [ran EXCEPT ![t] = @ + 1] /\ (Goto(t, "done") \/ Goto(t, "failed"))
       ELSE Goto(t, "expired") /\ UNCHANGED ran
    /\ UNCHANGED <<session, cookies, call, minted, bounds>>

\* Any other endpoint: get_current_user asks for an access token; the proxy of
\* the portal also answers 401, before it does anything, when the portal's
\* session is gone (_require_session).
Endpoint(t) ==
    /\ At(t, "call")
    /\ \/ /\ auth[t]
          /\ ran' = [ran EXCEPT ![t] = @ + 1]
          /\ Goto(t, "done") \/ Goto(t, "failed")
       \/ Goto(t, "denied") /\ UNCHANGED ran
    /\ UNCHANGED <<session, cookies, call, minted, bounds>>

\* The token is created before the mail is sent, which may fail.
ForgotPassword(t) ==
    /\ At(t, "forgot")
    /\ IF rows > 0 /\ reset[link[t]] = "unsent"
       THEN /\ reset' = [reset EXCEPT ![link[t]] = "live"]
            /\ Goto(t, "done") \/ Goto(t, "failed")
       ELSE Goto(t, "done") /\ UNCHANGED reset
    /\ UNCHANGED <<rows, stored, issued, retired, resets, cookies, call, minted, ran,
                   bounds>>

\* Mutant of ConsumeReset: GET, with the key left to its time to live.
ReadReset(t) ==
    /\ At(t, "reset")
    /\ Goto(t, IF reset[link[t]] = "live" THEN "rehash" ELSE "failed")
    /\ UNCHANGED <<session, cookies, call, minted, ran, bounds>>

\* consume_reset_token: GETDEL.
ConsumeReset(t) ==
    /\ At(t, "reset")
    /\ IF reset[link[t]] = "live"
       THEN reset' = [reset EXCEPT ![link[t]] = "spent"] /\ Goto(t, "rehash")
       ELSE Goto(t, "failed") /\ UNCHANGED reset
    /\ UNCHANGED <<rows, stored, issued, retired, resets, cookies, call, minted, ran,
                   bounds>>

SetPassword(t) ==
    /\ at[t] = "rehash"
    /\ resets' = [resets EXCEPT ![link[t]] = @ + 1]
    /\ Goto(t, "done")
    /\ UNCHANGED <<rows, stored, reset, issued, retired, cookies, call, minted, ran,
                   bounds>>

\* POST /api/auth/refresh: the cookie is compared with Redis ...
RefreshCheck(t) ==
    /\ at[t] = "refresh"
    /\ IF shown[t] # NoToken /\ shown[t] = stored
       THEN CreateTokens(t) /\ Goto(t, "rotate")
       ELSE Goto(t, "refused") /\ UNCHANGED <<issued, minted>>
    /\ UNCHANGED <<rows, stored, reset, retired, resets, cookies, call, ran, bounds>>

\* Mutant of RefreshRotate: the lifetime of the token shown is renewed.
RefreshKeep(t) ==
    /\ at[t] = "rotate"
    /\ Store(shown[t])
    /\ minted' = [minted EXCEPT ![t] = shown[t]]
    /\ Goto(t, "refreshed")
    /\ UNCHANGED <<rows, reset, issued, resets, cookies, call, ran, bounds>>

\* Mutant of RefreshRotate: without set_auth_cookies.
RefreshSilently(t) ==
    /\ at[t] = "rotate"
    /\ Store(minted[t])
    /\ Goto(t, "resend")
    /\ UNCHANGED <<rows, reset, issued, resets, cookies, call, minted, ran, bounds>>

\* ... and replaced in a second round-trip.
RefreshRotate(t) ==
    /\ at[t] = "rotate"
    /\ Store(minted[t])
    /\ Goto(t, "refreshed")
    /\ UNCHANGED <<rows, reset, issued, resets, cookies, call, minted, ran, bounds>>

ServerStep(t) ==
    \/ Register(t) \/ InsertUser(t) \/ Login(t) \/ StoreRefreshToken(t) \/ Logout(t)
    \/ Endpoint(t) \/ ForgotPassword(t) \/ ConsumeReset(t) \/ SetPassword(t)
    \/ RefreshCheck(t) \/ RefreshRotate(t)
-----------------------------------------------------------------------------
(* The browser.                                                            *)

Start(t, o, l) ==
    /\ at[t] = "idle" /\ calls < MaxCalls
    /\ calls' = calls + 1
    /\ Goto(t, "sent")
    /\ op' = [op EXCEPT ![t] = o] /\ link' = [link EXCEPT ![t] = l]
    /\ auth' = [auth EXCEPT ![t] = access]
    /\ disturbed' = (disturbed \/ \E u \in Tabs : at[u] # "idle")
    /\ UNCHANGED <<session, cookies, again, shown, minted, ran, faults>>

SetCookies(a, token) == access' = a /\ cookie' = token

Finish(t) ==
    /\ \/ at[t] \in {"done", "failed"} /\ UNCHANGED cookies
       \/ at[t] = "signed" /\ SetCookies(TRUE, minted[t])
       \/ at[t] = "cleared" /\ SetCookies(FALSE, NoToken)
    /\ EndCall(t)
    /\ UNCHANGED <<session, bounds>>

\* Mutant of SilentRefresh: any answer but success is tried again.
RetryAll(t) ==
    /\ at[t] \in {"denied", "failed"} /\ ~again[t]
    /\ Goto(t, "refresh")
    /\ shown' = [shown EXCEPT ![t] = cookie]
    /\ UNCHANGED <<session, cookies, op, link, again, auth, minted, ran, bounds>>

\* The first 401 of a call.
SilentRefresh(t) ==
    /\ at[t] = "denied" /\ ~again[t]
    /\ Goto(t, "refresh")
    /\ shown' = [shown EXCEPT ![t] = cookie]
    /\ UNCHANGED <<session, cookies, op, link, again, auth, minted, ran, bounds>>

TakeTokens(t) ==
    /\ at[t] = "refreshed"
    /\ SetCookies(TRUE, minted[t])
    /\ Goto(t, "resend")
    /\ UNCHANGED <<session, call, minted, ran, bounds>>

Resend(t) ==
    /\ at[t] = "resend"
    /\ Goto(t, "sent")
    /\ again' = [again EXCEPT ![t] = TRUE] /\ auth' = [auth EXCEPT ![t] = access]
    /\ UNCHANGED <<session, cookies, op, link, shown, minted, ran, bounds>>

\* Mutant of ClearAuth: a refused refresh is not looked at.
ClearAuthLate(t) ==
    /\ at[t] = "denied" /\ again[t]
    /\ EndCall(t)
    /\ UNCHANGED <<session, cookies, bounds>>

\* clearAuth and 'Session expired': a refused refresh, or a second 401.
ClearAuth(t) ==
    /\ at[t] = "refused" \/ (at[t] = "denied" /\ again[t])
    /\ EndCall(t)
    /\ UNCHANGED <<session, cookies, bounds>>

BrowserStep(t) ==
    Finish(t) \/ SilentRefresh(t) \/ TakeTokens(t) \/ Resend(t) \/ ClearAuth(t)

\* The request dies in the server or on the way, or its reply does: fetch rejects.
Lost(t) ==
    /\ at[t] \notin {"idle", "resend"} /\ faults < MaxFaults
    /\ faults' = faults + 1 /\ disturbed' = TRUE
    /\ EndCall(t)
    /\ UNCHANGED <<session, cookies, calls>>
-----------------------------------------------------------------------------
(* Time.                                                                   *)

AccessExpires ==
    /\ access /\ access' = FALSE
    /\ UNCHANGED <<session, cookie, at, call, minted, ran, bounds>>

SessionExpires ==
    /\ stored # NoToken /\ Store(NoToken)
    /\ UNCHANGED <<rows, reset, issued, resets, cookies, at, call, minted, ran, bounds>>

LinkExpires(l) ==
    /\ reset[l] = "live" /\ reset' = [reset EXCEPT ![l] = "spent"]
    /\ UNCHANGED <<rows, stored, issued, retired, resets, cookies, at, call, minted,
                   ran, bounds>>

Next ==
    \/ \E t \in Tabs : \/ \E o \in Ops, l \in Links : Start(t, o, l)
                       \/ ServerStep(t) \/ BrowserStep(t) \/ Lost(t)
    \/ AccessExpires \/ SessionExpires \/ \E l \in Links : LinkExpires(l)

Spec == Init /\ [][Next]_vars

\* A request that is not lost is answered, and the tab takes its answer.
FairSpec == Spec /\ \A t \in Tabs : WF_vars(ServerStep(t) \/ BrowserStep(t))
-----------------------------------------------------------------------------
(* Properties.                                                             *)

\* A reset link sets a password once, though two tabs may follow it at once.
ResetOnce == \A l \in Links : resets[l] <= 1

\* The silent refresh repeats a call, but no call runs its endpoint twice.
HandledOnce == \A t \in Tabs : ran[t] <= 1

\* A refresh token that was rotated, overwritten or revoked is never accepted
\* again, whichever requests are under way (test_auth.py, "replaying T1").
RetiredForGood == stored \notin retired

\* The slot in Redis implements RefreshToken: of the tokens that concurrent logins and
\* refreshes have made none enters it twice, in whichever order they are stored.
Slot == INSTANCE RefreshToken WITH token <- stored, used <- retired \cup ({stored} \ {NoToken})
SlotSpec == Slot!Spec

\* The browser and Redis only come apart when tabs overlap or a request is lost:
\* otherwise a live session can always be refreshed.
InSync ==
    ~disturbed /\ (\A t \in Tabs : at[t] = "idle") => stored \in {cookie, NoToken}

\* Every call returns or throws: no 401 is retried for ever.
CallsSettle == \A t \in Tabs : at[t] # "idle" ~> at[t] = "idle"
-----------------------------------------------------------------------------
(* Why calls settle: proved in AuthSessionProofs.                          *)

\* What a call has before it: its own request, and until it has been repeated the
\* silent refresh and the second request.
Stage == [idle |-> 0, done |-> 1, failed |-> 1, signed |-> 1, cleared |-> 1,
          refused |-> 1, resend |-> 2, refreshed |-> 3, rotate |-> 4, refresh |-> 5,
          denied |-> 6, store |-> 7, rehash |-> 7, insert |-> 8, sent |-> 9]
Ahead(t) ==
    IF at[t] = "idle" THEN 0 ELSE Stage[at[t]] + (IF again[t] THEN 0 ELSE 10)

\* apiFetch: each step of a call, in the server or in the browser, takes it nearer to
\* its end, and nothing that other tabs or the clock do takes it back.
CallsRunOut ==
    [][\A t \in Tabs : at[t] # "idle" =>
          /\ Ahead(t)' <= Ahead(t)
          /\ ServerStep(t) \/ BrowserStep(t) \/ Lost(t) => Ahead(t)' < Ahead(t)]_vars
-----------------------------------------------------------------------------
(* What a comment says and the code does not do.                           *)

\* api.ts:14, of the second 401: "session is truly expired".
SecondRefusalIsExpiry ==
    \A t \in Tabs : at[t] = "denied" /\ again[t] => stored = NoToken \/ cookie # stored
=============================================================================
