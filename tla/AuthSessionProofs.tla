------------------------- MODULE AuthSessionProofs -------------------------
(***************************************************************************)
(* Theorems about AuthSession, for any tabs, links and numbers of calls    *)
(* and losses.                                                             *)
(***************************************************************************)
EXTENDS AuthSession, TLAPS

Holding == {"store", "rotate"}  \* a token is minted and not yet in Redis

\* HandledOnce, and where a call is whose endpoint ran.
HandledInv ==
    \A t \in Tabs : \/ ran[t] = 0
                    \/ ran[t] = 1 /\ at[t] \in {"done", "failed"}

\* ResetOnce; a link in use is spent and is used by one tab.
ResetInv ==
    /\ \A l \in Links : \/ resets[l] = 0
                        \/ resets[l] = 1 /\ reset[l] = "spent"
    /\ \A t \in Tabs : at[t] = "rehash" => reset[link[t]] = "spent" /\ resets[link[t]] = 0
    /\ \A t, u \in Tabs : at[t] = "rehash" /\ at[u] = "rehash" /\ link[t] = link[u] => t = u

\* RetiredForGood; a token that will be stored is new to Redis, and no two tabs
\* will store the same.
TokenInv ==
    /\ stored \notin retired /\ NoToken \notin retired
    /\ \A n \in retired \cup {stored} : n <= issued
    /\ \A t \in Tabs : at[t] \in Holding =>
          /\ minted[t] # NoToken /\ minted[t] <= issued
          /\ minted[t] \notin retired /\ minted[t] # stored
    /\ \A t, u \in Tabs :
          at[t] \in Holding /\ at[u] \in Holding /\ minted[t] = minted[u] => t = u
-----------------------------------------------------------------------------
(* Types.                                                                  *)

LEMMA NextCases ==
    ASSUME Next
    PROVE  \/ \E t \in Tabs : \/ \E o \in Ops, l \in Links : Start(t, o, l)
                              \/ Register(t) \/ InsertUser(t) \/ Login(t)
                              \/ StoreRefreshToken(t) \/ Logout(t) \/ Endpoint(t)
                              \/ ForgotPassword(t) \/ ConsumeReset(t) \/ SetPassword(t)
                              \/ RefreshCheck(t) \/ RefreshRotate(t)
                              \/ Finish(t) \/ SilentRefresh(t) \/ TakeTokens(t)
                              \/ Resend(t) \/ ClearAuth(t) \/ Lost(t)
           \/ AccessExpires \/ SessionExpires \/ \E l \in Links : LinkExpires(l)
BY DEF Next, ServerStep, BrowserStep

LEMMA CountedUp ==
    ASSUME NEW S, NEW f \in [S -> Nat], NEW x
    PROVE  [f EXCEPT ![x] = @ + 1] \in [S -> Nat]
<1>1. CASE x \in S
  <2>1. f[x] + 1 \in Nat
    BY <1>1
  <2> QED
    BY <1>1, <2>1
<1>2. CASE x \notin S
  BY <1>2
<1> QED
  BY <1>1, <1>2

LEMMA EndCallType ==
    ASSUME TypeOK, NEW t \in Tabs, EndCall(t)
    PROVE  /\ at' \in [Tabs -> Places] /\ op' \in [Tabs -> Ops] /\ link' \in [Tabs -> Links]
           /\ again' \in [Tabs -> BOOLEAN] /\ auth' \in [Tabs -> BOOLEAN]
           /\ shown' \in [Tabs -> Nat] /\ minted' \in [Tabs -> Nat]
           /\ ran' \in [Tabs -> Nat]
BY DEF TypeOK, EndCall, Goto, Places, Ops, NoToken

LEMMA CreateTokensType ==
    ASSUME TypeOK, NEW t \in Tabs, CreateTokens(t)
    PROVE  issued' \in Nat /\ minted' \in [Tabs -> Nat]
<1>1. issued + 1 \in Nat
  BY DEF TypeOK
<1> QED
  BY <1>1 DEF TypeOK, CreateTokens

LEMMA StoreType ==
    ASSUME TypeOK, NEW token \in Nat, Store(token)
    PROVE  stored' \in Nat /\ retired' \in SUBSET Nat
BY DEF TypeOK, Store

\* The variables keep their types: a call is in one of the places of the code.
THEOREM TypeCorrect == Spec => []TypeOK
<1>1. Init => TypeOK
  <2> SUFFICES ASSUME Init PROVE TypeOK
    OBVIOUS
  <2>1. /\ reset \in [Links -> {"unsent", "live", "spent"}] /\ at \in [Tabs -> Places]
        /\ op \in [Tabs -> Ops] /\ again \in [Tabs -> BOOLEAN] /\ auth \in [Tabs -> BOOLEAN]
    BY DEF Init, Places, Ops
  <2>2. /\ shown \in [Tabs -> Nat] /\ minted \in [Tabs -> Nat]
        /\ ran \in [Tabs -> Nat] /\ resets \in [Links -> Nat]
    BY DEF Init, NoToken
  <2>3. access \in BOOLEAN /\ disturbed \in BOOLEAN
    BY DEF Init
  <2>4. /\ rows \in Nat /\ stored \in Nat /\ issued \in Nat /\ cookie \in Nat
        /\ calls \in Nat /\ faults \in Nat /\ retired \in SUBSET Nat
    BY DEF Init, NoToken
  <2>5. link \in [Tabs -> Links]
    BY DEF Init
  <2> QED
    BY <2>1, <2>2, <2>3, <2>4, <2>5 DEF TypeOK
<1>2. TypeOK /\ [Next]_vars => TypeOK'
  <2> SUFFICES ASSUME TypeOK, [Next]_vars PROVE TypeOK'
    OBVIOUS
  <2>1. CASE UNCHANGED vars
    BY <2>1 DEF TypeOK, vars, session, cookies, call, bounds
  <2>2. ASSUME NEW t \in Tabs, NEW o \in Ops, NEW l \in Links, Start(t, o, l)
        PROVE  TypeOK'
    <3>1. calls' \in Nat /\ disturbed' \in BOOLEAN
      BY <2>2 DEF TypeOK, Start
    <3> QED
      BY <2>2, <3>1 DEF TypeOK, Start, Goto, Places, session, cookies
  <2>3. ASSUME NEW t \in Tabs, Register(t) PROVE TypeOK'
    BY <2>3 DEF TypeOK, Register, Goto, Places, Replies, session, cookies, call, bounds
  <2>4. ASSUME NEW t \in Tabs, InsertUser(t) PROVE TypeOK'
    <3>1. rows' \in Nat
      BY <2>4 DEF TypeOK, InsertUser
    <3>2. issued' \in Nat /\ minted' \in [Tabs -> Nat]
      BY <2>4, CreateTokensType DEF TypeOK, InsertUser
    <3>3. at' \in [Tabs -> Places]
      BY <2>4 DEF TypeOK, InsertUser, Goto, Places, Replies
    <3> QED
      BY <2>4, <3>1, <3>2, <3>3 DEF TypeOK, InsertUser, cookies, call, bounds
  <2>5. ASSUME NEW t \in Tabs, Login(t) PROVE TypeOK'
    <3>1. issued' \in Nat /\ minted' \in [Tabs -> Nat]
      BY <2>5, CreateTokensType DEF TypeOK, Login
    <3>2. at' \in [Tabs -> Places]
      BY <2>5 DEF TypeOK, Login, Goto, Places, Replies
    <3> QED
      BY <2>5, <3>1, <3>2 DEF TypeOK, Login, cookies, call, bounds
  <2>6. ASSUME NEW t \in Tabs, StoreRefreshToken(t) \/ RefreshRotate(t) PROVE TypeOK'
    <3>1. stored' \in Nat /\ retired' \in SUBSET Nat
      BY <2>6, StoreType DEF TypeOK, StoreRefreshToken, RefreshRotate
    <3>2. at' \in [Tabs -> Places]
      BY <2>6 DEF TypeOK, StoreRefreshToken, RefreshRotate, Goto, Places, Replies
    <3> QED
      BY <2>6, <3>1, <3>2 DEF TypeOK, StoreRefreshToken, RefreshRotate, cookies, call, bounds
  <2>7. ASSUME NEW t \in Tabs, Logout(t) PROVE TypeOK'
    <3>1. stored' \in Nat /\ retired' \in SUBSET Nat
      BY <2>7, StoreType DEF TypeOK, Logout, NoToken
    <3>2. at' \in [Tabs -> Places]
      BY <2>7 DEF TypeOK, Logout, Goto, Places, Replies
    <3> QED
      BY <2>7, <3>1, <3>2 DEF TypeOK, Logout, cookies, call, bounds
  <2>8. ASSUME NEW t \in Tabs, Endpoint(t) PROVE TypeOK'
    <3>1. ran' \in [Tabs -> Nat]
      BY <2>8, CountedUp DEF TypeOK, Endpoint
    <3>2. at' \in [Tabs -> Places]
      BY <2>8 DEF TypeOK, Endpoint, Goto, Places, Replies
    <3> QED
      BY <2>8, <3>1, <3>2 DEF TypeOK, Endpoint, session, cookies, call, bounds
  <2>9. ASSUME NEW t \in Tabs, ForgotPassword(t) \/ ConsumeReset(t) PROVE TypeOK'
    <3>1. reset' \in [Links -> {"unsent", "live", "spent"}]
      BY <2>9 DEF TypeOK, ForgotPassword, ConsumeReset
    <3>2. at' \in [Tabs -> Places]
      BY <2>9 DEF TypeOK, ForgotPassword, ConsumeReset, Goto, Places, Replies
    <3> QED
      BY <2>9, <3>1, <3>2 DEF TypeOK, ForgotPassword, ConsumeReset, cookies, call, bounds
  <2>10. ASSUME NEW t \in Tabs, SetPassword(t) PROVE TypeOK'
    <3>1. resets' \in [Links -> Nat]
      BY <2>10, CountedUp DEF TypeOK, SetPassword
    <3>2. at' \in [Tabs -> Places]
      BY <2>10 DEF TypeOK, SetPassword, Goto, Places, Replies
    <3> QED
      BY <2>10, <3>1, <3>2 DEF TypeOK, SetPassword, cookies, call, bounds
  <2>11. ASSUME NEW t \in Tabs, RefreshCheck(t) PROVE TypeOK'
    <3>1. issued' \in Nat /\ minted' \in [Tabs -> Nat]
      BY <2>11, CreateTokensType DEF TypeOK, RefreshCheck
    <3>2. at' \in [Tabs -> Places]
      BY <2>11 DEF TypeOK, RefreshCheck, Goto, Places, Replies
    <3> QED
      BY <2>11, <3>1, <3>2 DEF TypeOK, RefreshCheck, cookies, call, bounds
  <2>12. ASSUME NEW t \in Tabs, Finish(t) \/ ClearAuth(t) PROVE TypeOK'
    <3>1. EndCall(t)
      BY <2>12 DEF Finish, ClearAuth
    <3>2. access' \in BOOLEAN /\ cookie' \in Nat
      <4>1. CASE UNCHANGED cookies
        BY <4>1 DEF TypeOK, cookies
      <4>2. CASE SetCookies(TRUE, minted[t]) \/ SetCookies(FALSE, NoToken)
        <5>1. access' \in BOOLEAN
          BY <4>2 DEF SetCookies
        <5>2. minted[t] \in Nat /\ NoToken \in Nat
          BY DEF TypeOK, NoToken
        <5>3. cookie' = minted[t] \/ cookie' = NoToken
          BY <4>2 DEF SetCookies
        <5> QED
          BY <5>1, <5>2, <5>3
      <4> QED
        BY <2>12, <4>1, <4>2 DEF Finish, ClearAuth
    <3>3. UNCHANGED <<session, bounds>>
      BY <2>12 DEF Finish, ClearAuth
    <3> QED
      BY <3>1, <3>2, <3>3, EndCallType DEF TypeOK, session, bounds
  <2>13. ASSUME NEW t \in Tabs, SilentRefresh(t) PROVE TypeOK'
    BY <2>13 DEF TypeOK, SilentRefresh, Goto, Places, session, cookies, bounds
  <2>14. ASSUME NEW t \in Tabs, TakeTokens(t) PROVE TypeOK'
    BY <2>14 DEF TypeOK, TakeTokens, SetCookies, Goto, Places, session, call, bounds
  <2>15. ASSUME NEW t \in Tabs, Resend(t) PROVE TypeOK'
    BY <2>15 DEF TypeOK, Resend, Goto, Places, session, cookies, bounds
  <2>16. ASSUME NEW t \in Tabs, Lost(t) PROVE TypeOK'
    <3>1. faults' \in Nat /\ disturbed' \in BOOLEAN
      BY <2>16 DEF TypeOK, Lost
    <3> QED
      BY <2>16, <3>1, EndCallType DEF TypeOK, Lost, session, cookies
  <2>17. CASE AccessExpires
    BY <2>17 DEF TypeOK, AccessExpires, session, call, bounds
  <2>18. CASE SessionExpires
    <3>1. stored' \in Nat /\ retired' \in SUBSET Nat
      BY <2>18, StoreType DEF SessionExpires, NoToken
    <3> QED
      BY <2>18, <3>1 DEF TypeOK, SessionExpires, cookies, call, bounds
  <2>19. ASSUME NEW l \in Links, LinkExpires(l) PROVE TypeOK'
    BY <2>19 DEF TypeOK, LinkExpires, cookies, call, bounds
  <2> QED
    BY NextCases, <2>1, <2>2, <2>3, <2>4, <2>5, <2>6, <2>7, <2>8, <2>9, <2>10, <2>11, <2>12,
       <2>13, <2>14, <2>15, <2>16, <2>17, <2>18, <2>19
<1> QED
  BY <1>1, <1>2, PTL DEF Spec
-----------------------------------------------------------------------------
(* The endpoint of a call runs at most once.                               *)

LEMMA HandledMoves ==
    ASSUME TypeOK, HandledInv, NEW t \in Tabs, NEW p, Goto(t, p), UNCHANGED ran,
           at[t] \notin {"done", "failed"}
    PROVE  HandledInv'
BY DEF TypeOK, HandledInv, Goto

LEMMA HandledEnds ==
    ASSUME TypeOK, HandledInv, NEW t \in Tabs, EndCall(t)
    PROVE  HandledInv'
BY DEF TypeOK, HandledInv, EndCall, Goto

\* A call is repeated after a silent refresh only if it was answered 401, and then its
\* endpoint has not run: no call runs its endpoint twice, in any number of tabs.
THEOREM HandledSafe == Spec => []HandledOnce
<1>1. Init => HandledInv
  BY DEF Init, HandledInv
<1>2. TypeOK /\ HandledInv /\ [Next]_vars => HandledInv'
  <2> SUFFICES ASSUME TypeOK, HandledInv, [Next]_vars PROVE HandledInv'
    OBVIOUS
  <2>1. CASE UNCHANGED <<at, ran>>
    BY <2>1 DEF HandledInv
  <2>2. ASSUME NEW t \in Tabs, NEW o \in Ops, NEW l \in Links, Start(t, o, l)
        PROVE  HandledInv'
    BY <2>2, HandledMoves DEF Start
  <2>3. ASSUME NEW t \in Tabs, Register(t) \/ Login(t) \/ Logout(t) PROVE HandledInv'
    <3>1. at[t] = "sent" /\ ran' = ran
      BY <2>3 DEF Register, Login, Logout, At
    <3>2. PICK p : Goto(t, p)
      BY <2>3 DEF Register, Login, Logout
    <3> QED
      BY <3>1, <3>2, HandledMoves
  <2>4. ASSUME NEW t \in Tabs, ForgotPassword(t) \/ ConsumeReset(t) PROVE HandledInv'
    <3>1. at[t] = "sent" /\ ran' = ran
      BY <2>4 DEF ForgotPassword, ConsumeReset, At
    <3>2. PICK p : Goto(t, p)
      BY <2>4 DEF ForgotPassword, ConsumeReset
    <3> QED
      BY <3>1, <3>2, HandledMoves
  <2>5. ASSUME NEW t \in Tabs, InsertUser(t) \/ StoreRefreshToken(t) \/ SetPassword(t)
        PROVE  HandledInv'
    <3>1. at[t] \in {"insert", "store", "rehash"} /\ ran' = ran
      BY <2>5 DEF InsertUser, StoreRefreshToken, SetPassword
    <3>2. PICK p : Goto(t, p)
      BY <2>5 DEF InsertUser, StoreRefreshToken, SetPassword
    <3> QED
      BY <3>1, <3>2, HandledMoves
  <2>6. ASSUME NEW t \in Tabs, RefreshCheck(t) \/ RefreshRotate(t) PROVE HandledInv'
    <3>1. at[t] \in {"refresh", "rotate"} /\ ran' = ran
      BY <2>6 DEF RefreshCheck, RefreshRotate
    <3>2. PICK p : Goto(t, p)
      BY <2>6 DEF RefreshCheck, RefreshRotate
    <3> QED
      BY <3>1, <3>2, HandledMoves
  <2>7. ASSUME NEW t \in Tabs, SilentRefresh(t) \/ TakeTokens(t) \/ Resend(t)
        PROVE  HandledInv'
    <3>1. at[t] \in {"denied", "refreshed", "resend"} /\ ran' = ran
      BY <2>7 DEF SilentRefresh, TakeTokens, Resend
    <3>2. PICK p : Goto(t, p)
      BY <2>7 DEF SilentRefresh, TakeTokens, Resend
    <3> QED
      BY <3>1, <3>2, HandledMoves
  <2>8. ASSUME NEW t \in Tabs, Endpoint(t) PROVE HandledInv'
    <3>1. at[t] = "sent" /\ ran[t] = 0
      BY <2>8 DEF Endpoint, At, HandledInv
    <3>2. CASE Goto(t, "denied") /\ UNCHANGED ran
      BY <3>1, <3>2, HandledMoves
    <3>3. CASE ran' = [ran EXCEPT ![t] = @ + 1] /\ (Goto(t, "done") \/ Goto(t, "failed"))
      <4>1. ran'[t] = 1 /\ \A u \in Tabs : u # t => ran'[u] = ran[u]
        BY <3>1, <3>3 DEF TypeOK
      <4>2. at'[t] \in {"done", "failed"} /\ \A u \in Tabs : u # t => at'[u] = at[u]
        BY <3>3 DEF TypeOK, Goto
      <4> QED
        BY <4>1, <4>2 DEF HandledInv
    <3> QED
      BY <2>8, <3>2, <3>3 DEF Endpoint
  <2>9. ASSUME NEW t \in Tabs, Finish(t) \/ ClearAuth(t) \/ Lost(t) PROVE HandledInv'
    BY <2>9, HandledEnds DEF Finish, ClearAuth, Lost
  <2>10. CASE UNCHANGED vars \/ AccessExpires \/ SessionExpires \/ \E l \in Links : LinkExpires(l)
    BY <2>1, <2>10 DEF vars, AccessExpires, SessionExpires, LinkExpires
  <2> QED
    BY NextCases, <2>2, <2>3, <2>4, <2>5, <2>6, <2>7, <2>8, <2>9, <2>10
<1>3. HandledInv => HandledOnce
  <2> SUFFICES ASSUME HandledInv, NEW t \in Tabs PROVE ran[t] <= 1
    BY DEF HandledOnce
  <2>1. ran[t] \in {0, 1}
    BY DEF HandledInv
  <2> QED
    BY <2>1
<1> QED
  BY <1>1, <1>2, <1>3, TypeCorrect, PTL DEF Spec
-----------------------------------------------------------------------------
(* A reset link sets one password.                                         *)

LEMMA ResetMoves ==
    ASSUME TypeOK, ResetInv, NEW t \in Tabs, NEW p, Goto(t, p), p # "rehash",
           UNCHANGED <<reset, resets, link>>
    PROVE  ResetInv'
<1>1. \A u \in Tabs : at'[u] = "rehash" => at[u] = "rehash"
  BY DEF TypeOK, Goto
<1> QED
  BY <1>1 DEF ResetInv

\* GETDEL takes the link before the password is set: however many tabs follow it,
\* one of them gets that far.
THEOREM ResetSafe == Spec => []ResetOnce
<1>1. Init => ResetInv
  BY DEF Init, ResetInv
<1>2. TypeOK /\ ResetInv /\ [Next]_vars => ResetInv'
  <2> SUFFICES ASSUME TypeOK, ResetInv, [Next]_vars PROVE ResetInv'
    OBVIOUS
  <2>1. ASSUME NEW t \in Tabs, NEW o \in Ops, NEW l \in Links, Start(t, o, l)
        PROVE  ResetInv'
    <3>1. /\ at'[t] = "sent"
          /\ \A u \in Tabs : u # t => at'[u] = at[u] /\ link'[u] = link[u]
      BY <2>1 DEF TypeOK, Start, Goto
    <3>2. UNCHANGED <<reset, resets>>
      BY <2>1 DEF Start, session
    <3> QED
      BY <3>1, <3>2 DEF ResetInv
  <2>2. ASSUME NEW t \in Tabs, Register(t) \/ Login(t) \/ Logout(t) \/ Endpoint(t)
        PROVE  ResetInv'
    <3>1. UNCHANGED <<reset, resets, link>>
      BY <2>2 DEF Register, Login, Logout, Endpoint, session, call
    <3>2. PICK p : Goto(t, p) /\ p # "rehash"
      BY <2>2 DEF Register, Login, Logout, Endpoint
    <3> QED
      BY <3>1, <3>2, ResetMoves
  <2>3. ASSUME NEW t \in Tabs, InsertUser(t) \/ StoreRefreshToken(t) PROVE ResetInv'
    <3>1. UNCHANGED <<reset, resets, link>>
      BY <2>3 DEF InsertUser, StoreRefreshToken, call
    <3>2. PICK p : Goto(t, p) /\ p # "rehash"
      BY <2>3 DEF InsertUser, StoreRefreshToken
    <3> QED
      BY <3>1, <3>2, ResetMoves
  <2>4. ASSUME NEW t \in Tabs, RefreshCheck(t) \/ RefreshRotate(t) PROVE ResetInv'
    <3>1. UNCHANGED <<reset, resets, link>>
      BY <2>4 DEF RefreshCheck, RefreshRotate, call
    <3>2. PICK p : Goto(t, p) /\ p # "rehash"
      BY <2>4 DEF RefreshCheck, RefreshRotate
    <3> QED
      BY <3>1, <3>2, ResetMoves
  <2>5. ASSUME NEW t \in Tabs, SilentRefresh(t) \/ TakeTokens(t) \/ Resend(t)
        PROVE  ResetInv'
    <3>1. UNCHANGED <<reset, resets, link>>
      BY <2>5 DEF SilentRefresh, TakeTokens, Resend, session, call
    <3>2. Goto(t, "refresh") \/ Goto(t, "resend") \/ Goto(t, "sent")
      BY <2>5 DEF SilentRefresh, TakeTokens, Resend
    <3> QED
      BY <3>1, <3>2, ResetMoves
  <2>6. ASSUME NEW t \in Tabs, Finish(t) \/ ClearAuth(t) \/ Lost(t) PROVE ResetInv'
    <3>1. EndCall(t) /\ UNCHANGED session
      BY <2>6 DEF Finish, ClearAuth, Lost
    <3>2. UNCHANGED <<reset, resets, link>>
      BY <3>1 DEF EndCall, session
    <3> QED
      BY <3>1, <3>2, ResetMoves DEF EndCall
  <2>7. ASSUME NEW t \in Tabs, ForgotPassword(t) PROVE ResetInv'
    <3>1. UNCHANGED <<resets, link>>
      BY <2>7 DEF ForgotPassword, call
    <3>2. \A u \in Tabs : at'[u] = "rehash" => at[u] = "rehash"
      BY <2>7 DEF TypeOK, ForgotPassword, Goto
    <3>3. \A l \in Links : reset[l] = "spent" => reset'[l] = "spent"
      BY <2>7 DEF TypeOK, ForgotPassword
    <3>4. link \in [Tabs -> Links]
      BY DEF TypeOK
    <3> QED
      BY <3>1, <3>2, <3>3, <3>4 DEF ResetInv
  <2>8. ASSUME NEW t \in Tabs, ConsumeReset(t) PROVE ResetInv'
    <3>1. UNCHANGED <<resets, link>> /\ at[t] = "sent"
      BY <2>8 DEF ConsumeReset, At, call
    <3>2. CASE reset[link[t]] = "live"
      <4>1. link[t] \in Links /\ link \in [Tabs -> Links]
        BY DEF TypeOK
      <4>2. /\ reset'[link[t]] = "spent"
            /\ \A l \in Links : l # link[t] => reset'[l] = reset[l]
        BY <2>8, <3>2, <4>1 DEF TypeOK, ConsumeReset
      <4>3. at'[t] = "rehash" /\ \A u \in Tabs : u # t => at'[u] = at[u]
        BY <2>8, <3>2 DEF TypeOK, ConsumeReset, Goto
      <4>4. resets[link[t]] = 0
        BY <3>2, <4>1 DEF ResetInv
      <4>5. \A u \in Tabs : at[u] = "rehash" => link[u] # link[t]
        BY <3>2 DEF ResetInv
      <4> QED
        BY <3>1, <4>1, <4>2, <4>3, <4>4, <4>5 DEF ResetInv
    <3>3. CASE reset[link[t]] # "live"
      BY <2>8, <3>1, <3>3, ResetMoves DEF ConsumeReset
    <3> QED
      BY <3>2, <3>3
  <2>9. ASSUME NEW t \in Tabs, SetPassword(t) PROVE ResetInv'
    <3>1. UNCHANGED <<reset, link>> /\ at[t] = "rehash"
      BY <2>9 DEF SetPassword, call
    <3>2. link[t] \in Links /\ link \in [Tabs -> Links]
      BY DEF TypeOK
    <3>3. resets[link[t]] = 0 /\ reset[link[t]] = "spent"
      BY <3>1 DEF ResetInv
    <3>4. /\ resets'[link[t]] = 1
          /\ \A l \in Links : l # link[t] => resets'[l] = resets[l]
      BY <2>9, <3>2, <3>3 DEF TypeOK, SetPassword
    <3>5. at'[t] = "done" /\ \A u \in Tabs : u # t => at'[u] = at[u]
      BY <2>9 DEF TypeOK, SetPassword, Goto
    <3> QED
      BY <3>1, <3>2, <3>3, <3>4, <3>5 DEF ResetInv
  <2>10. CASE UNCHANGED vars \/ AccessExpires \/ SessionExpires
    <3>1. UNCHANGED <<reset, resets, link, at>>
      BY <2>10 DEF vars, AccessExpires, SessionExpires, session, call
    <3> QED
      BY <3>1 DEF ResetInv
  <2>11. ASSUME NEW l \in Links, LinkExpires(l) PROVE ResetInv'
    <3>1. UNCHANGED <<resets, link, at>>
      BY <2>11 DEF LinkExpires, call
    <3>2. \A k \in Links : reset[k] = "spent" => reset'[k] = "spent"
      BY <2>11 DEF TypeOK, LinkExpires
    <3>3. link \in [Tabs -> Links]
      BY DEF TypeOK
    <3> QED
      BY <3>1, <3>2, <3>3 DEF ResetInv
  <2> QED
    BY NextCases, <2>1, <2>2, <2>3, <2>4, <2>5, <2>6, <2>7, <2>8, <2>9, <2>10, <2>11
<1>3. ResetInv => ResetOnce
  BY DEF ResetInv, ResetOnce
<1> QED
  BY <1>1, <1>2, <1>3, TypeCorrect, PTL DEF Spec
-----------------------------------------------------------------------------
(* Refresh tokens.                                                         *)

Elsewhere(t) == \A u \in Tabs : u # t => at'[u] = at[u] /\ minted'[u] = minted[u]

\* A tab that holds no token afterwards.
LEMMA TokenMoves ==
    ASSUME TokenInv, NEW t \in Tabs, at'[t] \notin Holding, Elsewhere(t),
           UNCHANGED <<stored, retired, issued>>
    PROVE  TokenInv'
BY DEF TokenInv, Elsewhere

LEMMA TokenGoto ==
    ASSUME TypeOK, TokenInv, NEW t \in Tabs, NEW p, Goto(t, p), p \notin Holding,
           UNCHANGED <<stored, retired, issued, minted>>
    PROVE  TokenInv'
<1>1. at'[t] \notin Holding /\ Elsewhere(t)
  BY DEF TypeOK, Goto, Elsewhere
<1> QED
  BY <1>1, TokenMoves

\* A new token is larger than those that exist.
LEMMA TokenMinted ==
    ASSUME TypeOK, TokenInv, NEW t \in Tabs, NEW p, Goto(t, p), CreateTokens(t),
           UNCHANGED <<stored, retired>>
    PROVE  TokenInv'
<1>1. issued \in Nat /\ issued' = issued + 1 /\ minted'[t] = issued + 1
  BY DEF TypeOK, CreateTokens
<1>2. Elsewhere(t)
  BY DEF TypeOK, CreateTokens, Goto, Elsewhere
<1>3. /\ \A n \in retired \cup {stored} : n \in Nat /\ n < issued'
      /\ \A u \in Tabs : at[u] \in Holding => minted[u] \in Nat /\ minted[u] < issued'
  BY <1>1 DEF TypeOK, TokenInv
<1>4. minted'[t] # NoToken /\ minted'[t] <= issued'
  BY <1>1 DEF NoToken
<1>5. minted'[t] \notin retired' /\ minted'[t] # stored'
  BY <1>1, <1>3
<1>6. \A u \in Tabs : u # t /\ at'[u] \in Holding =>
          /\ minted'[u] # NoToken /\ minted'[u] <= issued'
          /\ minted'[u] \notin retired' /\ minted'[u] # stored' /\ minted'[u] # minted'[t]
  BY <1>1, <1>2, <1>3 DEF TokenInv, Elsewhere
<1>7. \A u, v \in Tabs : u # t /\ v # t /\ at'[u] \in Holding /\ at'[v] \in Holding
                           /\ minted'[u] = minted'[v] => u = v
  BY <1>2 DEF TokenInv, Elsewhere
<1>8. \A n \in retired' \cup {stored'} : n <= issued'
  BY <1>1, <1>3
<1>9. stored' \notin retired' /\ NoToken \notin retired'
  BY DEF TokenInv
<1> QED
  BY <1>4, <1>5, <1>6, <1>7, <1>8, <1>9 DEF TokenInv

\* The token of t replaces the stored one.
LEMMA TokenStored ==
    ASSUME TypeOK, TokenInv, NEW t \in Tabs, at[t] \in Holding, NEW p, Goto(t, p),
           p \notin Holding, Store(minted[t]), UNCHANGED <<issued, minted>>
    PROVE  TokenInv'
<1>1. at'[t] \notin Holding /\ \A u \in Tabs : u # t => at'[u] = at[u]
  BY DEF TypeOK, Goto
<1>2. /\ stored' = minted[t]
      /\ retired' = retired \cup ({stored} \ {NoToken, minted[t]})
  BY DEF Store
<1>3. \A u \in Tabs : u # t /\ at[u] \in Holding => minted[u] # minted[t]
  BY DEF TokenInv
<1> QED
  BY <1>1, <1>2, <1>3 DEF TokenInv

LEMMA TokenRevoked ==
    ASSUME TokenInv, Store(NoToken), UNCHANGED <<issued, minted>>,
           issued \in Nat, \A u \in Tabs : at'[u] \in Holding => at[u] \in Holding
    PROVE  TokenInv'
<1>1. stored' = NoToken /\ retired' = retired \cup ({stored} \ {NoToken})
  BY DEF Store
<1>2. NoToken <= issued
  BY DEF NoToken
<1> QED
  BY <1>1, <1>2 DEF TokenInv

LEMMA TokenInvariant == Spec => []TokenInv
<1>1. Init => TokenInv
  BY DEF Init, TokenInv, Holding, NoToken
<1>2. TypeOK /\ TokenInv /\ [Next]_vars => TokenInv'
  <2> SUFFICES ASSUME TypeOK, TokenInv, [Next]_vars PROVE TokenInv'
    OBVIOUS
  <2>1. ASSUME NEW t \in Tabs, NEW o \in Ops, NEW l \in Links, Start(t, o, l)
        PROVE  TokenInv'
    BY <2>1, TokenGoto DEF Start, session, Holding
  <2>2. ASSUME NEW t \in Tabs, Register(t) \/ Endpoint(t) PROVE TokenInv'
    <3>1. UNCHANGED <<stored, retired, issued, minted>>
      BY <2>2 DEF Register, Endpoint, session
    <3>2. PICK p : Goto(t, p) /\ p \notin Holding
      BY <2>2 DEF Register, Endpoint, Holding
    <3> QED
      BY <3>1, <3>2, TokenGoto
  <2>3. ASSUME NEW t \in Tabs, ForgotPassword(t) \/ ConsumeReset(t) \/ SetPassword(t)
        PROVE  TokenInv'
    <3>1. UNCHANGED <<stored, retired, issued, minted>>
      BY <2>3 DEF ForgotPassword, ConsumeReset, SetPassword
    <3>2. PICK p : Goto(t, p) /\ p \notin Holding
      BY <2>3 DEF ForgotPassword, ConsumeReset, SetPassword, Holding
    <3> QED
      BY <3>1, <3>2, TokenGoto
  <2>4. ASSUME NEW t \in Tabs, InsertUser(t) PROVE TokenInv'
    <3>1. CASE rows > 0
      BY <2>4, <3>1, TokenGoto DEF InsertUser, Holding
    <3>2. CASE ~ (rows > 0)
      BY <2>4, <3>2, TokenMinted DEF InsertUser
    <3> QED
      BY <3>1, <3>2
  <2>5. ASSUME NEW t \in Tabs, Login(t) PROVE TokenInv'
    <3>1. UNCHANGED <<stored, retired>>
      BY <2>5 DEF Login
    <3>2. CASE CreateTokens(t) /\ Goto(t, "store")
      BY <3>1, <3>2, TokenMinted
    <3>3. CASE Goto(t, "denied") /\ UNCHANGED <<issued, minted>>
      BY <3>1, <3>3, TokenGoto DEF Holding
    <3> QED
      BY <2>5, <3>2, <3>3 DEF Login
  <2>6. ASSUME NEW t \in Tabs, RefreshCheck(t) PROVE TokenInv'
    <3>1. UNCHANGED <<stored, retired>>
      BY <2>6 DEF RefreshCheck
    <3>2. CASE CreateTokens(t) /\ Goto(t, "rotate")
      BY <3>1, <3>2, TokenMinted
    <3>3. CASE Goto(t, "refused") /\ UNCHANGED <<issued, minted>>
      BY <3>1, <3>3, TokenGoto DEF Holding
    <3> QED
      BY <2>6, <3>2, <3>3 DEF RefreshCheck
  <2>7. ASSUME NEW t \in Tabs, StoreRefreshToken(t) PROVE TokenInv'
    BY <2>7, TokenStored DEF StoreRefreshToken, Holding
  <2>8. ASSUME NEW t \in Tabs, RefreshRotate(t) PROVE TokenInv'
    BY <2>8, TokenStored DEF RefreshRotate, Holding
  <2>9. ASSUME NEW t \in Tabs, Logout(t) PROVE TokenInv'
    <3>1. UNCHANGED <<issued, minted>>
      BY <2>9 DEF Logout
    <3>2. CASE Goto(t, "denied") /\ UNCHANGED <<stored, retired>>
      BY <3>1, <3>2, TokenGoto DEF Holding
    <3>3. CASE Goto(t, "cleared") /\ Store(NoToken)
      <4>1. \A u \in Tabs : at'[u] \in Holding => at[u] \in Holding
        BY <3>3 DEF TypeOK, Goto, Holding
      <4> QED
        BY <3>1, <3>3, <4>1, TokenRevoked DEF TypeOK
    <3> QED
      BY <2>9, <3>2, <3>3 DEF Logout
  <2>10. ASSUME NEW t \in Tabs, SilentRefresh(t) \/ TakeTokens(t) \/ Resend(t)
         PROVE  TokenInv'
    <3>1. UNCHANGED <<stored, retired, issued, minted>>
      BY <2>10 DEF SilentRefresh, TakeTokens, Resend, session
    <3>2. Goto(t, "refresh") \/ Goto(t, "resend") \/ Goto(t, "sent")
      BY <2>10 DEF SilentRefresh, TakeTokens, Resend
    <3> QED
      BY <3>1, <3>2, TokenGoto DEF Holding
  <2>11. ASSUME NEW t \in Tabs, Finish(t) \/ ClearAuth(t) \/ Lost(t) PROVE TokenInv'
    <3>1. EndCall(t) /\ UNCHANGED session
      BY <2>11 DEF Finish, ClearAuth, Lost
    <3>2. at'[t] \notin Holding /\ Elsewhere(t)
      BY <3>1 DEF TypeOK, EndCall, Goto, Elsewhere, Holding
    <3> QED
      BY <3>1, <3>2, TokenMoves DEF session
  <2>12. CASE UNCHANGED <<stored, retired, issued, minted, at>>
    BY <2>12 DEF TokenInv
  <2>13. CASE SessionExpires
    BY <2>13, TokenRevoked DEF SessionExpires, TypeOK
  <2>14. CASE UNCHANGED vars \/ AccessExpires \/ \E l \in Links : LinkExpires(l)
    BY <2>12, <2>14 DEF vars, AccessExpires, LinkExpires, session
  <2> QED
    BY NextCases, <2>1, <2>2, <2>3, <2>4, <2>5, <2>6, <2>7, <2>8, <2>9, <2>10, <2>11, <2>13,
       <2>14
<1> QED
  BY <1>1, <1>2, TypeCorrect, PTL DEF Spec

\* A token that was rotated, overwritten by another login, revoked or that expired is
\* never the valid one again: every token is stored at most once.
THEOREM RetiredSafe == Spec => []RetiredForGood
<1>1. TokenInv => RetiredForGood
  BY DEF TokenInv, RetiredForGood
<1> QED
  BY <1>1, TokenInvariant, PTL

\* What a step may do to the key.
SlotMoves ==
    \/ UNCHANGED <<stored, retired>>
    \/ Store(NoToken)
    \/ \E t \in Tabs : at[t] \in Holding /\ Store(minted[t])

LEMMA SlotCases == [Next]_vars => SlotMoves
<1> SUFFICES ASSUME [Next]_vars PROVE SlotMoves
  OBVIOUS
<1>1. ASSUME NEW t \in Tabs, StoreRefreshToken(t) \/ RefreshRotate(t) PROVE SlotMoves
  BY <1>1 DEF SlotMoves, StoreRefreshToken, RefreshRotate, Holding
<1>2. ASSUME NEW t \in Tabs, Logout(t) PROVE SlotMoves
  BY <1>2 DEF SlotMoves, Logout
<1>3. CASE SessionExpires
  BY <1>3 DEF SlotMoves, SessionExpires
<1>4. ASSUME NEW t \in Tabs, NEW o \in Ops, NEW l \in Links, Start(t, o, l) PROVE SlotMoves
  BY <1>4 DEF SlotMoves, Start, session
<1>5. ASSUME NEW t \in Tabs, \/ Register(t) \/ InsertUser(t) \/ Login(t) \/ Endpoint(t)
                            \/ ForgotPassword(t) \/ ConsumeReset(t)
      PROVE  SlotMoves
  BY <1>5 DEF SlotMoves, Register, InsertUser, Login, Endpoint, ForgotPassword, ConsumeReset, session
<1>6. ASSUME NEW t \in Tabs, \/ SetPassword(t) \/ RefreshCheck(t) \/ Finish(t)
                            \/ SilentRefresh(t) \/ TakeTokens(t) \/ Resend(t)
                            \/ ClearAuth(t) \/ Lost(t)
      PROVE  SlotMoves
  BY <1>6 DEF SlotMoves, SetPassword, RefreshCheck, Finish, SilentRefresh, TakeTokens, Resend, ClearAuth,
     Lost, session
<1>7. CASE UNCHANGED vars \/ AccessExpires \/ \E l \in Links : LinkExpires(l)
  BY <1>7 DEF SlotMoves, vars, AccessExpires, LinkExpires, session
<1> QED
  BY NextCases, <1>1, <1>2, <1>3, <1>4, <1>5, <1>6, <1>7

\* The refresh_token:{user_id} key implements RefreshToken: with any number of tabs that
\* log in and refresh at once, what takes the place of a token has never been there.
THEOREM SlotImplements == Spec => SlotSpec
<1>1. Init => Slot!Init
  BY DEF Init, Slot!Init
<1>2. TypeOK /\ TokenInv /\ [Next]_vars => [Slot!Next]_(Slot!vars)
  <2> SUFFICES ASSUME TypeOK, TokenInv, [Next]_vars PROVE [Slot!Next]_(Slot!vars)
    OBVIOUS
  <2>1. CASE UNCHANGED <<stored, retired>>
    BY <2>1 DEF Slot!vars
  <2>2. CASE Store(NoToken)
    <3>1. retired' \cup ({stored'} \ {NoToken}) = retired \cup ({stored} \ {NoToken})
      BY <2>2 DEF Store
    <3> QED
      BY <2>2, <3>1 DEF Store, Slot!Next, Slot!Revoke
  <2>3. ASSUME NEW t \in Tabs, at[t] \in Holding, Store(minted[t])
        PROVE  [Slot!Next]_(Slot!vars)
    <3>1. minted[t] # NoToken /\ minted[t] \notin retired /\ minted[t] # stored
      BY <2>3 DEF TokenInv
    <3>2. stored' \notin (retired \cup ({stored} \ {NoToken})) \cup {NoToken}
      BY <2>3, <3>1 DEF Store
    <3>3. retired' \cup ({stored'} \ {NoToken})
            = (retired \cup ({stored} \ {NoToken})) \cup {stored'}
      BY <2>3, <3>1 DEF Store
    <3> QED
      BY <3>2, <3>3 DEF Slot!Next, Slot!Renew
  <2> QED
    BY <2>1, <2>2, <2>3, SlotCases DEF SlotMoves
<1> QED
  BY <1>1, <1>2, TypeCorrect, TokenInvariant, PTL DEF Spec, SlotSpec, Slot!Spec
-----------------------------------------------------------------------------
(* The browser and Redis.                                                  *)

Landing == {"signed", "refreshed", "cleared"}  \* Redis has changed, the cookies not yet

\* While no tabs overlap and nothing is lost, one tab at most is calling; Redis may be
\* ahead of the cookies only by the reply under way to that tab.
SyncInv ==
    ~disturbed =>
        /\ \A t, u \in Tabs : at[t] # "idle" /\ at[u] # "idle" => t = u
        /\ \A t \in Tabs : at[t] \in {"signed", "refreshed"} => stored \in {minted[t], NoToken}
        /\ \A t \in Tabs : at[t] = "cleared" => stored = NoToken
        /\ (\A t \in Tabs : at[t] \notin Landing) => stored \in {cookie, NoToken}

\* A step of a call before Redis is written or after the cookies are.
LEMMA SyncMoves ==
    ASSUME TypeOK, SyncInv, NEW t \in Tabs, at[t] # "idle", at[t] \notin Landing,
           NEW p, Goto(t, p), p \notin Landing, UNCHANGED <<stored, cookie, disturbed>>
    PROVE  SyncInv'
<1> SUFFICES ASSUME ~disturbed PROVE SyncInv'
  BY DEF SyncInv
<1>1. at'[t] = p /\ \A u \in Tabs : u # t => at'[u] = at[u]
  BY DEF TypeOK, Goto
<1>2. \A u \in Tabs : u # t => at[u] = "idle"
  BY DEF SyncInv
<1>3. \A u \in Tabs : at[u] \notin Landing /\ at'[u] \notin Landing
  BY <1>1, <1>2 DEF Landing
<1>4. stored \in {cookie, NoToken}
  BY <1>3 DEF SyncInv
<1> QED
  BY <1>1, <1>2, <1>3, <1>4 DEF SyncInv, Landing

\* The step that writes Redis.
LEMMA SyncLands ==
    ASSUME TypeOK, SyncInv, NEW t \in Tabs, at[t] # "idle", UNCHANGED <<cookie, disturbed>>,
           \/ Goto(t, "signed") /\ stored' = minted'[t]
           \/ Goto(t, "refreshed") /\ stored' = minted'[t]
           \/ Goto(t, "cleared") /\ stored' = NoToken
    PROVE  SyncInv'
<1> SUFFICES ASSUME ~disturbed PROVE SyncInv'
  BY DEF SyncInv
<1>1. at'[t] \in Landing /\ \A u \in Tabs : u # t => at'[u] = at[u]
  BY DEF TypeOK, Goto, Landing
<1>2. \A u \in Tabs : u # t => at'[u] = "idle"
  BY <1>1 DEF SyncInv
<1>3. at'[t] = "cleared" => stored' = NoToken
  BY DEF TypeOK, Goto
<1>4. at'[t] \in {"signed", "refreshed"} => stored' = minted'[t]
  BY DEF TypeOK, Goto
<1> QED
  BY <1>1, <1>2, <1>3, <1>4 DEF SyncInv, Landing

\* The step that takes the reply.
LEMMA SyncTakes ==
    ASSUME TypeOK, SyncInv, NEW t \in Tabs, NEW p, Goto(t, p), p \notin Landing,
           UNCHANGED <<stored, disturbed>>,
           \/ at[t] \in {"signed", "refreshed"} /\ cookie' = minted[t]
           \/ at[t] = "cleared" /\ cookie' = NoToken
    PROVE  SyncInv'
<1> SUFFICES ASSUME ~disturbed PROVE SyncInv'
  BY DEF SyncInv
<1>1. at'[t] = p /\ \A u \in Tabs : u # t => at'[u] = at[u]
  BY DEF TypeOK, Goto
<1>2. \A u \in Tabs : u # t => at'[u] = "idle"
  BY <1>1 DEF SyncInv
<1>3. stored' \in {cookie', NoToken}
  BY DEF SyncInv
<1> QED
  BY <1>1, <1>2, <1>3 DEF SyncInv, Landing

\* Without overlapping calls and lost replies the cookie holds the token that Redis
\* holds, as long as Redis holds one.
THEOREM SyncSafe == Spec => []InSync
<1>1. Init => SyncInv
  BY DEF Init, SyncInv, NoToken
<1>2. TypeOK /\ SyncInv /\ [Next]_vars => SyncInv'
  <2> SUFFICES ASSUME TypeOK, SyncInv, [Next]_vars PROVE SyncInv'
    OBVIOUS
  <2>1. ASSUME NEW t \in Tabs, NEW o \in Ops, NEW l \in Links, Start(t, o, l)
        PROVE  SyncInv'
    <3>1. CASE disturbed'
      BY <3>1 DEF SyncInv
    <3>2. CASE ~disturbed'
      <4>1. ~disturbed /\ \A u \in Tabs : at[u] = "idle"
        BY <2>1, <3>2 DEF Start
      <4>2. at'[t] = "sent" /\ \A u \in Tabs : u # t => at'[u] = "idle"
        BY <2>1, <4>1 DEF TypeOK, Start, Goto
      <4>3. stored \in {cookie, NoToken}
        BY <4>1 DEF SyncInv, Landing
      <4>4. stored' \in {cookie', NoToken}
        BY <2>1, <4>3 DEF Start, session, cookies
      <4> QED
        BY <4>2, <4>4 DEF SyncInv, Landing
    <3> QED
      BY <3>1, <3>2
  <2>2. ASSUME NEW t \in Tabs, \/ Register(t) \/ Login(t) \/ Endpoint(t)
                              \/ ForgotPassword(t) \/ ConsumeReset(t)
        PROVE  SyncInv'
    <3>1. at[t] = "sent" /\ UNCHANGED <<stored, cookie, disturbed>>
      BY <2>2 DEF Register, Login, Endpoint, ForgotPassword, ConsumeReset, At, session,
         cookies, bounds
    <3>2. PICK p : Goto(t, p) /\ p \notin Landing
      BY <2>2 DEF Register, Login, Endpoint, ForgotPassword, ConsumeReset, Landing
    <3> QED
      BY <3>1, <3>2, SyncMoves DEF Landing
  <2>3. ASSUME NEW t \in Tabs, InsertUser(t) \/ SetPassword(t) \/ RefreshCheck(t)
        PROVE  SyncInv'
    <3>1. /\ at[t] \in {"insert", "rehash", "refresh"}
          /\ UNCHANGED <<stored, cookie, disturbed>>
      BY <2>3 DEF InsertUser, SetPassword, RefreshCheck, cookies, bounds
    <3>2. PICK p : Goto(t, p) /\ p \notin Landing
      BY <2>3 DEF InsertUser, SetPassword, RefreshCheck, Landing
    <3> QED
      BY <3>1, <3>2, SyncMoves DEF Landing
  <2>4. ASSUME NEW t \in Tabs, StoreRefreshToken(t) \/ RefreshRotate(t) PROVE SyncInv'
    <3>1. /\ at[t] # "idle" /\ UNCHANGED <<cookie, disturbed>>
          /\ stored' = minted'[t] /\ (Goto(t, "signed") \/ Goto(t, "refreshed"))
      BY <2>4 DEF StoreRefreshToken, RefreshRotate, Store, cookies, bounds
    <3> QED
      BY <3>1, SyncLands
  <2>5. ASSUME NEW t \in Tabs, Logout(t) PROVE SyncInv'
    <3>1. at[t] = "sent" /\ UNCHANGED <<cookie, disturbed>>
      BY <2>5 DEF Logout, At, cookies, bounds
    <3>2. CASE Goto(t, "cleared") /\ Store(NoToken)
      BY <3>1, <3>2, SyncLands DEF Store
    <3>3. CASE Goto(t, "denied") /\ UNCHANGED <<stored, retired>>
      BY <3>1, <3>3, SyncMoves DEF Landing
    <3> QED
      BY <2>5, <3>2, <3>3 DEF Logout
  <2>6. ASSUME NEW t \in Tabs, Finish(t) PROVE SyncInv'
    <3>1. Goto(t, "idle") /\ UNCHANGED <<stored, disturbed>>
      BY <2>6 DEF Finish, EndCall, session, bounds
    <3>2. CASE at[t] \in {"done", "failed"} /\ UNCHANGED cookies
      BY <3>1, <3>2, SyncMoves DEF Landing, cookies
    <3>3. CASE at[t] = "signed" /\ SetCookies(TRUE, minted[t])
      BY <3>1, <3>3, SyncTakes DEF Landing, SetCookies
    <3>4. CASE at[t] = "cleared" /\ SetCookies(FALSE, NoToken)
      BY <3>1, <3>4, SyncTakes DEF Landing, SetCookies
    <3> QED
      BY <2>6, <3>2, <3>3, <3>4 DEF Finish
  <2>7. ASSUME NEW t \in Tabs, TakeTokens(t) PROVE SyncInv'
    <3>1. /\ at[t] = "refreshed" /\ cookie' = minted[t] /\ Goto(t, "resend")
          /\ UNCHANGED <<stored, disturbed>>
      BY <2>7 DEF TakeTokens, SetCookies, session, bounds
    <3> QED
      BY <3>1, SyncTakes DEF Landing
  <2>8. ASSUME NEW t \in Tabs, SilentRefresh(t) \/ Resend(t) \/ ClearAuth(t)
        PROVE  SyncInv'
    <3>1. /\ at[t] \in {"denied", "resend", "refused"}
          /\ UNCHANGED <<stored, cookie, disturbed>>
      BY <2>8 DEF SilentRefresh, Resend, ClearAuth, session, cookies, bounds
    <3>2. Goto(t, "refresh") \/ Goto(t, "sent") \/ Goto(t, "idle")
      BY <2>8 DEF SilentRefresh, Resend, ClearAuth, EndCall
    <3> QED
      BY <3>1, <3>2, SyncMoves DEF Landing
  <2>9. ASSUME NEW t \in Tabs, Lost(t) PROVE SyncInv'
    BY <2>9 DEF Lost, SyncInv
  <2>10. CASE SessionExpires
    <3>1. stored' = NoToken /\ UNCHANGED <<at, minted, cookie, disturbed>>
      BY <2>10 DEF SessionExpires, Store, cookies, bounds
    <3> QED
      BY <3>1 DEF SyncInv
  <2>11. CASE UNCHANGED vars \/ AccessExpires \/ \E l \in Links : LinkExpires(l)
    <3>1. UNCHANGED <<stored, at, minted, cookie, disturbed>>
      BY <2>11 DEF vars, AccessExpires, LinkExpires, session, cookies, bounds
    <3> QED
      BY <3>1 DEF SyncInv
  <2> QED
    BY NextCases, <2>1, <2>2, <2>3, <2>4, <2>5, <2>6, <2>7, <2>8, <2>9, <2>10, <2>11
<1>3. SyncInv => InSync
  BY DEF SyncInv, InSync, Landing
<1> QED
  BY <1>1, <1>2, <1>3, TypeCorrect, PTL DEF Spec
-----------------------------------------------------------------------------
(* CallsRunOut.  A call that has been repeated is not on the way to another  *)
(* refresh.                                                                  *)
AgainInv ==
    \A t \in Tabs :
        again[t] => at[t] \notin {"idle", "refresh", "rotate", "refreshed", "resend"}

\* The way of a call through the server and the browser.
Advance(t) ==
    \/ /\ at[t] = "sent"
       /\ at'[t] \in {"insert", "store", "rehash", "denied", "done", "failed", "cleared"}
       /\ UNCHANGED again
    \/ at[t] = "insert" /\ at'[t] \in {"store", "failed"} /\ UNCHANGED again
    \/ at[t] = "store" /\ at'[t] = "signed" /\ UNCHANGED again
    \/ at[t] = "rehash" /\ at'[t] = "done" /\ UNCHANGED again
    \/ at[t] = "denied" /\ ~again[t] /\ at'[t] = "refresh" /\ UNCHANGED again
    \/ at[t] = "refresh" /\ at'[t] \in {"rotate", "refused"} /\ UNCHANGED again
    \/ at[t] = "rotate" /\ at'[t] = "refreshed" /\ UNCHANGED again
    \/ at[t] = "refreshed" /\ at'[t] = "resend" /\ UNCHANGED again
    \/ at[t] = "resend" /\ at'[t] = "sent" /\ again' = [again EXCEPT ![t] = TRUE]
    \/ at[t] # "idle" /\ at'[t] = "idle" /\ again' = [again EXCEPT ![t] = FALSE]

Alone(t) == \A u \in Tabs : u # t => at'[u] = at[u]

LEMMA GotoFacts ==
    ASSUME TypeOK, NEW t \in Tabs, NEW p, Goto(t, p)
    PROVE  at'[t] = p /\ Alone(t)
BY DEF TypeOK, Goto, Alone

\* The steps of a call follow that way.
LEMMA Advances ==
    ASSUME TypeOK, NEW t \in Tabs, ServerStep(t) \/ BrowserStep(t) \/ Lost(t)
    PROVE  Advance(t) /\ Alone(t)
<1>1. CASE Register(t) \/ Login(t) \/ Logout(t) \/ Endpoint(t)
  <2>1. PICK p \in {"insert", "store", "denied", "done", "failed", "cleared"} : Goto(t, p)
    BY <1>1 DEF Register, Login, Logout, Endpoint
  <2>2. at[t] = "sent" /\ UNCHANGED again
    BY <1>1 DEF Register, Login, Logout, Endpoint, At, call
  <2> QED
    BY <2>1, <2>2, GotoFacts DEF Advance
<1>2. CASE ForgotPassword(t) \/ ConsumeReset(t)
  <2>1. PICK p \in {"rehash", "done", "failed"} : Goto(t, p)
    BY <1>2 DEF ForgotPassword, ConsumeReset
  <2>2. at[t] = "sent" /\ UNCHANGED again
    BY <1>2 DEF ForgotPassword, ConsumeReset, At, call
  <2> QED
    BY <2>1, <2>2, GotoFacts DEF Advance
<1>3. CASE InsertUser(t)
  <2>1. PICK p \in {"store", "failed"} : Goto(t, p)
    BY <1>3 DEF InsertUser
  <2> QED
    BY <1>3, <2>1, GotoFacts DEF InsertUser, Advance, call
<1>4. CASE StoreRefreshToken(t) \/ SetPassword(t) \/ RefreshRotate(t)
  BY <1>4, GotoFacts DEF StoreRefreshToken, SetPassword, RefreshRotate, Advance, call
<1>5. CASE RefreshCheck(t)
  <2>1. PICK p \in {"rotate", "refused"} : Goto(t, p)
    BY <1>5 DEF RefreshCheck
  <2> QED
    BY <1>5, <2>1, GotoFacts DEF RefreshCheck, Advance, call
<1>6. CASE SilentRefresh(t) \/ TakeTokens(t) \/ Resend(t)
  BY <1>6, GotoFacts DEF SilentRefresh, TakeTokens, Resend, Advance, call
<1>7. CASE Finish(t) \/ ClearAuth(t) \/ Lost(t)
  <2>1. at[t] # "idle" /\ EndCall(t)
    BY <1>7 DEF Finish, ClearAuth, Lost
  <2> QED
    BY <2>1, GotoFacts DEF EndCall, Advance
<1> QED
  BY <1>1, <1>2, <1>3, <1>4, <1>5, <1>6, <1>7 DEF ServerStep, BrowserStep

\* Who leaves a call where it is.
LEMMA Stays ==
    ASSUME TypeOK, [Next]_vars, NEW t \in Tabs, at[t] # "idle",
           ~(ServerStep(t) \/ BrowserStep(t) \/ Lost(t))
    PROVE  at'[t] = at[t] /\ again'[t] = again[t]
<1>1. ASSUME NEW u \in Tabs, NEW o \in Ops, NEW l \in Links, Start(u, o, l)
      PROVE  at'[t] = at[t] /\ again'[t] = again[t]
  BY <1>1, GotoFacts DEF Start, Alone
<1>2. ASSUME NEW u \in Tabs, ServerStep(u) \/ BrowserStep(u) \/ Lost(u)
      PROVE  at'[t] = at[t] /\ again'[t] = again[t]
  <2>1. u # t /\ Advance(u) /\ Alone(u)
    BY <1>2, Advances
  <2>2. again'[t] = again[t]
    BY <2>1 DEF Advance, TypeOK
  <2> QED
    BY <2>1, <2>2 DEF Alone
<1>3. CASE AccessExpires \/ SessionExpires \/ UNCHANGED vars \/ \E l \in Links : LinkExpires(l)
  BY <1>3 DEF AccessExpires, SessionExpires, LinkExpires, vars, call
<1> QED
  BY <1>1, <1>2, <1>3 DEF Next

LEMMA AgainInvariant == Spec => []AgainInv
<1>1. Init => AgainInv
  BY DEF Init, AgainInv
<1>2. TypeOK /\ AgainInv /\ [Next]_vars => AgainInv'
  <2> SUFFICES ASSUME TypeOK, AgainInv, [Next]_vars, NEW t \in Tabs, again'[t]
               PROVE  at'[t] \notin {"idle", "refresh", "rotate", "refreshed", "resend"}
    BY DEF AgainInv
  <2>1. CASE ServerStep(t) \/ BrowserStep(t) \/ Lost(t)
    BY <2>1, Advances DEF Advance, AgainInv, TypeOK
  <2>2. CASE at[t] # "idle" /\ ~(ServerStep(t) \/ BrowserStep(t) \/ Lost(t))
    BY <2>2, Stays DEF AgainInv
  <2>3. CASE at[t] = "idle"
    <3>1. ~again[t]
      BY <2>3 DEF AgainInv
    <3>2. ASSUME NEW u \in Tabs, ServerStep(u) \/ BrowserStep(u) \/ Lost(u) PROVE ~again'[t]
      BY <2>3, <3>1, <3>2, Advances DEF Advance, TypeOK
    <3>3. ASSUME NEW u \in Tabs, NEW o \in Ops, NEW l \in Links, Start(u, o, l) PROVE ~again'[t]
      BY <3>1, <3>3 DEF Start
    <3>4. CASE AccessExpires \/ SessionExpires \/ UNCHANGED vars \/ \E l \in Links : LinkExpires(l)
      BY <3>1, <3>4 DEF AccessExpires, SessionExpires, LinkExpires, vars, call
    <3> QED
      BY <3>2, <3>3, <3>4 DEF Next
  <2> QED
    BY <2>1, <2>2, <2>3
<1> QED
  BY <1>1, <1>2, TypeCorrect, PTL DEF Spec

\* A step along that way.
LEMMA AheadFalls ==
    ASSUME TypeOK, AgainInv, NEW t \in Tabs, Advance(t)
    PROVE  Ahead(t)' < Ahead(t)
<1>1. again[t] \in BOOLEAN /\ at[t] \in Places
  BY DEF TypeOK
<1>2. CASE UNCHANGED again
  <2>1. Stage[at'[t]] \in Nat /\ Stage[at[t]] \in Nat /\ Stage[at'[t]] < Stage[at[t]]
    <3>1. CASE at[t] = "sent" /\ at'[t] \in {"insert", "store", "rehash", "denied", "done",
                                            "failed", "cleared"}
      BY <3>1 DEF Stage
    <3>2. CASE at[t] = "insert" /\ at'[t] \in {"store", "failed"}
      BY <3>2 DEF Stage
    <3>3. CASE at[t] \in {"store", "rehash"} /\ at'[t] \in {"signed", "done"}
      BY <3>3 DEF Stage
    <3>4. CASE at[t] = "denied" /\ at'[t] = "refresh"
      BY <3>4 DEF Stage
    <3>5. CASE at[t] = "refresh" /\ at'[t] \in {"rotate", "refused"}
      BY <3>5 DEF Stage
    <3>6. CASE at[t] = "rotate" /\ at'[t] = "refreshed"
      BY <3>6 DEF Stage
    <3>7. CASE at[t] = "refreshed" /\ at'[t] = "resend"
      BY <3>7 DEF Stage
    <3>8. CASE at[t] # "idle" /\ at'[t] = "idle"
      BY <1>1, <3>8 DEF Stage, Places, Replies
    <3>9. ~(at[t] = "resend" /\ at'[t] = "sent" /\ again' = [again EXCEPT ![t] = TRUE])
      BY <1>2 DEF AgainInv, TypeOK
    <3> QED
      BY <3>1, <3>2, <3>3, <3>4, <3>5, <3>6, <3>7, <3>8, <3>9 DEF Advance
  <2>2. (at[t] # "idle" /\ at'[t] # "idle") \/ at'[t] = "idle"
    BY <1>2 DEF Advance
  <2> QED
    BY <1>1, <1>2, <2>1, <2>2 DEF Ahead
<1>3. CASE at[t] = "resend" /\ at'[t] = "sent" /\ again' = [again EXCEPT ![t] = TRUE]
  <2>1. ~again[t] /\ again'[t]
    BY <1>3 DEF AgainInv, TypeOK
  <2> QED
    BY <1>3, <2>1 DEF Ahead, Stage
<1>4. CASE at[t] # "idle" /\ at'[t] = "idle"
  <2>1. Stage[at[t]] \in 1..9
    BY <1>1, <1>4 DEF Stage, Places, Replies
  <2> QED
    BY <1>4, <2>1 DEF Ahead
<1> QED
  BY <1>2, <1>3, <1>4 DEF Advance

\* No 401 is retried for ever: a call is repeated at most once, since a refresh is only
\* tried before the repetition (didRetry of apiFetch), and each step of the server or of
\* the tab brings it nearer to its end, whatever the other tabs and the clock do.
THEOREM CallsSafe == Spec => CallsRunOut
<1>1. TypeOK /\ TypeOK' /\ AgainInv /\ [Next]_vars
        => [\A t \in Tabs : at[t] # "idle" =>
              /\ Ahead(t)' <= Ahead(t)
              /\ ServerStep(t) \/ BrowserStep(t) \/ Lost(t) => Ahead(t)' < Ahead(t)]_vars
  <2> SUFFICES ASSUME TypeOK, TypeOK', AgainInv, [Next]_vars, NEW t \in Tabs, at[t] # "idle"
               PROVE  /\ Ahead(t)' <= Ahead(t)
                      /\ ServerStep(t) \/ BrowserStep(t) \/ Lost(t) => Ahead(t)' < Ahead(t)
    OBVIOUS
  <2>1. Stage[at[t]] \in Nat /\ Stage[at'[t]] \in Nat
    BY DEF TypeOK, Stage, Places, Replies
  <2>2. Ahead(t) \in Nat /\ Ahead(t)' \in Nat
    BY <2>1 DEF Ahead
  <2>3. CASE ServerStep(t) \/ BrowserStep(t) \/ Lost(t)
    BY <2>2, <2>3, Advances, AheadFalls
  <2>4. CASE ~(ServerStep(t) \/ BrowserStep(t) \/ Lost(t))
    BY <2>2, <2>4, Stays DEF Ahead
  <2> QED
    BY <2>3, <2>4
<1> QED
  BY <1>1, TypeCorrect, AgainInvariant, PTL DEF Spec, CallsRunOut
=============================================================================
