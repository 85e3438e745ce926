-------------------------- MODULE TenderCacheProofs --------------------------
(***************************************************************************)
(* Theorems about TenderCache, for any tenders, any number of requests     *)
(* under way at once, any lifetime of a row and any length of a poll.      *)
(***************************************************************************)
EXTENDS TenderCache, TLAPS

\* A request that is about to write has something to write.
AnswerInv == \A r \in Requests : at[r] = "upsert" => data[r] # None

\* An entry that was in the insert's way is there until somebody takes it off the list.
WatchInv == \A r \in Requests : at[r] = "reselect" => removed[r] \/ tender[r] \in watch

\* cached_at is at most the length of a poll later than the reading, in the table and
\* in what a request has loaded of it; a hit was fresh when it was loaded.
AgeInv ==
    /\ \A t \in Tenders : row[t] # None => cached[t] <= row[t] + JobTimeout
    /\ \A r \in Requests : mem[r] # None => memAt[r] <= mem[r] + JobTimeout
    /\ batch # {} => clock <= since + JobTimeout
    /\ \A r \in Requests : at[r] = "found" /\ data[r] = None =>
          mem[r] # None /\ clock - memAt[r] < TTL

\* The portal answers a request.
Fetches(r) == FetchTender(r) \/ FetchNothing(r)

LEMMA NextCases ==
    ASSUME Next
    PROVE  \/ \E r \in Requests, t \in Tenders, add \in BOOLEAN : Request(r, t, add)
           \/ \E r \in Requests : Select(r) \/ Fetches(r) \/ UpsertTender(r)
           \/ \E r \in Requests : AddToWatchlist(r) \/ Reselect(r)
           \/ \E r \in Requests : Answer(r) \/ RequestFails(r)
           \/ \E t \in Tenders : RemoveFromWatchlist(t) \/ Publish(t)
           \/ \E listed \in SUBSET Tenders : PollFetches(listed)
           \/ PollUpserts \/ PollFails \/ Tick
BY DEF Next, RequestStep, Fetches

\* The end of a request, with whatever answer.
LEMMA EndFacts ==
    ASSUME TypeOK, NEW r \in Requests, End(r)
    PROVE  /\ at' \in [Requests -> Places] /\ adding' \in [Requests -> {"never", "later", "done"}]
           /\ mem' \in [Requests -> Data] /\ memAt' \in [Requests -> Nat]
           /\ data' \in [Requests -> Data] /\ removed' \in [Requests -> BOOLEAN]
           /\ at'[r] = "idle" /\ mem'[r] = None
           /\ \A q \in Requests \ {r} :
                 /\ at'[q] = at[q] /\ mem'[q] = mem[q] /\ memAt'[q] = memAt[q]
                 /\ data'[q] = data[q] /\ removed'[q] = removed[q]
           /\ UNCHANGED <<published, row, cached, watch, tender, batch, since, clock>>
BY DEF TypeOK, End, Goto, Places, Answers, NotFound, Data, None, table, poll

\* The router looks the tender up again, on behalf of the same request.
LEMMA AddedFacts ==
    ASSUME TypeOK, NEW r \in Requests, Added(r)
    PROVE  /\ at' \in [Requests -> Places] /\ adding' \in [Requests -> {"never", "later", "done"}]
           /\ mem' \in [Requests -> Data] /\ memAt' \in [Requests -> Nat]
           /\ data' \in [Requests -> Data]
           /\ at'[r] = "select" /\ mem'[r] = None
           /\ \A q \in Requests \ {r} :
                 /\ at'[q] = at[q] /\ mem'[q] = mem[q] /\ memAt'[q] = memAt[q]
                 /\ data'[q] = data[q]
BY DEF TypeOK, Added, Goto, Places, Answers, NotFound, Data, None

\* Select and UpsertTender go on with a tender in hand.
LEMMA FoundFacts ==
    ASSUME TypeOK, NEW r \in Requests, Found(r)
    PROVE  /\ at' \in [Requests -> Places] /\ at'[r] \in {"watch", "found"}
           /\ \A q \in Requests \ {r} : at'[q] = at[q]
BY DEF TypeOK, Found, Goto, Places, Answers, NotFound

LEMMA SelectFacts ==
    ASSUME TypeOK, NEW r \in Requests, Select(r)
    PROVE  /\ at' \in [Requests -> Places] /\ at'[r] \in {"watch", "found", "fetch"}
           /\ at'[r] = "found" => row[tender[r]] # None /\ Fresh(cached[tender[r]])
           /\ \A q \in Requests \ {r} : at'[q] = at[q]
           /\ mem' \in [Requests -> Data] /\ memAt' \in [Requests -> Nat]
           /\ mem'[r] = row[tender[r]] /\ memAt'[r] = cached[tender[r]]
           /\ tender[r] \in Tenders
           /\ \A q \in Requests \ {r} : mem'[q] = mem[q] /\ memAt'[q] = memAt[q]
<1>1. tender[r] \in Tenders /\ row[tender[r]] \in Data /\ cached[tender[r]] \in Nat
  BY DEF TypeOK
<1>2. /\ mem' = [mem EXCEPT ![r] = row[tender[r]]]
      /\ memAt' = [memAt EXCEPT ![r] = cached[tender[r]]]
  BY DEF Select
<1>3. CASE row[tender[r]] # None /\ Fresh(cached[tender[r]])
  BY <1>1, <1>2, <1>3, FoundFacts DEF TypeOK, Select
<1>4. CASE ~(row[tender[r]] # None /\ Fresh(cached[tender[r]]))
  <2>1. Goto(r, "fetch")
    BY <1>4 DEF Select
  <2> QED
    BY <1>1, <1>2, <2>1 DEF TypeOK, Goto, Places, Answers, NotFound
<1> QED
  BY <1>3, <1>4

LEMMA UpsertFacts ==
    ASSUME TypeOK, AnswerInv, NEW r \in Requests, UpsertTender(r)
    PROVE  /\ data[r] \in Nat /\ data[r] # None /\ tender[r] \in Tenders
           /\ row' \in [Tenders -> Data] /\ cached' \in [Tenders -> Nat]
           /\ row'[tender[r]] = data[r] /\ cached'[tender[r]] = data[r]
           /\ \A t \in Tenders \ {tender[r]} : row'[t] = row[t] /\ cached'[t] = cached[t]
           /\ mem' \in [Requests -> Data] /\ memAt' \in [Requests -> Nat]
           /\ \/ mem'[r] = mem[r] /\ memAt'[r] = memAt[r]
              \/ mem'[r] = data[r] /\ memAt'[r] = data[r]
           /\ \A q \in Requests \ {r} : mem'[q] = mem[q] /\ memAt'[q] = memAt[q]
           /\ UNCHANGED <<published, watch, tender, adding, data, poll, bounds, removed>>
<1>1. data[r] \in Nat /\ data[r] # None /\ tender[r] \in Tenders
  BY DEF TypeOK, AnswerInv, UpsertTender, Data, None
<1>2. /\ row' = [row EXCEPT ![tender[r]] = data[r]]
      /\ cached' = [cached EXCEPT ![tender[r]] = data[r]]
      /\ UNCHANGED <<published, watch, tender, adding, data, poll, bounds, removed>>
  BY DEF UpsertTender
<1>3. \/ UNCHANGED <<mem, memAt>>
      \/ mem' = [mem EXCEPT ![r] = data[r]] /\ memAt' = [memAt EXCEPT ![r] = data[r]]
  BY DEF UpsertTender
<1>4. mem \in [Requests -> Data] /\ memAt \in [Requests -> Nat] /\ data[r] \in Data
  BY <1>1 DEF TypeOK, Data
<1> QED
  BY <1>1, <1>2, <1>3, <1>4 DEF TypeOK

\* Every variable keeps its type, whatever requests, polls and failures overlap; an
\* upsert never writes an empty answer.
THEOREM TypeCorrect == Spec => [](TypeOK /\ AnswerInv)
<1>1. Init => TypeOK /\ AnswerInv
  BY DEF Init, TypeOK, AnswerInv, Data, None, Places, Answers, NotFound
<1>2. TypeOK /\ AnswerInv /\ [Next]_vars => (TypeOK /\ AnswerInv)'
  <2> SUFFICES ASSUME TypeOK, AnswerInv, [Next]_vars PROVE TypeOK' /\ AnswerInv'
    OBVIOUS
  <2>1. CASE UNCHANGED vars
    BY <2>1 DEF TypeOK, AnswerInv, vars, table, known, poll, bounds
  <2>2. ASSUME NEW r \in Requests, NEW t \in Tenders, NEW add \in BOOLEAN, Request(r, t, add)
        PROVE TypeOK' /\ AnswerInv'
    BY <2>2 DEF TypeOK, AnswerInv, Request, Goto, Places, Answers, NotFound, table, known, poll, bounds
  <2>3. ASSUME NEW r \in Requests, Select(r) PROVE TypeOK' /\ AnswerInv'
    <3>1. UNCHANGED <<published, row, cached, watch, tender, adding, data, poll, bounds, removed>>
      BY <2>3 DEF Select, table
    <3>2. /\ at' \in [Requests -> Places]
          /\ \A q \in Requests : at'[q] = "upsert" => at[q] = "upsert"
          /\ mem' \in [Requests -> Data] /\ memAt' \in [Requests -> Nat]
      BY <2>3, SelectFacts
    <3> QED
      BY <3>1, <3>2 DEF TypeOK, AnswerInv, poll, bounds
  <2>4. ASSUME NEW r \in Requests, Fetches(r) PROVE TypeOK' /\ AnswerInv'
    <3>1. clock \in Data /\ clock # None
      BY DEF TypeOK, Data, None
    <3>2. /\ data' \in [Requests -> Data]
          /\ \A q \in Requests : at'[q] = "upsert" => data'[q] # None
      BY <2>4, <3>1 DEF TypeOK, AnswerInv, Fetches, FetchTender, FetchNothing, Miss, Goto
    <3>3. at' \in [Requests -> Places]
      BY <2>4 DEF TypeOK, Fetches, FetchTender, FetchNothing, Miss, Goto, Places, Answers, NotFound
    <3> QED
      BY <2>4, <3>2, <3>3 DEF TypeOK, AnswerInv, Fetches, FetchTender, FetchNothing, Miss, table, poll, bounds
  <2>5. ASSUME NEW r \in Requests, UpsertTender(r) PROVE TypeOK' /\ AnswerInv'
    <3>1. Found(r)
      BY <2>5 DEF UpsertTender
    <3> QED
      BY <2>5, <3>1, UpsertFacts, FoundFacts DEF TypeOK, AnswerInv, poll, bounds
  <2>6. ASSUME NEW r \in Requests, AddToWatchlist(r) PROVE TypeOK' /\ AnswerInv'
    <3>1. watch' \in SUBSET Tenders
      BY <2>6 DEF TypeOK, AddToWatchlist
    <3>2. CASE tender[r] \in watch
      BY <2>6, <3>1, <3>2 DEF TypeOK, AnswerInv, AddToWatchlist, Goto, Places, Answers, NotFound, known, poll, bounds
    <3>3. CASE tender[r] \notin watch
      BY <2>6, <3>1, <3>3, AddedFacts DEF TypeOK, AnswerInv, AddToWatchlist, poll, bounds
    <3> QED
      BY <3>2, <3>3
  <2>7. ASSUME NEW r \in Requests, Reselect(r) PROVE TypeOK' /\ AnswerInv'
    <3>1. CASE tender[r] \in watch
      BY <2>7, <3>1, AddedFacts DEF TypeOK, AnswerInv, Reselect, table, poll, bounds
    <3>2. CASE tender[r] \notin watch
      BY <2>7, <3>2 DEF TypeOK, AnswerInv, Reselect, Goto, Places, Answers, NotFound, known, table, poll, bounds
    <3> QED
      BY <3>1, <3>2
  <2>8. ASSUME NEW r \in Requests, Answer(r) \/ RequestFails(r) PROVE TypeOK' /\ AnswerInv'
    <3>1. End(r) /\ faults' \in Nat
      BY <2>8 DEF TypeOK, Answer, RequestFails
    <3> QED
      BY <3>1, EndFacts DEF TypeOK, AnswerInv
  <2>9. ASSUME NEW t \in Tenders, RemoveFromWatchlist(t) \/ Publish(t)
        PROVE TypeOK' /\ AnswerInv'
    <3>1. removed' \in [Requests -> BOOLEAN]
      BY <2>9 DEF TypeOK, RemoveFromWatchlist, Publish
    <3> QED
      BY <2>9, <3>1 DEF TypeOK, AnswerInv, RemoveFromWatchlist, Publish, table, known, poll, bounds
  <2>10. ASSUME NEW listed \in SUBSET Tenders, PollFetches(listed) PROVE TypeOK' /\ AnswerInv'
    BY <2>10 DEF TypeOK, AnswerInv, PollFetches, table, known, bounds
  <2>11. CASE PollUpserts
    <3>1. since \in Data
      BY DEF TypeOK, Data
    <3>2. row' \in [Tenders -> Data] /\ cached' \in [Tenders -> Nat]
      BY <2>11, <3>1 DEF TypeOK, PollUpserts
    <3> QED
      BY <2>11, <3>2 DEF TypeOK, AnswerInv, PollUpserts, known, bounds
  <2>12. CASE PollFails
    BY <2>12 DEF TypeOK, AnswerInv, PollFails, table, known, bounds
  <2>13. CASE Tick
    BY <2>13 DEF TypeOK, AnswerInv, Tick, table, known, poll
  <2> QED
    BY NextCases, <2>1, <2>2, <2>3, <2>4, <2>5, <2>6, <2>7, <2>8, <2>9, <2>10, <2>11, <2>12, <2>13
<1> QED
  BY <1>1, <1>2, PTL DEF Spec
-----------------------------------------------------------------------------
\* Either 404 has its cause in the step that decides it: goszakup does not have the
\* tender, or another call took the entry off the list between the INSERT and the SELECT
\* of the request; however many requests add, remove and look up at once.
THEOREM NotFoundSafe == Spec => NotFoundHasCause
<1>1. Init => WatchInv
  BY DEF Init, WatchInv
<1>2. TypeOK /\ AnswerInv /\ WatchInv /\ [Next]_vars => WatchInv'
  <2> SUFFICES ASSUME TypeOK, AnswerInv, WatchInv, [Next]_vars PROVE WatchInv'
    OBVIOUS
  <2>1. CASE UNCHANGED <<at, tender, removed, watch>>
    BY <2>1 DEF WatchInv
  <2>2. CASE \/ UNCHANGED vars \/ (\E listed \in SUBSET Tenders : PollFetches(listed))
             \/ PollUpserts \/ PollFails \/ Tick \/ (\E t \in Tenders : Publish(t))
    BY <2>1, <2>2 DEF vars, table, PollFetches, PollUpserts, PollFails, Tick, Publish
  <2>3. ASSUME NEW r \in Requests, NEW t \in Tenders, NEW add \in BOOLEAN, Request(r, t, add)
        PROVE WatchInv'
    BY <2>3 DEF TypeOK, WatchInv, Request, Goto, table
  \* The steps of a request that leave the list alone and do not find an entry there.
  <2>4. ASSUME NEW r \in Requests, UNCHANGED <<tender, watch>>,
               at'[r] # "reselect",
               \A q \in Requests \ {r} : at'[q] = at[q] /\ removed'[q] = removed[q]
        PROVE WatchInv'
    BY <2>4 DEF WatchInv
  <2>5. ASSUME NEW r \in Requests, Select(r) PROVE WatchInv'
    <3>1. UNCHANGED <<tender, watch, removed>>
      BY <2>5 DEF Select, table
    <3> QED
      BY <2>4, <2>5, <3>1, SelectFacts
  <2>6. ASSUME NEW r \in Requests, Fetches(r) PROVE WatchInv'
    BY <2>4, <2>6 DEF TypeOK, Fetches, FetchTender, FetchNothing, Miss, Goto, table
  <2>7. ASSUME NEW r \in Requests, UpsertTender(r) PROVE WatchInv'
    <3>1. Found(r) /\ UNCHANGED <<tender, watch, removed>>
      BY <2>7 DEF UpsertTender
    <3> QED
      BY <2>4, <3>1, FoundFacts
  <2>8. ASSUME NEW r \in Requests, AddToWatchlist(r) PROVE WatchInv'
    <3>1. /\ UNCHANGED <<tender, removed>> /\ watch \subseteq watch'
          /\ tender[r] \in watch'
      BY <2>8 DEF AddToWatchlist
    <3>2. at'[r] # "missing" /\ \A q \in Requests \ {r} : at'[q] = at[q]
      BY <2>8, AddedFacts DEF TypeOK, AddToWatchlist, Goto
    <3> QED
      BY <3>1, <3>2 DEF WatchInv
  <2>9. ASSUME NEW r \in Requests, Reselect(r) PROVE WatchInv'
    <3>1. UNCHANGED <<tender, watch, removed>>
      BY <2>9 DEF Reselect, table
    <3>2. \A q \in Requests \ {r} : at'[q] = at[q]
      BY <2>9, AddedFacts DEF TypeOK, Reselect, Goto
    <3>3. CASE tender[r] \in watch
      BY <2>4, <2>9, <3>1, <3>3, AddedFacts DEF Reselect
    <3>4. CASE tender[r] \notin watch
      <4>1. at[r] = "reselect" /\ at'[r] = "missing"
        BY <2>9, <3>4 DEF TypeOK, Reselect, Goto
      <4>2. removed[r]
        BY <3>4, <4>1 DEF WatchInv
      <4> QED
        BY <3>1, <3>2, <4>1, <4>2 DEF WatchInv
    <3> QED
      BY <3>3, <3>4
  <2>10. ASSUME NEW r \in Requests, Answer(r) \/ RequestFails(r) PROVE WatchInv'
    <3>1. End(r)
      BY <2>10 DEF Answer, RequestFails
    <3> QED
      BY <2>4, <3>1, EndFacts
  <2>11. ASSUME NEW t \in Tenders, RemoveFromWatchlist(t) PROVE WatchInv'
    <3>1. /\ watch' = watch \ {t} /\ UNCHANGED <<at, tender>>
          /\ \A q \in Requests : removed'[q] = (removed[q] \/ (at[q] = "reselect" /\ tender[q] = t))
      BY <2>11 DEF RemoveFromWatchlist
    <3>2. \A q \in Requests : removed[q] => removed'[q]
      BY <3>1
    <3>3. \A q \in Requests : at[q] = "reselect" /\ tender[q] = t => removed'[q]
      BY <3>1
    <3> QED
      BY <3>1, <3>2, <3>3 DEF WatchInv
  <2> QED
    BY NextCases, <2>2, <2>3, <2>5, <2>6, <2>7, <2>8, <2>9, <2>10, <2>11
<1>3. TypeOK /\ WatchInv /\ [Next]_vars => [\A r \in Requests : Missed(r)]_vars
  <2> SUFFICES ASSUME TypeOK, WatchInv, Next, NEW q \in Requests PROVE Missed(q)
    OBVIOUS
  <2>1. CASE at'[q] = at[q]
    BY <2>1 DEF Missed
  <2>2. CASE \E r \in Requests : Select(r) \/ UpsertTender(r)
    <3>1. PICK r \in Requests : Select(r) \/ UpsertTender(r)
      BY <2>2
    <3>2. at'[q] # at[q] => at'[q] \in {"watch", "found", "fetch"}
      BY <3>1, SelectFacts, FoundFacts DEF UpsertTender
    <3> QED
      BY <3>2 DEF Missed
  <2>3. ASSUME NEW r \in Requests, Fetches(r) PROVE Missed(q)
    <3>1. \/ at'[q] = at[q]
          \/ at'[q] # "missing" /\ q = r
             /\ (at'[q] = "unknown" => tender[q] \notin published \ Foreign \/ FetchNothing(r))
      BY <2>3 DEF TypeOK, Fetches, FetchTender, FetchNothing, Miss, Goto
    <3> QED
      BY <3>1 DEF Missed
  <2>4. ASSUME NEW r \in Requests, AddToWatchlist(r) PROVE Missed(q)
    <3>1. at'[q] # at[q] => at'[q] \in {"reselect", "select"}
      BY <2>4, AddedFacts DEF TypeOK, AddToWatchlist, Goto
    <3> QED
      BY <3>1 DEF Missed
  <2>5. ASSUME NEW r \in Requests, Reselect(r) PROVE Missed(q)
    <3>1. CASE tender[r] \in watch
      BY <2>5, <3>1, AddedFacts DEF Reselect, Missed
    <3>2. CASE tender[r] \notin watch
      <4>1. at[r] = "reselect" /\ removed[r] /\ Goto(r, "missing")
        BY <2>5, <3>2 DEF Reselect, WatchInv
      <4>2. at'[q] # at[q] => q = r /\ at'[q] = "missing"
        BY <4>1 DEF TypeOK, Goto
      <4> QED
        BY <3>2, <4>1, <4>2 DEF Missed
    <3> QED
      BY <3>1, <3>2
  <2>6. ASSUME NEW r \in Requests, Answer(r) \/ RequestFails(r) PROVE Missed(q)
    <3>1. at'[q] # at[q] => at'[q] = "idle"
      BY <2>6, EndFacts DEF Answer, RequestFails
    <3> QED
      BY <3>1 DEF Missed
  <2>7. ASSUME NEW r \in Requests, NEW t \in Tenders, NEW add \in BOOLEAN, Request(r, t, add)
        PROVE Missed(q)
    <3>1. at'[q] # at[q] => at'[q] = "select"
      BY <2>7 DEF TypeOK, Request, Goto
    <3> QED
      BY <3>1 DEF Missed
  <2>8. CASE \/ \E t \in Tenders : RemoveFromWatchlist(t) \/ Publish(t)
             \/ \E listed \in SUBSET Tenders : PollFetches(listed)
             \/ PollUpserts \/ PollFails \/ Tick
    BY <2>1, <2>8 DEF RemoveFromWatchlist, Publish, PollFetches, PollUpserts, PollFails, Tick
  <2> QED
    BY NextCases, <2>2, <2>3, <2>4, <2>5, <2>6, <2>7, <2>8
<1>4. Spec => [](TypeOK /\ AnswerInv)
  BY TypeCorrect
<1>5. Spec => []WatchInv
  BY <1>1, <1>2, <1>4, PTL DEF Spec
<1> QED
  <2>1. Spec => [][\A r \in Requests : Missed(r)]_vars
    BY <1>3, <1>4, <1>5, PTL DEF Spec
  <2> QED
    BY <2>1 DEF NotFoundHasCause
-----------------------------------------------------------------------------
\* A step of one request: what it holds afterwards is as young as AgeInv says.
LEMMA OneAges ==
    ASSUME AgeInv, NEW r \in Requests,
           UNCHANGED <<row, cached, batch, since, clock>>,
           mem'[r] # None => memAt'[r] <= mem'[r] + JobTimeout,
           at'[r] = "found" /\ data'[r] = None => mem'[r] # None /\ clock - memAt'[r] < TTL,
           \A q \in Requests \ {r} : /\ at'[q] = at[q] /\ data'[q] = data[q]
                                     /\ mem'[q] = mem[q] /\ memAt'[q] = memAt[q]
    PROVE  AgeInv'
BY DEF AgeInv

\* What the table answers for a tender was read on its portal within TTL and the length
\* of a poll, for any values of both and however lookups, polls and failures overtake
\* each other.
THEOREM HitSafe == Spec => []HitIsRecent
<1>1. Init => AgeInv
  BY DEF Init, AgeInv, None
<1>2. TypeOK /\ AnswerInv /\ AgeInv /\ [Next]_vars => AgeInv'
  <2> SUFFICES ASSUME TypeOK, AnswerInv, AgeInv, [Next]_vars PROVE AgeInv'
    OBVIOUS
  <2>1. CASE UNCHANGED <<row, cached, batch, since, clock, at, data, mem, memAt>>
    BY <2>1 DEF AgeInv
  <2>2. CASE UNCHANGED vars \/ (\E t \in Tenders : RemoveFromWatchlist(t) \/ Publish(t))
    BY <2>1, <2>2 DEF vars, RemoveFromWatchlist, Publish, table, known, poll, bounds
  <2>3. ASSUME NEW r \in Requests, NEW t \in Tenders, NEW add \in BOOLEAN, Request(r, t, add)
        PROVE AgeInv'
    <3>1. UNCHANGED <<row, cached, batch, since, clock, data, mem, memAt>>
      BY <2>3 DEF Request, table, known, poll, bounds
    <3>2. at'[r] = "select" /\ \A q \in Requests \ {r} : at'[q] = at[q]
      BY <2>3 DEF TypeOK, Request, Goto
    <3> QED
      BY <3>1, <3>2 DEF AgeInv
  <2>4. ASSUME NEW r \in Requests, Select(r) PROVE AgeInv'
    <3>1. UNCHANGED <<row, cached, data, batch, since, clock>>
      BY <2>4 DEF Select, table, poll, bounds
    <3>2. mem'[r] # None => memAt'[r] <= mem'[r] + JobTimeout
      BY <2>4, SelectFacts DEF AgeInv
    <3>3. at'[r] = "found" => mem'[r] # None /\ clock - memAt'[r] < TTL
      BY <2>4, SelectFacts DEF Fresh
    <3> QED
      BY <2>4, <3>1, <3>2, <3>3, SelectFacts, OneAges
  <2>5. ASSUME NEW r \in Requests, Fetches(r) PROVE AgeInv'
    <3>1. /\ UNCHANGED <<row, cached, mem, memAt, batch, since, clock>>
          /\ at'[r] # "found"
          /\ \A q \in Requests \ {r} : at'[q] = at[q] /\ data'[q] = data[q]
      BY <2>5 DEF TypeOK, Fetches, FetchTender, FetchNothing, Miss, Goto, table, poll, bounds
    <3> QED
      BY <3>1 DEF AgeInv
  <2>6. ASSUME NEW r \in Requests, UpsertTender(r) PROVE AgeInv'
    <3>1. /\ data[r] \in Nat /\ data[r] # None /\ tender[r] \in Tenders
          /\ row'[tender[r]] = data[r] /\ cached'[tender[r]] = data[r]
          /\ \A t \in Tenders \ {tender[r]} : row'[t] = row[t] /\ cached'[t] = cached[t]
      BY <2>6, UpsertFacts
    <3>2. UNCHANGED <<data, batch, since, clock>>
      BY <2>6, UpsertFacts DEF poll, bounds
    <3>3. \A t \in Tenders : row'[t] # None => cached'[t] <= row'[t] + JobTimeout
      BY <3>1, TimeAssumption DEF AgeInv
    <3>4. \A q \in Requests : mem'[q] # None => memAt'[q] <= mem'[q] + JobTimeout
      BY <2>6, <3>1, UpsertFacts, TimeAssumption DEF AgeInv
    <3>5. \A q \in Requests : at'[q] = "found" /\ data'[q] = None =>
             mem'[q] # None /\ clock - memAt'[q] < TTL
      <4>1. Found(r)
        BY <2>6 DEF UpsertTender
      <4> QED
        BY <2>6, <4>1, <3>1, <3>2, UpsertFacts, FoundFacts DEF AgeInv
    <3> QED
      BY <3>2, <3>3, <3>4, <3>5 DEF AgeInv
  <2>7. ASSUME NEW r \in Requests, AddToWatchlist(r) \/ Reselect(r) PROVE AgeInv'
    <3>1. UNCHANGED <<row, cached, batch, since, clock>>
      BY <2>7 DEF AddToWatchlist, Reselect, table, poll, bounds
    <3>2. CASE Added(r)
      BY <3>1, <3>2, AddedFacts, OneAges
    <3>3. CASE (Goto(r, "reselect") \/ Goto(r, "missing")) /\ UNCHANGED <<mem, memAt, data>>
      <4>1. at'[r] # "found" /\ \A q \in Requests \ {r} : at'[q] = at[q]
        BY <3>3 DEF TypeOK, Goto
      <4> QED
        BY <3>1, <3>3, <4>1 DEF AgeInv
    <3> QED
      BY <2>7, <3>2, <3>3 DEF AddToWatchlist, Reselect, known
  <2>8. ASSUME NEW r \in Requests, Answer(r) \/ RequestFails(r) PROVE AgeInv'
    <3>1. End(r)
      BY <2>8 DEF Answer, RequestFails
    <3> QED
      BY <3>1, EndFacts, OneAges
  <2>9. ASSUME NEW listed \in SUBSET Tenders, PollFetches(listed) PROVE AgeInv'
    <3>1. since' = clock /\ UNCHANGED <<row, cached, clock, at, data, mem, memAt>>
      BY <2>9 DEF PollFetches, table, known, bounds
    <3>2. clock' <= since' + JobTimeout
      BY <3>1, TimeAssumption DEF TypeOK
    <3> QED
      BY <3>1, <3>2 DEF AgeInv
  <2>10. CASE PollUpserts
    <3>1. /\ batch' = {} /\ UNCHANGED <<clock, at, data, mem, memAt>>
          /\ \A t \in Tenders : \/ row'[t] = since /\ cached'[t] = clock
                                \/ row'[t] = row[t] /\ cached'[t] = cached[t]
      BY <2>10 DEF PollUpserts, known, bounds
    <3>2. clock <= since + JobTimeout
      BY <2>10 DEF PollUpserts, AgeInv
    <3> QED
      BY <3>1, <3>2 DEF AgeInv
  <2>11. CASE PollFails
    BY <2>11 DEF AgeInv, PollFails, table, known, bounds
  <2>12. CASE Tick
    <3>1. /\ clock' = clock + 1 /\ (batch # {} => clock < since + JobTimeout)
          /\ \A r \in Requests : at[r] # "found"
          /\ UNCHANGED <<row, cached, batch, since, at, data, mem, memAt>>
      BY <2>12 DEF Tick, table, known, poll
    <3>2. batch' # {} => clock' <= since' + JobTimeout
      BY <3>1, TimeAssumption DEF TypeOK
    <3> QED
      BY <3>1, <3>2 DEF AgeInv
  <2> QED
    BY NextCases, <2>2, <2>3, <2>4, <2>5, <2>6, <2>7, <2>8, <2>9, <2>10, <2>11, <2>12
<1>3. TypeOK /\ AgeInv => HitIsRecent
  <2> SUFFICES ASSUME TypeOK, AgeInv, NEW r \in Requests, at[r] = "found", data[r] = None
               PROVE  mem[r] > clock - TTL - JobTimeout
    BY DEF HitIsRecent
  <2>1. mem[r] \in Nat /\ memAt[r] \in Nat /\ clock \in Nat
    BY DEF TypeOK, AgeInv, Data, None
  <2>2. memAt[r] <= mem[r] + JobTimeout /\ clock - memAt[r] < TTL
    BY DEF AgeInv
  <2> QED
    BY <2>1, <2>2, TimeAssumption
<1> QED
  BY <1>1, <1>2, <1>3, TypeCorrect, PTL DEF Spec
-----------------------------------------------------------------------------
\* What a request holds is a reading of its tender, from before or from its own fetch;
\* at the start it holds nothing.
Holds(r) ==
    /\ mem[r] # None => tender[r] \in published /\ mem[r] <= clock
    /\ data[r] # None => /\ tender[r] \in published \ Foreign /\ data[r] <= clock
                         /\ mem[r] # None => mem[r] <= data[r]
    /\ at[r] = "found" => mem[r] # None
    /\ at[r] = "watch" => row[tender[r]] # None
    /\ at[r] \in {"idle", "select"} => mem[r] = None /\ data[r] = None

\* A poll holds what its portal listed.
RealInv ==
    /\ RowsAreReal
    /\ \A r \in Requests : Holds(r)
    /\ batch \subseteq published /\ since <= clock

\* What a request holds stays true while others write: rows and portals lose nothing.
LEMMA HoldsKept ==
    ASSUME TypeOK, TypeOK', NEW q \in Requests, Holds(q),
           published \subseteq published', clock <= clock',
           \A t \in Tenders : row[t] # None => row'[t] # None,
           at'[q] = at[q], tender'[q] = tender[q], mem'[q] = mem[q], data'[q] = data[q]
    PROVE  Holds(q)'
<1>1. /\ clock \in Nat /\ clock' \in Nat /\ tender[q] \in Tenders
      /\ mem[q] \in Data /\ data[q] \in Data
  BY DEF TypeOK
<1>2. /\ mem[q] <= clock => mem[q] <= clock'
      /\ data[q] <= clock => data[q] <= clock'
  BY <1>1 DEF Data, None
<1> QED
  BY <1>1, <1>2 DEF Holds

\* The end of a request, or its return to the start.
LEMMA HoldsNothing ==
    ASSUME NEW r \in Requests, at'[r] \in {"idle", "select"}, mem'[r] = None, data'[r] = None
    PROVE  Holds(r)'
BY DEF Holds

LEMMA RealInvariant == Spec => []RealInv
<1>1. Init => RealInv
  BY DEF Init, RealInv, RowsAreReal, Holds
<1>2. TypeOK /\ TypeOK' /\ AnswerInv /\ RealInv /\ [Next]_vars => RealInv'
  <2> SUFFICES ASSUME TypeOK, TypeOK', AnswerInv, RealInv, [Next]_vars PROVE RealInv'
    OBVIOUS
  <2>1. CASE UNCHANGED <<published, table, at, tender, known, poll, clock>>
    BY <2>1 DEF RealInv, RowsAreReal, Holds, table, known, poll
  <2>2. CASE UNCHANGED vars
    BY <2>1, <2>2 DEF vars, bounds
  \* A request moves and leaves the rows alone.
  <2>3. ASSUME NEW r \in Requests, UNCHANGED <<published, row, cached, watch, batch, since, clock>>,
               \A q \in Requests \ {r} : /\ at'[q] = at[q] /\ tender'[q] = tender[q]
                                         /\ mem'[q] = mem[q] /\ data'[q] = data[q],
               Holds(r)'
        PROVE  RealInv'
    <3>1. \A q \in Requests \ {r} : Holds(q)'
      BY <2>3, HoldsKept DEF RealInv, TypeOK
    <3> QED
      BY <2>3, <3>1 DEF RealInv, RowsAreReal
  <2>4. ASSUME NEW r \in Requests, NEW t \in Tenders, NEW add \in BOOLEAN, Request(r, t, add)
        PROVE RealInv'
    <3>1. /\ UNCHANGED <<published, row, cached, watch, batch, since, clock, mem, data>>
          /\ at[r] = "idle" /\ at'[r] = "select"
          /\ \A q \in Requests \ {r} : at'[q] = at[q] /\ tender'[q] = tender[q]
      BY <2>4 DEF TypeOK, Request, Goto, table, known, poll, bounds
    <3>2. mem'[r] = None /\ data'[r] = None
      BY <3>1 DEF RealInv, Holds
    <3> QED
      BY <2>3, <3>1, <3>2, HoldsNothing
  <2>5. ASSUME NEW r \in Requests, Select(r) PROVE RealInv'
    <3>1. /\ UNCHANGED <<published, row, cached, watch, batch, since, clock, tender, data>>
          /\ at[r] = "select"
      BY <2>5 DEF Select, table, poll, bounds
    <3>2. data[r] = None
      BY <3>1 DEF RealInv, Holds
    <3>3. /\ row[tender[r]] # None => /\ tender[r] \in published /\ row[tender[r]] <= clock
      <4>1. /\ tender[r] \in Tenders /\ row[tender[r]] \in Data
            /\ cached[tender[r]] \in Nat /\ clock \in Nat
        BY DEF TypeOK
      <4> QED
        BY <4>1 DEF RealInv, RowsAreReal, Data, None
    <3>4. at'[r] = "watch" => row[tender[r]] # None
      BY <2>5 DEF TypeOK, Select, Goto, Found
    <3>5. Holds(r)'
      BY <2>5, <3>1, <3>2, <3>3, <3>4, SelectFacts DEF Holds
    <3> QED
      BY <2>3, <2>5, <3>1, <3>5, SelectFacts
  <2>6. ASSUME NEW r \in Requests, Fetches(r) PROVE RealInv'
    <3>1. /\ UNCHANGED <<published, row, cached, watch, batch, since, clock, tender, mem>>
          /\ \A q \in Requests \ {r} : at'[q] = at[q] /\ data'[q] = data[q]
          /\ at'[r] \in {"upsert", "unknown", "failed"}
          /\ \/ data'[r] = data[r]
             \/ tender[r] \in published \ Foreign /\ data'[r] = clock
      BY <2>6 DEF TypeOK, Fetches, FetchTender, FetchNothing, Miss, Goto, table, poll, bounds
    <3>2. clock \in Nat
      BY DEF TypeOK
    <3>3. Holds(r)'
      BY <3>1, <3>2 DEF RealInv, Holds
    <3> QED
      BY <2>3, <3>1, <3>3
  <2>7. ASSUME NEW r \in Requests, UpsertTender(r) PROVE RealInv'
    <3>1. /\ data[r] \in Nat /\ tender[r] \in Tenders
          /\ row'[tender[r]] = data[r] /\ cached'[tender[r]] = data[r]
          /\ \A t \in Tenders \ {tender[r]} : row'[t] = row[t] /\ cached'[t] = cached[t]
          /\ data[r] # None /\ None \notin Nat
      BY <2>7, UpsertFacts DEF None
    <3>2. /\ UNCHANGED <<published, watch, data, tender, batch, since, clock>> /\ clock \in Nat
          /\ tender[r] \in published \ Foreign /\ data[r] <= clock
      BY <2>7, <3>1 DEF UpsertTender, RealInv, Holds, TypeOK, poll, bounds
    <3>3. at'[r] \in {"watch", "found"} /\ \A q \in Requests \ {r} : at'[q] = at[q]
      BY <2>7, FoundFacts DEF UpsertTender
    <3>4. \A t \in Tenders : row[t] # None => row'[t] # None
      BY <3>1
    <3>5. RowsAreReal'
      <4>1. ASSUME NEW t \in Tenders, row'[t] # None
            PROVE  t \in published /\ row'[t] <= cached'[t] /\ cached'[t] <= clock
        <5>1. CASE t = tender[r]
          BY <3>1, <3>2, <5>1
        <5>2. CASE t # tender[r]
          BY <3>1, <4>1, <5>2 DEF RealInv, RowsAreReal
        <5> QED
          BY <5>1, <5>2
      <4>2. \A t \in watch : row'[t] # None
        BY <3>4 DEF RealInv, RowsAreReal, TypeOK
      <4> QED
        BY <3>2, <4>1, <4>2 DEF RowsAreReal
    <3>6. /\ mem[r] # None => mem'[r] = mem[r]
          /\ mem[r] = None => mem'[r] = data[r]
      BY <2>7 DEF UpsertTender, TypeOK
    <3>7. Holds(r)'
      BY <3>1, <3>2, <3>3, <3>6 DEF RealInv, Holds
    <3>8. \A q \in Requests \ {r} : Holds(q)'
      BY <2>7, <3>2, <3>3, <3>4, UpsertFacts, HoldsKept DEF RealInv
    <3> QED
      BY <3>2, <3>5, <3>7, <3>8 DEF RealInv
  <2>8. ASSUME NEW r \in Requests, AddToWatchlist(r) \/ Reselect(r) PROVE RealInv'
    <3>1. UNCHANGED <<published, row, cached, batch, since, clock, tender>>
      BY <2>8 DEF AddToWatchlist, Reselect, table, poll, bounds
    <3>2. watch' = watch \/ (at[r] = "watch" /\ watch' = watch \cup {tender[r]})
      BY <2>8 DEF AddToWatchlist, Reselect, table
    <3>3. \A t \in watch' : row'[t] # None
      BY <3>1, <3>2 DEF RealInv, RowsAreReal, Holds
    <3>4. /\ Holds(r)'
          /\ \A q \in Requests \ {r} : at'[q] = at[q] /\ mem'[q] = mem[q] /\ data'[q] = data[q]
      <4>1. CASE Added(r)
        <5>1. data'[r] = None
          BY <4>1 DEF Added, TypeOK
        <5> QED
          BY <4>1, <5>1, AddedFacts, HoldsNothing
      <4>2. CASE (Goto(r, "reselect") \/ Goto(r, "missing")) /\ UNCHANGED <<mem, data>>
        <5>1. /\ at'[r] \in {"reselect", "missing"}
              /\ \A q \in Requests \ {r} : at'[q] = at[q]
          BY <4>2 DEF TypeOK, Goto
        <5> QED
          BY <3>1, <4>2, <5>1 DEF RealInv, Holds
      <4> QED
        BY <2>8, <4>1, <4>2 DEF AddToWatchlist, Reselect, known
    <3>5. \A q \in Requests \ {r} : Holds(q)'
      <4>1. clock \in Nat
        BY DEF TypeOK
      <4> QED
        BY <3>1, <3>4, <4>1, HoldsKept DEF RealInv
    <3> QED
      BY <3>1, <3>3, <3>4, <3>5 DEF RealInv, RowsAreReal
  <2>9. ASSUME NEW r \in Requests, Answer(r) \/ RequestFails(r) PROVE RealInv'
    <3>1. End(r)
      BY <2>9 DEF Answer, RequestFails
    <3>2. data'[r] = None
      BY <3>1 DEF End, TypeOK
    <3> QED
      BY <2>3, <3>1, <3>2, EndFacts, HoldsNothing
  <2>10. ASSUME NEW t \in Tenders, RemoveFromWatchlist(t) PROVE RealInv'
    <3>1. /\ UNCHANGED <<published, row, cached, at, tender, mem, data, batch, since, clock>>
          /\ watch' \subseteq watch
      BY <2>10 DEF RemoveFromWatchlist, known, poll, bounds
    <3> QED
      BY <3>1 DEF RealInv, RowsAreReal, Holds
  <2>11. ASSUME NEW t \in Tenders, Publish(t) PROVE RealInv'
    <3>1. /\ UNCHANGED <<row, cached, watch, at, tender, mem, data, batch, since, clock>>
          /\ published \subseteq published'
      BY <2>11 DEF Publish, table, known, poll, bounds
    <3> QED
      BY <3>1 DEF RealInv, RowsAreReal, Holds
  <2>12. (\E listed \in SUBSET Tenders : PollFetches(listed)) \/ PollFails => RealInv'
    <3> SUFFICES ASSUME (\E listed \in SUBSET Tenders : PollFetches(listed)) \/ PollFails
                 PROVE  RealInv'
      OBVIOUS
    <3>1. UNCHANGED <<published, row, cached, watch, at, tender, mem, data, clock>>
      BY DEF PollFetches, PollFails, table, known, bounds
    <3>2. batch' \subseteq published
      BY DEF PollFetches, PollFails, RealInv
    <3>3. since' <= clock
      BY DEF PollFetches, PollFails, RealInv, TypeOK
    <3> QED
      BY <3>1, <3>2, <3>3 DEF RealInv, RowsAreReal, Holds
  <2>13. CASE PollUpserts
    <3>1. /\ batch' = {} /\ UNCHANGED <<published, watch, at, tender, mem, data, since, clock>>
          /\ \A t \in Tenders : \/ t \in batch /\ row'[t] = since /\ cached'[t] = clock
                                \/ row'[t] = row[t] /\ cached'[t] = cached[t]
      BY <2>13 DEF PollUpserts, known, bounds
    <3>2. since \in Nat /\ clock \in Nat /\ since # None
      BY DEF TypeOK, None
    <3>3. RowsAreReal'
      BY <3>1, <3>2 DEF RealInv, RowsAreReal, TypeOK
    <3>4. \A q \in Requests : Holds(q)'
      BY <3>1, <3>2, HoldsKept DEF RealInv
    <3> QED
      BY <3>1, <3>3, <3>4 DEF RealInv
  <2>14. CASE Tick
    <3>1. /\ clock' = clock + 1 /\ clock \in Nat
          /\ UNCHANGED <<published, row, cached, watch, batch, since, at, tender, mem, data>>
      BY <2>14 DEF Tick, TypeOK, table, known, poll
    <3>2. RowsAreReal'
      BY <3>1 DEF RealInv, RowsAreReal, TypeOK
    <3>3. \A q \in Requests : Holds(q)'
      BY <3>1, HoldsKept DEF RealInv
    <3> QED
      BY <3>1, <3>2, <3>3 DEF RealInv, TypeOK
  <2> QED
    BY NextCases, <2>2, <2>4, <2>5, <2>6, <2>7, <2>8, <2>9, <2>10, <2>11, <2>12, <2>13, <2>14
<1>3. [](TypeOK /\ AnswerInv) /\ [][Next]_vars /\ Init => []RealInv
  BY <1>1, <1>2, PTL
<1> QED
  BY <1>3, TypeCorrect, PTL DEF Spec

\* The table holds what a portal said, no later than it claims, and the watchlist only
\* what the table holds, however polls, lookups and additions overtake each other.
THEOREM RowsSafe == Spec => []RowsAreReal
<1>1. RealInv => RowsAreReal
  BY DEF RealInv
<1> QED
  BY <1>1, RealInvariant, PTL

\* An answer is a reading of the tender that was asked for: the one the request fetched,
\* or the older one it had loaded before.
THEOREM AnswersSafe == Spec => []AnswersAreReal
<1>1. TypeOK /\ RealInv => AnswersAreReal
  <2> SUFFICES ASSUME TypeOK, RealInv, NEW r \in Requests, at[r] = "found"
               PROVE  /\ tender[r] \in published /\ mem[r] \in 0..clock
                      /\ data[r] # None => mem[r] <= data[r] /\ tender[r] \notin Foreign
    BY DEF AnswersAreReal
  <2>1. mem[r] \in Data /\ clock \in Nat
    BY DEF TypeOK
  <2> QED
    BY <2>1 DEF RealInv, Holds, Data, None
<1> QED
  BY <1>1, RealInvariant, TypeCorrect, PTL
=============================================================================
