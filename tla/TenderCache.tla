---------------------------- MODULE TenderCache ----------------------------
(***************************************************************************)
(* The table of tenders as a cache of the portal goszakup, and the         *)
(* watchlist of a user: services/tender_service.py and routers/tenders.py. *)
(* The worker's discovery polls write to the same rows.                    *)
(*                                                                         *)
(* Data is represented by the moment at which it was read on the portal.   *)
(***************************************************************************)
EXTENDS Integers

CONSTANTS
    Tenders,
    Foreign,     \* those of zakup.sk.kz, which goszakup does not know
    Requests,    \* lookups and additions to the watchlist under way at once
    TTL,         \* CACHE_TTL_MINUTES
    Cycle,       \* a day, which only a mutant looks at
    JobTimeout,  \* ARQ's: no poll takes longer
    MaxTime, MaxFaults  \* bounds

ASSUME TenderAssumption == Foreign \subseteq Tenders
ASSUME TimeAssumption == TTL \in Nat /\ JobTimeout \in Nat /\ Cycle \in Nat \ {0}
ASSUME BoundAssumption == MaxTime \in Nat /\ MaxFaults \in Nat

None == -1  \* no row, nothing loaded or read
Data == Nat \cup {None}

VARIABLES
    published,    \* the tenders that a portal has
    row, cached,  \* the table: its data and cached_at
    watch,        \* the tenders on the user's watchlist
    at, tender,   \* a request: where it is, and for which tender
    adding,       \* whether it is to put the tender on the watchlist, or has done so
    mem, memAt,   \* the Tender it holds in the session: data and cached_at
    data,         \* what the portal answered it
    batch, since, \* the tenders that the poll under way has read, and when
    clock, faults,
    removed       \* history: the entry in its way was taken off before it could be read

table == <<row, cached, watch>>
known == <<mem, memAt, data>>
poll == <<batch, since>>
bounds == <<clock, faults>>
vars == <<published, table, at, tender, adding, known, poll, bounds, removed>>

\* 404 is the answer of two: get_or_fetch_tender or add_to_watchlist returned None.
NotFound == {"unknown", "missing"}
Answers == {"found", "failed"} \cup NotFound
Places == {"idle", "select", "fetch", "upsert", "watch", "reselect"} \cup Answers

\* Every variable has its type; only goszakup's own tenders have data of its.
TypeOK ==
    /\ published \in SUBSET Tenders /\ watch \in SUBSET Tenders
    /\ row \in [Tenders -> Data] /\ cached \in [Tenders -> Nat]
    /\ at \in [Requests -> Places] /\ tender \in [Requests -> Tenders]
    /\ adding \in [Requests -> {"never", "later", "done"}]
    /\ mem \in [Requests -> Data] /\ memAt \in [Requests -> Nat]
    /\ data \in [Requests -> Data]
    /\ batch \in SUBSET Tenders /\ since \in Nat
    /\ clock \in Nat /\ faults \in Nat
    /\ removed \in [Requests -> BOOLEAN]

Init ==
    /\ published = {} /\ watch = {}
    /\ row = [t \in Tenders |-> None] /\ cached = [t \in Tenders |-> 0]
    /\ at = [r \in Requests |-> "idle"] /\ tender \in [Requests -> Tenders]
    /\ adding = [r \in Requests |-> "never"]
    /\ mem = [r \in Requests |-> None] /\ memAt = [r \in Requests |-> 0]
    /\ data = [r \in Requests |-> None]
    /\ batch = {} /\ since = 0
    /\ clock = 0 /\ faults = 0
    /\ removed = [r \in Requests |-> FALSE]

Goto(r, place) == at' = [at EXCEPT ![r] = place]

\* The request ends, and its session with it.
End(r) ==
    /\ Goto(r, "idle")
    /\ adding' = [adding EXCEPT ![r] = "never"]
    /\ mem' = [mem EXCEPT ![r] = None] /\ memAt' = [memAt EXCEPT ![r] = 0]
    /\ data' = [data EXCEPT ![r] = None]
    /\ removed' = [removed EXCEPT ![r] = FALSE]
    /\ UNCHANGED <<published, table, tender, poll, clock>>
-----------------------------------------------------------------------------
(* get_or_fetch_tender.                                                    *)

Request(r, t, add) ==
    /\ at[r] = "idle"
    /\ Goto(r, "select")
    /\ tender' = [tender EXCEPT ![r] = t]
    /\ adding' = [adding EXCEPT ![r] = IF add THEN "later" ELSE "never"]
    /\ UNCHANGED <<published, table, known, poll, bounds, removed>>

Found(r) == Goto(r, IF adding[r] = "later" THEN "watch" ELSE "found")

\* Mutant of Fresh: age.seconds, which leaves the days out.
FreshSeconds(then) == (clock - then) % Cycle < TTL

Fresh(then) == clock - then < TTL

Select(r) ==
    LET t == tender[r]
    IN  /\ at[r] = "select"
        /\ mem' = [mem EXCEPT ![r] = row[t]] /\ memAt' = [memAt EXCEPT ![r] = cached[t]]
        /\ IF row[t] # None /\ Fresh(cached[t]) THEN Found(r) ELSE Goto(r, "fetch")
        /\ UNCHANGED <<published, table, tender, adding, data, poll, bounds, removed>>

\* Mutant of FetchTender: that there is no such tender is cached, too.
FetchAnything(r) ==
    /\ at[r] = "fetch"
    /\ data' = [data EXCEPT ![r] = IF tender[r] \in published THEN clock ELSE None]
    /\ Goto(r, "upsert")
    /\ UNCHANGED <<published, table, tender, adding, mem, memAt, poll, bounds, removed>>

\* None is a 404, but after the addition the answer without its tender does not
\* validate: a 500.
Miss(r) == Goto(r, IF adding[r] = "done" THEN "failed" ELSE "unknown") /\ UNCHANGED data

\* A miss, or a stale row.
FetchTender(r) ==
    /\ at[r] = "fetch"
    /\ IF tender[r] \in published \ Foreign
       THEN data' = [data EXCEPT ![r] = clock] /\ Goto(r, "upsert")
       ELSE Miss(r)
    /\ UNCHANGED <<published, table, tender, adding, mem, memAt, poll, bounds, removed>>

\* A reply of 200 without data (GraphQL's errors) passes for a miss.
FetchNothing(r) ==
    /\ at[r] = "fetch" /\ faults < MaxFaults
    /\ faults' = faults + 1
    /\ Miss(r)
    /\ UNCHANGED <<published, table, tender, adding, mem, memAt, poll, clock, removed>>

\* INSERT ... ON CONFLICT DO UPDATE ... RETURNING, with the time of the answer as
\* cached_at: without populate_existing a Tender that Select loaded keeps the
\* attributes it had.
UpsertTender(r) ==
    /\ at[r] = "upsert"
    /\ row' = [row EXCEPT ![tender[r]] = data[r]]
    /\ cached' = [cached EXCEPT ![tender[r]] = data[r]]
    /\ IF mem[r] # None THEN UNCHANGED <<mem, memAt>>
       ELSE mem' = [mem EXCEPT ![r] = data[r]] /\ memAt' = [memAt EXCEPT ![r] = data[r]]
    /\ Found(r)
    /\ UNCHANGED <<published, watch, tender, adding, data, poll, bounds, removed>>

Answer(r) == at[r] \in Answers /\ End(r) /\ UNCHANGED faults

\* The API (after its retries) or the database fails, or the process dies.
RequestFails(r) ==
    /\ at[r] \notin {"idle"} \cup Answers
    /\ faults < MaxFaults /\ faults' = faults + 1
    /\ End(r)
-----------------------------------------------------------------------------
(* The watchlist.                                                          *)

\* The entry is there; the router looks the tender up again.
Added(r) ==
    /\ Goto(r, "select")
    /\ adding' = [adding EXCEPT ![r] = "done"]
    /\ mem' = [mem EXCEPT ![r] = None] /\ memAt' = [memAt EXCEPT ![r] = 0]
    /\ data' = [data EXCEPT ![r] = None]

\* ON CONFLICT DO NOTHING.
AddToWatchlist(r) ==
    /\ at[r] = "watch"
    /\ watch' = watch \cup {tender[r]}
    /\ IF tender[r] \in watch
       THEN Goto(r, "reselect") /\ UNCHANGED <<adding, known>>
       ELSE Added(r)
    /\ UNCHANGED <<published, row, cached, tender, poll, bounds, removed>>

\* Mutant of Reselect: what RETURNING gave is the answer.
ReselectNothing(r) ==
    /\ at[r] = "reselect"
    /\ Goto(r, "missing")
    /\ UNCHANGED <<published, table, tender, adding, known, poll, bounds, removed>>

\* The entry that was there, if it still is.
Reselect(r) ==
    /\ at[r] = "reselect"
    /\ IF tender[r] \in watch
       THEN Added(r)
       ELSE Goto(r, "missing") /\ UNCHANGED <<adding, known>>
    /\ UNCHANGED <<published, table, tender, poll, bounds, removed>>

RemoveFromWatchlist(t) ==
    /\ t \in watch
    /\ watch' = watch \ {t}
    /\ removed' = [r \in Requests |-> removed[r] \/ (at[r] = "reselect" /\ tender[r] = t)]
    /\ UNCHANGED <<published, row, cached, at, tender, adding, known, poll, bounds>>
-----------------------------------------------------------------------------
(* The portals, the polls (see DiscoveryPolls) and the clock.              *)

Publish(t) ==
    /\ t \notin published /\ published' = published \cup {t}
    /\ UNCHANGED <<table, at, tender, adding, known, poll, bounds, removed>>

PollFetches(listed) ==
    /\ batch = {} /\ listed # {} /\ listed \subseteq published
    /\ batch' = listed /\ since' = clock
    /\ UNCHANGED <<published, table, at, tender, adding, known, bounds, removed>>

\* cached_at is now() of the database, later than the portal's answer.
PollUpserts ==
    /\ batch # {}
    /\ row' = [t \in Tenders |-> IF t \in batch THEN since ELSE row[t]]
    /\ cached' = [t \in Tenders |-> IF t \in batch THEN clock ELSE cached[t]]
    /\ batch' = {}
    /\ UNCHANGED <<published, watch, at, tender, adding, known, since, bounds, removed>>

PollFails ==
    /\ batch # {} /\ batch' = {}
    /\ UNCHANGED <<published, table, at, tender, adding, known, since, bounds, removed>>

\* A poll that takes too long is ended; an answer that is ready is given at once.
Tick ==
    /\ clock < MaxTime /\ clock' = clock + 1
    /\ batch # {} => clock < since + JobTimeout
    /\ \A r \in Requests : at[r] # "found"
    /\ UNCHANGED <<published, table, at, tender, adding, known, poll, faults, removed>>

RequestStep(r) ==
    \/ Select(r) \/ FetchTender(r) \/ UpsertTender(r) \/ AddToWatchlist(r) \/ Reselect(r)
    \/ Answer(r)

Next ==
    \/ \E r \in Requests : \/ \E t \in Tenders, add \in BOOLEAN : Request(r, t, add)
                           \/ RequestStep(r) \/ FetchNothing(r) \/ RequestFails(r)
    \/ \E t \in Tenders : RemoveFromWatchlist(t) \/ Publish(t)
    \/ \E listed \in SUBSET Tenders : PollFetches(listed)
    \/ PollUpserts \/ PollFails \/ Tick

Spec == Init /\ [][Next]_vars
-----------------------------------------------------------------------------
(* Properties.                                                             *)

\* What is served from the table was read from its portal less than half an hour ago
\* (and the length of a poll), however lookups and polls overtake each other.
HitIsRecent ==
    \A r \in Requests : at[r] = "found" /\ data[r] = None =>
        mem[r] > clock - TTL - JobTimeout
-----------------------------------------------------------------------------
(* Proved in TenderCacheProofs.                                            *)

\* A row says no more than its portal did: of a tender that is published, not from
\* later than it claims, and what is on the watchlist has one (its foreign key).
RowsAreReal ==
    /\ \A t \in Tenders : row[t] # None => t \in published /\ row[t] <= cached[t] /\ cached[t] <= clock
    /\ \A t \in watch : row[t] # None

\* What is answered is what the request fetched or an older reading of the same tender,
\* as the table had it when the request began: never another's, nor one from later.
AnswersAreReal ==
    \A r \in Requests : at[r] = "found" =>
        /\ tender[r] \in published /\ mem[r] \in 0..clock
        /\ data[r] # None => mem[r] <= data[r] /\ tender[r] \notin Foreign

\* A 404 is decided in two places. get_or_fetch_tender decides it while goszakup does
\* not have the tender, or sends no data; add_to_watchlist only if the entry that was in
\* the way of its INSERT was taken off the list before its SELECT.
Missed(r) ==
    /\ at[r] # "unknown" /\ at'[r] = "unknown" =>
          tender[r] \notin published \ Foreign \/ FetchNothing(r)
    /\ at[r] # "missing" /\ at'[r] = "missing" => removed[r] /\ tender[r] \notin watch
NotFoundHasCause == [][\A r \in Requests : Missed(r)]_vars
-----------------------------------------------------------------------------
(* What comments say and the code does not do.                             *)

\* routers/tenders.py:64, "Returns 404 if the tender does not exist in goszakup", and
\* services/tender_service.py:115: whenever a 404 is decided, goszakup has no such tender.
FalselyMissing(r) ==
    at[r] \notin NotFound /\ at'[r] \in NotFound /\ tender[r] \in published \ Foreign
NotFoundIsTrue == [][\A r \in Requests : ~FalselyMissing(r)]_vars

\* routers/tenders.py:43, "otherwise fetches from goszakup": the answer to a request
\* that fetched the tender is what it fetched.
AnswerIsFetched ==
    \A r \in Requests : at[r] = "found" /\ data[r] # None => mem[r] = data[r]
=============================================================================
