--------------------------- MODULE DiscoveryPolls ---------------------------
(***************************************************************************)
(* The worker's two discovery polls (poll_goszakup_discovery.py and        *)
(* poll_sk_kz_discovery.py): every quarter of an hour each reads what its  *)
(* portal lists, upserts it, writes its timestamp to Redis and enqueues    *)
(* run_matching (module Discovery) for what it upserted.                   *)
(***************************************************************************)
EXTENDS Naturals, Sequences

CONSTANTS
    Gz, Sk,              \* the tenders of goszakup and of zakup.sk.kz
    PageSize, MaxPages,  \* of zakup.sk.kz
    MaxChanges,          \* bound: changes on the portals
    MaxFaults            \* bound: polls that fail, replies without data

ASSUME TenderAssumption == Gz \cap Sk = {}
ASSUME PageAssumption == PageSize \in Nat \ {0} /\ MaxPages \in Nat \ {0}
ASSUME BoundAssumption == MaxChanges \in Nat /\ MaxFaults \in Nat

Tenders == Gz \cup Sk
Polls == {"gz", "sk"}

VARIABLES
    listed,   \* goszakup's page: the newest by id of those changed within seven days
    feed,     \* zakup.sk.kz: those changed within a day, the last change first
    stored,   \* tenders with a row
    waiting,  \* tenders whose last change has not been given to run_matching
    stamped,  \* the polls with a last_polled_at
    later,    \* tenders that changed since their poll's last_polled_at
    pc,       \* where a poll is
    got,      \* the tenders it has read ...
    current,  \* ... of these, those that have not changed since
    page, twice,  \* sk: the page to be read; a tender came twice
    changes, faults

portals == <<listed, feed>>
poll == <<pc, got, current, page, twice>>
vars == <<portals, stored, waiting, stamped, later, poll, changes, faults>>

Of(p) == IF p = "gz" THEN Gz ELSE Sk

\* Every variable has its type; what a poll remembers of its portal is what it read there.
TypeOK ==
    /\ got \in [Polls -> SUBSET Tenders] /\ current \in [Polls -> SUBSET Tenders]
    /\ listed \in SUBSET Gz /\ feed \in Seq(Sk)
    /\ stored \in SUBSET Tenders /\ waiting \in SUBSET Tenders /\ later \in SUBSET Tenders
    /\ stamped \in SUBSET Polls
    /\ pc \in [Polls -> {"idle", "fetch", "upsert", "stamp", "enqueue"}]
    /\ \A p \in Polls : current[p] \subseteq got[p] /\ got[p] \subseteq Of(p)
    /\ page \in Nat /\ twice \in BOOLEAN
    /\ changes \in Nat /\ faults \in Nat

Init ==
    /\ listed = {} /\ feed = <<>>
    /\ stored = {} /\ waiting = {} /\ stamped = {} /\ later = {}
    /\ pc = [p \in Polls |-> "idle"]
    /\ got = [p \in Polls |-> {}] /\ current = [p \in Polls |-> {}]
    /\ page = 0 /\ twice = FALSE
    /\ changes = 0 /\ faults = 0

Step(p, place) == pc' = [pc EXCEPT ![p] = place]
-----------------------------------------------------------------------------
(* The portals.                                                            *)

\* zakup.sk.kz moves what has changed to the front of its list.
ToFront(t) ==
    \/ /\ \A i \in DOMAIN feed : feed[i] # t
       /\ feed' = <<t>> \o feed
    \/ \E i \in DOMAIN feed :
          /\ feed[i] = t
          /\ feed' = <<t>> \o SubSeq(feed, 1, i - 1) \o SubSeq(feed, i + 1, Len(feed))

Changes(t) ==
    /\ changes < MaxChanges /\ changes' = changes + 1
    /\ IF t \in Gz THEN listed' = listed \cup {t} /\ UNCHANGED feed
                   ELSE ToFront(t) /\ UNCHANGED listed
    /\ waiting' = waiting \cup {t} /\ later' = later \cup {t}
    /\ current' = [p \in Polls |-> current[p] \ {t}]
    /\ UNCHANGED <<stored, stamped, pc, got, page, twice, faults>>

\* Seven days, or a day, pass; goszakup publishes fifty tenders more.
Ages ==
    /\ \/ \E t \in listed : listed' = listed \ {t} /\ UNCHANGED feed
       \/ feed # <<>> /\ feed' = SubSeq(feed, 1, Len(feed) - 1) /\ UNCHANGED listed
    /\ UNCHANGED <<stored, waiting, stamped, later, poll, changes, faults>>
-----------------------------------------------------------------------------
(* A poll.                                                                 *)

\* cron, unique.  Once zakup.sk.kz has a timestamp, fromisoformat is given the bytes
\* that ARQ's pool returns and raises TypeError, before anything is read.
StartPoll(p) ==
    /\ pc[p] = "idle"
    /\ p = "sk" => p \notin stamped
    /\ Step(p, "fetch")
    /\ UNCHANGED <<portals, stored, waiting, stamped, later, got, current, page, twice,
                   changes, faults>>

Read(p, items) ==
    /\ got' = [got EXCEPT ![p] = @ \cup items]
    /\ current' = [current EXCEPT ![p] = @ \cup items]

\* Mutants of End: the list of what was read outlives the poll, in whole or in part.
EndKeeping(p) ==
    /\ Step(p, "idle")
    /\ page' = (IF p = "sk" THEN 0 ELSE page) /\ twice' = (p # "sk" /\ twice)
    /\ UNCHANGED <<got, current>>
EndHalfKeeping(p) ==
    /\ Step(p, "idle") /\ got' = [got EXCEPT ![p] = {}]
    /\ page' = (IF p = "sk" THEN 0 ELSE page) /\ twice' = (p # "sk" /\ twice)
    /\ UNCHANGED current

End(p) ==
    /\ Step(p, "idle")
    /\ got' = [got EXCEPT ![p] = {}] /\ current' = [current EXCEPT ![p] = {}]
    /\ page' = (IF p = "sk" THEN 0 ELSE page) /\ twice' = (p # "sk" /\ twice)

\* last_polled_at is the present, not the time of the reading.
Timestamp(p) == stamped' = stamped \cup {p} /\ later' = later \ Of(p)

\* Mutant of FetchBatch: what has changed since last_polled_at.
FetchSince ==
    /\ pc["gz"] = "fetch"
    /\ IF listed \cap later # {}
       THEN Step("gz", "upsert") /\ Read("gz", listed \cap later)
            /\ UNCHANGED <<stamped, later, page, twice>>
       ELSE End("gz") /\ Timestamp("gz")
    /\ UNCHANGED <<portals, stored, waiting, changes, faults>>

\* fetch_tenders_batch: always the last seven days.
FetchBatch ==
    /\ pc["gz"] = "fetch"
    /\ IF listed # {}
       THEN Step("gz", "upsert") /\ Read("gz", listed) /\ UNCHANGED <<stamped, later, page, twice>>
       ELSE End("gz") /\ Timestamp("gz")
    /\ UNCHANGED <<portals, stored, waiting, changes, faults>>

\* Page n of the list as it is now, which may have moved since page n - 1.
Page(n) == {feed[i] : i \in {j \in DOMAIN feed : (j - 1) \div PageSize = n}}
Full(n) == Len(feed) >= (n + 1) * PageSize

\* fetch_sk_tenders_page, up to the first page that is not full or the last one.
FetchPage ==
    /\ pc["sk"] = "fetch"
    /\ IF got["sk"] \cup Page(page) = {}
       THEN End("sk") /\ Timestamp("sk")
       ELSE /\ Read("sk", Page(page))
            /\ twice' = (twice \/ Page(page) \cap got["sk"] # {})
            /\ IF Full(page) /\ page + 1 < MaxPages
               THEN page' = page + 1 /\ UNCHANGED pc
               ELSE Step("sk", "upsert") /\ UNCHANGED page
            /\ UNCHANGED <<stamped, later>>
    /\ UNCHANGED <<portals, stored, waiting, changes, faults>>

\* _upsert_tenders: one INSERT ... ON CONFLICT DO UPDATE, which fails if two of its
\* rows have the same key.
Upsert(p) ==
    /\ pc[p] = "upsert"
    /\ IF p = "sk" /\ twice
       THEN End(p) /\ UNCHANGED stored
       ELSE /\ stored' = stored \cup got[p] /\ Step(p, "stamp")
            /\ UNCHANGED <<got, current, page, twice>>
    /\ UNCHANGED <<portals, waiting, stamped, later, changes, faults>>

WriteTimestamp(p) ==
    /\ pc[p] = "stamp"
    /\ Timestamp(p) /\ Step(p, "enqueue")
    /\ UNCHANGED <<portals, stored, waiting, got, current, page, twice, changes, faults>>

Enqueue(p) ==
    /\ pc[p] = "enqueue"
    /\ waiting' = waiting \ current[p]
    /\ End(p)
    /\ UNCHANGED <<portals, stored, stamped, later, changes, faults>>

\* Mutant of PollFails: the timestamp is written in a finally.
FailsStamped(p) ==
    /\ pc[p] # "idle" /\ faults < MaxFaults
    /\ faults' = faults + 1
    /\ End(p) /\ Timestamp(p)
    /\ UNCHANGED <<portals, stored, waiting, changes>>

\* An exception, or the worker dies: a cron job is not repeated.
PollFails(p) ==
    /\ pc[p] # "idle" /\ faults < MaxFaults
    /\ faults' = faults + 1
    /\ End(p)
    /\ UNCHANGED <<portals, stored, waiting, stamped, later, changes>>

\* A reply of 200 without data, or of zakup.sk.kz one that is not a list, passes for
\* an empty one: the end of what there is to read.
ReadsNothing(p) ==
    /\ pc[p] = "fetch" /\ faults < MaxFaults
    /\ faults' = faults + 1
    /\ IF got[p] = {}
       THEN End(p) /\ Timestamp(p)
       ELSE Step(p, "upsert") /\ UNCHANGED <<stamped, later, got, current, page, twice>>
    /\ UNCHANGED <<portals, stored, waiting, changes>>

PollStep(p) ==
    \/ StartPoll(p) \/ Upsert(p) \/ WriteTimestamp(p) \/ Enqueue(p)
    \/ p = "gz" /\ FetchBatch
    \/ p = "sk" /\ FetchPage

Next ==
    \/ \E t \in Tenders : Changes(t)
    \/ Ages
    \/ \E p \in Polls : PollStep(p) \/ ReadsNothing(p) \/ PollFails(p)

Spec == Init /\ [][Next]_vars

\* cron starts the polls, and the worker runs them.
FairSpec == Spec /\ \A p \in Polls : WF_vars(PollStep(p))
-----------------------------------------------------------------------------
(* Properties.                                                             *)

\* The timestamp passes over no tender of zakup.sk.kz that the poll has read and
\* failed to store (poll_sk_kz_discovery.py:59, "atomicity invariant").
NothingReadIsPassed ==
    [][\A p \in Polls : (got[p] \cap later) \ later' \subseteq stored']_vars

\* A change that goszakup lists is given to run_matching, though polls fail at any
\* step and tenders change while they are read; unless it leaves the list.
GoszakupIsMatched == \A t \in Gz : t \in waiting ~> t \notin waiting \/ t \notin listed

\* On zakup.sk.kz this holds until the first poll that writes a timestamp: a poll that
\* fails, or is given a tender twice, is made up for.
FirstPollIsRepeated ==
    \A t \in Sk : t \in waiting ~>
        t \notin waiting \/ "sk" \in stamped \/ \A i \in DOMAIN feed : feed[i] # t
-----------------------------------------------------------------------------
(* Proved in DiscoveryPollsProofs.                                         *)

\* run_matching is given no tender that has no row, whichever step of a poll fails and
\* whatever changes while it reads.
MatchedAreStored == [][waiting \ waiting' \subseteq stored]_vars

\* After its first timestamp zakup.sk.kz is never read again: none of its tenders gets a
\* row, and run_matching is given none but those that the poll of that timestamp read.
SkKzStops ==
    [][(/\ "sk" \in stamped
        /\ Sk \cap (stored' \ stored) # {} \/ Sk \cap (waiting \ waiting') # {})
          => /\ pc["sk"] = "enqueue" /\ UNCHANGED stored
             /\ waiting \ waiting' \subseteq current["sk"]]_vars
-----------------------------------------------------------------------------
(* What a comment says and the code does not do.                           *)

\* poll_sk_kz_discovery.py:15, "incremental polling is reliable".
SkKzIsMatched ==
    \A t \in Sk : t \in waiting ~> t \notin waiting \/ \A i \in DOMAIN feed : feed[i] # t
=============================================================================
