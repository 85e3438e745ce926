------------------------ MODULE DiscoveryPollsProofs ------------------------
(***************************************************************************)
(* Theorems about DiscoveryPolls, for any tenders, any size of a page and  *)
(* any number of changes and failures.                                     *)
(***************************************************************************)
EXTENDS DiscoveryPolls, TLAPS

\* Why a timestamp passes over nothing that was read: a poll has its tenders in the
\* table before it writes one, and one that writes it early has read nothing.
PollInv ==
    /\ \A p \in Polls : pc[p] = "idle" => got[p] = {}
    /\ pc["gz"] = "fetch" => got["gz"] = {}
    /\ \A p \in Polls : pc[p] \in {"stamp", "enqueue"} => got[p] \subseteq stored

LEMMA NextCases ==
    ASSUME Next
    PROVE  \/ \E t \in Tenders : Changes(t)
           \/ Ages
           \/ \E p \in Polls : StartPoll(p) \/ Upsert(p) \/ WriteTimestamp(p) \/ Enqueue(p)
           \/ FetchBatch \/ FetchPage
           \/ \E p \in Polls : ReadsNothing(p) \/ PollFails(p)
BY DEF Next, PollStep

\* A poll owns the tenders of its portal and no others.
LEMMA Apart ==
    ASSUME NEW p \in Polls, NEW q \in Polls, p # q
    PROVE  Of(p) \cap Of(q) = {}
BY TenderAssumption DEF Polls, Of

LEMMA OfTenders == \A p \in Polls : Of(p) \subseteq Tenders
BY DEF Polls, Of, Tenders

LEMMA EndFacts ==
    ASSUME TypeOK, NEW p \in Polls, End(p)
    PROVE  /\ pc' \in [Polls -> {"idle", "fetch", "upsert", "stamp", "enqueue"}]
           /\ got' \in [Polls -> SUBSET Tenders] /\ current' \in [Polls -> SUBSET Tenders]
           /\ page' \in Nat /\ twice' \in BOOLEAN
           /\ pc'[p] = "idle" /\ got'[p] = {} /\ current'[p] = {}
           /\ \A q \in Polls \ {p} :
                 pc'[q] = pc[q] /\ got'[q] = got[q] /\ current'[q] = current[q]
<1>1. twice' \in BOOLEAN
  BY DEF TypeOK, End
<1>2. page' \in Nat
  BY DEF TypeOK, End
<1> QED
  BY <1>1, <1>2 DEF TypeOK, End, Step

LEMMA ReadFacts ==
    ASSUME TypeOK, NEW p \in Polls, NEW items \in SUBSET Of(p), Read(p, items)
    PROVE  /\ got' \in [Polls -> SUBSET Tenders] /\ current' \in [Polls -> SUBSET Tenders]
           /\ \A q \in Polls : current'[q] \subseteq got'[q] /\ got'[q] \subseteq Of(q)
           /\ \A q \in Polls \ {p} : got'[q] = got[q]
BY OfTenders DEF TypeOK, Read

\* What zakup.sk.kz moves to the front of its list was one of its tenders.
LEMMA FeedType ==
    ASSUME feed \in Seq(Sk), NEW t \in Sk, ToFront(t)
    PROVE  feed' \in Seq(Sk)
<1>1. CASE feed' = <<t>> \o feed
  BY <1>1
<1>2. ASSUME NEW i \in DOMAIN feed,
             feed' = <<t>> \o SubSeq(feed, 1, i - 1) \o SubSeq(feed, i + 1, Len(feed))
      PROVE  feed' \in Seq(Sk)
  <2>1. SubSeq(feed, 1, i - 1) \in Seq(Sk) /\ SubSeq(feed, i + 1, Len(feed)) \in Seq(Sk)
    OBVIOUS
  <2> QED
    BY <1>2, <2>1
<1> QED
  BY <1>1, <1>2 DEF ToFront

\* The variables keep their types, and a poll reads tenders of its own portal only.
THEOREM TypeCorrect == Spec => []TypeOK
<1>1. Init => TypeOK
  <2> SUFFICES ASSUME Init PROVE TypeOK
    OBVIOUS
  <2>1. feed \in Seq(Sk)
    BY DEF Init
  <2>2. \A p \in Polls : got[p] = {} /\ current[p] = {}
    BY DEF Init
  <2> QED
    BY <2>1, <2>2 DEF Init, TypeOK
<1>2. TypeOK /\ [Next]_vars => TypeOK'
  <2> SUFFICES ASSUME TypeOK, [Next]_vars PROVE TypeOK'
    OBVIOUS
  <2>1. CASE UNCHANGED vars
    BY <2>1 DEF TypeOK, vars, portals, poll
  <2>2. ASSUME NEW t \in Tenders, Changes(t) PROVE TypeOK'
    <3>1. listed' \in SUBSET Gz /\ feed' \in Seq(Sk)
      BY <2>2, FeedType DEF TypeOK, Changes, Tenders
    <3>2. /\ current' \in [Polls -> SUBSET Tenders]
          /\ \A p \in Polls : current'[p] \subseteq got[p]
      BY <2>2 DEF TypeOK, Changes
    <3> QED
      BY <2>2, <3>1, <3>2 DEF TypeOK, Changes
  <2>3. CASE Ages
    <3>1. listed' \in SUBSET Gz
      BY <2>3 DEF TypeOK, Ages
    <3>2. feed' \in Seq(Sk)
      BY <2>3 DEF TypeOK, Ages
    <3> QED
      BY <2>3, <3>1, <3>2 DEF TypeOK, Ages, poll
  <2>4. ASSUME NEW p \in Polls, StartPoll(p) PROVE TypeOK'
    BY <2>4 DEF TypeOK, StartPoll, Step, portals
  <2>5. CASE FetchBatch
    <3>1. UNCHANGED <<listed, feed, stored, waiting, changes, faults>>
      BY <2>5 DEF FetchBatch, portals
    <3>2. CASE listed # {}
      <4>1. Read("gz", listed) /\ listed \in SUBSET Of("gz") /\ "gz" \in Polls
        BY <2>5, <3>2 DEF TypeOK, FetchBatch, Of, Polls
      <4>2. /\ pc' \in [Polls -> {"idle", "fetch", "upsert", "stamp", "enqueue"}]
            /\ UNCHANGED <<stamped, later, page, twice>>
        BY <2>5, <3>2 DEF TypeOK, FetchBatch, Step
      <4> QED
        BY <3>1, <4>1, <4>2, ReadFacts DEF TypeOK
    <3>3. CASE listed = {}
      <4>1. End("gz") /\ Timestamp("gz") /\ "gz" \in Polls
        BY <2>5, <3>3 DEF FetchBatch, Polls
      <4> QED
        BY <3>1, <4>1, EndFacts DEF TypeOK, Timestamp
    <3> QED
      BY <3>2, <3>3
  <2>6. CASE FetchPage
    <3>1. UNCHANGED <<listed, feed, stored, waiting, changes, faults>>
      BY <2>6 DEF FetchPage, portals
    <3>2. Page(page) \in SUBSET Of("sk") /\ "sk" \in Polls
      BY DEF TypeOK, Page, Of, Polls
    <3>3. CASE got["sk"] \cup Page(page) = {}
      <4>1. End("sk") /\ Timestamp("sk")
        BY <2>6, <3>3 DEF FetchPage
      <4> QED
        BY <3>1, <3>2, <4>1, EndFacts DEF TypeOK, Timestamp
    <3>4. CASE got["sk"] \cup Page(page) # {}
      <4>1. Read("sk", Page(page)) /\ UNCHANGED <<stamped, later>>
        BY <2>6, <3>4 DEF FetchPage
      <4>2. twice' \in BOOLEAN
        BY <2>6, <3>4 DEF TypeOK, FetchPage
      <4>3. page' \in Nat
        BY <2>6, <3>4 DEF TypeOK, FetchPage
      <4>4. pc' \in [Polls -> {"idle", "fetch", "upsert", "stamp", "enqueue"}]
        BY <2>6, <3>4 DEF TypeOK, FetchPage, Step
      <4> QED
        BY <3>1, <3>2, <4>1, <4>2, <4>3, <4>4, ReadFacts DEF TypeOK
    <3> QED
      BY <3>3, <3>4
  <2>7. ASSUME NEW p \in Polls, Upsert(p) PROVE TypeOK'
    <3>1. UNCHANGED <<listed, feed, waiting, stamped, later, changes, faults>>
      BY <2>7 DEF Upsert, portals
    <3>2. CASE p = "sk" /\ twice
      BY <2>7, <3>1, <3>2, EndFacts DEF TypeOK, Upsert
    <3>3. CASE ~(p = "sk" /\ twice)
      BY <2>7, <3>1, <3>3 DEF TypeOK, Upsert, Step
    <3> QED
      BY <3>2, <3>3
  <2>8. ASSUME NEW p \in Polls, WriteTimestamp(p) PROVE TypeOK'
    BY <2>8 DEF TypeOK, WriteTimestamp, Timestamp, Step, portals
  <2>9. ASSUME NEW p \in Polls, Enqueue(p) PROVE TypeOK'
    BY <2>9, EndFacts DEF TypeOK, Enqueue, portals
  <2>10. ASSUME NEW p \in Polls, PollFails(p) PROVE TypeOK'
    BY <2>10, EndFacts DEF TypeOK, PollFails, portals
  <2>11. ASSUME NEW p \in Polls, ReadsNothing(p) PROVE TypeOK'
    <3>1. UNCHANGED <<listed, feed, stored, waiting, changes>> /\ faults' \in Nat
      BY <2>11 DEF TypeOK, ReadsNothing, portals
    <3>2. CASE got[p] = {}
      <4>1. stamped' \in SUBSET Polls /\ later' \in SUBSET Tenders
        BY <2>11, <3>2 DEF TypeOK, ReadsNothing, Timestamp
      <4> QED
        BY <2>11, <3>1, <3>2, <4>1, EndFacts DEF TypeOK, ReadsNothing
    <3>3. CASE got[p] # {}
      BY <2>11, <3>1, <3>3 DEF TypeOK, ReadsNothing, Step
    <3> QED
      BY <3>2, <3>3
  <2> QED
    BY NextCases, <2>1, <2>2, <2>3, <2>4, <2>5, <2>6, <2>7, <2>8, <2>9, <2>10, <2>11
<1> QED
  BY <1>1, <1>2, PTL DEF Spec
-----------------------------------------------------------------------------
\* What NothingPassed rests on, at every step of both polls.
LEMMA PollInvariant == Spec => []PollInv
<1>1. Init => PollInv
  BY DEF Init, PollInv, Polls
<1>2. TypeOK /\ PollInv /\ [Next]_vars => PollInv'
  <2> SUFFICES ASSUME TypeOK, PollInv, [Next]_vars PROVE PollInv'
    OBVIOUS
  <2>1. CASE UNCHANGED <<pc, got, stored>>
    BY <2>1 DEF PollInv
  <2>2. CASE UNCHANGED vars \/ Ages \/ (\E t \in Tenders : Changes(t))
    BY <2>1, <2>2 DEF vars, portals, poll, Ages, Changes
  \* The end of a poll, whatever ends it.
  <2>3. ASSUME NEW p \in Polls, End(p), UNCHANGED stored PROVE PollInv'
    BY <2>3, EndFacts DEF PollInv, Polls
  <2>4. ASSUME NEW p \in Polls, StartPoll(p) PROVE PollInv'
    BY <2>4 DEF TypeOK, PollInv, StartPoll, Step, Polls
  <2>5. CASE FetchBatch
    <3>1. CASE listed = {}
      BY <2>3, <2>5, <3>1 DEF FetchBatch, Polls
    <3>2. CASE listed # {}
      BY <2>5, <3>2 DEF TypeOK, PollInv, FetchBatch, Read, Step, Polls
    <3> QED
      BY <3>1, <3>2
  <2>6. CASE FetchPage
    <3>1. CASE got["sk"] \cup Page(page) = {}
      BY <2>3, <2>6, <3>1 DEF FetchPage, Polls
    <3>2. CASE got["sk"] \cup Page(page) # {}
      <4>1. /\ pc["sk"] = "fetch" /\ UNCHANGED stored
            /\ pc'["sk"] \in {"fetch", "upsert"} /\ pc'["gz"] = pc["gz"]
            /\ got'["gz"] = got["gz"]
        BY <2>6, <3>2 DEF TypeOK, FetchPage, Read, Step, Polls
      <4> QED
        BY <4>1 DEF PollInv, Polls
    <3> QED
      BY <3>1, <3>2
  <2>7. ASSUME NEW p \in Polls, Upsert(p) PROVE PollInv'
    <3>1. CASE p = "sk" /\ twice
      BY <2>3, <2>7, <3>1 DEF Upsert
    <3>2. CASE ~(p = "sk" /\ twice)
      <4>1. /\ stored' = stored \cup got[p] /\ UNCHANGED got /\ pc'[p] = "stamp"
            /\ \A q \in Polls \ {p} : pc'[q] = pc[q]
        BY <2>7, <3>2 DEF TypeOK, Upsert, Step
      <4> QED
        BY <4>1 DEF PollInv, Polls
    <3> QED
      BY <3>1, <3>2
  <2>8. ASSUME NEW p \in Polls, WriteTimestamp(p) PROVE PollInv'
    BY <2>8 DEF TypeOK, PollInv, WriteTimestamp, Step, Polls
  <2>9. ASSUME NEW p \in Polls, Enqueue(p) \/ PollFails(p) PROVE PollInv'
    BY <2>3, <2>9 DEF Enqueue, PollFails
  <2>10. ASSUME NEW p \in Polls, ReadsNothing(p) PROVE PollInv'
    <3>1. CASE got[p] = {}
      BY <2>3, <2>10, <3>1 DEF ReadsNothing
    <3>2. CASE got[p] # {}
      <4>1. /\ pc'[p] = "upsert" /\ UNCHANGED <<got, stored>>
            /\ \A q \in Polls \ {p} : pc'[q] = pc[q]
        BY <2>10, <3>2 DEF TypeOK, ReadsNothing, Step
      <4> QED
        BY <4>1 DEF PollInv, Polls
    <3> QED
      BY <3>1, <3>2
  <2> QED
    BY NextCases, <2>2, <2>4, <2>5, <2>6, <2>7, <2>8, <2>9, <2>10
<1> QED
  BY <1>1, <1>2, TypeCorrect, PTL DEF Spec

\* A timestamp passes over no tender that its poll has read and not stored, at
\* whatever step polls fail and however the lists move while they are read.
THEOREM NothingPassed == Spec => NothingReadIsPassed
<1>1. TypeOK /\ PollInv /\ [Next]_vars =>
         [\A p \in Polls : (got[p] \cap later) \ later' \subseteq stored']_vars
  <2> SUFFICES ASSUME TypeOK, PollInv, Next, NEW p \in Polls
               PROVE  (got[p] \cap later) \ later' \subseteq stored'
    OBVIOUS
  <2>1. CASE later \subseteq later'
    BY <2>1
  \* The poll of q writes its timestamp.
  <2>2. ASSUME NEW q \in Polls, Timestamp(q), UNCHANGED stored, got[q] \subseteq stored
        PROVE  (got[p] \cap later) \ later' \subseteq stored'
    <3>1. p # q => got[p] \cap Of(q) = {}
      BY Apart DEF TypeOK
    <3> QED
      BY <2>2, <3>1 DEF Timestamp
  <2>3. ASSUME NEW q \in Polls, WriteTimestamp(q)
        PROVE  (got[p] \cap later) \ later' \subseteq stored'
    BY <2>2, <2>3 DEF PollInv, WriteTimestamp
  <2>4. CASE FetchBatch
    <3>1. CASE listed = {}
      BY <2>2, <2>4, <3>1 DEF PollInv, FetchBatch, Polls
    <3>2. CASE listed # {}
      BY <2>1, <2>4, <3>2 DEF FetchBatch
    <3> QED
      BY <3>1, <3>2
  <2>5. CASE FetchPage
    <3>1. CASE got["sk"] \cup Page(page) = {}
      BY <2>2, <2>5, <3>1 DEF FetchPage, Polls
    <3>2. CASE got["sk"] \cup Page(page) # {}
      BY <2>1, <2>5, <3>2 DEF FetchPage
    <3> QED
      BY <3>1, <3>2
  <2>6. ASSUME NEW q \in Polls, StartPoll(q) \/ Upsert(q) \/ Enqueue(q) \/ PollFails(q)
        PROVE  later \subseteq later'
    BY <2>6 DEF StartPoll, Upsert, Enqueue, PollFails
  <2>7. ASSUME Ages \/ \E t \in Tenders : Changes(t) PROVE later \subseteq later'
    BY <2>7 DEF Ages, Changes
  <2>8. ASSUME NEW q \in Polls, ReadsNothing(q)
        PROVE  (got[p] \cap later) \ later' \subseteq stored'
    <3>1. CASE got[q] = {}
      BY <2>2, <2>8, <3>1 DEF ReadsNothing
    <3>2. CASE got[q] # {}
      BY <2>1, <2>8, <3>2 DEF ReadsNothing
    <3> QED
      BY <3>1, <3>2
  <2> QED
    BY NextCases, <2>1, <2>3, <2>4, <2>5, <2>6, <2>7, <2>8
<1> QED
  BY <1>1, TypeCorrect, PollInvariant, PTL DEF Spec, NothingReadIsPassed
-----------------------------------------------------------------------------
\* Once there is a timestamp of zakup.sk.kz, its poll has at most to enqueue what it read.
SkInv == "sk" \in stamped => pc["sk"] \in {"idle", "enqueue"}

LEMMA SkInvariant == Spec => []SkInv
<1>1. Init => SkInv
  BY DEF Init, SkInv
<1>2. TypeOK /\ SkInv /\ [Next]_vars => SkInv'
  <2> SUFFICES ASSUME TypeOK, SkInv, [Next]_vars PROVE SkInv'
    OBVIOUS
  <2> "sk" \in Polls /\ "gz" \in Polls
    BY DEF Polls
  <2>1. CASE "sk" \in stamped' => "sk" \in stamped /\ pc'["sk"] = pc["sk"]
    BY <2>1 DEF SkInv
  <2>2. CASE UNCHANGED vars \/ Ages \/ (\E t \in Tenders : Changes(t))
    BY <2>1, <2>2 DEF vars, poll, Ages, Changes
  <2>3. CASE pc'["sk"] \in {"idle", "enqueue"}
    BY <2>3 DEF SkInv
  <2>4. ASSUME NEW p \in Polls, StartPoll(p) PROVE SkInv'
    BY <2>1, <2>4 DEF TypeOK, StartPoll, Step
  <2>5. CASE FetchBatch
    <3>1. pc'["sk"] = pc["sk"] /\ ("sk" \in stamped' => "sk" \in stamped)
      BY <2>5 DEF TypeOK, FetchBatch, End, Step, Timestamp
    <3> QED
      BY <2>1, <3>1
  <2>6. CASE FetchPage
    <3>1. CASE got["sk"] \cup Page(page) = {}
      BY <2>3, <2>6, <3>1, EndFacts DEF FetchPage
    <3>2. CASE got["sk"] \cup Page(page) # {}
      BY <2>6, <3>2 DEF SkInv, FetchPage
    <3> QED
      BY <3>1, <3>2
  <2>7. ASSUME NEW p \in Polls, Upsert(p) PROVE SkInv'
    <3>1. UNCHANGED stamped /\ pc[p] = "upsert"
      BY <2>7 DEF Upsert
    <3>2. CASE p = "sk"
      BY <3>1, <3>2 DEF SkInv
    <3>3. CASE p # "sk"
      BY <2>1, <2>7, <3>1, <3>3 DEF TypeOK, Upsert, Step
    <3> QED
      BY <3>2, <3>3
  <2>8. ASSUME NEW p \in Polls, WriteTimestamp(p) PROVE SkInv'
    BY <2>1, <2>3, <2>8 DEF TypeOK, WriteTimestamp, Timestamp, Step
  <2>9. ASSUME NEW p \in Polls, Enqueue(p) \/ PollFails(p) PROVE SkInv'
    <3>1. End(p) /\ UNCHANGED stamped
      BY <2>9 DEF Enqueue, PollFails
    <3> QED
      BY <2>1, <2>3, <3>1, EndFacts
  <2>10. ASSUME NEW p \in Polls, ReadsNothing(p) PROVE SkInv'
    <3>1. CASE got[p] = {}
      <4>1. CASE p = "sk"
        BY <2>3, <2>10, <3>1, <4>1, EndFacts DEF ReadsNothing
      <4>2. CASE p # "sk"
        BY <2>1, <2>10, <3>1, <4>2, EndFacts DEF ReadsNothing, Timestamp
      <4> QED
        BY <4>1, <4>2
    <3>2. CASE got[p] # {}
      <4>1. pc[p] = "fetch" /\ UNCHANGED stamped
        BY <2>10, <3>2 DEF ReadsNothing
      <4>2. p # "sk" => pc'["sk"] = pc["sk"]
        BY <2>10, <3>2 DEF TypeOK, ReadsNothing, Step
      <4> QED
        BY <2>1, <4>1, <4>2 DEF SkInv
    <3> QED
      BY <3>1, <3>2
  <2> QED
    BY NextCases, <2>2, <2>4, <2>5, <2>6, <2>7, <2>8, <2>9, <2>10
<1> QED
  BY <1>1, <1>2, TypeCorrect, PTL DEF Spec

\* The steps that store a tender, and those that give one to run_matching.
LEMMA PollWriters ==
    ASSUME [Next]_vars
    PROVE  /\ stored' # stored => \E p \in Polls : Upsert(p) /\ stored' = stored \cup got[p]
           /\ waiting \ waiting' # {} =>
                \E p \in Polls : Enqueue(p) /\ waiting' = waiting \ current[p] /\ UNCHANGED stored
<1>1. CASE UNCHANGED <<stored, waiting>>
  BY <1>1
<1>2. CASE \/ UNCHANGED vars \/ Ages \/ FetchBatch \/ FetchPage
           \/ \E p \in Polls : StartPoll(p) \/ WriteTimestamp(p) \/ ReadsNothing(p) \/ PollFails(p)
  BY <1>1, <1>2
     DEF vars, Ages, FetchBatch, FetchPage, StartPoll, WriteTimestamp, ReadsNothing, PollFails
<1>3. ASSUME NEW t \in Tenders, Changes(t) PROVE UNCHANGED stored /\ waiting \ waiting' = {}
  BY <1>3 DEF Changes
<1>4. ASSUME NEW p \in Polls, Upsert(p)
      PROVE UNCHANGED waiting /\ (stored' = stored \/ stored' = stored \cup got[p])
  BY <1>4 DEF Upsert
<1>5. ASSUME NEW p \in Polls, Enqueue(p)
      PROVE UNCHANGED stored /\ waiting' = waiting \ current[p]
  BY <1>5 DEF Enqueue
<1> QED
  BY NextCases, <1>2, <1>3, <1>4, <1>5

\* run_matching is given no tender that has no row: the rows are written before, by a
\* poll that has got as far as to enqueue.
THEOREM MatchedSafe == Spec => MatchedAreStored
<1>1. TypeOK /\ PollInv /\ [Next]_vars => [waiting \ waiting' \subseteq stored]_vars
  <2> SUFFICES ASSUME TypeOK, PollInv, [Next]_vars PROVE waiting \ waiting' \subseteq stored
    OBVIOUS
  <2>1. CASE waiting \ waiting' = {}
    BY <2>1
  <2>2. ASSUME NEW p \in Polls, Enqueue(p), waiting' = waiting \ current[p]
        PROVE waiting \ waiting' \subseteq stored
    <3>1. current[p] \subseteq got[p] /\ got[p] \subseteq stored
      BY <2>2 DEF TypeOK, PollInv, Enqueue
    <3> QED
      BY <2>2, <3>1
  <2> QED
    BY <2>1, <2>2, PollWriters
<1> QED
  BY <1>1, TypeCorrect, PollInvariant, PTL DEF Spec, MatchedAreStored

\* After its first timestamp zakup.sk.kz is never read again, for any size of its pages
\* and whatever fails: what changes there is stored and matched no more.
THEOREM SkKzStopsSafe == Spec => SkKzStops
<1>1. TypeOK /\ SkInv /\ [Next]_vars =>
        [(/\ "sk" \in stamped
          /\ Sk \cap (stored' \ stored) # {} \/ Sk \cap (waiting \ waiting') # {})
           => /\ pc["sk"] = "enqueue" /\ UNCHANGED stored
              /\ waiting \ waiting' \subseteq current["sk"]]_vars
  <2> SUFFICES ASSUME TypeOK, SkInv, [Next]_vars, "sk" \in stamped,
                      Sk \cap (stored' \ stored) # {} \/ Sk \cap (waiting \ waiting') # {}
               PROVE  /\ pc["sk"] = "enqueue" /\ UNCHANGED stored
                      /\ waiting \ waiting' \subseteq current["sk"]
    OBVIOUS
  <2>1. ASSUME NEW p \in Polls, p # "sk" PROVE Sk \cap got[p] = {} /\ Sk \cap current[p] = {}
    <3>1. current[p] \subseteq got[p] /\ got[p] \subseteq Gz
      BY <2>1 DEF TypeOK, Of, Polls
    <3> QED
      BY <3>1, TenderAssumption
  <2>2. ASSUME NEW p \in Polls, Upsert(p), stored' = stored \cup got[p]
        PROVE  Sk \cap (stored' \ stored) = {}
    <3>1. p # "sk"
      BY <2>2 DEF SkInv, Upsert
    <3> QED
      BY <2>1, <2>2, <3>1
  <2>3. Sk \cap (waiting \ waiting') # {}
    BY <2>2, PollWriters
  <2>4. PICK p \in Polls : Enqueue(p) /\ waiting' = waiting \ current[p] /\ UNCHANGED stored
    BY <2>3, PollWriters
  <2>5. p = "sk"
    BY <2>1, <2>3, <2>4
  <2> QED
    BY <2>4, <2>5 DEF Enqueue
<1> QED
  BY <1>1, TypeCorrect, SkInvariant, PTL DEF Spec, SkKzStops
=============================================================================
