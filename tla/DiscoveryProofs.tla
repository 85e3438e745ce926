-------------------------- MODULE DiscoveryProofs --------------------------
(***************************************************************************)
(* Theorems about Discovery, for any pairs, jobs and requests.             *)
(***************************************************************************)
EXTENDS Discovery, TLAPS

Pcs == {"idle", "next", "send", "load", "mark"}
RowIds == Rows \cup {NoRow}

LEMMA NoRowIsNone == NoRow \notin Rows
BY PairAssumption DEF NoRow, Rows

LEMMA RowParts ==
    ASSUME NEW m \in Rows
    PROVE  m[1] \in Pairs /\ m[2] \in 1..MaxRows /\ m = <<m[1], m[2]>>
BY DEF Rows

\* Updates of the records keep their types.
LEMMA RunPc ==
    ASSUME NEW f \in [Runs -> RunStates], NEW j \in Runs, NEW c \in Pcs
    PROVE  [f EXCEPT ![j].pc = c] \in [Runs -> RunStates]
BY DEF RunStates, Pcs

LEMMA RunRow ==
    ASSUME NEW f \in [Runs -> RunStates], NEW j \in Runs, NEW c \in Pcs,
           NEW m \in RowIds
    PROVE  [f EXCEPT ![j].pc = c, ![j].row = m] \in [Runs -> RunStates]
BY DEF RunStates, Pcs, RowIds

LEMMA NoRunType == NoRun \in RunStates
BY DEF NoRun, RunStates

LEMMA ContinueType ==
    ASSUME TypeOK, NEW j \in Runs, NEW p, Continue(j, p)
    PROVE  run' \in [Runs -> RunStates]
<1>1. run[j].ids \in SUBSET Pairs /\ run[j].todo \in SUBSET Pairs
  BY DEF TypeOK, RunStates
<1>2. [pc |-> "next", ids |-> run[j].ids, todo |-> run[j].todo \ {p},
       row |-> NoRow] \in RunStates
  BY <1>1 DEF RunStates
<1>3. QED
  BY <1>2, NoRunType DEF TypeOK, Continue

LEMMA RequestPc ==
    ASSUME NEW f \in [Requests -> RequestStates], NEW r \in Requests,
           NEW c \in {"idle", "loaded", "drafted"}
    PROVE  [f EXCEPT ![r].pc = c] \in [Requests -> RequestStates]
BY DEF RequestStates

LEMMA NoRequestType == NoRequest \in RequestStates
BY DEF NoRequest, RequestStates, States

LEMMA SentType ==
    ASSUME NEW f \in [Rows -> Nat], NEW m
    PROVE  [f EXCEPT ![m] = @ + 1] \in [Rows -> Nat]
<1>1. CASE m \in Rows
  <2>1. f[m] + 1 \in Nat
    BY <1>1
  <2> QED
    BY <1>1, <2>1
<1>2. CASE m \notin Rows
  BY <1>2
<1> QED
  BY <1>1, <1>2
-----------------------------------------------------------------------------
\* A step of Discovery keeps the types.
LEMMA TypeStep ==
    ASSUME TypeOK, [Next]_vars
    PROVE  TypeOK'
<1>1. ASSUME NEW p \in Pairs, WindowMoves(p) PROVE TypeOK'
  BY <1>1 DEF TypeOK, WindowMoves, boundVars
<1>2. ASSUME NEW j \in Runs, Poll(j) PROVE TypeOK'
  <2>1. [pc |-> "next", ids |-> window, todo |-> window, row |-> NoRow] \in RunStates
    BY DEF TypeOK, RunStates
  <2>2. run' \in [Runs -> RunStates]
    BY <1>2, <2>1 DEF TypeOK, Poll
  <2> QED
    BY <1>2, <2>2 DEF TypeOK, Poll, boundVars
<1>3. ASSUME NEW j \in Runs, MatchStep(j) PROVE TypeOK'
  <2>1. ASSUME NEW p \in Pairs, SkipDuplicate(j, p) PROVE TypeOK'
    <3>1. run' \in [Runs -> RunStates]
      BY <2>1, ContinueType DEF SkipDuplicate
    <3> QED
      BY <2>1, <3>1 DEF TypeOK, SkipDuplicate, boundVars
  <2>2. ASSUME NEW p \in Pairs, NEW n \in 1..MaxRows, InsertMatch(j, p, n)
        PROVE  TypeOK'
    <3>1. CASE p \in Linked
      <4>1. <<p, n>> \in RowIds
        BY DEF RowIds, Rows
      <4>2. [run EXCEPT ![j].pc = "send", ![j].row = <<p, n>>]
              \in [Runs -> RunStates]
        BY <4>1, RunRow DEF TypeOK, Pcs
      <4>3. run' \in [Runs -> RunStates]
        BY <2>2, <3>1, <4>2 DEF InsertMatch
      <4> QED
        BY <2>2, <4>3 DEF TypeOK, InsertMatch, boundVars, States, Present
    <3>2. CASE p \notin Linked
      <4>1. run' \in [Runs -> RunStates]
        BY <2>2, <3>2, ContinueType DEF InsertMatch
      <4> QED
        BY <2>2, <4>1 DEF TypeOK, InsertMatch, boundVars, States, Present
    <3> QED
      BY <3>1, <3>2
  <2>3. CASE SendNotification(j)
    <3>1. run' \in [Runs -> RunStates]
      BY <2>3, RunPc DEF TypeOK, SendNotification, Pcs
    <3>2. sent' \in [Rows -> Nat]
      BY <2>3, SentType DEF TypeOK, SendNotification
    <3> QED
      BY <2>3, <3>1, <3>2 DEF TypeOK, SendNotification, boundVars
  <2>4. CASE SendFails(j)
    <3>1. run' \in [Runs -> RunStates]
      BY <2>4, ContinueType DEF SendFails
    <3>2. sent' \in [Rows -> Nat]
      BY <2>4, SentType DEF TypeOK, SendFails
    <3> QED
      BY <2>4, <3>1, <3>2 DEF TypeOK, SendFails, boundVars
  <2>5. CASE LoadMatch(j)
    <3>1. run' \in [Runs -> RunStates]
      <4>1. CASE status[run[j].row] \in Present
        <5>1. "mark" \in Pcs
          BY DEF Pcs
        <5>2. [run EXCEPT ![j].pc = "mark"] \in [Runs -> RunStates]
          BY <5>1, RunPc DEF TypeOK
        <5> QED
          BY <2>5, <4>1, <5>2 DEF LoadMatch
      <4>2. CASE status[run[j].row] \notin Present
        BY <2>5, <4>2, ContinueType DEF LoadMatch
      <4> QED
        BY <4>1, <4>2
    <3> QED
      BY <2>5, <3>1 DEF TypeOK, LoadMatch, boundVars
  <2>6. CASE MarkNotified(j)
    <3>1. run' \in [Runs -> RunStates]
      BY <2>6, ContinueType DEF MarkNotified
    <3> QED
      BY <2>6, <3>1 DEF TypeOK, MarkNotified, boundVars, States, Present
  <2>7. CASE MarkDeleted(j)
    <3>1. run' \in [Runs -> RunStates]
      BY <2>7, NoRunType DEF TypeOK, MarkDeleted
    <3> QED
      BY <2>7, <3>1 DEF TypeOK, MarkDeleted, boundVars
  <2> QED
    BY <1>3, <2>1, <2>2, <2>3, <2>4, <2>5, <2>6, <2>7 DEF MatchStep
<1>4. ASSUME NEW j \in Runs, RunFault(j) PROVE TypeOK'
  <2>1. CASE RunFails(j)
    <3>1. run' \in [Runs -> RunStates]
      BY <2>1, NoRunType DEF TypeOK, RunFails
    <3> QED
      BY <2>1, <3>1 DEF TypeOK, RunFails
  <2>2. CASE RunCrash(j)
    <3>1. run[j].ids \in SUBSET Pairs
      BY DEF TypeOK, RunStates
    <3>2. [pc |-> "next", ids |-> run[j].ids, todo |-> run[j].ids, row |-> NoRow]
            \in RunStates
      BY <3>1 DEF RunStates
    <3>3. run' \in [Runs -> RunStates]
      BY <2>2, <3>2 DEF TypeOK, RunCrash
    <3> QED
      BY <2>2, <3>3 DEF TypeOK, RunCrash
  <2> QED
    BY <1>4, <2>1, <2>2 DEF RunFault
<1>5. ASSUME NEW r \in Requests, UserNext(r) PROVE TypeOK'
  <2>1. ASSUME NEW m \in Rows, NEW k \in {"participating", "skipped", "deleted"},
               Receive(r, k, m)
        PROVE  TypeOK'
    <3>1. [pc |-> "loaded", kind |-> k, row |-> m, loaded |-> status[m]]
            \in RequestStates
      BY <2>1 DEF TypeOK, RequestStates
    <3>2. req' \in [Requests -> RequestStates]
      BY <2>1, <3>1 DEF TypeOK, Receive
    <3>3. presses' \in Nat
      BY <2>1 DEF TypeOK, Receive
    <3> QED
      BY <2>1, <3>2, <3>3 DEF TypeOK, Receive
  <2>2. CASE CreateDraft(r)
    <3>1. req' \in [Requests -> RequestStates]
      BY <2>2, RequestPc DEF TypeOK, CreateDraft
    <3>2. drafts' \in [Rows -> Nat]
      BY <2>2, SentType DEF TypeOK, CreateDraft
    <3> QED
      BY <2>2, <3>1, <3>2 DEF TypeOK, CreateDraft, boundVars
  <2>3. CASE Decide(r)
    <3>1. req' \in [Requests -> RequestStates]
      BY <2>3, NoRequestType DEF TypeOK, Decide
    <3>2. req[r].kind \in States
      BY DEF TypeOK, RequestStates, States, Present, Decided
    <3>3. status' \in [Rows -> States]
      BY <2>3, <3>2 DEF TypeOK, Decide, Written
    <3> QED
      BY <2>3, <3>1, <3>3 DEF TypeOK, Decide, boundVars
  <2>4. CASE RequestCrash(r)
    <3>1. req' \in [Requests -> RequestStates]
      BY <2>4, NoRequestType DEF TypeOK, RequestCrash
    <3> QED
      BY <2>4, <3>1 DEF TypeOK, RequestCrash
  <2> QED
    BY <1>5, <2>1, <2>2, <2>3, <2>4 DEF UserNext, Participate, Skip, Delete,
       DiscParticipate, DiscSkip
<1>6. CASE UNCHANGED vars
  BY <1>6 DEF TypeOK, vars
<1> QED
  BY <1>1, <1>2, <1>3, <1>4, <1>5, <1>6 DEF Next

\* The types declared, of the whole state: what run_matching and the decision
\* handlers leave in their tables and local variables.
THEOREM TypeCorrect == Spec => []TypeOK
<1>1. Init => TypeOK
  BY NoRunType, NoRequestType DEF Init, TypeOK, States
<1>2. TypeOK /\ [Next]_vars => TypeOK'
  BY TypeStep
<1>3. QED
  BY <1>1, <1>2, PTL DEF Spec
-----------------------------------------------------------------------------
(* The inductive invariant.  A row is announced by one job, from its insert  *)
(* until the job leaves it, and this job alone sends its message; a request  *)
(* keeps the row it loaded and, once drafted, its draft.                     *)

Announce == {"send", "load", "mark"}

OwnRow ==
    \A j \in Runs : run[j].pc \in Announce =>
                       run[j].row \in Rows /\ status[run[j].row] # "none"
Unsent == \A j \in Runs : run[j].pc = "send" => sent[run[j].row] = 0
Accepted == \A j \in Runs : run[j].pc \in {"load", "mark"} => sent[run[j].row] > 0
OneAnnouncer ==
    \A i, j \in Runs :
       i # j /\ run[i].pc \in Announce /\ run[j].pc \in Announce => run[i].row # run[j].row
AnnounceInv == OwnRow /\ Unsent /\ Accepted /\ OneAnnouncer

NewIsUnsent == \A m \in Rows : status[m] = "none" => sent[m] = 0

RequestRow ==
    \A r \in Requests : req[r].pc # "idle" =>
                           /\ req[r].kind \in {"participating", "skipped", "deleted"}
                           /\ req[r].row \in Rows
RequestDraft ==
    \A r \in Requests : req[r].pc = "drafted" => drafts[req[r].row] > 0
RequestInv == RequestRow /\ RequestDraft

Inv == /\ TypeOK /\ AnnounceInv /\ NewIsUnsent /\ RequestInv
       /\ AnnouncedOnce /\ NotifiedWasSent /\ ParticipatingHasDraft

\* Where the other jobs are after a step of one.
LEMMA ContinueElsewhere ==
    ASSUME TypeOK, NEW j \in Runs, NEW p, Continue(j, p)
    PROVE  \A i \in Runs : run'[i].pc \in Announce => i # j /\ run'[i] = run[i]
<1>1. run'[j].pc \notin Announce
  BY DEF TypeOK, Continue, NoRun, Announce
<1>2. \A i \in Runs : i # j => run'[i] = run[i]
  BY DEF TypeOK, Continue
<1> QED
  BY <1>1, <1>2

LEMMA PcElsewhere ==
    ASSUME NEW f \in [Runs -> RunStates], NEW j \in Runs, NEW c \in Pcs
    PROVE  \A i \in Runs : /\ i # j => [f EXCEPT ![j].pc = c][i] = f[i]
                           /\ [f EXCEPT ![j].pc = c][j].pc = c
                           /\ [f EXCEPT ![j].pc = c][i].row = f[i].row
BY DEF RunStates

LEMMA RowElsewhere ==
    ASSUME NEW f \in [Runs -> RunStates], NEW j \in Runs, NEW c \in Pcs,
           NEW m \in RowIds
    PROVE  LET g == [f EXCEPT ![j].pc = c, ![j].row = m]
           IN  g[j].pc = c /\ g[j].row = m /\ \A i \in Runs : i # j => g[i] = f[i]
BY DEF RunStates

\* A step after which every job still announcing is where it was keeps
\* AnnounceInv, if no row of theirs changes its messages or vanishes.
LEMMA AnnounceKept ==
    ASSUME AnnounceInv,
           \A i \in Runs : run'[i].pc \in Announce =>
              /\ run'[i] = run[i]
              /\ sent'[run[i].row] = sent[run[i].row]
              /\ status[run[i].row] # "none" => status'[run[i].row] # "none"
    PROVE  AnnounceInv'
<1>1. OwnRow'
  BY DEF AnnounceInv, OwnRow
<1>2. Unsent'
  BY DEF AnnounceInv, Unsent, Announce
<1>3. Accepted'
  BY DEF AnnounceInv, Accepted, Announce
<1>4. OneAnnouncer'
  BY DEF AnnounceInv, OneAnnouncer
<1> QED
  BY <1>1, <1>2, <1>3, <1>4 DEF AnnounceInv

\* A step that leaves rows, messages and drafts alone keeps the last three parts.
LEMMA RowsKept ==
    ASSUME Inv, status' = status, sent' = sent, drafts' = drafts
    PROVE  NewIsUnsent' /\ AnnouncedOnce' /\ NotifiedWasSent' /\ ParticipatingHasDraft'
BY DEF Inv, NewIsUnsent, AnnouncedOnce, NotifiedWasSent, ParticipatingHasDraft

LEMMA RequestsKept ==
    ASSUME Inv, req' = req, drafts' = drafts
    PROVE  RequestInv'
BY DEF Inv, RequestInv, RequestRow, RequestDraft

\* INSERT: the row is new, so nobody announces it and nothing was sent for it.
LEMMA InsertStep ==
    ASSUME Inv, TypeOK', NEW j \in Runs, NEW p \in Pairs, NEW n \in 1..MaxRows,
           InsertMatch(j, p, n)
    PROVE  Inv'
<1> DEFINE m == <<p, n>>
<1>1. /\ m \in Rows /\ status[m] = "none" /\ sent[m] = 0
  BY DEF InsertMatch, Fresh, Inv, NewIsUnsent, Rows
<1>2. /\ status' = [status EXCEPT ![m] = "matched"]
      /\ sent' = sent /\ drafts' = drafts /\ req' = req
  BY DEF InsertMatch
<1>3. /\ status'[m] = "matched"
      /\ \A k \in Rows : k # m => status'[k] = status[k]
  BY <1>1, <1>2 DEF Inv, TypeOK
<1>4. \A i \in Runs : run[i].pc \in Announce => run[i].row \in Rows /\ run[i].row # m
  BY <1>1 DEF Inv, AnnounceInv, OwnRow
<1>5. AnnounceInv'
  <2>1. CASE p \in Linked
    <3>1. m \in RowIds
      BY <1>1 DEF RowIds
    <3>2. run' = [run EXCEPT ![j].pc = "send", ![j].row = m]
      BY <2>1 DEF InsertMatch
    <3>3. /\ run'[j].pc = "send" /\ run'[j].row = m
          /\ \A i \in Runs : i # j => run'[i] = run[i]
      BY <3>1, <3>2, RowElsewhere DEF Inv, TypeOK, Pcs
    <3> HIDE DEF m
    <3>4. OwnRow'
      BY <1>1, <1>3, <1>4, <3>3 DEF Inv, AnnounceInv, OwnRow
    <3>5. Unsent'
      BY <1>1, <1>2, <3>3 DEF Inv, AnnounceInv, Unsent
    <3>6. Accepted'
      BY <1>2, <3>3 DEF Inv, AnnounceInv, Accepted
    <3>7. OneAnnouncer'
      BY <1>4, <3>3 DEF Inv, AnnounceInv, OneAnnouncer
    <3> QED
      BY <3>4, <3>5, <3>6, <3>7 DEF AnnounceInv
  <2>2. CASE p \notin Linked
    <3>1. \A i \in Runs : run'[i].pc \in Announce => i # j /\ run'[i] = run[i]
      BY <2>2, ContinueElsewhere DEF InsertMatch, Inv
    <3> QED
      BY <1>2, <1>3, <1>4, <3>1, AnnounceKept DEF Inv
  <2> QED
    BY <2>1, <2>2
<1>6. RequestInv'
  BY <1>2, RequestsKept
<1> HIDE DEF m
<1>7. NewIsUnsent' /\ AnnouncedOnce' /\ NotifiedWasSent' /\ ParticipatingHasDraft'
  BY <1>1, <1>2, <1>3
     DEF Inv, NewIsUnsent, AnnouncedOnce, NotifiedWasSent, ParticipatingHasDraft
<1> QED
  BY <1>5, <1>6, <1>7 DEF Inv

\* The message: the first of the row, as no other job announces it.
LEMMA MessageStep ==
    ASSUME Inv, NEW j \in Runs, run[j].pc = "send",
           sent' = [sent EXCEPT ![run[j].row] = @ + 1]
    PROVE  /\ run[j].row \in Rows /\ status[run[j].row] # "none"
           /\ sent'[run[j].row] = 1
           /\ \A k \in Rows : k # run[j].row => sent'[k] = sent[k]
           /\ \A i \in Runs : i # j /\ run[i].pc \in Announce =>
                 sent'[run[i].row] = sent[run[i].row]
<1>1. run[j].row \in Rows /\ status[run[j].row] # "none" /\ sent[run[j].row] = 0
  BY DEF Inv, AnnounceInv, OwnRow, Unsent, Announce
<1>2. sent'[run[j].row] = 1 /\ \A k \in Rows : k # run[j].row => sent'[k] = sent[k]
  BY <1>1 DEF Inv, TypeOK
<1>3. \A i \in Runs : i # j /\ run[i].pc \in Announce =>
         run[i].row \in Rows /\ run[i].row # run[j].row
  BY DEF Inv, AnnounceInv, OwnRow, OneAnnouncer, Announce
<1> QED
  BY <1>1, <1>2, <1>3

LEMMA MessageRows ==
    ASSUME Inv, NEW m \in Rows, status[m] # "none", sent'[m] = 1,
           \A k \in Rows : k # m => sent'[k] = sent[k],
           status' = status, drafts' = drafts
    PROVE  NewIsUnsent' /\ AnnouncedOnce' /\ NotifiedWasSent' /\ ParticipatingHasDraft'
BY DEF Inv, NewIsUnsent, AnnouncedOnce, NotifiedWasSent, ParticipatingHasDraft

LEMMA SendStep ==
    ASSUME Inv, TypeOK', NEW j \in Runs, SendNotification(j)
    PROVE  Inv'
<1>1. /\ run[j].pc = "send" /\ sent' = [sent EXCEPT ![run[j].row] = @ + 1]
      /\ run' = [run EXCEPT ![j].pc = "load"]
      /\ status' = status /\ drafts' = drafts /\ req' = req
  BY DEF SendNotification
<1>2. /\ run[j].row \in Rows /\ status[run[j].row] # "none"
      /\ sent'[run[j].row] = 1
      /\ \A k \in Rows : k # run[j].row => sent'[k] = sent[k]
      /\ \A i \in Runs : i # j /\ run[i].pc \in Announce =>
            sent'[run[i].row] = sent[run[i].row]
  BY <1>1, MessageStep
<1>3. /\ \A i \in Runs : i # j => run'[i] = run[i]
      /\ run'[j].pc = "load" /\ run'[j].row = run[j].row
  BY <1>1, PcElsewhere DEF Inv, TypeOK, Pcs
<1>4. OwnRow'
  BY <1>1, <1>2, <1>3 DEF Inv, AnnounceInv, OwnRow
<1>5. Unsent'
  BY <1>2, <1>3 DEF Inv, AnnounceInv, Unsent, Announce
<1>6. Accepted'
  BY <1>2, <1>3 DEF Inv, AnnounceInv, Accepted, Announce
<1>7. OneAnnouncer'
  BY <1>1, <1>3 DEF Inv, AnnounceInv, OneAnnouncer, Announce
<1>8. RequestInv'
  BY <1>1, RequestsKept
<1>9. NewIsUnsent' /\ AnnouncedOnce' /\ NotifiedWasSent' /\ ParticipatingHasDraft'
  BY <1>1, <1>2, MessageRows
<1> QED
  BY <1>4, <1>5, <1>6, <1>7, <1>8, <1>9 DEF Inv, AnnounceInv

LEMMA SendFailsStep ==
    ASSUME Inv, TypeOK', NEW j \in Runs, SendFails(j)
    PROVE  Inv'
<1>1. /\ run[j].pc = "send"
      /\ status' = status /\ drafts' = drafts /\ req' = req
  BY DEF SendFails
<1>2. \A i \in Runs : run'[i].pc \in Announce => i # j /\ run'[i] = run[i]
  BY ContinueElsewhere DEF SendFails, Inv
<1>3. RequestInv'
  BY <1>1, RequestsKept
<1>4. CASE sent' = sent
  <2>1. AnnounceInv'
    BY <1>1, <1>2, <1>4, AnnounceKept DEF Inv
  <2> QED
    BY <1>1, <1>3, <1>4, <2>1, RowsKept DEF Inv
<1>5. CASE sent' = [sent EXCEPT ![run[j].row] = @ + 1]
  <2>1. /\ run[j].row \in Rows /\ status[run[j].row] # "none"
        /\ sent'[run[j].row] = 1
        /\ \A k \in Rows : k # run[j].row => sent'[k] = sent[k]
        /\ \A i \in Runs : i # j /\ run[i].pc \in Announce =>
              sent'[run[i].row] = sent[run[i].row]
    BY <1>1, <1>5, MessageStep
  <2>2. AnnounceInv'
    BY <1>1, <1>2, <2>1, AnnounceKept DEF Inv
  <2>3. NewIsUnsent' /\ AnnouncedOnce' /\ NotifiedWasSent' /\ ParticipatingHasDraft'
    BY <1>1, <2>1, MessageRows
  <2> QED
    BY <1>3, <2>2, <2>3 DEF Inv
<1> QED
  BY <1>4, <1>5 DEF SendFails

\* "notified" is written to the row the job announced.
LEMMA MarkStep ==
    ASSUME Inv, TypeOK', NEW j \in Runs, MarkNotified(j)
    PROVE  Inv'
<1> DEFINE m == run[j].row
<1>1. m \in Rows /\ sent[m] > 0
  BY DEF MarkNotified, Inv, AnnounceInv, OwnRow, Accepted, Announce
<1>2. /\ status' = [status EXCEPT ![m] = "notified"]
      /\ sent' = sent /\ drafts' = drafts /\ req' = req
  BY DEF MarkNotified
<1>3. status'[m] = "notified" /\ \A k \in Rows : k # m => status'[k] = status[k]
  BY <1>1, <1>2 DEF Inv, TypeOK
<1>4. \A i \in Runs : run'[i].pc \in Announce => i # j /\ run'[i] = run[i]
  BY ContinueElsewhere DEF MarkNotified, Inv
<1> HIDE DEF m
<1>5. \A i \in Runs : run'[i].pc \in Announce =>
         /\ run'[i] = run[i]
         /\ sent'[run[i].row] = sent[run[i].row]
         /\ status[run[i].row] # "none" => status'[run[i].row] # "none"
  BY <1>2, <1>3, <1>4 DEF Inv, AnnounceInv, OwnRow
<1>6. AnnounceInv'
  BY <1>5, AnnounceKept DEF Inv
<1>7. RequestInv'
  BY <1>2, RequestsKept
<1>8. NewIsUnsent' /\ AnnouncedOnce' /\ NotifiedWasSent' /\ ParticipatingHasDraft'
  BY <1>1, <1>2, <1>3
     DEF Inv, NewIsUnsent, AnnouncedOnce, NotifiedWasSent, ParticipatingHasDraft
<1> QED
  BY <1>6, <1>7, <1>8 DEF Inv

\* Steps that only move jobs: no message, no row.
LEMMA JobOnlyStep ==
    ASSUME Inv, TypeOK', status' = status, sent' = sent, drafts' = drafts, req' = req,
           \A i \in Runs : run'[i].pc \in Announce => run'[i] = run[i]
    PROVE  Inv'
<1>1. AnnounceInv'
  BY AnnounceKept DEF Inv
<1> QED
  BY <1>1, RowsKept, RequestsKept DEF Inv

LEMMA LoadStep ==
    ASSUME Inv, TypeOK', NEW j \in Runs, LoadMatch(j)
    PROVE  Inv'
<1>1. /\ run[j].pc = "load"
      /\ status' = status /\ sent' = sent /\ drafts' = drafts /\ req' = req
  BY DEF LoadMatch
<1>2. CASE status[run[j].row] \in Present
  <2>1. run' = [run EXCEPT ![j].pc = "mark"]
    BY <1>2 DEF LoadMatch
  <2>2. /\ \A i \in Runs : i # j => run'[i] = run[i]
        /\ run'[j].pc = "mark" /\ run'[j].row = run[j].row
    BY <2>1, PcElsewhere DEF Inv, TypeOK, Pcs
  <2>3. OwnRow'
    BY <1>1, <2>2 DEF Inv, AnnounceInv, OwnRow, Announce
  <2>4. Unsent'
    BY <1>1, <2>2 DEF Inv, AnnounceInv, Unsent
  <2>5. Accepted'
    BY <1>1, <2>2 DEF Inv, AnnounceInv, Accepted
  <2>6. OneAnnouncer'
    BY <1>1, <2>2 DEF Inv, AnnounceInv, OneAnnouncer, Announce
  <2> QED
    BY <1>1, <2>3, <2>4, <2>5, <2>6, RowsKept, RequestsKept DEF Inv, AnnounceInv
<1>3. CASE status[run[j].row] \notin Present
  <2>1. \A i \in Runs : run'[i].pc \in Announce => i # j /\ run'[i] = run[i]
    BY <1>3, ContinueElsewhere DEF LoadMatch, Inv
  <2> QED
    BY <1>1, <2>1, JobOnlyStep
<1> QED
  BY <1>2, <1>3

LEMMA PollStep ==
    ASSUME Inv, TypeOK', NEW j \in Runs, Poll(j)
    PROVE  Inv'
<1>1. \A i \in Runs : run'[i].pc \in Announce => run'[i] = run[i]
  BY DEF Poll, Inv, TypeOK, Announce
<1> QED
  BY <1>1, JobOnlyStep DEF Poll

LEMMA FaultStep ==
    ASSUME Inv, TypeOK', NEW j \in Runs, RunFault(j) \/ MarkDeleted(j)
    PROVE  Inv'
<1>1. \A i \in Runs : run'[i].pc \in Announce => run'[i] = run[i]
  BY DEF RunFault, RunFails, RunCrash, MarkDeleted, NoRun, Inv, TypeOK, Announce
<1>2. status' = status /\ sent' = sent /\ drafts' = drafts /\ req' = req
  BY DEF RunFault, RunFails, RunCrash, MarkDeleted
<1> QED
  BY <1>1, <1>2, JobOnlyStep

LEMMA SkipStep ==
    ASSUME Inv, TypeOK', NEW j \in Runs, NEW p \in Pairs, SkipDuplicate(j, p)
    PROVE  Inv'
<1>1. \A i \in Runs : run'[i].pc \in Announce => i # j /\ run'[i] = run[i]
  BY ContinueElsewhere DEF SkipDuplicate, Inv
<1> QED
  BY <1>1, JobOnlyStep DEF SkipDuplicate

\* Steps of requests that leave jobs and messages alone.
LEMMA JobsKept ==
    ASSUME Inv, run' = run, sent' = sent,
           \A m \in Rows : status[m] # "none" <=> status'[m] # "none"
    PROVE  AnnounceInv' /\ NewIsUnsent' /\ AnnouncedOnce'
<1>1. \A i \in Runs : run'[i].pc \in Announce =>
         /\ run'[i] = run[i]
         /\ sent'[run[i].row] = sent[run[i].row]
         /\ status[run[i].row] # "none" => status'[run[i].row] # "none"
  BY DEF Inv, AnnounceInv, OwnRow
<1>2. AnnounceInv'
  BY <1>1, AnnounceKept DEF Inv
<1> QED
  BY <1>2 DEF Inv, NewIsUnsent, AnnouncedOnce

LEMMA ReceiveStep ==
    ASSUME Inv, TypeOK', NEW r \in Requests, NEW m \in Rows,
           NEW k \in {"participating", "skipped", "deleted"}, Receive(r, k, m)
    PROVE  Inv'
<1>1. /\ run' = run /\ sent' = sent /\ status' = status /\ drafts' = drafts
  BY DEF Receive
<1>2. /\ req'[r].pc = "loaded" /\ req'[r].kind = k /\ req'[r].row = m
      /\ \A q \in Requests : q # r => req'[q] = req[q]
  BY DEF Receive, Inv, TypeOK
<1>3. RequestInv'
  BY <1>1, <1>2 DEF Inv, RequestInv, RequestRow, RequestDraft
<1> QED
  BY <1>1, <1>3, JobsKept, RowsKept DEF Inv

LEMMA DraftStep ==
    ASSUME Inv, TypeOK', NEW r \in Requests, CreateDraft(r)
    PROVE  Inv'
<1> DEFINE m == req[r].row
<1>1. m \in Rows /\ req[r].kind = "participating"
  BY DEF CreateDraft, Inv, RequestInv, RequestRow
<1>2. /\ drafts' = [drafts EXCEPT ![m] = @ + 1]
      /\ run' = run /\ sent' = sent /\ status' = status
  BY DEF CreateDraft
<1>3. /\ drafts'[m] > 0
      /\ \A k \in Rows : drafts[k] > 0 => drafts'[k] > 0
  BY <1>1, <1>2 DEF Inv, TypeOK
<1>4. /\ \A q \in Requests : q # r => req'[q] = req[q]
      /\ req'[r].pc = "drafted" /\ req'[r].kind = req[r].kind /\ req'[r].row = m
  BY DEF CreateDraft, Inv, TypeOK, RequestStates
<1> HIDE DEF m
<1>5. RequestRow'
  BY <1>1, <1>4 DEF Inv, RequestInv, RequestRow
<1>6. RequestDraft'
  BY <1>3, <1>4 DEF Inv, RequestInv, RequestRow, RequestDraft
<1>7. NotifiedWasSent' /\ ParticipatingHasDraft'
  BY <1>2, <1>3 DEF Inv, NotifiedWasSent, ParticipatingHasDraft
<1> QED
  BY <1>2, <1>5, <1>6, <1>7, JobsKept DEF Inv, RequestInv

\* What a decision writes: its own value, to a row that is there.
LEMMA WrittenValue ==
    ASSUME Inv, NEW r \in Requests, Decide(r), NEW m \in Rows,
           status'[m] # status[m]
    PROVE  /\ status[m] \in Present
           /\ status'[m] = req[r].kind /\ m = req[r].row
           /\ req[r].kind \in {"participating", "skipped", "deleted"}
           /\ req[r].kind = "participating" => drafts[m] > 0
<1>1. req[r].pc # "idle"
  BY DEF Decide
<1>2. /\ req[r].kind \in {"participating", "skipped", "deleted"}
      /\ req[r].row \in Rows
  BY <1>1 DEF Inv, RequestInv, RequestRow
<1>3. /\ status[req[r].row] \in Present
      /\ status' = [status EXCEPT ![req[r].row] = req[r].kind]
  BY DEF Decide, Written
<1>4. m = req[r].row /\ status'[m] = req[r].kind
  BY <1>2, <1>3 DEF Inv, TypeOK
<1>5. req[r].kind = "participating" => drafts[m] > 0
  BY <1>4 DEF Decide, Inv, RequestInv, RequestDraft
<1> QED
  BY <1>2, <1>3, <1>4, <1>5

LEMMA DecideStep ==
    ASSUME Inv, TypeOK', NEW r \in Requests, Decide(r)
    PROVE  Inv'
<1>1. run' = run /\ sent' = sent /\ drafts' = drafts
  BY DEF Decide
<1>2. \A m \in Rows : status'[m] # status[m] =>
         /\ status[m] \in Present
         /\ status'[m] \in {"participating", "skipped", "deleted"}
         /\ status'[m] = "participating" => drafts[m] > 0
  BY WrittenValue
<1>3. \A m \in Rows : status[m] # "none" <=> status'[m] # "none"
  BY <1>2 DEF Present, Decided
<1>4. \A q \in Requests : req'[q].pc # "idle" => q # r /\ req'[q] = req[q]
  BY DEF Decide, NoRequest, Inv, TypeOK
<1>5. RequestInv'
  BY <1>1, <1>4 DEF Inv, RequestInv, RequestRow, RequestDraft
<1>6. NotifiedWasSent' /\ ParticipatingHasDraft'
  BY <1>1, <1>2 DEF Inv, NotifiedWasSent, ParticipatingHasDraft
<1> QED
  BY <1>1, <1>3, <1>5, <1>6, JobsKept DEF Inv

LEMMA RequestCrashStep ==
    ASSUME Inv, TypeOK', NEW r \in Requests, RequestCrash(r)
    PROVE  Inv'
<1>1. run' = run /\ sent' = sent /\ drafts' = drafts /\ status' = status
  BY DEF RequestCrash
<1>2. \A q \in Requests : req'[q].pc # "idle" => q # r /\ req'[q] = req[q]
  BY DEF RequestCrash, NoRequest, Inv, TypeOK
<1>3. RequestInv'
  BY <1>1, <1>2 DEF Inv, RequestInv, RequestRow, RequestDraft
<1> QED
  BY <1>1, <1>3, JobsKept, RowsKept DEF Inv

LEMMA RequestStep ==
    ASSUME Inv, TypeOK', NEW r \in Requests, UserNext(r)
    PROVE  Inv'
<1>1. ASSUME NEW m \in Rows,
             \/ Participate(r, m) \/ Skip(r, m) \/ Delete(r, m)
             \/ DiscParticipate(r, m) \/ DiscSkip(r, m)
      PROVE  Inv'
  BY <1>1, ReceiveStep DEF Participate, Skip, Delete, DiscParticipate, DiscSkip
<1> QED
  BY <1>1, DraftStep, DecideStep, RequestCrashStep DEF UserNext

\* One step of one job.
LEMMA JobStep ==
    ASSUME Inv, TypeOK', NEW j \in Runs, MatchStep(j)
    PROVE  Inv'
BY SkipStep, InsertStep, SendStep, SendFailsStep, LoadStep, MarkStep, FaultStep
   DEF MatchStep

LEMMA InvStep ==
    ASSUME Inv, [Next]_vars
    PROVE  Inv'
<1>1. TypeOK'
  BY TypeStep DEF Inv
<1>2. ASSUME NEW p \in Pairs, WindowMoves(p) PROVE Inv'
  BY <1>1, <1>2, JobOnlyStep DEF WindowMoves
<1>3. CASE UNCHANGED vars
  BY <1>1, <1>3, JobOnlyStep DEF vars
<1> QED
  BY <1>1, <1>2, <1>3, PollStep, JobStep, FaultStep, RequestStep DEF Next

LEMMA InvInit == Init => Inv
<1> SUFFICES ASSUME Init PROVE Inv
  OBVIOUS
<1>1. TypeOK
  BY NoRunType, NoRequestType DEF Init, TypeOK, States
<1>2. AnnounceInv
  BY DEF Init, NoRun, AnnounceInv, OwnRow, Unsent, Accepted, OneAnnouncer, Announce
<1>3. RequestInv
  BY DEF Init, NoRequest, RequestInv, RequestRow, RequestDraft
<1>4. NewIsUnsent /\ AnnouncedOnce /\ NotifiedWasSent /\ ParticipatingHasDraft
  BY DEF Init, NewIsUnsent, AnnouncedOnce, NotifiedWasSent, ParticipatingHasDraft
<1> QED
  BY <1>1, <1>2, <1>3, <1>4 DEF Inv

LEMMA InvAlways == Spec => []Inv
BY InvInit, InvStep, PTL DEF Spec
-----------------------------------------------------------------------------
\* However many jobs overlap, fail or run again, the user gets at most one
\* message about a row of tender_matches.
THEOREM AnnouncedOnceSafe == Spec => []AnnouncedOnce
<1>1. Inv => AnnouncedOnce
  BY DEF Inv
<1> QED
  BY <1>1, InvAlways, PTL

\* A row that says "notified" had its message accepted by Telegram.
THEOREM NotifiedSafe == Spec => []NotifiedWasSent
<1>1. Inv => NotifiedWasSent
  BY DEF Inv
<1> QED
  BY <1>1, InvAlways, PTL

\* A match the user takes part in has a draft, whatever dies in between.
THEOREM DraftSafe == Spec => []ParticipatingHasDraft
<1>1. Inv => ParticipatingHasDraft
  BY DEF Inv
<1> QED
  BY <1>1, InvAlways, PTL

\* After its announcement only the user changes a decided row.
LEMMA DecisionStep ==
    ASSUME Inv, [Next]_vars, NEW m \in Rows, status[m] \in Decided, ~Announcing(m)
    PROVE  status'[m] \in Decided \cup {"deleted"}
<1>1. CASE status'[m] = status[m]
  BY <1>1
<1>2. ASSUME NEW j \in Runs, NEW p \in Pairs, NEW n \in 1..MaxRows, InsertMatch(j, p, n)
      PROVE  status'[m] = status[m]
  <2>1. status[<<p, n>>] = "none" /\ m # <<p, n>>
    BY <1>2 DEF InsertMatch, Fresh, Decided
  <2> QED
    BY <1>2, <2>1 DEF InsertMatch, Inv, TypeOK
<1>3. ASSUME NEW j \in Runs, MarkNotified(j) PROVE status'[m] = status[m]
  <2>1. run[j].row # m
    BY <1>3 DEF MarkNotified, Announcing
  <2> QED
    BY <1>3, <2>1 DEF MarkNotified, Inv, TypeOK
<1>4. ASSUME NEW r \in Requests, Decide(r)
      PROVE  status'[m] \in Decided \cup {"deleted"}
  BY <1>1, <1>4, WrittenValue DEF Decided
<1>5. ASSUME NEW j \in Runs, Poll(j) \/ MatchStep(j) \/ RunFault(j)
      PROVE  status'[m] = status[m]
  BY <1>2, <1>3, <1>5 DEF Poll, MatchStep, RunFault, RunFails, RunCrash,
     SkipDuplicate, SendNotification, SendFails, LoadMatch, MarkDeleted
<1>6. ASSUME NEW r \in Requests, UserNext(r)
      PROVE  status'[m] \in Decided \cup {"deleted"}
  BY <1>1, <1>4, <1>6 DEF UserNext, Participate, Skip, Delete, DiscParticipate,
     DiscSkip, Receive, CreateDraft, RequestCrash
<1>7. ASSUME NEW p \in Pairs, WindowMoves(p) PROVE status'[m] = status[m]
  BY <1>7 DEF WindowMoves
<1> QED
  BY <1>1, <1>5, <1>6, <1>7 DEF Next, vars

\* No job undoes a decision once the job that announces the row has left it.
THEOREM DecisionSafe == Spec => DecisionSticks
<1>1. Inv /\ [Next]_vars =>
         [\A m \in Rows : status[m] \in Decided /\ ~Announcing(m)
                              => status'[m] \in Decided \cup {"deleted"}]_vars
  BY DecisionStep
<1> QED
  BY <1>1, InvAlways, PTL DEF Spec, DecisionSticks
-----------------------------------------------------------------------------
\* A step changes one row at most: a new one, or one that is present.
LEMMA StatusWriters ==
    ASSUME Inv, [Next]_vars
    PROVE  \/ status' = status
           \/ \E j \in Runs, p \in Pairs, n \in 1..MaxRows : InsertMatch(j, p, n)
           \/ \E m \in Rows : /\ status[m] \in Present /\ status'[m] # "none"
                              /\ \A k \in Rows \ {m} : status'[k] = status[k]
<1>1. ASSUME NEW j \in Runs, MarkNotified(j)
      PROVE  \E m \in Rows : /\ status[m] \in Present /\ status'[m] # "none"
                             /\ \A k \in Rows \ {m} : status'[k] = status[k]
  <2>1. run[j].row \in Rows
    BY <1>1 DEF MarkNotified, Inv, AnnounceInv, OwnRow, Announce
  <2>2. /\ status[run[j].row] \in Present
        /\ status' = [status EXCEPT ![run[j].row] = "notified"]
    BY <1>1 DEF MarkNotified
  <2> QED
    BY <2>1, <2>2 DEF Inv, TypeOK
<1>2. ASSUME NEW r \in Requests, Decide(r)
      PROVE  \/ status' = status
             \/ \E m \in Rows : /\ status[m] \in Present /\ status'[m] # "none"
                                /\ \A k \in Rows \ {m} : status'[k] = status[k]
  <2>1. req[r].pc # "idle"
    BY <1>2 DEF Decide
  <2>2. req[r].row \in Rows /\ req[r].kind # "none"
    BY <2>1 DEF Inv, RequestInv, RequestRow
  <2>3. \/ status' = status
        \/ /\ status[req[r].row] \in Present
           /\ status' = [status EXCEPT ![req[r].row] = req[r].kind]
    BY <1>2 DEF Decide, Written
  <2> QED
    BY <2>2, <2>3 DEF Inv, TypeOK
<1>3. ASSUME NEW j \in Runs, MatchStep(j)
      PROVE  \/ status' = status \/ MarkNotified(j)
             \/ \E p \in Pairs, n \in 1..MaxRows : InsertMatch(j, p, n)
  BY <1>3 DEF MatchStep, SkipDuplicate, SendNotification, SendFails, LoadMatch, MarkDeleted
<1>4. ASSUME NEW r \in Requests, UserNext(r) PROVE status' = status \/ Decide(r)
  BY <1>4 DEF UserNext, Participate, Skip, Delete, DiscParticipate, DiscSkip, Receive,
     CreateDraft, RequestCrash
<1>5. CASE \/ UNCHANGED vars \/ \E p \in Pairs : WindowMoves(p)
           \/ \E j \in Runs : Poll(j) \/ RunFault(j)
  BY <1>5 DEF vars, WindowMoves, Poll, RunFault, RunFails, RunCrash
<1> QED
  BY <1>1, <1>2, <1>3, <1>4, <1>5 DEF Next

\* No row becomes one that was never inserted.
LEMMA RowsStay ==
    ASSUME Inv, [Next]_vars, NEW m \in Rows, status[m] # "none"
    PROVE  status'[m] # "none"
<1>1. ASSUME NEW j \in Runs, NEW p \in Pairs, NEW n \in 1..MaxRows, InsertMatch(j, p, n)
      PROVE  status'[m] # "none"
  <2>1. <<p, n>> \in Rows /\ status' = [status EXCEPT ![<<p, n>>] = "matched"]
    BY <1>1 DEF InsertMatch, Rows
  <2> QED
    BY <2>1 DEF Inv, TypeOK
<1> QED
  BY <1>1, StatusWriters

\* A pair has one row at a time: those before it are deleted, and stay so whatever jobs
\* and buttons of theirs are still under way.
THEOREM EarlierSafe == Spec => []EarlierRowsAreGone
<1>1. Init => EarlierRowsAreGone
  BY DEF Init, EarlierRowsAreGone, Rows
<1>2. Inv /\ EarlierRowsAreGone /\ [Next]_vars => EarlierRowsAreGone'
  <2> SUFFICES ASSUME Inv, EarlierRowsAreGone, [Next]_vars, NEW q \in Pairs, NEW k \in 1..MaxRows,
                      status'[<<q, k>>] # "none", NEW i \in 1..(k - 1)
               PROVE  status'[<<q, i>>] = "deleted"
    BY DEF EarlierRowsAreGone
  <2>1. /\ <<q, k>> \in Rows /\ <<q, i>> \in Rows /\ i \in 1..MaxRows
        /\ i # k /\ <<q, i>> # <<q, k>>
    BY BoundAssumption DEF Rows
  <2>2. status[<<q, k>>] # "none" => status[<<q, i>>] = "deleted"
    BY DEF EarlierRowsAreGone
  <2>3. ASSUME NEW j \in Runs, NEW p \in Pairs, NEW n \in 1..MaxRows, InsertMatch(j, p, n)
        PROVE  status'[<<q, i>>] = "deleted"
    <3>1. /\ status[<<p, n>>] = "none" /\ ~Taken(p) /\ <<p, n>> \in Rows
          /\ \A e \in 1..(n - 1) : status[<<p, e>>] # "none"
          /\ \A m \in Rows \ {<<p, n>>} : status'[m] = status[m]
      BY <2>3 DEF InsertMatch, Fresh, Rows, Inv, TypeOK
    <3>2. CASE <<q, k>> = <<p, n>>
      <4>1. q = p /\ k = n /\ status[<<q, i>>] # "none"
        BY <3>1, <3>2
      <4>2. status[<<q, i>>] \notin Present
        BY <2>1, <3>1, <4>1 DEF Taken
      <4>3. status[<<q, i>>] \in States
        BY <2>1 DEF Inv, TypeOK
      <4> QED
        BY <2>1, <3>1, <3>2, <4>1, <4>2, <4>3 DEF States
    <3>3. CASE <<q, k>> # <<p, n>>
      <4>1. status[<<q, i>>] = "deleted"
        BY <2>1, <2>2, <3>1, <3>3
      <4> QED
        BY <2>1, <3>1, <4>1
    <3> QED
      BY <3>2, <3>3
  <2>4. ASSUME NEW m \in Rows, status[m] \in Present, \A r \in Rows \ {m} : status'[r] = status[r]
        PROVE  status'[<<q, i>>] = "deleted"
    <3>1. status[m] # "none" /\ status[m] # "deleted"
      BY <2>4 DEF Present, Decided
    <3>2. status[<<q, k>>] # "none"
      BY <2>1, <2>4, <3>1
    <3> QED
      BY <2>1, <2>2, <2>4, <3>1, <3>2
  <2> QED
    BY <2>2, <2>3, <2>4, StatusWriters
<1> QED
  BY <1>1, <1>2, InvAlways, PTL DEF Spec
-----------------------------------------------------------------------------
\* A job under way has pairs to go, the one it announces among them, and has left
\* none without a row.
JobOK(j) ==
    /\ run[j].todo \subseteq run[j].ids
    /\ run[j].pc # "idle" => run[j].todo # {}
    /\ run[j].pc = "idle" => run[j].ids = {}
    /\ run[j].pc \in Announce => run[j].row[1] \in run[j].todo
    /\ \A p \in run[j].ids \ run[j].todo : status[<<p, 1>>] # "none"

\* A pair whose row is inserted has had its first.
LEMMA FirstRow ==
    ASSUME EarlierRowsAreGone, NEW m \in Rows, status[m] # "none"
    PROVE  status[<<m[1], 1>>] # "none"
<1>1. m[1] \in Pairs /\ m[2] \in 1..MaxRows /\ m = <<m[1], m[2]>>
  BY RowParts
<1>2. CASE m[2] = 1
  BY <1>1, <1>2
<1>3. CASE m[2] # 1
  <2>1. 1 \in 1..(m[2] - 1)
    BY <1>1, <1>3, BoundAssumption
  <2>2. status[<<m[1], 1>>] = "deleted"
    BY <1>1, <2>1 DEF EarlierRowsAreGone
  <2> QED
    BY <2>2
<1> QED
  BY <1>2, <1>3

\* The job goes on to the next pair, or ends: it has less to go.
LEMMA ContinueFacts ==
    ASSUME TypeOK, NEW j \in Runs, JobOK(j), NEW p \in run[j].todo, Continue(j, p),
           \A q \in (run[j].ids \ run[j].todo) \cup {p} : status'[<<q, 1>>] # "none"
    PROVE  /\ JobOK(j)' /\ run'[j].todo \subseteq run[j].todo /\ run'[j].todo # run[j].todo
           /\ \A i \in Runs \ {j} : run'[i] = run[i]
<1>1. CASE run[j].todo \ {p} = {}
  <2>1. run'[j] = NoRun /\ \A i \in Runs \ {j} : run'[i] = run[i]
    BY <1>1 DEF Continue, TypeOK
  <2> QED
    BY <2>1 DEF NoRun, JobOK, Announce
<1>2. CASE run[j].todo \ {p} # {}
  <2>1. /\ run'[j].pc = "next" /\ run'[j].ids = run[j].ids /\ run'[j].todo = run[j].todo \ {p}
        /\ \A i \in Runs \ {j} : run'[i] = run[i]
    BY <1>2 DEF Continue, TypeOK
  <2> QED
    BY <1>2, <2>1 DEF JobOK, Announce
<1> QED
  BY <1>1, <1>2

\* A step of a job: it stays one that has left no pair behind, and gets nearer to its end.
LEMMA MatchStepFacts ==
    ASSUME Inv, EarlierRowsAreGone, EarlierRowsAreGone', NEW j \in Runs, JobOK(j), MatchStep(j)
    PROVE  /\ JobOK(j)' /\ \A i \in Runs \ {j} : run'[i] = run[i]
           /\ \/ run'[j].todo \subseteq run[j].todo /\ run'[j].todo # run[j].todo
              \/ run'[j].todo = run[j].todo /\ Stage[run'[j].pc] < Stage[run[j].pc]
<1> TypeOK /\ run[j] \in RunStates
  BY DEF Inv, TypeOK
<1>1. \A m \in Rows : status[m] # "none" => status'[m] # "none"
  BY RowsStay DEF Next
<1>2. \A q \in run[j].ids : <<q, 1>> \in Rows
  BY BoundAssumption DEF RunStates, Rows
<1>3. \A q \in run[j].ids \ run[j].todo : status'[<<q, 1>>] # "none"
  BY <1>1, <1>2 DEF JobOK
\* The job leaves the pair it is at.
<1>4. ASSUME NEW p \in run[j].todo, Continue(j, p), status'[<<p, 1>>] # "none"
      PROVE  /\ JobOK(j)' /\ \A i \in Runs \ {j} : run'[i] = run[i]
             /\ run'[j].todo \subseteq run[j].todo /\ run'[j].todo # run[j].todo
  BY <1>3, <1>4, ContinueFacts
\* ... which it has announced, or given up to announce.
<1>5. ASSUME run[j].pc \in Announce, Continue(j, run[j].row[1])
      PROVE  /\ JobOK(j)' /\ \A i \in Runs \ {j} : run'[i] = run[i]
             /\ run'[j].todo \subseteq run[j].todo /\ run'[j].todo # run[j].todo
  <2>1. /\ run[j].row[1] \in run[j].todo /\ run[j].row \in Rows /\ status[run[j].row] # "none"
    BY <1>5 DEF JobOK, Inv, AnnounceInv, OwnRow
  <2>2. status[<<run[j].row[1], 1>>] # "none"
    BY <2>1, FirstRow
  <2>3. run[j].row[1] \in run[j].ids
    BY <2>1 DEF JobOK
  <2>4. status'[<<run[j].row[1], 1>>] # "none"
    BY <1>1, <1>2, <2>2, <2>3
  <2> QED
    BY <1>4, <1>5, <2>1, <2>4
<1>6. ASSUME NEW p \in Pairs, SkipDuplicate(j, p)
      PROVE  /\ JobOK(j)' /\ \A i \in Runs \ {j} : run'[i] = run[i]
             /\ run'[j].todo \subseteq run[j].todo /\ run'[j].todo # run[j].todo
  <2>1. p \in run[j].todo /\ Continue(j, p) /\ UNCHANGED status /\ Taken(p)
    BY <1>6 DEF SkipDuplicate
  <2>2. PICK n \in 1..MaxRows : status[<<p, n>>] \in Present
    BY <2>1 DEF Taken
  <2>3. <<p, n>> \in Rows /\ status[<<p, n>>] # "none" /\ <<p, n>>[1] = p
    BY <2>2 DEF Rows, Present, Decided
  <2>4. status[<<p, 1>>] # "none"
    BY <2>3, FirstRow
  <2> QED
    BY <1>4, <2>1, <2>4
<1>7. ASSUME NEW p \in Pairs, NEW n \in 1..MaxRows, InsertMatch(j, p, n)
      PROVE  /\ JobOK(j)' /\ \A i \in Runs \ {j} : run'[i] = run[i]
             /\ \/ run'[j].todo \subseteq run[j].todo /\ run'[j].todo # run[j].todo
                \/ run'[j].todo = run[j].todo /\ Stage[run'[j].pc] < Stage[run[j].pc]
  <2>1. /\ run[j].pc = "next" /\ p \in run[j].todo /\ <<p, n>> \in Rows
        /\ status' = [status EXCEPT ![<<p, n>>] = "matched"]
    BY <1>7 DEF InsertMatch, Rows
  <2>2. CASE p \in Linked
    <3>1. run' = [run EXCEPT ![j].pc = "send", ![j].row = <<p, n>>]
      BY <1>7, <2>2 DEF InsertMatch
    <3>2. /\ run'[j].pc = "send" /\ run'[j].row = <<p, n>>
          /\ run'[j].ids = run[j].ids /\ run'[j].todo = run[j].todo
          /\ \A i \in Runs \ {j} : run'[i] = run[i]
      BY <3>1 DEF TypeOK, RunStates
    <3>3. JobOK(j)'
      BY <1>3, <2>1, <3>2 DEF JobOK, Announce
    <3>4. Stage["send"] < Stage["next"]
      BY DEF Stage
    <3> QED
      BY <2>1, <3>2, <3>3, <3>4
  <2>3. CASE p \notin Linked
    <3>1. Continue(j, p)
      BY <1>7, <2>3 DEF InsertMatch
    <3>2. status'[<<p, n>>] # "none" /\ <<p, n>>[1] = p
      BY <2>1 DEF TypeOK
    <3>3. status'[<<p, 1>>] # "none"
      <4>1. CASE n = 1
        BY <3>2, <4>1
      <4>2. CASE n # 1
        <5>1. 1 \in 1..(n - 1)
          BY <4>2, BoundAssumption
        <5>2. status'[<<p, 1>>] = "deleted"
          BY <3>2, <5>1 DEF EarlierRowsAreGone
        <5> QED
          BY <5>2
      <4> QED
        BY <4>1, <4>2
    <3> QED
      BY <1>4, <2>1, <3>1, <3>3
  <2> QED
    BY <2>2, <2>3
\* On with the pair it is at.
<1>8. ASSUME NEW c \in Announce, run[j].pc \in Announce, Stage[c] < Stage[run[j].pc],
             run' = [run EXCEPT ![j].pc = c]
      PROVE  /\ JobOK(j)' /\ \A i \in Runs \ {j} : run'[i] = run[i]
             /\ run'[j].todo = run[j].todo /\ Stage[run'[j].pc] < Stage[run[j].pc]
  <2>1. /\ run'[j].pc = c /\ run'[j].row = run[j].row
        /\ run'[j].ids = run[j].ids /\ run'[j].todo = run[j].todo
        /\ \A i \in Runs \ {j} : run'[i] = run[i]
    BY <1>8 DEF TypeOK, RunStates
  <2> QED
    BY <1>3, <1>8, <2>1 DEF JobOK, Announce
<1>9. Stage["load"] < Stage["send"] /\ Stage["mark"] < Stage["load"]
  BY DEF Stage
<1>10. CASE SendNotification(j)
  BY <1>8, <1>9, <1>10 DEF SendNotification, Announce
<1>11. CASE LoadMatch(j)
  BY <1>5, <1>8, <1>9, <1>11 DEF LoadMatch, Announce
<1>12. CASE SendFails(j) \/ MarkNotified(j)
  BY <1>5, <1>12 DEF SendFails, MarkNotified, Announce
<1>13. CASE MarkDeleted(j)
  <2>1. run'[j] = NoRun /\ \A i \in Runs \ {j} : run'[i] = run[i]
    BY <1>13 DEF MarkDeleted, TypeOK
  <2>2. run[j].row[1] \in run[j].todo
    BY <1>13 DEF MarkDeleted, JobOK, Announce
  <2> QED
    BY <2>1, <2>2 DEF NoRun, JobOK, Announce
<1> QED
  BY <1>6, <1>7, <1>10, <1>11, <1>12, <1>13 DEF MatchStep

\* What a step leaves of the other jobs.
LEMMA JobKept ==
    ASSUME Inv, [Next]_vars, NEW j \in Runs, JobOK(j), run'[j] = run[j]
    PROVE  JobOK(j)'
<1>1. \A q \in run[j].ids : <<q, 1>> \in Rows
  BY BoundAssumption DEF Inv, TypeOK, RunStates, Rows
<1>2. \A q \in run[j].ids \ run[j].todo : status'[<<q, 1>>] # "none"
  BY <1>1, RowsStay DEF JobOK
<1> QED
  BY <1>2 DEF JobOK

JobsInv == \A j \in Runs : JobOK(j)

LEMMA JobsInvariant == Spec => []JobsInv
<1>1. Init => JobsInv
  BY DEF Init, JobsInv, JobOK, NoRun, Announce
<1>2. Inv /\ EarlierRowsAreGone /\ EarlierRowsAreGone' /\ JobsInv /\ [Next]_vars => JobsInv'
  <2> SUFFICES ASSUME Inv, EarlierRowsAreGone, EarlierRowsAreGone', JobsInv, [Next]_vars,
                      NEW j \in Runs
               PROVE  JobOK(j)'
    BY DEF JobsInv
  <2>0. JobOK(j)
    BY DEF JobsInv
  <2>1. CASE run'[j] = run[j]
    BY <2>0, <2>1, JobKept
  <2>2. ASSUME NEW i \in Runs, MatchStep(i) PROVE JobOK(j)'
    <3>1. i = j \/ run'[j] = run[j]
      BY <2>2, MatchStepFacts DEF JobsInv
    <3> QED
      BY <2>0, <2>1, <2>2, <3>1, MatchStepFacts
  <2>3. ASSUME NEW i \in Runs, Poll(i) PROVE JobOK(j)'
    <3>1. CASE i = j
      <4>1. /\ run'[j].pc = "next" /\ run'[j].ids = window /\ run'[j].todo = window
            /\ window # {}
        BY <2>3, <3>1 DEF Poll, Inv, TypeOK
      <4> QED
        BY <4>1 DEF JobOK, Announce
    <3>2. CASE i # j
      BY <2>1, <2>3, <3>2 DEF Poll, Inv, TypeOK
    <3> QED
      BY <3>1, <3>2
  <2>4. ASSUME NEW i \in Runs, RunFault(i) PROVE JobOK(j)'
    <3>1. CASE i # j
      BY <2>1, <2>4, <3>1 DEF RunFault, RunFails, RunCrash, Inv, TypeOK
    <3>2. CASE i = j /\ run'[j] = NoRun
      BY <3>2 DEF NoRun, JobOK, Announce
    <3>3. CASE i = j /\ RunCrash(j)
      <4>1. /\ run'[j].pc = "next" /\ run'[j].ids = run[j].ids /\ run'[j].todo = run[j].ids
            /\ run[j].pc # "idle"
        BY <3>3 DEF RunCrash, Inv, TypeOK
      <4> QED
        BY <2>0, <4>1 DEF JobOK, Announce
    <3> QED
      BY <2>4, <3>1, <3>2, <3>3 DEF RunFault, RunFails, Inv, TypeOK
  <2>5. CASE \/ UNCHANGED vars \/ (\E p \in Pairs : WindowMoves(p))
             \/ \E r \in Requests : UserNext(r)
    BY <2>1, <2>5 DEF vars, WindowMoves, UserNext, Participate, Skip, Delete, DiscParticipate,
       DiscSkip, Receive, CreateDraft, Decide, RequestCrash
  <2> QED
    BY <2>2, <2>3, <2>4, <2>5 DEF Next
<1> QED
  BY <1>1, <1>2, InvAlways, EarlierSafe, PTL DEF Spec

\* A job that has gone past a pair leaves it with a row, or with one that the user has
\* deleted: duplicates, failing messages and rows deleted under it pass nobody over.
THEOREM PassedSafe == Spec => []PassedHaveRows
<1>1. JobsInv => PassedHaveRows
  BY DEF JobsInv, JobOK, PassedHaveRows
<1> QED
  BY <1>1, JobsInvariant, PTL

\* A job only gets nearer to its end, unless the worker crashes: the variant of
\* EveryPairIsMatched.
THEOREM GoOnSafe == Spec => JobsGoOn
<1>1. ASSUME Inv, EarlierRowsAreGone, EarlierRowsAreGone', JobsInv, [Next]_vars, NEW j \in Runs,
             run[j] \notin {NoRun, run'[j]}, faults' = faults
      PROVE  \/ run'[j].todo \subseteq run[j].todo /\ run'[j].todo # run[j].todo
             \/ run'[j].todo = run[j].todo /\ Stage[run'[j].pc] < Stage[run[j].pc]
  <2>1. ASSUME NEW i \in Runs, MatchStep(i)
        PROVE  \/ run'[j].todo \subseteq run[j].todo /\ run'[j].todo # run[j].todo
               \/ run'[j].todo = run[j].todo /\ Stage[run'[j].pc] < Stage[run[j].pc]
    <3>1. i = j
      BY <1>1, <2>1, MatchStepFacts DEF JobsInv
    <3> QED
      BY <1>1, <2>1, <3>1, MatchStepFacts DEF JobsInv
  <2>2. ASSUME NEW i \in Runs, Poll(i) PROVE FALSE
    BY <1>1, <2>2 DEF Poll, Inv, TypeOK
  <2>3. ASSUME NEW i \in Runs, RunFault(i) PROVE FALSE
    BY <1>1, <2>3 DEF RunFault, RunFails, RunCrash, Inv, TypeOK
  <2>4. ASSUME \/ UNCHANGED vars \/ (\E p \in Pairs : WindowMoves(p))
               \/ \E r \in Requests : UserNext(r)
        PROVE  FALSE
    BY <1>1, <2>4 DEF vars, WindowMoves, UserNext, Participate, Skip, Delete, DiscParticipate,
       DiscSkip, Receive, CreateDraft, Decide, RequestCrash
  <2> QED
    BY <1>1, <2>1, <2>2, <2>3, <2>4 DEF Next
<1>2. Inv /\ EarlierRowsAreGone /\ EarlierRowsAreGone' /\ JobsInv /\ [Next]_vars =>
        [\A j \in Runs : run[j] \notin {NoRun, run'[j]} /\ faults' = faults =>
          \/ run'[j].todo \subseteq run[j].todo /\ run'[j].todo # run[j].todo
          \/ run'[j].todo = run[j].todo /\ Stage[run'[j].pc] < Stage[run[j].pc]]_vars
  BY <1>1
<1> QED
  BY <1>2, InvAlways, EarlierSafe, JobsInvariant, PTL DEF Spec, JobsGoOn
=============================================================================
