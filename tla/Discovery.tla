----------------------------- MODULE Discovery -----------------------------
(***************************************************************************)
(* Discovery matches: the jobs run_matching insert and announce them, the  *)
(* user decides on the web page (routers/discovery.py) or with the buttons *)
(* of the Telegram message (routers/telegram_webhook.py).                  *)
(*                                                                         *)
(* Jobs and requests share the rows of tender_matches; each reads a row,   *)
(* awaits something, and writes the row.  Participation also inserts a     *)
(* draft into applications, in a transaction of its own.                   *)
(***************************************************************************)
EXTENDS Naturals

CONSTANTS
    Pairs,       \* pairs of a user and a tender that passes the user's filter
    Linked,      \* those whose user has a telegram_chat_id
    NoPair,
    Runs,        \* jobs run_matching that may be under way at once
    Requests,    \* decisions that may be under way at once
    MaxRows,     \* bound: rows inserted per pair, one after the other
    MaxPresses,  \* bound: decisions in all
    MaxFaults    \* bound: crashes and failing database calls in all

ASSUME PairAssumption == Linked \subseteq Pairs /\ NoPair \notin Pairs
ASSUME BoundAssumption ==
    /\ MaxRows \in Nat \ {0} /\ MaxPresses \in Nat /\ MaxFaults \in Nat

\* A row is the n-th of its pair; its id is in the buttons of its message.
Rows == Pairs \X (1..MaxRows)
NoRow == <<NoPair, 0>>

VARIABLES
    window,   \* the pairs whose tender the next poll upserts
    status,   \* tender_matches.status; "none": not inserted yet; "deleted"
    sent,     \* messages with the two buttons that reached the user, per row
    drafts,   \* applications created from the row
    run,      \* the jobs run_matching
    req,      \* the requests with a decision
    presses, faults  \* what has been used of the bounds

vars == <<window, status, sent, drafts, run, req, presses, faults>>

Decided == {"participating", "skipped"}
Present == {"matched", "notified"} \cup Decided
States == {"none", "deleted"} \cup Present

\* "next": at the loops over filters and matching ids, "send": the row has been
\* committed, "load": the message was accepted, "mark": the row has been read.
NoRun == [pc |-> "idle", ids |-> {}, todo |-> {}, row |-> NoRow]
NoRequest == [pc |-> "idle", kind |-> "none", row |-> NoRow, loaded |-> "none"]

RunStates == [pc : {"idle", "next", "send", "load", "mark"},
              ids : SUBSET Pairs, todo : SUBSET Pairs, row : Rows \cup {NoRow}]
RequestStates == [pc : {"idle", "loaded", "drafted"},
                  kind : {"none", "participating", "skipped", "deleted"},
                  row : Rows \cup {NoRow}, loaded : States]

TypeOK ==
    /\ window \subseteq Pairs
    /\ status \in [Rows -> States]
    /\ sent \in [Rows -> Nat]
    /\ drafts \in [Rows -> Nat]
    /\ run \in [Runs -> RunStates]
    /\ req \in [Requests -> RequestStates]
    /\ presses \in Nat /\ faults \in Nat

Init ==
    /\ window = {}
    /\ status = [m \in Rows |-> "none"]
    /\ sent = [m \in Rows |-> 0]
    /\ drafts = [m \in Rows |-> 0]
    /\ run = [j \in Runs |-> NoRun]
    /\ req = [r \in Requests |-> NoRequest]
    /\ presses = 0 /\ faults = 0

\* UNIQUE (user_id, tender_id): a pair has at most one row.
Taken(p) == \E n \in 1..MaxRows : status[<<p, n>>] \in Present

boundVars == <<presses, faults>>
-----------------------------------------------------------------------------
(* The polls and the jobs they enqueue.                                    *)

\* A tender appears or changes, a filter is edited, seven days pass.
WindowMoves(p) ==
    /\ window' = IF p \in window THEN window \ {p} ELSE window \cup {p}
    /\ UNCHANGED <<status, sent, drafts, run, req, boundVars>>

\* A poll upserts its page and enqueues run_matching, without a job id.
Poll(j) ==
    /\ run[j] = NoRun
    /\ window # {}
    /\ run' = [run EXCEPT ![j] = [pc |-> "next", ids |-> window, todo |-> window,
                                  row |-> NoRow]]
    /\ UNCHANGED <<window, status, sent, drafts, req, boundVars>>

\* The next pair of the loops, or the end of the job.
Continue(j, p) ==
    LET left == run[j].todo \ {p}
    IN  run' = [run EXCEPT ![j] =
                  IF left = {} THEN NoRun
                  ELSE [pc |-> "next", ids |-> run[j].ids, todo |-> left,
                        row |-> NoRow]]

\* Rows are inserted one after the other.
Fresh(p, n) ==
    /\ status[<<p, n>>] = "none"
    /\ \A i \in 1..(n - 1) : status[<<p, i>>] # "none"

\* INSERT ... ON CONFLICT DO NOTHING returns the id of a new row; a user
\* without a chat gets no message.
InsertMatch(j, p, n) ==
    /\ run[j].pc = "next" /\ p \in run[j].todo
    /\ ~Taken(p) /\ Fresh(p, n)
    /\ status' = [status EXCEPT ![<<p, n>>] = "matched"]
    /\ IF p \in Linked
       THEN run' = [run EXCEPT ![j].pc = "send", ![j].row = <<p, n>>]
       ELSE Continue(j, p)
    /\ UNCHANGED <<window, sent, drafts, req, boundVars>>

\* Mutant of SkipDuplicate: ON CONFLICT DO UPDATE, which returns the id of the
\* row that exists and sets it back.
ResetDuplicate(j, p) ==
    /\ run[j].pc = "next" /\ p \in run[j].todo
    /\ \E n \in 1..MaxRows :
          /\ status[<<p, n>>] \in Present
          /\ status' = [status EXCEPT ![<<p, n>>] = "matched"]
    /\ Continue(j, p)
    /\ UNCHANGED <<window, sent, drafts, req, boundVars>>

\* Mutant of SkipDuplicate: the row that exists is announced.
AnnounceDuplicate(j, p) ==
    /\ run[j].pc = "next" /\ p \in run[j].todo
    /\ \E n \in 1..MaxRows :
          /\ status[<<p, n>>] \in Present
          /\ run' = [run EXCEPT ![j].pc = "send", ![j].row = <<p, n>>]
    /\ UNCHANGED <<window, status, sent, drafts, req, boundVars>>

\* Mutant of SkipDuplicate: return in place of continue.
ReturnOnDuplicate(j, p) ==
    /\ run[j].pc = "next" /\ p \in run[j].todo
    /\ Taken(p)
    /\ run' = [run EXCEPT ![j] = NoRun]
    /\ UNCHANGED <<window, status, sent, drafts, req, boundVars>>

\* The pair has a row already: dedup guard.
SkipDuplicate(j, p) ==
    /\ run[j].pc = "next" /\ p \in run[j].todo
    /\ Taken(p)
    /\ Continue(j, p)
    /\ UNCHANGED <<window, status, sent, drafts, req, boundVars>>

\* send_discovery_notification.
SendNotification(j) ==
    /\ run[j].pc = "send"
    /\ sent' = [sent EXCEPT ![run[j].row] = @ + 1]
    /\ run' = [run EXCEPT ![j].pc = "load"]
    /\ UNCHANGED <<window, status, drafts, req, boundVars>>

\* Mutant of SendFails: the status is written whether or not the call raised.
SendFailsUnnoticed(j) ==
    /\ run[j].pc = "send"
    /\ run' = [run EXCEPT ![j].pc = "load"]
    /\ UNCHANGED <<window, status, sent, drafts, req, boundVars>>

\* ... it raises, before or after Telegram delivered the message: swallowed.
SendFails(j) ==
    /\ run[j].pc = "send"
    /\ sent' = sent \/ sent' = [sent EXCEPT ![run[j].row] = @ + 1]
    /\ Continue(j, run[j].row[1])
    /\ UNCHANGED <<window, status, drafts, req, boundVars>>

\* session.get(TenderMatch, new_match_id); a deleted row is passed over.
LoadMatch(j) ==
    /\ run[j].pc = "load"
    /\ IF status[run[j].row] \in Present
       THEN run' = [run EXCEPT ![j].pc = "mark"]
       ELSE Continue(j, run[j].row[1])
    /\ UNCHANGED <<window, status, sent, drafts, req, boundVars>>

\* Mutant of MarkNotified: the status is misspelt.
MarkMisspelt(j) ==
    /\ run[j].pc = "mark"
    /\ status[run[j].row] \in Present
    /\ status' = [status EXCEPT ![run[j].row] = "announced"]
    /\ Continue(j, run[j].row[1])
    /\ UNCHANGED <<window, sent, drafts, req, boundVars>>

\* match.status = "notified"; commit.
MarkNotified(j) ==
    /\ run[j].pc = "mark"
    /\ status[run[j].row] \in Present
    /\ status' = [status EXCEPT ![run[j].row] = "notified"]
    /\ Continue(j, run[j].row[1])
    /\ UNCHANGED <<window, sent, drafts, req, boundVars>>

\* ... of a row deleted meanwhile: StaleDataError is swallowed, but the session
\* needs a rollback that nobody does, and its next statement ends the job.
MarkDeleted(j) ==
    /\ run[j].pc = "mark"
    /\ status[run[j].row] \notin Present
    /\ run' = [run EXCEPT ![j] = NoRun]
    /\ UNCHANGED <<window, status, sent, drafts, req, boundVars>>

\* A statement raises, or the job exceeds job_timeout: it is not retried.
RunFails(j) ==
    /\ run[j].pc # "idle"
    /\ faults < MaxFaults
    /\ faults' = faults + 1
    /\ run' = [run EXCEPT ![j] = NoRun]
    /\ UNCHANGED <<window, status, sent, drafts, req, presses>>

\* The worker dies: the job starts again with the same ids.
RunCrash(j) ==
    /\ run[j].pc # "idle"
    /\ faults < MaxFaults
    /\ faults' = faults + 1
    /\ run' = [run EXCEPT ![j] = [pc |-> "next", ids |-> run[j].ids,
                                  todo |-> run[j].ids, row |-> NoRow]]
    /\ UNCHANGED <<window, status, sent, drafts, req, presses>>
-----------------------------------------------------------------------------
(* Decisions.  A request has loaded the row when it passes its guards.     *)

Receive(r, kind, m) ==
    /\ req[r].pc = "idle"
    /\ presses < MaxPresses
    /\ presses' = presses + 1
    /\ status[m] \in Present
    /\ req' = [req EXCEPT ![r] = [pc |-> "loaded", kind |-> kind, row |-> m,
                                  loaded |-> status[m]]]
    /\ UNCHANGED <<window, status, sent, drafts, run, faults>>

\* POST /discovery/{match_id}/participate: 409 for a decided match.
Participate(r, m) == status[m] \notin Decided /\ Receive(r, "participating", m)

\* POST /discovery/{match_id}/skip: 409 only for a skipped one.
Skip(r, m) == status[m] # "skipped" /\ Receive(r, "skipped", m)

\* DELETE /discovery/{match_id}; the last row of a pair is kept, as a bound.
Delete(r, m) == m[2] < MaxRows /\ Receive(r, "deleted", m)

\* disc:participate and disc:skip: the buttons ask nothing of the status.
DiscParticipate(r, m) == sent[m] > 0 /\ Receive(r, "participating", m)
DiscSkip(r, m) == sent[m] > 0 /\ Receive(r, "skipped", m)

\* create_discovery_draft commits the draft.
CreateDraft(r) ==
    /\ req[r].pc = "loaded" /\ req[r].kind = "participating"
    /\ drafts' = [drafts EXCEPT ![req[r].row] = @ + 1]
    /\ req' = [req EXCEPT ![r].pc = "drafted"]
    /\ UNCHANGED <<window, status, sent, run, boundVars>>

\* The row as it is after an UPDATE or DELETE: only a change of the loaded value
\* is written, and a row that is gone stays so (an UPDATE then answers 500).
Written(r) ==
    IF status[req[r].row] \in Present /\ req[r].kind # req[r].loaded
    THEN [status EXCEPT ![req[r].row] = req[r].kind]
    ELSE status

\* Mutant of Decide: the status is committed before the draft, which a crash
\* may then prevent.
DecideFirst(r) ==
    /\ req[r].pc \in {"loaded", "drafted"}
    /\ status' = Written(r)
    /\ req' = [req EXCEPT ![r] = NoRequest]
    /\ UNCHANGED <<window, sent, drafts, run, boundVars>>

\* The status (or the deletion) is committed.
Decide(r) ==
    /\ req[r].pc = IF req[r].kind = "participating" THEN "drafted" ELSE "loaded"
    /\ status' = Written(r)
    /\ req' = [req EXCEPT ![r] = NoRequest]
    /\ UNCHANGED <<window, sent, drafts, run, boundVars>>

\* The API process dies inside the request.
RequestCrash(r) ==
    /\ req[r].pc # "idle"
    /\ faults < MaxFaults
    /\ faults' = faults + 1
    /\ req' = [req EXCEPT ![r] = NoRequest]
    /\ UNCHANGED <<window, status, sent, drafts, run, presses>>
-----------------------------------------------------------------------------
MatchStep(j) ==
    \/ \E p \in Pairs : SkipDuplicate(j, p) \/ \E n \in 1..MaxRows : InsertMatch(j, p, n)
    \/ SendNotification(j) \/ SendFails(j)
    \/ LoadMatch(j) \/ MarkNotified(j) \/ MarkDeleted(j)

RunFault(j) == RunFails(j) \/ RunCrash(j)

UserNext(r) ==
    \/ \E m \in Rows : \/ Participate(r, m) \/ Skip(r, m) \/ Delete(r, m)
                       \/ DiscParticipate(r, m) \/ DiscSkip(r, m)
    \/ CreateDraft(r) \/ Decide(r) \/ RequestCrash(r)

Next ==
    \/ \E p \in Pairs : WindowMoves(p)
    \/ \E j \in Runs : Poll(j) \/ MatchStep(j) \/ RunFault(j)
    \/ \E r \in Requests : UserNext(r)

Spec == Init /\ [][Next]_vars

\* The cron job polls every 15 minutes, its fetch succeeds in the end, and a job
\* goes on.
FairSpec ==
    /\ Spec
    /\ WF_vars(\E j \in Runs : Poll(j))
    /\ \A j \in Runs : WF_vars(MatchStep(j))
-----------------------------------------------------------------------------
(* Properties.                                                             *)

\* The job that inserted the row is still to write "notified".
Announcing(m) ==
    \E j \in Runs : run[j].row = m /\ run[j].pc \in {"send", "load", "mark"}

\* Once the announcement of a match is over, no job undoes the user's decision,
\* however often the tender is polled and matched again.
DecisionSticks ==
    [][\A m \in Rows : status[m] \in Decided /\ ~Announcing(m)
                           => status'[m] \in Decided \cup {"deleted"}]_vars

\* A row is announced at most once, whatever overlaps, fails or is retried
\* (the guard of ON CONFLICT DO NOTHING).
AnnouncedOnce == \A m \in Rows : sent[m] <= 1

\* "notified" is only said of a message that reached the user.
NotifiedWasSent == \A m \in Rows : status[m] = "notified" => sent[m] > 0

\* A match the user takes part in has its draft, even after a crash.
ParticipatingHasDraft ==
    \A m \in Rows : status[m] = "participating" => drafts[m] > 0

\* A tender that stays in the window gets its row, in spite of failing jobs.
EveryPairIsMatched ==
    \A p \in Pairs : p \in window ~> Taken(p) \/ p \notin window

-----------------------------------------------------------------------------
(* Proved in DiscoveryProofs.                                              *)

\* A pair has one row at most, and all its earlier ones are deleted: no button of an old
\* message and no job that still announces a deleted row brings that row back.
EarlierRowsAreGone ==
    \A p \in Pairs, n \in 1..MaxRows :
        status[<<p, n>>] # "none" => \A i \in 1..(n - 1) : status[<<p, i>>] = "deleted"

\* A job leaves no pair behind that has had no row, whatever other jobs insert and the
\* user deletes meanwhile.
PassedHaveRows ==
    \A j \in Runs : \A p \in run[j].ids \ run[j].todo : status[<<p, 1>>] # "none"

\* The stages of a pair in the loops of run_matching.
Stage == [idle |-> 0, mark |-> 1, load |-> 2, send |-> 3, next |-> 4]

\* But for crashes a job only gets nearer to its end: it has fewer pairs to go, or gets
\* on with the one it is at.
JobsGoOn ==
    [][\A j \in Runs : run[j] \notin {NoRun, run'[j]} /\ faults' = faults =>
          \/ run'[j].todo \subseteq run[j].todo /\ run'[j].todo # run[j].todo
          \/ run'[j].todo = run[j].todo /\ Stage[run'[j].pc] < Stage[run[j].pc]]_vars
-----------------------------------------------------------------------------
(* What comments say and the code does not do.                             *)

\* tender_match.py: "matched -> notified -> (skipped | participating)".
DecidedIsFinal ==
    [][\A m \in Rows : status[m] \in Decided => status'[m] # "notified"]_vars

\* delete_match: "Permanently remove a discovery match from the user's feed".
DeletedStaysAway ==
    \A p \in Pairs : (\E n \in 1..MaxRows : status[<<p, n>>] = "deleted") => ~Taken(p)
=============================================================================
