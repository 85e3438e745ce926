-------------------------- MODULE SubmissionProofs --------------------------
(***************************************************************************)
(* Theorems about Submission, for every set of applications and users and  *)
(* every value of the limits.                                              *)
(***************************************************************************)
EXTENDS Submission, TLAPS

PcNames == {"off", "confirm", "load", "cancel", "session", "call", "ok",
            "refused", "failed", "return"}
Answers == {"none", "pending", "yes", "no", "b'pending'", "b'yes'", "b'no'"}
Ids == PortalApps \cup {NoApp}
StateNames == {"none", "deferred", "queued", "running", "kept"}
StepNames == {"idle", "loggedIn", "created", "drafted", "readyLoaded",
              "readyCommitted"}
-----------------------------------------------------------------------------
(* Updates of one or two fields of a record keep its type.                 *)

LEMMA WizardStep ==
    ASSUME NEW w \in [Apps -> Wizards], NEW a \in Apps, NEW s \in StepNames
    PROVE  [w EXCEPT ![a].step = s] \in [Apps -> Wizards]
BY DEF Wizards, StepNames

LEMMA RunPc ==
    ASSUME NEW r \in [Apps -> Runs], NEW a \in Apps, NEW p \in PcNames
    PROVE  [r EXCEPT ![a].pc = p] \in [Apps -> Runs]
BY DEF Runs, PcNames

LEMMA RunHeard ==
    ASSUME NEW r \in [Apps -> Runs], NEW a \in Apps, NEW p \in PcNames,
           NEW h \in Answers
    PROVE  [r EXCEPT ![a].pc = p, ![a].heard = h] \in [Apps -> Runs]
<1>1. r[a] \in Runs
  OBVIOUS
<1>2. [r[a] EXCEPT !.pc = p, !.heard = h] \in Runs
  BY <1>1 DEF Runs, PcNames, Answers
<1> QED
  BY <1>1, <1>2

LEMMA RunLoaded ==
    ASSUME NEW r \in [Apps -> Runs], NEW a \in Apps, NEW p \in PcNames,
           NEW l \in Statuses
    PROVE  [r EXCEPT ![a].loaded = l, ![a].pc = p] \in [Apps -> Runs]
<1>1. r[a] \in Runs
  OBVIOUS
<1>2. [r[a] EXCEPT !.loaded = l, !.pc = p] \in Runs
  BY <1>1 DEF Runs, PcNames
<1> QED
  BY <1>1, <1>2

LEMMA RunIds ==
    ASSUME NEW r \in [Apps -> Runs], NEW a \in Apps, NEW p \in PcNames,
           NEW i \in Ids
    PROVE  [r EXCEPT ![a].pc = p, ![a].ids = i] \in [Apps -> Runs]
<1>1. r[a] \in Runs
  OBVIOUS
<1>2. [r[a] EXCEPT !.pc = p, !.ids = i] \in Runs
  BY <1>1 DEF Runs, PcNames, Ids
<1> QED
  BY <1>1, <1>2

LEMMA JobState ==
    ASSUME NEW j \in [Apps -> Jobs], NEW a \in Apps, NEW s \in StateNames
    PROVE  [j EXCEPT ![a].state = s] \in [Apps -> Jobs]
BY DEF Jobs, StateNames

LEMMA JobKept ==
    ASSUME NEW j \in [Apps -> Jobs], NEW a \in Apps
    PROVE  [j EXCEPT ![a].state = "kept", ![a].held = FALSE] \in [Apps -> Jobs]
<1>1. j[a] \in Jobs
  OBVIOUS
<1>2. [j[a] EXCEPT !.state = "kept", !.held = FALSE] \in Jobs
  BY <1>1 DEF Jobs
<1> QED
  BY <1>1, <1>2

LEMMA DraftType ==
    ASSUME flows \in [Apps -> Nat], NEW a \in Apps
    PROVE  Draft(a) \in PortalApps
BY DEF Draft, PortalApps

LEMMA JobHeld ==
    ASSUME NEW j \in [Apps -> Jobs], NEW a \in Apps, NEW h \in BOOLEAN
    PROVE  [j EXCEPT ![a].held = h] \in [Apps -> Jobs]
BY DEF Jobs

LEMMA JobTry ==
    ASSUME NEW j \in [Apps -> Jobs], NEW a \in Apps, NEW s \in StateNames,
           NEW t \in 0..MaxTries
    PROVE  [j EXCEPT ![a].state = s, ![a].tries = t] \in [Apps -> Jobs]
BY DEF Jobs, StateNames
-----------------------------------------------------------------------------
\* The variables keep their types: in particular the status column only ever
\* holds the literals of the state machine, and ARQ never starts more than
\* MaxTries attempts of a job.
THEOREM TypeCorrect == Spec => []TypeOK
<1>1. Init => TypeOK
  BY NullAssumption, LimitAssumption DEF Init, TypeOK, Statuses, NoKey, NoJob, Idle, NoFlow, NoPoll,
     ConfirmKeys, Jobs, Runs, Wizards, Polls
<1>2. TypeOK /\ [Next]_vars => TypeOK'
  <2> SUFFICES ASSUME TypeOK, [Next]_vars PROVE TypeOK'
    OBVIOUS
  <2>1. CASE PollStart
    BY <2>1 DEF TypeOK, PollStart, Polls, NoPoll, appVars, boundVars, historyVars, portalVars
  <2>2. CASE PollCrash
    BY <2>2 DEF TypeOK, PollCrash, Polls, NoPoll, appVars, boundVars, historyVars, portalVars
  <2>3. ASSUME NEW u \in Users, SessionExpires(u) PROVE TypeOK'
    BY <2>3 DEF TypeOK, SessionExpires, appVars, boundVars, historyVars, portalVars
  <2>4. ASSUME NEW a \in Apps, FlowNext(a) PROVE TypeOK'
    <3>1. CASE ProxyAuthLogin(a)
      <4>1. wizard' \in [Apps -> Wizards]
        BY <3>1, WizardStep DEF TypeOK, ProxyAuthLogin, StepNames
      <4> QED
        BY <3>1, <4>1, OwnerAssumption DEF TypeOK, ProxyAuthLogin, appVars,
           boundVars, historyVars, portalVars
    <3>2. CASE ProxyCreateDraft(a)
      <4>1. wizard' \in [Apps -> Wizards]
        BY <3>2, WizardStep DEF TypeOK, ProxyCreateDraft, StepNames
      <4> QED
        BY <3>2, <4>1, DraftType DEF TypeOK, ProxyCreateDraft, appVars, boundVars,
           historyVars, portalVars
    <3>3. CASE StoreDraftSession(a)
      <4>1. wizard' \in [Apps -> Wizards]
        BY <3>3, WizardStep DEF TypeOK, StoreDraftSession, StepNames
      <4> QED
        BY <3>3, <4>1, DraftType, OwnerAssumption DEF TypeOK, StoreDraftSession, appVars,
           boundVars, historyVars, portalVars
    <3>4. CASE ProxyMarkReady(a)
      <4>1. wizard' \in [Apps -> Wizards]
        BY <3>4 DEF TypeOK, ProxyMarkReady, Wizards
      <4> QED
        BY <3>4, <4>1 DEF TypeOK, ProxyMarkReady, appVars, boundVars,
           historyVars, portalVars
    <3>5. CASE MarkReady(a)
      <4>1. wizard' \in [Apps -> Wizards]
        BY <3>5, WizardStep DEF TypeOK, MarkReady, StepNames
      <4> QED
        BY <3>5, <4>1, DraftType DEF TypeOK, MarkReady, SetStatus, Statuses, appVars,
           boundVars, historyVars, portalVars
    <3>6. CASE StoreReadySession(a)
      <4>1. wizard' \in [Apps -> Wizards]
        BY <3>6 DEF TypeOK, StoreReadySession, Wizards, NoFlow, Statuses
      <4> QED
        BY <3>6, <4>1, DraftType, OwnerAssumption DEF TypeOK, StoreReadySession, appVars,
           boundVars, historyVars, portalVars
    <3>7. CASE FlowFails(a)
      <4>1. wizard' \in [Apps -> Wizards]
        BY <3>7 DEF TypeOK, FlowFails, Wizards, NoFlow, Statuses
      <4> QED
        BY <3>7, <4>1 DEF TypeOK, FlowFails, appVars, boundVars, historyVars,
           portalVars
    <3>8. CASE ProxyCrash(a)
      <4>1. wizard' \in [Apps -> Wizards]
        BY <3>8 DEF TypeOK, ProxyCrash, Wizards, NoFlow, Statuses
      <4> QED
        BY <3>8, <4>1 DEF TypeOK, ProxyCrash, appVars, boundVars, historyVars,
           portalVars
    <3> QED
      BY <2>4, <3>1, <3>2, <3>3, <3>4, <3>5, <3>6, <3>7, <3>8 DEF FlowNext
  <2>5. ASSUME NEW a \in Apps, PollNext(a) PROVE TypeOK'
    <3>1. CASE PollSkip(a)
      <4>1. poll' \in Polls
        BY <3>1 DEF TypeOK, PollSkip, Polls, PollDone, NoPoll
      <4> QED
        BY <3>1, <4>1 DEF TypeOK, PollSkip, appVars, boundVars, historyVars,
           portalVars
    <3>2. CASE PollConfirm(a)
      <4>1. poll' \in Polls
        BY <3>2 DEF TypeOK, PollConfirm, Polls
      <4>2. confirm' \in [Apps -> ConfirmKeys]
        BY <3>2 DEF TypeOK, PollConfirm, ConfirmKeys
      <4>3. job' \in [Apps -> Jobs]
        BY <3>2, JobHeld DEF TypeOK, PollConfirm
      <4> QED
        BY <3>2, <4>1, <4>2, <4>3 DEF TypeOK, PollConfirm, appVars, boundVars,
           historyVars, portalVars
    <3>3. CASE PollNotify(a)
      <4>1. poll' \in Polls
        BY <3>3 DEF TypeOK, PollNotify, Polls
      <4> QED
        BY <3>3, <4>1 DEF TypeOK, PollNotify, appVars, boundVars, historyVars,
           portalVars
    <3>4. CASE PollMarkSubmitting(a)
      <4>1. poll' \in Polls
        BY <3>4 DEF TypeOK, PollMarkSubmitting, Polls
      <4> QED
        BY <3>4, <4>1 DEF TypeOK, PollMarkSubmitting, SetStatus, Statuses,
           appVars, boundVars, historyVars, portalVars
    <3>5. CASE PollEnqueue(a)
      <4>1. poll' \in Polls
        BY <3>5 DEF TypeOK, PollEnqueue, Polls, PollDone, NoPoll
      <4>2. job' \in [Apps -> Jobs]
        BY <3>5, LimitAssumption DEF TypeOK, PollEnqueue, Enqueue, Jobs
      <4> QED
        BY <3>5, <4>1, <4>2 DEF TypeOK, PollEnqueue, appVars, boundVars,
           historyVars, portalVars
    <3> QED
      BY <2>5, <3>1, <3>2, <3>3, <3>4, <3>5 DEF PollNext
  <2>6. ASSUME NEW a \in Apps, WebhookNext(a) PROVE TypeOK'
    <3>1. CASE PressYes(a)
      <4>1. confirm' \in [Apps -> ConfirmKeys]
        BY <3>1 DEF TypeOK, PressYes, UpdateConfirm, ConfirmKeys
      <4>2. hooks' \in [Apps -> Nat]
        BY <3>1 DEF TypeOK, PressYes
      <4>3. presses' \in [Apps -> Nat]
        BY <3>1 DEF TypeOK, PressYes
      <4> QED
        BY <3>1, <4>1, <4>2, <4>3 DEF TypeOK, PressYes, appVars, boundVars,
           historyVars, portalVars
    <3>2. CASE EnqueueSubmit(a)
      <4>1. job' \in [Apps -> Jobs]
        BY <3>2, LimitAssumption DEF TypeOK, EnqueueSubmit, Enqueue, Jobs
      <4>2. hooks' \in [Apps -> Nat]
        BY <3>2 DEF TypeOK, EnqueueSubmit
      <4> QED
        BY <3>2, <4>1, <4>2 DEF TypeOK, EnqueueSubmit, appVars, boundVars,
           historyVars, portalVars
    <3>3. CASE PressNo(a)
      <4>1. confirm' \in [Apps -> ConfirmKeys]
        BY <3>3 DEF TypeOK, PressNo, UpdateConfirm, ConfirmKeys
      <4>2. presses' \in [Apps -> Nat]
        BY <3>3 DEF TypeOK, PressNo
      <4> QED
        BY <3>3, <4>1, <4>2 DEF TypeOK, PressNo, appVars, boundVars,
           historyVars, portalVars
    <3>4. CASE WebhookCrash(a)
        BY <3>4, OwnerAssumption DEF TypeOK, WebhookCrash, appVars, boundVars,
           historyVars, portalVars
    <3> QED
      BY <2>6, <3>1, <3>2, <3>3, <3>4 DEF WebhookNext
  <2>7. ASSUME NEW a \in Apps, ArqStep(a) PROVE TypeOK'
    <3>1. CASE JobDue(a)
      <4>1. job' \in [Apps -> Jobs]
        BY <3>1, JobState DEF TypeOK, JobDue, StateNames
      <4> QED
        BY <3>1, <4>1 DEF TypeOK, JobDue, appVars, boundVars, historyVars,
           portalVars
    <3>2. CASE StartJob(a)
      <4>1. run' \in [Apps -> Runs]
        BY <3>2, RunPc DEF TypeOK, StartJob, PcNames
      <4>2. job[a].tries + 1 \in 0..MaxTries
        BY <3>2, LimitAssumption DEF TypeOK, StartJob, Jobs
      <4>3. job' \in [Apps -> Jobs]
        BY <3>2, <4>2, JobTry DEF TypeOK, StartJob, StateNames
      <4> QED
        BY <3>2, <4>1, <4>3 DEF TypeOK, StartJob, appVars, boundVars,
           historyVars, portalVars
    <3>3. CASE JobExhausted(a)
      <4>1. job' \in [Apps -> Jobs]
        BY <3>3, JobKept DEF TypeOK, JobExhausted, KeepResult
      <4> QED
        BY <3>3, <4>1 DEF TypeOK, JobExhausted, appVars, boundVars, historyVars,
           portalVars
    <3>4. CASE JobReturns(a)
      <4>1. job' \in [Apps -> Jobs]
        BY <3>4, JobKept DEF TypeOK, JobReturns, JobEnds, KeepResult
      <4>2. run' \in [Apps -> Runs]
        BY <3>4 DEF TypeOK, JobReturns, JobEnds, Runs, Idle, Statuses
      <4> QED
        BY <3>4, <4>1, <4>2 DEF TypeOK, JobReturns, appVars, boundVars,
           historyVars, portalVars
    <3> QED
      BY <2>7, <3>1, <3>2, <3>3, <3>4 DEF ArqStep
  <2>8. ASSUME NEW a \in Apps, WorkerStep(a) PROVE TypeOK'
    <3>1. CASE GetConfirm(a)
      <4>1. Reply(confirm[a].value) \in Answers
        BY <3>1 DEF TypeOK, ConfirmKeys, Answers, Reply, Bytes
      <4>2. [run EXCEPT ![a].pc = "load", ![a].heard = Reply(confirm[a].value)]
              \in [Apps -> Runs]
        <5>1. run \in [Apps -> Runs] /\ "load" \in PcNames
          BY DEF TypeOK, PcNames
        <5> QED
          BY <4>1, <5>1, RunHeard
      <4>3. run' \in [Apps -> Runs]
        BY <3>1, <4>2 DEF GetConfirm
      <4> QED
        BY <3>1, <4>3 DEF TypeOK, GetConfirm, appVars, boundVars, historyVars,
           portalVars
    <3>2. CASE LoadApp(a)
      <4>1. run' \in [Apps -> Runs]
        <5>1. run \in [Apps -> Runs] /\ status[a] \in Statuses
          BY DEF TypeOK
        <5>2. (IF run[a].heard = "no" THEN "cancel" ELSE "session") \in PcNames
          BY DEF PcNames
        <5> QED
          BY <3>2, <5>1, <5>2, RunLoaded DEF LoadApp
      <4> QED
        BY <3>2, <4>1 DEF TypeOK, LoadApp, appVars, boundVars, historyVars,
           portalVars
    <3>3. CASE CancelByUser(a)
      <4>1. run' \in [Apps -> Runs]
        BY <3>3, RunPc DEF TypeOK, CancelByUser, RunStep, PcNames
      <4> QED
        BY <3>3, <4>1 DEF TypeOK, CancelByUser, SetStatus, Statuses, appVars,
           boundVars, historyVars, portalVars
    <3>4. CASE GetSession(a)
      <4>1. session[Owner[a]] \in Ids
        BY <3>4, OwnerAssumption DEF TypeOK, GetSession, Ids
      <4>2. run \in [Apps -> Runs] /\ "call" \in PcNames
        BY <3>4 DEF TypeOK, PcNames
      <4>3. [run EXCEPT ![a].pc = "call", ![a].ids = session[Owner[a]]] \in [Apps -> Runs]
        BY <4>1, <4>2, RunIds
      <4>4. run' \in [Apps -> Runs]
        BY <3>4, <4>3 DEF GetSession
      <4> QED
        BY <3>4, <4>4 DEF TypeOK, GetSession, appVars, boundVars, historyVars,
           portalVars
    <3>5. CASE SessionMissing(a)
      <4>1. job' \in [Apps -> Jobs]
        BY <3>5, JobState DEF TypeOK, SessionMissing, Requeue, StateNames
      <4>2. run' \in [Apps -> Runs]
        BY <3>5 DEF TypeOK, SessionMissing, Requeue, Runs, Idle, Statuses
      <4> QED
        BY <3>5, <4>1, <4>2 DEF TypeOK, SessionMissing, appVars, boundVars,
           historyVars, portalVars
    <3>6. CASE PublicApplication(a)
      <4>1. \E p \in PcNames : run' = [run EXCEPT ![a].pc = p]
        BY <3>6 DEF PublicApplication, RunStep, PcNames
      <4>2. run' \in [Apps -> Runs]
        BY <3>6, <4>1, RunPc DEF TypeOK
      <4>3. published' \subseteq PortalApps
        BY <3>6 DEF TypeOK, PublicApplication, Runs
      <4> QED
        BY <3>6, <4>2, <4>3 DEF TypeOK, PublicApplication, appVars, boundVars,
           historyVars, portalVars
    <3>7. CASE MarkSubmitted(a)
      <4>1. run' \in [Apps -> Runs]
        BY <3>7, RunPc DEF TypeOK, MarkSubmitted, RunStep, PcNames
      <4> QED
        BY <3>7, <4>1 DEF TypeOK, MarkSubmitted, SetStatus, Statuses, appVars,
           boundVars, historyVars, portalVars
    <3>8. CASE RetryLater(a)
      <4>1. job' \in [Apps -> Jobs]
        BY <3>8, JobState DEF TypeOK, RetryLater, Requeue, StateNames
      <4>2. run' \in [Apps -> Runs]
        BY <3>8 DEF TypeOK, RetryLater, Requeue, Runs, Idle, Statuses
      <4>3. retryCount' \in [Apps -> Nat]
        BY <3>8 DEF TypeOK, RetryLater
      <4> QED
        BY <3>8, <4>1, <4>2, <4>3 DEF TypeOK, RetryLater, appVars, boundVars,
           historyVars, portalVars
    <3>9. CASE GiveUp(a)
      <4>1. run' = [run EXCEPT ![a].pc = "return"]
        BY <3>9 DEF GiveUp, RunStep
      <4>2. run' \in [Apps -> Runs]
        BY <3>9, <4>1, RunPc DEF TypeOK, PcNames
      <4> QED
        BY <3>9, <4>2 DEF TypeOK, GiveUp, SetStatus, Statuses, appVars,
           boundVars, historyVars, portalVars
    <3> QED
      BY <2>8, <3>1, <3>2, <3>3, <3>4, <3>5, <3>6, <3>7, <3>8, <3>9 DEF
         WorkerStep
  <2>9. ASSUME NEW a \in Apps, WorkerFault(a) PROVE TypeOK'
    <3>1. CASE WorkerCrash(a)
      <4>1. job' \in [Apps -> Jobs]
        BY <3>1, JobState DEF TypeOK, WorkerCrash, Requeue, StateNames
      <4>2. run' \in [Apps -> Runs]
        BY <3>1 DEF TypeOK, WorkerCrash, Requeue, Runs, Idle, Statuses
      <4> QED
        BY <3>1, <4>1, <4>2 DEF TypeOK, WorkerCrash, appVars, boundVars,
           historyVars, portalVars
    <3>2. CASE JobRaises(a)
      <4>1. job' \in [Apps -> Jobs]
        BY <3>2, JobKept DEF TypeOK, JobRaises, JobEnds, KeepResult
      <4>2. run' \in [Apps -> Runs]
        BY <3>2 DEF TypeOK, JobRaises, JobEnds, Runs, Idle, Statuses
      <4> QED
        BY <3>2, <4>1, <4>2 DEF TypeOK, JobRaises, appVars, boundVars,
           historyVars, portalVars
    <3> QED
      BY <2>9, <3>1, <3>2 DEF WorkerFault
  <2>10. ASSUME NEW a \in Apps, TenderOpens(a) PROVE TypeOK'
      BY <2>10, OwnerAssumption DEF TypeOK, TenderOpens, appVars, boundVars,
         historyVars, portalVars
  <2>11. ASSUME NEW a \in Apps, ConfirmExpires(a) PROVE TypeOK'
    <3>1. confirm' \in [Apps -> ConfirmKeys]
      BY <2>11 DEF TypeOK, ConfirmExpires, ConfirmKeys, NoKey
    <3> QED
      BY <2>11, <3>1 DEF TypeOK, ConfirmExpires, appVars, boundVars,
         historyVars, portalVars
  <2>12. ASSUME NEW a \in Apps, ResultExpires(a) PROVE TypeOK'
    <3>1. job' \in [Apps -> Jobs]
      BY <2>12, LimitAssumption DEF TypeOK, ResultExpires, Jobs, NoJob
    <3> QED
      BY <2>12, <3>1 DEF TypeOK, ResultExpires, appVars, boundVars, historyVars,
         portalVars
  <2>13. CASE UNCHANGED vars
    BY <2>13 DEF TypeOK, vars
  <2> QED
    BY <2>1, <2>2, <2>3, <2>4, <2>5, <2>6, <2>7, <2>8, <2>9, <2>10, <2>11,
       <2>12, <2>13 DEF Next
<1>3. QED
  BY <1>1, <1>2, PTL DEF Spec
-----------------------------------------------------------------------------
(* RefusalIsRead.  An answer that is remembered as "no" (refusal) is still   *)
(* in the confirm key, which no TTL can remove; an attempt that has read the *)
(* key since has read that answer; and it has read the str "no" only where   *)
(* the client decodes.                                                       *)
RefusalAt(b) ==
    /\ refusal[b] # "none" => confirm[b] = [value |-> "no", ttl |-> FALSE]
    /\ refusal[b] = "standing" /\ run[b].pc \notin {"off", "confirm"}
          => run[b].heard = Reply("no")
    /\ run[b].heard = "no" => Reply("no") = "no"

RefusalInv == \A b \in Apps : RefusalAt(b)

LEMMA RefusalFrame ==
    ASSUME RefusalInv, UNCHANGED <<refusal, confirm, run>>
    PROVE  RefusalInv'
BY DEF RefusalInv, RefusalAt

\* Once an attempt is over, only its key matters.
LEMMA RefusalIdle ==
    ASSUME TypeOK, RefusalInv, NEW a \in Apps, run' = [run EXCEPT ![a] = Idle],
           UNCHANGED <<refusal, confirm>>
    PROVE  RefusalInv'
BY DEF RefusalInv, RefusalAt, TypeOK, Idle

\* A "no" that was recorded before an attempt read the confirm key is what that attempt
\* and every later one read (update_confirm, get_confirm and the retries of
\* auto_submit_application), whatever the bounds, the faults and the client: the key
\* keeps the answer, and what the code does with it is another matter (UnheardSafe).
THEOREM RefusalSafe == Spec => []RefusalIsRead
<1>1. Init => RefusalInv
  BY DEF Init, RefusalInv, RefusalAt, Idle
<1>2. TypeOK /\ RefusalInv /\ [Next]_vars => RefusalInv'
  <2> SUFFICES ASSUME TypeOK, RefusalInv, [Next]_vars PROVE RefusalInv'
    OBVIOUS
  <2>1. CASE PollStart
    BY <2>1, RefusalFrame DEF PollStart, appVars, boundVars, historyVars,
       portalVars
  <2>2. CASE PollCrash
    BY <2>2, RefusalFrame DEF PollCrash, appVars, boundVars, historyVars,
       portalVars
  <2>3. ASSUME NEW u \in Users, SessionExpires(u) PROVE RefusalInv'
    BY <2>3, RefusalFrame DEF SessionExpires, appVars, boundVars, historyVars,
       portalVars
  <2>4. ASSUME NEW a \in Apps, FlowNext(a) PROVE RefusalInv'
    BY <2>4, RefusalFrame DEF FlowNext, ProxyAuthLogin, ProxyCreateDraft,
       StoreDraftSession, ProxyMarkReady, MarkReady, StoreReadySession,
       FlowFails, ProxyCrash, appVars, boundVars, historyVars, portalVars
  <2>5. ASSUME NEW a \in Apps, PollNext(a) PROVE RefusalInv'
    <3>1. CASE PollSkip(a)
      BY <3>1, RefusalFrame DEF PollSkip, appVars, boundVars, historyVars,
         portalVars
    <3>2. CASE PollConfirm(a)
      BY <3>2 DEF RefusalInv, RefusalAt, TypeOK, PollConfirm, Runs,
         ConfirmKeys, appVars, boundVars, historyVars, portalVars
    <3>3. CASE PollNotify(a)
      BY <3>3, RefusalFrame DEF PollNotify, appVars, boundVars, historyVars,
         portalVars
    <3>4. CASE PollMarkSubmitting(a)
      BY <3>4, RefusalFrame DEF PollMarkSubmitting, appVars, boundVars,
         historyVars, portalVars
    <3>5. CASE PollEnqueue(a)
      BY <3>5, RefusalFrame DEF PollEnqueue, appVars, boundVars, historyVars,
         portalVars
    <3> QED
      BY <2>5, <3>1, <3>2, <3>3, <3>4, <3>5 DEF PollNext
  <2>6. ASSUME NEW a \in Apps, WebhookNext(a) PROVE RefusalInv'
    <3>1. CASE PressYes(a)
      BY <3>1 DEF RefusalInv, RefusalAt, TypeOK, PressYes, UpdateConfirm,
         Runs, ConfirmKeys, appVars, boundVars, historyVars,
         portalVars
    <3>2. CASE EnqueueSubmit(a)
      BY <3>2, RefusalFrame DEF EnqueueSubmit, appVars, boundVars, historyVars,
         portalVars
    <3>3. CASE PressNo(a)
      BY <3>3 DEF RefusalInv, RefusalAt, TypeOK, PressNo, UpdateConfirm, Deaf,
         Runs, ConfirmKeys, appVars, boundVars, historyVars,
         portalVars
    <3>4. CASE WebhookCrash(a)
      BY <3>4, RefusalFrame DEF WebhookCrash, appVars, boundVars, historyVars,
         portalVars
    <3> QED
      BY <2>6, <3>1, <3>2, <3>3, <3>4 DEF WebhookNext
  <2>7. ASSUME NEW a \in Apps, ArqStep(a) PROVE RefusalInv'
    <3>1. CASE JobDue(a)
      BY <3>1, RefusalFrame DEF JobDue, appVars, boundVars, historyVars,
         portalVars
    <3>2. CASE StartJob(a)
      BY <3>2 DEF RefusalInv, RefusalAt, TypeOK, StartJob, Runs,
         ConfirmKeys, appVars, boundVars, historyVars, portalVars
    <3>3. CASE JobExhausted(a)
      BY <3>3, RefusalFrame DEF JobExhausted, appVars, boundVars, historyVars,
         portalVars
    <3>4. CASE JobReturns(a)
      BY <3>4, RefusalIdle DEF JobReturns, JobEnds, appVars, boundVars,
         historyVars, portalVars
    <3> QED
      BY <2>7, <3>1, <3>2, <3>3, <3>4 DEF ArqStep
  <2>8. ASSUME NEW a \in Apps, WorkerStep(a) PROVE RefusalInv'
    <3>1. CASE GetConfirm(a)
      BY <3>1 DEF RefusalInv, RefusalAt, TypeOK, GetConfirm, Reply, Bytes, Runs, ConfirmKeys, appVars, boundVars, historyVars, portalVars
    <3>2. CASE LoadApp(a)
      BY <3>2 DEF RefusalInv, RefusalAt, TypeOK, LoadApp, Runs,
         ConfirmKeys, appVars, boundVars, historyVars, portalVars
    <3>3. CASE CancelByUser(a)
      BY <3>3 DEF RefusalInv, RefusalAt, TypeOK, CancelByUser, RunStep,
         Runs, ConfirmKeys, appVars, boundVars, historyVars,
         portalVars
    <3>4. CASE GetSession(a)
      BY <3>4 DEF RefusalInv, RefusalAt, TypeOK, GetSession, Runs,
         ConfirmKeys, appVars, boundVars, historyVars, portalVars
    <3>5. CASE SessionMissing(a)
      BY <3>5, RefusalIdle DEF SessionMissing, Requeue, appVars, boundVars,
         historyVars, portalVars
    <3>6. CASE PublicApplication(a)
      <4>1. PICK p \in {"ok", "refused", "failed"} :
               run[a].pc = "call" /\ run' = [run EXCEPT ![a].pc = p]
        BY <3>6 DEF PublicApplication, RunStep
      <4>2. UNCHANGED <<refusal, confirm>>
        BY <3>6 DEF PublicApplication, historyVars
      <4> QED
        BY <4>1, <4>2 DEF RefusalInv, RefusalAt, TypeOK, Runs
    <3>7. CASE MarkSubmitted(a)
      BY <3>7 DEF RefusalInv, RefusalAt, TypeOK, MarkSubmitted, RunStep,
         Runs, ConfirmKeys, appVars, boundVars, historyVars,
         portalVars
    <3>8. CASE RetryLater(a)
      BY <3>8, RefusalIdle DEF RetryLater, Requeue, appVars, boundVars,
         historyVars, portalVars
    <3>9. CASE GiveUp(a)
      <4>1. /\ run[a].pc \in {"failed", "refused"} /\ run' = [run EXCEPT ![a].pc = "return"]
            /\ UNCHANGED <<refusal, confirm>>
        BY <3>9 DEF GiveUp, RunStep, historyVars
      <4> QED
        BY <4>1 DEF RefusalInv, RefusalAt, TypeOK, Runs
    <3> QED
      BY <2>8, <3>1, <3>2, <3>3, <3>4, <3>5, <3>6, <3>7, <3>8, <3>9 DEF
         WorkerStep
  <2>9. ASSUME NEW a \in Apps, WorkerFault(a) PROVE RefusalInv'
    <3>1. CASE WorkerCrash(a)
      BY <3>1, RefusalIdle DEF WorkerCrash, Requeue, appVars, boundVars,
         historyVars, portalVars
    <3>2. CASE JobRaises(a)
      BY <3>2, RefusalIdle DEF JobRaises, JobEnds, appVars, boundVars,
         historyVars, portalVars
    <3> QED
      BY <2>9, <3>1, <3>2 DEF WorkerFault
  <2>10. ASSUME NEW a \in Apps, TenderOpens(a) PROVE RefusalInv'
    BY <2>10, RefusalFrame DEF TenderOpens, appVars, boundVars, historyVars,
       portalVars
  <2>11. ASSUME NEW a \in Apps, ConfirmExpires(a) PROVE RefusalInv'
    <3>1. refusal[a] = "none"
      BY <2>11 DEF RefusalInv, RefusalAt, ConfirmExpires
    <3> QED
      BY <2>11, <3>1 DEF RefusalInv, RefusalAt, TypeOK, ConfirmExpires, historyVars
  <2>12. ASSUME NEW a \in Apps, ResultExpires(a) PROVE RefusalInv'
    BY <2>12, RefusalFrame DEF ResultExpires, appVars, boundVars, historyVars,
       portalVars
  <2>13. CASE UNCHANGED vars
    BY <2>13, RefusalFrame DEF vars
  <2> QED
    BY <2>1, <2>2, <2>3, <2>4, <2>5, <2>6, <2>7, <2>8, <2>9, <2>10, <2>11,
       <2>12, <2>13 DEF Next
<1>3. RefusalInv => RefusalIsRead
  BY DEF RefusalInv, RefusalAt, RefusalIsRead
<1>4. QED
  BY <1>1, <1>2, <1>3, TypeCorrect, PTL DEF Spec
-----------------------------------------------------------------------------
(* SubmittedIsPublished.  A row leaves "draft" once, for good, with the id of *)
(* the flow that took it there, and no flow of it is begun again; with one    *)
(* application per user the session can then only hold that id or none, and   *)
(* so does an attempt.                                                        *)
Begun(b) ==
    \/ b \in poll.todo \/ poll.app = b \/ asked[b] \/ hooks[b] > 0
    \/ job[b].state # "none" \/ run[b].pc # "off"

InFlow == {"idle", "loggedIn", "created"}

PubAt(b) ==
    /\ Begun(b) => status[b] # "draft"
    /\ status[b] # "draft"
          => portalId[b] = Draft(b) /\ wizard[b].step \in {"idle", "readyCommitted"}
    /\ \/ session[Owner[b]] \in {NoApp, NoSession, Draft(b)}
       \/ status[b] = "draft" /\ wizard[b].step \in InFlow
    /\ run[b].ids \in {NoApp, Draft(b)}
    /\ run[b].pc = "off" => run[b].ids = NoApp
    /\ status[b] = "submitted" \/ run[b].pc = "ok" => Draft(b) \in published

PubInv == \A b \in Apps : PubAt(b)

\* Only a row that has left "draft" is taken up by the poll, the chat or ARQ.
LEMMA BegunStep ==
    ASSUME TypeOK, PubInv, [Next]_vars, NEW b \in Apps, Begun(b)'
    PROVE  status[b] # "draft"
<1> SUFFICES ASSUME ~Begun(b) PROVE status[b] # "draft"
  BY DEF PubInv, PubAt
<1>1. CASE UNCHANGED vars \/ PollCrash \/ \E u \in Users : SessionExpires(u)
  BY <1>1, NullAssumption DEF Begun, vars, PollCrash, NoPoll, SessionExpires
<1>2. CASE PollStart
  BY <1>2, NullAssumption DEF Begun, PollStart, NoPoll
<1>3. ASSUME NEW a \in Apps, FlowNext(a) \/ TenderOpens(a) \/ ConfirmExpires(a) PROVE FALSE
  BY <1>3 DEF Begun, FlowNext, ProxyAuthLogin, ProxyCreateDraft, StoreDraftSession,
     ProxyMarkReady, MarkReady, StoreReadySession, FlowFails, ProxyCrash, TenderOpens,
     ConfirmExpires
<1>4. ASSUME NEW a \in Apps, ResultExpires(a) PROVE FALSE
  BY <1>4 DEF Begun, ResultExpires, NoJob, TypeOK
<1>5. ASSUME NEW a \in Apps, PollNext(a) PROVE FALSE
  <2>1. CASE PollSkip(a)
    BY <2>1, NullAssumption DEF Begun, PollSkip, PollDone, NoPoll
  <2>2. CASE PollConfirm(a)
    BY <2>2 DEF Begun, PollConfirm, TypeOK, Polls, Jobs
  <2>3. CASE PollNotify(a)
    BY <2>3 DEF Begun, PollNotify, TypeOK, Polls
  <2>4. CASE PollMarkSubmitting(a)
    BY <2>4 DEF Begun, PollMarkSubmitting, TypeOK, Polls
  <2>5. CASE PollEnqueue(a)
    BY <2>5, NullAssumption DEF Begun, PollEnqueue, PollDone, NoPoll, Enqueue, TypeOK
  <2> QED
    BY <1>5, <2>1, <2>2, <2>3, <2>4, <2>5 DEF PollNext
<1>6. ASSUME NEW a \in Apps, WebhookNext(a) PROVE FALSE
  <2>1. CASE PressYes(a)
    BY <2>1 DEF Begun, PressYes, TypeOK
  <2>2. CASE EnqueueSubmit(a)
    BY <2>2 DEF Begun, EnqueueSubmit, Enqueue, TypeOK
  <2>3. CASE PressNo(a)
    BY <2>3 DEF Begun, PressNo
  <2>4. CASE WebhookCrash(a)
    BY <2>4 DEF Begun, WebhookCrash, TypeOK
  <2> QED
    BY <1>6, <2>1, <2>2, <2>3, <2>4 DEF WebhookNext
<1>7. ASSUME NEW a \in Apps, ArqStep(a) \/ WorkerFault(a) \/ WorkerStep(a) PROVE FALSE
  <2>1. job[a].state # "none" \/ run[a].pc # "off"
    BY <1>7 DEF ArqStep, JobDue, StartJob, JobExhausted, JobReturns, WorkerFault, WorkerCrash,
       JobRaises, WorkerStep, GetConfirm, LoadApp, CancelByUser, GetSession, SessionMissing,
       PublicApplication, MarkSubmitted, RetryLater, GiveUp, WorthRetry, RunStep
  <2>2. a # b
    BY <2>1 DEF Begun
  <2>3. UNCHANGED <<poll, asked, hooks>>
    BY <1>7 DEF ArqStep, JobDue, StartJob, JobExhausted, JobReturns, WorkerFault, WorkerCrash,
       JobRaises, WorkerStep, GetConfirm, LoadApp, CancelByUser, GetSession, SessionMissing,
       PublicApplication, MarkSubmitted, RetryLater, GiveUp
  <2>4. UNCHANGED <<job[b], run[b]>>
    <3>1. CASE ArqStep(a) \/ WorkerFault(a)
      BY <2>2, <3>1 DEF ArqStep, JobDue, StartJob, JobExhausted, JobReturns, JobEnds, KeepResult,
         WorkerFault, WorkerCrash, JobRaises, Requeue, TypeOK
    <3>2. CASE WorkerStep(a)
      BY <2>2, <3>2 DEF WorkerStep, GetConfirm, LoadApp, CancelByUser, GetSession, SessionMissing,
         PublicApplication, MarkSubmitted, RetryLater, GiveUp, RunStep, Requeue, TypeOK
    <3> QED
      BY <1>7, <3>1, <3>2
  <2> QED
    BY <2>3, <2>4 DEF Begun
<1> QED
  BY <1>1, <1>2, <1>3, <1>4, <1>5, <1>6, <1>7 DEF Next

\* Steps that leave the rows, the sessions, the flows and the attempts alone.
LEMMA PubFrame ==
    ASSUME PubInv, UNCHANGED <<status, portalId, session, wizard, flows, run, published>>,
           \A b \in Apps : Begun(b)' => status[b] # "draft"
    PROVE  PubInv'
BY DEF PubInv, PubAt, Draft

\* Steps of an attempt, and of the poll, at one row that has left "draft".
LEMMA PubStep ==
    ASSUME PubInv, NEW a \in Apps, status[a] # "draft", status'[a] # "draft",
           UNCHANGED <<portalId, session, wizard, flows>>, published \subseteq published',
           \A b \in Apps : Begun(b)' => status[b] # "draft",
           \A b \in Apps : b # a => status'[b] = status[b] /\ run'[b] = run[b],
           run'[a].ids \in {NoApp, Draft(a)}, run'[a].pc = "off" => run'[a].ids = NoApp,
           status'[a] = "submitted" \/ run'[a].pc = "ok" => Draft(a) \in published'
    PROVE  PubInv'
<1>1. \A b \in Apps : Draft(b)' = Draft(b)
  BY DEF Draft
<1>2. PubAt(a)'
  BY <1>1 DEF PubInv, PubAt
<1>3. ASSUME NEW b \in Apps, b # a PROVE PubAt(b)'
  BY <1>1, <1>3 DEF PubInv, PubAt
<1> QED
  BY <1>2, <1>3 DEF PubInv

\* When no user has two applications and no second tab runs the flow for a row that has
\* left "draft", an application reported as submitted has been published under its own
\* portal id (mark_submitted, public_application, store_goszakup_session).  FindShared
\* shows that the first assumption is needed; without the second the session has the ids
\* of a second flow's draft, and the row still those of the first.
THEOREM PublishedSafe ==
    ASSUME ~Rerun, \A a, b \in Apps : Owner[a] = Owner[b] => a = b
    PROVE  Spec => []SubmittedIsPublished
<1>1. Init => PubInv
  BY OwnerAssumption, NullAssumption DEF Init, PubInv, PubAt, Begun, Idle, NoJob, NoPoll, NoFlow
<1>2. TypeOK /\ PubInv /\ [Next]_vars => PubInv'
  <2> SUFFICES ASSUME TypeOK, PubInv, [Next]_vars PROVE PubInv'
    OBVIOUS
  <2>0. \A b \in Apps : Begun(b)' => status[b] # "draft"
    BY BegunStep
  <2>1. CASE UNCHANGED vars \/ PollStart \/ PollCrash
    BY <2>0, <2>1, PubFrame DEF vars, PollStart, PollCrash, appVars, boundVars, portalVars
  <2>2. ASSUME NEW u \in Users, SessionExpires(u) PROVE PubInv'
    <3>1. UNCHANGED <<status, portalId, wizard, flows, run, published>>
      BY <2>2 DEF SessionExpires, appVars, boundVars, portalVars
    <3>2. \A b \in Apps : session'[Owner[b]] \in {session[Owner[b]], NoSession}
      BY <2>2, OwnerAssumption DEF SessionExpires, TypeOK
    <3> QED
      BY <2>0, <3>1, <3>2 DEF PubInv, PubAt, Draft
  <2>3. ASSUME NEW a \in Apps, FlowNext(a) PROVE PubInv'
    <3>1. UNCHANGED <<run, published>>
      BY <2>3 DEF FlowNext, ProxyAuthLogin, ProxyCreateDraft, StoreDraftSession, ProxyMarkReady,
         MarkReady, StoreReadySession, FlowFails, ProxyCrash, portalVars
    <3>2. \A b \in Apps : b # a =>
             /\ status'[b] = status[b] /\ portalId'[b] = portalId[b]
             /\ wizard'[b] = wizard[b] /\ flows'[b] = flows[b]
      BY <2>3 DEF FlowNext, ProxyAuthLogin, ProxyCreateDraft, StoreDraftSession, ProxyMarkReady,
         MarkReady, SetStatus, StoreReadySession, FlowFails, ProxyCrash, appVars, boundVars, TypeOK
    <3>3. \A b \in Apps : b # a => session'[Owner[b]] = session[Owner[b]]
      <4>1. ASSUME NEW b \in Apps, b # a PROVE Owner[b] # Owner[a]
        BY <4>1
      <4> QED
        BY <2>3, <4>1, OwnerAssumption DEF FlowNext, ProxyAuthLogin, ProxyCreateDraft,
           StoreDraftSession, ProxyMarkReady, MarkReady, StoreReadySession, FlowFails, ProxyCrash,
           TypeOK
    <3>4. ASSUME NEW b \in Apps, b # a PROVE PubAt(b)'
      BY <2>0, <3>1, <3>2, <3>3, <3>4 DEF PubInv, PubAt, Draft
    <3>5. PubAt(a) /\ Owner[a] \in Users
      BY OwnerAssumption DEF PubInv
    <3>6. PubAt(a)'
      <4>1. CASE ProxyAuthLogin(a)
        <5>1. status[a] = "draft" /\ UNCHANGED status
          BY <4>1 DEF ProxyAuthLogin, appVars
        <5>2. ~Begun(a)' /\ run[a].pc = "off" /\ run[a].ids = NoApp
          BY <2>0, <3>5, <5>1 DEF PubAt, Begun
        <5>3. session'[Owner[a]] = NoApp
          BY <3>5, <4>1 DEF ProxyAuthLogin, TypeOK
        <5> QED
          BY <3>1, <5>1, <5>2, <5>3 DEF PubAt
      <4>2. CASE ProxyCreateDraft(a)
        <5>1. wizard[a].step = "loggedIn" /\ wizard'[a].step = "created"
          BY <4>2 DEF ProxyCreateDraft, TypeOK, Wizards
        <5>2. UNCHANGED <<status, portalId, session, flows>>
          BY <4>2 DEF ProxyCreateDraft, appVars, boundVars
        <5> QED
          BY <2>0, <3>1, <3>5, <5>1, <5>2 DEF PubAt, InFlow, Draft
      <4>3. CASE StoreDraftSession(a)
        <5>1. /\ wizard[a].step = "created" /\ wizard'[a].step = "drafted"
              /\ session'[Owner[a]] = Draft(a)
          BY <3>5, <4>3 DEF StoreDraftSession, TypeOK, Wizards
        <5>2. UNCHANGED <<status, portalId, flows>>
          BY <4>3 DEF StoreDraftSession, appVars, boundVars
        <5> QED
          BY <2>0, <3>1, <3>5, <5>1, <5>2 DEF PubAt, Draft
      <4>4. CASE ProxyMarkReady(a)
        <5>1. wizard[a].step = "drafted" /\ wizard'[a].step = "readyLoaded"
          BY <4>4 DEF ProxyMarkReady, TypeOK, Wizards
        <5>2. UNCHANGED <<status, portalId, session, flows>>
          BY <4>4 DEF ProxyMarkReady, appVars, boundVars
        <5> QED
          BY <2>0, <3>1, <3>5, <5>1, <5>2 DEF PubAt, InFlow, Draft
      <4>5. CASE MarkReady(a)
        <5>1. /\ wizard[a].step = "readyLoaded" /\ wizard'[a].step = "readyCommitted"
              /\ portalId'[a] = Draft(a) /\ status'[a] \in {status[a], "waiting"}
          BY <4>5 DEF MarkReady, SetStatus, TypeOK, Wizards
        <5>2. UNCHANGED <<session, flows>>
          BY <4>5 DEF MarkReady, boundVars
        <5>3. status[a] = "draft"
          BY <3>5, <5>1 DEF PubAt
        <5>4. ~Begun(a)' /\ run[a].pc = "off" /\ run[a].ids = NoApp
          BY <2>0, <3>5, <5>3 DEF PubAt, Begun
        <5> QED
          BY <3>1, <3>5, <5>1, <5>2, <5>3, <5>4 DEF PubAt, InFlow, Draft
      <4>6. CASE StoreReadySession(a)
        <5>1. /\ wizard[a].step = "readyCommitted" /\ wizard'[a].step = "idle"
              /\ session'[Owner[a]] = Draft(a)
          BY <3>5, <4>6 DEF StoreReadySession, NoFlow, TypeOK
        <5>2. UNCHANGED <<status, portalId, flows>>
          BY <4>6 DEF StoreReadySession, appVars, boundVars
        <5> QED
          BY <2>0, <3>1, <3>5, <5>1, <5>2 DEF PubAt, Draft
      <4>7. CASE FlowFails(a) \/ ProxyCrash(a)
        <5>1. wizard'[a].step = "idle"
          BY <4>7 DEF FlowFails, ProxyCrash, NoFlow, TypeOK
        <5>2. UNCHANGED <<status, portalId, session, flows>>
          BY <4>7 DEF FlowFails, ProxyCrash, appVars, boundVars
        <5> QED
          BY <2>0, <3>1, <3>5, <5>1, <5>2 DEF PubAt, InFlow, Draft
      <4> QED
        BY <2>3, <4>1, <4>2, <4>3, <4>4, <4>5, <4>6, <4>7 DEF FlowNext
    <3> QED
      BY <3>4, <3>6 DEF PubInv
  <2>4. ASSUME NEW a \in Apps, PollNext(a) PROVE PubInv'
    <3>1. CASE PollMarkSubmitting(a)
      <4>1. status[a] # "draft"
        BY <3>1 DEF PollMarkSubmitting, PubInv, PubAt, Begun
      <4>2. /\ status'[a] = "submitting" /\ \A b \in Apps : b # a => status'[b] = status[b]
            /\ UNCHANGED <<portalId, session, wizard, flows, run, published>>
        BY <3>1 DEF PollMarkSubmitting, SetStatus, TypeOK, boundVars, portalVars
      <4>3. PubAt(a)
        BY DEF PubInv
      <4> QED
        BY <2>0, <4>1, <4>2, <4>3, PubStep DEF PubAt
    <3> QED
      BY <2>0, <2>4, <3>1, PubFrame DEF PollNext, PollSkip, PollConfirm, PollNotify, PollEnqueue,
         appVars, boundVars, portalVars
  <2>5. ASSUME NEW a \in Apps, WebhookNext(a) PROVE PubInv'
    BY <2>0, <2>5, PubFrame DEF WebhookNext, PressYes, EnqueueSubmit, PressNo, WebhookCrash,
       appVars, boundVars, portalVars
  <2>6. ASSUME NEW a \in Apps, TenderOpens(a) \/ ConfirmExpires(a) \/ ResultExpires(a) PROVE PubInv'
    BY <2>0, <2>6, PubFrame DEF TenderOpens, ConfirmExpires, ResultExpires, appVars, boundVars,
       portalVars
  <2>7. ASSUME NEW a \in Apps, JobDue(a) \/ JobExhausted(a) PROVE PubInv'
    BY <2>0, <2>7, PubFrame DEF JobDue, JobExhausted, appVars, boundVars, portalVars
  <2>8. ASSUME NEW a \in Apps, StartJob(a) \/ JobReturns(a) \/ WorkerFault(a) \/ WorkerStep(a)
        PROVE  PubInv'
    <3>1. job[a].state # "none" \/ run[a].pc # "off"
      BY <2>8 DEF StartJob, JobReturns, WorkerFault, WorkerCrash, JobRaises, WorkerStep,
         GetConfirm, LoadApp, CancelByUser, GetSession, SessionMissing, PublicApplication,
         MarkSubmitted, RetryLater, GiveUp, WorthRetry, RunStep
    <3>2. status[a] # "draft" /\ PubAt(a)
      BY <3>1 DEF PubInv, PubAt, Begun
    <3>3. UNCHANGED <<portalId, session, wizard, flows>>
      BY <2>8 DEF StartJob, JobReturns, WorkerFault, WorkerCrash, JobRaises, WorkerStep,
         GetConfirm, LoadApp, CancelByUser, GetSession, SessionMissing, PublicApplication,
         MarkSubmitted, RetryLater, GiveUp, appVars, boundVars
    <3>4. run[a] \in Runs /\ run \in [Apps -> Runs] /\ status \in [Apps -> Statuses]
      BY DEF TypeOK
    <3>5. CASE StartJob(a) \/ JobReturns(a) \/ WorkerFault(a) \/ SessionMissing(a) \/ RetryLater(a)
      <4>1. run' = [run EXCEPT ![a] = Idle] \/ run' = [run EXCEPT ![a].pc = "confirm"]
        BY <3>5 DEF StartJob, JobReturns, JobEnds, WorkerFault, WorkerCrash, JobRaises,
           SessionMissing, RetryLater, Requeue
      <4>2. UNCHANGED <<status, published>>
        BY <3>5 DEF StartJob, JobReturns, WorkerFault, WorkerCrash, JobRaises, SessionMissing,
           RetryLater, appVars, portalVars
      <4>3. /\ \A b \in Apps : b # a => run'[b] = run[b]
            /\ run'[a].ids \in {NoApp, run[a].ids} /\ run'[a].pc \in {"off", "confirm"}
            /\ run'[a].pc = "off" => run'[a].ids = NoApp
        BY <3>4, <4>1 DEF Idle, Runs
      <4> QED
        BY <2>0, <3>2, <3>3, <4>2, <4>3, PubStep DEF PubAt
    <3>6. CASE GetConfirm(a)
      BY <2>0, <3>2, <3>3, <3>4, <3>6, PubStep DEF GetConfirm, PubAt, Runs, appVars, portalVars
    <3>7. CASE LoadApp(a)
      BY <2>0, <3>2, <3>3, <3>4, <3>7, PubStep DEF LoadApp, PubAt, Runs, appVars, portalVars
    <3>8. CASE GetSession(a)
      <4>1. session[Owner[a]] \in {NoApp, Draft(a)}
        BY <3>2, <3>8 DEF GetSession, PubAt
      <4>2. /\ run'[a].ids = session[Owner[a]] /\ run'[a].pc = "call"
            /\ \A b \in Apps : b # a => run'[b] = run[b]
            /\ UNCHANGED <<status, published>>
        BY <3>4, <3>8 DEF GetSession, Runs, appVars, portalVars
      <4> QED
        BY <2>0, <3>2, <3>3, <4>1, <4>2, PubStep DEF PubAt
    <3>9. CASE PublicApplication(a)
      <4>1. PICK p \in {"ok", "refused", "failed"} :
               /\ run[a].pc = "call" /\ run' = [run EXCEPT ![a].pc = p]
               /\ published \subseteq published'
               /\ p = "ok" => run[a].ids \in drafted /\ run[a].ids \in published'
        BY <3>9 DEF PublicApplication, RunStep
      <4>2. p = "ok" => Draft(a) \in published'
        BY <3>2, <4>1, NullAssumption DEF PubAt, TypeOK
      <4>3. UNCHANGED status
        BY <3>9 DEF PublicApplication, appVars
      <4>4. /\ run'[a].ids = run[a].ids /\ run'[a].pc = p
            /\ \A b \in Apps : b # a => run'[b] = run[b]
        BY <3>4, <4>1 DEF Runs
      <4>5. status[a] = "submitted" => Draft(a) \in published'
        BY <3>2, <4>1 DEF PubAt
      <4> QED
        BY <2>0, <3>2, <3>3, <4>1, <4>2, <4>3, <4>4, <4>5, PubStep DEF PubAt
    <3>10. CASE CancelByUser(a) \/ MarkSubmitted(a) \/ GiveUp(a)
      <4>1. /\ run' = [run EXCEPT ![a].pc = "return"]
            /\ \E s \in {"submitted", "error"} :
                  /\ s = "submitted" => run[a].pc = "ok"
                  /\ SetStatus(a, run[a].loaded, s)
            /\ UNCHANGED published
        BY <3>10 DEF CancelByUser, MarkSubmitted, GiveUp, RunStep, portalVars
      <4>2. /\ run'[a].ids = run[a].ids /\ run'[a].pc = "return"
            /\ \A b \in Apps : b # a => run'[b] = run[b] /\ status'[b] = status[b]
        BY <3>4, <4>1 DEF Runs, SetStatus
      <4>3. /\ status'[a] \in {status[a], "submitted", "error"}
            /\ status'[a] = "submitted" => status[a] = "submitted" \/ run[a].pc = "ok"
        BY <3>4, <4>1 DEF SetStatus
      <4> QED
        BY <2>0, <3>2, <3>3, <4>1, <4>2, <4>3, PubStep DEF PubAt
    <3> QED
      BY <2>8, <3>5, <3>6, <3>7, <3>8, <3>9, <3>10 DEF WorkerStep
  <2> QED
    BY <2>1, <2>2, <2>3, <2>4, <2>5, <2>6, <2>7, <2>8 DEF Next, ArqStep
<1>3. PubInv => SubmittedIsPublished
  BY DEF PubInv, PubAt, SubmittedIsPublished
<1>4. QED
  BY <1>1, <1>2, <1>3, TypeCorrect, PTL DEF Spec
-----------------------------------------------------------------------------
(* WindowRespected.  Until the user says "yes", or a second tab runs the     *)
(* flow, only the poll enqueues a job, when the row has left "waiting" for   *)
(* good: no later poll asks again, and the deferred job outlives the         *)
(* question it was enqueued with.                                            *)
Past == {"submitting", "submitted", "error"}

QuietAt(b) ==
    /\ confirm[b].value = "pending" => confirm[b].ttl
    /\ run[b].pc # "off" => job[b].state = "running"
    /\ Undisturbed(b) =>
          /\ hooks[b] = 0
          /\ flows[b] = 0 => status[b] = "draft" /\ wizard[b].step = "idle"
          /\ wizard[b].step \notin {"idle", "readyCommitted"} => status[b] = "draft"
          /\ job[b].state # "none" => status[b] \in Past
          /\ job[b].state = "deferred" => job[b].held
          /\ job[b].state \in {"queued", "running"} => confirm[b].value # "pending"
          /\ b \in poll.todo /\ poll.app # b => status[b] = "waiting"
          /\ poll.app = b => status[b] \in IF poll.step = "enqueue" THEN Past ELSE {"waiting"}

QuietInv == (poll.step = "next" => poll.app = NoApp) /\ \A b \in Apps : QuietAt(b)

\* What WindowSafe, ArrowsSafe and FinalSafe rest on: rows and jobs as list_waiting_
\* applications, mark_submitting and enqueue_job leave them while nobody interferes.
LEMMA QuietInvariant == Spec => []QuietInv
<1>1. Init => QuietInv
  BY NullAssumption DEF Init, QuietInv, QuietAt, Undisturbed, NoKey, NoJob, Idle, NoFlow, NoPoll
<1>2. TypeOK /\ QuietInv /\ [Next]_vars => QuietInv'
  <2> SUFFICES ASSUME TypeOK, QuietInv, [Next]_vars PROVE QuietInv'
    OBVIOUS
  <2>1. CASE UNCHANGED <<status, confirm, job, run, wizard, poll, hooks, flows, saidYes>>
    BY <2>1 DEF QuietInv, QuietAt, Undisturbed
  <2>2. CASE UNCHANGED vars \/ (\E u \in Users : SessionExpires(u))
             \/ (\E a \in Apps : TenderOpens(a))
    BY <2>1, <2>2 DEF vars, SessionExpires, TenderOpens, appVars, boundVars, historyVars
  <2>3. CASE PollStart
    BY <2>3, NullAssumption DEF QuietInv, QuietAt, Undisturbed, PollStart, NoPoll, appVars, boundVars, historyVars
  <2>4. CASE PollCrash
    BY <2>4, NullAssumption DEF QuietInv, QuietAt, Undisturbed, PollCrash, NoPoll, appVars, historyVars
  <2>5. ASSUME NEW a \in Apps, FlowNext(a) PROVE QuietInv'
    <3>1. CASE ProxyAuthLogin(a)
      <4>1. /\ flows'[a] = flows[a] + 1 /\ flows'[a] # 0 /\ flows[a] \in Nat
            /\ wizard[a].step = "idle" /\ wizard'[a].step = "loggedIn"
            /\ \A b \in Apps : b # a => flows'[b] = flows[b] /\ wizard'[b] = wizard[b]
            /\ UNCHANGED <<status, confirm, job, run, poll, hooks, saidYes>>
        BY <3>1 DEF ProxyAuthLogin, TypeOK, Wizards, appVars, historyVars
      <4>2. Undisturbed(a)' => Undisturbed(a) /\ (Rerun => flows[a] = 0)
        BY <4>1 DEF Undisturbed
      <4>3. Undisturbed(a)' => status[a] = "draft"
        BY <3>1, <4>2 DEF ProxyAuthLogin, QuietInv, QuietAt
      <4>4. QuietAt(a)'
        BY <4>1, <4>2, <4>3 DEF QuietInv, QuietAt
      <4>5. ASSUME NEW b \in Apps, b # a PROVE QuietAt(b)'
        BY <4>1, <4>5 DEF QuietInv, QuietAt, Undisturbed
      <4> QED
        BY <4>1, <4>4, <4>5 DEF QuietInv
    <3>2. CASE ProxyCreateDraft(a)
      BY <3>2, NullAssumption DEF QuietInv, QuietAt, Undisturbed, TypeOK, ProxyCreateDraft, Wizards,
         appVars, boundVars, historyVars, portalVars
    <3>3. CASE StoreDraftSession(a)
      BY <3>3, NullAssumption DEF QuietInv, QuietAt, Undisturbed, TypeOK, StoreDraftSession, Wizards,
         appVars, boundVars, historyVars, portalVars
    <3>4. CASE ProxyMarkReady(a)
      BY <3>4, NullAssumption DEF QuietInv, QuietAt, Undisturbed, TypeOK, ProxyMarkReady, Wizards,
         appVars, boundVars, historyVars, portalVars
    <3>5. CASE MarkReady(a)
      BY <3>5, NullAssumption DEF QuietInv, QuietAt, Undisturbed, TypeOK, MarkReady, SetStatus, Wizards, Past,
         appVars, boundVars, historyVars, portalVars
    <3>6. CASE StoreReadySession(a)
      BY <3>6, NullAssumption DEF QuietInv, QuietAt, Undisturbed, TypeOK, StoreReadySession, NoFlow,
         appVars, boundVars, historyVars, portalVars
    <3>7. CASE FlowFails(a)
      BY <3>7, NullAssumption DEF QuietInv, QuietAt, Undisturbed, TypeOK, FlowFails, NoFlow,
         appVars, boundVars, historyVars, portalVars
    <3>8. CASE ProxyCrash(a)
      BY <3>8, NullAssumption DEF QuietInv, QuietAt, Undisturbed, TypeOK, ProxyCrash, NoFlow,
         appVars, boundVars, historyVars, portalVars
    <3> QED
      BY <2>5, <3>1, <3>2, <3>3, <3>4, <3>5, <3>6, <3>7, <3>8 DEF FlowNext
  <2>6. ASSUME NEW a \in Apps, PollNext(a) PROVE QuietInv'
    <3>1. CASE PollSkip(a)
      BY <3>1, NullAssumption DEF QuietInv, QuietAt, Undisturbed, TypeOK, PollSkip, PollDone, NoPoll, Polls,
         appVars, boundVars, historyVars, portalVars
    <3>2. CASE PollConfirm(a)
      <4>1. /\ poll'.todo = poll.todo /\ poll'.app = a /\ poll'.step = "notify"
            /\ poll.step = "next" /\ a \in poll.todo
        BY <3>2 DEF TypeOK, PollConfirm, Polls
      <4>2. /\ confirm'[a] = [value |-> "pending", ttl |-> TRUE]
            /\ \A b \in Apps \ {a} : confirm'[b] = confirm[b] /\ job'[b] = job[b]
            /\ job'[a].state = job[a].state
        BY <3>2 DEF TypeOK, PollConfirm, Jobs
      <4>3. UNCHANGED <<status, run, wizard, hooks, flows, saidYes>>
        BY <3>2 DEF PollConfirm, appVars, boundVars
      <4>4. poll.app = NoApp /\ \A b \in Apps : b # NoApp
        BY <4>1, NullAssumption DEF QuietInv
      <4>5. Undisturbed(a) => status[a] = "waiting" /\ job[a].state = "none"
        BY <4>1, <4>4 DEF QuietInv, QuietAt, Undisturbed, Past
      <4>6. QuietAt(a)'
        BY <4>1, <4>2, <4>3, <4>5 DEF QuietInv, QuietAt, Undisturbed
      <4>7. \A b \in Apps \ {a} : QuietAt(b)'
        BY <4>1, <4>2, <4>3, <4>4 DEF QuietInv, QuietAt, Undisturbed
      <4> QED
        BY <4>1, <4>6, <4>7 DEF QuietInv
    <3>3. CASE PollNotify(a)
      BY <3>3, NullAssumption DEF QuietInv, QuietAt, Undisturbed, TypeOK, PollNotify, Polls,
         appVars, boundVars, historyVars, portalVars
    <3>4. CASE PollMarkSubmitting(a)
      BY <3>4, NullAssumption DEF QuietInv, QuietAt, Undisturbed, TypeOK, PollMarkSubmitting, SetStatus, Past, Polls,
         appVars, boundVars, historyVars, portalVars
    <3>5. CASE PollEnqueue(a)
      <4>1. /\ poll'.todo = poll.todo \ {a} /\ poll'.app = NoApp /\ poll'.step = "next"
            /\ poll.step = "enqueue" /\ poll.app = a
        BY <3>5 DEF TypeOK, PollEnqueue, PollDone, NoPoll, Polls
      <4>2. /\ \A b \in Apps \ {a} : job'[b] = job[b]
            /\ \/ job'[a] = job[a]
               \/ /\ job[a].state = "none"
                  /\ job'[a].state = "deferred" /\ job'[a].held
        BY <3>5 DEF TypeOK, PollEnqueue, Enqueue, Jobs
      <4>3. UNCHANGED <<status, confirm, run, wizard, hooks, flows, saidYes>>
        BY <3>5 DEF PollEnqueue, appVars, boundVars, historyVars
      <4>4. \A b \in Apps : b # NoApp
        BY NullAssumption
      <4>5. Undisturbed(a) => status[a] \in Past
        BY <4>1 DEF QuietInv, QuietAt, Undisturbed
      <4>6. QuietAt(a)'
        BY <4>1, <4>2, <4>3, <4>4, <4>5 DEF QuietInv, QuietAt, Undisturbed
      <4>7. \A b \in Apps \ {a} : QuietAt(b)'
        BY <4>1, <4>2, <4>3, <4>4 DEF QuietInv, QuietAt, Undisturbed
      <4> QED
        BY <4>1, <4>6, <4>7 DEF QuietInv
    <3> QED
      BY <2>6, <3>1, <3>2, <3>3, <3>4, <3>5 DEF PollNext
  <2>7. ASSUME NEW a \in Apps, WebhookNext(a) PROVE QuietInv'
    <3>1. CASE PressYes(a)
      BY <3>1, NullAssumption DEF QuietInv, QuietAt, Undisturbed, TypeOK, PressYes, UpdateConfirm, ConfirmKeys,
         appVars, boundVars, historyVars, portalVars
    <3>2. CASE EnqueueSubmit(a)
      BY <3>2, NullAssumption DEF QuietInv, QuietAt, Undisturbed, TypeOK, EnqueueSubmit, Enqueue, Jobs,
         appVars, boundVars, historyVars, portalVars
    <3>3. CASE PressNo(a)
      BY <3>3, NullAssumption DEF QuietInv, QuietAt, Undisturbed, TypeOK, PressNo, UpdateConfirm, ConfirmKeys,
         appVars, boundVars, historyVars, portalVars
    <3>4. CASE WebhookCrash(a)
      BY <3>4, NullAssumption DEF QuietInv, QuietAt, Undisturbed, TypeOK, WebhookCrash, appVars,
         boundVars, historyVars, portalVars
    <3> QED
      BY <2>7, <3>1, <3>2, <3>3, <3>4 DEF WebhookNext
  <2>8. ASSUME NEW a \in Apps, ArqStep(a) PROVE QuietInv'
    <3>1. CASE JobDue(a)
      BY <3>1, NullAssumption DEF QuietInv, QuietAt, Undisturbed, TypeOK, JobDue, Jobs,
         appVars, boundVars, historyVars, portalVars
    <3>2. CASE StartJob(a)
      BY <3>2, NullAssumption DEF QuietInv, QuietAt, Undisturbed, TypeOK, StartJob, Jobs, Runs,
         appVars, boundVars, historyVars, portalVars
    <3>3. CASE JobExhausted(a)
      BY <3>3, NullAssumption DEF QuietInv, QuietAt, Undisturbed, TypeOK, JobExhausted, KeepResult, Jobs,
         appVars, boundVars, historyVars, portalVars
    <3>4. CASE JobReturns(a)
      BY <3>4, NullAssumption DEF QuietInv, QuietAt, Undisturbed, TypeOK, JobReturns, JobEnds, KeepResult, Jobs, Idle, Past,
         appVars, boundVars, historyVars, portalVars
    <3> QED
      BY <2>8, <3>1, <3>2, <3>3, <3>4 DEF ArqStep
  <2>9. ASSUME NEW a \in Apps, WorkerStep(a) PROVE QuietInv'
    <3>1. CASE GetConfirm(a)
      BY <3>1, NullAssumption DEF QuietInv, QuietAt, Undisturbed, TypeOK, GetConfirm, Runs,
         appVars, boundVars, historyVars, portalVars
    <3>2. CASE LoadApp(a)
      BY <3>2, NullAssumption DEF QuietInv, QuietAt, Undisturbed, TypeOK, LoadApp, Runs,
         appVars, boundVars, historyVars, portalVars
    <3>3. CASE CancelByUser(a)
      BY <3>3, NullAssumption DEF QuietInv, QuietAt, Undisturbed, TypeOK, CancelByUser, RunStep, SetStatus, Past, Runs,
         appVars, boundVars, historyVars, portalVars
    <3>4. CASE GetSession(a)
      BY <3>4, NullAssumption DEF QuietInv, QuietAt, Undisturbed, TypeOK, GetSession, Runs,
         appVars, boundVars, historyVars, portalVars
    <3>5. CASE SessionMissing(a)
      BY <3>5, NullAssumption DEF QuietInv, QuietAt, Undisturbed, TypeOK, SessionMissing, Requeue, Idle, Jobs,
         appVars, boundVars, historyVars, portalVars
    <3>6. CASE PublicApplication(a)
      <4>1. PICK p \in {"ok", "refused", "failed"} :
               run[a].pc = "call" /\ run' = [run EXCEPT ![a].pc = p]
        BY <3>6 DEF PublicApplication, RunStep
      <4>2. UNCHANGED <<status, confirm, job, wizard, poll, hooks, flows, saidYes>>
        BY <3>6 DEF PublicApplication, appVars, boundVars, historyVars
      <4> QED
        BY <4>1, <4>2 DEF QuietInv, QuietAt, Undisturbed, TypeOK, Runs
    <3>7. CASE MarkSubmitted(a)
      BY <3>7, NullAssumption DEF QuietInv, QuietAt, Undisturbed, TypeOK, MarkSubmitted, RunStep, SetStatus, Past, Runs,
         appVars, boundVars, historyVars, portalVars
    <3>8. CASE RetryLater(a)
      BY <3>8, NullAssumption DEF QuietInv, QuietAt, Undisturbed, TypeOK, RetryLater, Requeue, WorthRetry, Idle, Jobs,
         appVars, boundVars, historyVars, portalVars
    <3>9. CASE GiveUp(a)
      BY <3>9, NullAssumption DEF QuietInv, QuietAt, Undisturbed, TypeOK, GiveUp, RunStep, SetStatus, Past, Runs,
         appVars, boundVars, historyVars, portalVars
    <3> QED
      BY <2>9, <3>1, <3>2, <3>3, <3>4, <3>5, <3>6, <3>7, <3>8, <3>9 DEF WorkerStep
  <2>10. ASSUME NEW a \in Apps, WorkerFault(a) PROVE QuietInv'
    <3>1. CASE WorkerCrash(a)
      BY <3>1, NullAssumption DEF QuietInv, QuietAt, Undisturbed, TypeOK, WorkerCrash, Requeue, Idle, Jobs,
         appVars, boundVars, historyVars, portalVars
    <3>2. CASE JobRaises(a)
      BY <3>2, NullAssumption DEF QuietInv, QuietAt, Undisturbed, TypeOK, JobRaises, JobEnds, KeepResult, Jobs, Idle,
         appVars, boundVars, historyVars, portalVars
    <3> QED
      BY <2>10, <3>1, <3>2 DEF WorkerFault
  <2>11. ASSUME NEW a \in Apps, ConfirmExpires(a) PROVE QuietInv'
    BY <2>11, NullAssumption DEF QuietInv, QuietAt, Undisturbed, TypeOK, ConfirmExpires, NoKey, ConfirmKeys, appVars,
       boundVars, historyVars
  <2>12. ASSUME NEW a \in Apps, ResultExpires(a) PROVE QuietInv'
    BY <2>12, NullAssumption DEF QuietInv, QuietAt, Undisturbed, TypeOK, ResultExpires, NoJob, appVars, boundVars,
       historyVars
  <2> QED
    BY <2>2, <2>3, <2>4, <2>5, <2>6, <2>7, <2>8, <2>9, <2>10, <2>11, <2>12 DEF Next
<1> QED
  BY <1>1, <1>2, TypeCorrect, PTL DEF Spec

\* Whatever the bounds and the faults, no attempt is under way while the question of a
\* poll stands unanswered, unless the user has said "yes": provided that no second tab
\* runs the flow for a row that has left "draft" (poll_watchlist_tenders,
\* get_confirm, auto_submit_application).
THEOREM WindowSafe ==
    ASSUME ~Rerun
    PROVE  Spec => []WindowRespected
<1>1. QuietInv => WindowRespected
  <2> SUFFICES ASSUME QuietInv, NEW a \in Apps, run[a].pc \in Publishing, ~saidYes[a]
               PROVE  confirm[a].value # "pending"
    BY DEF WindowRespected
  <2>1. job[a].state = "running"
    BY DEF QuietInv, QuietAt, Undisturbed, Publishing
  <2> QED
    BY <2>1 DEF QuietInv, QuietAt, Undisturbed
<1> QED
  BY <1>1, QuietInvariant, PTL
-----------------------------------------------------------------------------
(* An attempt is under way exactly while its job is.                         *)
RunInv == \A b \in Apps : run[b].pc # "off" <=> job[b].state = "running"

LEMMA RunFrame ==
    ASSUME RunInv, UNCHANGED <<run, job>>
    PROVE  RunInv'
BY DEF RunInv

\* The steps of auto_submit_application and of ARQ keep job and coroutine together,
\* and nobody else starts or ends either.
LEMMA RunInvariant == Spec => []RunInv
<1>1. Init => RunInv
  BY DEF Init, RunInv, Idle, NoJob
<1>2. TypeOK /\ RunInv /\ [Next]_vars => RunInv'
  <2> SUFFICES ASSUME TypeOK, RunInv, [Next]_vars PROVE RunInv'
    OBVIOUS
  <2>1. CASE PollStart \/ PollCrash \/ UNCHANGED vars \/ \E u \in Users : SessionExpires(u)
    BY <2>1, RunFrame DEF PollStart, PollCrash, SessionExpires, vars
  <2>2. ASSUME NEW a \in Apps, FlowNext(a) \/ TenderOpens(a) \/ ConfirmExpires(a) PROVE RunInv'
    BY <2>2, RunFrame DEF FlowNext, ProxyAuthLogin, ProxyCreateDraft, StoreDraftSession,
       ProxyMarkReady, MarkReady, StoreReadySession, FlowFails, ProxyCrash, TenderOpens,
       ConfirmExpires
  <2>3. ASSUME NEW a \in Apps, PollNext(a) \/ ResultExpires(a) PROVE RunInv'
    <3>1. CASE PollSkip(a) \/ PollNotify(a) \/ PollMarkSubmitting(a)
      BY <3>1, RunFrame DEF PollSkip, PollNotify, PollMarkSubmitting
    <3>2. CASE PollConfirm(a) \/ PollEnqueue(a) \/ ResultExpires(a)
      <4>1. CASE PollConfirm(a)
        BY <4>1 DEF PollConfirm, RunInv, TypeOK, Jobs
      <4>2. CASE PollEnqueue(a)
        BY <4>2 DEF PollEnqueue, Enqueue, RunInv, TypeOK
      <4>3. CASE ResultExpires(a)
        BY <4>3 DEF ResultExpires, RunInv, TypeOK, NoJob
      <4> QED
        BY <3>2, <4>1, <4>2, <4>3
    <3> QED
      BY <2>3, <3>1, <3>2 DEF PollNext
  <2>4. ASSUME NEW a \in Apps, WebhookNext(a) PROVE RunInv'
    <3>1. CASE EnqueueSubmit(a)
      BY <3>1 DEF EnqueueSubmit, Enqueue, RunInv, TypeOK, Jobs
    <3>2. CASE PressYes(a) \/ PressNo(a) \/ WebhookCrash(a)
      BY <3>2, RunFrame DEF PressYes, PressNo, WebhookCrash
    <3> QED
      BY <2>4, <3>1, <3>2 DEF WebhookNext
  <2>5. ASSUME NEW a \in Apps, ArqStep(a) PROVE RunInv'
    <3>1. CASE JobDue(a) \/ JobExhausted(a)
      <4>1. job[a].state # "running" /\ UNCHANGED run
        BY <3>1 DEF JobDue, JobExhausted
      <4>2. job' = [job EXCEPT ![a].state = "queued"] \/ KeepResult(a)
        BY <3>1 DEF JobDue, JobExhausted
      <4>3. job'[a].state # "running" /\ \A b \in Apps \ {a} : job'[b] = job[b]
        BY <4>2 DEF TypeOK, Jobs, KeepResult
      <4> QED
        BY <4>1, <4>3 DEF RunInv
    <3>2. CASE StartJob(a)
      BY <3>2 DEF StartJob, RunInv, TypeOK, Jobs, Runs
    <3>3. CASE JobReturns(a)
      BY <3>3 DEF JobReturns, JobEnds, KeepResult, Idle, RunInv, TypeOK, Jobs
    <3> QED
      BY <2>5, <3>1, <3>2, <3>3 DEF ArqStep
  <2>6. ASSUME NEW a \in Apps, WorkerFault(a) \/ SessionMissing(a) \/ RetryLater(a) PROVE RunInv'
    <3>1. run' = [run EXCEPT ![a] = Idle]
      BY <2>6 DEF WorkerFault, WorkerCrash, JobRaises, JobEnds, SessionMissing, RetryLater, Requeue
    <3>2. job' = [job EXCEPT ![a].state = "queued"] \/ KeepResult(a)
      BY <2>6 DEF WorkerFault, WorkerCrash, JobRaises, JobEnds, SessionMissing, RetryLater, Requeue
    <3> QED
      BY <3>1, <3>2 DEF RunInv, TypeOK, Jobs, KeepResult, Idle
  <2>7. ASSUME NEW a \in Apps, WorkerStep(a) PROVE RunInv'
    <3>1. CASE GetConfirm(a) \/ LoadApp(a) \/ GetSession(a)
      <4>1. CASE GetConfirm(a)
        BY <4>1 DEF GetConfirm, RunInv, TypeOK, Runs
      <4>2. CASE LoadApp(a)
        BY <4>2 DEF LoadApp, RunInv, TypeOK, Runs
      <4>3. CASE GetSession(a)
        BY <4>3 DEF GetSession, RunInv, TypeOK, Runs
      <4> QED
        BY <3>1, <4>1, <4>2, <4>3
    <3>2. CASE CancelByUser(a) \/ MarkSubmitted(a) \/ GiveUp(a)
      <4>1. run[a].pc # "off" /\ run' = [run EXCEPT ![a].pc = "return"] /\ UNCHANGED job
        BY <3>2 DEF CancelByUser, MarkSubmitted, GiveUp, RunStep
      <4> QED
        BY <4>1 DEF RunInv, TypeOK, Runs
    <3>3. CASE PublicApplication(a)
      <4>1. PICK p \in {"ok", "refused", "failed"} :
               run[a].pc = "call" /\ run' = [run EXCEPT ![a].pc = p]
        BY <3>3 DEF PublicApplication, RunStep
      <4>2. UNCHANGED job
        BY <3>3 DEF PublicApplication
      <4> QED
        BY <4>1, <4>2 DEF RunInv, TypeOK, Runs
    <3> QED
      BY <2>6, <2>7, <3>1, <3>2, <3>3 DEF WorkerStep
  <2> QED
    BY <2>1, <2>2, <2>3, <2>4, <2>5, <2>6, <2>7 DEF Next
<1> QED
  BY <1>1, <1>2, TypeCorrect, PTL DEF Spec
-----------------------------------------------------------------------------
(* While nothing has failed, a job that has reported its row as submitted is *)
(* over or about to be, and a row that is "submitting" has had its job.      *)
OnceAt(b) == faults = 0 =>
    /\ status[b] = "submitted" => job[b].state = "kept" \/ run[b].pc = "return"
    /\ status[b] = "submitting" => job[b].state # "none" \/ Asking(b)

OnceInv == \A b \in Apps : OnceAt(b)

LEMMA OnceFrame ==
    ASSUME OnceInv, UNCHANGED <<status, job, run, poll, faults>>
    PROVE  OnceInv'
BY DEF OnceInv, OnceAt, Asking

\* Nothing is claimed of what follows a crash.
LEMMA OnceFault ==
    ASSUME TypeOK, faults' = faults + 1
    PROVE  OnceInv'
BY DEF OnceInv, OnceAt, TypeOK

\* ARQ's unique job id (submit:{application_id}) holds a job that is over for as long
\* as its result key lives; the steps of the poll, the webhook and the job respect it.
LEMMA OnceInvariant ==
    ASSUME ~ResultsExpire
    PROVE  Spec => []OnceInv
<1>1. Init => OnceInv
  BY DEF Init, OnceInv, OnceAt
<1>2. TypeOK /\ RunInv /\ OnceInv /\ [Next]_vars => OnceInv'
  <2> SUFFICES ASSUME TypeOK, RunInv, OnceInv, [Next]_vars PROVE OnceInv'
    OBVIOUS
  <2>1. CASE UNCHANGED vars \/ \E u \in Users : SessionExpires(u)
    BY <2>1, OnceFrame DEF SessionExpires, vars, appVars, boundVars
  <2>2. CASE PollStart
    BY <2>2 DEF PollStart, NoPoll, OnceInv, OnceAt, Asking, appVars, boundVars
  <2>3. CASE PollCrash
    BY <2>3, OnceFault DEF PollCrash
  <2>4. ASSUME NEW a \in Apps, FlowNext(a) PROVE OnceInv'
    <3>1. CASE MarkReady(a)
      BY <3>1 DEF MarkReady, SetStatus, OnceInv, OnceAt, Asking, TypeOK, boundVars
    <3>2. CASE ProxyCrash(a)
      BY <3>2, OnceFault DEF ProxyCrash
    <3> QED
      BY <2>4, <3>1, <3>2, OnceFrame DEF FlowNext, ProxyAuthLogin, ProxyCreateDraft,
         StoreDraftSession, ProxyMarkReady, StoreReadySession, FlowFails, appVars, boundVars
  <2>5. ASSUME NEW a \in Apps, TenderOpens(a) \/ ConfirmExpires(a) \/ ResultExpires(a) PROVE OnceInv'
    BY <2>5, OnceFrame DEF TenderOpens, ConfirmExpires, ResultExpires, appVars, boundVars
  <2>6. ASSUME NEW a \in Apps, PollNext(a) PROVE OnceInv'
    <3>1. CASE PollSkip(a)
      BY <3>1 DEF PollSkip, PollDone, NoPoll, OnceInv, OnceAt, Asking, appVars, boundVars
    <3>2. CASE PollConfirm(a)
      BY <3>2 DEF PollConfirm, OnceInv, OnceAt, Asking, TypeOK, Jobs, appVars, boundVars
    <3>3. CASE PollNotify(a)
      BY <3>3 DEF PollNotify, OnceInv, OnceAt, Asking, appVars, boundVars
    <3>4. CASE PollMarkSubmitting(a)
      BY <3>4 DEF PollMarkSubmitting, SetStatus, OnceInv, OnceAt, Asking, TypeOK, Polls, boundVars
    <3>5. CASE PollEnqueue(a)
      BY <3>5 DEF PollEnqueue, PollDone, Enqueue, NoPoll, OnceInv, OnceAt, Asking, TypeOK, Jobs,
         appVars, boundVars
    <3> QED
      BY <2>6, <3>1, <3>2, <3>3, <3>4, <3>5 DEF PollNext
  <2>7. ASSUME NEW a \in Apps, WebhookNext(a) PROVE OnceInv'
    <3>1. CASE EnqueueSubmit(a)
      BY <3>1 DEF EnqueueSubmit, Enqueue, OnceInv, OnceAt, Asking, TypeOK, Jobs, appVars, boundVars
    <3>2. CASE PressYes(a) \/ PressNo(a)
      BY <3>2, OnceFrame DEF PressYes, PressNo, appVars
    <3>3. CASE WebhookCrash(a)
      BY <3>3, OnceFault DEF WebhookCrash
    <3> QED
      BY <2>7, <3>1, <3>2, <3>3 DEF WebhookNext
  <2>8. ASSUME NEW a \in Apps, ArqStep(a) PROVE OnceInv'
    <3>1. CASE JobDue(a) \/ JobExhausted(a)
      <4>1. CASE JobDue(a)
        BY <4>1 DEF JobDue, OnceInv, OnceAt, Asking, TypeOK, Jobs, appVars, boundVars
      <4>2. CASE JobExhausted(a)
        BY <4>2 DEF JobExhausted, KeepResult, OnceInv, OnceAt, Asking, TypeOK, Jobs, appVars, boundVars
      <4> QED
        BY <3>1, <4>1, <4>2
    <3>2. CASE StartJob(a)
      BY <3>2 DEF StartJob, RunInv, OnceInv, OnceAt, Asking, TypeOK, Jobs, Runs, appVars, boundVars
    <3>3. CASE JobReturns(a)
      BY <3>3 DEF JobReturns, JobEnds, KeepResult, OnceInv, OnceAt, Asking, TypeOK, Jobs,
         appVars, boundVars
    <3> QED
      BY <2>8, <3>1, <3>2, <3>3 DEF ArqStep
  <2>9. ASSUME NEW a \in Apps, WorkerFault(a) PROVE OnceInv'
    BY <2>9, OnceFault DEF WorkerFault, WorkerCrash, JobRaises
  <2>10. ASSUME NEW a \in Apps, WorkerStep(a) PROVE OnceInv'
    <3>1. CASE GetConfirm(a)
      BY <3>1 DEF GetConfirm, OnceInv, OnceAt, Asking, TypeOK, Runs, appVars, boundVars
    <3>2. CASE LoadApp(a)
      BY <3>2 DEF LoadApp, OnceInv, OnceAt, Asking, TypeOK, Runs, appVars, boundVars
    <3>3. CASE GetSession(a)
      BY <3>3 DEF GetSession, OnceInv, OnceAt, Asking, TypeOK, Runs, appVars, boundVars
    <3>4. CASE SessionMissing(a) \/ RetryLater(a)
      <4>1. /\ run[a].pc \notin {"off", "return"} /\ run' = [run EXCEPT ![a] = Idle]
            /\ job' = [job EXCEPT ![a].state = "queued"]
            /\ UNCHANGED <<status, poll, faults>>
        BY <3>4 DEF SessionMissing, RetryLater, WorthRetry, Requeue, appVars, boundVars
      <4> QED
        BY <4>1 DEF RunInv, OnceInv, OnceAt, Asking, TypeOK, Jobs
    <3>5. CASE PublicApplication(a)
      <4>1. PICK p \in {"ok", "refused", "failed"} :
               run[a].pc = "call" /\ run' = [run EXCEPT ![a].pc = p]
        BY <3>5 DEF PublicApplication, RunStep
      <4>2. UNCHANGED <<status, job, poll, faults>>
        BY <3>5 DEF PublicApplication, appVars, boundVars
      <4> QED
        BY <4>1, <4>2 DEF OnceInv, OnceAt, Asking, TypeOK, Runs
    <3>6. CASE CancelByUser(a) \/ MarkSubmitted(a) \/ GiveUp(a)
      <4>1. /\ run' = [run EXCEPT ![a].pc = "return"]
            /\ \E s \in {"submitted", "error"} : SetStatus(a, run[a].loaded, s)
            /\ UNCHANGED <<job, poll, faults>>
        BY <3>6 DEF CancelByUser, MarkSubmitted, GiveUp, RunStep, boundVars
      <4> QED
        BY <4>1 DEF SetStatus, OnceInv, OnceAt, Asking, TypeOK, Runs
    <3> QED
      BY <2>10, <3>1, <3>2, <3>3, <3>4, <3>5, <3>6 DEF WorkerStep
  <2> QED
    BY <2>1, <2>2, <2>3, <2>4, <2>5, <2>6, <2>7, <2>8, <2>9, <2>10 DEF Next
<1> QED
  BY <1>1, <1>2, TypeCorrect, RunInvariant, PTL DEF Spec

\* While the result key of a job lives and nothing has failed, the portal is never
\* asked to publish what is reported as submitted (T-05-32: enqueue_submit, poll step 4):
\* what is left of it is the crash that makes ARQ run a finished attempt again.
THEOREM RepeatSafe ==
    ASSUME ~ResultsExpire
    PROVE  Spec => RepeatNeedsFault
<1>1. TypeOK /\ RunInv /\ OnceInv /\ [Next]_vars
        => [\A a \in Apps : PublicApplication(a) /\ status[a] = "submitted" => faults > 0]_vars
  <2> SUFFICES ASSUME TypeOK, RunInv, OnceInv, NEW a \in Apps, PublicApplication(a),
                      status[a] = "submitted", faults = 0
               PROVE  FALSE
    BY DEF TypeOK
  <2>1. run[a].pc = "call" /\ job[a].state = "running"
    BY DEF PublicApplication, RunStep, RunInv
  <2> QED
    BY <2>1 DEF OnceInv, OnceAt
<1> QED
  BY <1>1, TypeCorrect, RunInvariant, OnceInvariant, PTL DEF Spec, RepeatNeedsFault

\* A row that is "submitting" has a job, or poll_watchlist_tenders stands between
\* mark_submitting and enqueue_job: a crash just there is the only way to the row
\* that nobody takes up again.
THEOREM OrphanSafe ==
    ASSUME ~ResultsExpire
    PROVE  Spec => []OrphanNeedsFault
<1>1. OnceInv => OrphanNeedsFault
  BY DEF OnceInv, OnceAt, OrphanNeedsFault
<1> QED
  BY <1>1, OnceInvariant, PTL
-----------------------------------------------------------------------------
(* Before the user's "yes" and without a failure or a second flow the poll    *)
(* alone enqueues a job, once, and the row follows it: "submitting" until the *)
(* attempt that concludes is over.                                            *)
FollowAt(b) == Calm(b) =>
    /\ Asking(b) => status[b] = "submitting" /\ job[b].state = "none"
    /\ Live(b) => status[b] = "submitting" \/ run[b].pc = "return"
    /\ run[b].pc \in Publishing \cup {"cancel"} => run[b].loaded = "submitting"

FollowInv == \A b \in Apps : FollowAt(b)

LEMMA FollowFrame ==
    ASSUME FollowInv, UNCHANGED <<status, job, run, poll, flows, faults, saidYes>>
    PROVE  FollowInv'
BY DEF FollowInv, FollowAt, Calm, Undisturbed, Asking, Live

LEMMA FollowFault ==
    ASSUME TypeOK, faults' = faults + 1
    PROVE  FollowInv'
BY DEF FollowInv, FollowAt, Calm, Undisturbed, TypeOK

\* The row and the job of an unanswered question stay together (mark_submitting,
\* enqueue_job, and the loads and writes of auto_submit_application).
LEMMA FollowInvariant == Spec => []FollowInv
<1>1. Init => FollowInv
  BY DEF Init, FollowInv, FollowAt, Asking, Live, NoPoll, NoJob, Idle, Publishing
<1>2. TypeOK /\ RunInv /\ QuietInv /\ FollowInv /\ [Next]_vars => FollowInv'
  <2> SUFFICES ASSUME TypeOK, RunInv, QuietInv, FollowInv, [Next]_vars PROVE FollowInv'
    OBVIOUS
  <2>1. CASE UNCHANGED vars \/ \E u \in Users : SessionExpires(u)
    BY <2>1, FollowFrame DEF SessionExpires, vars, appVars, boundVars, historyVars
  <2>2. CASE PollStart
    BY <2>2 DEF PollStart, NoPoll, FollowInv, FollowAt, Calm, Undisturbed, Asking, Live, appVars, boundVars,
       historyVars
  <2>3. CASE PollCrash
    BY <2>3, FollowFault DEF PollCrash
  <2>4. ASSUME NEW a \in Apps, FlowNext(a) PROVE FollowInv'
    <3>1. CASE MarkReady(a)
      <4>1. Calm(a) => status[a] = "draft"
        BY <3>1 DEF MarkReady, QuietInv, QuietAt, Calm
      <4>2. UNCHANGED <<job, run, poll, flows, faults, saidYes>>
        BY <3>1 DEF MarkReady, boundVars, historyVars
      <4>3. \A b \in Apps : b # a => status'[b] = status[b]
        BY <3>1 DEF MarkReady, SetStatus, TypeOK
      <4>4. Calm(a) => ~Asking(a) /\ ~Live(a)
        BY <4>1 DEF FollowInv, FollowAt, QuietInv, QuietAt, Calm, Undisturbed, Live, Past
      <4>5. Calm(a) => run[a].pc = "off"
        BY <4>4 DEF RunInv, Live
      <4> QED
        BY <4>1, <4>2, <4>3, <4>4, <4>5 DEF FollowInv, FollowAt, Calm, Undisturbed, Asking, Live, Publishing
    <3>2. CASE ProxyCrash(a)
      BY <3>2, FollowFault DEF ProxyCrash
    <3>3. CASE ProxyAuthLogin(a)
      <4>1. /\ UNCHANGED <<status, job, run, poll, faults, saidYes>>
            /\ flows' = [flows EXCEPT ![a] = @ + 1]
        BY <3>3 DEF ProxyAuthLogin, appVars, historyVars
      <4>2. \A b \in Apps : Calm(b)' => Calm(b)
        BY <4>1 DEF Calm, Undisturbed, TypeOK
      <4> QED
        BY <4>1, <4>2 DEF FollowInv, FollowAt, Asking, Live
    <3> QED
      BY <2>4, <3>1, <3>2, <3>3, FollowFrame DEF FlowNext, ProxyCreateDraft,
         StoreDraftSession, ProxyMarkReady, StoreReadySession, FlowFails, appVars, boundVars,
         historyVars
  <2>5. ASSUME NEW a \in Apps, TenderOpens(a) \/ ConfirmExpires(a) PROVE FollowInv'
    BY <2>5, FollowFrame DEF TenderOpens, ConfirmExpires, appVars, boundVars, historyVars
  <2>6. ASSUME NEW a \in Apps, ResultExpires(a) PROVE FollowInv'
    BY <2>6 DEF ResultExpires, NoJob, FollowInv, FollowAt, Calm, Undisturbed, Asking, Live, TypeOK, appVars,
       boundVars, historyVars
  <2>7. ASSUME NEW a \in Apps, PollNext(a) PROVE FollowInv'
    <3>1. CASE PollSkip(a)
      BY <3>1 DEF PollSkip, PollDone, NoPoll, FollowInv, FollowAt, Calm, Undisturbed, Asking, Live, appVars,
         boundVars, historyVars
    <3>2. CASE PollConfirm(a)
      BY <3>2 DEF PollConfirm, FollowInv, FollowAt, Calm, Undisturbed, Asking, Live, TypeOK, Jobs, appVars,
         boundVars, historyVars
    <3>3. CASE PollNotify(a)
      BY <3>3 DEF PollNotify, FollowInv, FollowAt, Calm, Undisturbed, Asking, Live, appVars, boundVars,
         historyVars
    <3>4. CASE PollMarkSubmitting(a)
      <4>1. Calm(a) => status[a] = "waiting"
        BY <3>4 DEF PollMarkSubmitting, QuietInv, QuietAt, Calm
      <4>2. Calm(a) => job[a].state = "none" /\ run[a].pc = "off"
        BY <4>1 DEF QuietInv, QuietAt, Calm, Undisturbed, Past, RunInv
      <4>3. /\ status' = [status EXCEPT ![a] = "submitting"]
            /\ poll.app = a /\ poll' = [poll EXCEPT !.step = "enqueue"]
            /\ UNCHANGED <<job, run, flows, faults, saidYes>>
        BY <3>4 DEF PollMarkSubmitting, SetStatus, boundVars, historyVars
      <4> QED
        BY <4>2, <4>3 DEF FollowInv, FollowAt, Calm, Undisturbed, Asking, Live, TypeOK, Polls, Publishing
    <3>5. CASE PollEnqueue(a)
      BY <3>5 DEF PollEnqueue, PollDone, Enqueue, NoPoll, FollowInv, FollowAt, Calm, Undisturbed, Asking, Live,
         TypeOK, Jobs, appVars, boundVars, historyVars
    <3> QED
      BY <2>7, <3>1, <3>2, <3>3, <3>4, <3>5 DEF PollNext
  <2>8. ASSUME NEW a \in Apps, WebhookNext(a) PROVE FollowInv'
    <3>1. CASE EnqueueSubmit(a)
      <4>1. ~Undisturbed(a)
        BY <3>1 DEF EnqueueSubmit, QuietInv, QuietAt
      <4> QED
        BY <3>1, <4>1 DEF EnqueueSubmit, Enqueue, FollowInv, FollowAt, Calm, Undisturbed, Asking, Live, TypeOK,
           appVars, boundVars, historyVars
    <3>2. CASE PressYes(a)
      BY <3>2 DEF PressYes, FollowInv, FollowAt, Calm, Undisturbed, Asking, Live, TypeOK, appVars
    <3>3. CASE PressNo(a)
      BY <3>3, FollowFrame DEF PressNo, appVars
    <3>4. CASE WebhookCrash(a)
      BY <3>4, FollowFault DEF WebhookCrash
    <3> QED
      BY <2>8, <3>1, <3>2, <3>3, <3>4 DEF WebhookNext
  <2>9. ASSUME NEW a \in Apps, ArqStep(a) PROVE FollowInv'
    <3>1. CASE JobDue(a)
      BY <3>1 DEF JobDue, FollowInv, FollowAt, Calm, Undisturbed, Asking, Live, TypeOK, Jobs, appVars, boundVars,
         historyVars
    <3>2. CASE StartJob(a)
      BY <3>2 DEF StartJob, RunInv, FollowInv, FollowAt, Calm, Undisturbed, Asking, Live, Publishing, TypeOK,
         Jobs, Runs, appVars, boundVars
    <3>3. CASE JobExhausted(a)
      BY <3>3 DEF JobExhausted, KeepResult, FollowInv, FollowAt, Calm, Undisturbed, Asking, Live, TypeOK, Jobs, appVars,
         boundVars, historyVars
    <3>4. CASE JobReturns(a)
      <4>1. job[a].state = "running"
        BY <3>4 DEF JobReturns, RunInv
      <4> QED
        BY <3>4, <4>1 DEF JobReturns, JobEnds, KeepResult, Idle, FollowInv, FollowAt, Calm, Undisturbed, Asking,
           Live, Publishing, TypeOK, Jobs, appVars, boundVars, historyVars
    <3> QED
      BY <2>9, <3>1, <3>2, <3>3, <3>4 DEF ArqStep
  <2>10. ASSUME NEW a \in Apps, WorkerFault(a) PROVE FollowInv'
    BY <2>10, FollowFault DEF WorkerFault, WorkerCrash, JobRaises
  <2>11. ASSUME NEW a \in Apps, WorkerStep(a) PROVE FollowInv'
    <3>0. run[a].pc # "off" /\ Live(a)
      BY <2>11 DEF WorkerStep, GetConfirm, LoadApp, CancelByUser, GetSession, SessionMissing,
         PublicApplication, MarkSubmitted, RetryLater, GiveUp, WorthRetry, RunStep, RunInv, Live
    <3>1. CASE GetConfirm(a)
      BY <3>1 DEF GetConfirm, FollowInv, FollowAt, Calm, Undisturbed, Asking, Live, Publishing, TypeOK, Runs,
         appVars, boundVars, historyVars
    <3>2. CASE LoadApp(a)
      <4>1. Calm(a) => status[a] = "submitting"
        BY <3>0, <3>2 DEF LoadApp, FollowInv, FollowAt
      <4> QED
        BY <3>2, <4>1 DEF LoadApp, FollowInv, FollowAt, Calm, Undisturbed, Asking, Live, Publishing, TypeOK,
           Runs, appVars, boundVars, historyVars
    <3>3. CASE GetSession(a)
      BY <3>3 DEF GetSession, FollowInv, FollowAt, Calm, Undisturbed, Asking, Live, Publishing, TypeOK, Runs,
         appVars, boundVars, historyVars
    <3>4. CASE SessionMissing(a) \/ RetryLater(a)
      <4>1. /\ run[a].pc \notin {"off", "return"} /\ run' = [run EXCEPT ![a] = Idle]
            /\ job' = [job EXCEPT ![a].state = "queued"]
            /\ UNCHANGED <<status, poll, flows, faults, saidYes>>
        BY <3>4 DEF SessionMissing, RetryLater, WorthRetry, Requeue, appVars, boundVars, historyVars
      <4>2. Calm(a) => status[a] = "submitting" /\ ~Asking(a)
        BY <3>0, <4>1 DEF FollowInv, FollowAt, Live
      <4> QED
        BY <4>1, <4>2 DEF FollowInv, FollowAt, Calm, Undisturbed, Asking, Live, Publishing, Idle, TypeOK, Jobs
    <3>5. CASE PublicApplication(a)
      <4>1. PICK p \in {"ok", "refused", "failed"} :
               run[a].pc = "call" /\ run' = [run EXCEPT ![a].pc = p]
        BY <3>5 DEF PublicApplication, RunStep
      <4>2. UNCHANGED <<status, job, poll, flows, faults, saidYes>>
        BY <3>5 DEF PublicApplication, appVars, boundVars, historyVars
      <4> QED
        BY <4>1, <4>2 DEF FollowInv, FollowAt, Calm, Undisturbed, Asking, Live, Publishing, TypeOK, Runs
    <3>6. CASE CancelByUser(a) \/ MarkSubmitted(a) \/ GiveUp(a)
      <4>1. /\ run' = [run EXCEPT ![a].pc = "return"]
            /\ \E s \in {"submitted", "error"} : SetStatus(a, run[a].loaded, s)
            /\ UNCHANGED <<job, poll, flows, faults, saidYes>>
        BY <3>6 DEF CancelByUser, MarkSubmitted, GiveUp, RunStep, boundVars, historyVars
      <4>2. Calm(a) => ~Asking(a)
        BY <3>0 DEF FollowInv, FollowAt, Live
      <4> QED
        BY <4>1, <4>2 DEF SetStatus, FollowInv, FollowAt, Calm, Undisturbed, Asking, Live, Publishing, TypeOK,
           Runs
    <3> QED
      BY <2>11, <3>1, <3>2, <3>3, <3>4, <3>5, <3>6 DEF WorkerStep
  <2> QED
    BY <2>1, <2>2, <2>3, <2>4, <2>5, <2>6, <2>7, <2>8, <2>9, <2>10, <2>11 DEF Next
<1> QED
  BY <1>1, <1>2, TypeCorrect, RunInvariant, QuietInvariant, PTL DEF Spec

\* Who writes the status column.
LEMMA StatusWriters ==
    ASSUME Next
    PROVE  \/ UNCHANGED status
           \/ \E a \in Apps : MarkReady(a)
           \/ \E a \in Apps : PollMarkSubmitting(a)
           \/ \E a \in Apps : CancelByUser(a) \/ MarkSubmitted(a) \/ GiveUp(a)
<1>1. CASE PollStart \/ PollCrash \/ \E u \in Users : SessionExpires(u)
  BY <1>1 DEF PollStart, PollCrash, SessionExpires, appVars
<1>2. ASSUME NEW a \in Apps, FlowNext(a) PROVE UNCHANGED status \/ MarkReady(a)
  BY <1>2 DEF FlowNext, ProxyAuthLogin, ProxyCreateDraft, StoreDraftSession, ProxyMarkReady,
     StoreReadySession, FlowFails, ProxyCrash, appVars
<1>3. ASSUME NEW a \in Apps, PollNext(a) PROVE UNCHANGED status \/ PollMarkSubmitting(a)
  BY <1>3 DEF PollNext, PollSkip, PollConfirm, PollNotify, PollEnqueue, appVars
<1>4. ASSUME NEW a \in Apps,
             TenderOpens(a) \/ WebhookNext(a) \/ ConfirmExpires(a) \/ ResultExpires(a)
      PROVE  UNCHANGED status
  BY <1>4 DEF TenderOpens, WebhookNext, PressYes, EnqueueSubmit, PressNo, WebhookCrash,
     ConfirmExpires, ResultExpires, appVars
<1>5. ASSUME NEW a \in Apps, ArqStep(a) \/ WorkerFault(a) PROVE UNCHANGED status
  BY <1>5 DEF ArqStep, JobDue, StartJob, JobExhausted, JobReturns, WorkerFault, WorkerCrash,
     JobRaises, appVars
<1>6. ASSUME NEW a \in Apps, WorkerStep(a)
      PROVE  UNCHANGED status \/ CancelByUser(a) \/ MarkSubmitted(a) \/ GiveUp(a)
  BY <1>6 DEF WorkerStep, GetConfirm, LoadApp, GetSession, SessionMissing, PublicApplication,
     RetryLater, appVars
<1> QED
  BY <1>1, <1>2, <1>3, <1>4, <1>5, <1>6 DEF Next

\* While nothing has failed, the user has not said "yes" and no second tab runs the flow,
\* every change of the status column is a step of ApplicationLifecycle, for users with
\* and without a chat and whatever ARQ's limits: neither the rows that a run of the poll
\* holds, nor questions, refusals and retries break it (the header of
\* application_service.py; mark_ready, mark_submitting, mark_submitted, mark_error).
THEOREM ArrowsSafe == Spec => LifecycleUnlessAnswered
<1>1. TypeOK /\ RunInv /\ QuietInv /\ FollowInv /\ [Next]_vars
        => [\A a \in Apps : status'[a] # status[a]
               => Lifecycle!Step(a) \/ ~Calm(a)]_vars
  <2> SUFFICES ASSUME TypeOK, RunInv, QuietInv, FollowInv, Next, NEW b \in Apps,
                      status'[b] # status[b], Calm(b)
               PROVE  Lifecycle!Step(b)
    OBVIOUS
  <2>0. QuietAt(b) /\ FollowAt(b) /\ Undisturbed(b) /\ status \in [Apps -> Statuses]
    BY DEF QuietInv, FollowInv, Calm, TypeOK
  <2>1. ASSUME NEW a \in Apps, MarkReady(a) PROVE Lifecycle!Ready(b)
    <3>1. /\ a = b /\ status' = [status EXCEPT ![b] = "waiting"]
          /\ wizard[b].step = "readyLoaded"
      BY <2>0, <2>1 DEF MarkReady, SetStatus
    <3> QED
      BY <2>0, <3>1 DEF QuietAt, Lifecycle!Ready, Lifecycle!Move
  <2>2. ASSUME NEW a \in Apps, PollMarkSubmitting(a) PROVE Lifecycle!Submit(b)
    <3>1. /\ a = b /\ status' = [status EXCEPT ![b] = "submitting"]
          /\ poll.app = b /\ poll.step = "mark"
      BY <2>0, <2>2 DEF PollMarkSubmitting, SetStatus
    <3> QED
      BY <2>0, <3>1 DEF QuietAt, Lifecycle!Submit, Lifecycle!Move
  <2>3. ASSUME NEW a \in Apps, CancelByUser(a) \/ MarkSubmitted(a) \/ GiveUp(a)
        PROVE  Lifecycle!Conclude(b)
    <3>1. /\ run[a].pc \notin {"off", "return"}
          /\ \E s \in {"submitted", "error"} : SetStatus(a, run[a].loaded, s)
      BY <2>3 DEF CancelByUser, MarkSubmitted, GiveUp, RunStep
    <3>2. a = b /\ \E s \in {"submitted", "error"} : status' = [status EXCEPT ![b] = s]
      BY <2>0, <3>1 DEF SetStatus
    <3>3. Live(b)
      BY <3>1, <3>2 DEF RunInv, Live
    <3> QED
      BY <2>0, <3>1, <3>2, <3>3 DEF FollowAt, Lifecycle!Conclude, Lifecycle!Move
  <2> QED
    BY <2>1, <2>2, <2>3, StatusWriters DEF Lifecycle!Step
<1> QED
  BY <1>1, TypeCorrect, RunInvariant, QuietInvariant, FollowInvariant, PTL
     DEF Spec, LifecycleUnlessAnswered

\* The status column is left at "submitted" unless the user's answer overtook the poll
\* or a crash made ARQ repeat the job, provided that no second tab runs the flow
\* (the header of application_service.py; mark_ready, mark_submitting, mark_error).
THEOREM FinalSafe ==
    ASSUME ~Rerun
    PROVE  Spec => FinalUnlessAnswered
<1>1. TypeOK /\ RunInv /\ QuietInv /\ FollowInv /\ [Next]_vars
        => [\A a \in Apps : status[a] = "submitted" /\ status'[a] # "submitted"
                              => saidYes[a] \/ faults > 0]_vars
  <2> SUFFICES ASSUME TypeOK, RunInv, QuietInv, FollowInv, Next, NEW b \in Apps,
                      status[b] = "submitted", status'[b] # "submitted", Calm(b)
               PROVE  FALSE
    BY DEF Calm, Undisturbed, TypeOK
  <2>1. ASSUME NEW a \in Apps, MarkReady(a) PROVE FALSE
    BY <2>1 DEF MarkReady, SetStatus, QuietInv, QuietAt, Calm, Undisturbed, TypeOK
  <2>2. ASSUME NEW a \in Apps, PollMarkSubmitting(a) PROVE FALSE
    BY <2>2 DEF PollMarkSubmitting, SetStatus, QuietInv, QuietAt, Calm, Undisturbed, TypeOK
  <2>3. ASSUME NEW a \in Apps, CancelByUser(a) \/ MarkSubmitted(a) \/ GiveUp(a) PROVE FALSE
    <3>1. /\ run[a].pc \notin {"off", "return"}
          /\ \E s \in {"submitted", "error"} : SetStatus(a, run[a].loaded, s)
      BY <2>3 DEF CancelByUser, MarkSubmitted, GiveUp, RunStep
    <3>2. a = b
      BY <3>1 DEF SetStatus, TypeOK
    <3> QED
      BY <3>1, <3>2 DEF RunInv, FollowInv, FollowAt, Live
  <2>4. CASE UNCHANGED status
    BY <2>4
  <2> QED
    BY <2>1, <2>2, <2>3, <2>4, StatusWriters
<1> QED
  BY <1>1, TypeCorrect, RunInvariant, QuietInvariant, FollowInvariant, PTL
     DEF Spec, FinalUnlessAnswered
-----------------------------------------------------------------------------
(* StrandedIsExhausted.  Every return of the coroutine writes the row first, *)
(* and ARQ gives a job up only when its tries are used.                      *)
StrandAt(b) == Calm(b) =>
    /\ run[b].pc = "return" => status[b] # "submitting"
    /\ job[b].state = "kept" /\ status[b] = "submitting" => job[b].tries = MaxTries

StrandInv == \A b \in Apps : StrandAt(b)

LEMMA StrandFrame ==
    ASSUME StrandInv, UNCHANGED <<status, job, run>>, \A b \in Apps : Calm(b)' => Calm(b)
    PROVE  StrandInv'
BY DEF StrandInv, StrandAt

\* What is calm was calm before: nobody takes a fault, a "yes" or a flow back.
LEMMA CalmBefore ==
    ASSUME TypeOK, [Next]_vars, NEW b \in Apps, Calm(b)'
    PROVE  Calm(b)
<1>1. CASE UNCHANGED vars \/ PollStart \/ PollCrash \/ \E u \in Users : SessionExpires(u)
  BY <1>1 DEF Calm, Undisturbed, TypeOK, vars, PollStart, PollCrash, SessionExpires, boundVars,
     historyVars
<1>2. ASSUME NEW a \in Apps, FlowNext(a) PROVE Calm(b)
  BY <1>2 DEF Calm, Undisturbed, TypeOK, FlowNext, ProxyAuthLogin, ProxyCreateDraft,
     StoreDraftSession, ProxyMarkReady, MarkReady, StoreReadySession, FlowFails, ProxyCrash,
     boundVars, historyVars
<1>3. ASSUME NEW a \in Apps, PollNext(a) \/ TenderOpens(a) \/ ConfirmExpires(a) \/ ResultExpires(a)
      PROVE  Calm(b)
  BY <1>3 DEF Calm, Undisturbed, PollNext, PollSkip, PollConfirm, PollNotify, PollMarkSubmitting,
     PollEnqueue, TenderOpens, ConfirmExpires, ResultExpires, boundVars, historyVars
<1>4. ASSUME NEW a \in Apps, WebhookNext(a) PROVE Calm(b)
  BY <1>4 DEF Calm, Undisturbed, TypeOK, WebhookNext, PressYes, EnqueueSubmit, PressNo,
     WebhookCrash, boundVars, historyVars
<1>5. ASSUME NEW a \in Apps, ArqStep(a) \/ WorkerFault(a) PROVE Calm(b)
  BY <1>5 DEF Calm, Undisturbed, TypeOK, ArqStep, JobDue, StartJob, JobExhausted, JobReturns,
     WorkerFault, WorkerCrash, JobRaises, boundVars, historyVars
<1>6. ASSUME NEW a \in Apps, WorkerStep(a) PROVE Calm(b)
  BY <1>6 DEF Calm, Undisturbed, WorkerStep, GetConfirm, LoadApp, CancelByUser, GetSession,
     SessionMissing, PublicApplication, MarkSubmitted, RetryLater, GiveUp, boundVars, historyVars
<1> QED
  BY <1>1, <1>2, <1>3, <1>4, <1>5, <1>6 DEF Next

\* While the result key of a job lives, a row that is left in "submitting" without a
\* failure, a "yes" or a second flow is left by ARQ's max_tries alone, whatever that is and
\* however long BACKOFF_SECONDS: auto_submit_application itself writes the row before each
\* of its returns.  As deployed (5 tries, 7 delays) that is how every submission that the
\* portal keeps refusing ends (SubmissionConcludes).
THEOREM StrandedSafe ==
    ASSUME ~ResultsExpire
    PROVE  Spec => []StrandedIsExhausted
<1>1. Init => StrandInv
  BY DEF Init, StrandInv, StrandAt, NoJob, Idle
<1>2. TypeOK /\ RunInv /\ QuietInv /\ FollowInv /\ StrandInv /\ [Next]_vars => StrandInv'
  <2> SUFFICES ASSUME TypeOK, RunInv, QuietInv, FollowInv, StrandInv, [Next]_vars
               PROVE  StrandInv'
    OBVIOUS
  <2>0. \A b \in Apps : Calm(b)' => Calm(b)
    BY CalmBefore
  <2>1. CASE UNCHANGED vars \/ PollStart \/ PollCrash \/ \E u \in Users : SessionExpires(u)
    BY <2>0, <2>1, StrandFrame DEF vars, PollStart, PollCrash, SessionExpires, appVars
  <2>2. ASSUME NEW a \in Apps, FlowNext(a) PROVE StrandInv'
    <3>1. CASE MarkReady(a)
      <4>1. /\ \A b \in Apps : status'[b] \in {status[b], "waiting"}
            /\ UNCHANGED <<job, run>>
        BY <3>1 DEF MarkReady, SetStatus, TypeOK
      <4> QED
        BY <2>0, <4>1 DEF StrandInv, StrandAt
    <3> QED
      BY <2>0, <2>2, <3>1, StrandFrame DEF FlowNext, ProxyAuthLogin, ProxyCreateDraft,
         StoreDraftSession, ProxyMarkReady, StoreReadySession, FlowFails, ProxyCrash, appVars
  <2>3. ASSUME NEW a \in Apps,
               TenderOpens(a) \/ ConfirmExpires(a) \/ ResultExpires(a) \/ WebhookNext(a)
        PROVE  StrandInv'
    <3>1. CASE EnqueueSubmit(a)
      <4>1. UNCHANGED <<status, run>> /\ \A b \in Apps : job'[b] # job[b] => job'[b].state = "queued"
        BY <3>1 DEF EnqueueSubmit, Enqueue, TypeOK, appVars
      <4> QED
        BY <2>0, <4>1 DEF StrandInv, StrandAt
    <3> QED
      BY <2>0, <2>3, <3>1, StrandFrame DEF TenderOpens, ConfirmExpires, ResultExpires, WebhookNext,
         PressYes, PressNo, WebhookCrash, appVars
  <2>4. ASSUME NEW a \in Apps, PollNext(a) PROVE StrandInv'
    <3>1. CASE PollConfirm(a)
      <4>1. /\ UNCHANGED <<status, run>>
            /\ \A b \in Apps : job'[b].state = job[b].state /\ job'[b].tries = job[b].tries
        BY <3>1 DEF PollConfirm, TypeOK, Jobs, appVars
      <4> QED
        BY <2>0, <4>1 DEF StrandInv, StrandAt
    <3>2. CASE PollMarkSubmitting(a)
      <4>1. Calm(a) => job[a].state = "none" /\ run[a].pc = "off"
        BY <3>2 DEF PollMarkSubmitting, QuietInv, QuietAt, Calm, Past, RunInv
      <4>2. UNCHANGED <<job, run>> /\ \A b \in Apps : b # a => status'[b] = status[b]
        BY <3>2 DEF PollMarkSubmitting, SetStatus, TypeOK
      <4> QED
        BY <2>0, <4>1, <4>2 DEF StrandInv, StrandAt
    <3>3. CASE PollEnqueue(a)
      <4>1. UNCHANGED <<status, run>> /\ \A b \in Apps : job'[b] # job[b] => job'[b].state = "deferred"
        BY <3>3 DEF PollEnqueue, Enqueue, TypeOK, appVars
      <4> QED
        BY <2>0, <4>1 DEF StrandInv, StrandAt
    <3> QED
      BY <2>0, <2>4, <3>1, <3>2, <3>3, StrandFrame DEF PollNext, PollSkip, PollNotify, appVars
  <2>5. ASSUME NEW a \in Apps, ArqStep(a) PROVE StrandInv'
    <3>0. UNCHANGED status
      BY <2>5 DEF ArqStep, JobDue, StartJob, JobExhausted, JobReturns, appVars
    <3>1. CASE JobDue(a)
      BY <2>0, <3>0, <3>1 DEF JobDue, StrandInv, StrandAt, TypeOK, Jobs
    <3>2. CASE StartJob(a)
      <4>1. /\ job'[a].state = "running" /\ run'[a].pc = "confirm"
            /\ \A b \in Apps : b # a => job'[b] = job[b] /\ run'[b] = run[b]
        BY <3>2 DEF StartJob, TypeOK, Jobs, Runs
      <4> QED
        BY <2>0, <3>0, <4>1 DEF StrandInv, StrandAt
    <3>3. CASE JobExhausted(a)
      <4>1. /\ job'[a].tries = MaxTries /\ \A b \in Apps : b # a => job'[b] = job[b]
            /\ UNCHANGED run
        BY <3>3 DEF JobExhausted, KeepResult, TypeOK, Jobs
      <4> QED
        BY <2>0, <3>0, <4>1 DEF StrandInv, StrandAt
    <3>4. CASE JobReturns(a)
      <4>1. Calm(a) => status[a] # "submitting"
        BY <3>4 DEF JobReturns, StrandInv, StrandAt
      <4>2. run'[a].pc = "off" /\ \A b \in Apps : b # a => job'[b] = job[b] /\ run'[b] = run[b]
        BY <3>4 DEF JobReturns, JobEnds, KeepResult, Idle, TypeOK
      <4> QED
        BY <2>0, <3>0, <4>1, <4>2 DEF StrandInv, StrandAt
    <3> QED
      BY <2>5, <3>1, <3>2, <3>3, <3>4 DEF ArqStep
  <2>6. ASSUME NEW a \in Apps, WorkerFault(a) PROVE StrandInv'
    <3>1. faults' = faults + 1
      BY <2>6 DEF WorkerFault, WorkerCrash, JobRaises
    <3>2. \A b \in Apps : ~Calm(b)'
      BY <3>1 DEF Calm, TypeOK
    <3> QED
      BY <3>2 DEF StrandInv, StrandAt
  <2>7. ASSUME NEW a \in Apps, WorkerStep(a) PROVE StrandInv'
    <3>0. run[a].pc # "off" /\ job[a].state = "running" /\ Live(a)
      BY <2>7 DEF WorkerStep, GetConfirm, LoadApp, CancelByUser, GetSession, SessionMissing,
         PublicApplication, MarkSubmitted, RetryLater, GiveUp, WorthRetry, RunStep, RunInv, Live
    <3>1. CASE GetConfirm(a) \/ LoadApp(a) \/ GetSession(a) \/ PublicApplication(a)
      <4>1. PICK p \in PcNames \ {"return"} : run'[a].pc = p
        <5>1. CASE GetConfirm(a)
          BY <5>1 DEF GetConfirm, TypeOK, Runs, PcNames
        <5>2. CASE LoadApp(a)
          BY <5>2 DEF LoadApp, TypeOK, Runs, PcNames
        <5>3. CASE GetSession(a)
          BY <5>3 DEF GetSession, TypeOK, Runs, PcNames
        <5>4. CASE PublicApplication(a)
          BY <5>4 DEF PublicApplication, RunStep, TypeOK, Runs, PcNames
        <5> QED
          BY <3>1, <5>1, <5>2, <5>3, <5>4
      <4>2. UNCHANGED <<status, job>> /\ \A b \in Apps : b # a => run'[b] = run[b]
        BY <3>1 DEF GetConfirm, LoadApp, GetSession, PublicApplication, RunStep, TypeOK, appVars
      <4> QED
        BY <2>0, <4>1, <4>2 DEF StrandInv, StrandAt
    <3>2. CASE SessionMissing(a) \/ RetryLater(a)
      <4>1. UNCHANGED status /\ Requeue(a)
        BY <3>2 DEF SessionMissing, RetryLater, appVars
      <4>2. /\ run'[a].pc = "off" /\ job'[a].state = "queued"
            /\ \A b \in Apps : b # a => job'[b] = job[b] /\ run'[b] = run[b]
        BY <4>1 DEF Requeue, Idle, TypeOK, Jobs
      <4> QED
        BY <2>0, <4>1, <4>2 DEF StrandInv, StrandAt
    <3>3. CASE CancelByUser(a) \/ MarkSubmitted(a) \/ GiveUp(a)
      <4>1. /\ run[a].pc \in Publishing \cup {"cancel"}
            /\ run' = [run EXCEPT ![a].pc = "return"]
            /\ \E s \in {"submitted", "error"} : SetStatus(a, run[a].loaded, s)
            /\ UNCHANGED job
        BY <3>3 DEF CancelByUser, MarkSubmitted, GiveUp, RunStep, Publishing
      <4>2. Calm(a) => run[a].loaded = "submitting"
        BY <4>1 DEF FollowInv, FollowAt
      <4>3. /\ Calm(a) => status'[a] \in {"submitted", "error"}
            /\ \A b \in Apps : b # a => status'[b] = status[b] /\ run'[b] = run[b]
        BY <4>1, <4>2 DEF SetStatus, TypeOK
      <4> QED
        BY <2>0, <3>0, <4>1, <4>3 DEF StrandInv, StrandAt
    <3> QED
      BY <2>7, <3>1, <3>2, <3>3 DEF WorkerStep
  <2> QED
    BY <2>1, <2>2, <2>3, <2>4, <2>5, <2>6, <2>7 DEF Next
<1>3. TypeOK /\ OnceInv /\ StrandInv => StrandedIsExhausted
  <2> SUFFICES ASSUME TypeOK, OnceInv, StrandInv, NEW a \in Apps, status[a] = "submitting",
                      Calm(a), ~Live(a), ~Asking(a)
               PROVE  job[a].tries = MaxTries
    BY DEF StrandedIsExhausted
  <2>1. job[a].state = "kept"
    <3>1. job[a].state # "none"
      BY DEF OnceInv, OnceAt, Calm
    <3>2. job[a] \in Jobs
      BY DEF TypeOK
    <3> QED
      BY <3>1, <3>2 DEF Live, Jobs
  <2> QED
    BY <2>1 DEF StrandInv, StrandAt
<1> QED
  BY <1>1, <1>2, <1>3, TypeCorrect, RunInvariant, QuietInvariant, FollowInvariant, OnceInvariant,
     PTL DEF Spec
-----------------------------------------------------------------------------
(* WorkRunsOut.                                                              *)
\* Who touches neither the attempt nor the tries leaves the work as it is.
LEMMA WorkFrame ==
    ASSUME TypeOK, NEW a \in Apps, UNCHANGED <<run[a], job[a].state, job[a].tries>>
    PROVE  Work(a)' = Work(a)
BY DEF Work, Live

\* A number, before the step ...
LEMMA WorkNat ==
    ASSUME TypeOK, NEW b \in Apps
    PROVE  Work(b) \in Nat
<1>1. job[b].tries \in 0..MaxTries /\ job[b].state \in StateNames
  BY DEF TypeOK, Jobs, StateNames
<1>2. StepsLeft[run[b].pc] \in 0..7
  BY DEF TypeOK, Runs, StepsLeft
<1>3. 10 * (MaxTries - job[b].tries) \in Nat
  BY <1>1, LimitAssumption
<1> QED
  BY <1>1, <1>2, <1>3 DEF Work, Live, StateNames

\* ... and after it.
LEMMA WorkNatNext ==
    ASSUME TypeOK', NEW b \in Apps
    PROVE  Work(b)' \in Nat
<1>1. job'[b].tries \in 0..MaxTries /\ job'[b].state \in StateNames
  BY DEF TypeOK, Jobs, StateNames
<1>2. StepsLeft[run'[b].pc] \in 0..7
  BY DEF TypeOK, Runs, StepsLeft
<1>3. 10 * (MaxTries - job'[b].tries) \in Nat
  BY <1>1, LimitAssumption
<1> QED
  BY <1>1, <1>2, <1>3 DEF Work, Live, StateNames

\* What is left of a job while an attempt is under way, and that it is not nothing.
LEMMA WorkRunning ==
    ASSUME TypeOK, RunInv, NEW b \in Apps, run[b].pc # "off"
    PROVE  /\ Live(b) /\ job[b].tries \in 0..MaxTries
           /\ Work(b) = 10 * (MaxTries - job[b].tries) + StepsLeft[run[b].pc]
           /\ StepsLeft[run[b].pc] \in 2..7
<1>1. job[b].state = "running" /\ job[b].tries \in 0..MaxTries
  BY DEF RunInv, TypeOK, Jobs
<1>2. StepsLeft[run[b].pc] \in 2..7
  BY DEF TypeOK, Runs, StepsLeft
<1> QED
  BY <1>1, <1>2 DEF Work, Live

\* A step inside the coroutine.
LEMMA WorkPc ==
    ASSUME TypeOK, RunInv, NEW b \in Apps, run[b].pc # "off", UNCHANGED job,
           run'[b].pc \in PcNames \ {"off"}, StepsLeft[run'[b].pc] < StepsLeft[run[b].pc]
    PROVE  Work(b)' < Work(b)
<1>1. job[b].state = "running"
  BY DEF RunInv
<1>2. Work(b)' = 10 * (MaxTries - job[b].tries) + StepsLeft[run'[b].pc]
  BY <1>1 DEF Work, Live, StepsLeft
<1>3. StepsLeft[run'[b].pc] \in Nat
  BY DEF PcNames, StepsLeft
<1> QED
  BY <1>2, <1>3, WorkRunning, LimitAssumption

\* The job goes back to the queue: what its try had left is lost, and no more.
LEMMA WorkRequeue ==
    ASSUME TypeOK, RunInv, NEW b \in Apps, run[b].pc # "off", Requeue(b)
    PROVE  Work(b)' < Work(b)
<1>1. job'[b].state = "queued" /\ job'[b].tries = job[b].tries
  BY DEF Requeue, TypeOK, Jobs
<1>2. Work(b)' = 10 * (MaxTries - job[b].tries) + 1
  BY <1>1 DEF Work, Live
<1> QED
  BY <1>2, WorkRunning, LimitAssumption

\* The job ends.
LEMMA WorkEnds ==
    ASSUME TypeOK, RunInv, NEW b \in Apps, Live(b), KeepResult(b)
    PROVE  Work(b)' < Work(b)
<1>1. Work(b)' = 0
  BY DEF Work, Live, KeepResult, TypeOK, Jobs
<1>2. job[b].tries \in 0..MaxTries
  BY DEF TypeOK, Jobs
<1>3. CASE job[b].state = "running"
  BY <1>1, <1>3, WorkRunning, LimitAssumption DEF RunInv
<1>4. CASE job[b].state \in {"deferred", "queued"}
  BY <1>1, <1>2, <1>4, LimitAssumption DEF Work, Live
<1> QED
  BY <1>3, <1>4 DEF Live

\* Every step of ARQ or of the coroutine lowers the work that is left.
LEMMA WorkDrops ==
    ASSUME TypeOK, RunInv, NEW b \in Apps, Live(b),
           ArqStep(b) \/ WorkerStep(b) \/ WorkerFault(b)
    PROVE  Work(b)' < Work(b)
<1>0. job[b].tries \in 0..MaxTries
  BY DEF TypeOK, Jobs
<1>1. CASE JobDue(b)
  <2>1. job'[b].state = "queued" /\ job'[b].tries = job[b].tries /\ job[b].state = "deferred"
    BY <1>1 DEF JobDue, TypeOK, Jobs
  <2> QED
    BY <1>0, <2>1, LimitAssumption DEF Work, Live
<1>2. CASE StartJob(b)
  <2>1. /\ job[b].state = "queued" /\ job'[b].state = "running"
        /\ job'[b].tries = job[b].tries + 1 /\ run'[b].pc = "confirm"
    BY <1>2 DEF StartJob, TypeOK, Jobs, Runs
  <2>2. Work(b) = 10 * (MaxTries - job[b].tries) + 1
    BY <2>1 DEF Work, Live
  <2>3. Work(b)' = 10 * (MaxTries - (job[b].tries + 1)) + 7
    BY <2>1 DEF Work, Live, StepsLeft
  <2> QED
    BY <1>0, <2>2, <2>3, LimitAssumption
<1>3. CASE JobExhausted(b) \/ JobReturns(b) \/ JobRaises(b)
  BY <1>3, WorkEnds DEF JobExhausted, JobReturns, JobRaises, JobEnds
<1>4. CASE WorkerCrash(b) \/ SessionMissing(b) \/ RetryLater(b)
  BY <1>4, WorkRequeue DEF WorkerCrash, SessionMissing, RetryLater, WorthRetry
<1>5. CASE GetConfirm(b) \/ LoadApp(b) \/ GetSession(b)
  <2>1. /\ run[b].pc # "off" /\ run'[b].pc \in PcNames \ {"off"} /\ UNCHANGED job
        /\ StepsLeft[run'[b].pc] < StepsLeft[run[b].pc]
    <3>1. CASE GetConfirm(b)
      BY <3>1 DEF GetConfirm, TypeOK, Runs, PcNames, StepsLeft
    <3>2. CASE LoadApp(b)
      BY <3>2 DEF LoadApp, TypeOK, Runs, PcNames, StepsLeft
    <3>3. CASE GetSession(b)
      BY <3>3 DEF GetSession, TypeOK, Runs, PcNames, StepsLeft
    <3> QED
      BY <1>5, <3>1, <3>2, <3>3
  <2> QED
    BY <2>1, WorkPc
<1>6. CASE CancelByUser(b) \/ PublicApplication(b) \/ MarkSubmitted(b) \/ GiveUp(b)
  <2>1. \/ run[b].pc = "call" /\ run'[b].pc \in {"ok", "refused", "failed"}
        \/ run[b].pc \in {"cancel", "ok", "refused", "failed"} /\ run'[b].pc = "return"
    BY <1>6 DEF CancelByUser, PublicApplication, MarkSubmitted, GiveUp, RunStep, TypeOK, Runs
  <2>2. UNCHANGED job
    BY <1>6 DEF CancelByUser, PublicApplication, MarkSubmitted, GiveUp
  <2>3. /\ run[b].pc # "off" /\ run'[b].pc \in PcNames \ {"off"}
        /\ StepsLeft[run'[b].pc] < StepsLeft[run[b].pc]
    BY <2>1 DEF PcNames, StepsLeft
  <2> QED
    BY <2>2, <2>3, WorkPc
<1> QED
  BY <1>1, <1>2, <1>3, <1>4, <1>5, <1>6 DEF ArqStep, WorkerStep, WorkerFault

\* Nobody else gives a live job its tries back, or moves its attempt.
LEMMA WorkKept ==
    ASSUME TypeOK, NEW b \in Apps, Live(b), [Next]_vars,
           ~(ArqStep(b) \/ WorkerStep(b) \/ WorkerFault(b))
    PROVE  UNCHANGED <<run[b], job[b].state, job[b].tries>>
<1>1. CASE PollStart \/ PollCrash \/ UNCHANGED vars \/ \E u \in Users : SessionExpires(u)
  BY <1>1 DEF PollStart, PollCrash, SessionExpires, vars
<1>2. ASSUME NEW a \in Apps, FlowNext(a) \/ TenderOpens(a) \/ ConfirmExpires(a)
      PROVE  UNCHANGED <<run, job>>
  BY <1>2 DEF FlowNext, ProxyAuthLogin, ProxyCreateDraft, StoreDraftSession, ProxyMarkReady,
     MarkReady, StoreReadySession, FlowFails, ProxyCrash, TenderOpens, ConfirmExpires
<1>3. ASSUME NEW a \in Apps, PollNext(a)
      PROVE  UNCHANGED <<run[b], job[b].state, job[b].tries>>
  <2>1. CASE PollConfirm(a)
    BY <2>1 DEF PollConfirm, TypeOK, Jobs
  <2>2. CASE PollEnqueue(a)
    BY <2>2 DEF PollEnqueue, Enqueue, Live, TypeOK
  <2> QED
    BY <1>3, <2>1, <2>2 DEF PollNext, PollSkip, PollNotify, PollMarkSubmitting
<1>4. ASSUME NEW a \in Apps, WebhookNext(a) \/ ResultExpires(a)
      PROVE  UNCHANGED <<run[b], job[b]>>
  BY <1>4 DEF WebhookNext, PressYes, PressNo, EnqueueSubmit, Enqueue, WebhookCrash, ResultExpires,
     Live, TypeOK
<1>5. ASSUME NEW a \in Apps, a # b, ArqStep(a) \/ WorkerStep(a) \/ WorkerFault(a)
      PROVE  UNCHANGED <<run[b], job[b]>>
  <2>1. CASE ArqStep(a) \/ WorkerFault(a)
    BY <1>5, <2>1 DEF ArqStep, JobDue, StartJob, JobExhausted, JobReturns, JobEnds, KeepResult,
       WorkerFault, WorkerCrash, JobRaises, Requeue, TypeOK
  <2>2. CASE WorkerStep(a)
    BY <1>5, <2>2 DEF WorkerStep, GetConfirm, LoadApp, CancelByUser, GetSession, SessionMissing,
       PublicApplication, MarkSubmitted, RetryLater, GiveUp, RunStep, Requeue, TypeOK
  <2> QED
    BY <1>5, <2>1, <2>2
<1> QED
  BY <1>1, <1>2, <1>3, <1>4, <1>5 DEF Next

\* The variant of a job: with every step of ARQ or of auto_submit_application, a crash
\* included, less is left of its tries and of its attempt, and neither a second press, a
\* later poll nor another application's job ever adds to it.  Fairness alone (JobsEnd)
\* is then enough for it to end.
THEOREM WorkSafe == Spec => WorkRunsOut
<1>1. TypeOK /\ TypeOK' /\ RunInv /\ [Next]_vars
        => [\A a \in Apps : Live(a) =>
              /\ Work(a)' <= Work(a)
              /\ ArqStep(a) \/ WorkerStep(a) \/ WorkerFault(a) => Work(a)' < Work(a)]_vars
  <2> SUFFICES ASSUME TypeOK, TypeOK', RunInv, [Next]_vars, NEW a \in Apps, Live(a)
               PROVE  /\ Work(a)' <= Work(a)
                      /\ ArqStep(a) \/ WorkerStep(a) \/ WorkerFault(a) => Work(a)' < Work(a)
    OBVIOUS
  <2>1. CASE ArqStep(a) \/ WorkerStep(a) \/ WorkerFault(a)
    BY <2>1, WorkDrops, WorkNat, WorkNatNext
  <2>2. CASE ~(ArqStep(a) \/ WorkerStep(a) \/ WorkerFault(a))
    BY <2>2, WorkKept, WorkFrame, WorkNat
  <2> QED
    BY <2>1, <2>2
<1> QED
  BY <1>1, TypeCorrect, RunInvariant, PTL DEF Spec, WorkRunsOut
-----------------------------------------------------------------------------
(* RefusalUnheard.                                                           *)

\* Who moves an attempt.
LEMMA RunWriters ==
    ASSUME Next
    PROVE  \/ UNCHANGED run
           \/ \E a \in Apps : ArqStep(a) \/ WorkerFault(a)
           \/ \E a \in Apps : WorkerStep(a)
<1>1. CASE PollStart \/ PollCrash \/ \E u \in Users : SessionExpires(u)
  BY <1>1 DEF PollStart, PollCrash, SessionExpires
<1>2. ASSUME NEW a \in Apps, FlowNext(a) \/ TenderOpens(a) PROVE UNCHANGED run
  BY <1>2 DEF FlowNext, ProxyAuthLogin, ProxyCreateDraft, StoreDraftSession, ProxyMarkReady,
     MarkReady, StoreReadySession, FlowFails, ProxyCrash, TenderOpens
<1>3. ASSUME NEW a \in Apps,
             PollNext(a) \/ WebhookNext(a) \/ ConfirmExpires(a) \/ ResultExpires(a)
      PROVE  UNCHANGED run
  BY <1>3 DEF PollNext, PollSkip, PollConfirm, PollNotify, PollMarkSubmitting, PollEnqueue,
     WebhookNext, PressYes, EnqueueSubmit, PressNo, WebhookCrash, ConfirmExpires, ResultExpires
<1> QED
  BY <1>1, <1>2, <1>3 DEF Next

\* As deployed, where ARQ's Redis pool returns bytes, no attempt ever takes the branch
\* 'if confirm == "no"': whatever the user presses, the job goes on to the portal
\* (get_confirm, auto_submit_application).
THEOREM UnheardSafe ==
    ASSUME ~Decodes
    PROVE  Spec => []RefusalUnheard
<1>1. Init => RefusalUnheard
  BY DEF Init, RefusalUnheard, Idle
<1>2. TypeOK /\ RefusalUnheard /\ [Next]_vars => RefusalUnheard'
  <2> SUFFICES ASSUME TypeOK, RefusalUnheard, [Next]_vars PROVE RefusalUnheard'
    OBVIOUS
  <2>1. ASSUME NEW a \in Apps, ArqStep(a) \/ WorkerFault(a) PROVE RefusalUnheard'
    <3>1. \/ UNCHANGED run
          \/ run' = [run EXCEPT ![a] = Idle]
          \/ run' = [run EXCEPT ![a].pc = "confirm"]
      BY <2>1 DEF ArqStep, WorkerFault, JobDue, StartJob, JobExhausted, JobReturns, WorkerCrash,
         JobRaises, JobEnds, Requeue
    <3>2. CASE run' = [run EXCEPT ![a] = Idle]
      BY <3>2 DEF RefusalUnheard, TypeOK, Idle
    <3>3. CASE run' = [run EXCEPT ![a].pc = "confirm"]
      BY <3>3 DEF RefusalUnheard, TypeOK, Runs
    <3> QED
      BY <3>1, <3>2, <3>3 DEF RefusalUnheard
  <2>2. ASSUME NEW a \in Apps, WorkerStep(a) PROVE RefusalUnheard'
    <3>1. CASE GetConfirm(a)
      <4>1. Reply(confirm[a].value) # "no"
        BY DEF Reply, Bytes, TypeOK, ConfirmKeys
      <4> QED
        BY <3>1, <4>1 DEF GetConfirm, RefusalUnheard, TypeOK, Runs
    <3>2. CASE LoadApp(a)
      BY <3>2 DEF LoadApp, RefusalUnheard, TypeOK, Runs
    <3>3. CASE GetSession(a)
      BY <3>3 DEF GetSession, RefusalUnheard, TypeOK, Runs
    <3>4. CASE SessionMissing(a) \/ RetryLater(a)
      BY <3>4 DEF SessionMissing, RetryLater, Requeue, Idle, RefusalUnheard, TypeOK
    <3>5. CASE CancelByUser(a) \/ PublicApplication(a) \/ MarkSubmitted(a) \/ GiveUp(a)
      <4>1. PICK p \in PcNames \ {"cancel"} : run' = [run EXCEPT ![a].pc = p]
        BY <3>5 DEF CancelByUser, PublicApplication, MarkSubmitted, GiveUp, RunStep, PcNames
      <4> QED
        BY <4>1 DEF RefusalUnheard, TypeOK, Runs
    <3> QED
      BY <2>2, <3>1, <3>2, <3>3, <3>4, <3>5 DEF WorkerStep
  <2> QED
    BY <2>1, <2>2, RunWriters DEF RefusalUnheard, vars
<1> QED
  BY <1>1, <1>2, TypeCorrect, PTL DEF Spec
-----------------------------------------------------------------------------
(* PollsGoOn.                                                                *)

\* Who moves a run of the poll.
LEMMA PollWriters ==
    ASSUME [Next]_vars
    PROVE  \/ UNCHANGED poll \/ PollStart \/ PollCrash
           \/ \E a \in Apps : PollSkip(a) \/ PollEnqueue(a)
           \/ \E a \in Apps : PollConfirm(a) \/ PollNotify(a) \/ PollMarkSubmitting(a)
<1>1. CASE UNCHANGED vars \/ \E u \in Users : SessionExpires(u)
  BY <1>1 DEF vars, SessionExpires
<1>2. ASSUME NEW a \in Apps, FlowNext(a) \/ TenderOpens(a) \/ ConfirmExpires(a)
      PROVE  UNCHANGED poll
  BY <1>2 DEF FlowNext, ProxyAuthLogin, ProxyCreateDraft, StoreDraftSession, ProxyMarkReady,
     MarkReady, StoreReadySession, FlowFails, ProxyCrash, TenderOpens, ConfirmExpires
<1>3. ASSUME NEW a \in Apps, WebhookNext(a) \/ ResultExpires(a) PROVE UNCHANGED poll
  BY <1>3 DEF WebhookNext, PressYes, EnqueueSubmit, PressNo, WebhookCrash, ResultExpires
<1>4. ASSUME NEW a \in Apps, ArqStep(a) \/ WorkerFault(a) PROVE UNCHANGED poll
  BY <1>4 DEF ArqStep, JobDue, StartJob, JobExhausted, JobReturns, WorkerFault, WorkerCrash,
     JobRaises
<1>5. ASSUME NEW a \in Apps, WorkerStep(a) PROVE UNCHANGED poll
  BY <1>5 DEF WorkerStep, GetConfirm, LoadApp, CancelByUser, GetSession, SessionMissing,
     PublicApplication, MarkSubmitted, RetryLater, GiveUp
<1> QED
  BY <1>1, <1>2, <1>3, <1>4, <1>5 DEF Next, PollNext

\* The application a run of the poll is at is one that it has still to do.
AtInv ==
    /\ poll.step = "next" => poll.app = NoApp
    /\ poll.step # "next" => poll.app \in poll.todo

\* The loop of poll_watchlist_tenders keeps to its list.
LEMMA AtInvariant == Spec => []AtInv
<1>1. Init => AtInv
  BY DEF Init, AtInv, NoPoll
<1>2. TypeOK /\ AtInv /\ [Next]_vars => AtInv'
  <2> SUFFICES ASSUME TypeOK, AtInv, [Next]_vars PROVE AtInv'
    OBVIOUS
  <2>1. CASE UNCHANGED poll
    BY <2>1 DEF AtInv
  <2>2. CASE PollStart \/ PollCrash
    BY <2>2 DEF PollStart, PollCrash, AtInv, NoPoll
  <2>3. ASSUME NEW a \in Apps, PollSkip(a) \/ PollEnqueue(a) PROVE AtInv'
    BY <2>3 DEF PollSkip, PollEnqueue, PollDone, AtInv, NoPoll
  <2>4. ASSUME NEW a \in Apps, PollConfirm(a) \/ PollNotify(a) \/ PollMarkSubmitting(a) PROVE AtInv'
    BY <2>4 DEF PollConfirm, PollNotify, PollMarkSubmitting, AtInv, TypeOK, Polls
  <2> QED
    BY <2>1, <2>2, <2>3, <2>4, PollWriters
<1> QED
  BY <1>1, <1>2, TypeCorrect, PTL DEF Spec

\* The variant of a poll: with every step a row fewer or a step fewer for its row, and
\* a crash ends it.  The flows, jobs and presses that change the rows under it do not
\* keep it from coming to the end of its list, and so to the next run (WaitingIsTaken).
THEOREM PollsSafe == Spec => PollsGoOn
<1>1. TypeOK /\ AtInv /\ [Next]_vars
        => [poll \notin {NoPoll, poll'} =>
              \/ poll'.todo \subseteq poll.todo /\ poll'.todo # poll.todo
              \/ poll'.todo = poll.todo /\ PollStage[poll'.step] < PollStage[poll.step]]_vars
  <2> SUFFICES ASSUME TypeOK, AtInv, [Next]_vars, poll \notin {NoPoll, poll'}
               PROVE  \/ poll'.todo \subseteq poll.todo /\ poll'.todo # poll.todo
                      \/ poll'.todo = poll.todo /\ PollStage[poll'.step] < PollStage[poll.step]
    OBVIOUS
  <2>1. CASE PollStart
    BY <2>1 DEF PollStart
  <2>2. CASE PollCrash
    <3>1. poll.todo # {}
      <4>1. poll = [todo |-> poll.todo, app |-> poll.app, step |-> poll.step]
        BY DEF TypeOK, Polls
      <4> QED
        BY <4>1 DEF AtInv, NoPoll
    <3> QED
      BY <2>2, <3>1 DEF PollCrash, NoPoll
  <2>3. ASSUME NEW a \in Apps, PollSkip(a) \/ PollEnqueue(a)
        PROVE  poll'.todo \subseteq poll.todo /\ poll'.todo # poll.todo
    BY <2>3 DEF PollSkip, PollEnqueue, PollDone, AtInv, NoPoll
  <2>4. ASSUME NEW a \in Apps, PollConfirm(a) \/ PollNotify(a) \/ PollMarkSubmitting(a)
        PROVE  poll'.todo = poll.todo /\ PollStage[poll'.step] < PollStage[poll.step]
    <3>1. /\ poll'.todo = poll.todo
          /\ <<poll.step, poll'.step>> \in
               {<<"next", "notify">>, <<"notify", "mark">>, <<"mark", "enqueue">>}
      BY <2>4 DEF PollConfirm, PollNotify, PollMarkSubmitting, TypeOK, Polls
    <3> QED
      BY <3>1 DEF PollStage
  <2> QED
    BY <2>1, <2>2, <2>3, <2>4, PollWriters
<1> QED
  BY <1>1, TypeCorrect, AtInvariant, PTL DEF Spec, PollsGoOn
=============================================================================
