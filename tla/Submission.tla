----------------------------- MODULE Submission -----------------------------
(***************************************************************************)
(* The auto-submission pipeline of TenderIt: the browser's signing flow    *)
(* (routers/goszakup_proxy.py) hands an application over, the cron job     *)
(* poll_watchlist_tenders notices that its tender opened and asks the user *)
(* on Telegram, the webhook records the answer, and the ARQ job            *)
(* auto_submit_application publishes the application on the portal.        *)
(*                                                                         *)
(* The parties share the applications table, the Redis keys                *)
(* goszakup_session:{user} and confirm:{app}, and the ARQ queue, where the *)
(* job id submit:{app} is unique.  One step here is what a party does      *)
(* between two awaits that another party can observe.                      *)
(***************************************************************************)
EXTENDS Naturals, FiniteSets

CONSTANTS
    Apps,           \* application rows
    Users,
    Owner,          \* Owner[a]: the user the application belongs to
    Linked,         \* the users with a telegram_chat_id
    NoApp,          \* the id 0 / NULL
    NoSession,      \* the key goszakup_session:{user} does not exist
    MaxTries,       \* ARQ's max_tries (its default, 5: WorkerSettings sets none)
    BackoffLen,     \* len(BACKOFF_SECONDS)
    Decodes,        \* the worker's Redis client returns str: the tests' does,
                    \* the pool that ARQ makes from RedisSettings returns bytes
    Rerun,          \* a second tab may run the flow for a row no longer a draft
    SessionsExpire, \* the 20 h session key may run out
    ResultsExpire,  \* the result key of a finished job (1 h) may run out
    MaxFlows,       \* bound: signing flows started per application
    MaxPresses,     \* bound: button presses per application
    MaxFaults       \* bound: crashes and unhandled exceptions in all

\* The portal gives every draft an application_id of its own: <<a, n>> is the one
\* that the n-th signing flow of a creates.
PortalApps == Apps \X Nat

ASSUME OwnerAssumption == Owner \in [Apps -> Users] /\ Linked \subseteq Users
ASSUME NullAssumption ==
    NoApp \notin Apps \cup PortalApps /\ NoSession \notin PortalApps /\ NoApp # NoSession
ASSUME LimitAssumption ==
    /\ MaxTries \in Nat \ {0} /\ BackoffLen \in Nat \ {0}
    /\ MaxFlows \in Nat /\ MaxPresses \in Nat /\ MaxFaults \in Nat
ASSUME SwitchAssumption ==
    /\ Decodes \in BOOLEAN /\ Rerun \in BOOLEAN
    /\ SessionsExpire \in BOOLEAN /\ ResultsExpire \in BOOLEAN

VARIABLES
    status,      \* applications.status
    retryCount,  \* applications.retry_count
    portalId,    \* applications.goszakup_application_id
    session,     \* session[u]: the application_id in goszakup_session:{u}
    confirm,     \* confirm:{a}, and whether the key carries a TTL
    job,         \* the ARQ job submit:{a}
    run,         \* the coroutine auto_submit_application(a)
    wizard,      \* the browser's signing flow and the proxy request it waits for
    poll,        \* the running poll_watchlist_tenders
    asked,       \* the message with the two buttons reached the user
    hooks,       \* webhook requests between update_confirm and enqueue_submit
    open,        \* the tenders (one per application) with status 220
    drafted,     \* the portal's applications created
    published,   \* those of them published
    flows, presses, faults,  \* what has been used of the bounds
    saidYes,     \* history: the user pressed "yes" at some time
    refusal      \* history: what became of the user's last "no"

vars == <<status, retryCount, portalId, session, confirm, job, run, wizard,
          poll, asked, hooks, open, drafted, published, flows, presses, faults,
          saidYes, refusal>>

Statuses == {"draft", "waiting", "submitting", "submitted", "error"}

\* The key confirm:{a}: absent, or a value that may carry a TTL of 15 minutes.
NoKey == [value |-> "none", ttl |-> FALSE]

\* "deferred": queued for 15 minutes from now; "queued": to run as soon as a
\* worker is free; "kept": finished, the result key still exists.  A deferred
\* job that is held was enqueued after the TTL of its confirm key began.
NoJob == [state |-> "none", tries |-> 0, held |-> FALSE]

Idle == [pc |-> "off", heard |-> "none", loaded |-> "draft", ids |-> NoApp]
NoFlow == [step |-> "idle", loaded |-> "draft"]
NoPoll == [todo |-> {}, app |-> NoApp, step |-> "next"]

ConfirmKeys == [value : {"none", "pending", "yes", "no"}, ttl : BOOLEAN]
Jobs == [state : {"none", "deferred", "queued", "running", "kept"},
         tries : 0..MaxTries, held : BOOLEAN]
Runs == [pc : {"off", "confirm", "load", "cancel", "session", "call", "ok",
               "refused", "failed", "return"},
         heard : {"none", "pending", "yes", "no", "b'pending'", "b'yes'", "b'no'"},
         loaded : Statuses,
         ids : PortalApps \cup {NoApp}]
Wizards == [step : {"idle", "loggedIn", "created", "drafted", "readyLoaded",
                    "readyCommitted"},
            loaded : Statuses]
Polls == [todo : SUBSET Apps, app : Apps \cup {NoApp},
          step : {"next", "notify", "mark", "enqueue"}]

TypeOK ==
    /\ status \in [Apps -> Statuses]
    /\ retryCount \in [Apps -> Nat]
    /\ portalId \in [Apps -> PortalApps \cup {NoApp}]
    /\ session \in [Users -> PortalApps \cup {NoApp, NoSession}]
    /\ confirm \in [Apps -> ConfirmKeys]
    /\ job \in [Apps -> Jobs]
    /\ run \in [Apps -> Runs]
    /\ wizard \in [Apps -> Wizards]
    /\ poll \in Polls
    /\ asked \in [Apps -> BOOLEAN]
    /\ hooks \in [Apps -> Nat]
    /\ open \subseteq Apps /\ drafted \subseteq PortalApps /\ published \subseteq PortalApps
    /\ flows \in [Apps -> Nat]
    /\ presses \in [Apps -> Nat]
    /\ faults \in Nat
    /\ saidYes \in [Apps -> BOOLEAN]
    /\ refusal \in [Apps -> {"none", "late", "standing"}]

Init ==
    /\ status = [a \in Apps |-> "draft"]
    /\ retryCount = [a \in Apps |-> 0]
    /\ portalId = [a \in Apps |-> NoApp]
    /\ session = [u \in Users |-> NoSession]
    /\ confirm = [a \in Apps |-> NoKey]
    /\ job = [a \in Apps |-> NoJob]
    /\ run = [a \in Apps |-> Idle]
    /\ wizard = [a \in Apps |-> NoFlow]
    /\ poll = NoPoll
    /\ asked = [a \in Apps |-> FALSE]
    /\ hooks = [a \in Apps |-> 0]
    /\ open = {} /\ drafted = {} /\ published = {}
    /\ flows = [a \in Apps |-> 0]
    /\ presses = [a \in Apps |-> 0]
    /\ faults = 0
    /\ saidYes = [a \in Apps |-> FALSE]
    /\ refusal = [a \in Apps |-> "none"]

-----------------------------------------------------------------------------
(* What the parties share.                                                 *)

\* SQLAlchemy emits an UPDATE of the column only when the new value differs
\* from the one the object was loaded with; the row may have moved on since.
SetStatus(a, loaded, new) ==
    status' = IF loaded = new THEN status ELSE [status EXCEPT ![a] = new]

\* Mutant of Enqueue: only a job that is still to run blocks a new one.
EnqueueAfterResult(a, state) ==
    job' = IF job[a].state \in {"none", "kept"}
           THEN [job EXCEPT ![a] = [state |-> state, tries |-> 0,
                                    held |-> state = "deferred"]]
           ELSE job

\* ArqRedis.enqueue_job with _job_id: nothing happens while the job key or the
\* result key exists.
Enqueue(a, state) ==
    job' = IF job[a].state = "none"
           THEN [job EXCEPT ![a] = [state |-> state, tries |-> 0,
                                    held |-> state = "deferred"]]
           ELSE job

\* Mutant of Requeue: the retry is a new job, whose tries count from zero.
RequeueAsNew(a) ==
    /\ job' = [job EXCEPT ![a].state = "queued", ![a].tries = 0]
    /\ run' = [run EXCEPT ![a] = Idle]

\* raise Retry: the job goes back to the queue with its count of tries.
Requeue(a) ==
    /\ job' = [job EXCEPT ![a].state = "queued"]
    /\ run' = [run EXCEPT ![a] = Idle]

appVars == <<status, retryCount, portalId>>
boundVars == <<flows, presses, faults>>
historyVars == <<saidYes, refusal>>
portalVars == <<open, drafted, published>>
-----------------------------------------------------------------------------
(* The browser's signing flow (runSigningFlow) and the proxy endpoints.    *)

\* The application_id that create_application has returned to the flow under way.
Draft(a) == <<a, flows[a]>>

\* proxy_auth_login: a new portal session, stored with the ids 0 and 0.
ProxyAuthLogin(a) ==
    /\ wizard[a].step = "idle"
    /\ flows[a] < MaxFlows
    /\ Rerun \/ status[a] = "draft"
    /\ session' = [session EXCEPT ![Owner[a]] = NoApp]
    /\ wizard' = [wizard EXCEPT ![a].step = "loggedIn"]
    /\ flows' = [flows EXCEPT ![a] = @ + 1]
    /\ UNCHANGED <<appVars, confirm, job, run, poll, asked, hooks, portalVars,
                   presses, faults, historyVars>>

\* proxy_create_draft up to the portal's answer (401 without a session).
ProxyCreateDraft(a) ==
    /\ wizard[a].step = "loggedIn"
    /\ session[Owner[a]] # NoSession
    /\ drafted' = drafted \cup {Draft(a)}
    /\ wizard' = [wizard EXCEPT ![a].step = "created"]
    /\ UNCHANGED <<appVars, session, confirm, job, run, poll, asked, hooks, open,
                   published, boundVars, historyVars>>

\* ... and its store_goszakup_session.
StoreDraftSession(a) ==
    /\ wizard[a].step = "created"
    /\ session' = [session EXCEPT ![Owner[a]] = Draft(a)]
    /\ wizard' = [wizard EXCEPT ![a].step = "drafted"]
    /\ UNCHANGED <<appVars, confirm, job, run, poll, asked, hooks, portalVars,
                   boundVars, historyVars>>

\* proxy_mark_ready loads the row and requires a session.  Steps 3 to 11 of the
\* flow lie before it: they read the session and write nothing of TenderIt's.
ProxyMarkReady(a) ==
    /\ wizard[a].step = "drafted"
    /\ session[Owner[a]] # NoSession
    /\ wizard' = [wizard EXCEPT ![a] = [step |-> "readyLoaded", loaded |-> status[a]]]
    /\ UNCHANGED <<appVars, session, confirm, job, run, poll, asked, hooks,
                   portalVars, boundVars, historyVars>>

\* mark_ready: commit, whatever the status was.
MarkReady(a) ==
    /\ wizard[a].step = "readyLoaded"
    /\ SetStatus(a, wizard[a].loaded, "waiting")
    /\ portalId' = [portalId EXCEPT ![a] = Draft(a)]
    /\ wizard' = [wizard EXCEPT ![a].step = "readyCommitted"]
    /\ UNCHANGED <<retryCount, session, confirm, job, run, poll, asked, hooks,
                   portalVars, boundVars, historyVars>>

\* ... and the store_goszakup_session that follows it.
StoreReadySession(a) ==
    /\ wizard[a].step = "readyCommitted"
    /\ session' = [session EXCEPT ![Owner[a]] = Draft(a)]
    /\ wizard' = [wizard EXCEPT ![a] = NoFlow]
    /\ UNCHANGED <<appVars, confirm, job, run, poll, asked, hooks, portalVars,
                   boundVars, historyVars>>

\* A signing device, a portal page or the tab gives up before mark-ready.
FlowFails(a) ==
    /\ wizard[a].step \in {"loggedIn", "drafted"}
    /\ wizard' = [wizard EXCEPT ![a] = NoFlow]
    /\ UNCHANGED <<appVars, session, confirm, job, run, poll, asked, hooks,
                   portalVars, boundVars, historyVars>>

\* The API process dies inside a request of the flow.
ProxyCrash(a) ==
    /\ wizard[a].step \in {"created", "readyLoaded", "readyCommitted"}
    /\ faults < MaxFaults
    /\ faults' = faults + 1
    /\ wizard' = [wizard EXCEPT ![a] = NoFlow]
    /\ UNCHANGED <<appVars, session, confirm, job, run, poll, asked, hooks,
                   portalVars, flows, presses, historyVars>>
-----------------------------------------------------------------------------
(* The tender and the cron job poll_watchlist_tenders.                     *)

TenderOpens(a) ==
    /\ a \notin open
    /\ open' = open \cup {a}
    /\ UNCHANGED <<appVars, session, confirm, job, run, wizard, poll, asked,
                   hooks, drafted, published, boundVars, historyVars>>

\* Mutant of PollStart: rows left in "submitting" are polled again.
PollStartWide ==
    /\ poll = NoPoll
    /\ \E a \in Apps : status[a] \in {"waiting", "submitting"}
    /\ poll' = [NoPoll EXCEPT
                  !.todo = {a \in Apps : status[a] \in {"waiting", "submitting"}}]
    /\ UNCHANGED <<appVars, session, confirm, job, run, wizard, asked, hooks,
                   portalVars, boundVars, historyVars>>

\* list_waiting_applications: the rows are loaded once, for the whole run.
PollStart ==
    /\ poll = NoPoll
    /\ \E a \in Apps : status[a] = "waiting"
    /\ poll' = [NoPoll EXCEPT !.todo = {a \in Apps : status[a] = "waiting"}]
    /\ UNCHANGED <<appVars, session, confirm, job, run, wizard, asked, hooks,
                   portalVars, boundVars, historyVars>>

\* The next application of the loop, or the end of the run.
PollDone(a) ==
    poll' = [NoPoll EXCEPT !.todo = poll.todo \ {a}]

\* The tender is unknown, cannot be fetched or does not have status 220.
PollSkip(a) ==
    /\ poll.step = "next" /\ a \in poll.todo
    /\ PollDone(a)
    /\ UNCHANGED <<appVars, session, confirm, job, run, wizard, asked, hooks,
                   portalVars, boundVars, historyVars>>

\* 1. set_confirm_pending.  A deferred job that is already there may now come
\* due before the new TTL ends.
PollConfirm(a) ==
    /\ poll.step = "next" /\ a \in poll.todo
    /\ a \in open
    /\ confirm' = [confirm EXCEPT ![a] = [value |-> "pending", ttl |-> TRUE]]
    /\ job' = [job EXCEPT ![a].held = FALSE]
    /\ refusal' = [refusal EXCEPT ![a] = "none"]
    /\ poll' = [poll EXCEPT !.app = a, !.step = "notify"]
    /\ UNCHANGED <<appVars, session, run, wizard, asked, hooks, portalVars,
                   boundVars, saidYes>>

\* Mutant of PollNotify: a message that cannot be sent ends the processing.
PollNotifyOrSkip(a) ==
    /\ poll.step = "notify" /\ poll.app = a
    /\ \/ /\ Owner[a] \in Linked
          /\ asked' = [asked EXCEPT ![a] = TRUE]
          /\ poll' = [poll EXCEPT !.step = "mark"]
       \/ PollDone(a) /\ UNCHANGED asked
    /\ UNCHANGED <<appVars, session, confirm, job, run, wizard, hooks, portalVars,
                   boundVars, historyVars>>

\* 2. send_tender_notification; failure, notification_on = False and a missing
\* chat id are all passed over.
PollNotify(a) ==
    /\ poll.step = "notify" /\ poll.app = a
    /\ \/ Owner[a] \in Linked /\ asked' = [asked EXCEPT ![a] = TRUE]
       \/ UNCHANGED asked
    /\ poll' = [poll EXCEPT !.step = "mark"]
    /\ UNCHANGED <<appVars, session, confirm, job, run, wizard, hooks, portalVars,
                   boundVars, historyVars>>

\* 3. mark_submitting, on the row as it was loaded: waiting.
PollMarkSubmitting(a) ==
    /\ poll.step = "mark" /\ poll.app = a
    /\ SetStatus(a, "waiting", "submitting")
    /\ poll' = [poll EXCEPT !.step = "enqueue"]
    /\ UNCHANGED <<retryCount, portalId, session, confirm, job, run, wizard, asked,
                   hooks, portalVars, boundVars, historyVars>>

\* Mutant of PollEnqueue: _defer_by forgotten.
PollEnqueueAtOnce(a) ==
    /\ poll.step = "enqueue" /\ poll.app = a
    /\ Enqueue(a, "queued")
    /\ PollDone(a)
    /\ UNCHANGED <<appVars, session, confirm, run, wizard, asked, hooks, portalVars,
                   boundVars, historyVars>>

\* 4. enqueue_job with _defer_by = 15 minutes.
PollEnqueue(a) ==
    /\ poll.step = "enqueue" /\ poll.app = a
    /\ Enqueue(a, "deferred")
    /\ PollDone(a)
    /\ UNCHANGED <<appVars, session, confirm, run, wizard, asked, hooks, portalVars,
                   boundVars, historyVars>>

\* The worker dies, the job times out (300 s) or an await of the loop raises:
\* the run is given up; cron jobs are not retried.
PollCrash ==
    /\ poll # NoPoll
    /\ faults < MaxFaults
    /\ faults' = faults + 1
    /\ poll' = NoPoll
    /\ UNCHANGED <<appVars, session, confirm, job, run, wizard, asked, hooks,
                   portalVars, flows, presses, historyVars>>
-----------------------------------------------------------------------------
(* The Telegram webhook.  The buttons stay in the chat.                    *)

\* Mutant of UpdateConfirm: SET with KEEPTTL, as its docstring describes it.
UpdateConfirmKeepTtl(a, value) ==
    confirm' = [confirm EXCEPT ![a].value = value]

\* update_confirm is a plain SET: it drops the TTL of the key.
UpdateConfirm(a, value) ==
    confirm' = [confirm EXCEPT ![a] = [value |-> value, ttl |-> FALSE]]

PressYes(a) ==
    /\ asked[a] /\ presses[a] < MaxPresses
    /\ presses' = [presses EXCEPT ![a] = @ + 1]
    /\ UpdateConfirm(a, "yes")
    /\ hooks' = [hooks EXCEPT ![a] = @ + 1]
    /\ saidYes' = [saidYes EXCEPT ![a] = TRUE]
    /\ refusal' = [refusal EXCEPT ![a] = "none"]
    /\ UNCHANGED <<appVars, session, job, run, wizard, poll, asked, portalVars,
                   flows, faults>>

\* enqueue_submit, the second await of the same request.
EnqueueSubmit(a) ==
    /\ hooks[a] > 0
    /\ hooks' = [hooks EXCEPT ![a] = @ - 1]
    /\ Enqueue(a, "queued")
    /\ UNCHANGED <<appVars, session, confirm, run, wizard, poll, asked, portalVars,
                   boundVars, historyVars>>

\* The API process dies between the two.
WebhookCrash(a) ==
    /\ hooks[a] > 0
    /\ faults < MaxFaults
    /\ faults' = faults + 1
    /\ hooks' = [hooks EXCEPT ![a] = @ - 1]
    /\ UNCHANGED <<appVars, session, confirm, job, run, wizard, poll, asked,
                   portalVars, flows, presses, historyVars>>

\* An attempt that has read the key already is too late to be stopped.
Deaf(a) == run[a].pc \notin {"off", "confirm"} /\ run[a].heard # "no"

PressNo(a) ==
    /\ asked[a] /\ presses[a] < MaxPresses
    /\ presses' = [presses EXCEPT ![a] = @ + 1]
    /\ UpdateConfirm(a, "no")
    /\ refusal' = [refusal EXCEPT ![a] = IF Deaf(a) THEN "late" ELSE "standing"]
    /\ UNCHANGED <<appVars, session, job, run, wizard, poll, asked, hooks,
                   portalVars, flows, faults, saidYes>>

-----------------------------------------------------------------------------
(* Redis lets keys expire.                                                 *)

ConfirmExpires(a) ==
    /\ confirm[a].ttl
    /\ confirm' = [confirm EXCEPT ![a] = NoKey]
    /\ UNCHANGED <<appVars, session, job, run, wizard, poll, asked, hooks,
                   portalVars, boundVars, historyVars>>

SessionExpires(u) ==
    /\ SessionsExpire
    /\ session[u] # NoSession
    /\ session' = [session EXCEPT ![u] = NoSession]
    /\ UNCHANGED <<appVars, confirm, job, run, wizard, poll, asked, hooks,
                   portalVars, boundVars, historyVars>>

\* An hour after the job ended no request or poll run of that time is under way.
ResultExpires(a) ==
    /\ ResultsExpire
    /\ job[a].state = "kept"
    /\ hooks[a] = 0 /\ poll.app # a
    /\ job' = [job EXCEPT ![a] = NoJob]
    /\ UNCHANGED <<appVars, session, confirm, run, wizard, poll, asked, hooks,
                   portalVars, boundVars, historyVars>>
-----------------------------------------------------------------------------
(* ARQ's worker, as the code uses it.                                      *)

\* The 15 minutes are over.  They began after those of a held job's key did.
JobDue(a) ==
    /\ job[a].state = "deferred"
    /\ job[a].held => ~confirm[a].ttl
    /\ job' = [job EXCEPT ![a].state = "queued"]
    /\ UNCHANGED <<appVars, session, confirm, run, wizard, poll, asked, hooks,
                   portalVars, boundVars, historyVars>>

StartJob(a) ==
    /\ job[a].state = "queued" /\ job[a].tries < MaxTries
    /\ job' = [job EXCEPT ![a].state = "running", ![a].tries = @ + 1]
    /\ run' = [run EXCEPT ![a].pc = "confirm"]
    /\ refusal' = [refusal EXCEPT ![a] = IF @ = "late" THEN "standing" ELSE @]
    /\ UNCHANGED <<appVars, session, confirm, wizard, poll, asked, hooks,
                   portalVars, boundVars, saidYes>>

\* The job key goes, the result key stays for an hour; the result tells the tries.
KeepResult(a) == job' = [job EXCEPT ![a].state = "kept", ![a].held = FALSE]

\* job_try > max_tries: ARQ fails the job and never calls the coroutine.
JobExhausted(a) ==
    /\ job[a].state = "queued" /\ job[a].tries = MaxTries
    /\ KeepResult(a)
    /\ UNCHANGED <<appVars, session, confirm, run, wizard, poll, asked, hooks,
                   portalVars, boundVars, historyVars>>

JobEnds(a) ==
    /\ KeepResult(a)
    /\ run' = [run EXCEPT ![a] = Idle]

JobReturns(a) ==
    /\ run[a].pc = "return"
    /\ JobEnds(a)
    /\ UNCHANGED <<appVars, session, confirm, wizard, poll, asked, hooks,
                   portalVars, boundVars, historyVars>>

\* The worker process dies or is stopped: the job runs again, one try later.
WorkerCrash(a) ==
    /\ run[a].pc # "off"
    /\ faults < MaxFaults
    /\ faults' = faults + 1
    /\ Requeue(a)
    /\ UNCHANGED <<appVars, session, confirm, wizard, poll, asked, hooks,
                   portalVars, flows, presses, historyVars>>

\* An await other than the portal's raises (a commit, a Redis call), or the
\* coroutine exceeds job_timeout: ARQ fails the job and does not retry it.
JobRaises(a) ==
    /\ run[a].pc \notin {"off", "return"}
    /\ faults < MaxFaults
    /\ faults' = faults + 1
    /\ JobEnds(a)
    /\ UNCHANGED <<appVars, session, confirm, wizard, poll, asked, hooks,
                   portalVars, flows, presses, historyVars>>
-----------------------------------------------------------------------------
(* The coroutine auto_submit_application.                                  *)

RunStep(a, pc, next) ==
    /\ run[a].pc = pc
    /\ run' = [run EXCEPT ![a].pc = next]

\* What get_confirm returns for the value of the key: bytes, unless the client
\* decodes them.  The str "no" differs from every bytes object, b"no" included.
Bytes == [pending |-> "b'pending'", yes |-> "b'yes'", no |-> "b'no'"]
Reply(value) == IF Decodes \/ value = "none" THEN value ELSE Bytes[value]

\* Step 1: get_confirm.
GetConfirm(a) ==
    /\ run[a].pc = "confirm"
    /\ run' = [run EXCEPT ![a].pc = "load", ![a].heard = Reply(confirm[a].value)]
    /\ UNCHANGED <<appVars, session, confirm, job, wizard, poll, asked, hooks,
                   portalVars, boundVars, historyVars>>

\* The row is loaded, for mark_error or for the submission.
LoadApp(a) ==
    /\ run[a].pc = "load"
    /\ run' = [run EXCEPT ![a].loaded = status[a],
                          ![a].pc = IF run[a].heard = "no" THEN "cancel" ELSE "session"]
    /\ UNCHANGED <<appVars, session, confirm, job, wizard, poll, asked, hooks,
                   portalVars, boundVars, historyVars>>

\* mark_error("Cancelled by user").
CancelByUser(a) ==
    /\ RunStep(a, "cancel", "return")
    /\ SetStatus(a, run[a].loaded, "error")
    /\ UNCHANGED <<retryCount, portalId, session, confirm, job, wizard, poll, asked,
                   hooks, portalVars, boundVars, historyVars>>

\* Step 2: get_goszakup_session of the application's user.
GetSession(a) ==
    /\ run[a].pc = "session"
    /\ session[Owner[a]] # NoSession
    /\ run' = [run EXCEPT ![a].pc = "call", ![a].ids = session[Owner[a]]]
    /\ UNCHANGED <<appVars, session, confirm, job, wizard, poll, asked, hooks,
                   portalVars, boundVars, historyVars>>

\* ... missing: raise Retry(defer=60), without increment_retry.
SessionMissing(a) ==
    /\ run[a].pc = "session"
    /\ session[Owner[a]] = NoSession
    /\ Requeue(a)
    /\ UNCHANGED <<appVars, session, confirm, wizard, poll, asked, hooks,
                   portalVars, boundVars, historyVars>>

\* Step 3: public_application, with the ids of the session.  The portal accepts
\* an application that exists, of a tender that is open, or refuses; the answer
\* may be lost either way.
PublicApplication(a) ==
    /\ \/ /\ RunStep(a, "call", "ok") \/ RunStep(a, "call", "failed")
          /\ run[a].ids \in drafted /\ run[a].ids[1] \in open
          /\ published' = published \cup {run[a].ids}
       \/ /\ RunStep(a, "call", "refused") \/ RunStep(a, "call", "failed")
          /\ UNCHANGED published
    /\ UNCHANGED <<appVars, session, confirm, job, wizard, poll, asked, hooks, open,
                   drafted, boundVars, historyVars>>

\* Mutant of MarkSubmitted: any answer without an exception counts as success.
MarkSubmittedUnchecked(a) ==
    /\ RunStep(a, "ok", "return") \/ RunStep(a, "refused", "return")
    /\ SetStatus(a, run[a].loaded, "submitted")
    /\ UNCHANGED <<retryCount, portalId, session, confirm, job, wizard, poll, asked,
                   hooks, portalVars, boundVars, historyVars>>

MarkSubmitted(a) ==
    /\ RunStep(a, "ok", "return")
    /\ SetStatus(a, run[a].loaded, "submitted")
    /\ UNCHANGED <<retryCount, portalId, session, confirm, job, wizard, poll, asked,
                   hooks, portalVars, boundVars, historyVars>>

\* Whether another attempt is to follow: job_try <= 7 after an exception,
\* job_try < 7 after an answer of the portal.
WorthRetry(a) ==
    \/ run[a].pc = "failed" /\ job[a].tries <= BackoffLen
    \/ run[a].pc = "refused" /\ job[a].tries < BackoffLen

\* increment_retry, then raise Retry.
RetryLater(a) ==
    /\ WorthRetry(a)
    /\ retryCount' = [retryCount EXCEPT ![a] = @ + 1]
    /\ Requeue(a)
    /\ UNCHANGED <<status, portalId, session, confirm, wizard, poll, asked, hooks,
                   portalVars, boundVars, historyVars>>

\* Mutant of GiveUp: a status the column, a plain TEXT, does not refuse.
GiveUpMisspelt(a) ==
    /\ ~WorthRetry(a)
    /\ RunStep(a, "failed", "return") \/ RunStep(a, "refused", "return")
    /\ SetStatus(a, run[a].loaded, "failed")
    /\ UNCHANGED <<retryCount, portalId, session, confirm, job, wizard, poll, asked,
                   hooks, portalVars, boundVars, historyVars>>

\* mark_error with the last message.
GiveUp(a) ==
    /\ ~WorthRetry(a)
    /\ RunStep(a, "failed", "return") \/ RunStep(a, "refused", "return")
    /\ SetStatus(a, run[a].loaded, "error")
    /\ UNCHANGED <<retryCount, portalId, session, confirm, job, wizard, poll, asked,
                   hooks, portalVars, boundVars, historyVars>>
-----------------------------------------------------------------------------
FlowNext(a) ==
    \/ ProxyAuthLogin(a) \/ ProxyCreateDraft(a) \/ StoreDraftSession(a)
    \/ ProxyMarkReady(a) \/ MarkReady(a) \/ StoreReadySession(a)
    \/ FlowFails(a) \/ ProxyCrash(a)

PollNext(a) ==
    \/ PollSkip(a) \/ PollConfirm(a) \/ PollNotify(a)
    \/ PollMarkSubmitting(a) \/ PollEnqueue(a)

WebhookNext(a) == PressYes(a) \/ EnqueueSubmit(a) \/ PressNo(a) \/ WebhookCrash(a)

WorkerStep(a) ==
    \/ GetConfirm(a) \/ LoadApp(a) \/ CancelByUser(a) \/ GetSession(a)
    \/ SessionMissing(a) \/ PublicApplication(a) \/ MarkSubmitted(a)
    \/ RetryLater(a) \/ GiveUp(a)

ArqStep(a) == JobDue(a) \/ StartJob(a) \/ JobExhausted(a) \/ JobReturns(a)

WorkerFault(a) == WorkerCrash(a) \/ JobRaises(a)

Next ==
    \/ PollStart \/ PollCrash
    \/ \E u \in Users : SessionExpires(u)
    \/ \E a \in Apps :
          \/ FlowNext(a) \/ TenderOpens(a) \/ PollNext(a) \/ WebhookNext(a)
          \/ ConfirmExpires(a) \/ ResultExpires(a)
          \/ ArqStep(a) \/ WorkerStep(a) \/ WorkerFault(a)

Spec == Init /\ [][Next]_vars

\* The cron job runs again and again and its steps go on; a fetch of an open
\* tender succeeds sometimes; keys expire; a free worker takes what is due.
FairSpec ==
    /\ Spec
    /\ WF_vars(PollStart)
    /\ \A a \in Apps :
          /\ WF_vars(PollNext(a)) /\ SF_vars(PollConfirm(a))
          /\ WF_vars(EnqueueSubmit(a)) /\ WF_vars(ConfirmExpires(a))
          /\ WF_vars(ArqStep(a)) /\ WF_vars(WorkerStep(a))
-----------------------------------------------------------------------------
(* Properties.                                                             *)

\* Where an attempt has decided to publish; whether a job is still to end.
Publishing == {"session", "call", "ok", "refused", "failed"}
Live(a) == job[a].state \in {"deferred", "queued", "running"}

\* A "no" that was recorded before an attempt read the confirm key is what that
\* attempt and every later one read, until the user says "yes" or is asked anew: the
\* key outlives the wait for the 15-minute fallback and all the retries, and no answer
\* or question that came in between is read in its place.
RefusalIsRead ==
    \A a \in Apps : refusal[a] = "standing" /\ run[a].pc \notin {"off", "confirm"}
                        => run[a].heard = Reply("no")

\* The docstring of auto_submit_application: ... and stops them.
CancelHonoured ==
    \A a \in Apps : refusal[a] = "standing" => run[a].pc \notin Publishing

\* What TenderIt reports as submitted was published, under the portal id that
\* mark-ready stored with the row: the job takes the session's id instead, where a
\* later flow of the same user leaves its own.
SubmittedIsPublished ==
    \A a \in Apps : status[a] = "submitted" => portalId[a] \in published

\* While the question stands unanswered, no attempt is under way, unless the
\* user said "yes" and a later poll asked again.
WindowRespected ==
    \A a \in Apps : run[a].pc \in Publishing /\ confirm[a].value = "pending"
                        => saidYes[a]

\* T-05-32: the portal is never asked to publish what is reported as submitted.
NoDoubleSubmit ==
    [][\A a \in Apps : PublicApplication(a) => status[a] # "submitted"]_vars

\* An application whose tender is open does not wait for ever.
WaitingIsTaken ==
    \A a \in Apps : a \in open /\ status[a] = "waiting" ~> status[a] # "waiting"

\* A job, once enqueued, ends: retries are bounded, the window runs out.
JobsEnd == \A a \in Apps : Live(a) ~> ~Live(a)

\* An application that is being submitted ends as submitted or as an error the
\* user can see (the docstring of auto_submit_application).
SubmissionConcludes ==
    \A a \in Apps : status[a] = "submitting" ~> status[a] \in {"submitted", "error"}

\* The state machine of application_service.py's header, as it stands ...
Lifecycle == INSTANCE ApplicationLifecycle WITH status <- status

-----------------------------------------------------------------------------
(* What holds of the disagreements and of liveness all the same: proved in   *)
(* SubmissionProofs, each under the assumptions its theorem states.          *)

\* Between mark_submitting and enqueue_job.
Asking(a) == poll.app = a /\ poll.step = "enqueue"

\* T-05-32 as far as it goes: while the result key lives, only a crash, which
\* repeats the job, can make the worker publish what is reported as submitted.
RepeatNeedsFault ==
    [][\A a \in Apps : PublicApplication(a) /\ status[a] = "submitted" => faults > 0]_vars

\* A row that is "submitting" has a job, or the poll is about to enqueue it: only
\* a crash between the two, or the end of the result key, leaves it without one.
OrphanNeedsFault ==
    \A a \in Apps : status[a] = "submitting" /\ faults = 0
                        => job[a].state # "none" \/ Asking(a)

\* No "yes" may overtake the poll, and no second tab has run the flow for the row; and
\* nothing has failed.
Undisturbed(a) == ~saidYes[a] /\ (Rerun => flows[a] <= 1)
Calm(a) == faults = 0 /\ Undisturbed(a)

\* ... and then the job is still to end, or ARQ has given it up with all its tries
\* used: no return of the coroutine leaves the row behind.
StrandedIsExhausted ==
    \A a \in Apps : status[a] = "submitting" /\ Calm(a)
                        => Live(a) \/ Asking(a) \/ job[a].tries = MaxTries

\* The table takes only steps of the state machine until the user's "yes" lets a job
\* overtake the poll, a second tab runs the flow, or something fails: a poll that holds
\* rows as they were, questions, refusals and retries alone never break it.
LifecycleUnlessAnswered ==
    [][\A a \in Apps : status'[a] # status[a]
           => Lifecycle!Step(a) \/ ~Calm(a)]_vars

\* "submitted" is left only where a "yes" overtook the poll or a crash repeated the job.
FinalUnlessAnswered ==
    [][\A a \in Apps : status[a] = "submitted" /\ status'[a] # "submitted"
                           => saidYes[a] \/ faults > 0]_vars

\* What an attempt has before it, and with it all the tries that are left.
StepsLeft == [off |-> 0, confirm |-> 7, load |-> 6, cancel |-> 5, session |-> 5,
              call |-> 4, ok |-> 3, refused |-> 3, failed |-> 3, return |-> 2]
Work(a) ==
    IF ~Live(a) THEN 0
    ELSE 10 * (MaxTries - job[a].tries)
            + CASE job[a].state = "deferred" -> 9
                [] job[a].state = "queued" -> 1
                [] job[a].state = "running" -> StepsLeft[run[a].pc]

\* Each step of ARQ or of the coroutine, a crash included, takes a live job nearer
\* to its end, and nothing that the others do takes it back.
WorkRunsOut ==
    [][\A a \in Apps : Live(a) =>
          /\ Work(a)' <= Work(a)
          /\ ArqStep(a) \/ WorkerStep(a) \/ WorkerFault(a) => Work(a)' < Work(a)]_vars

\* The steps of a run of poll_watchlist_tenders over the rows it has loaded: it has one
\* row fewer to go, or gets on with the one it is at, whatever becomes of these rows.
PollStage == [next |-> 3, notify |-> 2, mark |-> 1, enqueue |-> 0]
PollsGoOn ==
    [][poll \notin {NoPoll, poll'} =>
          \/ poll'.todo \subseteq poll.todo /\ poll'.todo # poll.todo
          \/ poll'.todo = poll.todo /\ PollStage[poll'.step] < PollStage[poll.step]]_vars

\* No attempt ever hears a "no", and none ends with mark_error("Cancelled by user").
RefusalUnheard ==
    \A a \in Apps : run[a].heard # "no" /\ run[a].pc # "cancel"
-----------------------------------------------------------------------------
(* What comments say and the code does not do.                             *)

\* application_service.py: nothing leads out of "submitted".
SubmittedIsFinal ==
    [][\A a \in Apps : status[a] = "submitted" => status'[a] = "submitted"]_vars
=============================================================================
