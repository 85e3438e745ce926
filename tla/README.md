# TenderIt in TLA+

Models of the backend and the browser code of TenderIt, a service that finds
public tenders for a company, prepares an application with the user's digital
signature, and submits it automatically when the tender opens. All paths below
are relative to the repository; `app/` stands for `backend/app/`.

## The system

| component | state it keeps | operations | talks to |
|---|---|---|---|
| Browser signing flow (`frontend/src/lib/goszakup.ts`, `ApplicationWizard.tsx`) | the steps of one running flow | log in to the portal, create a portal application, add lots, encrypt and sign prices, mark ready | proxy endpoints, NCALayer, CryptoSocket |
| Proxy endpoints (`app/routers/goszakup_proxy.py`) | Redis key `goszakup_session:{user}` (20 h) | login, create-draft, steps 3-11, mark-ready | portal, applications table |
| Applications (`app/services/application_service.py`, `app/routers/applications.py`) | table `applications`: status, portal ids, retry count | create, patch, `mark_*`, `increment_retry` | everything above and below |
| Watch-list poll (`app/workers/tasks/poll_watchlist.py`) | nothing between runs | ask the user, mark submitting, enqueue the fallback | portal, Redis, Telegram, ARQ |
| Telegram webhook (`app/routers/telegram_webhook.py`) | Redis key `confirm:{app}` (15 min), `users.telegram_*`, match status | yes / no, participate / skip, `/start TOKEN` | Redis, ARQ, database |
| Submission job (`app/workers/tasks/auto_submit.py`) | the ARQ job `submit:{app}` | one attempt, with retries | Redis, database, portal |
| Discovery polls (`poll_goszakup_discovery.py`, `poll_sk_kz_discovery.py`) | `tenders`, Redis `*:last_polled_at` | fetch, upsert, enqueue matching | portals, ARQ |
| Matching and decisions (`run_matching.py`, `matching_service.py`, `app/routers/discovery.py`) | `tender_matches` | insert, notify, participate, skip, delete | database, Telegram |
| Authentication (`app/routers/auth.py`, `frontend/src/lib/api.ts`) | Redis `refresh_token:{user}`, `reset:{token}`, cookies | login, refresh, logout, reset | Redis, database |
| Document vault (`app/routers/documents.py`, `document_service.py`) | `documents`, MinIO objects | upload, list, delete, download | MinIO, database |
| Tender lookup (`app/services/tender_service.py`) | `tenders` as a cache, watch list | look up, refresh | portal |
| Telegram linking (`app/routers/notifications.py`) | `users.telegram_link_token` | issue link, link, unlink | Telegram |
| Signing sockets (`useNCALayer.ts`, `useCryptoSocket.ts`) | WebSocket and pending promises | call, reply, reconnect | local signing programs |
| Company profile (`company_service.py`, `bin_validator.py`) | `company_profiles` | upsert, BIN checksum | database |

Everything runs on two event loops (the API process and the ARQ worker) and in
browsers. Between any two `await`s another request, job or key expiry may come
in; the three stores (PostgreSQL, Redis, the portal) are written one after the
other, never in one transaction; processes may die between two writes. That is
what the models are about, and `PROJECT.json` lists each such place under
`hazards`.

What makes each component correct, in one line each:

* **pipeline**: a refusal stops the attempts that follow; "submitted" means that
  the row's own portal application was published; nothing is submitted twice or before the user had the time
  to answer; every accepted application ends as submitted or as a visible error;
* **discovery**: a decision is never undone by the system, a match the user takes
  part in has its draft, every match is announced once at most; no tender falls
  between two polls;
* **authentication**: one refresh token per user is valid and a retired one
  never is again; a reset link sets one password; the silent refresh repeats a
  call without running it twice;
* **vault**: a row has its object and an object its row, and the badge of a
  document agrees with the list it can be attached from;
* **tender cache**: what is served from the table is recent, and "not found"
  means that the portal does not have the tender;
* **linking**: a link that was replaced, used or disconnected never connects a
  message that comes later, and a link that is presented is used up;
* **sockets**: a program has one request at a time, the portal is given an
  encrypted price, every flow ends.

The code does not keep all of this; where it does not, "Disagreements" says so,
and which weaker statement holds.

## Modules

`Submission.tla` models the auto-submission pipeline, the core of the service:
the browser flow and its proxy endpoints, the poll, the confirm buttons of the
webhook, the ARQ job, and the expiry of the Redis keys they meet through.

| state | in the code |
|---|---|
| `status`, `retryCount`, `portalId` | the columns of `applications` |
| `session[u]` | the `application_id` in `goszakup_session:{u}`; 0 (`NoApp`) after the login |
| `confirm[a]` | the key `confirm:{a}` and whether it has a TTL |
| `job[a]` | the ARQ job `submit:{a}`: deferred, queued, running, or only its result key |
| `run[a]` | the running coroutine: program counter and what it has read |
| `wizard[a]`, `poll`, `hooks[a]` | the browser's flow, the poll run, the webhook requests between their two awaits |
| `open`, `drafted`, `published` | the portal: tenders by row, applications by the id it gave them |
| `saidYes`, `refusal` | history: what the user answered |

An action is what a party does between two awaits that others can observe.
`ProxyAuthLogin` ... `StoreReadySession` are the flow; `PollStart`,
`PollConfirm`, `PollNotify`, `PollMarkSubmitting`, `PollEnqueue` are
`_process_application` step by step, `PollSkip` its early returns; `PressYes`,
`EnqueueSubmit`, `PressNo` the webhook; `GetConfirm` ... `GiveUp` the job;
`JobDue`, `StartJob`, `JobExhausted`, `JobReturns` what ARQ does with it; the
actions with *Crash*, *Fails*, *Raises* and *Expires* the faults. `SetStatus`
models SQLAlchemy's unit of work: a column is written when it differs from the
value the object was loaded with, however the row has changed since.

The portal gives each draft an `application_id` of its own. `Draft(a)` is that of
the flow under way, `<<a, n>>` for the n-th flow of row `a`: create-draft puts it
into `session`, mark-ready into `portalId`, and between the two a rerun has them
differ. A row's flows follow one another; two that run for one row at the same
time, in two tabs, are not modelled (flows of different rows overlap freely).

Two facts of the environment are constants because the models' answers hang on
them. `MaxTries` is ARQ's `max_tries`, 5 unless `WorkerSettings` says
otherwise, and it does not; `BackoffLen` is `len(BACKOFF_SECONDS)`, 7. `Decodes`
says whether the worker's Redis client returns `str`. The client of the tests
and of `get_redis` does (`decode_responses=True`); the pool that ARQ makes from
`RedisSettings` returns `bytes`, and a comparison with `"no"` is then false.
`Decodes = FALSE` is the deployed program and what the runs assume, but for
`Submission`: there the branch of a refusal, which as deployed is never taken
(`UnheardSafe`), is to be exercised, and its properties claim nothing that hangs on
the client (their theorems hold for both). `Reply` is the conversion.

`ApplicationLifecycle.tla` is the abstract specification: the state machine in
the header of `application_service.py`. `LifecycleUnlessAnswered` states that
`Submission` takes only its steps, with `status` for `status`, until a "yes" overtakes
the poll, a second tab runs a flow, or something fails; where one of these happens
the code does leave the state machine.

`MCSubmission.tla` gives the constants of the instances; `SubmissionProofs.tla`
holds the theorems.

`Discovery.tla` models the matches: the polls as the source of matching jobs,
`run_matching`, the endpoints of `app/routers/discovery.py` and the disc branch
of the webhook.

| state | in the code |
|---|---|
| `window` | the pairs of a user and a tender that the next poll upserts and the user's filter lets through; it moves with the portal, the filters and the seven days |
| `status` | `tender_matches.status`; "deleted" for a row that was there |
| `sent` | what Telegram delivered of `send_discovery_notification` |
| `drafts` | applications made by `create_discovery_draft` |
| `run[j]` | a running `run_matching`: its ids, what is left of them, the row it announces |
| `req[r]` | a request with a decision, from the load of the row to its last commit |

A row is the n-th of its pair, as a deleted match may be inserted again.
`InsertMatch` and `SkipDuplicate` are the two results of `INSERT ... ON CONFLICT
DO NOTHING`; `SendNotification`, `SendFails`, `LoadMatch`, `MarkNotified`,
`MarkDeleted` the announcement, await by await; `Participate`, `Skip`, `Delete`
the web page and `DiscParticipate`, `DiscSkip` the buttons, each with the guards
it has; `CreateDraft` and `Decide` are the two commits of a decision. `Written`
is the unit of work again: an unchanged value is not written. The status of the
draft then belongs to `Submission`, which starts from a draft.

`SigningFlow.tla` models the signing page: the hooks `useNCALayer` and
`useCryptoSocket` and the flow `runSigningFlow` with the proxy endpoint behind
each of its steps. `Submission` has the same flow reduced to what it writes in
TenderIt's stores; here it is the browser that is looked at.

| state | in the code |
|---|---|
| `status[h]`, `socket[h]`, `handler[h]` | what the page shows of a hook, its `wsRef`, and `ws.onmessage` |
| `queue[h]` | the messages that the local program has yet to send |
| `at[f]` | the step of the flow that a press on Sign started |
| `sign`, `price`, `kept` | the results the flow took from the sockets, and what the portal was given of them |
| `crossed`, `orphaned` | history: a message taken for another one's reply; a flow whose socket closed under its request |

`Connect`, `Opened`, `Closes`, `Greeted`, `Ignored`, `Request` are the hooks'
callbacks (NCALayer's first message connects its hook only if it has a version).
Messages carry no ids, as in the code: a message goes to the handler
that is there when it comes. `HandleSign` has the guard of the button
(`CanSign`), `SaveDraft` to `MarkReady` the steps of the flow, each of which may
fail. `Content` says which results a message can be mistaken for.

`DiscoveryPolls.tla` models both discovery polls up to the enqueuing of
`run_matching`, against portals that change while they are read. `listed` is
goszakup's page of the last seven days, `feed` the list of zakup.sk.kz with the
last change first; `stored` the rows, `stamped` and `later` the key
`last_polled_at` (by which changes it covers), `waiting` the tenders whose last
change no matching job was given; `got`, `current`, `page`, `twice` the running
poll's variables. `FetchPage` reads one page of the list as it is at that
moment, so a tender can come twice or be missed; `ReadsNothing` is the reply
without data, or of zakup.sk.kz one that is not a list, which passes for an empty one; `Upsert` fails as a whole if
one came twice. `StartPoll` of zakup.sk.kz is not possible once a timestamp
exists: `datetime.fromisoformat` is given bytes (see the finding).

`AuthSession.tla` models `routers/auth.py` and `apiFetch` of `lib/api.ts` for
one account in one browser, whose tabs share the cookies.

| state | in the code |
|---|---|
| `stored`, `reset[l]` | Redis: `refresh_token:{user}` and `reset:{token}` |
| `access`, `cookie` | the browser's cookies |
| `at[t]`, `op`, `link`, `again`, `auth`, `shown`, `minted` | a call: its place, the endpoint, `didRetry`, the credentials the request carries, the token made for it |
| `ran`, `resets`, `retired`, `disturbed` | history |

A request stops at each access to Redis or the database, so the comparison of a
refresh token (`RefreshCheck`) and its replacement (`RefreshRotate`) are two
steps, as are those of a registration, a login and a password reset. `Finish`,
`SilentRefresh`, `TakeTokens`, `Resend`, `ClearAuth` are the branches of
`apiFetch`. `RefreshToken.tla` is the abstract specification of the Redis key: a
slot that is emptied, or filled with a token that was never in it. `SlotSpec`
states that `AuthSession` implements it, with `token` for `stored` and `used`
for what is or was stored. A password reset does not delete `refresh_token:{user}`:
sessions that exist go on, in the code and in the model.

`DocumentVault.tla` models upload, deletion, change and the expiry of documents.
`objects` is the bucket, `row[d]` and `expires[d]` the table, `req[r]` a request
between two of its steps, `clock` the time in fractions of a day, `tainted` the
documents that a failure caught between the two stores. `PutObject`,
`InsertRow`, `Refresh`, `RemoveUploaded` are the upload with its rollback;
`RemoveObject`, `EraseRow` the deletion; `PatchRow` the change; `PutFails`,
`InsertFails`, `RefreshFails`, `RemoveFails`, `Dies` each way in which a step
goes wrong, with both outcomes where the store may or may not have acted.
`ExpiryStatus` is `compute_expiry_status` and `Attachable` the query of
`list_attachable_documents`; the code takes the time once for each, the model once
for both, so that the two agree is said of one instant.

`TenderCache.tla` models `get_or_fetch_tender`, the watch list, and the polls'
upserts into the same table. Data is represented by the instant at which it was
read on the portal: `row`, `cached` (`cached_at`), `mem` and `memAt` (the object
in the request's session), `data` (the portal's answer). `Miss` is the lookup's
`None`: a 404 ("unknown"), but after an addition a response that does not validate,
a 500 ("failed"); add_to_watchlist's own `None` is the other 404 ("missing").
`FetchNothing` is the reply without data, which passes for a miss. `UpsertTender` keeps
SQLAlchemy's identity map: an object that the session has already loaded is
returned with the attributes it had.

`TelegramLink.tla` models the link to a chat: `chat` and `token` are the columns
of `users`, `inbox` the updates that Telegram will deliver until they are
answered with 200, `pc`, `message`, `user`, `had` the webhook's requests.
`CreateLink` and `Disconnect` are the endpoints (`Disconnect` is one step: its load
of the user and its commit of the three columns are not told apart); `LookUp`, `Check`, `Reply`,
`Fails` the `/start` branch. `Connect` writes the columns that differ from the
row as it was loaded.

Each module ends with a section of comments that the code contradicts (below),
and holds the mutated forms of its actions, marked *Mutant of*, with which the
properties have been tried out: each property fails for at least one of them.
The modules `*Proofs.tla` hold the theorems.

## Runs

| run | instance | shows |
|---|---|---|
| `Submission` | 1 application, 2 tries over 1 back-off, 2 flows of which one is a rerun by a second tab, 2 presses, 1 fault, all keys expire, `Decodes` | `TypeOK`, `RefusalIsRead`, `LifecycleUnlessAnswered` |
| `SubmissionLive` | 1 application, 3 tries under 4 back-offs, 2 flows, 2 presses, 1 fault, no reruns, all keys expire, `FairSpec` | `WindowRespected`, `SubmittedIsPublished`, `WaitingIsTaken`, `JobsEnd` |
| `Discovery` | 2 pairs, one of a user with a chat, 2 jobs, 1 request, 2 rows per pair, 2 decisions, 1 fault, `FairSpec` | `TypeOK`, `AnnouncedOnce`, `NotifiedWasSent`, `ParticipatingHasDraft`, `DecisionSticks`, `EveryPairIsMatched` |
| `DiscoveryPolls` | 1 tender of goszakup, 2 of zakup.sk.kz on 2 pages of one, 3 changes, 1 fault, `FairSpec` | `TypeOK`, `NothingReadIsPassed`, `GoszakupIsMatched`, `FirstPollIsRepeated` |
| `SigningFlow` | 2 presses on Sign, sockets that open and close without limit, `FairSpec` | `TypeOK`, `OneRequest`, `SavedPriceIsEncrypted`, `CryptoConnected`, `FlowEnds` |
| `AuthSession` | 2 tabs, 1 reset link, 3 calls, 1 loss, `FairSpec` | `TypeOK`, `ResetOnce`, `HandledOnce`, `RetiredForGood`, `InSync`, `SlotSpec`, `CallsSettle` |
| `DocumentVault` | 2 documents, 2 requests, days of 2 units, instants 0, 1, 14, 28, 1 fault | `TypeOK`, `Consistent`, `NothingLeftBehind`, `ExpiredIsNotOffered`, `DeletedForGood` |
| `TenderCache` | 1 tender, 2 requests and a poll, `TTL` 1, job timeout 1, instants 0..3, 1 fault | `TypeOK`, `HitIsRecent`, `NotFoundHasCause` |
| `TelegramLink` | 1 user, 2 links, 2 chats, 2 deliveries at once, 1 fault, `FairSpec` | `TypeOK`, `VoidLinksAreGone`, `StartIsServed` |
| `FindShared` | 2 applications of one user | `SubmittedIsPublished` fails: the session key holds the other one's ids |
| `FindCancel` | 1 application, 5 tries, 7 back-offs (as deployed), 1 press, nothing fails or expires | `CancelHonoured` fails: the job hears `b"no"` and goes on to the portal |
| `FindSkKz` | 1 tender of zakup.sk.kz, no faults, `FairSpec` | `SkKzIsMatched` fails: the second poll dies on the timestamp of the first |

Bounds of the pipeline. An application meets at most one poll loop, one job and
one flow at a time, so one application shows every race inside the pipeline; two
are needed only for the shared session key, which `FindShared` has, and for a poll
run with several rows, of which the theorems speak (they hold for any set of
applications). Two flows and two presses give the
second flow after a failed one and both orders of "yes" and "no"; more presses
only repeat them. `MaxTries` on either side of `BackoffLen` fires every branch
of the retry logic with the smallest counts: in `Submission` the back-offs end first
and both `mark_error` branches are reached, in `SubmissionLive` the tries do, as in
the program. One fault puts
a crash before or after any step.

`Rerun` is off in `SubmissionLive` because with it neither safety property holds: a
rerun asks the user anew while the old job is still under way, and leaves other ids
in the session than in the row ("Disagreements"). One application in a run with fairness
shows that a failed poll is made up for, not what it does to the other rows of its
list.

Bounds of `Discovery`. Pairs meet only in the list of a job, so two pairs, one of
them without a message, show what one pair does to the rest of a job. Two jobs
overlap in every way; two rows let a match be deleted and come back; two
decisions, one after the other, change a decision, and a request overlaps with
both jobs. More requests at once only differ in which commit comes last.

Bounds of the others. Two tabs, requests, handlers or presses overlap in every
way that three do pairwise, and the properties compare two. Three calls let a
session be made, refreshed and ended; two links let one replace the other.
`Times` and `Day` put a document at either side of whole-day boundaries and of
the 7 and 14 days. Four instants with a `TTL` of 1 let a row be fresh, stale and
refreshed by either writer; the one tender is goszakup's, and the rows of
zakup.sk.kz that share the table, which goszakup does not have, are in the theorems
(`Foreign`). Pages of one tender make a list of two move between
two pages; with one of goszakup, three changes change a tender before, while and
after it is read.

`CHECK_DEADLOCK FALSE`: the instances stop when their bounds are used up.

Fairness (`FairSpec` of `Submission`). The cron job runs every five minutes for ever
(`WF(PollStart)`), its coroutine and the job's go on unless they die (`WF` of
their steps), webhook requests end, ARQ takes due jobs when a worker is free,
and a TTL ends. The fetch of an open tender may fail, but not for ever
(`SF(PollConfirm)`): the code skips the row and the next cron run asks again.
Nothing is assumed of users, flows, faults or the portal's answer.

Fairness elsewhere. `Discovery`: the poll runs every 15 minutes and its fetch
succeeds in the end, a job goes on unless it dies. `DiscoveryPolls`: cron starts
each poll, and a poll goes on or fails. `AuthSession`: a request that is not
lost is answered and its tab takes the answer (`WF` of the steps of each tab).
`SigningFlow`: HTTP requests end, and an open socket brings the reply that is
due (the user enters the PIN or cancels); nothing is assumed of a closed one.
`TelegramLink`: Telegram delivers an update until it is answered with 200 (`WF`
of the lookup, per message), and a request is carried on. None of them assumes
anything of users, of the portals or of faults, which the bounds make finite.

## Disagreements

Three are runs (`FindCancel`, `FindShared`, `FindSkKz`, under "findings" in
`PROJECT.json`): a "no" cancels (`auto_submit.py:43`), but ARQ's pool returns bytes,
and `b"no" != "no"`; the job has the ids of mark-ready (`goszakup_proxy.py:408`), but
their key is one per user; zakup.sk.kz is polled incrementally
(`poll_sk_kz_discovery.py:15`), but `fromisoformat` is given bytes.

The others are operators in the modules; TLC finds the counterexample when the
operator is added to a `.cfg`: that of the module's run, or where the table says so
`FindCancel.cfg` with the constants named, nothing failing and no key expiring.

| operator | says | the code |
|---|---|---|
| `Submission!SubmissionConcludes` (`FairSpec`, `Linked = {}`) | an attempt ends as submitted or as an error (`auto_submit.py:50`) | ARQ stops after 5 tries, the coroutine counts to 7: the row stays "submitting" |
| `Submission!SubmittedIsPublished` (`Rerun = TRUE`, `MaxFlows = 2`, `Linked = {}`) | the job has the ids of mark-ready (`goszakup_proxy.py:408`) | a second flow of the same row replaces them from its create-draft on: its unsigned draft is published and the row with the first one's id is "submitted" |
| `TenderCache!NotFoundIsTrue` | 404 if the tender does not exist in goszakup (`tenders.py:64`, `tender_service.py:115`) | also if its entry is taken off the list while it is added again, and after a reply without data |
| `Submission!SubmittedIsFinal` | nothing leads out of "submitted" (`application_service.py:7`) | a poll that loaded the row earlier overwrites it |
| `Submission!NoDoubleSubmit` | T-05-32, the unique job id (`telegram_webhook.py:7`) | once the result key has expired the id is free again |
| `Discovery!DecidedIsFinal` | matched, notified, then a decision (`tender_match.py`) | the job writes "notified" over a decision taken meanwhile |
| `Discovery!DeletedStaysAway` | "permanently" removed (`discovery.py:286`) | the next poll inserts the pair again |
| `SigningFlow!SignNeedsConnections` | the button needs both connections (`SigningStep.tsx:49`) | after a rejected request NCALayer's hook shows "connected" without a socket |
| `SigningFlow!RefusalsEndFlow` | any failure ends the flow (`goszakup.ts:98`) | what NCALayer answers to a refused CMS signature is saved as one |
| `TenderCache!AnswerIsFetched` | a stale tender is fetched (`tenders.py:43`) | it is, and stored; the answer is the object loaded before |
| `TelegramLink!UsedOnce` | a token cannot be replayed (`telegram_webhook.py:124`) | two deliveries that both loaded the row both connect |
| `DocumentVault!RollbackOnlyFailedInserts` | the object is removed if the insert fails (`documents.py:131`) | also if the row was committed and only its refresh failed |
| `AuthSession!SecondRefusalIsExpiry` | the second 401 means an expired session (`api.ts:14`) | the portal's own 401 is taken for one, and so is an access token that ran out before the call was repeated |

Met on the way, without an operator: a "yes" after the fallback was enqueued does
not run "immediately" (`auto_submit.py:7`), as the deferred job holds the id;
`mark_ready` accepts any status, not only "draft/signed"
(`application_service.py:111`); `update_confirm` does drop the TTL, which its docstring
says it keeps (`redis_service.py:130`): `RefusalIsRead` relies on what it does, and
fails with the TTL kept, as the answer would expire before the attempt reads it;
two presses on participate, or a crash between its commits and a second press,
leave two drafts of one match; what a tender's portal answers with 200 and without
data passes for "there is none"; a worker that dies
between `mark_submitting` and `enqueue_job` leaves a row that nobody looks at
again; a `/start` that loaded its row before a new link was issued clears the
new link; two upserts of a tender may put the older data back; a CryptoSocket
that refused the API key keeps its socket, so that Connect does nothing
until the page is reloaded; `getCertificates` has no caller; the wizard sends
`tender_id` 0, a price of 0, and never the ids of the documents chosen.

What holds all the same, proved for every instance (see Proofs):

| instead of | holds | if |
|---|---|---|
| `SubmissionConcludes` | `StrandedIsExhausted`: a "submitting" row has a job to conclude it or one that has used all of ARQ's tries, until a "yes", a rerun or a fault | the result key, which tells the tries, is still there |
| the state machine for rows with reruns or a chat | `LifecycleUnlessAnswered`: it holds until a "yes", a rerun or a fault | |
| `SubmittedIsFinal` | `FinalUnlessAnswered`: only a "yes" or a fault leads out of "submitted" | no reruns by a second tab |
| `NoDoubleSubmit` | `RepeatNeedsFault`: only a fault repeats a publication | the result key is still there |
| `CancelHonoured` | `RefusalIsRead`: a recorded "no" is what every later attempt reads, so that decoding the reply would be all it takes | |
| `CancelHonoured` | `RefusalUnheard`: no attempt ever acts on a "no" | `Decodes = FALSE`, as deployed |
| `NotFoundIsTrue` | `NotFoundHasCause`: goszakup has no such tender or sent no data, or the entry was taken off | |
| `SkKzIsMatched` | `SkKzStops`: after the first timestamp no tender of zakup.sk.kz is stored, and none matched but those of that poll | |
| `SignNeedsConnections`, flows that hang | `OrphansBlock`: the button stays disabled | |
| `AnswerIsFetched` | `AnswersAreReal`: the answer is a reading of that tender, though maybe the older one | |
| `UsedOnce` | `ConnectsByOwnLink`: only a link that the request had loaded, of that user, and the commit clears the row's | |
| `RollbackOnlyFailedInserts` | `RollbackNeedsFailure`: only a failed refresh, never an overlap | |
| a row lost at `poll_watchlist.py:136` | `OrphanNeedsFault`: only a crash loses it | the result key is still there |

## Proofs

Eight modules of proofs, checked by `tlapm`. They hold for all sets of
applications, users, tenders, tabs, documents and so on and for all limits; the
assumptions on the constants are the `ASSUME`s of the modules, which TLC
evaluates in each run, and what a theorem states besides. In each module
`TypeCorrect` is `Spec => []TypeOK`, which is inductive, and the other
invariants are proved relative to it.

`SubmissionProofs`:

* `RefusalSafe`: `Spec => []RefusalIsRead`, for either client. The inductive
  invariant adds what the property does not say: while an answer stands as "no" the
  key still holds it *without a TTL*, whatever job, retry or crash comes.
* `PublishedSafe`: `Spec => []SubmittedIsPublished` if no second tab reruns a flow
  and no two applications share a user. The inductive `PubInv` follows the portal id
  through the wizard, the session key and the running job. `FindShared` shows that
  the second assumption is needed, the counterexample of "Disagreements" with
  `Rerun` the first.
* `WindowSafe`: without reruns, `Spec => []WindowRespected`. `QuietInv` says, of a
  row whose user has not said "yes", that a job exists only when the row has left
  "waiting" for good (so that no poll asks again) and that the deferred job
  outlives the question.
* `ArrowsSafe`: `Spec => LifecycleUnlessAnswered`, with Telegram and reruns: every
  change of the status of an undisturbed row is a step of `ApplicationLifecycle`. Of it
  what the wizard, the poll and an attempt loaded is still what the row is when they
  write.
* `RepeatSafe` and `OrphanSafe`: with results kept (`~ResultsExpire`),
  `RepeatNeedsFault` (an action property) and `[]OrphanNeedsFault`. `OnceInv` says
  that, as long as nothing has failed, a row in "submitted" has a job whose result
  is kept or which is at its return, and one in "submitting" has a job or the poll
  is about to enqueue it; its steps use `RunInv`, which ties a running job to its
  attempt.
* `FinalSafe`: without reruns, `FinalUnlessAnswered`. `FollowInv`, which needs no
  assumption and also serves `ArrowsSafe`, says that before a
  "yes" and a fault the poll alone enqueues the job and that the row follows it:
  "submitting" until the attempt that concludes is at its return.
* `StrandedSafe`: `[]StrandedIsExhausted` while results are kept, for all limits:
  a job that has returned has its row out of "submitting", so only a job that ARQ
  gave up leaves one there.
* `UnheardSafe`: with `Decodes = FALSE`, `[]RefusalUnheard`.
* `WorkSafe` (`WorkRunsOut`): the variant of `JobsEnd`, a number that each step of
  a job lowers, the crash that repeats it included, and that nothing raises.
* `PollsSafe` (`PollsGoOn`): the variant of the poll that `WaitingIsTaken` waits for.
  `AtInv` says that the row which the loop is at is one of its list.

`DiscoveryProofs`:

* `AnnouncedOnceSafe`, `NotifiedSafe`, `DraftSafe`: the invariants of the run.
  None is inductive: that a message is the first of its row depends on where the
  jobs are. The inductive `Inv` adds that a row is announced by one job at a
  time (`OneAnnouncer`), which has not sent its message while it is about to
  (`Unsent`) and has once it is past (`Accepted`); that a row not inserted yet
  has no message (`NewIsUnsent`); and that a request past its first commit has
  its draft (`RequestDraft`). `OneAnnouncer` holds because only the job whose
  INSERT returned an id announces the row.
* `DecisionSafe`: `Spec => DecisionSticks`, from `Inv` and the fact that of the
  steps of jobs only `MarkNotified` changes a row that exists.
* `EarlierSafe` (`EarlierRowsAreGone`): a pair has one row at a time.
* `PassedSafe` (`PassedHaveRows`): a job leaves no pair behind that has had no row.
  `JobsInv` says that the pair which a job announces is one it has still to do.
* `GoOnSafe` (`JobsGoOn`): but for crashes a job has fewer pairs to go or gets on
  with its own: the variant of `EveryPairIsMatched`.

`AuthSessionProofs`:

* `HandledSafe` (`HandledOnce`): a call whose endpoint ran has a reply that is
  not a 401. `ResetSafe` (`ResetOnce`): GETDEL leaves one tab with the link.
* `RetiredSafe` (`RetiredForGood`) and `SlotImplements` (`SlotSpec`, the
  refinement of `RefreshToken`): `TokenInv` says that a token which a request is
  about to store is new to Redis, and that no two requests hold the same.
* `SyncSafe` (`InSync`): `SyncInv` says by which reply under way Redis may be
  ahead of the cookies.
* `CallsSafe` (`CallsRunOut`): the variant of `CallsSettle`. A call is repeated once
  at most, as a refresh is tried only before the repetition (`AgainInv`).

`DocumentVaultProofs`: `ConsistentSafe`, `NothingLeftSafe`, `DeletedSafe` and
`ExpirySafe` are the four properties of the run. `VaultInv` says of each place
of a request what its document is like there, that nobody else knows a document
without a row, and that where bucket and table disagree a request is there to
set it right or a failure has been. `DisagreementsSafe` says the same while requests
are under way, `RollbackSafe` what an upload's rollback may take away
(`TaintNeedsFault`: only a counted failure exempts a document).

`TenderCacheProofs`: `NotFoundSafe` (`NotFoundHasCause`) is an action property of
both 404s and needs `WatchInv`, that an entry in the way of an INSERT is there until
a removal, which the request remembers; `HitSafe` needs that `cached_at` exceeds the instant of the
reading by at most a poll's length, in the table and in every object loaded from
it (`AgeInv`), and, since ARQ ends a poll, that a batch is never older. `RowsSafe`
and `AnswersSafe` follow the data itself: `RealInv` says of every place that holds a
tender (table, batch, loaded object, answer of a portal) that a portal said so, and
not later than now.

`TelegramLinkProofs`: `VoidSafe` needs `LinkInv`, that a row and a request hold
only links issued to their user, so that what a late commit overwrites is
its own user's link. `ChatsSafe` (`ChatsHadALink`) needs that a request that has
loaded a row stems from a message sent to the bot (`SentInv`); `ConnectsSafe`
(`ConnectsByOwnLink`) is an action property from `LinkInv`. `AnsweredSafe`
(`AnsweredAreSpent`) needs `SpentInv`: a request about to be answered has a link
that is in no row, and none issued later is that one.

`DiscoveryPollsProofs`: `NothingPassed` is an action property; `PollInv` says
that a poll has its tenders in the table before it writes a timestamp, and that
one which writes it early has read nothing. `MatchedSafe` (`MatchedAreStored`) is the
same of what is handed to `run_matching`. `SkKzStopsSafe` (`SkKzStops`) makes the
counterexample of `FindSkKz` permanent: `SkInv` says that once zakup.sk.kz has a
timestamp its poll is idle or about to enqueue what it read for that timestamp.

`SigningFlowProofs`: `ConnectedSafe` (`SocketInv`: only an open socket has
messages), `PriceSafe` (`PriceInv`: a price is taken once, before it is saved),
`OneRequestSafe` (`QueueInv`: one flow at a time, which awaits the answer that is
queued). `WaitInv` adds that a promise which waits is the handler of its open socket and
has its request in the queue, and that an orphaned one is no handler: `ServedSafe`
(`WaitersAreServed`) and `OrphansSafe` (`OrphansBlock`). `GoesOnSafe` (`FlowsGoOn`)
is the variant of `FlowEnds`: each step of a flow leaves it fewer, and nothing else
moves it.

Only model-checked: the liveness properties `WaitingIsTaken`, `JobsEnd`,
`EveryPairIsMatched`, `GoszakupIsMatched`, `FirstPollIsRepeated`, `CallsSettle`,
`FlowEnds`, `StartIsServed`, as TLAPS reasons neither about fairness nor about
`ENABLED`. Of `WaitingIsTaken`, `JobsEnd`, `EveryPairIsMatched`, `CallsSettle` and
`FlowEnds` the half that is a matter of steps is proved for every instance:
`PollsGoOn`, `WorkRunsOut`, `JobsGoOn`, `CallsRunOut` and `FlowsGoOn` give a quantity
over a well-founded order that falls with each step and that others do not raise; of
`StartIsServed` it is `AnsweredAreSpent`. What TLC adds is that a step is taken. No
operator of the modules is recursive.

The properties under "Proved in" of a module are no run's properties; they were
checked by TLC on the run's instance, with the constants a theorem assumes, before
they were proved, and can be again by naming them in the run's `.cfg`.

## Plan

Done: the pipeline and discovery with the theorems of their invariants; then the
polls, the session, the vault, the signing page, the cache and the Telegram link,
each with its properties, runs and theorems; the steps of `ApplicationLifecycle`
and the refinement `SlotSpec`; then what holds in place of the disagreements, and the variants of the
liveness properties; then the run of the refusal that is not heard, a portal
application per flow, the causes of both 404s, and replies without data.

What could follow: filters as data with `passes_filter` checked against a
reference definition; editing of applications, once another part reads what it
writes; one model of the pipeline with the signing page, in place of the two
views of the flow.

## Not modelled

* Application editing: create, list, get and patch write `lots_data` and
  `document_ids`, which no other part reads back.
* Company profile and BIN: one upsert and a checksum over digits, without state
  that anything else races for.
* The HTML of the portal, its CSRF tokens and encoding; HTTP, SMTP and MinIO
  clients: the models have the outcome of each call, not the bytes.
* Rate limits, hashing of passwords, contents of e-mails and messages.
* Filters: which tenders match is a choice of `Discovery`'s environment.
* Schemas and migrations, start-up, pages and forms, spikes: they keep no state
  or only pass data on.

`PROJECT.json` lists each component with its status, and under `hazards` the
places in the code that the properties are about; a hazard that no property covers,
or only in part, says why.
