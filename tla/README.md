# coverit-api in TLA+

Models of coverit-api: what its requests, workers, sockets and timers do to the
rows of Postgres, the keys of Redis, the bucket and each other, in every order.
Each model is translated from the TypeScript in `src/src`, checked on small
instances with TLC, and the results that matter most are proved for every value
of the constants with TLAPS.

    tlc -config CrawlSession_live.cfg MCCrawlSession    # a run
    tlapm CrawlSession_proofs.tla                       # the proofs of a module

`PROJECT.json` maps each definition to its source lines and lists the components,
runs, hazards, findings and theorems.

## 1. The system

The API is a Node/Express process (one thread; every `await` is a point where
another request runs) over Postgres (Prisma, READ COMMITTED), Redis (tickets,
cache, refresh tokens, the ARQ and BullMQ queues), an S3-like bucket and
WebSockets. Crawls are run and code is generated by workers that are not part of
the repository: they share rows and Redis keys with the API. Browsers, CI jobs
and Jira are the other parties.

| Component | State | Operations | Interacts with | Hard behaviour | What makes it correct |
|---|---|---|---|---|---|
| Crawl session lifecycle (`crawlSession`, `manualSession`, `queues/arq`) | row status; Redis job key, result key, queue entry, abort mark | create, start/resume, pause, abort, delete, manual create | worker, Redis | read-check-write across awaits; enqueue fails after the claim; abort between claim and enqueue | a NEW session is started once; QUEUED means there is a job; an abort stops the job; ended stays ended |
| Target applications, versions, crawl schedules (`targetApplication`, `crawlSchedule`) | application, version and schedule rows | create, update, delete | crawl sessions (cascade), artifacts | deletion while a session starts or a schedule is edited | sessions are ended before they are dropped; a schedule that is on can run |
| Manual recording broker, flow editor broker (`websockets`) | map of session id to two sockets, flags and a timer | attach, message, close, clean up | tickets, browser, worker | sockets replaced before their close event; a timer that outlives its entry | a pending disconnect reaches the crawler; live sockets are reachable; entries do not leak |
| Regression run naming (`regressionRun`) | run rows (name, number), advisory locks | findOrCreateRun | test reporters | concurrent first reports of a name | numbers 1..n without gap or duplicate |
| Regression event ingestion (`regressionRun`) | event, scenario and run rows | ingestEvents, completeRun, artifacts, reads | test reporters, artifact store | retried and overlapping batches, recounts that interleave | an event counts once; the verdict has a reason; a completed run stays completed |
| Scenario reports, notifications (`scenarioReports`, `notifications`) | report rows with status and attempt count; docgen jobs | create, create manual, claim, patch, notify | workers (poll), Jira, mail queue | two pollers claim; a user asks again under a claim; manual reports in the way of others | a scenario gets one issue, is tried no more often than the limit, and giving up is told |
| Authentication (`auth`, `oauth`, `utils/token`) | user rows, linked accounts, refresh and reset keys in Redis | sign up, sign in, OAuth, refresh, sign out, forgot, reset | mail queue, OAuth providers | refresh rotation and reset in several steps over two stores | a rotated token works once; a reset ends older sessions; a user can sign in |
| Project membership (`project`), read-through cache (`lib/cache`) | project, members with roles; cached project and lists | create, update, delete, add, change role, leave, remove, get | requireProjectRole | last-admin checks count and write later; a write must delete what was cached | every project keeps an administrator and nobody is left behind; a stale entry is deleted |
| Integrations, Jira (`integrations`) | OAuth states, connection with tokens, reporting configuration | connect, callback, access with refresh, configure, disconnect | Jira | two refreshes of an expired token, reconnecting meanwhile | a connection is not cut off; tokens belong to the site |
| Test flows (`testFlow`, `repositories`), dashboard | flow rows, generation jobs, notifications | save, generate, notify, list, count | docgen, broker, mail queue | saved while its code is being generated | GENERATED means code of the steps it has; dashboard and list agree |
| Artifact storage and clean-up | objects of the bucket, artifact rows | upload, list, tree, delete by prefix | ingestion, deletion of applications | upload succeeds, row fails; clean-up page by page, fails half-way | a deleted application leaves no objects; the tree shows every artifact once |
| Lists of runs, events, sessions and flows | rows, the client's cursor | insert, read a page | | rows that come between pages, equal times, ends of pages | a client that follows the cursors gets each row once |
| HTTP surface, activity recorder (`api`) | routers, guards, the request's way through them, activity rows | one request | every service | order of routes, parameters of nested routers, roles that change meanwhile | each documented operation is served as documented |
| Email queue and worker, users, codebases, guides | BullMQ jobs; rows written by single statements | | | retries are BullMQ's | |

## 2. Modules

| Module | Models | Uses |
|---|---|---|
| `CrawlSession` | rows, ARQ keys, requests of the session services, the worker as environment | |
| `Applications` | versions, deletions and a schedule around the sessions of `CrawlSession` | extends `CrawlSession` |
| `SessionBroker` | one session's entry in the broker, its sockets and timers | |
| `RunNames` | abstract: runs of a name get 1, 2, 3, ... in one step | |
| `RunNaming` | `findOrCreateRun`: transaction, advisory lock, unique keys | instantiates `RunNames` |
| `RegressionIngest` | `ingestEvents`, `completeRun` for one run | |
| `ScenarioReports` | requests for reports, claims, deliveries, patches and the mail of a final failure | |
| `Accounts` | users, linked accounts, sessions and reset links | |
| `Projects` | one project, its members, its cache entries | |
| `JiraAccess` | one project's connection to Jira | |
| `TestFlows` | flows, saves, generations, marks, mails, the dashboard's count | |
| `Artifacts` | uploads, clean-up, the artifact tree | |
| `Listings` | four paged lists read by one client | |
| `HttpSurface` | routers, documents, controllers, and the way of one request | |
| `MC...` | instances for TLC; `MCAccess` puts `Accounts` and `JiraAccess` side by side, `MCContent` `TestFlows`, `Artifacts`, `Listings` and `HttpSurface`, `MCRequests` the two together, `MCProjects` `Projects` and `RegressionIngest` | |
| `..._proofs` | theorems: `CrawlSession_proofs` also about `Applications`, `RunNaming_proofs` also about `RunNames`, `Access_proofs` about `Accounts` and `JiraAccess`, `Content_proofs` about `TestFlows`, `Artifacts`, `Listings` and `HttpSurface` | TLAPS |

The modules `MCAccess`, `MCRequests`, `MCProjects` and `MCContent` compose components
that share no state: a behaviour picks one of them and the others stand by, so that the states
of a run are the sum and not the product of its parts. `MCApplications` does the
same with the topics of one application, which meet only in a deletion.

Definitions introduced by a comment "Slip:" are not part of any specification:
each is one definition with a plausible slip of the code (a dropped guard, a
forgotten reset). Put in the place of the definition below it, it makes TLC
report a violation, which shows that the property named in `PROJECT.json` can
fail. Variables and fields marked (ghost) are history the properties refer to; no
guard reads them.

### How the models correspond to the code

A handler that awaits is split at each await whose order against others matters;
the request slot (`req[r]`, `auth[r]`, `call[r]`, `jira[r]`, ...) is its stack
frame: where it stands (`pc`) and what it read. A single Prisma statement, a Lua
script or a MULTI is one action. A request that is refused without effect has no
action.

**CrawlSession.** `row` is the `status` column, with `absent` and `gone` for no
row. `StartRead`, `StartClaim`, `StartEnqueue`, `StartUndo` are the four awaits of
`startSession`; `StartClaim` is the `updateMany` that also compares the status,
`StartUndo` the catch block's. Pause and abort read and then update by id only:
`PauseWrite` and `AbortWrite` have no guard on the status. `deleteSession` is two
handlers in one, as in the code: an active session is removed from the queue and
marked ABORTED, a terminal one is deleted. `EnqueueArqJob` is the Lua script,
which answers success without doing anything when the job key or the result key
of the session exists. `AbortCrawlSession` is the MULTI, which names the crawl
queue also for manual sessions. The worker is charitable: it never writes over a
status it should respect, so what goes wrong is the API's doing. `Faults` chooses
among the API process dying, an enqueue that throws (having run or not), a removal
that throws, and job keys that expire.

**Applications.** A deletion of a version lists the active sessions, removes each
one's job and writes ABORTED (`RemoveJob`, `WriteAborted`, interleaved as the
`Promise.all` has them), switches the schedules of the version off and drops the
row. The deletion of an application ends its sessions in the same way, clears the
bucket and drops the row; that of a project clears the bucket and drops, and ends
no session. A step that throws ends the deletion. Dropping cascades to the sessions by the foreign
keys of the schema. Schedule changes read the row and the version, then write
(`new` holds the merged columns). An update names any fields: one that names no type is
not asked for a date or an expression, and its empty expression is stored while an
empty date is taken for none (`Merged`). The requests of `CrawlSession` go on meanwhile.

**SessionBroker.** `entry` is the value of the `sessions` map for one session id;
`stale` counts timers whose entry has left the map (the code's timer closes over
the session id, not the entry). Handlers run to completion, so each event is one
action. A socket that was replaced or whose peer closes is `closing` until its
close event; its messages still arrive. `sent` keeps the last control message per
socket. Every handler starts with `getSessionSockets`, which creates a missing
entry: `Current`.

**RunNaming.** The committed rows are `nameOf` and `number`, which are also the
variables of `RunNames`: the refinement mapping is the identity on committed rows,
locks and requests being hidden. `Insert` waits for uncommitted rows with an equal
unique key and fails on committed ones (P2002); `Leave` is the release of the
advisory lock by the end of the transaction.

**RegressionIngest.** An event of a batch goes through `UpsertScenario`,
`StoreEvent` (a duplicate id ends the event there), `ReadScenario`,
`WriteScenario`, `ReadRun`, `ReadStatus`, `WriteRun`. An assertion's `Outcomes`
are the counters that `countAssertions` raises for it; a warning may count beside
a pass or a failure, a pass and a failure exclude each other.

**ScenarioReports.** `report` holds the columns `status` and `attemptCount`,
`born` the order of `createdAt`. `createScenarioReport` is `CreateReportRead` and
then `CreateReport` or `ReopenReport`: its transaction reads and writes at READ
COMMITTED, so a claim may come in between, and the write is by id. The manual
variant is one step, because its transaction first upserts, and so locks, the
run's row; the enqueue of the docgen job comes after the commit and may throw. A
claim is `ClaimRead` (the first report that is not manual among the `Take` oldest
claimable ones) or `ClaimNamed`, then `ClaimWrite`, the `updateMany` that compares
again. The workers are external and charitable: `Deliver`, `Patch` once, or `Die`.
`Notify` compares the attempts of the row that the patch returned.

**Accounts.** A user is the row (`registered`, `password`) and the accounts linked
to it; a session is the value under `refresh:<user>:<hash>`. Passwords are
numbered, so that a session can be older than a password. `refresh` scans, deletes
and stores in steps of their own; `resetPassword` writes the password, deletes the
link, scans and deletes. A Redis error is swallowed, as `lib/cache.ts` does: what
was to be stored or deleted is not (`RedisMayFail`).

**Projects.** `MayEnter` is the role check of the route, on the role the user has
at that moment. After it a request counts, decides and writes in steps (`seen`
holds the role it read), then scans and deletes cache keys. A cache entry is
`true` of the rows, `stale` since a write it preceded, or `late`, stored with rows
read before a write that was over by then, or `left` by a deletion that did not
happen: a scan or DEL that Redis fails is swallowed (`CacheMayFail`), and a process
may die between its write and its deletion (`Dies`). `overtaken` (ghost) says that another
request wrote roles or the project since this one arrived. `Throws` is a statement
that fails on a unique or missing row: the request ends with nothing invalidated.

**JiraAccess.** A token stands for the access and refresh token of one answer of
the provider. An expired one is renewed in three steps: read the row, ask the
provider (which takes a refresh token once: `valid`), update by the row's id. The
update compares nothing: it throws if the row was disconnected since, and a row
that was connected anew takes the old site's tokens (`mixed`, ghost). An answer
may get lost (`AnswersGetLost`). The OAuth
callback reads the state, deletes it, exchanges the code and upserts the row.

**TestFlows.** The status of a flow is read off two dates, as in
`getTestFlowStatus`; `Breakdown` is the dashboard's SQL with its own comparisons.
A generation carries the steps it read; docgen (external) writes the code and
notifies, possibly twice; the mark bears the date it
is written, whatever steps the code was made from. `overlapped` (ghost) holds the
flows whose code may be older than the mark says (section 3).
Mails have the job ids the code gives them.

**Artifacts.** A storage key is its place in the bucket's listing. An upload
reads the run and its application, puts the object and creates the row; an error
of either step leads to a FAILED row from the catch block, and the object may
remain.
`deletePrefix` lists a page after the last key, deletes the keys one by one, and
goes on while the page was truncated. `ArtifactTree` puts one row after the other
into the folders on its way (`Walk`), which are keyed by their whole path.

**Listings.** Each list with its own cursor: a time (`runs`, `events`), an offset
(`sessions`), a row (`flows`). Rows of one time come in any order but for the
flows, whose query also orders by id.

**HttpSurface.** `Stack` is the list of layers express tries in order, built with
`Use`, `Get`, ... and `Mount` from the route files; a guard of a nested router sees
its parents' parameters only with `mergeParams`. `Docs` are the operations of
`config/openapi` with their security and body. `Controllers` says for each handler
what it does around its service, in order. One request takes the way `Route`,
guards, `Handle`, `Finish`, `RecordActivities`, while the caller's role changes
and the project may be deleted. `RequireRole` is `requireProjectRole` with its two
reads: the project (404 when it is gone) and then the membership (403), a read of
either that fails being a 500 (`down`); without `:projectId` it throws. A service may
refuse with 400, 404 or 409, and with 401 where its code throws `UnauthorizedError`
(`RefusesCallers`).

## 3. Runs

Four runs expect a violation: each states what a test or a message of the repository
says and shows that the code does otherwise. The others pass.

| Run | Instance | Checks |
|---|---|---|
| `CrawlSession_live` | a crawl and a manual session, two requests, enqueues may throw, fairness | `QueuedIsCarried`, `QueuedIsServed` |
| `CrawlSession_faults` | one session, three requests, enqueues may throw or end in doubt, requests and the worker may die, keys expire | `StartClaimExclusive`, `StartedOnce`, `OnlyPauseRevives` |
| `CrawlSession_resume` | violation | `ResumedHasJob` |
| `Applications_deletion` | one session of one version, two requests, two deletions, two edits of a schedule, clean-ups may fail | `AppTypeOK`, `AbortReachesStart`, `DroppedWasAborted`, `ActiveScheduleCanRun` |
| `Applications_blanked` | violation | `CronHasExpression` |
| `SessionBroker_sockets` | two frontends, two crawlers, fairness | `TimerOfEmpty`, `PendingDisconnectTold`, `OpenIsReachable`, `EntryGoes` |
| `RunNaming_transactions` | three runs, two names, two requests, fairness | `NumberIsFresh`, `ImplementsRunNames`, `RequestEnds` |
| `RegressionIngest_downgrade` | violation | `CompletedStaysCompleted` |
| `ScenarioReports_claims` | an ordinary and a manual report, two users, two pollers, a docgen worker, limit 2, fairness | `OneIssue`, `AttemptsBounded`, `GiveUpTold`, `ClaimableIsClaimed` |
| `Projects_requests` | a project with two people, one's list cached, two requests at a time, Redis failing, the process dying; or five events, three overlapping batches, two requests that may fail | `StaleIsInvalidated`, `LastAdminStays`, `NobodyLeftBehind`, `NeverOvercounts`, `VerdictHasReason`, `CountsExact`, `LateEventsKeepVerdict` |
| `Services_requests` | accounts or a Jira connection, two requests at a time, Redis and answers failing; or test flows, artifacts, lists, or one request to the API | `AccessTypeOK`, `OldSessionsEnd`, `RotationKeepsOne`, `EveryUserCanSignIn`, `ConnectionStaysAlive`, `TokenMatchesSite`, `ContentTypeOK`, `GeneratedIsCurrent`, `DashboardAgrees`, `CleanupLeavesNothing`, `TreeHoldsAll`, `PagesExact`, `DocsAreServed` |
| `Listings_flows` | violation | `FlowPagesShowAll` |

`AccessTypeOK` (accounts and the Jira connection) and `ContentTypeOK` are the type
invariants of their components together. Those of `CrawlSession`, `SessionBroker`,
`RunNaming`, `RegressionIngest`, `ScenarioReports` and `Projects` are proved (section 4)
and not run. Every safety property that is run is also stated by a theorem; the four
liveness properties rest on TLC alone.
`Services_requests` evaluates, before it starts, the assumption `RoutesFit` that the
theorem about `DocsAreServed` makes of the tables of routes and documents.

**Bounds.** Most instances are finite by their constants alone. Where something
would go on for ever, a guard bounds it: the number of passwords, tokens, saves
and clock ticks (`MaxPassword`, `MaxTokens`, `MaxSaves`, `MaxTime`, `LastTime`).
Two further bounds: `Bounded` of `MCAccess`, and `FewInputs` of `MCApplications`.
Runs of safety properties treat slots of requests, tokens and test flows as
interchangeable where no definition tells them apart (`SYMMETRY`).

- `CrawlSession`: sessions do not share state, so one of each kind is enough;
  three requests let two starts race while a third aborts or pauses between them.
- `Applications`: a deletion of the version can meet one of the application or the
  project, a request that starts the session and one that aborts it; two edits
  let a schedule be switched off, on and pointed elsewhere while its version goes.
  `FewInputs`: an update names a type with the one field that type asks for, or no
  type with any mode, version and switch, or the date and the expression alone (given,
  empty or absent). The theorems are about every input.
- `SessionBroker`: each socket is used once, so two of a role give the replaced
  one and the one that replaces it.
- `RunNaming`: two names and three runs give two runs that compete for a number
  beside one that must not be disturbed.
- `RegressionIngest`: the five events are one of each kind that counts differently
  (passed, failed, warned, a status event, one of no scenario); the batches
  overlap, so that each request is partly a retry of another.
- `ScenarioReports`: a limit of two attempts lets a report fail, be retried and be
  given up; two pollers and two users let a claim race a claim and a renewed
  request. The window of two candidates (25 in the code) is larger than the number
  of manual reports, as the code relies on. Renewals, retries and deaths are
  unbounded.
- `Accounts`: one user with three sessions, or two users with one between them
  (`Bounded`); one provider account both may claim, one reset link, two passwords:
  a session can be older than the password, and be rotated twice.
- `Projects`: two people suffice for the last administrator to leave while the
  other is made a viewer; one person's list is cached, roles are the lowest and
  the highest.
- `JiraAccess`: two sites and two OAuth states allow connecting anew during a
  refresh; three tokens are two rotations.
- `TestFlows`: two flows of one session and type, two generations; two ticks and a
  save each put a save before, between and after reading and mark, and in the
  millisecond of the mark.
- `Artifacts`: three uploads in nested paths, with a file beside a folder of its
  name and a folder name that occurs twice; pages of one object, so that the
  clean-up lists again.
- `Listings`: four rows, three moments and pages of two give equal times inside a
  page and at its end, and a last page that is full, short or empty.
- `HttpSurface`: every documented call, with each kind of credentials, body and
  role. Nothing is bounded.

**Fairness.** `CrawlSession`: handlers run to their end (no await of theirs waits
for another request) and the worker goes on consuming; no fairness for new
requests, for expiring keys or for crashes. `SessionBroker`: timers fire and `ws`
delivers the close event of a socket that is closing (it destroys the socket after
its own time limit). `RunNaming`: transactions go on (weak), and Postgres grants
locks and ends waits in turn (strong fairness of `Lock` and `Insert`, because
others may take the lock over and over); a rollback needs no fairness.
`ScenarioReports`: pollers go on claiming and workers finish what they hold (weak
fairness of the next step, which a death satisfies too); no fairness for users, for
docgen jobs or for deaths. The other runs state safety only.

### What the violation runs show

- `ResumedHasJob`: start, pause, resume while the first job's key or result key
  exists: the resume answers "resumed", the row is RUNNING, nothing was enqueued.
- `CompletedStaysCompleted`: a summary between an event's status read and its
  write is undone, the run is RUNNING again.
- `CronHasExpression`: an update that names no type and an empty expression passes the
  schema and `validateScheduleInput`, and `input.cron ?? schedule.cronExpression` stores
  it: the CRON schedule stays switched on without an expression.
- `FlowPagesShowAll`: `nextCursor` is the first flow that did not fit on the page,
  and the next query skips the row of its cursor. The first flow of every later
  page is never shown. No interleaving is needed.

### What is true only under conditions

Several properties name an exception, which the code really reaches. No text of
the repository promises otherwise, unless said so here.

Sessions and sockets:

- Pause and abort check the status they read and update by id: a session that ended
  in between is PAUSED or ABORTED again. `OnlyPauseRevives` shows that nothing but
  a pause makes an ended session startable again.
- `QueuedIsCarried` is false with crashes and expiring job keys: a session whose
  API process dies after the claim stays QUEUED, and later starts answer "already
  started".
- `AbortReachesStart` assumes no failed enqueue and no failed removal: an enqueue that
  failed after the script ran leaves a job that can use the abort mark up before a
  second start enqueues; a removal that failed leaves no mark. Crashes and expiring
  keys do no harm (section 4).
- `DroppedWasAborted` speaks of sessions that existed at the listing and are not
  resumed. One created or resumed between the listing and the drop leaves its job
  behind, and so does every session of a deleted project.
- `ActiveScheduleCanRun` excludes schedules switched on or pointed elsewhere with a
  version that was being deleted, or never looked up (`late`, ghost), and, for the
  expression, CRON schedules an update emptied (`emptied`, ghost): the finding above.
- `TimerOfEmpty` speaks of the timer of the entry in the map. One that outlived its
  entry may delete the next one, whoever is attached.
- `OpenIsReachable` holds while at most one crawler has connected: a clean-up timer
  that outlived its entry can delete the entry of a connected crawler. The late
  close of a replaced frontend sends the crawler `session.disconnect` while the new
  one is connected.

Runs and reports:

- `CountsExact` needs requests that come one at a time and do not fail: two
  recounts may write the older numbers last, and a process that dies between the
  store and the recount leaves the event uncounted until the next new event. A failure
  may be hidden in that time; `VerdictHasReason` excludes only the other direction.
- `LateEventsKeepVerdict` holds for every step of overlapping, failing and retried
  requests but a write of a status read before the run was ended, by a summary or by
  another batch's failure (`overtaken`, ghost): `CompletedStaysCompleted` shows that one.
- `OneIssue` leaves out reports that a renewed request put back to PENDING after
  reading them FAILED while a worker claimed them in between: a second worker may
  then claim the report beside the first.
- `ClaimableIsClaimed` needs fewer open manual reports than the window of a claim:
  more of them hide all younger reports until they are delivered. It speaks of
  reports with attempts left: a renewed request keeps the attempts, so a report at
  the limit becomes PENDING and stays so. A report whose worker died stays CREATING.

Accounts, projects, Jira:

- `RotationKeepsOne`: two refreshes of one token that overlap leave two sessions.
- `OldSessionsEnd`: a sign-in or refresh that overlaps the scan of a reset leaves a
  session of the old password; so does a Redis error during the clean-up. `raced`
  (ghost) marks all that overlap, those the scan would still have found too.
- `LastAdminStays` and `NobodyLeftBehind` hold for requests nobody overtook. Two
  administrators who leave at once may both find another one. `removeMembers` has
  no last-administrator check at all.
- `StaleIsInvalidated`: a wrong entry lives until its TTL ends in three cases: a reader
  that read the rows before a write fills the cache after the write's invalidation;
  Redis fails the scan or the DEL, which `cacheDelByPattern` swallows; the process dies
  between the write and the deletion.
- `TokenMatchesSite`: a refresh begun for an earlier connection writes its token
  into the row of the new one. The reporting configuration survives reconnecting to
  another site, whose projects it does not name; no property is about that.
- `ConnectionStaysAlive` leaves out an answer of the provider that never arrived:
  the rotated token is lost and the project must be connected anew. A provider that
  gives no refresh token at all is not modelled: such a connection ends with its access
  token (`integrations.service.ts:103`, `:235`).

Flows, artifacts, lists, the API:

- `GeneratedIsCurrent`: a flow reads GENERATED although its code is older, and is
  refused a new generation, in four cases (`overlapped`): it was saved between the
  reading of its steps and the mark; its save took its date before the mark and wrote
  after it; it was saved after the mark in the same millisecond, for
  `getTestFlowStatus` compares with `>`; or two generations ran at once, which may
  finish in either order. A later save makes it read otherwise.
- A second generation of a session is not mailed while BullMQ keeps the first job,
  whose id is made from the session.
- `CleanupLeavesNothing`: what an upload puts there once the last clean-up has
  begun may stay.
- `PagesExact`: runs and events of one millisecond on both sides of a page's end are
  skipped; sessions created meanwhile shift the offsets, so that rows repeat.
- `DocsAreServed` says that a call reaches its own handler, that it succeeds only
  with the documented credentials and a valid body, that a 401 goes to other credentials
  or is documented (login and refresh answer it to callers without any), and that a
  guard refuses for a reason of the caller's, or with 500 when the database fails under
  it. A 404 or 409 of a service is not examined. It does not say which status an invalid body gets: in the integrations and
  the scenario report controllers that is 500 where the documents say 400. A client
  that hangs up after the change leaves no activity.

## 4. Proofs

All theorems are for every value of the constants under the modules' assumptions.
Every safety property of the passing runs is stated by one; a run shows it on a
small instance before, or beside, the proof.

**CrawlSession_proofs: the session.** `TypeCorrect` (`TypeOK`). `ClaimIsExclusive`
(`StartClaimExclusive`, all faults): the property alone is not inductive, because
a second claim might succeed while the first still owes its enqueue; what excludes
it is that the row left NEW with the first claim and comes back only by that
request's own undo. The strengthening states this about requests between claim and
enqueue. `QueuedInOneStretch` (`StartedOnce`) and `RevivedByPauseOnly`
(`OnlyPauseRevives`) are action properties that follow from that invariant, one
step per action. `QueuedSessionCarried` (`QueuedIsCarried`) is proved under the
hypothesis that the faults are at most failing enqueues, with an invariant that
relates queue entries, job keys, abort marks and requests.
`AbortsReachStarts` (`AbortReachesStart`) is proved under the hypothesis that the
faults are at most crashes and expiring keys: as long as a start is between its claim
and its enqueue, no job of the session exists that could use the mark up
(`BeforeItsJob`, `Untouched`), no claim is undone (`NoUndo`), and a deletion sets the
mark before it writes ABORTED (`DeletionMarks`). Both other faults break it, which TLC
shows with either of them alone: an abort whose removal fails has written ABORTED and
leaves no mark; and an enqueue that reports an error may have stored its job, which
uses up the mark of a deletion under way, while the claim is undone and a second
start makes it again, before the deletion writes ABORTED.

**CrawlSession_proofs: the application.** `AppTypeCorrect` (`AppTypeOK`).
`AppAbortsReachStarts` is the same result with the aborts of deletions in between.
`DeletionsAbortFirst` (`DroppedWasAborted`), under the same hypothesis, needs to know
how far a deletion has come: the sessions it listed and has already gone through are
past NEW and QUEUED, and stay so (`DeletionsSound`). `SchedulesCanRun`
(`ActiveScheduleCanRun`, all faults, any inputs): an update writes the columns it has
read and merged, so the invariant speaks of what is in its hands, too
(`SchedulesSound`). Its two exceptions, `late` and `emptied`, are those of the property.

**RunNaming_proofs.** `NumberedWithoutGap`: in the abstract specification the
numbers of a name are 1..n. `Latest` is a CHOOSE over a set that is an initial
segment; the lemmas show that the maximum exists and what `Appear` does to it.
Assumes `NoName \notin Names`. The inductive invariant of the transactions says that
whoever is past the lock holds it, that locks are exclusive, and that the number read
is one more than the latest committed. It gives `TypeCorrect`, `FreshUnderLock`
(`NumberIsFresh`) and `NamingRefines` (`ImplementsRunNames`): `Commit` is `Appear`,
every other step stutters. `RunsWithoutGap` carries the result about numbers over to
the code's transactions.

**RegressionIngest_proofs.** `TypeCorrect`; `CountedAtMostOnce`
(`NeverOvercounts`): every count in a row or in a request's hands is at most that
of what is stored now, because `stored` only grows and a larger set of assertions
counts no less; `VerdictsHaveReasons` (`VerdictHasReason`): the status in a
request's hands has a reason too. `SerialCountsExact` (`CountsExact`): as long as one
request at a time is in flight and none fails, a count is exact or that request is
still to recount it, and what it has read is what it would read again (`Exact`).
`LateEventsKeep` (`LateEventsKeepVerdict`) needs no such premise: unless the run was
ended since, the status a request writes was computed from the one it writes over.

**ScenarioReports_proofs.** `TypeCorrect`; `AttemptsLimited` (`AttemptsBounded`);
`OneIssueEach` (`OneIssue`): the property is not inductive, because it says
nothing of who may still make an issue. `ClaimsAreSound` adds that whoever works
on a report not in `overrun` does so alone and while the row is CREATING, and
that a row in any status but CREATING and CREATED has no issue. `GiveUpsAreTold`
(`GiveUpTold`) strengthens the property: the row in the hands of the worker that
notifies is itself one given up, so its `Notify` does send the mail.

**SessionBroker_proofs.** `TypeCorrect` (`TypeOK`). `DisconnectIsTold`
(`PendingDisconnectTold`) is inductive once the types are known.
`SocketsAreReachable` (`OpenIsReachable`) is not: a timer could take an entry from
under a socket. `TimerOfEmpty` says that an armed timer stands for an entry with
both slots empty, and `Held`, for as long as one crawler at most has connected, that
no timer outlives its entry and that a socket keeps its slot to its close event.
`TimersWaitEmpty` (`TimerOfEmpty`) is the first half as a theorem of its own.

**Access_proofs: accounts.** `AccountsTypeCorrect`; `RowsCanSignIn`
(`EveryUserCanSignIn`); `ResetEndsSessions` (`OldSessionsEnd`). The last speaks of
what is stored; the strengthening says that what a sign-in, an OAuth callback or a
refresh is about to store is as sound, and that a reset in progress has a row.
`RotationIsExclusive` (`RotationKeepsOne`): the sessions of a sign-in are one family,
and a family has one carrier that no overlapping refresh marked, a live key or the
refresh that has read it (`OneCarrier`). Assumes that the name for "nobody" is no
user.

**Access_proofs: Jira.** `JiraTypeCorrect`; `ConnectionsStayAlive`
(`ConnectionStaysAlive`) and `TokensMatchSites` (`TokenMatchesSite`). A token on
its way to the row is nowhere else (`Carried`), and the copy of the row a refresh
works from agrees with the row as long as both hold the same token (`Copied`).
`AccessTypeCorrect` (`AccessTypeOK`) puts the type theorems together.

**Projects_proofs.** `ProjectsTypeCorrect`. `WhatWasReadHolds`: at each point of a
request that nobody overtook, what it read is still true of the rows (a caller let
in is an administrator, a count was of the present members). This is the
invariant under `TheLastAdminStays` (`LastAdminStays`) and `NobodyIsLeftBehind`
(`NobodyLeftBehind`), which then hold step by step. `StaleEntriesAreDeleted`
(`StaleIsInvalidated`): an entry that is stale is one some request is about to
delete, with the three exceptions above, which the cache value itself names (`late`,
`left`). Assumes that the set of people is finite and that the roles that can be
assigned are roles.

**Content_proofs: test flows.** `FlowsTypeCorrect`; `GeneratedIsTheSaved`
(`GeneratedIsCurrent`): as long as a flow is not in `overlapped`, whatever is on its
way to its code (a generation's reading, a job, a notification that will mark it)
carries the steps the row has now. `CountsAgree` (`DashboardAgrees`): the two
classifications of a row are the same, and the three classes add up to all of them.
Assumes that there are finitely many flows, without which there is nothing to count.

**Content_proofs: artifacts.** `ArtifactsTypeCorrect`; `NothingIsLeft`
(`CleanupLeavesNothing`). The invariant (`CleanupSound`) says that up to the
continuation token, but for the keys of the page in hand, the bucket holds only what
was uploaded since the clean-up began, and that all of it does once no page follows.
It rests on two lemmas about a page: it has a last key (`PageHasLast`), however many
keys there are, and leaves out none before that (`PageIsPrefix`).

**Content_proofs: the tree.** `TreeIsWhole` (`TreeHoldsAll`), for any artifacts and
any paths: the listing may choose among the rows (by kind or scenario) and order them
as it likes. The loops of `buildRegressionArtifactTree` are recursive functions on how
far they have come. `TreeOf` says outright what the tree of some artifacts is: in a
folder are the folders and the files one segment longer. It satisfies the recursion,
and nothing else does, by the least number where two solutions would differ
(`StepByStep`); so the loops make it (`WalkMade`, `ArtifactAdded`, `TreeMade`). The
count is done the same way: what is beneath a folder is divided among its children
(`BeneathIsDivided`), sums of the sizes of disjoint sets are sizes of unions
(`SumIsUnion`), and a folder counted wrong with the fewest folders below it would have
all its children counted right (`CountMade`). Assumes that a path has a last segment,
as `getArtifactPathParts` sees to.

**Content_proofs: lists.** `ListingsTypeCorrect`; `PagesAreExact` (`PagesExact`).
What was shown and what was not are separated by the cursor: a time that all rows
shown have passed (`TimeSound`), a row that all rows shown come before (`RowSound`),
or an offset, which is a rank among the rows as long as none come in and their times
differ (`PageSound`, `PlaceIsRank`). `OrderHasAll` shows that an order as the database
may return it has every row at one place, by counting.

**Content_proofs: the HTTP surface.** `HttpTypeCorrect`: the stack of routers is gone
through layer by layer (`StackRouted`) to know that every layer has guards, a handler
some controller knows, and parameters its guards may ask for. `RefusalsAndRows`,
without any premise: a 403 and every refusal of a guard has a reason, and an activity is recorded only of a request
that succeeded in a project that exists, whatever other requests do to roles and to
the project between two steps of this one (`HttpSound`). `OperationsAreServed`
(`DocsAreServed`) has the premise `RoutesFit`: on its way every call meets its own
controller, the guard or step that asks for the documented credentials and body and
none that asks for others, and `requireAuth` before whatever needs the caller. That is
a statement about two tables without constants or behaviours, some 130 calls by 90
layers; `MCContent` assumes it, so that TLC evaluates it, entirely. The theorem says
that the steps of a request keep what the tables promise: no guard on the way is left
out, and what a call has passed (`Cleared`) it has satisfied (`ServedSound`).
`ContentTypeCorrect` (`ContentTypeOK`) puts the type theorems together.

**Only model-checked.** Liveness (`QueuedIsServed`, `EntryGoes`, `RequestEnds`,
`ClaimableIsClaimed`) is out of the prover's reach, and so are the four disagreements
of section 3, which are behaviours TLC exhibits. `RoutesFit` is evaluated by TLC;
proving it would be the same evaluation by other means.

## 5. What is left

- The tickets of both brokers, which are read and deleted in two steps, with an
  instance of `SessionBroker` for the flow editor, which has the same state machine
  and fewer status messages.
- The first event of a run that does not exist yet, which composes
  `RegressionIngest` with `RunNaming`.
- Proofs that the refinement of `RunNaming` and the counts of `RegressionIngest`
  survive that composition.

## 6. Not modelled, and why

- The worker, docgen, Redis, Postgres, `ws`, BullMQ, the bucket and Jira are outside
  the repository. They are modelled only as far as the API depends on them, as
  actions marked external.
- Users and regression codebases, the settings and API keys of an application, and
  guides are read and written by single statements, with no interleaving beyond the
  database's own. The same holds of the dashboards but for the status of test flows,
  which they compute a second time (`Breakdown`).
- Access tokens are signed and kept nowhere: signing and checking is arithmetic on
  strings.
- Schemas are abstracted to valid and invalid bodies, mappers to what a property is
  about; message texts, email templates, OpenAPI's examples and logging are left out.
- The step labels and the graph of test flows are formatting and reading.
