# A verification of the Lingcoo base framework

TLA+ models of the framework: the job queue, the transactional outbox and the
worker that serves both; media assets; accounts, owners and credentials;
content with its schedule and redirects; notifications, connections, taxonomies
and dictionaries; the start of a system and its migrations; settings and the
presentation profile; and the administrators' console in front of them. Each
model is a module checked by TLC on a small instance. Every safety property that a
run finds to hold is a theorem as well, proved by TLAPS for every instance (section 5).

Paths below are those of the repository (`packages/...`). `PROJECT.json` maps
every definition to the lines it models.

## 1. The system

The framework is a Node.js monolith over PostgreSQL. An API process
(`packages/fastify`, `packages/frame/src/runtime/server.ts`) serves requests;
any number of worker processes (`packages/frame/src/runtime/worker.ts`) drain
two tables, `outbox_events` and `job_runs`; both run in several instances. The
processes share nothing but the database and the object store. There is no
lock across two statements unless the code opens a transaction, and every
transaction runs at READ COMMITTED, the default: what a request has read before an
`await` may be out of date when it writes. That is the source of most of the
difficulty, and the models are cut accordingly: **one atomic action is one SQL
statement, one transaction that holds the lock it needs, one call of an
external service, or one return of a callback**. The console is cut the same
way: one action is one answer of the server, one use of a control, or one state
that React is given.

### Components

| Component | State it keeps | Operations that change it | What makes it correct | Model |
|---|---|---|---|---|
| Job queue (`packages/jobs/src/service.ts`) | `job_runs`: status, attempts, lock, due date, dedupe key | enqueue, claimNext, markSucceeded, markFailed, recoverStale, retry, cancel | a job is attended by one worker; success is recorded once and stays; a lock never outlives its worker for long; a due job is taken | JobQueue, AtLeastOnceExecution |
| Outbox (`packages/jobs/src/outbox.ts`, `registry.ts`) | `outbox_events` | publish, claimNext, dispatch, markPublished, markFailed, recoverStale | at-least-once delivery, in the order of the subscribers | Outbox |
| Worker runtime (`frame/src/runtime/worker.ts`) | the row it holds, the heartbeat timer | the loop: recover, outbox, else a job; stop, dispose; crash, restart | nothing it held is lost when it dies; jobs get their turn; a stopped worker ends and does not look healthy | WorkerLoop; JobQueue, Outbox |
| Media assets (`packages/assets`, `frame/src/integrations/assets/ports.ts`) | `storage_assets`, `storage_asset_references` | createUploadIntent, confirmUpload, setArchived, linkReference, unlinkReference, replaceReferences, requestDelete, two jobs | usable assets have their object; referenced ones are kept; deleted ones leave nothing behind; no upload or deletion hangs | Assets (partly: names and access URLs left out) |
| Object store (`packages/storage-qiniu`) | objects, upload tokens | upload, stat, delete | as relied upon by Assets | Assets (partly) |
| Accounts and owners (`packages/identity/src/access-service.ts`, `auth-service.ts`) | `accounts`, `account_roles`, `roles` | bootstrapOwner, createAccount, updateAccount; roles | one bootstrap; never without an active owner | Access (partly: no editing of roles) |
| Credentials (`auth-service.ts`, `account-security-service.ts`) | `password_credentials`, `auth_sessions`, `auth_security_challenges` | login, logout, revoke, changePassword, issue/consume challenge, resetPassword, acceptInvitation, verifyEmail | a link works once; a session ends with the password it was opened with; a change is announced | Credentials (partly: no profile) |
| Content (`packages/cms`) | entries, versions, schedule, redirects | create, update, setStatus, schedule, publishScheduled, redirects | a schedule is honoured unless withdrawn; versions are numbered once; redirects do not loop | Content, Redirects |
| Notifications (`packages/notifications`) | notifications, deliveries | create, deliverEmail, publishAnnouncement, read/archive | one mail per recipient; none forgotten | Notifications |
| Integrations (`packages/integrations`) | connections, outcome of the last test | create, update, test, execute | an enabled connection passed a test of its present configuration | Connections |
| Metadata (`frame/src/core/modules/metadata`) | dictionaries, taxonomies, terms, assignments | create, update, import, assign | the terms form a forest; values have the type of their dictionary | Taxonomy, Dictionary (partly: no assignments) |
| Settings, presentation profile | current value, numbered versions | update | the history has every version, and the current value | Revisions |
| Migrations (`packages/database/src/migrations.ts`) | schema, record of applied migrations | compileMigrationPlan, runMigrations | the plan is a topological order; each migration is applied once | Migrations |
| Extension composition (`packages/kernel`, `extension-sdk`) | none at run time | checks and ordering of manifests, registration | accepted compositions are ordered; only circles are refused an order | Composition (partly: no form of single manifests, no environment) |
| Administrators' console (`packages/admin-shell`, `cms/src/admin-*`, `apps/reference-admin`) | the account shown, the pages, the form of the editor, the registry of routes | sign in and out, refresh, controls and links of every page, the editor of entries | it shows the account of the session, offers what the server grants, edits what it shows, and can be built | Console, AdminPages, AdminApi, Editor, AdminRegistry (partly: other forms, rendering) |
| Observability | heartbeats, incidents, metrics | upserts | - | the heartbeat in WorkerLoop |
| Data exchange | runs of imports and exports | preview, apply, export | the record agrees with what was imported | preview and apply in Taxonomy and Dictionary; no record |
| HTTP host | none | cookies, headers, error replies | every route demands its permission | the permissions in AdminApi |
| Audit, search, public site and web shell, mail/payment/AI adapters, generator and deployment | logs, none | appends, reads, rendering | - | not modelled: no protocol of their own |

### How they interact

* A domain transaction calls `publish` and `enqueue` on its own connection:
  the rows of the outbox and of the queue appear with the domain's rows or not
  at all. In Assets, `RequestDelete` and `FinishIntent` enqueue their jobs in
  the same step, in Content `CommitSchedule` and `CommitStatus`, in
  Notifications `Create`; in Credentials, `Publish` is a step of its own, since
  the code calls it after its transaction.
* A worker first looks at the outbox, then at the jobs (WorkerLoop). A
  subscriber may enqueue jobs under a dedupe key; a job handler calls a domain
  service.
* A dedupe key finds the old row, whatever its status. So a finished job is
  not started again by enqueueing it again (`Enqueue` of Content), an event is
  not published twice for one version (`Announce`), and a notification is made
  once however often its event is delivered (`Create` of Notifications).
* What Content, Notifications and Assets need of the queue is kept small: a job
  is claimed by one worker, may lose its lock while it is executed, is queued
  again when its handler throws, and dies of lost locks only (finding 1). That
  JobQueue keeps these promises is shown there.
* Content, presentation and accounts refer to assets through
  `replaceReferences` (`SaveRead`, `ReplaceReferences` of Assets).
* A mail is an operation of a connection: `Send` of Notifications is `Answered`
  and `Record` or `RecordFails` of Connections.
* Each server runs `bootstrapOwner` at its start, under an advisory lock; the
  migrations ran before, under another.
* The console decides what it shows by the permissions it was told, the server
  by those the account has when it is asked (AdminApi has both sides).

### What is hard

The list is `hazards` in `PROJECT.json`, each at its line. In short: a lock
that expires under a slow worker, so that two are at one job and both report;
writes "by id" that do not check what was read before (markFailed,
markSucceeded, retry, the mismatch of confirmUpload, updateAccount, setStatus,
finishTest, updateTerm); a crash between a claim and its report, between the
object's removal and its row, between a mail and its mark, or in the middle of a
migration; a failing subscriber in the middle of a route; jobs at the limit of
their attempts; a dedupe key that outlives its job; two requests with one link;
a login that overlaps a change of the password; two first saves of a row that
is not there to be locked; events that keep a worker from its jobs; a heartbeat
that arrives after the worker has ended, or is first sent when it was already
told to stop; a retry that makes a job due before its time; answers that reach the console when it
shows something else.

## 2. The modules

### Backoff
`computeBackoff` and the bounds that JobQueue and Outbox share. Attempts
saturate at `AttemptCap`, which is exact: they are only compared with
`max_attempts`, below the cap, and fed to the backoff, constant from there
(`BackoffAssumption`, evaluated by TLC, assumed by the proofs). Time is counted
in ticks to the due date (at most `Horizon`) and since the lock (saturating at
`StaleAfter`).

### JobQueue and AtLeastOnceExecution
`status`, `attempts`, `lockedBy`, `lockAge`, `dueIn` are columns; `pc` and `row`
say where each worker stands in `processJob` and which row `claimNext` gave it;
`request` holds the row an administrator has read. The history variables are
`ran` (jobs whose handler returned since they were queued) and `disturbed` (jobs
requeued under a process that was still at them).

| Action | Code |
|---|---|
| Enqueue | `enqueue` (service.ts) |
| ClaimNext | the UPDATE ... FOR UPDATE SKIP LOCKED of `claimNext` |
| HandlerReturns, AttemptThrows | the handler, or a step after it, returns or throws |
| MarkSucceeded, FinishJob, MarkFailed | the rest of `processJob`: success, its audit, the catch; the writes are by id |
| RecoverStale | the one UPDATE of `recoverStale`, on every row whose lock is too old |
| RetryRead/RetryWrite, CancelRead/CancelWrite | `retry` and `cancel`: the read, then the write |
| Crash, Restart | the process dies and is restarted with a new worker id |
| Tick | time |

One peculiarity of the code is essential: `claimNext` returns the row with the
database's column names, so that the row of a worker has `max_attempts` and no
`maxAttempts` (`Rows`), and `Exhausted` is false for it (finding 1).

AtLeastOnceExecution is what those who enqueue, cancel and retry jobs may rely on,
without attempts, locks or time: the handler returns only while its job is open, a
job succeeds only after that, and one that is dead or cancelled stays so until it
is retried; a failure reopens a success only if the handler had returned. All this
holds of a job until it is disturbed: handed out again after an expired lock, or
retried while it was neither dead nor cancelled. JobQueue implements it under
`phase <- PhaseOf(status)`, `done <- ran` (property `ExecutionSpec`, theorem
`Refinement`).

### Outbox and AtLeastOnceDelivery
Same table discipline; a worker calls the subscribers of the event's topic and
then those of `*`, one after the other (`Route`, `next`), and confirms after the
last. `handled` records which subscribers' effects took place.
AtLeastOnceDelivery is what a publisher may rely on: a recorded event is handed
to its subscribers in order, each perhaps several times, and is acknowledged
only when all have handled it; it may be reopened, never forgotten. Outbox
implements it under `phase <- PhaseOf(status)` (property `DeliverySpec`, theorem
`Refinement`).

### Assets
The columns `status` and `expiring` (`upload_expires_at`), the token and the
object at the store, the two jobs of each asset, the references of owner
fields, the requests (`call`) and the executions of the jobs (`run`). Requests
read, ask the store, then write: `CreateIntent`/`IssueToken`/`FinishIntent`
(or `FailIntent`), `ConfirmRead`/`ConfirmStat`/`ConfirmActivate` or
`ConfirmMismatch`, `ArchiveRead`/`SetArchived`. `RequestDelete` and
`LinkReference` hold the row's lock and are one step. The jobs are
`DeleteRead`-`Purge`-`DeleteWrite` and `ExpireRead`-`ExpireMark`-`Purge`-`ExpireWrite`,
and may fail, crash and run again at any point, by two workers at once if their
lock expired: of JobQueue only that is kept. An administrator may stop a job
(`StopJob`) and retry it, which is a read and a write by id (`RetryRead`,
`RetryWrite`) that several may have read for and that makes the job due at once: an
expiry waits for the token to expire, but one that was retried (`retried`) may run
while the upload is still open. A token is not revoked and serves until it expires.
History: `overwritten`, and `late`, the assets uploaded after a deletion had removed
their object.

### Access, AccessState
AccessState declares the variables and states the properties, so that Identity
can hold the state of Access beside that of Credentials.
The accounts with status and strongest rank; the bootstrap of every server
(`BootLock`, `BootCount`, `BootInsert`, `BootCrash`); `updateAccount` as
`UpdateBegin` (permission), `UpdateRead`, `UpdateCount` (the other owners),
`UpdateWrite` (the transaction). History: `fresh` (updates that have read and
since when no other wrote) and `raced` (accounts written by an update that was
not fresh).

### Credentials
One active account. The password is numbered by its changes; sessions, links
and their purpose; requests remember what they read before the slow password
hash (`LoginRead`/`LoginCreate`, `ChangeRead`/`ChangeWrite`/`Publish`,
`Ask`/`IssueConsume`/`IssueInsert`/`Deliver`,
`ConsumeChallenge`/`FinishPassword`/`FinishVerification`). History: `since`,
`overtaken`, `uses`, `announced`.

### Content
One entry: `status`, `content`, `version`, `scheduled` and the `snapshots` of its
versions; the job of each time (`job`, `tries`: one row per dedupe key) and the
versions that were announced (`events`); what each request and each execution of
a job is doing (`process`).

| Action | Code (`packages/cms/src/service.ts`, `repository.ts`, `frame/src/integrations/cms/job-port.ts`) |
|---|---|
| BeginUpdate, CommitUpdate | `update`: validation, then the transaction that locks the row and adds a version |
| BeginStatus, CommitStatus | `setStatus`: the read, then the transaction with its `Announce` |
| BeginSchedule, CommitSchedule | `schedule`: the read, then the transaction that enqueues the job |
| TakeJob, CheckSchedule, PublishScheduled, CommitStatus, FinishJob | the job: claim, the read of `publishScheduled`, `setStatus`, success |
| Throws, Crash, LoseLock, CancelJob, RetryJob | what JobQueue may do to it |

History: `excused`, the times whose job an administrator took in hand or whose
schedule was committed late.

### Redirects
`createRedirect`, `updateRedirect` and `deleteRedirect`: `Begin...` validates
against the whole table, walking from the target (`ClosesLoop`), and a later
statement writes one row. History: `stale` requests, whose validation a save has
overtaken, and `overlapped`, once such a request has written.

### Notifications
The notification of a password change (`PasswordChanged`, called once or more by
the outbox) and an announcement, recipient by recipient (`Announce`,
`AnnounceNext`); what recipients do (`MarkRead`, `MarkAllRead`, `Archive`); the
job that mails: `ReadDelivery`, `MarkSending`, `Send`, then `MarkSent`, or
`MarkFailed` and a job that is tried again; `LoseLock` and `Crash` at any point.
Administrators cancel a job that is pending (`CancelJob`) and retry one that died or
was cancelled (`RetryRead`, `RetryWrite`: by id, whatever the job became since, an
execution in progress included).
`mails` counts what the service accepted. History: `shaken`, the keys for which
two executions overlapped or an accepted mail was not marked.

### Connections
One connection. `Change` and `SetEnabled` are the two writes of
`updateConnection`, `FinishTest` that of `testConnection`, `Record` and
`RecordFails` those of `executeConnection`; each writes by id what it read before
the provider was asked. History: `passed` (revisions that passed a test),
`overtaken`.

### Taxonomy, Dictionary
A taxonomy with its terms, a dictionary with its items, and the requests that
create, change or import them. `BeginMoveTerm` and `Walk` are the walk from the new
parent to the root, a query per step; `Import` is the one transaction of a data
exchange. History: `stale`, `overlapped`, as in Redirects.

### Revisions
The rows with a history. A system setting is looked up (`BeginSetting`) and then
inserted or updated with its version counted by the database (`WriteSetting`); the
presentation profile is read with a lock, if there is a row to be locked
(`BeginProfile`), and the version counted from it is upserted (`UpsertProfile`).
`Commit` appends the version, `Rollback` is what the unique index or a failure
makes of the transaction. READ COMMITTED is modelled: what is committed is seen,
and a row that another transaction has written is waited for. A row starts absent: the
settings that `0005_governance.sql` found and gave version 1 without a history are left
out, and their first version is indeed in no history.

### Composition
`defineSystem`: `Claim` checks what each manifest declares as its own, `AddEdges`
its dependencies and capabilities, `Shift` is a turn of the topological sort
(Kahn's algorithm with `indegree` and `ready`), `Register` and `Start` are the host.

### Migrations
`compileMigrationPlan` (`Compiles` and `Plan`, as pure functions, with the sort `Order`) and
`runMigrations` by several processes of several builds: `Lock`, `Look`, then
`Adopt` for a migration recorded under an alias or `Execute`, `Reject` where checksums
differ, `Crash` anywhere. History: `executed`, the SQL in the order of its commits.

### WorkerLoop
One process. `Run` waits for the health server, `Listened` sends the first heartbeat
(whether or not the worker was told to stop meanwhile), and `Started` is the return of
that heartbeat. `Step` is the loop (`Recover`, then `ClaimEvent` if an event is due,
else `ClaimJob`, else sleep until `Wake`), until `Close` and `End`; `Beat`,
`Written` and `Lost` are the heartbeats; `Stop` is the signal, `Dispose` gives up a
worker that was never run. `Publish` is what other processes do: the row of an event
that was published stands for the next event, so that they may publish for ever.
History: `missed`, when a heartbeat was on its way at the signal or the last
one was lost; `early`, when the signal came while the health server was about to
listen.

### Identity, Services and Platform
Sums of parts that share no state, so that one run answers for all of them: the
variable `part` names the one that runs, the rest stay as they were created.
Identity is Access and Credentials; the services are Notifications, Redirects,
Connections, Taxonomy, Dictionary, Console and Editor; the platform is
Composition, Migrations, Revisions and WorkerLoop. The theorems of
IdentityProofs, ServicesProofs and PlatformProofs are about these sums, their
constants left open. MCIdentity, MCServices and MCPlatform only give values.

### AdminApi, AdminPages, Console
AdminApi is the permission that each route of the server demands (`Routes`, pairs of
a route and a permission), and the route that each function of the console's clients
calls (`Clients`); `Demands` and `Answers` join the two. AdminPages
is what each page loads, offers and links to, as functions of the permissions the
console knows. Console is the browser and the server: signing in and out, a
forced change of the password, the refresh of the account, opening pages, using
controls, the search, the answers; permissions may be taken away and sessions
ended at the server. The set `Profiles` are the accounts worth telling apart. The
pages are those the manifests declare, as if finding 3 were repaired. History:
`changed`, `ended`, `overlapped`, `refused` (what was shown and has just been
refused).

### Editor
`CmsEditor` in one browser: `Open`, `Leave`, `Move` (the router gives a mounted
editor another address), `Load`, `Type`, `Save`, `Order` (publish, archive,
schedule), and the answers `Land` and `LandCreated`. A text is abstracted to the
addresses at which it was typed. History: `moved`.

### AdminRegistry
`createAdminRegistry`: `Bind` compares what a manifest declares with what its surface
registers, extension by extension, and throws at the first difference; `Build`
makes the registry. The system is that of `apps/reference-admin`.

### Wrong variants
Operators whose name extends that of an action (`CommitUpdateUnlocked`,
`BeginMoveTermUnwalked`, `ShiftEager`, ...) are wrong variants of that action: they are
not part of any specification and serve to show that each property would notice
a plausible mistake in the code.

## 3. What TLC checks

| Run | Instance | Question |
|---|---|---|
| jobs_safety | 1 job with 2 attempts, 3 workers, 2 administrators; 219,689 states | Does the lock follow the status (`LockedIffRunning`); are two workers at one job only when a lock expired or a retry overwrote (`ExclusiveUnlessDisturbed`); is success backed by a handler that returned (`SucceededHasRun`); are dead jobs exhausted (`DeadIsExhausted`); is AtLeastOnceExecution implemented (`ExecutionSpec`)? |
| jobs_liveness | 2 jobs with 1 attempt, 2 workers | Are locks always released and due jobs always taken (`LockReleased`, `PendingIsTaken`)? |
| jobs_dead | 1 job, 2 workers, 2 administrators | Finding 1 (`ExhaustedFailureDies` is violated) |
| outbox | 1 event with 2 attempts, 2 subscribers, 2 workers | `InOrder`, the refinement `DeliverySpec`, and `EventuallyHandled` |
| assets_safety | 1 asset, 2 requests, 2 executions, 1 field; 2,099,760 states | Do assets in use have their object (`ActiveHasObject`), are referenced ones kept (`LinkedIsKept`), do deleted ones leave none (`DeletedHasNoObject`), and have pending and deleting ones a job behind them (`UnsettledIsBacked`)? |
| assets_liveness | 1 asset, 1 request, 1 execution; 49,478 states | Does every upload settle and every deletion end (`UploadSettles`, `DeletionCompletes`)? |
| identity | 2 sessions, 2 links, 2 requests, 2 changes; 2 accounts, 2 servers, 2 updates; 2,106,877 states | `LinkWorksOnce`, `LiveSessionIsCurrent`; `OneBootstrap`, `OwnerUnlessRaced` |
| access_owner | 1 server, 2 updates | Finding 2 (`AlwaysAnOwner` is violated) |
| content | 1 entry, 2 editors, 1 execution, 1 time; 285,550 states | Are versions complete and the last one live (`LatestSnapshotIsLive`); have drafts alone a schedule (`OnlyDraftsAreScheduled`) and every schedule a job (`ScheduleHasJob`); is it carried out (`ScheduleRuns`)? |
| services | 2 requests of each service, 3 redirects, 3 terms, 2 items, 3 notifications, 2 accounts at the console, 2 entries in the editor; 398,930 states | `NoLoop`, `EnabledIsTested`, `MailedOnce`, `NothingForgotten`, `Forest`, `ItemsMatchType`; `AccountIsOfSession`, `ShownIsAllowed` (the server refuses nothing the console offers, but for a list of controls and an account that lost a permission), `DoneAtItsAddress` (texts and orders reach the entry they were given for) |
| console_registry | the reference console | Finding 3 (`TechnicalRoutesRegistered` is violated) |
| platform | every graph of dependencies between 3 extensions; 3 builds, 2 processes; 2 requests; 2 outbox rows, each for one event after the other; 22,308 states | Is the order right and refused only for a circle (`SortIsRight`); is each migration executed once (`ExecutedOnce`) and after what it depends on (`AfterDependencies`); are histories complete (`HistoryIsComplete`); does a job get a turn, does stop end, and is an ended worker not healthy (`JobGetsATurn`, `StopEnds`, `EndedIsNotHealthy`)? |

The type invariant of each module that has one was checked while it was written, and
every one of them is a theorem (section 5).

**Bounds.** Jobs, events, assets, entries and accounts' credentials interact only
through the workers and requests that choose among them, so that one of each
with several actors shows what the actors can do to any; starvation needs two
jobs and has them. Two overlapping actors suffice for the races of the code,
which are all of the form read - foreign write - write; jobs_safety has a third
worker, so that one may recover what a second claimed from a first. One request suffices for the
liveness of assets: deletions, uploads and what administrators do to jobs need no
slot of a request, so that a confirmation is overtaken by all of them (both properties
also hold with two requests, in 367,124 states). Two rows of the outbox, used again
and again, are what an endless stream of events needs: one is due while the other is
dispatched. Two attempts
let a job fail, come back and be exhausted. An age of one tick is enough for a
lock to expire at any point of an attempt. Two password changes are needed for
a session to be older than the one before the last. Named bounds: `Horizon`
(ticks to a due date, the clock of Content), `VersionCap` (versions: with two, a
second editor may append the number of the first), `RevisionCap` (changes of a connection),
`MailCap` (a second mail shows that mails repeat), `AttemptCap`, `MaxAttempts`,
`RequestCap` (unsettled requests of the editor: two, an answer may overtake
another). Content schedules one time, which may be withdrawn and set again: that
is when the dedupe key matters. Three terms and three redirects make the
smallest loops that are not of two. The console asks for the account through two
questions at most (`Unasked`: the first, and a refresh), and an account loses
permissions once (`AtTheDoor`: before the console is opened, or beside it). An
editor that was moved (`moved`) is followed no further: all its properties are
excused from there. The theorems show that the safety properties they cover do
not depend on these numbers.

**Symmetry** is used in jobs_safety, assets_safety, identity and services, which
check no liveness, over actors and values that are interchangeable (workers,
administrators, requests, servers, accounts, sessions and links).

**Deadlock** is checked for jobs, outbox and access. The other systems really may
come to rest: every asset settled, every link consumed, the history full, the
system started, the worker ended.

**Fairness.** Each assumption is about the scheduling the code provides:
* time passes (weak fairness of `Tick`, `ExpireToken`);
* a worker that is up goes on with the row it holds and a dead one is restarted
  by the process manager (`Progress`, `Restart`; `Step` of WorkerLoop); a handler
  returns or throws in the end, there being no timeout in the code; a lock that
  is held too long is lost (`LoseLock`);
* every turn of the worker loop recovers and claims, so that workers that die
  again and again still get there now and then (strong fairness of `RecoverStale`
  and of `ClaimNext` per row: the claim orders by priority and due date, so only
  finitely many rows of the same priority can come before a given one; of
  `TakeJob` per time in Content);
* outages end: strong fairness of each subscriber's return and of the
  confirmation (Outbox), of the steps of the jobs (Assets, Content), and of
  `Dispatched` per row of the outbox (WorkerLoop). Without it an event whose subscriber
  always throws is retried for ever, which is what the code does, and may keep the loop
  from its jobs. It is not enough for them: publishers are under no fairness, and
  `JobGetsATurn` says what it needs of them, that they do not publish for ever;
* a heartbeat that was sent is written or lost;
* users and administrators owe nothing.

## 4. Where code and documents disagree

Each of the first three is a run whose property states what is promised.

1. **jobs_dead**, `packages/jobs/src/service.ts:156` (and `outbox.ts:94`). A job
   whose last attempt fails should become dead (docs/jobs-notifications.md:11).
   `markFailed` compares with `job.maxAttempts`, which the raw row of `claimNext`
   does not have; the job is queued again for ever. Only an expired lock makes
   a job dead, for `recoverStale` compares columns.
2. **access_owner**, `packages/identity/src/access-service.ts:152`. Two concurrent
   updates can remove the last two owners (docs/identity-access.md:93); the
   count of the others is not protected.
3. **console_registry**, `packages/admin-shell/src/defaults.tsx:32`,
   `index.tsx:161`. The technical routes should all be registered
   (docs/reference-experience-roadmap.md:346). The kernel's extension registers
   `frame.presentation`, which its manifest (`manifest.ts:141-152`) leaves to the
   presentation extension, so that the registry of the reference console throws.
   The deprecated `createFrameAdminExtension` registers it twice
   (`defaults.tsx:20`, docs/package-contracts.md:130).

Met while modelling; the properties carry a proviso instead of a run:

* `replaceReferences` neither locks nor reads the asset (docs/media-assets.md:27-28,
  38; `ports.ts:89`): a reference to an asset being deleted may appear.
* The mismatch of `confirmUpload` writes `failed` by id over any later status
  (docs/media-assets.md:33-34; assets `service.ts:270`).
* The event of a new password is not in the transaction that changes it
  (docs/jobs-notifications.md:24; `auth-service.ts:180`).
* Two requests for links of one purpose may leave two open (docs/account-security.md:9).
* Overlapping redirects may form a loop, overlapping moves a cycle of terms, an
  overtaken test may enable what it did not test, an overtaken item may have the
  type its dictionary had.
* Controls that the console shows to those the server refuses: `Ungated`. The
  page of accounts loads accounts and roles together, and shows neither if roles
  are refused.
* A refresh of the account that is answered after a sign-out shows the account
  again; an editor given another entry's address keeps the form until it has
  loaded, and the answer to a creation leads away from where the user has gone.
* An earlier build that runs after a later one has moved a migration executes it
  again under the old name.
* A deletion does not revoke the upload token, so that an object may be uploaded after
  the deletion has removed what was there, and nothing removes it: a second
  upload, or the first one if the expiry was cancelled and retried while the upload
  was open (`retry` sets `availableAt` to now, jobs `service.ts:199`).
* Events are looked at before jobs at every turn (`worker.ts:267`): while new events keep
  coming fast enough, no job is executed, though every event is handled. The first
  disjunct of `JobGetsATurn` is this case; without it TLC shows the loop of two
  rows published and dispatched in turn.
* A worker that is told to stop while its health server is about to listen writes
  "stopping", and then sends its first heartbeat, which says "healthy"
  (`worker.ts:236-253`): it ends and looks healthy. `early` is this case; without it TLC
  shows the run.
* A mail job that was cancelled leaves its delivery unsent for as long as nobody
  retries it; nothing tells the delivery or the recipient.

`ExclusiveUnlessDisturbed`, `OwnerUnlessRaced`, `LiveSessionIsCurrent`,
`UnsettledIsBacked`, `ScheduleHasJob`, `MailedOnce`, `NoLoop`, `Forest`,
`ItemsMatchType`, `EnabledIsTested`, `AccountIsOfSession`, `DoneAtItsAddress`,
`DeletedHasNoObject` and `EndedIsNotHealthy` hold with a proviso on a history variable; it names exactly the
event the code does not exclude, so that everything else is shown never to lead
there.

## 5. What TLAPS proves

Every safety property that a run finds to hold, whether invariant, action
property or refinement, for every set of jobs, workers, requests, redirects,
manifests, builds, permissions and so on, and every bound that meets the named
assumptions. TLC evaluates these on its instances:

* bounds are naturals, null values are not values, documents name terms and items
  there are, addresses differ from each other (`BackoffAssumption`,
  `ConstantsAssumption`, `NullsAssumption`, `EventsAssumption`, `NullRowAssumption`,
  `MaxPasswordsAssumption`, `NullCallAssumption`, `ContentAssumption`,
  `WorkersAssumption`, `NotificationsAssumption`, `DocumentsAssumption`,
  `EditorAssumption`, `PlatformAssumption`);
* `RedirectsAssumption`: what stands for the row that is about to be created is the id
  of no row (ids are generated);
* `MigrationsAssumption`: builds and their migrations are lists, and a process is
  not called like the absence of one;
* `ReleasesAssumption`: a build that has the SQL of an earlier one has it under the
  same name, or under another that lists the earlier one as an alias, and two
  migrations of one build differ in their SQL. This is what docs/adr/0003 asks of
  authors; the code cannot check it, for it sees one build at a time.

| Module | Theorems | Along which argument |
|---|---|---|
| JobQueueProofs | TypeCorrect, LockedCorrect, ExclusiveCorrect, SucceededHasRunCorrect, SuccessIsFinalCorrect, DeadCorrect, Refinement | Exclusion is not inductive: that no second worker can claim follows from `AttendedByHolder` (the job of an attempt in flight is running under its worker's lock, or is the success it recorded), which holds for jobs not in `disturbed`. Success rests on `ReturnedHasRun`. The refinement is a step simulation: by the same invariants whoever reports on an undisturbed job finds it open, or finds the success it recorded itself |
| OutboxProofs | TypeCorrect, PublishedCorrect, InOrderCorrect, Refinement | All rest on `PassedIsHandled`: the subscribers a worker has passed have handled the event, and `handled` never shrinks, so that a stale confirmation is still right. The refinement is a step simulation, one action at a time |
| AssetsProofs | TypeCorrect, ActiveCorrect, LinkedCorrect, DeletedCorrect, UnsettledCorrect | `AssetInv`: an object that was inspected while its asset is pending has not changed since; whoever removes an object has first moved the asset to a status it cannot be used in (`Gone`). `JobInv`: an upload without a token has no expire job, no retry of one and no execution of one, so that an intent in progress is left alone however early jobs run. `CleanupInv` for what is left behind: a job outlives what it is to settle (`AssetInv`), and what an execution has read, removed and settled tells what it leaves when it ends (`RunLeaves`) |
| IdentityProofs | AccessTyped, OneBootstrapCorrect, OwnerCorrect; CredentialsTyped, LinkCorrect, SessionsCorrect | `BootUnderLock`: whoever counts or inserts holds the lock, and the table is empty before an insertion. `FreshIsSafe`: an update that has seen every other writes only if an owner remains. `UnusedUntilConsumed`: what a link is for happens in the step that consumes it, under the condition that it is open. A change ends all sessions but the one it was made with |
| ContentProofs | TypeCorrect, LatestCorrect, ScheduledCorrect, ScheduleCorrect | `EntryInv`: versions and snapshots grow together under the row's lock, and no request to schedule has read an archived entry (`ScheduleReadsLive`; it writes the status it has read). `QueueInv`: who works on a job, and a job that has ended, is of a time that has come (`WorkIsDue`, `EndIsDue`), and an execution that is done has left no schedule for it; so a schedule committed in time finds a job that is still to run |
| ServicesProofs | TypeCorrect, MailedOnceCorrect, ForgottenCorrect | `MailInv`: notice, delivery and job appear together (`CreatedTogether`), what was accepted is recorded but by the execution that is about to (`Recorded`), and an execution that may send holds the job (`Holds`), all for keys that are not shaken. `RetryInv`: a retry has read a job that exists, so that it writes only where there is a delivery |
| | ConnectionsTyped, EnabledCorrect | `ConnectionInv`: what is recorded or held as tested is a revision that passed (`TestedHolds`) |
| | DictionaryTyped, ItemsCorrect, TaxonomyTyped, ForestCorrect | A request that is not stale still has what it checked (`ItemChecked`, `TermChecked`); `WalkedUp` says of a walk that every set of terms closed under parents that has the new parent has the cursor too, which states "above" without induction |
| | RedirectsTyped, NoLoopCorrect, ValidatedIsApart | Below |
| | OfferedIsAnswered, LinkedIsOpen, ShownCorrect | Below |
| | AccountCorrect, DoneCorrect | Console, `AccountInv`: who may be waiting for what (`Waiting`), and every account shown or on its way is of the session (`OfSession`). Editor, `EditorInv`: what was sent (`Sent`), what the mounted editor still waits for (`OfAddress`) and what its form holds are of one address, and one save at most is under way |
| PlatformProofs | HistoryCorrect, EndedCorrect | `HistoryInv`: the version a transaction appends is at most one more than the current one (`Counted`), so that the unique index alone makes the history complete. `WorkerInv`: after the signal the timer is gone, nothing is sent before the health server listens, and "stopping" is sent or was written last |
| | SortCorrect, CompositionTyped, StartedCorrect | `SortInv`: the indegree of an extension is the number of its providers that are not sorted (`Counting`); those left at the end each wait for one of the others, which is a circle. `RegisterInv`: what is registered has its routes; an order as long as the system has every extension in it, so that a started system serves every route that was declared (`StartedIsServed`) |
| | PlanFollowsDependencies, ExecutedOnceCorrect, AfterDependenciesCorrect, OneMigratesCorrect, RecordCorrect, MigrationsTyped | Below |
| Recursion | (lemmas) | Induction over data, below |

**Redirects have no loop.** `validateRedirect` walks from the target of the new
redirect, row by row, as many steps as there are rows, and refuses a walk that
meets the source. `LoopFree` says that every non-empty set of enabled rows has one
that leads to no row of the set. ValidatedIsApart shows what a walk that did
not meet the source means: there is a set of addresses that has the target and not
the source, and that no enabled row leads out of (`Apart`, `Closed`). For by the
pigeonhole principle the walk has ended or come back to an address within its
steps. A row that is written while its request is not stale then closes no loop,
since a loop through it would lead from its target back to its source.

**The plan of a migration.** `Order` is a recursive function over a list of sources
and `Plan` flattens the migrations of the sources so ordered. `Ordered` says that a
prefix of the order has no source twice and has the dependencies of a source
before it, and is kept by one turn of the sort; so a plan that compiles has
every source, after what it depends on. `FlattenSeqIsFlat` finds each element of a
flattened sequence in the sequence it came from; together they are
PlanFollowsDependencies. The runner's invariant `MigrationInv` says of a process
between its lock and its unlock that it has the lock, that what lies behind it in
its plan is recorded, and that what it is about to execute is recorded under none
of its names (`UnderLock`); and of the SQL that was executed that a migration of the
build that did it is recorded (`Ran`). That no two processes are in between at
once (OneMigratesCorrect) and that the record is true, adopted names included
(RecordCorrect, with `RecordInv`), follow from the same invariant.

**What the console offers is answered.** TLC compares the pages with the routes for
the permissions of a few profiles. The theorems do it for every set of permissions:
OfferedIsAnswered, one area of the console at a time, finds for each request that
a page offers under some permission the route it calls, and the same permission
at the route, but for the pairs in `Ungated`; LinkedIsOpen does it for links.
`ShownInv` then says what the console was told: accounts are granted some set of
permissions or, once it was taken away, none, and wherever the console keeps
permissions (its account, the answers on their way, the call that is open) they
are that set or none. A call is refused to an account that has just what the
console knew only if it is in `Ungated`, whatever the order of the answers.

**Induction.** The library's induction theorems take an operator and are out of the
provers' reach. Recursion derives what is needed from a theorem that takes none, namely
that inclusion of finite sets is well-founded: a non-empty set of numbers has a
least one (`LeastNumber`), what holds at 0 and is kept by a step holds up to any
number (`UpTo`, of a set instead of a predicate), and a function that is
defined by recursion over 0..n exists and takes its steps (`Iteration`). So the
walks of the redirects, the order of the sources and the flattening of sequences
are written as recursive functions in the models, and what they compute is
proved for every input.

The provisos of the properties (section 4) are those of the theorems: they name
history variables, never an assumption.

Each module proves its invariants first, one lemma per action or group of
actions, then the temporal theorems.

Only model-checked: liveness (`LockReleased`, `PendingIsTaken`, `EventuallyHandled`,
`UploadSettles`, `DeletionCompletes`, `ScheduleRuns`, `JobGetsATurn`, `StopEnds`), which
under fairness is out of the prover's reach.

## 6. Not modelled

In the modelled components: display names, metadata and access URLs of assets;
the editing of roles; the profile and avatar of an account; `last_seen_at` and
the token in the cookie; assignments of terms; the record of a data exchange run;
the encryption of a connection's credentials; the form of single manifests and the
environment; the console's forms other than the editor of entries, and all
rendering; payloads, logging and pagination everywhere. Audits are modelled
only where their failure changes the outcome (`processJob`).

Not modelled at all, for want of a protocol: audit and metrics (appends and
counters), search and the public site (reads), the HTTP host but for its
permissions, the adapters for mail, payment and AI (stateless), the UI packages, the
generator and the deployment files.

## 7. Plan

In this order:

1. **Roles**: `createRole` and `updateRole` beside `updateAccount`; what a change of
   a role does to those who administer by it.
2. **Assets**: `update` and the access URLs of an asset; assignments of terms,
   which like references survive what they point to.
3. **Data exchange**: the record of a run against what was imported, when the
   server dies in between.
4. **Accounts**: profile and avatar, two transactions of which the second may
   fail; that at most one link of a purpose is open unless requests overlapped.
5. Abstract specifications still worth stating, each with the theorem that it is
   implemented: a reference-counted object for Assets; a table whose rows are
   migrated once, in order, for Migrations.
6. Theorems of what the histories leave open: that the proviso of each property
   is met only by the steps that section 4 names.
