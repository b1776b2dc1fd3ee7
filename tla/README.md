# SocialFlow: a TLA+ model of its core

SocialFlow (`src/`) is a small multi-tenant service that plans posts, renders
artwork for them, schedules them and publishes them on Facebook pages and
Instagram business accounts.  The code is TypeScript: a Fastify API
(`apps/api`), two worker processes (`apps/worker`: one publishes scheduled posts,
one renders artwork), a Next.js client (`apps/web`), PostgreSQL through Prisma
(`packages/db`), Redis with BullMQ queues, and an object store.

What is hard about it is not any single handler.  It is that an operation touches
several stores that share no transaction (PostgreSQL, Redis, BullMQ's jobs, the
object store, Meta's servers, the page in a browser), that most transactions read
at READ COMMITTED and decide on what they read, and that Meta's side cannot be
rolled back: a post that was made twice stays made twice.  The modules here are
about that.

## 1. Inventory

| Part | State it keeps | Operations | Modelled in |
|---|---|---|---|
| Publication service `apps/api/src/publication-service.ts` | rows of `PublicationAttempt` (status, container id, lease), the post's `publishedAt` | `preparePublication`, `executePublication` | `Publication`; its promise in `PublishOnce` |
| Publish and resolve API `apps/api/src/publication.ts` | Redis idempotency keys; the same rows | `POST /publish`, `POST .../resolve` | `Publication` |
| Meta adapter `apps/api/src/meta-publisher.ts` | none; Meta holds posts and containers | `publishFacebook`, `publishInstagram`, container polling | `Publication` (the calls it makes and what an answer can hide) |
| Scheduler API `apps/api/src/scheduler.ts`, `scheduler-queue.ts` | rows of `PublicationSchedule` (status, version, token, lease), BullMQ jobs | create, reschedule, cancel | `Scheduler` |
| Scheduler worker `apps/worker/src/scheduler-worker.ts`, `main.ts` | the same rows and jobs | startup reconciliation, `processScheduleJob`, failed listener | `Scheduler` |
| Renderer worker `apps/worker/src/renderer-worker.ts` | rows of `RenderJob` (status, token, lease), media assets, stored objects, batch counters | `executeRenderJob`, reconciliation cycle, `updateBatchCounters` | `Renderer`, `RenderBatch`; its promise in `RenderOnce` |
| Render API, batches `apps/api/src/render.ts`, `render-batch.ts` | `RenderJob`, `RenderBatch`, idempotency keys | create, replay, retry-failed, cancel | `BatchRequests`, `Renderer`, `RenderBatch` |
| Social accounts `apps/api/src/social-accounts.ts` | OAuth state, discovery and lock in Redis; consumption, accounts, credentials | authorize, callback, connect, disconnect | `SocialAccounts` |
| Content workflow `apps/api/src/content.ts` | posts and their review | create, import, edit, change status, delete | `Content` (a text is one value) |
| Media library `apps/api/src/media.ts`, `media-storage.ts` | assets, objects, a counter of uploads | reserve, upload, archive | `Content` |
| Media tickets `apps/api/src/media-ticket.ts`, `media-token.ts` | one-time tokens in Redis | issue | a call in `Publication` |
| Design templates `apps/api/src/design-templates.ts` | templates and numbered versions, row and advisory locks | create, defaults, patch, new version | `DesignTemplates` |
| Template editor `apps/web/app/design-template-manager.tsx`, `design-template-concurrency.ts` | selection, edit session, conflict, requests in flight | select, edit, save, reload, reapply, discard | `DesignTemplates` (not the presentation) |
| Polling controllers `apps/web/app/*-polling-controller.ts`, `artwork-generator.tsx`, `batch-artwork-modal.tsx` | generation, request in flight, timer, what is shown | submit, poll, check by hand, cancel, leave | `Polling` (not the presentation) |
| Contracts `packages/contracts/src` | none | aggregate status of a batch; local time to UTC | the status in `RenderBatch` |
| Roles and indexes `packages/db` | unique indexes, row-level security | - | the indexes in `Publication`, `SocialAccounts`, `BatchRequests`; the audit policy of the renderer in `RenderBatch` |
| Sessions, clients, brands, CSV import, image layout, cryptography, other React views, backup scripts | - | - | not modelled (section 8) |

How they interact.  The publish handler and the scheduler worker both call
`preparePublication` and `executePublication` on the same table, in different
processes.  The scheduler API writes a row and then adds a job; the worker is
told of a schedule only through that job (or, at boot, by a scan of the rows).
The renderer follows the same pattern with its own queue and a periodic scan.
The pages of the client know of a rendering only what they asked for, and of a
template only what they were answered some time ago.  The publication service
writes accounts and credentials that a connect writes too.

What each part must guarantee, and where it is hard:

- *Publication*: a post becomes public at most once on an account, whatever
  crashes, timeouts, retries and resumptions happen; what is public is not
  forgotten; what is shown as published is public.  Hard because the call to Meta
  is neither transactional nor idempotent, and rows are written by id alone.
- *Scheduler*: one execution at a time; nothing is published before its time or
  for a version a user has replaced; final statuses are final; a schedule that
  was accepted ends.  Hard because the row and the job are written one after the
  other by requests, workers, BullMQ and the boot scan, in any order.
- *Renderer*: one asset per job, offered exactly when the job is COMPLETED;
  executions fenced by a token; a job that ends once and always ends; a job of a
  cancelled batch that is not rendered later.  Hard because leases end under slow
  executions, the storage is written outside the transaction, and the reconciler
  moves rows and queue jobs by what it saw before.
- *Render batches*: a batch shown as ended only with exact counters, and ended in
  the end; no item cancelled without the request; one batch per idempotency key,
  whoever asks again and when.  Hard because five counts at READ COMMITTED do not
  see one state, concurrent transactions overwrite each other's totals, and the
  unique index decides between requests that have both looked.
- *Social accounts*: an OAuth state and a discovery are each used once, although
  the Redis lock may end before the connect does; a connect whose answer was lost
  can be repeated; a token never serves another client.
- *Content*: what the library offers can be served and stays as it is; the places
  for uploads come back.  Hard because storage and database share no transaction
  and two uploads may reach one reservation.  Of the review no property is claimed:
  the code updates a post by id alone, after a check of what it read (section 5).
- *Design templates*: nobody's version is passed over by somebody who never saw
  it; an archived template stays as it is.  Hard because the optimistic check of
  the server is only as good as the base version the page sends, and the page has
  two kinds of requests in flight.
- *Polling*: what is asked about is what is shown; a running job is attended; a
  completion is told once.  Hard because every answer may be late.

The list of hazards, each at its line and with the properties that cover it, is
`hazards` in `PROJECT.json`.

## 2. Modules

Each component has a module, an `MC` module with its instance for TLC, and, where
there are theorems, a `Proofs` module that extends it.

### Publication, PublishOnce

One approved post and a set of social accounts.  Rows of different posts never
meet: both indexes and every query are by post.

| Model | Code |
|---|---|
| `rows[a][n]`, `last[a]` | the attempts of an account, numbered by `attemptNumber`: status, `containerId` (as the number of the attempt that created it), `leaseExpiresAt` |
| `IndexesHold` | `PublicationAttempt_single_active_idx`, `_single_published_idx` |
| `connected[a]` | account ACTIVE and its credential decrypts |
| `idem[k]` | Redis `meta:publish:idempotency:*` |
| `posts[a]` | ghost: what Meta has made public |
| `pc`, `plan`, `todo`, `num`, `at`, `reply`, `key` | what a request or a schedule job holds between two awaits |
| `PrepareRead`, `PrepareCommit`, `PrepareUncertain`, `PrepareAbort` | the prepare transaction: its reads, and its end |
| `TicketIssued`, `TicketFails` | the public media ticket |
| `FacebookPost`, `CheckContainer`, `CreateContainer`, `OnContainerCreated`, `PublishContainer` | the adapter's calls, one action per remote effect |
| `Persist...`, `ExecAbort`, `Finish` | the writes after a target, the catch block, the end |
| `ConfirmPublished`, `ConfirmFailed`, `Dismiss` | the resolve handler, one transaction each |
| `Crash`, `LeaseExpires`, `KeyExpires`, `SetConnected` | process death, time, Redis, other handlers |

The environment is honest where `Faults` is empty and each fault switches on one
way in which it is not: `slowExecutor` (an executor outlives its three minute
lease), `stalePrep` (READ COMMITTED lets a preparation commit on reads that have
changed), `ambiguousReset` (a lost connection the adapter does not recognise as a
timeout hides a post that was made), `lostStatus` (the status of a published
container cannot be read or reads EXPIRED), `lostTicket` (Redis refuses the ticket
of a resumed attempt).  Each of the five alone lets TLC find a second post; the
one that contradicts a sentence of the repository most plainly is a run (section
4), the others are a change of `Faults` in a `.cfg` away.

`PublishOnce` is the promise, without attempts, leases, containers or executors:
on each account `posts` (what is public) and `shown` (idle, pending, published).
The post becomes public only while shown as pending, is given up only if it is not
public, and confirmed only if it is.  The refinement mapping reads `shown` from
the rows (`ShownAs`): published if a row is PUBLISHED, otherwise pending if a row
is open or UNCERTAIN, otherwise idle.

### Scheduler

One schedule, its versions and their jobs.

| Model | Code |
|---|---|
| `sched` | the row: status, version, `executionToken` (named by its worker), lease |
| `due` | the scheduled instant against the clock: future, due, over 15 minutes late |
| `job[v]` | BullMQ job `sched:<id>:v<v>`: state, attempts made, stalled count, lock owner |
| `handler[h]` | a request between two steps |
| `worker[w]` | one of the five jobs a process runs at once (`scheduler-worker.ts:866`; `main.ts:75` passes no other number): down, in one step of the boot scan of its process, idle, in one step of a job |
| `Create`, `Read`, `Reschedule`, `Cancel`, `Drop`, `Add`, `Mark` | the three handlers, cut at each statement on another store |
| `Boot` ... `Remark` | `runStartupReconciliation` |
| `Join` | the other jobs of a process whose scan is over: they begin without one |
| `Take` ... `Retry` | `processScheduleJob`: look, compare-and-set, prepare, execute, settle |
| `Complete`, `Fail`, `Listen`, `Stall` | BullMQ, and `worker.on("failed")` |

Faults: `handlerFails`, `lostLock`, `acquisitionError`, `dbFailure` are what a
process, BullMQ or PostgreSQL may do.  `slowCreate` (the last write of a create that
was overtaken) is a race the code loses, kept apart so that everything else can be
checked without it: no run and no theorem about final statuses contains it.
`slowReconcile` (a reschedule between the read of a boot scan and its write) is in
`sched_faults`; it is left out where a waiting schedule must have its job.

### Renderer, RenderOnce

One render job, alone or an item of a batch.

| Model | Code |
|---|---|
| `job` | the row of `RenderJob`: status, `executionToken` (named by its process), lease |
| `asset`, `stored` | its `MediaAsset` (`pending`, `ready`) and the object under its key |
| `batch` | no batch, or a batch with or without `cancelRequestedAt` |
| `queue` | BullMQ job `render-<id>`: state, payload, attempts, stalled count, lock owner |
| `worker[w]` | where `executeRenderJob` is, between two of its awaits |
| `cycle[c]` | where `runRendererReconciliationCycle` is, and the status it saw |
| `mishaps` | crashes, lost answers, locks and connections so far: the bound |
| `Take` | delivery and the strict payload schema |
| `Look`, `Acquire` | the read and the compare-and-set of the acquisition |
| `Load` ... `Finalize` | the execution: its cancel checks, the reservation, `storage.put`, the final transaction |
| `MarkFailed`, `ReleaseJob`, `CancelSelf` | the three other ends, each where the token matches |
| `Discover` ... `Reset` | the reconciliation cycle for this job |

A transaction that commits may lose its answer (`Committed`): the code then
releases a row that is already final, which must be harmless.

`RenderOnce` is the promise, without executions, tokens, leases, queues or
reconcilers: `shown` (absent, running, or how the job ended), `offered` (the artwork is
in the library) and `asked` (its batch was cancelled).  A job ends once, completed in
the same step as its artwork is offered, and cancelled only when that was asked
for.  The mapping reads `shown` from the status (`ShownAs`: PENDING and PROCESSING are
both running, so that releases, takeovers and resets are not seen), `offered` from the
asset and `asked` from the batch.

### RenderBatch

The items of one batch, and the transactions that count them, statement by
statement: `Finish` and `CancelSelf` of an execution, `Recount` of the reconciler,
`Cancel` of a user.  `tx[u]` is an open transaction: its own writes, and what it has
counted.  `Count` reads what is committed at that moment; `Commit` writes the row
of the batch by id.  `Aggregate` is `computeBatchAggregateStatus`.

`Renderer` and `RenderBatch` meet in three actions that both contain, each
abstracted in the other one: an execution of `Renderer` ends its row where
`RenderBatch` opens a transaction that counts, the cancel is one step in
`Renderer` and many in `RenderBatch`, and what an execution does between its
transactions is `Proceed`.

### BatchRequests

The requests that bring batches about, before any renderer sees them.

| Model | Code |
|---|---|
| `row[b]`, `item[b][p]` | rows of `RenderBatch` and their jobs, `row[b].asked` what was asked for under `idempotencyKey` |
| `cancelling` | batches whose status is CANCELLING, which a retry is refused for |
| `members` | the posts of the content batch a request may name |
| `req[r]` | a handler between two statements: count, find, look the key up, create, recover from P2002, enqueue |
| `World` | an import (also between the count and the read of a content batch), a deletion, items that end, the counts of a cancel |
| `Crash`, `Reply` | a process that stops, an answer that is sent, heard or not |

A single render job is a batch of one post under keys of its own: `render.ts` takes
the same steps.

### SocialAccounts

| Model | Code |
|---|---|
| `states[s]`, `discoveries[d]`, `lock[d]` | `meta:oauth:state:*`, `meta:oauth:discovery:*`, `meta:oauth:discovery:lock:*` |
| `consumption[d]` | `OAuthDiscoveryConsumption`, unique by discovery |
| `account[c][a]`, `credential[c][a]` | `SocialAccount.status`, and where its token comes from |
| `callback[b]`, `connect[r]` | the two handlers between two awaits |
| `answered`, `connections` | ghosts: what was answered 200, who wrote accounts |
| `Authorize` ... | authorize; the callback's GETDEL and exchange; the connect from lock to answer, with its recovery from P2002; disconnect; tokens the publication service finds expired |

### Content

Posts with their review (`post`, `text`, `jobs`, `hand`), the content batch an import
belongs to (`batch`), and the library (`asset`, `object`, `uploads`, `up`).  A handler that
reads and then writes is two steps, whatever transaction it holds: READ COMMITTED
without a lock.  An upload is cut at its checks, the claim of its row, the storage
and the final transaction, and the two ways in which it can fail after the claim
(`FailPut`, `FailCommit`).

An edit reads the status, checks it against the role and writes by id, in one
transaction that takes no lock: between the two statements a whole approval may
commit, and the edit then lands on an approved post.  The model contains that, as
the code does, and so states nothing that would exclude it.

### DesignTemplates

The server: `template`, `rowLock` (FOR UPDATE), `advisory` (the lock of the default
templates), `hand` (a request between two statements).  The page of one editor:
`sel`, `detail`, `editing`, `base`, `conflict` as the component's state of these names,
`active`, `dreq`, `creq` as the lifecycle controller's, `saving` the save in flight.
Both are in one module because neither is right alone: the server compares a base
version that the page has made up from its answers.

### Polling

`screen` chooses which of the two pages a behaviour follows.  `shown`, `slow`, `key`,
`submit` and `cancel` are the page's; `auth`, `gen`, `timer`, `live`, `attempts`, `told` are
the controller's fields; `reqs` are its requests in flight.  A request that was
aborted may have been answered already: its continuation runs, and must find
itself unauthorized (`DropLate`).  `Polling` takes from `Renderer` and `RenderBatch`
that a job ends, and from `BatchRequests` that a form sent again finds its job.
"running" is every status that is not an end, CANCELLING too: the server answers a
cancel with the end that was there (`render-batch.ts:1210`), with one it comes to, with
CANCELLING when its counts do not add up, or with an error.
Its definitions have names of their own (`PollInit`, `PollSpec`, `PollFaults`, ...), so that
`PageProofs` can extend it together with `DesignTemplates`.

## 3. Abstractions

- Time is what the code compares: leases are live or expired, instants are
  future, due or late.  Backoff delays are ignored: a job that waits may be taken.
- The renderer works on one job at a time (`render-main.ts`).  The scheduler's worker
  runs five at once: a worker of `Scheduler` is one of them, and a process that dies is
  several of them dying, one after the other, so `MaxCrashes` counts these.
- Polling a container and publishing it is one step: nothing is written between.
- Requests that are refused change nothing and are no steps.  A refused
  preparation deletes its own idempotency key again and is no step either.
- The administrator who resolves an attempt has looked at Meta: the decision
  agrees with what is public then.
- BullMQ keeps finished jobs (its retention counts are not reached).
- Row-level security, validation, audit records and wording are left out.  So is
  a missing `CREDENTIAL_MASTER_KEY`, which fails every target alike.
- The artwork is a function of the job: two executions store the same bytes under
  one key, so If-None-Match finds either nothing or the same.  Validations of
  template, input and media are one choice between rendering and rejecting.
- Tenants that become inactive are not modelled.
- A cancel of `Renderer` commits whatever the job is doing.  That is more than
  the code achieves (section 5) and what its author intends, so that the
  cooperative cancellation is checked too.
- In `RenderBatch` a batch is OPEN in PENDING and PROCESSING, and its counters are
  zero until nothing active is counted: no code decides on them before.  Between
  the cancel handler's read of the status and its first update nothing happens.
- In `SocialAccounts` a selection is a set of assets, and a transaction's writes are
  one step: they begin with a row that it keeps locked.
- In `DesignTemplates` the number of the latest version stands for the versions,
  which are never changed; one page is followed in detail and others send
  requests with any base version.  A draft of poor contrast asks the user before the
  save is sent: the time that takes is time the request spends on its way.  A save
  ends at any moment after its reload was asked for.
- In `Content` a put replaces what is stored under the key; the storage refuses a key
  that is there (`media-storage.ts:136`).  The properties hold without that help.
- In `BatchRequests` the cancel of a batch is only what a retry sees of it: the status
  is CANCELLING, or is so no longer.
- In `Polling` a job stands for its idempotency key, delays are left out, and so are
  continuations of a disposed controller, which do nothing.

Bounds: `MaxAttempts` rows per account (a preparation that needs another waits;
in `Polling`, polls of a job), `MaxVersions` versions, `MaxTries` tries of a job,
`MaxCrashes` crashes, `MaxMishaps` mishaps of the renderer (without that bound a
connection may fail for ever, and nothing settles), `MaxRequests` requests of
other editors, `MaxClicks` and `MaxErrors` of a page, and the sets of ids that are
used once.

## 4. Runs

| Run | Question | Bounds |
|---|---|---|
| `pub_facebook` | Can two requests and a schedule job post twice on a page, share a key, or touch a published row? No. | 3 attempts: the first may end UNCERTAIN, be resolved as failed, and be followed by two more |
| `pub_instagram` | Can a request and a job lose track of a public container, hold one account together, show what is not there, or do anything `PublishOnce` does not promise? No (71,038 states). | 3 attempts: a container passes from the first to the second to the third |
| `pub_ambiguous_reset` | violated: `AtMostOnce` with `ambiguousReset` | 2 attempts |
| `sched_faults` | With a crash, lost locks, failing transactions and dying requests: one execution, accounted for, final statuses final, versions and due times respected? Yes (3,901,051 states). | 2 workers, 2 versions, 2 tries, a reschedule in the middle of a boot scan: two jobs due at once, one given out twice |
| `sched_fair` | Does an ENQUEUED schedule keep its job when create, reschedule and cancel race and requests die, does every accepted schedule end, and is one that waits taken up when a worker starts? Yes (340,409 states), but for the two states `Settles` names: a SCHEDULED row whose request died before the job was added, until a worker starts (`Unqueued`), and a row whose worker died (`Abandoned`). | 2 requests, 2 versions: a create overtaken by a reschedule, a reschedule by a cancel; 1 worker, 2 tries, 1 crash |
| `renderer` | Are executions fenced, is the library in step with the rows, does the renderer do only what `RenderOnce` promises, does a cancel request hold and a job always end? Yes (874,113 states). | 2 renderers, 1 reconciler, 2 tries, 2 mishaps: an execution that is superseded, and its successor that fails |
| `render_batch` | Is a batch ended only with exact counters and only cancelled on request, and does it end in the end? Yes. | 2 items, an execution, a reconciler and a cancel: three sets of counts interleave |
| `batch_requests` | Is there one batch per key, are answers what was asked for, and is a repeated request answered again? Yes (1,429,474 states), a retry excepted that is looked up while its parent is CANCELLING. | 2 requests, 2 batch keys, 1 single key, 2 posts, limit 1, 2 rows: both requests meet under one key, and a retry of a failed item beside them |
| `social_accounts` | Are states and discoveries used once, is 200 answered only for what was written, do tokens stay with their client, can a lost answer be asked for again? Yes (803,683 states). | 2 clients, 2 assets, 1 state, 2 callbacks, 2 connects: both callbacks with one state, both connects with one discovery, one after the lock ended. One discovery is stored (the second id is for a state that is exchanged twice), so accounts of two clients are not written side by side: two states take TLC beyond 9 million states, and that case rests on the theorem |
| `content` | Can the library offer what is not stored, take back or change what it offers, or lose places for uploads? No (236,742 states). | 1 post, 2 texts, 1 batch, 2 handlers: posts never meet; 1 reservation, 3 uploads, 2 images, limit 2: one more than the limit, two beyond their first check |
| `design_templates` | Can a save pass over a version its editor never saw, an archived template change, two initialisations collide? No (3,382,391 states). | 2 templates, 2 other requests, 3 versions: a conflict, and another one while it is resolved |
| `polling` | Is what is asked about what is shown, is a running job attended, is an end told once and in the end shown? Yes (160,676 states), with two exceptions the properties name: the window of a batch that has asked often enough (`GaveUp`), and a CANCELLING answered late, after the end was told (`EndTold`). | 2 jobs, 5 clicks, 2 polls, 1 error: a job is left for another one while its answer is under way, and given up and checked by hand |

The runs of `Publication` have one account each: accounts meet only in the prepare
transaction, which is one step for all of them.  The larger instance with a page
and an Instagram account together (a request and a job, two attempts, 4.9 million
states) was checked by hand without an error.

Type invariants are theorems or the first conjuncts of the inductive invariants (section
6), and no run repeats them.  `RepeatIsAnswered`, the properties of templates and
content and `sched_faults` use symmetry, as do those of accounts; the runs with fairness do not.

*Fairness.*  `Scheduler` (`sched_fair`): handlers and workers go on with what they
began (single awaits on a live database), a worker that is down is started
(`restart: unless-stopped` in the compose files), time passes, leases end.  Nobody
has to send a request and no fault has to happen; a request that dies and the
one crash may come at any moment.  `Settles` therefore leaves out the two states in
which nothing but another start of a worker would help, and `TakenUp` says that such a
start does help.  Weak fairness is enough: each of
these steps stays possible until it is taken.  `Renderer` assumes the same of its
processes, and that the reconciliation cycle goes on every minute.  `RenderBatch`
assumes strong fairness of `Commit`: another transaction may lock the row of the
batch again and again, but PostgreSQL serves those who wait in turn.  `Polling`
assumes that timers fire, that requests are answered or fail, that answers are
handled, and that a rendering ends, which is what `Settles` and `CountsSettle` say;
no user has to do anything.

Deadlock is not checked where the system may rest: a schedule, a job, a batch or a
page that ended, and instances whose ids and clicks are used up.

## 5. Findings and observations

One finding has a run.  *Unrecognised disconnections* (`pub_ambiguous_reset`): a
`fetch failed` whose code is on the cause is not a timeout for `isTimeoutError`, the
attempt is FAILED, the next request posts again.

What else was met.  Those of the first group can be reproduced by a change of
`Faults` or of a bound in a `.cfg`:

- *Preparation on stale reads* (`stalePrep`; publication-service.ts:252): the reads
  take no lock, and a PUBLISHED row does not conflict with a PROCESSING one in
  either index.
- *Overtaken create* (`slowCreate`; scheduler.ts:344): the last write of the create
  handler is by id alone and revives a schedule that was cancelled meanwhile.
- *A save that is left* (`leaveWhileSaving`, `MaxRequests = 3`;
  design-template-manager.tsx): the page does not remember for which template a
  save was sent, so that the late 409 of one opens a conflict in another, and
  reapplying there passes over a version nobody saw.
- *A late cancel* (`lateCancel`; batch-artwork-modal.tsx): the answer to the cancel of
  one batch is shown after another was opened, which the controller follows, until the
  next poll.

Seen while translating the code, and part of the runs of their module (the second of
`sched_faults` alone); where a property would exclude one, the property names
it or is not claimed:

- *A worker back too soon* (scheduler-worker.ts:219): the boot scan skips a PROCESSING
  row whose lease has not ended and there is no second scan (docs/SCHEDULER.md:15
  says five minutes).  `Settles` calls the state `Abandoned`.
- *Flagged too late* (scheduler-worker.ts:91-112): the boot scan compares times it read
  before and flags by status, so a schedule that was moved to the future meanwhile
  is flagged for a person all the same.
- *Count and read of a content batch* (render-batch.ts:649): no lock is taken, and an
  import between the two statements makes a batch above the limit.
- *An edit during its approval* (content.ts:583-636): the update names the post by id
  alone, so the edit of an EDITOR may write over what was approved after the status
  was read, which the check at line 588 is meant to prevent.  A delete compares the
  status again in its where clause.
- *CANCELLING after the end* (batch-artwork-modal.tsx:419): a cancel may be answered
  CANCELLING (below).  If that comes after a poll has shown and told the end, the
  window shows an active batch nobody asks about any more (`EndTold`).
- The batch handlers put a `batchId` in the payload that the strict schema of the
  renderer refuses (render-batch.ts:997).  BullMQ fails every item at its first
  delivery; the reconciler adds it again without `batchId`.  `Take` of `Renderer`
  does so.
- The cancel of a batch in progress audits `batch.cancel_requested` as
  `system:renderer`, which the policy of `AuditLog` does not allow, and rolls back
  (render-batch.ts:1315; `CancelAudit` of `RenderBatch`).  CANCELLING is written and
  answered nevertheless when no item is active in two of the counts but the five do
  not add up: the audit is then `batch.completed`, which is allowed.
- The reset of the reconciler compares the status it saw but not the lease, so it
  can take a job from an execution that has just begun; the token fences that one
  out, at the price of a second rendering.
- A request for a content batch that is repeated after its posts changed is
  answered 409, and a retry whose parent is CANCELLING 400 before its key is looked up
  (render-batch.ts:1395), carried out before or not.  `RepeatIsAnswered` leaves both
  out, for that lookup alone.
- A connect replayed with one asset named twice counts it twice: `[A, A]` is
  answered as the replay of `[A, B]`.
- A decision about a post is written by id as well: of two reviewers who decide at
  once the later wins (`StatusWrite` of `Content`).  The
  limit of 20 reservations is counted in a statement of its own.  A process that
  stops leaves its asset `uploading`.
- The window of a batch gives no `onTimeoutReached`: after 300 polls it stops and
  says nothing (`GaveUp` of `Polling`).
- A poll that was answered before a cancel can show a batch as running once more,
  until the next poll.  A submission answered after its page was left starts a
  controller nobody disposes of (artwork-polling-controller.ts:300).

## 6. Proofs

TLC's instances are small; the theorems hold for every value of the constants.  Every
invariant and every action property a run checks is a theorem, and so are both
refinements; only liveness is left to TLC.  A theorem that needs an assumption on
`Faults` says so in its statement, and excludes only faults under which its proof
does not go through; section 7 names the two theorems that may hold under more.

**`PublicationProofs`**

| Theorem | Holds while |
|---|---|
| `TypeCorrect`, `OpenLeased`, `KeysExclusive` | always |
| `PublishedTruthful` (`PublishedIsTrue`) | always |
| `TargetsExclusive` (`NoOverlap`) | executors end before their leases |
| `PublishedStays` (`PublishedIsFinal`) | executors end before their leases and preparations commit on what they read |
| `Inductive`, `PublishedAtMostOnce`, `PublishedRemembered`, `Implements` | `Sound`: `lostStatus` and `lostTicket` are the only faults, and there are none if some account is on Instagram (pages have neither containers nor tickets) |

`AtMostOnce` alone is not inductive: whether a step may publish depends on what
other executors and the rows know.  `IndInv` adds that targets are disjoint
(`NoOverlap`), that a target is held through an open row with a live lease (`Held`),
that a target which is about to be called is not public or carries the container that
is (`TargetFresh`), and that the rows of an account agree with what it shows
(`AccountOK`).  The step lemma has one step per action.

`TargetsExclusive` needs less: that nobody has touched the numbers above `last[a]`
(`Vacant`), that a target is held (`Holds`), and that a plan which was read resumes only
rows nobody owns (`Reads`); together `HoldInv`.  Leases alone exclude, so the theorem
survives a preparation that commits on stale reads: that one can bring back an
account that is public, but not one that is being worked on.  `PublishedStays` adds
`OnlyOpenLeased`: rows that are closed carry no lease, so no executor holds one.
`PublishedTruthful` needs none of it: an executor writes PUBLISHED only after it was
told so (`ToldTrue`), and what was told stays true.

`Implements`: each action is a step of `PublishOnce` or changes nothing that can be seen;
`AccountOK` before and after a step makes what the rows come to say true.

**`SchedulerProofs`**: `TypeCorrect` for any faults, with `Shape` (who works on a version
works on one that exists); and, unless `slowCreate` is among the faults,
`OneExecution`, `ExecutionsAccounted` and `FinalIsFinal`.  The invariant ties the
worker in its processing steps to the row: either the row is its own (PROCESSING,
its version, its token) or the row was flagged; flagged rows are never acquired.
Under every fault, `OwnVersionOnly` (`VersionRespected`) and `RunsWhenDue`
(`RunsOnlyWhenDue`), from `Current`: no request, job or worker is ahead of the row
(`Bounded`), and a worker that took the job of the present version took it when it was
due (`Timely`).

`PendingIsFollowed` (`PendingHasJob`): with failing handlers, failing transactions and
one crash, an ENQUEUED schedule has the job of its version.  The invariant follows the
job through whoever has it: an active job has one worker that is busy with it, or was
left by the one crash and has not been found stalled yet (`Locked`); a request that is
about to remove or mark a job knows which one (`RequestFollows`), a worker that is about
to let its job go has seen that the schedule does not wait any more or will throw with
tries left (`WorkFollows`), and so the job of a schedule that waits is neither completed
nor failed (`Followed`).  The assumptions are what that needs: a second crash fails a job
that was found stalled once, a lost lock hands it to two workers, an acquisition that
throws completes it, and an overtaken create or boot scan writes ENQUEUED over a
schedule whose job is gone.

**`RendererProofs`**: `TypeCorrect`, `OfferedIsComplete` (`ReadyIffCompleted`),
`LeasedIffProcessing`, `EndsOnce`, `ExecutionsFenced`, `CancelIsKept` (`CancelHolds`) and
`Implements` (`RendersOnce`), for any number of renderers, reconcilers, attempts and
mishaps.  The invariant `Inv` adds to the checked ones that a job which may still
be given out has attempts left (`QueueInv`), and that whoever is about to finalise
has stored the object (`FinalizeStored`).  `RowChanges` says who may change the row;
two action properties follow from it.  `CancelIsKept` rests on `Kept`: once a job waits
after its batch was cancelled, whoever acquires it reads the request before it renders,
so it cancels or releases the row, as does the next one.  `Implements` adds `AskInv`: an
execution that goes to cancel its job has read the request, and requests are not taken
back.  Only the API's steps and the three that end a row (`CancelSelf`, `Finalize`,
`MarkFailed`) are steps of `RenderOnce`; `Unseen` says what all others have in common.

**`RenderBatchProofs`**: `TypeCorrect`, `EndsExactly` (`EndedExactly`) and
`CancelsWhatWasAsked` (`CancelledIfAsked`), for a batch of any size.  The five counts of a
transaction are made at five moments.  What saves them is that an item which ended
stays so, and that the rows a transaction wrote are locked until it commits (`LockInv`):
a count is never above the items that are so by now (`CountInv`).  Three counts that add
up to the batch are then exact, because the three sets they are below are disjoint.

**`BatchRequestsProofs`**: `TypeCorrect`, `OneAnswerPerKey` (`AnswersAgree`)
and `RepeatedIsAnswered` (`RepeatIsAnswered`), for any number of requests, keys, posts and
rows, whatever is imported, deleted or cancelled meanwhile.  The
unique indexes give one row per key (`OneRowPerKey`); the rest of `Inv` is what a row
remembers of its request (`RowInv`), what a handler has established by the statement it
has reached (`WorkOK`), and that the row it is about to answer with is that of its key
and what was asked for (`ServedOK`).

**`SocialAccountsProofs`**: `TypeCorrect`, `StateExchangedOnce` (`StateUsedOnce`),
`DiscoveryConsumedOnce` (`ConsumedOnce`), `TokensStayWithTheirClient` (`TokensBelong`) and
`ConsumedConnectIsReplayed` (`RetryIsReplayed`).  `StateInv`: a state is taken before it is
exchanged, and by one callback.  `ConnectInv`: what a connect knows of its discovery, and
that one which began after the consumption can only be replayed.  `ConsumptionInv`:
nothing comes of a discovery before it is consumed.  The Redis lock appears in none of
them: the unique index is enough.

**`ContentProofs`**: `ServedIntact` (`ReadyIsIntact`), `OfferedForGood` (`ReadyStays`) and
`PlacesCounted` (`UploadsCounted`).  The library needs that one upload at most has claimed
a row (`OneStores`), and what it knows of row and object (`Stored`): who stores, commits or
marks failed finds the row uploading, never ready.

**`PageProofs`**, of both modules of the client.  Of `Polling`: `PollingTypes`,
`PageIsFollowed` (`FollowsWhatIsShown`, unless `lateCancel`), `RunningIsAttended` (`Attended`)
and `CompletionToldOnce` (`ToldOnce`).  `ReqInv`: of the requests in flight one at most is
authorized, and it belongs to the present generation.  `ArtworkInv`: an artwork that is
followed is shown running, and meanwhile no form is sent.  `WindowInv`: the window of a
batch has a timer or a request, or has given up, or has told the end; that last case
is needed because a cancel may be answered CANCELLING afterwards.  Of `DesignTemplates`, with its
server: `TemplateTypes`, `DefaultsAreOnce` (`DefaultsNeverFail`), `ArchivedStays`
(`ArchiveHolds`) and, unless `leaveWhileSaving`, `SavedAfterShown`
(`SavedOnWhatWasShown`).  `ServerInv`: who is between two statements holds the lock its
statements took (`HandsOK`), and keys are unique (`KeyInv`).  `SaveInv`: a save in flight is
of the template that is shown, and the server works for it with the base that was
shown.  `ShownInv`: a draft stands on the version that is shown, and a conflict that was
loaded shows that version.  Leaving while a save is in flight breaks `SaveInv`, and
nothing else needs to be excluded.

The only other assumptions are the ones named in the modules, which TLC evaluates in
every run: finite or disjoint sets, bounds that are numbers, and `none` or `null` outside
the sets it is set against.

Only model-checked: liveness, which is out of the prover's reach (both `Settles`, `TakenUp`,
`CountsSettle`, `EndIsShown`).

## 7. Plan

Done: the modules of section 2, their runs, and the proofs of section 6.  Left, in
this order:

1. `PublishedAtMostOnce` for the pages of a client that has Instagram accounts too,
   under `lostStatus` and `lostTicket`; `PublishedRemembered` under `stalePrep`.
2. `ErrorPolicy`: which error classes are retried, from the adapter's parser to the
   worker's second classification.
3. The limit of reservations in `Content`.

## 8. Not modelled

- *Time zones* (`packages/contracts/src/timezone.ts`): a pure function of the time zone
  tables of the runtime.  Without them a model would say nothing of the gaps and
  folds that matter.
- *Cryptography* (`packages/db/src/crypto.ts`, `media-token.ts`): a credential decrypts
  or does not; a token is known or is not.
- *Accounts, sessions, clients, brands* (`apps/api/src/app.ts`, `auth.ts`): handlers of
  one transaction each, and sessions kept by a library.
- *CSV importer, artwork rendering*: functions without state.
- *The rest of the client* (`page.tsx`, `content-manager.tsx`, and the forms, lists and
  previews of the modelled pages): presentation of what the API answers.
- *Operations scripts*: backup, restore and drills run by hand.
