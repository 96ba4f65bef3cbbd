# TLA+ models of the gateway

The repository is an AI API gateway: it accepts requests in several vendor
protocols, picks an upstream account, forwards the request, and charges the
user. Several instances of the Go server share PostgreSQL (the truth) and Redis
(slots, snapshots, caches, locks). This directory holds TLA+ models of the parts
whose correctness depends on how those instances interleave and fail, the TLC
runs that check them on small instances, and proofs checked by TLAPS.

Run `tlc -config X.cfg M` for a row of the table of runs, `tlapm M.tla` for a
module of proofs. `PROJECT.json` lists components, runs, mutants, hazards,
theorems and the source lines behind every definition. All source paths below
are relative to `src/backend/internal/`.

## 1. Inventory

A request passes: API key authentication (cached) → content checks → a slot of
the user or key, with a bounded wait queue → billing eligibility (the key's
spending windows, cached) → account selection from a published snapshot,
with a slot of the account → the upstream, with failover to other accounts → a
usage record, written and charged by a worker pool. Beside it run the outbox
pollers, full rebuilds, token refresh, clean-ups, flushers and the
administrators' writes.

| Component | State | Operations | What makes it correct, what makes it hard | Module |
|---|---|---|---|---|
| Idempotency coordinator (`service/idempotency.go`, `repository/idempotency_repo.go`) | a row per key: status, lock, expiry, response | claim, reclaim, run, mark, renew, clean up | an operation runs once per key and its response is replayed; stale reads, leases, crashes, marks without an owner | `Idempotency` |
| Concurrency slots (`repository/concurrency_cache.go`, `service/concurrency_service.go`, `handler/gateway_helper.go`) | Redis sorted sets of slots and Live leases, wait counter, heartbeats | acquire, refresh, release, queue, hand over to Live, start-up clean-up | the limit holds over all instances, nothing leaks for ever; late calls, TTLs, restarts, disconnects | `ConcurrencySlots` |
| Scheduler outbox and snapshots (`service/scheduler_snapshot_service.go`, `repository/scheduler_outbox_repo.go`) | outbox rows with deduplication keys, watermark, bucket snapshots | write and enqueue, poll, rebuild, publish, delete | what requests choose from follows the database; commit order, deduplication, several pollers, failures | `SchedulerOutbox` |
| Bucket fencing and group lifecycle (`repository/scheduler_cache.go`, same service) | epoch, retirement mark, versions per bucket; lease per group | capture, allocate, activate, retire, reopen, decide | nothing old is published after a retirement, decisions apply in order; sleeping writers, leases | `SchedulerBucket`, `BucketContract` |
| Usage billing (`repository/usage_billing_repo.go`, `service/gateway_usage_billing.go`, `handler/grok_media.go`) | deduplication rows and their archive, balances, quotas, usage log; price and claim of a video job in Redis | charge, log, archive, claim, release | a request is charged once and logged as charged, a video can be billed again after a failure; lost answers, racing polls, two contexts | `UsageBilling` |
| Usage record pool (`service/usage_record_worker_pool.go`) | bounded queue, workers | submit, overflow, run, scale, stop | no charge is lost but by the configured policy; a full or stopped pool | `UsageBilling` |
| API key spending window (`service/billing_cache_service.go`, `repository/billing_cache.go`, `repository/api_key_repo.go`) | usage and start of a window, its copy in Redis, queue of cache writes | check, load, fill, charge, update, reset, invalidate, stop | a key is refused at its limit and admitted again; unconditional fills, asynchronous updates, a full queue | `KeyRateLimit` |
| OAuth refresh (`service/oauth_refresh_api.go`, `service/token_refresh_service.go`, `repository/account_repo.go`) | credentials, status and cooldown of an account, refresh lock | lock, re-read, refresh, persist, recover, mark; administrators refresh by hand, edit, authorise again (`handler/admin/account_handler.go`, `service/admin_account.go`) | the stored token stays usable, no refresher overwrites or quarantines a re-authorisation; a lock without an owner, administrators beside it, lost answers, stale errors | `OAuthRefresh`, `CredentialChain` |
| Auth cache and its outbox (`service/api_key_auth_cache_impl.go`, `service/auth_cache_invalidation_outbox.go`) | two cache levels, single flights, outbox rows with claims | look up, fill, claim, delete, publish, second pass | a revoked key stops working; late fillers, lost messages, leases, crashes | `AuthCache` |
| Balance, subscription and platform-quota checks (same service), quota flusher (`service/user_platform_quota_flusher.go`) | cached balances and usages, circuit breaker, dirty set | load, deduct, invalidate, flush | no request reaches them: section 6 | – |
| OAuth admission pacing (`service/openai_oauth_account_admission.go`) | next free time per account | reserve, defer, clear | requests keep their distance | planned |
| Failover loop (`handler/failover_loop.go`), selection (`service/gateway_scheduling.go`) | per request: tried accounts, counters; sticky bindings | select, retry, switch | the caps hold, a failed account is not chosen again | planned |

The other components (adapters, realtime and WebSocket transport, images,
plugins, moderation, pricing, generated code, frontend) are listed in
`PROJECT.json` with the reason why they are not modelled: they translate data or
do I/O. Administration is not a component of its own here: what it does to
modelled state is part of that state's module (an account's update, refresh by
hand and re-authorisation in `OAuthRefresh`, a key's changes in `AuthCache` and
`KeyRateLimit`, a group's in `SchedulerBucket`).

How the modelled parts meet: administrators, upstream answers and billing change
accounts and groups in PostgreSQL and enqueue outbox events; the pollers of
`SchedulerOutbox` rebuild bucket snapshots from them and, for group events, go
through the decisions of `SchedulerBucket`; requests are authenticated from the
caches of `AuthCache`, admitted by the window of `KeyRateLimit`, choose accounts
from the snapshots, compete for the slots of `ConcurrencySlots`, use or refresh
the credentials of `OAuthRefresh` and end as a record of `UsageBilling`, whose transaction is also the charge of the
window. Idempotency protects the administrators' writes.

## 2. Modules

Each action is one atomic step of the code: one database statement, one Lua
script or Redis command, or one in-process assignment. Everything between two
such steps may interleave with every other process.

**Idempotency.** A request is a process inside `Execute`; `req` holds its local
variables (the time captured on entry, the record it read). `CreateProcessing`,
`GetExisting`, `TryReclaim`, `MarkSucceeded` and `MarkFailedRetryable` are the
repository's statements, `Renew` a tick of the renewal goroutine, `CleanupOnce` a
round of the clean-up service. `...Fails` actions are calls that report an
error, committed or not. Rows are records; a payload is its fingerprint and a
response the request that produced it. `overrun` and `retaken` are history: the
keys on which an operation outlived its lease, and those whose row `TryReclaim`
took although it no longer was expired, because the statement compares the
status and the lock but not the expiry that was read.

**ConcurrencySlots.** One entity (account, user or key). `member` and `left` are
the sorted set with relative scores, so that time needs no bound; one `Tick` is
a heartbeat interval. `Acquire`, `TrackSlot`, `Refresh`, `IncrementWait` and
`AcquireLiveLease` are the Lua scripts; the wait queue, the heartbeat, release,
disconnect and Live hand-over are the Go code around them. `Abandon` lets a call
fail at the client while `Late` executes it any time later. `CleanSlots` is the
start-up clean-up: it removes every member of another process, whose holder may
be alive and then holds a slot it has lost (`lost`).

**SchedulerOutbox.** One bucket. `Change`/`Enqueue`/`Commit` are writers, with or
without a transaction around change and event; an id is drawn when the row is
inserted and becomes visible at the commit. `ReadWatermark`, `List`,
`GetAccount`, `SetAccount`, the rebuild actions and `SetWatermark` are a poll;
`Cleanup` deletes consumed rows after the grace period; `StartRebuild` is the
periodic full rebuild and `Miss` a request that finds no snapshot, reads the
database and publishes what it read. `team` is history: who has taken part so
far. It becomes everyone when an event could not be inserted or a rebuild found
the lock taken and was skipped; `Sole(team)` says that this has not happened and
that one autocommitting writer and one poller have been alone. `late` is history
too: the ids whose row became visible when the watermark or a poll was already
past them.

**SchedulerBucket.** One group with its buckets. The group's states are numbered
and active when even. `CaptureBucketWriteToken`, `AllocateSnapshotVersion`,
`ActivateSnapshotVersion`, `Retire` and `Reopen` are the Lua scripts;
`TryAcquireGroupLifecycleLease`, `ReadGroup` and `ReleaseGroupLifecycleLease`
are the lifecycle decision; `Poll` and `SetWatermark` frame it for a group
event, `Refresh` starts it from a full rebuild. `LoadAccounts` remembers the
epoch in which the accounts were read, for all buckets that share the query;
it may instead find the bucket's lock taken. The lock is not a variable: it
expires and fallbacks ignore it, so no property may rest on it.

**BucketContract** is what a reader of snapshots may rely on, without epochs,
tokens or leases: a closed bucket shows nothing, versions rise also across
retirements, and a bucket never returns to an earlier decision. `ContractKept`
is `SchedulerBucket` implementing it, with `open <- retired = 0` and
`shown <- active`.

**UsageBilling.** A task is one execution of `RecordUsage`: the end of an ordinary
request, or a poll of a video job, whose identifier all polls of the job share.
`CreateVideo`, `LoadPendingBilling` and `ClaimVideoBilling` are the handlers'
Redis steps; `SubmitUsageRecordTask`, `ExecuteTask`, `AutoScaleTick` and
`StopPool` are the pool. `InsertDedup`, `CompareDedup`, `CheckArchive` and
`ApplyEffects` are the statements of the charging transaction: an inserted row
that is not committed makes other insertions wait (`owner`). `WriteUsageLog` and
`ReleaseVideoBilling` follow, the latter under the task's own context, which
`ContextExpires` may have ended (`late`). `CleanupUsageBillingDedup` moves a row
to the archive at any time. A price stands for the cost and for the fingerprint
that contains it.

**OAuthRefresh.** One account, Grok or not. A credential document is a number in
the order of issue; `live` are those whose refresh token the provider accepts,
and `Refresh` exchanges one for the next. A refresher is the background service
of a process or a request; its `pc` walks through `RefreshIfNeeded`. `MayStore`
and `MayMark` are the conditions of the repository's conditional writes, which
exist for Grok only. Administrators (`Admins`) take neither the process's nor the
Redis lock. `GetAccount`, `RefreshSingleAccount`, `GetByID` and `StoreRefreshed`
are a refresh by hand, of one account or of each account of a batch; `EditAccount`
and `StoreEdited` an edit of other fields; `BeginApply`, `ApplyOAuthCredentials` and
`ClearAccountError` a new authorisation. All three go through `UpdateAccount`,
which reads the account and later writes the whole of it
(`repository/account_repo.go:1112-1122`), the status as it was read and, in an
edit, the credentials as they were read. `crossed` is history: an administrator's
refresh or edit has replaced a document it had not read, since the last
authorisation. `lock` keeps the
name of its setter for the model's sake; the code's lock has none, so
`ReleaseRefreshLock` deletes whoever's it is. `lost` and `unlocked` record that a
rotated document never reached the database, and that an attempt ran without the
lock (Redis failed, or the attempt outlived the TTL).

**CredentialChain** is what an account promises about its documents, without
locks, processes or a database: a usable document is replaced by a later one of
its authorisation, or its successor is lost and the account is left with a dead
one, or an administrator authorises again; a dead document comes back to life by
a new authorisation only. It is `broken`, and promises nothing until the next
authorisation, once an administrator's update has replaced a document unseen. `ChainKept` is `OAuthRefresh` implementing it for Grok
accounts, whose document is `Standing`: the provider's answer to whoever has
rotated the stored document and has still to store the new one, else the stored
document. An account of another kind maps to a chain that never moves: its
unconditional writes break the promise (section 3).

**AuthCache.** One key; its contents are a version number and the versions of
`Missing` are those in which it does not exist. `Lead`, `Join`, `ReadCaches`,
`Load`, `FillL1` and `StoreL2` are a lookup through the single flight of its
process; `Change` commits together with the outbox row that the database trigger
writes if the change is one of those it watches (`Tracked`: key, status, deletion,
owner, group, IP lists, expiry; migration 184), and without one if it is of quota,
rate limits, concurrency or name, or creates a key; a worker's pass is `Claim`, `ClearLocal`, `DeleteL2`, `Publish`,
`Acknowledge` or `Retry`, and the writer makes the same pass without a claim and
ignoring errors. `row[v].delay` stands for the safety delay of the second pass:
the lookups under way when it was scheduled, which the delay outlasts.

**KeyRateLimit.** One key and one of its three windows, the 5h one; a request
costs one unit. `db` is the row, `cache` its copy in Redis and `loaded` what a
request has read and has still to write. `CheckHit`, `CheckMiss` and `Fill` are
`checkAPIKeyRateLimits`, `CheckSimpleMode` the check that reads the database;
`Charge` is the billing transaction, `QueueUpdate`, `UpdateNow`, `Dequeue` and
`WorkerUpdate` the way of the charge to the copy, `InvalidateCharged` what simple
mode does instead. `ResetRateLimitWindows` and `InvalidateReset` are the goroutine
of a check that saw an expired window, `AdminReset` and `AdminInvalidate` the
administrator's. A start is its age, so that time needs no bound; a start that
was never set has the age `NoStart`. `current` and `short` of a copy are history:
whether its window is still that of the row, and whether a charge may have
escaped it by one of the causes the code accepts. A refused request is idle
again.

## 3. Runs

| Run | Instance | What it shows |
|---|---|---|
| idempotency_safety | 3 requests, one payload, no overruns; or 3 requests, one with another payload, overruns | one executor at a time; a retry after a finished call does not repeat its effect, and if two calls take effect it is by one of two known causes; a replayed response belongs to the same payload and took effect; no crash or failed mark blocks a key for ever |
| idempotency_once | 3 requests | *violated*: two duplicates can reclaim one expired row |
| slots_capacity | 2 processes, limit 1; 2 requests, a Live session and a late call, or 3 requests and one queue place | the limit holds; a released slot stays released; the queue exceeds its limit by no more than what the counter lost |
| slots_liveness | 2 processes, 2 requests, unlimited entity, a Live session, a late call | leaked slots are gone for ever after some time |
| outbox_delivery | a plain writer and a poller, 2 accounts, one failure; 2 pollers and a transactional writer; 2 transactional writers, 2 accounts, a poller and the full rebuild; a plain writer with a poller and the full rebuild, or with the full rebuild and a request that publishes what it read, one failure; 1 or 2 ids | a single poller that has caught up shows the database; the watermark passes, and the clean-up deletes, no unread row but those that became visible behind a poll; with the full rebuild the snapshot ends up equal to the database |
| outbox_grace | 2 transactional writers, a poller, 2 ids | *violated*: the row of a late commit is never consumed |
| bucket_lifecycle | 2 buckets with one query, poller and full rebuild, 3 group states, or 1 bucket, 2 slow writers, a poller, 2 group states | a writer that slept through a retirement publishes nothing; the contract is kept; the buckets end up as the group is |
| billing_once | 2 polls of one video and any 2 failures, or a poll, an ordinary request and any 1 failure; 1 queue place, 1 to 2 workers, policy "sample" | charged once; logged as charged; claims given back; mandatory records charged |
| billing_claim | 2 polls, failing database and task deadlines | *violated*: a failed billing keeps its claim |
| oauth_rotation | services of 2 processes with a slow request and 2 failures, or with an administrator who refreshes or authorises and 1 failure; 1 service with an administrator who also edits and 1 failure, or with two such; 3 documents | the stored token stays usable unless lost or edited back; no refresher replaces or quarantines a re-authorisation; one refresher at a time; the documents form a chain; refreshed in the end |
| auth_second_pass | 2 processes (one with a local cache), any 1 failure; 2 lookups and a worker, or a lookup and 2 workers, and the deletion of the key; or a lookup, a worker, its deletion, its creation and a change of its quota | a retired change leaves nothing old behind; no lookup joins an old flight; no cache keeps what is older than the last watched change |
| key_spending | 2 requests, limit 1, 1 queue place, 1 worker, both modes; failures, restarts and resets without bound | simple mode overruns a window by less than the requests in flight; no charge misses the copy but by an accepted cause; no key stays refused |

Where the table names several instances, the run has them all: the instance is chosen
in the initial state (`inst` of the MC module) and fixes which actors take part.

Three runs are violated, and are the findings of `PROJECT.json`:

- `idempotency_once`: a test of the repository says that concurrent requests with
  one key take effect once, and the run shows two that take effect after the
  first record has expired.
- `billing_claim`: a comment says that the claim of a video is cleared after a
  failed billing so that a later poll can retry it
  (`service/grok_media.go:520`). The billing runs on a detached context of 15 s,
  the release on the task's own of 5 or 10 s: after a billing that failed because
  it took long, the release fails as well and the claim stays for 48 h.
  `ClaimFreed` of `billing_once` is what remains true.
- `outbox_grace`: a comment says that the grace period of 10 s lets the row of a
  slow transaction, committed after the watermark has passed its id, be consumed
  before the clean-up deletes it (`repository/scheduler_outbox_repo.go:129-132`).
  A poll reads ids above the watermark only, so the row is never consumed,
  however long it is kept. `CleanupSparesUnread` and `NothingSkipped` say that
  such late rows are the only ones that are passed or deleted unread, and
  `ConvergesWithRebuild` that the full rebuild makes up for them.

The passing runs state their properties under the conditions in which the code
keeps them. Where the conditions are narrower than a comment of the code
suggests, changing the instance shows it:

- `QuietIsFresh` needs an autocommitting writer and a poller that have been
  alone (`Sole(team)`). With a transactional writer (the billing transaction,
  `repository/usage_billing_repo.go:561`) the event may be
  deduplicated into a row that is polled before the transaction commits, and the
  poller is quiet with an old snapshot.
- `QuietIsFresh` needs that no rebuild was skipped. A rebuild unlocks its bucket
  with the context of the event it serves
  (`service/scheduler_snapshot_service.go:971`); when that has expired the lock
  stays, and the retry of the batch finds it, skips the rebuild and moves the
  watermark.
- `RetrySuppressed` needs that no reclaim was outdated (`retaken`). A request that
  read an expired row reclaims it by id, status and lock
  (`repository/idempotency_repo.go:118`); if another request has claimed the row
  since and left it in the status that was read, the reclaim succeeds although
  the time to live runs again. `OnlyRetakenRepeats` says that this and an operation that outlives
  its lease are the only ways to two effects.
- `QueueBounded` counts in `under` what the counter lost, because a starting
  instance deletes the counter of living ones
  (`repository/concurrency_cache.go:1487`), and `CapacityRespected` leaves out
  streams that are drained after a disconnect, whose slot `wrapReleaseOnDone`
  has already released (`handler/gateway_helper.go:196`).

- `ReauthorizationKept`, `ErrorDeserved` and `ChainKept` are about Grok accounts. The writes
  for the others are unconditional (`service/oauth_refresh_api.go:353`,
  `repository/account_repo.go:1976`): a refresh that began before an
  administrator authorised the account again may replace the new credentials, or
  put the account in error, and only `CredentialUsable` holds of them.
- Administrators' updates are unconditional for every account. An edit that began
  before a rotation writes the rotated document back, with a refresh token the
  provider no longer accepts (`repository/account_repo.go:1117`):
  `CredentialUsable` holds until an edit has done so. An edit or a refresh by hand
  (`handler/admin/account_handler.go:1409`) that began before another
  administrator's authorisation overwrites it: `ReauthorizationKept` and
  `ChainKept` hold until such a crossing, and again from the next authorisation.
  The refresh by hand alone, whomever it races, does not make `CredentialUsable`
  false: of two that use one token only one gets a document to store.
- `SingleRefresh` is about the callers of `RefreshIfNeeded`, and needs Redis to
  answer and attempts to end within the TTL of the lock; a refresh by hand takes
  no lock and may run beside any of them. For the same reason the second half of
  `ErrorDeserved` (nobody is about to replace the dead token) speaks of refreshers
  only: when a refresh by hand has rotated the token and has still to store the
  answer, a refresher that is refused puts the account in error, and the account
  stays so if the update read its status after that. `CredentialUsable` does
  not need the lock: an attempt with a token that another one has rotated is
  refused by the provider, and stores nothing.
- `RetiredChangeIsClean` is about the shared cache. A process that lost its
  subscription keeps an old local entry until that expires; `CachesConverge`
  rests on the expiry of the local entries, and not on that of the shared one.
- Both speak of the changes that the trigger watches. After a change of quota,
  rate limits, concurrency or name, the writer's deletion of the shared entry is
  all there is (`service/api_key_auth_cache_impl.go:331-339`): if it fails, or a
  lookup that read the old row stores it later, the entry stays old until its TTL.
  In the instance `Recreated` such an entry is reached; the property without
  `Tracked` is violated there.
- `SpendBounded` is about simple mode. In standard mode the check fails open and
  the copy may be behind, so that a window can be overrun further;
  `NoChargeEscapes` says by which causes only: an update that failed in Redis, a
  process that died before its update, and a request that loaded the row before a
  charge and wrote the copy after that charge's update
  (`service/billing_cache_service.go:715`). `current` also leaves out a copy that
  survived the end of the row's window: it counts on by itself until it is
  evicted, expires or is invalidated.
- A load that began before an administrator's reset may write the old usage back
  after the reset has deleted the copy, although the deletion is there "so reset
  takes effect immediately" (`service/api_key_service.go:1075`). `AdmittedAgain`
  says that this ends: with the window of the old start at the latest.

`Converges` holds in all these cases of the outbox wherever the full rebuild runs: the periodic full rebuild
repairs what they leave, so the damage lasts for at most its period.
`LeakReclaimed` is checked on an unlimited entity, where a late acquisition is
always executed; it also holds of one process with `MaxConcurrency = 1`.

**Bounds.** Every bound is a constant whose comment says "bound". Two or three
requests suffice for the races of the idempotency coordinator (an owner, a stale
reader and a retry); a lease of one and a life of two ticks give time to expire,
reclaim and expire again within `MaxTime`. One slot and one queue place are at
their limit in the first step; time is relative. Two outbox ids allow every order
of draw, commit and poll of two writers, the late commit below the watermark
included, or an event and one deduplicated into it. Three group states retire, reopen and retire a bucket; three versions
are two competing writers and one in a later life. Two polls of a video are a
charge and its retry, in every stage of the row; one queue place is full with
one record. Three documents are the first, its rotation and a re-authorisation
(or two rotations, the second of a stale reader); two failures make the first
attempt lose its answer and the second its lock. With the same three documents an
administrator's update meets a rotation, another administrator's refresh and an
authorisation. In `auth_second_pass` three changes are one with a row and two
without; what is about several with a row is proved. The instance `Retries` of
`idempotency_safety` has no operation that outlives its lease, since
`ExclusiveExecution` and `RetrySuppressed` promise nothing of the others; the
instance `OtherPayload` has them, with a shorter clock. In `key_spending` the limit is
reached by the first charge and passed by the second, one cache write fills the
queue, and a window of two ticks can be new, running or over; usages from
`MaxUsage`, which is at least the limit and all requests in flight, are not told
apart. Deadlock is not checked where requests are finite in number or a clock is
bounded, so that the system rightly comes to rest; the outbox runs and `key_spending`
check it. Sizes: `slots_capacity` has 656 000 states up to the symmetry of processes and requests, `oauth_rotation` 484 000,
`outbox_delivery` 396 000, `auth_second_pass` 348 000.

**Fairness.** Only of what the runtime drives: started goroutines run on (`Serve`,
`Step`, `WorkerStep`, `RebuildStep`, `TaskStep`, `RefresherStep`, `LookupStep`,
`PassStep`), tickers fire (`Poll`, `StartRebuild`, `CleanupOnce`, `Start` of the
background refresh), a worker takes what is queued (`ExecuteTask`), time passes
(`Tick`), Redis and the local caches expire keys (`LockExpires`, `LeaseExpires`,
`L1Expires`) and a subscriber reconnects. It is weak, but for the claim of an
outbox row in `AuthCache`: some worker claims a row that is due again and again,
because `Claim` takes the oldest rows first and every worker polls. In
`bucket_lifecycle` the event of a change (`EnqueueGroupChanged`) is fair too. This is
more than the code guarantees: `repository/group_repo.go:439-441` only logs an
event that could not be inserted, and then nothing but the full rebuild brings the
buckets after the group. `FollowsGroup` is therefore about the changes whose event
was inserted; a lost event is in `SchedulerOutbox` (`EnqueueFails`), for accounts. `key_spending` assumes only
that time passes: no worker, reset or invalidation has to come for a key to be
admitted again. In the instance of `idempotency_safety` without overruns, time
passes once the operations whose lease ends have finished. Nothing is assumed of
arrivals, administrators, crashes and failures; failures are bounded in number.
`RefreshedEventually` leaves out behaviours in which requests hold the refresh
lock, or administrators write over the account, again and again.

## 4. Proofs

| Theorem | Statement | Assumptions on the constants |
|---|---|---|
| `IdempotencyProofs!TypeCorrect` | `Spec => []TypeOK` | `RequestAssumption`, `TimeAssumption` |
| `IdempotencyProofs!ExecutionIsExclusive` | `Spec => []ExclusiveExecution` | the same; in particular `ProcessingTimeout <= TTL` |
| `IdempotencyProofs!RetriesAreSuppressed` | `Spec => []RetrySuppressed` | the same |
| `IdempotencyProofs!RepeatsAreRetaken` | `Spec => []OnlyRetakenRepeats` | the same |
| `IdempotencyProofs!ReplaysAreFaithful` | `Spec => []ReplayFaithful` | the same |
| `ConcurrencySlotsProofs!TypeCorrect` | `Spec => []TypeOK` | `SlotAssumption` |
| `ConcurrencySlotsProofs!CapacityIsRespected` | `Spec => []CapacityRespected` | `SlotAssumption` |
| `ConcurrencySlotsProofs!QueueIsBounded` | `Spec => []QueueBounded` | `SlotAssumption` |
| `ConcurrencySlotsProofs!SlotStaysReleased` | `Spec => ReleasedStaysReleased` | `SlotAssumption` |
| `SchedulerOutboxProofs!TypeCorrect` | `Spec => []TypeOK` | `OutboxAssumption` |
| `SchedulerOutboxProofs!NothingIsSkipped` | `Spec => []NothingSkipped` | the same |
| `SchedulerOutboxProofs!CleanupIsSafe` | `Spec => CleanupSparesUnread` | the same |
| `SchedulerOutboxProofs!CaughtUpIsFresh` | `Spec => []QuietIsFresh` | the same |
| `SchedulerBucketProofs!TypeCorrect` | `Spec => []TypeOK` | `BucketAssumption` |
| `SchedulerBucketProofs!ShownIsYoung` | `Spec => []ShownIsOfThisLife` | `BucketAssumption`, `LeaseOutlivesWork` |
| `SchedulerBucketProofs!BucketsKeepContract` | `Spec => Contract!Spec` | the same |
| `UsageBillingProofs!TypeCorrect` | `Spec => []TypeOK` | `ConstantsAssumption` |
| `UsageBillingProofs!ChargesOnce` | `Spec => []ChargedOnce` | the same |
| `UsageBillingProofs!LogFaithful` | `Spec => []LogShowsCharge` | the same |
| `UsageBillingProofs!ClaimsFreed` | `Spec => []ClaimFreed` | the same |
| `OAuthRefreshProofs!TypeCorrect` | `Spec => []TypeOK` | `ConstantsAssumption` |
| `OAuthRefreshProofs!StaysUsable` | `Spec => []CredentialUsable` | the same |
| `OAuthRefreshProofs!KeepsReauthorization` | `Spec => []ReauthorizationKept` | the same |
| `OAuthRefreshProofs!ErrorIsDeserved` | `Spec => ErrorDeserved` | the same |
| `OAuthRefreshProofs!OneRefresher` | `Spec => []SingleRefresh` | the same |
| `OAuthRefreshProofs!KeepsChain` | `Spec => ChainKept` (`Chain!Spec`) | the same |
| `AuthCacheProofs!TypeCorrect` | `Spec => []TypeOK` | `ConstantsAssumption` |
| `AuthCacheProofs!RetiredClean` | `Spec => []RetiredChangeIsClean` | the same |
| `AuthCacheProofs!JoinsRecent` | `Spec => JoinsRecentFlight` | the same |
| `KeyRateLimitProofs!TypeCorrect` | `Spec => []TypeOK` | `ConstantsAssumption` |
| `KeyRateLimitProofs!SimpleModeBound` | `Spec => []SpendBounded` | the same; in particular `MaxUsage >= Limit + Cardinality(Requests)` |
| `KeyRateLimitProofs!NoneEscapes` | `Spec => []NoChargeEscapes` | the same |

*Exclusive execution* is not inductive: that nobody executes beside p says
nothing of a request that has read p's row in an earlier state and is about to
reclaim it. `Owns(p)` adds that p's row is still its own, processing, its lease
not over, and that every reclaim prepared from an expired read carries a time
before p's lock.

*Retries* need more than the owner: the row must outlive the effect. `Guards(p)`
says that the row of p is there, processing or succeeded, expires no earlier than
p last wrote, and that nobody else executes, so that every claim finds it in the
way; `GuardInv` states it of the effects that count and whose operation is over, `OrderInv` that an executing request claimed its key
last and after every earlier effect ran out, and `ClockInv` that no recorded time
is ahead of the clock and no expiry by more than a time to live. *Replays* need
`IdInv`, that ids are never used again and a request's id belongs to a row of its
fingerprint, and `BodyInv`, that a stored response is of a
request with the row's fingerprint that took effect.

*Outbox.* `TypeOK` is not inductive: `NumberInv` leaves every changed account an
id, `CopyInv` and `BatchInv` tie what a writer or a worker holds to its control
state. `NothingSkipped` speaks of the watermark alone, but any worker may set it
to its own mark at any later time: `CoveredInv` says the same of every mark, that
each committed row up to it has been read or was late when it became visible. No
assumption on the order of commits is needed: `Commit` is where a row can come to
lie below a mark, and `late` takes it in. The clean-up deletes rows up to a mark
only, so `CleanupIsSafe` follows. For `QuietIsFresh`, `Fresh(w, v, a, x)` says that a copy
v of account a is either the database's or owed: the writer has still to insert
the event, or a row of a lies above x. `ShownInv` states it of Redis above the
watermark; while a batch is handled it is stated above the end of the batch, of
what the worker has loaded (`LoadedInv`) and of what it has published
(`PublishedInv`). A step that clears a deduplication key happens before the
worker reads the account, which is why no change is swallowed.

*Capacity* needs that every holder that has not lost its lease has an unexpired
member in one of the two sets (`Held`); the limit on the sets, which the scripts
keep, then bounds the holders. *Queue* needs the exact balance `QueueCounted`
between the counter, the waiters and the counts lost.

*Buckets.* `FenceInv` says that a token is at most the epoch of its bucket and
less than it while the bucket is retired; `HoldInv` that the accounts were read
between the token and now. When activation finds token and epoch equal, the
read's epoch lies between equal numbers, which is `ShownIsOfThisLife`. For the
contract, `VersionInv` says that a version which can still be activated while
the bucket shows nothing is above all it has shown, and `OrderInv` with
`LeaseInv` that a decision about to be applied is at least as new as those that
were. `LeaseInv` is where `LeaseOutlivesWork` enters: the code allows 30 s for
the work and 2 s for the release (`scheduler_snapshot_service.go:28-30`) under a
lease of 60 s.

*Billing.* `Recorded` ties the deduplication row and the archive to the charge:
either, if there, says what was charged, and neither means nothing was.
`Exclusive` says that a transaction between its insertion and its end owns the
uncommitted row, and that once it has looked the archive up there is nothing
there. A second charge would need the effects of a transaction whose row and
archive are both absent while something is charged. `Confirmed` carries the
price of a billing that returned no error to the log.

*Rotation.* `PersistingFresh` says that a document about to be stored is live, of
the same authorisation as the one it replaces, and known to one actor alone,
refresher or administrator: nobody else can rotate it away before it is stored,
whether or not the lock excludes. An administrator's edit may write any document
back that it has read, which is why the invariant of `CredentialUsable` ends with
the first one that crosses another write; `crossed` is part of it. `RefusedIsDead`
carries a refusal to the moment the account is marked, and `LockExcludes` makes
sure that no other refresher is about to store the replacement. For
the chain, `SuccessorInv` says that a rotated document is dead and that nobody
else has rotated it, so that `Standing` is well defined; `Moves` sorts the steps
by what they do to the documents, and each kind is a step of the chain or leaves
it alone. The lock is not needed for it.

*Second pass.* A lookup that has read the database before a watched change may write the
shared cache after the first pass. `LateFillersDelay` says that such a lookup
finds the change's row still there and, after the first pass, is one of those
the row waits for; `SecondPass` that when the second pass deletes the entry
there is none left; `SharedClean` follows.

*Spending window.* `SpendBounded` counts the admitted requests together with the
usage: a check that admits sees a usage below the limit, so that the sum stays
below the limit and all requests, and a charge moves a request from one to the
other. It needs `SimpleReads`, that no request of simple mode is about to decide
on a row it loaded, and `UnsetIsEmpty`, that a window without a start shows no
usage, since the charge adds to it. `NoChargeEscapes` needs the same of the
loaded rows (`LoadedCovers`): a row that a request still has to write is the next
copy.

Attempts to prove have corrected the models. `RetrySuppressed` was false as first
stated: it needs four requests to show, one more than the run has, and the
exception `retaken` came from the case the proof could not close. The bound that
`TypeOK` of `SchedulerOutbox` put on the states of an account was false, since a
change whose event could not be inserted uses no id. `QuietIsFresh` was a
property of an instance, and is one of every behaviour since `team` says who has
taken part.

Only model-checked: the liveness properties (`KeyEventuallyFree`,
`LeakReclaimed`, `ConvergesWithRebuild`, `FollowsGroup`, `MandatoryCharged`,
`RefreshedEventually`, `CachesConverge`, `AdmittedAgain`), which need fairness
and ENABLED, out of the prover's reach. Every other property of a passing run is
a theorem.

## 5. Plan

1. The 1d and 7d windows of a key: the database truncates their start to the day,
   the script in Redis does not.
2. Composition of `SchedulerOutbox` with group events, so that
   `EnqueueGroupChanged` may fail and the full rebuild repairs it; sticky
   sessions and the failover loop on top of the snapshots.

## 6. Not modelled

In the modelled components: key normalisation and observe-only mode of the
coordinator; the active index scores, load queries and the joint acquisition of
three Live sets; bulk and last-used outbox events, lag thresholds and the
coalescing of rebuilds; damaged epoch values and historical buckets; cost
calculation, notifications and the holds of batch images, which nothing calls;
the cache of access tokens, the pacing of refresh attempts, the provider breaker
and permanent refusals other than invalid_grant; the import of accounts from another
gateway (`service/crs_sync_service.go`), which writes documents this gateway's
provider session did not issue; the fan-out of user and group changes to their keys; the requests-per-minute limit,
the charge without a request id, which never reaches the copy of a window, and
several processes that share it. Clock skew
between instances is not modelled: Redis scripts use Redis time, and the
coordinator's clock is shared. Durations are ratios of ticks, never seconds.

Balance, subscription and platform-quota checks run in `CheckBillingEligibility`
only for a caller without an API key, and every handler passes one;
`IncrementUserPlatformQuotaUsage`, the only writer of the flusher's dirty set, has
no caller outside the tests; and the circuit breaker hears of failures from those
checks alone. They are left out because no request reaches them.

The map covers a small share of the repository's lines. Most of them are
generated persistence code, adapters between vendor protocols, endpoints that
decode, validate and list, and their tests: data and I/O, without a protocol
between processes to check.
