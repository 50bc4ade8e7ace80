# hsync-server in TLA+

hsync-server is the server of HistorySync: clients encrypt browser history,
upload it in *bundles* and *snapshots*, and other devices of the same user
download them.  The server is a Go program over PostgreSQL (metadata, counters,
queues), S3-compatible storage (blobs) and Redis (sessions, caches, rate limits).
Several instances may run on one database.

Almost no operation is one transaction.  An upload is a sequence of statements
to two stores with hand-written roll-backs; background tasks (purge,
reconciliation, outbox, erasure) run against the same rows; retries and operator
actions are guarded by conditional updates.  The modules here model those
sequences call by call, with failing calls, lost replies and crashes between
them.

## 1. Inventory

| Component | State | Operations | What makes it correct |
|---|---|---|---|
| **Bundle sync** (`BundleService`, `pkg/service/service.go`) | `bundles` rows, blobs, `storage_usage`, Enterprise reservations | upload, download, list, delete | an acknowledged bundle stays downloadable; no orphan blobs; the tier limit holds |
| **Snapshot store** (`SnapshotService`) | `snapshots` rows, blobs, usage, reservations | upload with pruning, list, latest, download | a failed upload costs no restore point; no more than `MaxSnapshots` live ones |
| **Quota accounting** (`QuotaService`, `UsageRepository`) | counters, Redis copy | try-add, remove, recalculate one or all | counters cover what is stored; drift is corrected |
| **Retention purge** (`RetentionService`) | soft-deleted rows past the grace period | list a batch, delete blob, delete row | never a live row; no orphan blobs |
| **Blob storage** (`pkg/storage`) | keys | put, get, delete | external S3 contract |
| **Idempotent admin mutations** (`IdempotencyService`) | `idempotency_records` | claim, replay, reclaim, mark | at most one effect that is reported, one answer per key |
| **Notification outbox** (`NotificationService`) | `notification_outbox` | enqueue, claim due, deliver, mark, operator retry / requeue / discard | one run per row, bounded retries, no redelivery, the queue drains |
| **Scheduler** (`pkg/scheduler`) | advisory locks, run history | tick, try lock, run, unlock | one instance per task as long as the lock session lives |
| **Operational history retention** | archives of outbox, audit and ops rows | archive, delete | only settled rows leave |
| **Account deletion and erasure** | users, tokens, devices, `account_erasure_jobs` | delete account, run erasure jobs | every deleted account is erased in the end, exactly its data |
| **WebSocket hub** (`pkg/ws`) | clients per user, reserved slots, send buffers | upgrade, register, push, unregister | slot counts match connections, no send on a closed channel, a client that missed a push does not stay |
| **Sessions** (`AuthService`) | users, refresh tokens, reset and verification tokens | register, login, refresh, log out, reset, verify | a reset ends the sessions of the old password |
| **Two-factor, passkeys** | secrets, backup codes, locks, challenges, credentials | set up, enable, disable, verify, step up, register a key | single use of codes and challenges, bounded guessing, protection goes off for a code only |
| **Devices, device tokens** | `devices`, `device_revocations` | request token, revoke | the device limit, recorded revocations |
| **Rate limiting** (`pkg/middleware`) | windows in Redis or memory | allow, sweep | counts hold per window |
| **Migrations** (`pkg/migrate`) | schema, `schema_migrations` | up, down, status, drift | the tracking table is true |
| **Ops checks, preflight, rehearsal** | restore manifest, probe objects, reports | dependency and consistency check, baseline, verify, doctor, rehearsal | an ok is true; what the doctor clears starts |
| **Settings, audit, web, observability** | configuration, reports, logs | reads, appends, formatting | little control of their own |

How they interact: the HTTP handlers call the services in the request's
goroutine, and any number of requests run at once, on one or several instances.
The stores share the `storage_usage` row of a user with each other, with the
reconciliation and with account deletion.  The scheduler starts the background
tasks at their ticks, each under a PostgreSQL advisory lock held on a session of
its own; operators reach the same rows through the admin API, whose mutations go
through the idempotency service.  Uploads, deletes and revocations push to the
hub after they have committed; quota thresholds that are crossed enqueue
notifications.

What is hard to test here, and where each case bites, is the list `hazards` of
`PROJECT.json`: roll-backs whose own calls fail, a delete or a prune that meets an
upload between its row and its blob, a count read before an upload and used after
it, a reconciliation that overwrites a concurrent reservation, a deletion that
stops half-way or is crossed by an upload, locks that run out under the mutation
they guard, marks keyed by id alone, rows that stay claimed
after a crash, checks made before an insert or an update and not repeated with
it, scripts and their records in separate statements.

## 2. Modules

| Module | Models | Kind |
|---|---|---|
| `BundleStore` | bundle uploads and deletes, purge, reconciliation | component (composes rows, blobs, counters, reservations) |
| `SnapshotStore` | snapshot uploads, pruning, purge | component |
| `AtMostOnce` | what an idempotency key promises | abstract specification |
| `Idempotency` | `ExecuteIdempotent` over its records | component, implements `AtMostOnce` |
| `NotificationOutbox` | outbox rows, workers under the scheduler lock, operators, archiving | component (composes outbox, scheduler, retention) |
| `AccountErasure` | account deletion, the writes that cross it, purge and erasure jobs | component (composes accounts, rows, blobs, jobs, scheduler) |
| `PushHub` | handshakes, slots, the hub's loop, pumps, pushes | component |
| `Sessions` | password, sessions and mailed tokens of a user | component |
| `SecondFactor` | second factor and backup codes of a user | component |
| `Passkeys` | passkeys and their challenges | component |
| `Devices` | device tokens and revocation | component |
| `QuotaAlerts` | usage cache and quota notifications | component |
| `RateLimit` | the limiter of one key on several processes | component |
| `Migrations` | migrate commands and the drift check | component |
| `OpsChecks` | operators' checks beside writers | component |
| `Deployment` | configuration, start, doctor, rehearsal, readiness | component |
| `BundleStoreProofs`, `SnapshotStoreProofs`, `IdempotencyProofs`, `NotificationOutboxProofs`, `AccountErasureProofs`, `PushHubProofs`, `SessionsProofs` | theorems about one component each | proofs |
| `PartsProofs` | theorems about the other components of `MCParts` | proofs |
| `MCBundleStore`, `MCSnapshotStore`, `MCIdempotency`, `MCNotificationOutbox`, `MCAccountErasure`, `MCPushHub` | finite instances | model checking |
| `MCParts` | the nine components from `Sessions` to `Deployment` side by side | model checking |

`PROJECT.json` maps every definition to the lines it translates.  A definition
introduced by a comment "Mutant: ..." is a plausible bug in the definition that
follows it; the mutated system violates the property named in `PROJECT.json`, so
none of the properties holds for lack of behaviours.

### How calls are modelled

A service method is a program counter; each call to the database or the blob
store is one action.  A call in `Failing` may report an error and do nothing; a
call in `Lost` may take effect and report an error all the same (a timeout, a
broken connection); with `Crashes` the process may stop before any call, and its
roll-backs, deferred releases included, do not happen.  An SQL statement is
atomic, with one exception below.  Where the code ignores or only logs an error
of a roll-back, the model goes on.

### BundleStore

`row[k]` is the life of the row with primary key (user, bundle): absent, live,
soft-deleted, soft-deleted beyond the grace period.  `up[r]` is a running
`UploadBundle`.  `CheckExists` stands for the three reads that may refuse an
upload: the id is taken, for whichever user has it (`ExistsByID` does not look at
the user), the device is unknown, the tier cannot be read.  `guard` says whether
the Enterprise hook tracks the upload; a tracked upload skips the CE counter, as
in the code.  The two roll-backs differ and both are modelled: after a failed
`Put` the row is hard-deleted and the usage given back, after a failed settlement
the row is soft-deleted and the blob deleted.

The purge is a task of the scheduler, on one instance as long as its advisory lock
lives.  `purge[p]` is a run of it; with `LockLoss` a run may lose its lock and go on,
and a second one starts.  `contested` is a history variable: the keys that two runs
had listed at the same time (section 4).

`RecalcRead` and `RecalcWrite` are the exception to atomic statements: the
recalculating upsert takes its sums from the snapshot of the statement and writes
a user's row after it has waited for the lock on it, so a concurrent upload may
commit in between.  `Expire` stands for the passing of the grace period and
assumes that no request lasts that long (30 days by default).

`Sum` is a constant operator, characterised by `SumAssumption`: what SQL's SUM
does when one addend changes, and that larger addends do not give a smaller sum.
TLC evaluates the assumption on the instance.  It holds of the sums over finite
sets, so the theorems that use it are about any finite number of charges.

### SnapshotStore

One user; users share nothing here.  `rows` is the table and `later` relates a row
to those with a later `created_at`, which decides what `PruneOldest` keeps: the rows
with fewer than `MaxSnapshots` later ones.  `count` is the number of live snapshots read at
the start of an upload, which decides after the `Put` whether it prunes.  `marks`
is the history the properties refer to: `fault` (a stop, a lost reply, a roll-back
that failed), `undone` (an upload taken back although its pruning had been
committed), `overlap` (two uploads under way at once), `hook` (an upload accounted
for by a reservation).  A settlement that is refused is no fault.  The purge is one run
at a time here; `BundleStore` has the second one.

### Idempotency

A record is identified by scope and key hash, a fingerprint stands for the
payload.  A response is identified with the request that computed it.
`locked_until` is null, in the future or in the past, and `LockElapses` moves it
on.  With `ShortLocks = FALSE` a lock does not pass while its request is running:
the default is 30 seconds and the guarded mutations are a few statements, but
nothing in the code enforces it, so `ShortLocks = TRUE` is checked as well.
Claims that end in a conflict or in "still processing" change no state.

### NotificationOutbox

`due` holds the pending rows whose `next_retry_at` has passed, in that order, the
order `ClaimDue` takes them in.  A run (`items`) is what a worker or an operator
has claimed and not yet marked.  `deliverOutboxItem` may be acknowledged, refused,
or be a success that sends nothing because the user has opted out.  `Interrupt`
is a shutdown, a failing mark or a crash; the second disjunct of `ClaimDue` is a
claim whose answer is lost.  `LoseLock` is the advisory lock's session breaking
while the task runs on, after which another instance may start the task.

### AccountErasure

`del[a]` is the next statement of a running `DeleteAccount`.  The job is inserted
first, then sessions, devices and second factors go, then rows are soft-deleted,
the bytes of each kind given back if any row of it was live, the job's summary
written, and the user deleted last; any of these calls may fail with or without effect,
which ends the request and leaves the rest undone.  `rec` is the state of what else an account
has, one entry per group of tables; `row` and `blob` are as in `BundleStore`, with
keys private to an account.  `req` holds client requests that have passed their
checks and not yet written, so that a deletion may run in between.  A login has the
shape of a device registration and is left out.

`PassGrace` lets the grace period of a deletion pass.  `eligible_at` and the expiry
of the rows soft-deleted by the request are one moment, and no request lasts that
long.  (With a grace period of zero, which the configuration accepts, the test of
`account_erasure.go:115` would refuse every job; that setting is not modelled.)

A worker is an instance inside the retention task: it takes the lock, purges what
has expired, lists a batch of jobs and runs them one by one through the stages of
`completeErasureJob`.  `stray` is a history variable: the blobs whose row was
removed by a roll-back after the object had been stored, or by a run of the purge that
had deleted an older object of the same key (the purge deletes the blob, then the
row, in two calls; another run, or an upload, may come between).  `Fault` is the one
budget for errors, lost replies, crashes and lost locks, bounded by `MaxFaults`.

### PushHub

A connection goes through the stages of `ServeHTTP`; `loop` is the message the
hub's goroutine has received and not yet handled, because a sender on an
unbuffered channel goes on as soon as it is received: `StartPumps` may come
before `Register`.  `drops` counts the goroutines a push has started to unregister
a slow client.  A name of a connection is used again (`Collect`) once no goroutine
refers to it.  `panicked` would be a send on, or a close of, a closed channel.

### Sessions, SecondFactor, Passkeys, Devices

One user each; users share nothing here.  A request is a program counter with what
it has read, one SQL statement per step, and may end between any two (`Abandon`,
`Drop`).  In `Sessions` a password is *current* or *stale*, for tokens, challenges
and the requests that carry one, so that any number of resets can follow each
other.  In `SecondFactor` the columns of the row are kept and a code is right or
wrong; one backup code stands for the ten of a set.  Each request there has a history
of two bits: whether a code of its own was found right (`valid`), and whether it
found the factor off when it read the row (`early`).  In `Passkeys` the webauthn
library is a signature that is right or wrong; `crossed` marks registrations that
had passed their check when another was stored.  The handlers check what the
modules show they check and no more: the step-up token of a route is a fact about
the caller.

### QuotaAlerts

The effect of uploads, deletes, pruning and recalculation on the usage counter,
and the order in which they write it, delete the cached copy, read through the
cache and compare with the thresholds.  `RecalculateAllUsage` of the periodic
reconciliation writes the counter, leaves the cached copy and tells nobody.  `untold` records what may cost a
notification; the property says that nothing else does.

### RateLimit

Time is the number of the window.  A request reads the clock first and is counted
later, in Redis or in the process's memory.  `excused` records the limiters and
windows that lost count by a fault or a late request.

### Migrations

Each version is two statements: `command[r].pc` is *script* or *record*.  Scripts
are transactions; `Repeatable` versions run again without an error.  Releases embed
the versions up to their own.  `plan` is the set of versions a command has yet to go
through, the smallest first for an up and the greatest first for a down (`Current`).
`doubt` holds the versions at which a command ended
between its statements, `mixed` says that an up ran beside a down.

### OpsChecks, Deployment

`OpsChecks` has the checks call by call, with the rows in the order they are listed
in (`later` relates a row to the younger ones), the limits, the truncation flags and the bound on findings, beside uploads,
deletes, the purge and losses.  `faults` holds what has been wrong ever since the
check began: what came and went may be missed.  `Deployment` gives every setting
the classes its checks tell apart, evaluates the validation of the start, the
doctor and the rehearsal on it, and compares with the readiness of the server that
then runs.  A bucket is missing, present or *large*: too large to be listed within the
3 s of the readiness check, which goes through all pages, while the doctor's probe
asks for one object.  Services answer or refuse at once; a slow one that eats up the
deadline of the next is not modelled.  `BlindSpots` are the causes of a
failed start the doctor does not look at.

## 3. Runs

| Run | Bounds | Distinct states | Shows |
|---|---|---|---|
| `bundle_faults` | 1 bundle, 3 uploads, 1 delete, 2 purge runs that may lose their lock, batch 1; hook; all faults | 169,389 | acknowledged bundles stay stored, orphan blobs have one cause, unless two purge runs met |
| `bundle_quota` | 2 users, 2 bundles, 2 uploads, 1 delete; limit 2 for sizes 1 and 2 | 546,791 | counters cover what is stored, the limit is not oversold |
| `bundle_drift` | 1 user, 2 bundles, 1 upload, 1 delete, all faults, reconciliation, fairness | 144,935 | the counters come back to the rows |
| `bundle_oversell_delete` | as `bundle_quota`, 1 user, deletes of running uploads | violation | finding 1 |
| `idempotency_safety` | 2 keys, 2 payloads, 3 requests, failing marks, crashes, fairness | 42,289 | one answer, one run, no effect after an answer, the abstract contract, retries get through |
| `idempotency_short_lock` | 1 key, 2 requests, locks that pass early | violation | finding 2 |
| `snapshot_runs` | 4 snapshots, 2 uploads, keep 2, limit 5, with and without a reservation, all faults | 2,137,337 | restore points, number of snapshots, counters |
| `snapshot_restore_points` | 3 snapshots, 2 uploads, keep 1 | violation | finding 3 |
| `outbox_runs` | 2 rows, 2 workers, 2 operators, 2 attempts, batch 1, operator batch 2, interruptions, fairness | 280,577 | exclusive claims, bounded retries, no redelivery, settled rows, the queue drains |
| `erasure_runs` | 2 accounts, 1 bundle each, 1 client request, 2 workers, batch 1, 1 fault, fairness | 381,349 | one run per job, true certificates, half-deleted accounts are spared, erasure completes |
| `push_hub` | 2 users, 2 connections, caps 2 and 1, channels of 1, fairness | 92,878 | slots are accounted for, no panic, slow clients leave |
| `parts` | see below | 2,055,955 | eleven properties of nine components |

**`parts`.**  `MCParts` holds nine components that share no variable; its initial
state picks the one that moves, so that TLC explores each of them whole in one run.
Where one depends on another, it allows whatever the other could tell it (a login
with or without a second factor, a doctor that meets any state of the tracking
table).  2 requests at a time everywhere; 1 token of each kind; 2 backup codes, a
lock after 2 failures; 2 challenges and keys; 3 devices with a limit of 1;
2 rows, limits 1 and 3, 1 finding, 1 move of others per check; 2 releases, of which
version 1 is repeatable and version 2 watched; 2 settings or surroundings that
differ from the working ones; 2 processes, windows and slots, limit 1, 3 requests;
a quota of 2 bytes with thresholds of 50 and 100 per cent.

| Property | Says |
|---|---|
| `ResetEndsSessions` | sessions opened with a replaced password live only while a reset is under way or has stopped half way |
| `GuessesBounded` | wrong codes stop at the lock, up to one per request that had read the row before |
| `OnlyCodeDisables` | protection goes off by a request whose own code was found right, or which found it off when it read the row |
| `UsedOnce` | a backup code opens one login, a challenge carries one ceremony |
| `FurtherKeysTakeStepUp` | a further passkey takes a step-up unless two registrations overlapped |
| `DevicesAccounted` | the limit is exceeded by overlapping requests only; revocations are recorded unless cut short |
| `UserIsTold` | the last notification agrees with the usage, short of overlapping writes and faults |
| `CountsHold` | a limiter admits at most its limit per window and refuses only after it |
| `TrackingTrue` | tracked versions are an initial segment, rows and objects agree, a clean inspection is right |
| `OkIsTrue` | a report of ok misses nothing that was wrong throughout |
| `ClearedStarts` | after a clearance a start fails for a blind spot only, and a server that runs is ready short of maintenance and a large bucket |

**Why the bounds are enough to meet the interesting cases.**  In
`bundle_faults` everything happens to one id, because the rows and blobs of two ids
meet in the counter only: an upload that is acknowledged, one that fails and one that
comes after a delete and the purge, with a second purge run on the same list.  In
`bundle_quota` two uploads on two bundles meet on one counter and at the limit, beside
a delete.  With a limit of two and sizes one and two, each
bundle fits and both do not.  Two users who may choose the same id are needed for
`ExistsByID`, and only in `bundle_quota`.  Three snapshots with two kept let
pruning happen; a fourth lets two overlapping uploads read the count before a full
tier's last place is taken, and exceed the tier.  The constraint `Explored` of
`MCSnapshotStore` lets uploads overlap only without hook, faults and purge, and only
these get to the fourth snapshot: of the properties only `SnapshotLimit` says anything
about overlapping uploads, and it excludes faults.  Three requests on a key are a runner, a
reclaimer and a reader of the result.  In the outbox, `MaxAttempts` 2 allows one
automatic retry, and `AttemptBound` 3 one operator retry beyond it: it is a bound
of the model only, the code lets an operator retry for ever.  A batch of one makes
the second row wait, so an unfair order would starve it.  In `erasure_runs` one
fault anywhere is one way to leave a deletion or a job half done, or to put two
workers on the same list; the crossing client request is no fault.  The first account
to be deleted is taken to be `a1` (the constraint `FirstDeletedFirst`), which the
symmetry of accounts allows.  The three safety properties were also explored with two
faults (5.3 million states).  The batch of
one lets a job that always fails hold up another.  In `parts`, every check that is
not repeated with its insert or update is overtaken by the second request; a limit
of one is exceeded by it; one finding fills the report; the second release knows a
version the first does not; two edits are a wrong setting and one that hides it.
`QuotaAlerts` was also explored with a quota of 4, thresholds of 50 and 75 per cent
and sizes 1 and 2 (12.4 million states).  In `OpsChecks` only bundles exist: both
kinds go through the same code, and snapshots double the state without meeting
bundles.  In `push_hub` a channel of one is full after one push, and two goroutines
may wait to unregister the same client beside its read pump.

`outbox_runs` and `erasure_runs` switch deadlock checking off: once every row is
archived or stranded, or every account erased, nothing is left to do.  The other
runs check it.

**Conditions under which the quota invariants hold.**  `bundle_quota` excludes what
would break them, and each exclusion is a fact about the code:
reconciliation (its write may overwrite a reservation made after its read; the
comment at `repository.go:1437` concedes a missed upload until the next tick);
deletes of uploads under way (finding 1); a purge that loses its lock (section 4), which
may remove the row of an upload; a `Create` or `HardDelete` whose reply
and effect disagree (the upload gives back the bytes of a row that stays live).
They can make the counter too small for a while, and `bundle_drift` shows that the
reconciliation repairs it.

**Fairness.**  Weak fairness of the steps of a request that has started: its
goroutine runs, or crashes, which is an action of its own.  Weak fairness of the
reconciliation, of `ProcessOutbox` and of the retention task by some instance: the scheduler's ticker
fires as long as an instance is up.  Weak fairness of the passing of locks,
backoffs and grace periods: time passes.  In `Idempotency` a client retries its key: the property is
about such clients.  No client is obliged to start a request, and no operator to
act.  In `PushHub` goroutines run (weak fairness), and a sender on a channel of the
hub is received in the end (strong fairness: Go serves waiting senders in order,
and `select` picks among ready cases at random).  Nobody is obliged to read from a
connection, and no push to come.

## 4. Findings

1. **A delete during an upload gives bytes back twice** (`service.go:1228`, run
   `bundle_oversell_delete`).  The row is visible before the `Put`.  A delete
   soft-deletes it and gives the bytes back; the `Put` fails; the upload removes
   the row and gives them back again.  The counter is now below what is stored,
   and a later upload passes the check that `service.go:1181` calls "the single
   authoritative, race-safe check".
2. **A mutation that outlives the lock runs twice** (`repository/idempotency.go:113`,
   run `idempotency_short_lock`).  A retry reclaims the record after 30 seconds
   while the first request is executing, and either overwrites the other's
   outcome, because the marks compare nothing but the id.
3. **Concurrent snapshot uploads can prune every restore point**
   (`service.go:1393`, run `snapshot_restore_points`).  `PruneOldest` keeps the
   newest *rows*.  An upload that has finished its `Put` prunes the stored
   snapshots, its own included, in favour of the row of another upload whose `Put`
   may still fail, although `service.go:1348` says that "a failed upload never
   reduces the user's restore points".

Met on the way, without a run of their own.  For snapshots: a settlement that is
refused after the pruning also reduces the restore points, against the same comment
(`service.go:1348`), with no concurrency at all: the new snapshot is taken back, the one
pruned for it stays pruned (the mark "undone").  `RestorePointsKept` shows that it costs
one restore point however often it happens; with `MaxSnapshots` 1 that is the last one.
Overlapping uploads read the same count and exceed `MaxSnapshots` by as many as there
are beside the first; the next upload that prunes corrects it (`SnapshotLimit`).

For the purge: once the advisory lock is lost (`scheduler.go:92`), two runs may list the
same expired row.  The first deletes blob and row, the client uploads the id again and
is answered 201, and the second run, with its older list, deletes the new blob and the
new row: `HardDelete` (`repository.go:807`) does not ask whether the row is still
expired.  TLC finds it in 17 steps when `AckedIsStored` is stated without `contested`.

Elsewhere: `MarkFailed` of the idempotency repository clears the lock, so
that a failed mutation may be retried at once; rows of an interrupted outbox run
stay in `processing` for ever, although `docs/ce-operator-playbook.md:495`
describes that status as "currently claimed by a worker" (`Stranded`, the
exception in `QueueDrains`); and the branch of `retryClaimedOutboxItem` that marks
a row for another automatic retry is dead, because a failed row has used up its
attempts already.

In account deletion: the job is inserted first and a partial unique index admits
one open job per user, so that any later statement that fails leaves an active user
whose deletion can neither be repeated (`Create` is refused) nor completed (the job
fails with "user is not soft-deleted" at every run).  An upload that passed its
checks before the deletion may insert its row after `SoftDeleteAllByUser`; that row
is live in a deleted account, is never purged, and the job fails on it for ever.  (A
device registered in the same way stays active until the account is erased.)  Both are `Stuck`, the
exemption of `ErasureCompletes`, and because failed jobs are listed again, oldest
first, fifty of them hold up all later ones.  A job whose worker died stays in
`running` (`Stranded`).  A `MarkCompleted` whose reply is lost is followed by
`MarkFailed`, which reopens the finished job; the repetition is harmless.
Erasure counts rows, not objects, although `docs/account-deletion.md:30` speaks of
"metadata/blob objects": a blob left behind by a failed `Put` survives a completed
certificate (`stray` in `CertificateIsTrue`), and so does one of an id uploaded again
while two runs of the purge were at it.

In the other components each property names the gaps that the code leaves, so that
the model shows there is no further one:

- *Sessions.*  A reset whose last statement fails leaves the old sessions open
  behind a spent token.  A login that had presented the old password, or a login
  challenge issued for it, opens a session after the reset.  Two resets with one
  token may both set a password.  A registration whose provisioning fails leaves a
  user without limits, whose address is taken.
- *SecondFactor.*  `Setup` may overwrite an enabling that came between its read and
  its upsert and so switch protection off (`two_factor.go:121` and `:161`; this is what
  `early` in `OnlyCodeDisables` stands for, and without it TLC finds the race in 12
  steps).  A disable whose code was checked against an earlier enrolment switches off a
  later one.  `Enable` may enable a secret that a second `Setup` has replaced.
- *Passkeys.*  Two registrations that overlap both pass as the first one.
  `UpdateCredentialAfterUse` does not notice that the credential is gone.
- *Devices.*  The limit may be exceeded by requests at the same time.  A revocation
  that fails to be recorded is never made known: a retry gets "already revoked".
  Revoking does not close the device's connections.
- *QuotaAlerts.*  Two uploads that overlap may both read the usage after both, and
  neither sees the threshold crossed.  Pruning and recalculation tell nobody, and `RecalculateAllUsage`
  (`repository.go:1472`) leaves the cached copy to its expiry, as the comment at
  `repository.go:1172` concedes: for up to 30 seconds an upload compares with the old
  usage.
- *RateLimit.*  A request that is late resets a newer bucket of the memory limiter,
  or counts again in an expired key of Redis.
- *Migrations.*  There is no lock.  A crash in `Down` between script and record
  leaves a version recorded without its schema, which `Up` skips; only the drift
  check finds it, and only for versions its requirements name.  A crash after an
  `Up` script that cannot be repeated makes every later `Up` fail.
- *OpsChecks.*  A row inserted between the count and the listing hides the oldest
  row of the sample and is not reported as truncation.  A truncated manifest skips
  the search for orphans.
- *Deployment.*  The doctor does not look at everything a start may fail on
  (`BlindSpots`); the rehearsal creates a missing bucket before the doctor looks
  for it.  The readiness check lists the whole bucket within 3 s (`handler.go:519`,
  `:563`, `s3.go:133`), the doctor asks for one object (`ce.go:373`): with a large bucket
  a deployment is cleared, starts and never becomes ready, and nobody warns of it.

## 5. Proofs

TLAPS proves these for every number of users, bundles, requests, keys, workers
and notifications, connections and every choice of failing calls, from the `ASSUME`s of the
component modules, which TLC evaluates on every run.

**BundleStoreProofs** (`TypeCorrect`, `AckedStored`, `OrphansExplained`,
`UsageCovered`, `QuotaHolds`).
`AckedIsStored` alone is not inductive: nothing in it says that the roll-back of
an upload spares a bundle acknowledged to another one.  `IInv` adds that an upload
between its `Create` and its return owns its row (`OwnedRow`) and shares it with
nobody (`OneOwner`), that it settles only what is stored (`StoredWhenSettling`),
that it undoes a row only after a `Put` reported an error (`FailedWhenUndoing`),
that no upload owns an acknowledged row (`AckedIsReleased`), and that what a purge run
has listed is expired, is on no other run's list, and loses its row only when its blob
is gone (`ListedIsExpired`); all of it for the keys outside `contested`, with any number
of purge runs.  Ownership rests on the primary key: `Create` succeeds for
one upload.

The two quota theorems are stated under `QuotaConditions`, the exclusions of
`bundle_quota` described in section 3; every other failure, lost reply and crash is
allowed, with any number of users, uploads and deletes and any limit.  `QuotaInv`
adds that the owner of a row has a live row (`OwnedIsLive`), that one purge run at a
time has rows listed, since the conditions include a lock that is kept (`OneRun`), that the counter never
passes the limit (`WithinLimit`) and `UsageCoversStored` itself, which is inductive
once each action is seen as a change of at most one charge: a byte moves from an
upload to its row, from the row to a delete, and from there off the counter.
`QuotaNotOversold` follows from the two, because the live rows are charged.

**SnapshotStoreProofs** (`TypeCorrect`, `LimitKept`, `RestorePointLeft`,
`FailedUploadsKeepPoints`, `UsageCovered`), for any number of snapshots
and any tier.  `LimitKept` is about any number of overlapping uploads.  `LimitInv` counts
the live rows, without those of uploads that have yet to prune, together with the uploads
that will add one and, by the count they read, not prune: these are at most the tier's
number and, once uploads have overlapped, one more for each upload beside the first
(`Bounded`).  The last three assume
`OneUpload`, a client that sends one snapshot at a time; finding 3 shows that the
assumption is needed.  `RestoreInv` says that an
upload's row is the newest (`HeldRow`), so that its own pruning spares it, that its
blob is there from the `Put` on (`HeldBlob`), and that there is a restore point
which no upload under way may take back (`SafePoint`): it holds through crashes,
lost replies and the purge.  `CountInv` follows the number of rows in a behaviour
without faults: the count an upload read is right to the moment of its pruning
(`Counted`), and between uploads the rows are no more than the tier allows and no
fewer than were acknowledged, up to it, less the one that a settlement refused after a
pruning costs (`Level`, `Cost`).

**IdempotencyProofs** (`TypeCorrect`, `AnswersAgree`, `RunsExclude`,
`NoSecondEffect`, `Refinement`), all under `~ShortLocks`; finding 2 shows that the
assumption is needed.  `IInv` says that a running request's record is in
processing, locked, and has its fingerprint (`RunnerHoldsLock`), that there is one
such request per key (`OneRunner`), and that an answer given out is the stored
response of a succeeded record (`AnswerIsStored`).  `Refinement` maps the phase of
a key to done when its record has succeeded, busy when a request runs under it,
open otherwise, and shows that each step is a step of `AtMostOnce` or a stutter.

**NotificationOutboxProofs** (`TypeCorrect`, `ClaimsExclude`, `RetriesStop`,
`NoRedelivery`, `SettledForGood`).  `IInv` adds to the types and to
`ClaimsAreExclusive`: the queue holds each pending row once and no other
(`QueuedOnce`), an operator's request has a row (`OperatorHasRow`), a row whose
delivery was acknowledged is in the hands of the run that made it or will never
be claimed again (`AckedIsOver`), and the deliveries made are bounded by the
attempts counted plus the one under way (`TurnsByAttempts`).  None of it uses the
scheduler's lock: the exclusion rests on the claiming statements, so a lost lock
does no harm.

**AccountErasureProofs** (`TypeCorrect`, `OneRun`, `CertificateHolds`,
`ActiveSpared`), for any number of accounts, items, requests, workers and faults.
A certificate is true only because nothing writes to the account any more, so `IInv`
says that an account past its grace period has no deletion under way and, once its
user is gone, no request either (`Settled`); what the stages behind a worker have
established about its account (`Progress`), which other workers do not undo; that the
account of a completed job stays empty (`Certified`); and that a blob without a row
is one lost track of (`Tracked`).  `OneRunPerJob` is inductive with the types: the
conditional update of `MarkRunning` hands a job to one worker, whatever became of
the lock.

**PushHubProofs** (`TypeCorrect`, `NoPanic`, `SlotsHold`), for every number of users
and connections and every pair of caps, zero included.  `NeverPanics` needs
`ChannelsOpen`: a registered client, and one the hub is about to register, has an
open channel, and a connection the hub has not received yet is neither registered
nor closed; so each connection is registered once.  `SlotsAccounted` follows from
it: a step adds a connection to the handshakes that hold a slot, takes one out, or
changes neither the set nor the owners (`SlotTaken`, `SlotGiven`, `SlotsKept`, on
cardinalities of finite sets).

**SessionsProofs** (`TypeCorrect`, `ResetEnds`), for every number of requests and
tokens.  `ResetEndsSessions` is inductive with the types: only `UpdatePassword`
outdates a session and puts its request into the reset, a reset leaves it by
revoking everything or as unfinished, and every other step is `Harmless`.

**PartsProofs** (`DevicesCounted`, `GuessesStop`, `CodeDisables`, `OneUseEach`,
`StepUpForMore`, `LimitKept`, `NotificationsTrue`, `ClearanceHolds`, `TrackingHolds`,
`OkHolds`).  A step of `MCParts` is a step of one part and leaves the variables of
the others alone (`PartStep`), so every part has an inductive invariant of its own:

- *Devices.*  `Room`: the active devices and the requests that have found room are
  together fewer than the limit and the requests there are.  Each request that looks
  adds one to the left side only if the devices alone were below the limit.
- *SecondFactor.*  `GuessLimit`: without a lock the counter of the row knows of every
  guess, under a lock only requests that had read the row before add one.
  `FreshCodes`: an unused code was not accepted before.  `Entitled`: a request about to
  disable has presented a right code, and a setup about to overwrite the row found the
  factor off.
- *Passkeys.*  `Carried`: a challenge is stored, or with one request, or spent.
  `Elevated`: past its check, a registration beside an existing passkey has a step-up
  or was crossed.
- *RateLimit.*  `Tallied`: the requests made equal the count the limiter would go on
  from, unless it is excused; `Within` and `Refused` follow step by step.
- *QuotaAlerts.*  `OneWriter` as long as nothing is excused, `CacheFresh`: the cached
  copy is out of date only before the `Del` of the writer, and `ToldSoFar`: at each
  place of an upload, delete or recalculation, about which usage the user has been
  told (`Owes`).  It needs that the percentage is monotone in the bytes
  (`MoreIsNotLess`).
- *Deployment.*  `Clearance`: the doctor would give it again.  `FailedFor`: the
  reasons of a failed start are still there.  The two meet in the blind spots.
- *Migrations.*  While no up ran beside a down: the rows are an initial segment, an up
  has planned or found everything below its versions (`UpsFollow`), a down has planned
  everything above (`DownsLead`), a script that has run has had its effect
  (`Scripted`), and rows and objects agree outside the versions in doubt or between
  their statements (`RowsAgree`).
- *OpsChecks.*  `Examined`: what a check that has found nothing has ruled out by the
  place it has reached, table by table and row by row (`ObjectsSeen`, `OrphansSeen`,
  `RowsSeen`), given that its count is no smaller than the table unless a row came in
  (`TableCounted`).  Faults only shrink while a check runs, which is what makes it
  inductive.

`PartsAssumption` is what they need of the constants: finitely many requests at a
time for the two bounds that count them; numbers where the code has numbers; at least
one failure before a lock and one finding in a report (constants of the code); a positive quota, since
`usagePercent` and the events it decides are switched off without one, and an exhausted threshold of 1 to 100,
which `config.go:489` enforces.  The bounds that only keep the run finite
(`MaxMoves`, `MaxEdits`, `MaxArrivals`, `LastWindow`) are arbitrary in the theorems.

**Only model-checked.**  The liveness properties `DriftCorrected`,
`RetryGetsThrough`, `QueueDrains`, `ErasureCompletes` and `SlowClientLeaves`: liveness
under fairness is out of this prover's reach.  The violations of section 4, which are
counterexamples.  Every invariant and action property of the passing runs is stated by
a theorem, where needed under the conditions named above, which the runs satisfy too.

## 6. Left out, and the plan

Not modelled: encryption, hashing, JSON and e-mail formatting, HTTP parsing,
metrics; int64 overflow of byte counts (sizes are bounded by the upload limit);
the support bundle and the ops overview, which gather reports; the audit log and
the security views, which append and query; the key-value settings an
administrator edits, which are read at use; the web console, the load test and the
provider interfaces, which hold no state of the server.  The archives of audit and
ops rows delete by age and are as simple.  The purge takes expired rows in any
order; the code takes the oldest hundred, and rows whose blob cannot be deleted
stay at the head (a hazard without a property).  Two runs of the snapshot purge at once,
which is the code `BundleStore` and `AccountErasure` check with two; services that are
slow rather than down; what the provider behind the Enterprise hook does with a
reservation (`ReleaseStorage` reports nothing to the server).

Planned, in order:

1. **Proofs**: the types of every part of `MCParts` as theorems of their own (the
   invariants of `PartsProofs` contain what they use of them); the quota theorem with
   the hook, whose reservations would have to be charged as well.
2. **Compositions**: an operator's outbox retry behind the idempotency service;
   bundles and snapshots on one usage row.
3. **Purge order**, with its liveness.
