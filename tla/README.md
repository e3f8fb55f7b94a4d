# HarborWorks: a TLA+ verification project

HarborWorks (`src/repo`) is a Go web service on PostgreSQL: bookings of shared
resources, group buys, and around them accounts, documents, webhooks,
analytics, backups and background jobs. This directory models its core logic,
checks it with TLC on small instances and proves the most important properties
with TLAPS for every size of the system.

## 1. Inventory

The program is one process. Every HTTP request is a goroutine; every background
job is one goroutine that runs its function at start-up and then on each tick
(`internal/infrastructure/jobs/runner.go`). All durable state is in PostgreSQL;
goroutines share it and (except for the cache) nothing else. What is atomic is
therefore a single SQL statement, or a transaction where the code opens one;
everything between two statements interleaves.

| Component | State | Operations | What must be right |
|---|---|---|---|
| Group buys (`service/groupbuy.go`, `repository/groupbuy.go`) | `group_buys` (status, capacity, remaining_slots, version), `group_buy_participants` | Create, Join (optimistic lock, 3 attempts), SweepExpired (job, 1 min) | no oversell; remaining_slots agrees with the participants; status agrees with the seats; a closed campaign stays closed; every due campaign is closed |
| Bookings (`service/booking.go`, `repository/booking.go`, `domain/state.go`) | `bookings` | Create (lead time, daily cap, overlap, capacity, waitlist), Transition (state machine, cutoff, promotion) | cap per day, no double booking, seats per slot, legal moves |
| Idempotency keys (`api/middleware/idempotency.go`, `repository/idempotency.go`) | `idempotency_keys` | Reserve, Complete, ReleasePending around any write handler | at most one effect, one answer per key, no stuck key without a failure |
| Resources (`service/resource.go`, `repository/resource.go`) | `resources` | list, availability grid, remaining seats | the grid agrees with the bookings |
| Authentication (`service/auth.go`, `repository/{user,session,captcha}.go`) | `users`, `sessions`, `captcha_challenges` | Register, Login, ResolveSession, ChangePassword, Logout, captcha | lockout after 5 failures, a captcha is used once, sessions end after 30 min idle or 12 h |
| Governance (`service/governance.go`, `repository/governance.go`) | `deletion_requests`, consents, dictionary | request and cancel deletion, executor (job, 5 min), CSV import | a canceled request deletes nothing; a due one is executed; import is all or nothing |
| Webhooks (`service/webhook.go`, `repository/webhook.go`) | `webhooks`, `webhook_deliveries` | Create, Disable, Emit, delivery cycle (job, 5 s) | at most 5 attempts, then dead; every delivery ends |
| Documents (`service/document.go`, `repository/document.go`) | `documents`, `document_revisions` | find or create, append revision | one document per subject; consecutive revisions; one current |
| Analytics (`service/analytics.go`, `repository/analytics.go`) | events, hourly counts, alerts | track, aggregate (1 min), detect anomalies (5 min) | hourly counts equal the events |
| Backups (`service/backup.go`) | files and their index | full (7 d), incremental (24 h), restore plan | the chain restores every committed row |
| Cache (`infrastructure/cache/cache.go`, `api/middleware/cache.go`) | in-memory map with a 60 s TTL | Get, Set, Purge, gc | an answer is served only to those it was made for |
| Group reservations (`handlers/group.go`) | `group_reservations` | Create, Get, List (cached) | the organizer is masked for everyone but the organizer and admins |
| Notifications, to-dos | their tables | single-statement CRUD | - |
| Job runner (`infrastructure/jobs/runner.go`) | goroutines | run at start, then per tick | every job keeps running after errors |

How they interact: the booking and group-buy handlers run inside the idempotency
middleware; the group-buy sweep and Join write notifications; deleting an account
(a job) cascades into bookings, participants and notifications and sets
`group_buys.organizer_id` to NULL; bookings read seat sums from the resource
repository. Hard behaviours: decisions on rows read earlier (the sweep, booking
creation, transitions, lockout, the deletion executor), retries (Join, webhooks,
idempotent clients), crashes between two statements, and jobs that must catch up.
`PROJECT.json` lists each hazard with the line where it bites.

## 2. Modules

| Module | Models | Kind |
|---|---|---|
| `GroupBuy` | group buys, their sweep, the effect of account deletion | specification, safety and liveness |
| `GroupBuyProofs` | theorems about `GroupBuy` | TLAPS |
| `Booking`, `MCBooking` | booking creation and transitions | specification; its instance for TLC |
| `BookingProofs` | theorems about `Booking` | TLAPS |
| `Idempotency` | the middleware, around any handler | specification |
| `IdempotencyProofs` | theorems about `Idempotency` | TLAPS |
| `Auth`, `MCAuth` | registration, login with captcha and lockout, change of password | specification; its instance |
| `AuthProofs` | theorems about `Auth` | TLAPS |
| `Account` | sessions, deletion requests, the deletion executor, analytics events of a user | specification, safety and liveness; composes authentication, governance and analytics |
| `AccountProofs` | theorems about `Account` | TLAPS |
| `Webhook`, `MCWebhook` | fan-out, queue and delivery cycle | specification, safety and liveness; its instance |
| `WebhookProofs` | theorems about `Webhook` | TLAPS |
| `RevisionLog` | what the document store promises: append-only logs | abstract specification |
| `Document` | find-or-create, the append transaction, readers | specification, implements `RevisionLog` |
| `DocumentProofs` | theorems about `Document`, the refinement included | TLAPS |
| `Backup`, `MCBackup` | full and incremental backups, the restore plan | specification; its instance |
| `BackupProofs` | theorems about `Backup` | TLAPS |
| `Cache` | the response cache in front of the list of group reservations | specification |

Each module also defines, in a section of its own, plausible faults of its
operators (an off-by-one, a forgotten condition). No specification uses them;
putting one in the place of the operator it imitates makes TLC report the
property that watches over it, which shows that the property has content.

### GroupBuy

`row` is the table, `quantity` the participants' seats, `req` the local state of
each Join goroutine, `sweep` the sweep's list with the target it computed per
row, `tell` the notification it is about to write. JoinAtomic's SELECT
(`JoinRead`) and its UPDATE + INSERT + COMMIT (`JoinCommit`, `JoinRejected`,
`JoinLosesRace`) are separate steps: under READ COMMITTED the row lock is held
from the UPDATE to the COMMIT, and the SELECT takes none. `SweepList` and
`SweepRow` are separate for the same reason; the order of the rows is left open,
as SQL leaves it. `JoinAbort` is a canceled request at any point, `SweepRowError`
a failed update the loop skips, `Crash` the loss of all goroutines.
`DeleteUser` is the cascade of `HardDelete`; when it happens is left open here.
Time is only "the deadline has passed or not", since no other instant is compared.

### Booking

Each statement of Create and Transition is an action (`CreateCount`,
`CreateOverlap`, `CreateSum`, `CreateInsert`, `TransitionStart`,
`TransitionBusy`, `TransitionUpdate`). There is no transaction in this code, so
the documented rules hold exactly only while requests do not overlap. The history
variable `peak` records the most requests that were ever in flight together; each
property is exact at `peak = 1` and says how far it can be overshot otherwise:
the daily cap by `peak - 1`, overlap up to `peak` bookings at one time, seats up
to `peak` times the capacity.

### Idempotency

A slot is a (user, key) pair. `Reserve` is the INSERT ... ON CONFLICT, `Lookup`
the SELECT that follows a conflict, `Complete` and `ReleasePending` the other two
statements. The handler commits an effect or not, returns some answer, or panics
before or after its commit. `ReserveError` covers the INSERT that commits although
the caller sees an error. `StatementError` and `Crash` are the failures behind
the middleware's durability contract. `TTLPasses` only ages the row: no code
reads `expires_at`. The error page sent after a panic is not an answer of the
handler and is not counted in `replies`.

### Auth

`account` is the table of users; an account is a spelling of a user name and
`Name` folds its case, because lookups compare `LOWER(username)` while the table's
UNIQUE constraint compares spellings. `req` holds what a request remembers of the
one row it has read: Login decides on that copy from its first statement to its last.
Actions are its statements: `LoginRead` (the SELECT, lock and captcha gates),
`CaptchaRead` and `CaptchaConsume` (`verifyCaptcha`), then either `LoginFails`
(count and lock in one UPDATE) or `LoginResets` and `LoginOpensSession`.
`LoginChallenged` is the handler that answers with a fresh captcha.
`StatementError` follows the code: a failed count or reset is logged and the login
goes on, any other error ends it. `Restart` includes the seeding of the admin
(`seedDemoUsers`, which seeds two more accounts the same way, is left out).
`guesses`, `admits`, `overtaken` and `raced` are history. The properties are exact
for requests one at a time and say how far overlap can stretch them: `LockInTime`
and `CaptchaGate` by one guess per further request, `LockHolds` by logins that had
read the row before the lock was written.

### Account

A request resolves its session in three statements (`ResolveGet`, `ResolveCheck`,
`ResolveTouch`), and then its handler runs one statement, by which time the
session, or the account, may be gone. The deletion executor lists the due requests
once and then handles its entries in two statements each (`AnonymiseUserEvents`,
`HardDelete`); the cascade of the second takes sessions and deletion requests with
it. These two tables reference users and refuse a row for an account that is gone
(`References`); analytics events carry only a hash and are accepted. `DependentsGone`
is about these three tables and no other: `idempotency_keys` and
`notification_deliveries` hold a user id without a foreign key, so their rows outlive
the user (and a request in flight may add one), and `group_reservations` keeps the
organizer's name and email (finding 6); bookings, documents, notifications and the
rest go by cascades that are not modelled here. `withdrawn`
marks, as history, a request that was canceled while the executor had not yet
listed it; `late` marks an event that came after the executor had detached the
user's events.

### Webhook

`queue` orders the pending deliveries by `next_attempt_at`; `wait` is the time left
until then. `Emit` lists the hooks and then inserts one delivery at a time; it has
no caller in the repository and is modelled as a call that may come at any time.
The cycle dequeues at most `Limit` due deliveries and attempts each in three steps:
reading the hook and validating its target again, the POST, the UPDATE. The receiver
accepts, refuses, or no answer arrives (whether it processed the POST is not known).
`posts` counts the POSTs, `acked` holds the deliveries answered with 2xx, `unrecorded`
counts the attempts whose UPDATE failed or never came.

### Document and RevisionLog

Finding the document, creating it and appending to it are separate; the append is
one transaction that holds the row's lock from its SELECT ... FOR UPDATE
(`AppendLock`) to its COMMIT (`AppendCommit`), where its writes appear. Readers take
no lock and read the row, the revisions and the bytes in separate statements.
`Implements` maps a document to the sequence of its revisions' contents up to
`current_revision` and to the set of superseded numbers, and states that this is a
behaviour of `RevisionLog`, whose only step appends a content and supersedes all
that precede it. Deleting an account (`HardDelete`) removes its documents with their
revisions; that cascade is in no module, so `Implements` and `ReaderSeesChain` are
about documents whose owner stays. In the code a reader between its two SELECTs may
then return a document with `current_revision` n and no revisions at all.

### Backup

A backup fixes `taken_at`, dumps table after table, and enters the index; two may
run at once. Services stamp `updated_at` before their statement commits, which
`BeginWrite` and `CommitWrite` keep apart. `Restored` applies a plan the way the
files suggest (the newest file that holds a row wins); the repository names
`ApplyRestore` in a comment and does not contain it. `RestoreComplete` excludes,
explicitly, rows committed after a backup whose time their `updated_at` precedes
(`late`), and tables whose dump failed. It says nothing of deleted rows: incremental
files do not record deletions, so a restore brings rows back that were deleted after
the full backup. Every reading of the clock is an instant of its own. In the code file
names have a resolution of one second, so two backups of one kind within a second write
the same file; that collision does not occur in the model.

### Cache

An entry is the set of groups whose organizer it shows in full. The middleware's
Get (two critical sections), the handler and Set are separate steps of a request.

## 3. Runs

| Run | Shows | Distinct states |
|---|---|---|
| `groupbuy` | types, `NoOversell`, `SeatsAccounted`, `StatusHonest`, `NoticesTruthful`, `FailedIsFinal`, and under fairness `SweepSettles` | 514,518 |
| `groupbuy_sweep_race` | finding: an expired campaign can hold seats | - |
| `booking` | types, `DailyCap`, `NoDoubleBooking`, `SlotCapacity`, `LegalMoves` | 3,177,480 |
| `booking_race` | finding: two concurrent creations overfill a slot | - |
| `idempotency` | types, `AtMostOnce`, `SameAnswer`, `NoOrphan`, `AnswerKept` | 443,592 |
| `idempotency_ttl` | finding: a stuck key stays stuck after its TTL | - |
| `auth` | types, `OneAccountPerName`, `CaptchaOnce`, `LockInTime`, `CaptchaGate`, `LockHolds` | 1.2 million |
| `account` | types, `AcceptedInTime`, `DependentsGone`, `EndedSessionsStayEnded`, `DeletedOnRequest`, and under fairness `DeletionCompletes` | 1.36 million |
| `webhook` | types, `AttemptsBounded`, `OutcomeTrue`, `FinalStays`, and under fairness `EveryDeliveryEnds` | 275,000 |
| `document` | types, the refinement `Implements`, `ReaderSeesChain`, `OneDocumentPerKey` | 375,000 |
| `backup` | types, `RestoreComplete` | 1.69 million |
| `cache_pii` | finding: the cache serves unmasked organizers | - |

**Bounds.** `groupbuy`: one campaign of capacity 3 (campaigns share only users, and
the proofs cover any number), two users, two concurrent joins of one or two seats,
so that the last seats are contended; thresholds 2 and the default 3; two attempts,
so that a retry and an exhausted retry both occur; one fault. `booking`: three
bookings, two users, two requests, one seat; windows on two days, two of which
overlap and two of which share a day; a cap of one; the clock moves far enough for
the lead time to refuse one window and for the cutoff to begin. Rows, requests and
users are symmetric. The seat arithmetic with larger parties is in `booking_race`.
`idempotency`: one slot (slots are independent), three requests, so that a retry
can meet both an owner and a replay; two bodies, two answers, two panics, two faults.
`auth`: two spellings of one name, two requests, one captcha, a lock after two
failures and a captcha after one, so that every order of two overlapping logins
around a lock occurs; requests are symmetric. `account`: one user, one session, two
requests, two deletion requests (one canceled, one not), one event, an inactivity
window shorter than the lifetime, a clock that passes both. `webhook`: two hooks with
different filters, two deliveries, a cycle that takes one at a time, three attempts
(two faults instead of one also pass). `document`: two keys, three documents, two
generators, three revisions, one reader. `backup`: one table with `updated_at` and
one without, two backups at once, three in the index (a clock of six also passes).
`cache_pii`: an organizer, an admin, another user and an anonymous viewer.
`MaxFaults`, `MaxPanics` and `MaxTime` bound only how often something external
happens; the remaining `Max...` constants bound counters.

**Deadlock** is checked in every passing run whose cfg does not say otherwise. A
group-buy system really may stop: once all campaigns are closed and all users deleted there is nothing to do.

**Fairness**: weak fairness of the steps of three jobs: the sweep (`groupbuy`), the
deletion executor (`account`) and the delivery cycle (`webhook`). The runner calls a
job at start-up and on every tick and goes on after errors (`runner.go:51-73`), and
each job's loop runs to its end; a POST is bounded by the client's timeout.
`webhook` also assumes that time passes, since a backoff ends no other way. Clients,
faults and account deletion are never forced. The number of faults is bounded,
which is the usual "if faults stop": a database that fails for ever settles nothing.

### Findings

1. `groupbuy_sweep_race`. `SweepExpired` promises that "a non-finalized terminal
   group buy holds zero pre-allocated seats" always holds. Trace: a join reads the
   row before the deadline; the deadline passes; the sweep lists the row with no
   participants and decides "expired"; the join commits; the sweep's unconditional
   UPDATE marks the row expired with a seat still taken. The failed path is safe:
   it is conditional and bumps the version (`FailedIsFinal`).
2. `booking_race`. "Strict per-slot capacity is enforced" fails for two requests
   that both read the seat sum before either inserts.
3. `idempotency_ttl`. The middleware's contract bounds a stuck key by "the 24h
   TTL"; nothing ever reads `expires_at` and `DeleteExpired` has no caller.
4. `cache_pii`. The handler of `GET /api/groups` masks organizers for each viewer,
   and the middleware stores its answer under the path and query alone. Trace: an
   organizer lists the groups; the answer, with the organizer's name and email, is
   stored; another viewer's request hits it. Comments in `handlers/group.go` promise
   that the shared list is masked.
5. Exceptions that the passing properties state, each against a comment
   (`PROJECT.json` quotes them): an event recorded between the executor's two
   statements keeps the hash of a deleted user (`DependentsGone`, `late`); two
   overlapping generations create two documents of one subject (`OneDocumentPerKey`,
   `raced`); a reader may get a `current_revision` older than the list beside it
   (`ReaderSeesChain`);
   two overlapping transitions of one booking may bring it back from `canceled` or
   `completed` (`LegalMoves` holds while requests do not overlap); a backup that skips
   a table is indexed as successful, a row committed late is in no incremental file,
   and restores bring deleted rows back (`RestoreComplete`).
6. From reading: two comments say that one DELETE removes all personal data.
   `idempotency_keys` and `notification_deliveries` have no foreign key to users, so
   stored answers and delivery logs of a deleted account stay, and a request let in
   before the deletion still adds a key; `group_reservations` loses its
   `organizer_id` and keeps the organizer's name and email. No module
   has these tables beside accounts.
7. From reading: hourly aggregation is called "Idempotent." and adds its counts
   again on every run.

What the models show without contradicting a comment: a deletion request canceled
after the executor has listed it is still executed; two spellings of one name can be
registered at the same moment; a slow failed login can shorten a lock, because it
writes a time computed from its own start, and a correct login older than a lock
lifts it; a failed read of a webhook gives its delivery up with attempts left; a
disabled hook still receives what was queued before.

**What the properties excuse.** A property that holds only up to a race says so in
its formula, and the hazards in `PROJECT.json` say in a note what stays uncovered: `LegalMoves` (requests that overlap), `NoOrphan` (failed statements),
`LockHolds` (`overtaken`), `OneAccountPerName` and `OneDocumentPerKey` (`raced`),
`DeletedOnRequest` (`withdrawn` does not count cancels that come after the list was
read), `FinalStays` and `EveryDeliveryEnds` (`failed` is an end),
`DependentsGone` and `RestoreComplete` (`late`, and tables left out). These passing
runs do not show that the excused behaviour is harmless.

Also met while reading: the comment at `service/booking.go:241` says that
check-ins are blocked inside the cutoff window; the condition below it (line 247)
does not name `checked_in`, and the model follows the code.

## 4. Proofs

`GroupBuyProofs` holds for any sets of campaigns, users and requests, any
capacities, thresholds, quantities, retry and fault bounds
(`ConstantsAssumption`: parameters are numbers, retries and the default threshold
are positive, `None` is neither a user nor a campaign).
`TypeCorrect` is inductive by itself because the UPDATE's WHERE clause keeps
`remaining_slots` natural. The other invariants need `IInv`, whose parts are
- `SeatsInv`: seats held plus seats remaining against the capacity, as a
  cardinality, with equality as long as nobody was deleted;
- `StatusInv`: open is below, met and finalized at or above the threshold;
- `ListInv`: what the sweep's stale list still implies about the row: it is live
  (only the sweep closes rows), and a row listed as finalized is still at its
  threshold, because seats remaining only go down while a row is live;
- `NoticeInv`: what a pending or written notice says of the row;
- `FenceInv`: the version a join has read is not above the row's, and is strictly
  below it once the row has failed. This is the fence that makes
  `FailedForever` an action theorem.

From it follow `Oversell`, `Accounting`, `HonestStatus`, `TruthfulNotices` and
`FailedForever`. `SeatsAdded` and `SeatsDropped` are the lemmas about the
cardinality of the set of seats.

`IdempotencyProofs` holds for any sets of slots, requests, bodies and answers. Its
`IInv` says that a slot has at most one owner and the row is that owner's pending
reservation (`OwnerInv`), what may have happened under a slot by the row's status
(`RowInv`) and by the owner's progress (`ProgressInv`), and that without faults
every reservation has an owner (`OrphanInv`). `EffectAtMostOnce`, `OneAnswer`,
`OwnedInFlight` and `AnswerForever` follow. The reason it works: only an owner
settles a slot, and a slot is free only when its row is absent, which happens
again only after a panic.

`DocumentProofs` holds for any sets of keys, documents, generators and readers and
any number of revisions. The append holds the row's lock from its SELECT to its
COMMIT, so the number it computed is still one above the last revision when it
commits; together with the fact that committed revisions are numbered from 1 without
a gap and that a document's superseded numbers are exactly those below its current one,
this is inductive. `Refinement` proves `Spec => Implements`: initial states map to
initial states of `RevisionLog`, the commit of an append to its one step, and
everything else to a stutter. `ReadersSeeChains` needs what a reader between two
statements knows: what it read is a prefix of what is there. `UniqueDocument` follows
from the document a generator found or created being of its key, and from the mark
`raced` on a generator whose lookup another's INSERT overtook.

`AccountProofs` holds for any sets of users, sessions, requests, deletion requests and
events, any windows and any schedule of failures. Its `IInv` says that a session
expires one window after its last activity, in the table and in every copy a request
holds (`SessionInv`); that an entry of the executor's list stands for a due deletion
request that was not withdrawn, as long as its user exists (`DeletionInv`); and that of a
user who is gone, or whose events the executor has just detached, only late events
remain (`EventInv`). `InTime`, `GoneWithDependents`, `EndedForever`
and `OnRequest` follow. `GoneWithDependents` is about the tables of `Account` only.

`BookingProofs` holds for any sets of users, resources and windows, and finite sets of
bookings and requests (`BookingAssumption`: a table has finitely many rows and a process
finitely many goroutines; the rest is as the configuration validates it). Since nothing
serializes creations, the argument counts: next to the rows it counts every request that
has passed the check in question and not yet inserted. `DayInv` bounds a user's active
bookings of a day plus those requests by the cap and `peak`, `CoverInv` the bookings
that cover one instant, `SeatInv` the seats of a resource at one instant (as the
cardinality of a set of boxes, one per seat), `PeakInv` the requests in flight.
`WithinDailyCap`, `WithoutDoubleBooking` and `WithinCapacity` follow; at `peak = 1`
they are the documented rules. `AloneInv` says that while requests do not overlap the row
a transition read is still the row it updates, from which `MovesLegally` follows.

`AuthProofs` holds for any accounts, passwords, challenges and thresholds, and finitely
many requests, at least one (`AuthAssumption`; no two seed accounts share a name, as
`seedAdminUser` seeds one). Lock and gate act on the count a login read before
it checked the password. So `LockInv` counts, for an account without a lock, the
logins under way whose failure will set none (`Unlocking`): their number plus the count
in the row exceeds `LockoutThreshold - 2` by at most the number of requests, because a
failure that raises the count takes its login out of the set. `GateInv` does the
same for the logins through the captcha gate, where every spent challenge pays for
one more. `GuessInv` relates the history of wrong passwords to the row's count and the
failed statements. `ForceInv` says that a login under way against a lock in force was
marked `overtaken`, and `NameInv` the same of a registration. `LockedInTime`, `GateHolds`,
`LockKept`, `UniqueNames` and `OneLoginPerCaptcha` follow.

`WebhookProofs` holds for any sets of hooks, event types and deliveries, any number of
attempts, cycle size and schedule of failures (`WebhookAssumption`; `BackoffAssumption`
says that the backoffs of the attempts made are natural numbers, i.e. the shift in
`WebhookBackoff` does not overflow: the provers know nothing of exponentiation).
`QueueInv` says that the order of `next_attempt_at` is one of exactly the pending
deliveries, each once. `JobInv` says that a running cycle's list holds pending
deliveries, each once: nothing but the cycle settles a delivery, and it drops what it
settles from its list. `CountInv` bounds the POSTs of a delivery by its attempts, the
outcomes lost, and one more when the delivery is at the head of the list with its
outcome not stored yet; `AckInv` says the same of an acceptance. `BoundedAttempts`,
`TruthfulOutcome` and `FinalForever` follow. `RemovedFacts` and `InsertedFacts` are the
lemmas about taking an element out of a list and putting one in.

`BackupProofs` holds for any tables, rows and backup goroutines and any bounds
(`BackupAssumption`). `TimeInv` says that the times of backups differ from each other and
from the stamps of rows, `BaselineInv` that a baseline is the time of a backup in
the index, and `DumpInv` what a file holds of a row that was written before its time and
is not `late`: its version, if the dump with that baseline selects it, else nothing. From
these `CompleteRestore` follows: the oldest backup of the plan that came after a row was
written selects the row, because its baseline is a backup that is older than the write
or not part of the plan, and then it is older than the full backup, which is itself older than
the write (`BaselineInPlan`, `PlanHolds`); and every newer file that holds the row holds
the same version. `IndexInv` states as an invariant that a set of backups has a first and
a last one, which would otherwise need an induction. `VersionInv` bounds versions
by the clock for `TypeCorrect`.

Every safety invariant and action property that a passing run checks is a theorem.
**Only model-checked** are the liveness properties `SweepSettles`, `DeletionCompletes` and
`EveryDeliveryEnds`: fairness is out of the prover's reach. The four runs that refute a
comment need no proof.

## 5. Plan

Every invariant and action property of the specifications is proved. What could still be
proved is the safety half of the liveness
arguments: that the work left for each job never grows while nobody adds to it.

## 6. Not modelled

HTML views, logging, health checks, configuration, database connection and
cryptography are presentation or I/O without a protocol. Encrypted notes are opaque
data. Document rendering, CSV validation and the field mapping of webhooks transform
data and keep no state; the CSV import inserts the validated rows one by one.
Notifications, to-dos, tags, the data dictionary and the consent log are
single-statement CRUD that nothing else decides on. The availability grid is a
read-only view. Hourly aggregation and anomaly detection are left out: the first
contradicts its comment without any interleaving (finding 7), and the second only
reads its result. The flags `is_admin`, `is_blacklisted` and `must_rotate_password`
gate routes; only the last changes in a modelled operation. Code without a caller
(`cache.Invalidate`, `DeleteExpired` of sessions and of idempotency keys, `Update`
and `Delete` of groups, `SetBlacklist`) is no action.

The cascades of `HardDelete` are modelled for sessions and deletion requests
(`Account`) and for participants (`GroupBuy`). Those over bookings, documents and
revisions, notifications, to-dos and consent records are in no module, nor are the
rows that survive it (of `idempotency_keys`, `notification_deliveries` and
`group_reservations`). Backup file names that collide within a second are not
modelled. Restoring is not in the repository.
