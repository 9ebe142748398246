# Formal models of the marketplace

This directory holds TLA+ models of `src/marketplace`, the course's marketplace
(NestJS, TypeORM, PostgreSQL behind PgBouncer, Redis, BullMQ, RabbitMQ), the TLC
configurations that check them on small instances, and theorems about them that
TLAPS has checked for every instance. Paths below are relative to
`src/marketplace/src` unless they say otherwise.

Most of the program's logic is not in its data but in what several processes do
to shared rows, queues and caches at once, and in what is left when one of them
stops between two steps. That is what the models keep: every state change, guard,
early return and error path, in the order of the code. Payloads, wording, SQL
syntax and logging are abstracted.

## 1. Inventory

| Part | State it keeps | Operations | Why it is hard | Module |
| --- | --- | --- | --- | --- |
| Transactional outbox and relay: `outbox/relay.ts`, `relay-main.ts`, `write.ts` | rows of `outbox` (published_at, attempts), row locks, the relay's map of failed attempts | insert with the order; flush failures; lock a batch with SKIP LOCKED, publish, mark, commit; retention | publication and mark are in two systems; COMMIT may be applied and not answered; several relays | `OutboxRelay` |
| Effect of `order.placed`: `async/effect.ts` | `processed_messages` (inbox), `order_notifications` | match the order, claim the event, notify, commit | concurrent handlers of one event, pruned inbox rows | `InboxEffect`, promise `NotifyOnce` |
| RabbitMQ consumer: `async/consumer.ts`, `consumer-main.ts`, `topology.ts` | message copies at the broker, handlers in flight, the channel | deliver, apply, ack / reject / requeue, stop, exit, restart | verdict after COMMIT on a channel that may be gone, redelivery beside a running handler | `OrderConsumer` |
| BullMQ queue and worker: `redis/queue.ts`, `worker-main.ts` | jobs by event id, attempts, stalls, slots | add, take, complete, retry, give up, remove | lost locks: two slots run one job; ids absorb repeated adds | `OrderQueue` |
| The path order - outbox - relay - queue - worker - notification | all of the above | all of the above | loss or repetition anywhere on the way | `OrderPipeline` |
| Product-card cache: `redis/cache.ts`, `invalidate-products.ts` | card and fill lease in Redis, the version in PostgreSQL | get with lease, recheck, load, publish by script; commit then DEL | a slow reader against an invalidation; expiring leases | `AsideCache` |
| Paid checkout: `checkout.ts` | stock, balance, orders, items, jobs, outbox | guarded UPDATEs, four INSERTs, commit, roll back | races for the last item, refusals after partial work, lock order | `Checkout` |
| Jobs-table worker: `worker.ts` | `jobs` rows and locks, a call's scope and count | claim with SKIP LOCKED, process, mark, commit, poll | death between work and commit; "nothing free" is not "nothing left" | `JobWorker` |
| Idempotent order creation: `order-creation.service.ts`, `database.service.ts`, `repositories/orders.repository.ts` | `order_requests`, orders, advisory locks, pool | lock key, replay, conflict, create, record, commit | repeated and concurrent requests, hash collisions, pool starvation | `OrderRequests` |
| Authentication: `auth/auth.service.ts`, `auth/http.ts`, `realtime/issue-token.ts` | families, refresh tokens, denylist | login, refresh, reuse detection, logout, access check, cleanup | concurrent use of a token, cleanup by an old snapshot | `AuthFamilies` |
| Confirmed publisher: `async/publisher.ts` | the promise chain of publications, frames of the channel | publish, return, ack / nack, time out, close | late confirms and returns of earlier calls arrive during a later one | `ConfirmedPublisher` |
| Dead-letter archive: `async/drain-dlq.ts` | the dead-letter queue, a file per message | get, write, sync, rename, sync directory, ack | a stop between any two of them, on several hosts at once | `DlqDrain` |
| What a request passes first: `configure-app.ts`, `redis/http.ts`, `ratelimit.ts`, `session.ts`, `service.ts` | admissions per client, sessions, readiness of Redis | admit or refuse, touch a session, make one | half-open window, rounding, commands that fail after they took effect | `RequestEdge` |
| Keyset paging: `marketplace.controller.ts`, `repositories/*.ts`, `app.ts` | rows in commit order, a client's cursor | first page, next page | ids follow inserts, visibility follows commits | `Paging` |
| Transaction retry: `retry.ts` with `demo-retry.ts` | rows, snapshots, attempts | begin, update, commit, retry or throw | a stale write, a repeated applied transaction, deadlock | `RetryTransaction` |
| In-memory contract application: `app.ts` | idempotency records, an array of orders | POST /orders | what the database version must agree with | `ContractApp` |
| Backups: `scripts/ops/backup*.mjs`, `retention.mjs`, `common.mjs` | bundles on disk, listings of launchers | stage, export, dump, publish, list, remove | launchers overlap, checkouts go on | `Backups` |
| Restore drill: `scripts/ops/restore-drill.mjs` | a container, a volume, two flags | create, restore, compare, clean up | a signal's cleanup beside the program | `RestoreDrill` |
| Password rotation: `rotate.sh` | the role, two files, PgBouncer's list, sessions | one command after the other | a stop between any two, a delayed reload | `PasswordRotation` |
| HTTP/1.1 warm-up server: `src/warm-up/hw-3` | the bytes received on a socket | data, respond, close | TCP cuts anywhere | `WarmUpServer` |
| Order status feed: `realtime/order-status.service.ts`, `order-events.service.ts`, `order-realtime.controller.ts`, `orders.gateway.ts` | order status, queue of changes per order, ring of events, SSE streams, rooms | change, publish, replay, subscribe, join, disconnect | publication order, eviction, the moment between replay and subscription, restarts | `OrderFeed` |

What is left out, and why, is in section 6 and in `PROJECT.json` under "components".

How the parts meet: checkout and order creation insert the outbox row in the
transaction of the order (`enqueueOrder`). A relay hands the event to a publisher,
BullMQ in the deployed stack (`redis/queue.ts`), RabbitMQ in the alternative one
(`async/publisher.ts`); a worker or consumer runs `applyOrderPlaced`. After a
commit both writers delete the product cards and their leases
(`invalidateProductCards`), and so does a status change before it answers. The
job row of a checkout is drained by `runWorker`. The hazards of the code, each at
its line and with the property that covers it, are in `PROJECT.json`.

## 2. Modules

    NotifyOnce      what order notification promises (abstract)
    InboxEffect     applyOrderPlaced                       -> Promised (implements NotifyOnce)
    OrderConsumer   RabbitMQ consumers; extends InboxEffect -> Promised
    OutboxRelay     outbox and relays
    OrderQueue      BullMQ jobs and worker slots; instantiates InboxEffect; no run of its own
    OrderPipeline   OutboxRelay + OrderQueue               -> Promised (implements NotifyOnce)
    ContractApp     POST /orders of the in-memory application (abstract here)
    OrderRequests   POST /orders over PostgreSQL           -> Contracted (implements ContractApp)
    AsideCache, Checkout, JobWorker, AuthFamilies, OrderFeed
    Backups, RestoreDrill, ConfirmedPublisher, DlqDrain, RequestEdge, Paging,
    RetryTransaction, PasswordRotation, WarmUpServer
                    components that share no state with the rest
    Operations      Backups and RestoreDrill side by side
    <M>Proofs       theorems about M; extends M and TLAPS
    CheckoutProofs  theorems about Checkout and about JobWorker, which drains its jobs
    StandaloneProofs  theorems about AsideCache, OrderFeed and the standalone components
    MC<M>           model values for TLC; extends M
    MCStandalone    the standalone components in one run: a variable `part` picks one
                    component per behaviour, the others stay as they began

The modules read like the code: a state variable `pc[x]` (or `tx`, `call`) says
which statement a call is about to execute, an action is one statement or one
callback up to the next `await`, and `PROJECT.json`'s "map" gives every
definition its lines. PostgreSQL appears as committed rows, row (or advisory)
locks, and what an open transaction has written privately; a transaction's
writes become visible in its commit action and its locks go in the same step.
An action guarded by a free lock waits as the statement does; SKIP LOCKED is a
selection among free rows. A COMMIT whose answer is lost (`...Unanswered`) takes
effect and fails for the caller.

Some definitions are preceded by a variant marked `with a fault, for the checks`:
the same operation with a plausible mistake (a lock left out, a rollback that
keeps the stock, an acknowledgement before the commit). No specification uses
them; substituting one for its original must make the property named under
"mutants" fail, which shows that the property depends on the code it is about.

### Correspondence, module by module

* **OutboxRelay** (`relay.ts:16-58`). `FlushBegin`/`FlushCommit` are the short
  transaction that adds remembered failures to `attempts`; `Scan` the batch
  SELECT; `PublishConfirmed`/`PublishRefused`/`PublishUnconfirmed` the three ways
  `publish()` ends for the caller (confirmed; refused or never sent; accepted but
  timed out); `Mark`, `Commit`, `CommitUnanswered`, `BatchFail` the rest of the
  loop and the catch block, which counts every attempted id. `SessionLost` frees
  the locks while the relay runs on and notices only at its next statement;
  `Crash` loses the map. `tries`, `sent`, `lost` are history. Flushing picks rows
  in an order unrelated to age (random uuids): `SomeRows`.
* **InboxEffect** (`effect.ts`). `Match`, `Claim`, `Notify`, `Commit` are its four
  statements. An insert waits while another transaction has the same key
  uncommitted, which is why `Claim` and `Notify` are guarded. A message that fails
  validation, or does not match its order, is a forged event.
* **OrderConsumer** (`consumer.ts`). A handler is a pair of consumer and copy, and
  its database steps are those of `InboxEffect`. `Deliver` to `Settle` are `handle()`; `Stop`,
  `Stopped` are `stop()`; `LinkLost` lets the broker requeue while the process
  does not know; `Exit` is the fatal exit, `Restart` the container runtime. The
  broker (external): quorum queue with `x-delivery-limit` and dead letters.
* **OrderQueue** (`queue.ts`, external BullMQ as `JOB_OPTIONS` configures it).
  `LockExpired` takes a job from a slot that runs on; `Stalled` from one that died;
  `Remove` is removeOnComplete/removeOnFail. **OrderPipeline** joins a relay step
  in which the broker accepts an event with `Add` of that event.
* **AsideCache** (`cache.ts`). A card's value is the product's version. `BeginGet` to
  `AnswerCard` are `get()`; `PublishCard` and `ReleaseLease` are the Lua scripts; Redis
  may lose the key or the lease at any time, commands may fail, readers may die. A
  command whose reply was lost is sent again by ioredis once it has reconnected
  (`redis/connection.ts:12`; `CommandSentAgain`): a reader whose SET NX took the lease
  unheard then waits for itself. The client of the DEL never reconnects
  (`invalidate-products.ts`), so a DEL is not sent again.
* **Checkout** (`checkout.ts`), **JobWorker** (`worker.ts`), **OrderRequests**
  (`order-creation.service.ts`): one action per statement of the transaction.
  `Contracted` maps the committed requests and orders to the records of
  `ContractApp`, and every answer to its answer.
* **AuthFamilies** (`auth.service.ts`). `now()` is the transaction's start
  (`born`); a JWT is signed later in the same transaction. `Rotate` stands for the
  locked read, `CommitRotation` for the rest; `CleanupLook` takes the snapshot,
  `CleanupDelete` locks and deletes what nobody has updated since.
* **OrderFeed**. A change queues in `tails` (`ChangeStatus`), waits for its turn
  (`HasTurn`), locks the row (`Lock`), commits, publishes (`PublishEvent`) and passes
  its turn on (`FinishChange`); `Open` is replay and subscription in one turn of the
  event loop, `KeptEvents` what the ring still holds; `Join`/`Joined` frame the access
  check. `PublishElsewhere` stands for the
  events of other orders, which share the sequence of ids. `Restart` empties all
  that lives in memory.
* **ConfirmedPublisher** (`publisher.ts:24-53`). `Send` to `Nack` are
  `publishRaw()` and its listeners, `Close` an unexpected end of the channel, which
  rejects the wait (a graceful `close()` comes when the chain is empty); `waitForConfirms()` answers when nothing is
  owed, so the ack of an earlier message may decide about a later one. `Route` and
  `Rebind` are the broker (external), which returns an unroutable message before
  it acks it; `Received` delivers the frames of the channel in their order.
* **DlqDrain** (`drain-dlq.ts`). `Write`, `Sync`, `Rename`, `SyncFolder`,
  `AckDrained` are the five statements of one message; `DrainBreaks` stops a run
  anywhere and the broker takes the message back, with a loss of unsynced data if
  the host went down.
* **RequestEdge**. `Consume` is the limiter's Lua script with its middleware,
  `Touch` and `Fresh` the session's commands; `StoreFails` a command that failed,
  before or after it took effect. `SentAgain` is a command that took effect, lost its
  reply with the connection and is sent again by ioredis (`redis/connection.ts:12`,
  whose default resends what is unanswered): the limiter's script admits its member
  anew, and the SET NX that meets the session it has just made answers as if the id
  were taken, so that the loop of `session.ts:13-18` makes a second one.
* **Paging**. `InsertRow` takes an id, `EndInsert` makes the row visible (or not);
  `StartWalk`/`NextPage` are one request each of a client that follows
  `next_cursor`; `ContractPage` the array of `app.ts`. `Ordered` is the result of
  ORDER BY, the one ascending sequence of the rows after the cursor, and `Slice` LIMIT
  and `slice()`. A walk looks for one row more than it shows (`RowsOfPage`).
* **RetryTransaction** (`retry.ts` around the operation of `demo-retry.ts`).
  `Begin` takes a snapshot, `Update` waits for the row's holder and fails if the
  row has changed since; `RetryOrThrow` is the catch block,
  for 40001 (`SerializationFailure`) and for 40P01 (`DeadlockDetected`): both use up an
  attempt, and the histories `conflicts` and `deadlocks` count them apart.
* **Backups**, **RestoreDrill** (`scripts/ops`). `Stage` to `Publish` are a backup,
  `List` and `RemoveBundle` its pruning. In the drill a Docker command takes effect
  (`VolumeMade`) before the program learns of it (`VolumeAnswered`); `Signal`
  starts the handler, whose cleanup interleaves with the program's.
* **PasswordRotation** (`rotate.sh`). One action per command; a redirection
  empties its file first (`OpenSecret`, `OpenUserlist`). In `cat > file; chmod ...`
  (lines 15 and 22) only the status of `chmod` counts: a file that cannot be opened
  keeps what it has, a failing write leaves it empty or partial, and the script goes on
  either way; nor does `set -e` see the left side of a pipe fail. The history `spoiled`
  names the files to which that happened in this run (`Spoils`). `Abort` is `set -e`, or
  a stop from outside, `Bootstrap` the credentials service, `Reload` and `OpenSession`
  PgBouncer.
* **WarmUpServer** (`server.js`). A client sends a sequence of pieces (lines, bytes of
  a character, halves of the empty line); `Data` appends a decoded chunk and answers
  when the header section is complete. `Respond` takes whatever the first line holds
  for the request line, so only a later line without a colon is refused.

## 3. Runs

Each passing run checks safety and liveness together, so no symmetry is used
where a liveness property is checked. Every bound is a constant of the module or
of the .cfg.

| Run | Instance | What it shows |
| --- | --- | --- |
| MCOutboxRelay | 2 orders, 2 relays, batches of 2, 2 faults | `OutboxInv`: no mark without acceptance; `DuplicatesNeedFaults`: at most one extra publication per fault, so row locks work; `AttemptsLedger`; `MarkedByItsHolder`; `EventuallyPublished` |
| MCOrderConsumer | 1 order, 1 forged, 2 consumers, 2 copies, limit 1, 3 faults | `InboxInv` (among others: skipped means notified), `ConsumerInv`, `AckedMeansNotified`, `Promised`, `GenuineIsNotified` |
| MCOrderPipeline | 1 order, 1 relay, 1 worker with 2 slots, 2 attempts, 1 stall, 3 faults | `PipelineInv`, `Promised`, `NotifiedOrGivenUp` |
| MCAsideCache | 2 readers, 2 writers, versions up to 2 | `CacheInv`, `ReadsAreFresh`, `OneLoadPerFill`, `CallsReturn` |
| MCCheckout | 3 calls, 2 products, 2 buyers, 5 different wishes | `CheckoutInv`, `Ledgers`, `EveryCallEnds` |
| MCJobWorker | 2 jobs, 2 workers, 3 faults | `JobInv`, `WorkIsAccounted`, `CallsEnd` |
| MCOrderRequests | 3 calls, 2 keys on 2 locks, 2 bodies (one refused), pool of 2 | `RequestInv`, `Contracted`, `EveryCallEnds` |
| MCAuthFamilies | 1 family, 2 calls, 2 generations, clock to 4 | `AuthInv`, `CleanupKeepsSessions`, `CallsEnd` |
| MCAuthFamiliesExpiry | the same with a clock to 3 | violation, see Findings |
| MCOrderFeed | 1 order (others take ids too), 2 changes, ring of 2, 3 events, 1 stream or 1 socket, 1 restart | `FeedInv`, `StreamsAreGapless`, `ChangesEnd` |
| MCStandalone | 3 bundles over 2 days with 1 failure; one drill; 3 publications, two of one event; 3 dead letters, 2 drains, 2 losses; 3 requests of one client, of which the first may have one command sent again, 2 interchangeable sessions, window 3; 4 rows, pages up to 2; 3 retried calls on 2 rows; 3 rotations; 2 connections, 5 streams | `OperationsInv` (backups and drill), `PublisherInv`, `DrainInv`, `EdgeInv`, `PagingInv`, `RetryInv`, `RotationInv`, `WarmUpInv` |
| MCRestoreDrill | one drill and one signal | violation, see Findings |

What the invariants of `MCStandalone` say, each over its own component:

* `OperationsInv`: a bundle's dump and its control values show one state of the
  database, whatever commits meanwhile; however launchers overlap only old bundles
  are removed and the newest one stays whole. A drill nobody interrupts leaves no
  container and no volume.
* `PublisherInv`: a publication that resolved is in the queue, although its confirm
  may have come with others' and returns of earlier messages may be late.
* `DrainInv`: a message leaves the dead-letter queue only with its complete, synced
  archive; further archives of it were paid for by failures.
* `EdgeInv`: no window of the half-open kind admits more than the limit; after
  Retry-After a request that stood in the way has left the window, unless its script
  was sent again and admitted it anew; sessions are made only by admitted requests of
  `GET /session`, at most one each and one more for every command of the request that
  was sent again, and the session a request was given is kept for its TTL.
* `PagingInv`: a walk shows rows of the reader only, in order and none twice, and at
  its end every row that was visible when it began.
* `RetryInv`: the rows hold exactly the increments of the committed calls; a call
  gives up only when every attempt has failed, and of those failures the 40001s are no
  more than the other calls that committed; the rest are deadlocks, of which nobody
  need have committed.
* `RotationInv`: a run of `rotate.sh` that reports success leaves the role's password
  in the secret file, the user list and, once the signal is handled, PgBouncer,
  whatever earlier runs left half done, except in a file that this very run failed to
  write without noticing: its success does not say that it wrote both. And no session
  of an older password survives it.
* `WarmUpInv`: the answer to a connection does not depend on how TCP cut it.

Why these bounds. Two relays, slots, workers or readers are enough for every
race between a holder and the one that takes over; a third only repeats a role
(in `MCCheckout` and `MCOrderRequests` there is room for it: one holds, one waits,
one rolls back). Two or three faults let a failure be remembered and its
recording fail too, or a job use up its attempts and lose a lock besides. Two
copies are a message and its duplicate. A ring of two with three events evicts
and wraps around. One family is enough because nothing in `AuthFamilies` relates
two; one order in the pipeline because events of different orders meet only in a
batch, which `MCOutboxRelay` checks. More rows than a batch holds are left to the
theorems about `OutboxRelay`, which hold for any number. In `MCOrderFeed` an
action constraint lets a behaviour use the stream or the socket, not both: no
action reads the state of both, and neither takes part in a change. Three bundles
are the newest, an older one and one unfinished; four rows fill two
pages, one of them not yet committed when the walk passes; three retried calls and
two attempts let one give up, by conflicts or by deadlocks; a window of three ticks holds two admissions and the
moment both have left it. There a state constraint (`MCResends`) keeps the command
sent again to one, of the first request: every request passes the same commands, and
the third then only meets the limiter, with no session, to be admitted or refused
beside the first. Without a resend all three requests do anything.

`CHECK_DEADLOCK FALSE` appears where everything may really come to rest: all
copies settled, all workers returned, the clock or the event numbers at their
bound, a script ended. `Checkout` and `OrderRequests` end in an explicit
`Done`/`Finished` step, so there a deadlock would be one.

### Fairness

Faults, publications, new orders and clock ticks are never fair: nothing says
they happen. Fair are only steps the code or its runtime insists on.

* Relays: `relay-main.ts:20-33` loops for ever and the container is restarted, so
  `Work(r)` is weakly fair. Slots and `QueueStep` likewise: BullMQ workers poll,
  delayed jobs are promoted, stalled ones found.
* Consumers: handlers run on, ready messages are delivered to some open consumer,
  a process that exited is restarted. Faults are bounded, so liveness says "once
  failures stop".
* Calls (`Checkout`, `OrderRequests`, `JobWorker`, `OrderFeed`): a statement whose
  lock is free is executed and a promise's continuation runs: weak fairness.
* `AuthFamilies`: strong fairness of a call's step, since PostgreSQL grants a row
  lock in turn and a call is not passed over for ever.
* `AsideCache`: strong fairness of `GiveUpWaiting`, since the deadline of
  `cache.ts:19` passes however often the reader looks.
* The components of `MCStandalone` are checked for safety only: their scripts may
  stop anywhere, and nobody restarts them.

## 4. What is proved

All proofs are checked by TLAPS with Z3, Zenon and LS4, for any finite or
infinite sets the assumptions admit and any bounds.

| Module | Theorems | From |
| --- | --- | --- |
| OutboxRelayProofs | `OutboxInvariant`, `NoMarkWithoutEvent`, `BatchesOwnRows`, `OnlyTheHolderMarks`, `RepeatsNeedFaults`, `LedgerHolds` | `OrdersAssumption`, `RelaysAssumption`, `BoundsAssumption` |
| InboxEffectProofs | `InboxInvariant`, `AtMostOnce`, `InboxIsTruthful`, `ImplementsPromise` | `EventsAssumption` |
| OrderConsumerProofs | `ReliableInvariant`, `ConsumedInboxInvariant`, `ConsumerInvariant`, `AcknowledgedIsDurable`, `ConsumersImplementPromise` | those, `ConsumersAssumption`, `HandlersAssumption`, `LimitsAssumption` |
| OrderPipelineProofs | `PipelineInvariant`, `NothingIsLost`, `PipelineNotifiesOnce` | those of the outbox, `SlotsAssumption`, `AttemptsAssumption` |
| CheckoutProofs | `CheckoutInvariant`, `WholeOrders`, `TrueAnswers`, `NobodyOverspends`, `NothingOversold`; of the jobs: `JobInvariant`, `OnceEach`, `DrainedOnReturn`, `DrainIsAccounted` | `MoneyAssumption`, `WishesAssumption`, `NobodyAssumption`; `JobsAssumption`, `WorkersAssumption` |
| OrderRequestsProofs | `RequestInvariant`, `Idempotent`, `Agreement`, `NoSpuriousFailure`, `ImplementsContract` | `SlotAssumption`, `PoolAssumption`, `NamesAssumption` |
| AuthFamiliesProofs | `AuthInvariant`, `NoForkedFamily`, `LogoutIsFinal`, `CleanupSparesSessions` | `NamesAssumption`, `LivesAssumption` |
| StandaloneProofs, `AsideCache` | `CacheInvariant`, `InvalidationSticks`, `FreshReads`, `OneFills` | `TokensAssumption`, `VersionAssumption` |
| `OrderFeed` | `FeedIsExact`, `StreamsHaveNoGap` | `CapacityAssumption`, `BoundsAssumption` |
| `ConfirmedPublisher` | `ResolvedIsQueued` | `EventOfAssumption` |
| `RequestEdge` | `EdgeIsSafe` | `EdgeAssumption` |
| `Operations` | `OperationsAreSafe` | `BundlesAssumption`, `RetentionAssumption`, `BackupLimits` |
| `DlqDrain` | `DrainInvariant` | `DeadAssumption`, `DrainsAssumption`, `LimitAssumption` |
| `RetryTransaction` | `RetryInvariant`, `EveryUpdateCounts`, `NobodyStarves` | `CallersAssumption`, `PlanAssumption`, `AttemptsAssumption` |
| `PasswordRotation` | `RotationInvariant`, `RotationsAreWhole` | `RotationsAssumption` |
| `Paging` | `WalksAreExact` | `PagingAssumption` |
| `WarmUpServer` | `CutsAreInvisible` | `SendingsAssumption` |

The assumptions type the constants and keep special values apart from them; none
bounds a number the code leaves open. Two are the code's own: `BatchSize \in 1..5`
(`outbox/relay.ts`, the check of its options) and `Limit \in 1..10000`
(`async/drain-dlq.ts`).

The arguments:

* **OutboxRelay.** "A marked row was accepted" is not inductive: a commit marks
  what the batch attempted, and nothing in the statement says the batch still has
  the right to. `OutboxInv` adds that a live session holds the lock of every row
  in hand and that the row is still pending (`BatchOwnsItsRows`), that what was
  attempted was accepted (`AttemptedIsAccepted`), and that a relay between
  batches has nothing in hand (`NothingInHand`). Locks make sets of different
  relays disjoint, so a step of one preserves the claims of the other; a lost
  session takes the claim away before the lock can be given to somebody else.
  `DuplicatesNeedFaults` follows from `RepeatsArePaidFor`: every publication
  of an event beyond the one its row or an open batch accounts for, past or still to come
  from a relay that lost its session, has its failure. `AttemptsLedger` adds up
  the row, the maps of all relays and the open batches; a step moves an attempt from
  one of them to another, and the lemmas on cardinalities say that what leaves the one
  set enters the other.
* **InboxEffect.** `ClaimsAreExclusive`: one open claim per event, only on events
  not yet in the inbox, and a private notification only where none is committed.
  With it every commit is either `Notify` of `NotifyOnce` or leaves its variables
  alone; that is the refinement theorem.
* **OrderConsumer.** The invariant of `InboxEffect` holds step by step, because a
  consumer's step is one of a handler, a rollback, or leaves the database alone.
  `Reliable` adds what ties a copy to the handler that holds it: a verdict is
  given only on the channel that delivered the copy, and a verdict "processed" or
  "skipped" is given only after the COMMIT. So `AckedMeansNotified` survives
  redeliveries, which run beside the handler that lost its channel.
* **OrderPipeline.** Its steps are those of `OutboxRelay` and of the queue, so its
  invariant is theirs side by side (`RelaysInv`, the effect's `InboxInv`) and what ties
  them: an event accepted by BullMQ stays in the queue, or its effect is durable, or it
  was given up (`AcceptedIsKept`). Marked means accepted, hence marked is not lost. A
  job that still runs has an attempt and a stall left (`AttemptsAreLeft`), so it is
  given up for no other reason. The refinement of `NotifyOnce` is that of the effect.
* **AsideCache.** The link between a slow reader and an invalidation is the lease:
  `HeldLeasesAreFresh` says that a lease still held when its owner publishes was
  taken after the last DEL, because the DEL removes card and lease together.
  `OneLoadPerFill` needs `FillsAreLeased`: until the first disturbance whoever is past
  SET holds the lease, so nobody else is on the way to the database.
* **OrderFeed.** Only the head of an order's queue holds its row or has yet to publish
  (`TurnsAreTaken`), so it finds the status as the change before it left it
  (`FoundAsLeft`) and the log reads as one chain. `RingKeepsLatest` ties the ring to the
  log by positions modulo the capacity: lemmas say which cell the next event takes
  (`Wrapped`, `Cells`) and that only the oldest is overwritten. The later events of a
  growing log are an end of it (`AfterIsTheEnd`), so `replay()` finds them all or knows
  that one is gone; for `StreamsAreGapless` each event is appended to the log and to
  the wires of the open streams in one step, and a stream opens with exactly what it
  has not seen.
* **Checkout.** `TakenIsCovered`: from the guarded UPDATE to the end of the
  transaction the row is locked and still covers the purchase, so stock and
  balance stay natural numbers; the tables change only together.
  `Ledgers` sums over the committed orders: a commit adds one summand, and its UPDATE
  took as much from the row.
* **JobWorker.** As for the outbox, a claim belongs to a living session; what was
  due at the start stays in scope, so an empty scope at `Poll` means it is done.
  The books need that a job carries a worker's id only when it is done
  (`DoneHasItsWorker`) and that all runs but one of a job, or all while it is not done,
  were paid for by failures (`RunsArePaidFor`).
* **OrderRequests.** `LockedAndNew`: past the look a call holds its key's lock and
  the key is still free, so the primary key is never what decides a race. For the
  refinement every commit of a new order is `NewOrder` of `ContractApp`, every
  answer without one is a replay, a refusal or a conflict it could give too, and
  all other steps stutter.
* **AuthFamilies.** `AuthInv` says what each kind of call knows of the family it has
  locked; a rotation owns its family from its look to its commit, so a token is
  used once (`OneHeir`), and a logout leaves both the denylist entry and the
  revoked family (`LogoutSticks`). `CleanupSparesSessions` says of what the cleanup's
  snapshot saw alive that it is not deleted, and of no more: finding 1 shows that a
  session made since then may be. It needs the clock:
  `CleanupInv` says that no access token outlives the refresh token signed with
  it, and that what a snapshot found due stays due.
* **DlqDrain.** The archive in progress belongs to the run that holds the message
  (`OneArchiveEach`), and an acknowledgement is reached only through both syncs.
* **RetryTransaction.** `SnapshotsHold`: rows a transaction has updated are its own
  and still as its snapshot shows them, and a snapshot shows exactly the calls it
  has seen, so a commit adds exactly one increment per row; each conflict is a call
  the snapshot had not seen, hence counted once.
  `AttemptsAreCounted`: an attempt that is neither open nor the last failed, with a
  conflict or a deadlock. Together they bound what a call that gives up has met
  (`GivingUpIsPaid`, theorem `NobodyStarves`).
* **PasswordRotation.** `StagesFollow` lists what the commands before each stage have
  done, or failed to do unnoticed in this run; a reload between SIGHUP and the end of the script reads the new list.

* **ConfirmedPublisher.** The chain holds each call once and only its head runs
  (`OneTurnEach`); a dropped message's return or nack is in the channel ahead of its ack
  (`AnswersAreDue`, `AnswersInOrder`). So when the ack of the head arrives and no return
  was seen, its message was routed.
* **RequestEdge.** `WindowIsKept`: the limiter's key holds every admission younger than
  the window; with `RefusalsEnd` a refusal names a moment at which one of them will have
  left it. `SessionsComeLast`: a request makes sessions only after its admission, none
  before its last step, and there at most one for each time a command was sent again,
  until the one it is given. A session is made only on an id that is not live, so it
  never takes one that another request still holds.
* **Operations.** A bundle is hidden until it is complete (`HiddenUntilPublished`), a
  listing holds only bundles that are old and not the newest (`DoomedIsStale`), and
  being old is for ever. That a newest bundle exists among those ever made is a lemma
  on finite sets ordered by `Newer`. For the drill, its flags say at least what Docker
  answered (`FlagsKnow`), and its `finally` removes what they say; the claim is only
  about drills no signal disturbed, since finding 2 shows the others may leave a volume.
* **Paging.** `CursorIsLastShown`: while a walk goes on its cursor is the last id shown,
  so what a page adds is larger than all before it, and the page leaves out no listed
  row up to its own last one. Committed rows stay, so nothing seen at the start is lost.
* **WarmUpServer.** `BufferIsDecoded`: the buffer is, piece by piece, what the uncut
  bytes decode to, except bytes of a character when one was cut; such a piece is neither
  a line nor an empty line. Texts alike in this sense end their headers at the same
  place and get the same status.

Every invariant, action property and refinement that a passing run checks is a
theorem. Only model-checked are the liveness properties (`EventuallyPublished`,
`GenuineIsNotified`, `NotifiedOrGivenUp`, `CallsReturn`, `EveryCallEnds`, `CallsEnd`,
`ChangesEnd`), since fairness and ENABLED are outside the prover's reach, and the two
counterexamples of section 5.

## 5. Findings

1. **The cleanup may delete a family with a fresh token** (`MCAuthFamiliesExpiry`,
   `KeptWhileTokensLive`). `src/marketplace/README.md:851` says families that are
   not revoked stay until all their refresh tokens have expired. The DELETE of
   `auth.service.ts:26` finds the family in its snapshot when its only token has
   just expired, while a refresh that checked in time is about to commit. The
   refresh has locked the family's row but not updated it, so after its commit
   PostgreSQL does not evaluate the row again and it is deleted with the successor.
   What does hold is `CleanupKeepsSessions`: nothing is deleted that the
   snapshot saw alive.
2. **An interrupted drill may leave its volume** (`MCRestoreDrill`,
   `NothingLeftBehind`). `src/marketplace/README.md:1126` says SIGINT and SIGTERM
   run the cleanup too and only SIGKILL or a failure of Docker needs cleaning by
   hand. The handler (`scripts/ops/restore-drill.mjs:29`) removes what the flags
   name, and a flag is set only after Docker has answered (line 34): a signal during
   `docker volume create` finds both flags false, removes nothing and exits. An
   undisturbed drill leaves nothing (`DrillInv`, part of `OperationsInv`).

## 6. Limits of the models, and what is not modelled

* One Redis, one PostgreSQL, one broker, which do not lose what they have
  committed. `redis-queue`'s AOF may lose a second of jobs
  (`src/marketplace/README.md:49`); that is a hazard without a property.
* BullMQ gives a job up after its attempts (`redis/queue.ts:10`), and its id absorbs
  another add while it is remembered: `NotifiedOrGivenUp` is what holds, not that
  every order is notified.
* A relay of the model runs one batch at a time. The worker's `outbox-sweep` jobs
  may run up to five on one `OutboxRelay` object, sharing its map of failures: then
  `attempts` may be off, which `relay.ts:55` says is no delivery ledger; the rows a
  batch works on are decided by its locks.
* `Checkout` has no retry; a client that repeats an unanswered checkout is another
  call and buys again, as `src/marketplace/README.md:449` says.
* Numbers do not overflow in the models; `orders_total_cents_check` is `MaxTotal`.
* A transaction in `AuthFamilies` is shorter than a unit of its clock, and access
  tokens live shorter than refresh tokens and than the cleanup's grace, as
  configured.
* An SSE client that closes while it is being authorized leaves its subscription
  and heartbeat behind (`realtime/order-realtime.controller.ts:21`); writes to it
  are guarded, so nothing else is affected, and the model leaves it out.
* `Paging` lists orders that have items; the itemless orders of `auth/demo.ts` are
  not rows of its world.
* `PasswordRotation` runs one script at a time; two at once could leave the role and
  the files with different passwords, as nothing locks them out. A run that failed to
  write one of the files may report success (`rotate.sh:15`, `:22`), which the model
  shows (`spoiled`) and the invariant exempts for that file.
* The dead-letter queue is declared without a delivery limit (`async/topology.ts:17`);
  RabbitMQ 4 then applies its default of 20 to a quorum queue and drops a message that
  as many drains took and gave back. `DlqDrain` has no limit: its claim is about what
  leaves the queue by an acknowledgement.
* The models of backups, drill and rotation take Docker, the file system and
  PgBouncer at their documented word.

Not modelled, with nothing left in them that a model could get wrong: the token
format of `realtime/token.ts` and JWT signing (pure functions of their input), the
schema, seed and index report (run once; constraints appear where they matter),
NestJS and OpenAPI wiring and the validation of the environment (a start that
fails or succeeds), the demonstrations (scripts that exercise the components above),
the Express warm-up server (stateless handlers, and a shutdown that is Node's own
`server.close`). The scheduling of `outbox-sweep` is BullMQ's; the sweeps themselves
are relays of `OrderPipeline`.

## 7. Plan

What a next extension would add, in this order: concurrent sweeps of one relay
object, which share its map of failures (`redis/queue.ts:34`); the composition of
`ConfirmedPublisher` and `DlqDrain` with the broker of `OrderConsumer`, so that one
invariant covers an event from the confirm to the archive; and the safety part of the
liveness arguments as theorems (what a waiting call waits for is always held by a call
that can go on).

To check them: from this directory, `tlc -config MCOutboxRelay.cfg MCOutboxRelay`
and `tlapm OutboxRelayProofs.tla`, and so on.
