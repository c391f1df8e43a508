# Go-fetch: a formal model of the task queue

Go-fetch is a distributed task queue in Go: an HTTP API stores jobs and publishes
messages, workers consume the messages and execute the jobs. This directory holds
TLA+ modules translated from `src/`, the TLC configurations that check small
instances of them, and proofs that TLAPS checks for instances of any size.

```
tlc -config create_memory.cfg MCTaskQueue      # or any other .cfg, see "Runs"
tlapm TaskQueue_proofs.tla                     # or any other *_proofs.tla
```

## 1. The system

| component | source | state | operations | modelled in |
|---|---|---|---|---|
| API job handlers | `internal/api/handlers/jobs.go` | none; a request holds a copy of a row | CreateJob, CancelJob, RetryJob; GetJob, ListJobs; GetJobLogs, QueueStats, ListWorkers | `TaskQueue` (the first three), `ApiServer` (the next two) |
| job store | `internal/storage/{memory,postgres}` | tables jobs, job_logs, workers | CreateJob, UpdateJob, GetJob, GetJobByIdempotencyKey, AppendJobLog; ListJobs; RegisterWorker, RecordHeartbeat; ListJobLogs, ListWorkers | `JobStore`, `ApiServer` (ListJobs), `WorkerPool` (the workers table) |
| broker interface | `internal/broker/broker.go` | a queue of messages | Enqueue, Consume, Ack, Requeue, SendToDeadLetter | `Broker` |
| memory broker | `internal/broker/memory/memory.go` | slice, dead letters, `notify` channel of size 1 | the same, under a mutex and outside of it | `MemoryQueue` |
| Redis broker | `internal/broker/redis/redis.go` | stream, group position, pending list, dead-letter stream | the same, as Redis commands | `RedisBroker` |
| worker: execution | `internal/worker/worker.go` executeJob, handleFailure | the message and a copy of the row | 3 outcomes, each a sequence of store and broker calls | `TaskQueue` |
| worker: pool | `internal/worker/worker.go` Start, consumeLoop, processLoop, incrementActive | batch, `jobChan`, active counter, the worker's row, context | register, fetch, dispatch, heartbeat, shutdown | `WorkerPool` |
| job registry | `internal/jobs/registry.go` | type to handler, fixed at start | lookup, run | `Handlers` |
| rate limiter | `internal/api/middleware/ratelimit.go` | a token bucket per address | getLimiter, Allow | `RateLimiter` |
| API server, recovery | `internal/api/server.go`, `middleware/recovery.go` | none | the order of the middleware; a panic becomes a 500 | `ApiServer` |
| process entry points, configuration | `cmd/api`, `cmd/worker`, `pkg/config` | environment, wiring, signal | choose store and broker, start, shutdown | `Service` |
| CLI, dashboard, other middleware, metrics, logging, tracing, collector | | no state that others read back | | no |
| gRPC service, SQL migrations | `internal/grpc`, `internal/storage/migrations` | wired into no process, applied by no process | | no |

**How they interact.** A `POST /v1/jobs` calls the store three times at most (look
up the key, insert) and the broker once (enqueue); nothing ties these calls
together. A worker's `consumeLoop` fetches a batch of messages, sends them through
the buffered channel `jobChan` to `processLoop` goroutines, and these run
`executeJob`: read the row, write it as RUNNING, log, run the handler, write the
outcome, log, and acknowledge, requeue or bury the message. `UpdateJob` writes the
**whole** row from the caller's copy. API requests (cancel, retry) and executions
of the same job write over each other without any check of versions.

**What is hard.** The order of calls across two systems without a transaction,
with crashes and ignored errors between any two of them; stale copies of a row;
messages delivered twice (Redis hands an entry that was not acknowledged for 30 s to
another worker); a lost wake-up between a mutex and a channel; a counter updated
by two goroutines in the wrong order; shutdown while goroutines are blocked, and
with every call of a running execution cancelled; a restart with one half of the
state in memory; pages and totals read by separate statements; a token bucket that
requests share.
`PROJECT.json` lists these hazards one by one, at their lines.

**What makes each part correct.**

- store and API: one row per key where the index is unique; a row that says QUEUED
  has a message; no copy of a row counts an attempt that did not fail
- execution: an accepted job is run, buried or still owed; it is buried only after
  max_attempts failures; it is settled once when nothing is delivered twice; in the
  end it is settled
- brokers: every message is handed out, in order, to one consumer, and with Redis
  again until it is acknowledged; only acknowledged entries are deleted
- processes: what was answered survives every stop that does not end the memory it
  lives in; an interruption is not a failure
- reads: pages skip nothing and agree with their total and between the stores
- rate limiter: no address above its rate, and none refused below it
- pool: every fetched message is executed once; the load a worker's row shows is
  right up to one from its first heartbeat on; shutdown ends

## 2. The modules

```
      JobLifecycle (abstract)         Broker (abstract)          Delivery (abstract)
            ^  LifecycleSpec           ^       ^    ^                  ^  DeliverySpec
            |               INSTANCE B |       |    |  BrokerSpec      |
  JobStore--TaskQueue------------------+  MemoryQueue  RedisBroker  WorkerPool
            |
      TaskQueueClaims -- MCTaskQueue                               MCWorkerPool

  Handlers -- Service -- MCService            RateLimiter -- ApiServer -- MCApiServer

  TaskQueue <- TaskQueue_proofs <- TaskQueueOwed_proofs <- TaskQueueOnce_proofs
  M <- M_proofs   for M = MemoryQueue, RedisBroker, WorkerPool, Service, ApiServer
```

The proofs about a module are in `M_proofs`, which extends it; those about
`TaskQueue` are split in three by subject (what holds always, what is owed when
calls fail or workers die, what happens once).

A name ending in `_Something` after a definition's own name (`Load_AutoAck`,
`Pop_Newest`) is that definition with a plausible mistake in it. It belongs to no
specification; it shows that a property notices the mistake.

### TaskQueue (with JobStore and Broker): the path of a job

`rows` and `logs` are the tables, `ready`, `pending`, `dead` the broker.
`req[c]` is the request that client `c` waits for: its `pc` names the next call.
`slot[s]` is one execution: the delivered message, the copy of the row and the
next call of `executeJob` or `handleFailure`. Every call to store or broker is one
action; a call whose error the code discards (`_ = w.cfg.Storage.UpdateJob`) may
have no effect (`Save`, `Log`, `Acknowledge`), a call whose error it handles has
the code's error path as its other disjunct. Four history variables
(`answered`, `effects`, `fails`, `dropped`) only record what happened.

A slot stands for any place of a worker process in which a delivered message waits
or runs; several slots are several goroutines or several workers. A row is its
status, its attempts and why it failed. `MaxRetries`, `Priority`, `ScheduledFor`
and `TimeoutSeconds` are stored by the code and have no influence on it.

| action | code |
|---|---|
| `BeginCreate`, `Lookup`, `Insert`, `Enqueue` | CreateJob, `jobs.go:54-144` |
| `BeginCancel`, `CancelJob` | CancelJob, `jobs.go:194-218` |
| `BeginRetry`, `RetryJob`, `Enqueue` | RetryJob, `jobs.go:221-262` |
| `Deliver`, `Reclaim` | the broker's Consume and its claim of abandoned entries |
| `Reject`, `Load`, `LoadFails`, `MarkRunning`, `LogStart` | executeJob, `worker.go:199-225` |
| `HandlerSucceeds`, `HandlerFails` | the handler, its panic recovery and the decision of handleFailure |
| `SaveOutcome`, `LogSuccess`, `AckMessage`, `LogFailure`, `RequeueMessage`, `BuryMessage` | the rest of executeJob and handleFailure |
| `Crash` | a worker process killed, or outliving its shutdown timeout |

`Budget` bounds how often the environment makes a handler fail, kills an execution,
makes a call fail, and sends a cancel or a retry request.

### MemoryQueue: the in-memory broker

The mutex makes `Push` and `Pop` atomic; what the code does outside of the mutex
is a step of its own: the non-blocking send to `notify` (`Notify`), the wait for
it (`Wait`, `Wake`), the timer (`TimeOut`) and the cancelled context (`Stop`).
Implements `Broker` with `AtLeastOnce = FALSE`.

### RedisBroker: the Redis broker

An entry is its position in the stream. Every command is an action: `XPending`,
`XClaim`, `XReadGroup` and the XACK of an unreadable new entry (`Refuse`) make up
Consume, `XAck` and `XDel` make up Ack, `Requeue` and `SendToDeadLetter` are one
XADD. `ClaimFails`, `ReadFails`, `XAckFails` and `GiveBackFails` are their errors:
a failed read or claim may have been carried out. `idle` are the pending entries
that nobody touched for 30 s; `PassTime` lets the time pass for one of them.
Implements `Broker` with `AtLeastOnce = TRUE`. Redis itself is modelled from how
the code uses it.

### WorkerPool: one worker process

`consumer` and `loop[g]` are where the goroutines are; `jobChan` holds at most
`2 * PoolSize` messages. Sending to the channel and raising the counter are two
steps (`Send`, `CountSent`), as in `worker.go:164-165`, and so are the end of an
execution and lowering it (`Finish`, `CountDone`). The heartbeat is written
whenever the counter changes and may fail, and nobody looks at the error. The
process starts with what RegisterWorker leaves in its row (`Registered`): memory
replaces the row, SQL makes one or, under a `WORKER_ID` used before, keeps the
`active_jobs` (`OldCounts`) of a process that may have been killed; without a
`WORKER_ID` in its environment every process has a new row. `Hanging` are messages
whose handler never returns. `executeJob` is one step here (`Finish`). Implements
`Delivery`.

### Service (with Handlers): the two programs, started, stopped and killed

`env[p]` is the environment of `cmd/api` or `cmd/worker`; `getEnv`,
`LoadAPIConfig`, `LoadWorkerConfig`, `initStorage` and `initBroker` turn it into the
store and the broker the process works with: `"sql"` and `"redis"` are shared and
stay, a store or broker named after the process dies with it. `phase[p]` goes from
down to up, to stopping (the signal) and closing (the broker is closed), and back.
`exec[p]` is one slot of the worker of `p`: the calls of executeJob and
handleFailure on a copy of the row, without the logs. The counter of active jobs,
its heartbeats and the worker's row influence none of this and are left to
`WorkerPool`. The signal cancels the context of the calls in progress
(`Cancelled`): those on SQL and Redis then have no effect, and the code goes on as
if they had. `pending[j]` counts the Redis entries of `j` that are owed an
execution, and those that a failed attempt left behind. `Handlers` says which handler may end how on which payload and context.

| action | code |
|---|---|
| `Boot`, `Signal`, `CloseBroker`, `Exit`, `Kill` | both mains; SIGTERM, SIGKILL |
| `Register`, `RegisterFails` | Start of the worker, `worker.go:100-126` |
| `Submit`, `Insert`, `Enqueue`, `Reply` | CreateJob under shutdown |
| `Consume`, `Reclaim`, `ReclaimLeft` | Consume, with its claim of idle entries |
| `Load`, `Drop`, `MarkRunning`, `HandlerReturns`, `SaveOutcome`, `Finish` | executeJob and handleFailure |

### ApiServer (with RateLimiter): reading through the API

`limiters[ip]` is the bucket of an address, in sixtieths of a token, with the
second it was last brought up to date; `getLimiter` and `Allow` are two steps, as
in `ratelimit.go:57-59`. `req[c]` is the request of client `c`: `Limit`, `Admit` or
`Reject`, then `GetJob`, `ListJobs_memory` (one critical section) or `CountJobs` and
`SelectJobs` (two statements), and `Recover` after a panic. `memoryPage`, `pgxPage`
and `gormPage` compute one page as the three stores do. Meanwhile rows are stamped
(`StampRow`), inserted and settled by other processes. A client either asks for one
thing, or walks through all pages (`walk[c]`). `golang.org/x/time/rate` and the
SQL window are modelled from how the code uses them.

## 3. Runs

State counts are distinct states. The runs allow the system to stop
(`CHECK_DEADLOCK FALSE`): clients may stop sending, a queue may be empty, and
budgets run out. Where something must happen, a liveness property says so.

| run | instance | question and answer |
|---|---|---|
| `create_memory` (5,929) | 2 jobs, 2 clients, 2 slots, max_attempts 3, 7 handler failures | Without manual requests and with the memory broker, a job is settled once, never early, and its row lives the life of `JobLifecycle`, liveness included. 7 failures exceed the 6 two jobs can use, so the bound is never what stops a job. |
| `requests_gorm` (1,494,654) | 3 jobs with one key (one of a type nobody registered), 2 clients, 2 slots, unique index, 2 failures, 1 failed call, 1 cancel, 2 retries | Two concurrent requests and two executions of the same row, with keys looked up in vain: nothing is forgotten, QUEUED has a message, one row per key. Two retries are what it takes to have two messages for one row; a failed call is what makes a lookup miss the row. |
| `recovery_redis` (497,525) | 2 jobs, 2 slots, 1 crash, 2 failures | A crash between any two calls: the job comes back, an unlogged success is still owed a run, all jobs are settled in the end. |
| `faults_redis` (2,398,409) | 1 job, 2 slots, slow handlers, 1 crash, 1 failed call, 2 failures, 1 retry | The same message executed by two slots at once, with ignored errors: nothing forgotten, overcounted or buried early. |
| `pool` (82,823) | 2 loops, PoolSize 2, 8 messages, one hanging, a new row or one of an earlier process with 2 active jobs | 2 loops + 4 in the channel + 2 in the batch: with 8 messages everything is full at once. The row is right up to one from the first heartbeat on, over an old row as well. |
| `memory_queue` (252,347) | 2 consumers, 2 callers, batch 2, 3 messages | The mutex and the channel lose no wake-up, every message is delivered, `Broker` is implemented. Two of everything is enough for the wake-up of one to be taken by the other; the third message makes a batch leave a rest. |
| `redis_broker` (68,526) | 2 workers, batch 1, 2 entries, 1 failed command, 1 crash, 1 dead letter of each job, one job unreadable; time passes as often as it takes | No busy entry is claimed, an entry waits for ever only behind claims that never end, `Broker` is implemented. Entries go idle and are claimed again without a bound, which is what it takes to keep a new entry waiting; a second worker takes from the first what it does not acknowledge. |
| `service` (100,522) | 1 job of 3 kinds, max_attempts 2, 6 deployments, each process stopped once, 2 webhook failures, 1 reclaim of a failed attempt's entry | Stopped, killed or not registered at any moment, in the deployments of docker-compose, with both workers, in development, with SQL rows and a memory broker, with nothing set, and with a forgotten DATABASE_URL. With both workers the second one stopped meets what the first left behind. |
| `api_server` (454,610) | without the limiter: 2 clients, 2 jobs, pages of 1, 3 requests, 3 stores, 1 failed call; with it: 3 clients at 2 addresses, 3 requests, 4 seconds, 19 requests per minute, no jobs | Pages, totals, walks, error codes and rates. A page of one job makes every walk end on a page that is not full. At 19 per minute the burst is 1 and a second request is admitted after four seconds and refused before; two clients of one address race for the same bucket, the third has its own. Jobs and buckets do not touch each other, so jobs are created only without the limiter. |

Three runs refute what the documentation says of the code (`TaskQueueClaims`):

| run | claim | what TLC finds |
|---|---|---|
| `claim_succeeded_final` | `docs/architecture.md:124` "QUEUED → RUNNING → SUCCEEDED (end)" | handleFailure requeues without acknowledging, so with Redis a failed attempt leaves two messages; after one succeeds, the other starts the job again and SUCCEEDED becomes RUNNING (`worker.go:214`). |
| `claim_key_once` | `docs/api-reference.md:72` "idempotency_key: Ensures job is only processed once" | two requests look the key up before either inserts; memory and pgx stores accept both rows, and both jobs run. |
| `claim_delivered` | `docs/architecture.md:46` "Message Acknowledgment - Ensures at-least-once delivery" | one failed GetJob acknowledges the message of an accepted job (`worker.go:210`). |

### Properties that deserve a word

- `NoJobForgotten` excludes `dropped`: the jobs whose only message a failed call
  lost. That is the code's behaviour (a failed Enqueue answers 500 and leaves the
  row; a failed GetJob acknowledges). Without the exclusion it is refuted by
  `claim_delivered`.
- `QueuedIsBacked` excludes `dropped` and types nobody registered for the same reason.
- `AcceptedSurvives` names the two ways in which a restart loses an answered job: a
  part of the API's state was in its memory (`Volatile`), or a worker that shares
  the API's broker looks for the row in a store of its own and acknowledges the
  message (`SplitStore`). Everything else survives, although a stopping worker
  treats an interrupted handler as failed and an unreadable row as missing: the
  cancelled context that causes both also keeps it from writing and acknowledging.
- `AdmittedWithinRate` counts from every admitted request on, so the first minute
  may see the burst on top of the rate: `n` per minute admits up to `n + n/10`.
- `WalkSkipsNothing` leaves out jobs whose created_at another job shares, and walks
  with a status filter during which a job left the status: the code does skip those.
- `ActiveWithinOne` states the real bound: the counter may stay one too high for
  ever, since `incrementActive(1)` may run after the job is finished and the
  counter does not go below zero.
  From the first heartbeat on the row shows that counter, whatever an earlier
  process left in it, unless the last heartbeat failed; before, its status is not
  yet busy or idle, and its number may be the earlier one's (section 6).
- `EveryEntryHandedOut` does not say that every entry is handed out: Consume returns
  claimed entries before it reads new ones, and handleFailure acknowledges nothing,
  so workers that are handed the same failed entries every 30 s keep new ones
  waiting for as long as they are. It says that nothing else can: an entry that is
  never read waits behind claims of old entries without end, one that stays idle
  behind claims of older ones. Idle periods are not bounded in the run.
- `FailuresExplained` takes the store's own 500s as they are, among them that of pgx
  for a job that is not stored, where the documentation has a 404 (section 6). It
  says that they reach no other request: a job that is stored when it is looked up
  is answered in every store.
- `StoresAgree` goes one past the number of rows with limit and offset, since larger
  ones give the same pages; `StoresCorrect` proves it for all.

### Fairness

- `TaskQueue`: a started request finishes (WF on each client's `ServeRequest`), and
  each slot takes a message or continues its execution (WF on `Take \/ Execute`).
  Go schedules runnable goroutines, store and broker calls return, and handlers in
  the registry end. No fairness on clients' decisions, failures or crashes.
- `Service`: WF for each process's main and for its worker. That a process stopped
  is started again is an assumption on whoever runs it (`docker-compose.yml` has no
  restart policy); that handlers return is what the registry's handlers do. No
  fairness on clients, stops and failures.
- `ApiServer` states no liveness.
- `MemoryQueue`, `RedisBroker`: each consumer keeps calling Consume (WF), which is
  what `consumeLoop` does until shutdown. No fairness on callers or on time.
- `WorkerPool`: WF for `consumeLoop`, each `processLoop` and the return of Start
  (the timer fires). SF for `Fetch`, because Consume may return empty-handed any
  number of times (its timeout of a second) yet finds a waiting message now and
  then; `EveryMessageDelivered` and `EveryEntryHandedOut` are why.
- `JobLifecycle`, the abstract side of `LifecycleSpec`, has WF of its own, which
  the fairness of `TaskQueue` is shown to imply in `create_memory`.

## 4. Proofs

All theorems hold for every value of the constants that satisfies the named
assumptions (`TaskQueueAssumption`, `WorkerPoolAssumption`,
`MemoryQueueAssumption`, `RedisBrokerAssumption`, `RateLimitAssumption`,
`ApiServerAssumption`, `ServiceAssumption`), and without fairness. Those with a
further hypothesis have it in the table. The inductive invariants were checked by
TLC on the run of their module before they were proved.

| module | theorem | argument |
|---|---|---|
| `TaskQueue_proofs` | `TypeCorrect` | one lemma for the steps of a request, one for those of a slot |
| | `AttemptsCorrect`: `AttemptsNeverOvercount` | inductive as it stands, because it speaks of every copy that will be written back, not only of the rows |
| | `BurialCorrect`: `NoEarlyBurial` | not inductive: BuryMessage does not look at the attempts. `DecisionKept` carries handleFailure's decision from the handler's failure to the burial; the previous theorem turns counted attempts into failures |
| | `DeliveryCorrect`: `NoJobForgotten` | `EffectBeforeAck`: only an execution whose handler succeeded reaches its Ack. For the memory broker the slot itself, for Redis the pending entry owes the run |
| | `KeysCorrect`: `OneJobPerKey`, given `UniqueKeys` | inductive with the types: rows are made by Insert only (`OnlyInsertMakesRows`), and the index refuses a second one |
| `TaskQueueOwed_proofs` | `OutcomeCorrect`: `OutcomeLoggedOrOwed`, given `Budget["fault"] = 0` | `LogInv`: whoever runs has its message in the pending list (`SlotsOwed`), and a row without its record has a message to come (`RowsOwed`), because executeJob acknowledges last |
| | `QueuedCorrect`: `QueuedIsBacked`, given `Budget["fault"] <= 1` | `QueuedInv`: an execution of a job with a QUEUED row writes that row twice before it acknowledges, so it still will when it has both writes ahead of it, or one and no failed call is left (`WillSave`) |
| `TaskQueueOnce_proofs` | `OnceCorrect`: `OnceWithoutFailures` | `OneRun`: a job that met nothing has its message in one place at a time (request, queue or one slot), and a run only behind it. Its hypotheses are in the property, so it needs none |
| | `SettledCorrect`: `SettledOnce`, given `~AtLeastOnce` and no failed call, cancel or retry in `Budget` | `Counted`: with `OneRun` the job has one copy of its row, and that copy has counted every failure, so the decision to requeue or bury is the right one |
| | `LifecycleRefined`: the initial states and the steps of `JobLifecycle`, given the same | `Shown`: what the row shows at each place its one message can be in. One lemma for requests, one for slots; every write of a row is one step of the lifecycle or none |
| `WorkerPool_proofs` | `PoolTypeCorrect`: `TypeOK` | with `SendHasBatch`: consumeLoop sends only from a batch that is not empty |
| | `CountCorrect`: `ActiveWithinOne` | a new or an old row says neither busy nor idle until a heartbeat writes both its fields; the cardinality of the busy loops changes by one with each step; the counter stopped at zero is the case in which the difference becomes one |
| | `DeliveryRefined`: `DeliverySpec` | `FifoInv`: `jobChan`, the batch and the stream, in this order, are the end of the backlog, so a message is behind exactly one of them; each earlier one is with one loop or handled |
| `MemoryQueue_proofs` | `QueueTypeCorrect`: `TypeOK` | `QueueInv`: types, and every message in the queue, in a consumer's hands or in a caller's was created by Enqueue |
| | `WakeupCorrect`: `NoLostWakeup` | inductive with the types |
| | `QueueImplementsBroker`: `BrokerSpec` | each step is a step of `Broker` or changes nothing it sees |
| `RedisBroker_proofs` | `RedisTypeCorrect` | what is pending, deleted, claimed or held was read; XREADGROUP reads exactly the next entries (`BatchIsNew`) |
| | `DeletionCorrect`: `DeletedIsAcknowledged` | an entry enters the pending list once, when it is read, and can be acknowledged only afterwards |
| | `RedisImplementsBroker`: `BrokerSpec` | the unread part of the stream is the queue: XADD appends to it (`QueueGrows`), XREADGROUP takes its front off (`QueueShrinks`); XACK is Ack, all other commands change nothing `Broker` has |
| | `ClaimsCorrect`: `NoClaimOfBusyEntry` | `HandedOut`: only XCLAIM and XREADGROUP add to a worker's hands, the one what is idle at that moment, whatever XPENDING listed, the other what is new |
| `ApiServer_proofs` | `ApiTypeCorrect`: `TypeOK` | with the other parts of `ReadInv`: types of requests need that a page is a sequence of rows |
| | `AdmissionCorrect`: `AdmittedWithinRate` | not inductive: the times say nothing of the next request. `AtMost` relates the bucket to the times: for each admitted request, the cost of all since then plus what the bucket holds is at most the burst plus the refill. `RefillAdds` is the arithmetic |
| | `RefusalCorrect`: `RefusedOnlyOverRate` | `AtLeast`: for some admitted request (the one that found the bucket full) it is exactly that, so a bucket without a token means that one more would exceed the rate; with `ClientInv`, that a request at Allow has a bucket and no answer yet |
| | `TotalsCorrect`: `ShortPageReachesTotal` | `TotalsInv`: between COUNT and SELECT the rows only grow (`StoredGrows`), so what was counted bounds the page from below |
| | `FailuresCorrect`: `FailuresExplained` | the steps that answer 500 without a failed statement, one by one: `Recover`, to which a request comes only with a range the memory store cannot cut (`PanicsInv`), and GetJob and ListJobs of pgx |
| | `WalksCorrect`: `WalkSkipsNothing` | `WalkInv`: a job still due and unseen is at or behind the offset of the next page. Listings are ordered by time, so an insert moves it back only (`PlaceOfJob`), and a page takes what is between two offsets (`PageOrBehind`) |
| | `StoresCorrect`: `StoresAgree`, and `PagesAgree` for every positive limit and every offset in `Nat` | the three ways to cut a page agree on proper ranges (`ProperPages`), in every state with finitely many rows |
| `Service_proofs` | `ServiceTypeCorrect`: `TypeOK` | `BaseInv`: with the types, only deployed processes run (`ProcessesRun`), each execution has a Redis entry of its own (`EntriesHeld`), and messages are only at the broker the API publishes to (`MessagesAtHome`) |
| | `ServiceOnlyFailuresCount`: `OnlyFailuresCount` | not inductive: the rows say nothing of the copies. `CopiesCounted`: only in a worker whose context is cancelled can a copy be ahead of the failures, and the SQL writes of that worker have no effect |
| | `ServiceAcceptedSurvives`: `AcceptedSurvives` | `AcceptedInv`: where nothing excuses a loss and the job is not settled, it has a message nobody read, or more runs are owed than executions are about to give up (`Taken`, `Closing`). A stopping worker fails to save and to acknowledge by the same cancelled context |

**The hypotheses on `Budget` and the broker** are what the code needs, not what
the proof needs; without them the properties are false:

- a failed AppendJobLog, whose error executeJob discards, loses the record of a
  success for good (`OutcomeCorrect`);
- when both saves of one execution fail, it acknowledges and leaves a QUEUED row
  without a message (`QueuedCorrect` allows one failed call, wherever it strikes);
- a failed save loses a counted attempt, a cancel or a retry overwrites a row that
  somebody works on, a retry publishes a second message, and Redis delivers a
  failed attempt's entry again (`SettledCorrect`, `LifecycleRefined`). The run
  `create_memory`, which checks both properties, is an instance of the hypotheses.

**Only model-checked:** liveness, since fairness and ENABLED are outside of what
the prover does: the fairness of `LifecycleSpec`, `EventuallySettled`,
`EveryMessageDelivered`, `EveryEntryHandedOut`, `FetchedIsHandled` and
`ShutdownEnds`. Every safety invariant and action property of the passing runs,
and every refinement but for the fairness of `LifecycleSpec`, is proved.

## 5. Not modelled, and why

- MAXLEN: XADD trims a stream of more than about 10,000 entries and may remove
  entries that nobody has read (`redis.go:115`). `Broker`, which `RedisBroker` is
  proved to implement, would have to lose a message at any moment.
- The interleaving of several executions with stops: `Service` has one slot for each
  worker and no logs; `TaskQueue` has several slots and crashes, but no signal.
- ListJobLogs, ListWorkers and the queue statistics, which read one table in one
  statement; the filters of ListJobs other than the status, which are further
  conjuncts of the same WHERE.
- The milliseconds of `calculateBackoff` (at most 27 s, the pause in Requeue): the
  models let the pause take any time. `RateLimitWithDuration`, which nobody calls.
- HTTP, connection pools, CORS, authentication, request ids: filters on one request.
  Metrics, logs, traces and the collector: written and never read back. The CLI and
  the dashboard: clients without state.
- The gRPC service needs generated code that is not in the repository, is wired into
  no process, and `grpc/service/job.go` does not parse; the SQL migrations are
  applied by no process.

## 6. Divergences seen in the code and not made into runs

- The tests expect an Ack after Requeue and SendToDeadLetter
  (`worker_test.go:128,163,198`); handleFailure makes none. With Redis a job that
  failed for good is therefore run again every 30 s.
- `architecture.md:114,128` show RETRYING → QUEUED; the code goes from RETRYING to
  RUNNING.
- `jobs.go:193` cancels "if still queued" and `api-reference.md:147` "a queued or
  running job": only the copy's status is checked, so the row of a job that runs by
  now can become FAILED, and a cancelled job's message is executed all the same.
- After a failed Enqueue, a repetition with the same key is answered 200 with a job
  that will never run.
- An unknown type is accepted (202) and stays QUEUED; `api-reference.md:321` names
  an error INVALID_JOB_TYPE.
- A failed UpdateJob after success leaves RUNNING for good;
  `architecture.md:219` says the state is always consistent.
- `api-reference.md:70` says max_attempts defaults to 5; the code's default is 3.
- `architecture.md:34` says a status report every 5 seconds; heartbeats are written
  only when the counter changes. `api-reference.md:260` has a status `offline`,
  which nothing writes; GetActiveWorkerCount counts workers whose status is
  `active`, which the SQL stores never write.
- `RegisterWorker` keeps the `active_jobs` of a worker that was killed
  (`postgres.go:316`): until its first job it reports one that nobody runs.
- With the pgx store a job that does not exist answers 500 (`postgres.go:187`), not
  404 (`api-reference.md:314`): the driver's "no rows" is compared with another one.
- A negative offset is 500 with the memory store (a panic) and with pgx (refused by
  the database), and counts as 0 with GORM; limit 0 lists everything in memory and
  50 rows with SQL.
- `api-reference.md:323` names the error RATE_LIMIT_EXCEEDED, the code
  RATE_LIMITED; the limit "per minute" admits the burst of a tenth on top.
- `configuration.md:40` names SHUTDOWN_TIMEOUT; the code reads
  WORKER_SHUTDOWN_TIMEOUT_SECONDS, and main does not pass it to the worker.
- `STORAGE_DRIVER=postgres` without DATABASE_URL runs in memory without an error.
- The CLI cancels with POST where the server has DELETE, and asks for the health
  check below `/v1`.

## 7. Plan

Done: all modules of section 2, their runs and the proofs of section 4. What is
left, in this order:

1. **Proofs**: every safety invariant and action property of the runs is proved.
   Left are theorems that no run can show: what `QueuedIsBacked` becomes after a
   second failed save, and `SettledOnce` until the first failed call or request
   by hand instead of in their absence.
2. **MAXLEN** as a small constant of `RedisBroker`, with a `Broker` that may lose
   messages.
3. **ListWorkers** with the 30 s rule of "offline", once something applies it.
