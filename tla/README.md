# Verification of the OpenClaw enterprise plugin

TLA+ models, TLC runs and TLAPS proofs for the plugin's own logic: the kernel's
backends (queues, storage, locks, caches, event buses), what a request passes
through (middleware, rate limit, quota, API keys, policies), what agents do
(workflows, handoffs, tasks, runtimes), reliability, audit, migrations and the
bootstrap. Paths are relative to the repository's parent
(`src/src/...` is the TypeScript source, `src/docs/...` the documents).

1. [The system](#1-the-system) - components, state, operations, interactions
2. [Hard behaviours](#2-hard-behaviours) - hazards
3. [Modules and how they correspond to the code](#3-modules-and-how-they-correspond-to-the-code)
4. [Runs: what is checked and what it shows](#4-runs-what-is-checked-and-what-it-shows)
5. [Bounds](#5-bounds) and [fairness](#6-fairness)
7. [Proofs](#7-proofs)
8. [Where code and documents disagree](#8-where-code-and-documents-disagree)
9. [What is not modelled](#9-what-is-not-modelled)
10. [Plan](#10-plan)

## 1. The system

The plugin (`src/bootstrap.ts`, `src/index.ts`) builds a *kernel* of
infrastructure backends, each with an in-memory and an external implementation,
and on it the *modules*: governance, audit, collaboration, embedding, isolation
and reliability. Everything runs on Node's event loop: a function runs without
interruption to its next `await`, so the interleavings are those of calls
suspended at awaits, of timers, and of several processes sharing Redis and
Postgres.

| Component (source below `src/src/`) | State | Operations | Interacts with | Correct when |
|---|---|---|---|---|
| **In-memory queue** `kernel-impl/memory/queue.ts` | array of messages per queue (state, attempts, visibleAfter), subscriptions with an interval | enqueue, dequeue, ack, nack, subscribe, poll, purge, replay, shutdown | handlers; DLQ manager and queue routes | one holder per message, exact retry budget, deduplication, completion final, a subscribed queue drains |
| **DLQ manager, queue routes** `reliability/dlq`, `embedding/api/routes/queues.ts` | none | list, replay, purge | queue | (the queue's) |
| **Circuit breaker** `reliability/circuit-breaker` | state, counters, openedAt, probe budget | execute, reset | the protected call, withTimeout | probe budget kept, never wedged, documented transitions only |
| **Storage, Postgres** `kernel-impl/postgres/storage.ts`, `connection.ts` | table `kv_store`, row locks, transactions | get, set, delete, list, batch*, atomicUpdate, transaction | Postgres | a call is one atomic step or none; locks end |
| **Storage, memory** `kernel-impl/memory/storage.ts` | map of maps | the same | - | at least: calls that overlap nothing are exact |
| **Locks and election, Redis** `kernel-impl/redis/lock.ts` | the key in Redis; currentLock, isLeaderFlag, interval | acquire, extend, release, electLeader, resign, shutdown | Redis, redlock | one leader, a lost lock makes the leader step down, a leader emerges |
| **Locks and election, memory** `kernel-impl/memory/lock.ts` | one entry per key with token and expiresAt; sweep timer; per election a handle, a flag, an interval | acquire, extend, release, electLeader, resign, evict, shutdown | - | nobody loses an unexpired lock; a leader that lost it learns so |
| **Queue, Redis** `kernel-impl/redis/queue.ts` | BullMQ jobs in Redis; a map of one worker per queue | the queue's | BullMQ | one run at a time unless the lock is lost, runs are budgeted, jobs settle |
| **Cache** `kernel-impl/*/cache.ts` | entries with ttl | get, set, has, delete, increment, setIfAbsent | quota, sessions | increments counted, one first setter, a counter with a ttl expires |
| **Event bus** `kernel-impl/*/event-bus.ts` | subscriptions by pattern | publish, subscribe, once | workflow, handoff, audit | an event reaches the subscribers there are; once ends exactly once |
| **Token quota** `governance/quota` | usage row and cache entry per key and window | check, consume, getUsage | storage, cache | no overspending, no false denial |
| **Workflow engine** `collaboration/workflow` | definitions; instances in storage; suspended executions | startWorkflow, signal, getInstance | storage, event bus | completed means all steps ran; progress and ends are kept; every instance ends; signals are captured |
| **Handoff** `collaboration/handoff` | requests in storage | create, assign, resolve, cancel | storage.atomicUpdate, event bus | one end, which stands and which the events tell |
| **Knowledge** `collaboration/knowledge` | entries in storage | get, set, delete by id, search | storage.list page by page | entries are found, and the right one deleted, while others write |
| **API keys** `embedding/api-key` | a row and an index row per key | create, validate, revoke, rotate; routes | storage | revoked stays revoked; old key out before the new |
| **Tasks** `collaboration/task`, routes `tasks.ts` | task rows; transition table | create, cancel | storage, queue, the host's worker | ended stays ended, waiting has a message |
| **Generic state machine** `reliability/state-machine` | current state, history | send, serialize, restore | guards, awaited actions | history, state and answers agree |
| **Cascade kill** `reliability/timeout` | timers per task: signal, abort, kill | register, cancel, trigger | callbacks | one cascade, stopped by cancel, it ends |
| **Rate limiter, middleware** `embedding/rate-limiter`, `middleware` | window counters; the requests under way | consume, cleanup, reset; authn, tenant, authz, rate limit, audit | identity, policies, audit | the handler runs for the permitted only; one audit event that agrees; the limit in every window, so at most twice the limit in a window's length |
| **Audit** `audit` | buffer, flush timer, batches being written | emit, flush, start, stop, query | storage, bus, log, webhooks | every event reaches each sink once, in order, unless the sink failed |
| **Checkpoints** `reliability/checkpoint` | rows in storage | save, load, loadLatest, list, delete | storage.list page by page | the latest is the latest |
| **Runtimes** `isolation/runtime` | instances; containers, pods, network policies | create, destroy, get | Docker, Kubernetes | stopped stays stopped, a pod is confined |
| **Bootstrap** `src/bootstrap.ts`, `kernel/bootstrap.ts` | the singleton; backends and services | bootstrap, shutdown | everything | what is published is whole; nothing is left behind |
| **Policies** `governance/authorization` | policies in memory and storage, cached abilities | initialize, loadPolicies, authorize | storage | cache and memory agree; a restart decides alike |
| **Identity** `governance/identity`, **content filter**, **health and metrics**, **retry**, **secrets**, **network policy**, **other REST routes** | little or none | reads and pure functions | libraries | - |
| **Migrations** `kernel-impl/postgres/migrations` | schema_migrations | runMigrations in each process | Postgres | each takes effect once, in order; somebody starts |

`PROJECT.json` lists every component with its files and status.

## 2. Hard behaviours

What a test would hardly reach, and where it is covered. `PROJECT.json` gives
each at its line.

* **Awaits between a read and a write.** `atomicUpdate`, `increment` and
  `setIfAbsent` of the memory backends, `consume` and `readUsed` of the quota,
  `resign` and `tryAcquire` of both elections, `save` and `once` of the workflow
  engine, `revoke` against `validate`, the two updates of a handoff, cancel of a
  task against its worker. *MemoryStorage, Caches, TokenQuota, LeaderElection,
  MemoryLock, WorkflowEngine, ApiKeys, Handoff, Tasks.*
* **Reads that take several calls.** Knowledge and checkpoints are looked up page
  by page while others write, and a page of Postgres is two statements, a count and
  a select; migrations read what is applied and then apply.
  *PagedRecords, Migrations.*
* **Activations that overlap.** `setInterval` does not wait for
  `renewOrAcquire` nor for a flush; a breaker's call is admitted in one state and
  settles in another; a queue's handler returns after purge, replay or shutdown,
  or after its job was stalled and run again; a transition's action lets other
  sends by; a start overlaps a start or a stop; a queue is subscribed to while its
  backend's shutdown awaits a worker; a second start leaks the interval of the
  first. *LeaderElection, AuditPipeline,
  CircuitBreaker, MemoryQueue, RedisQueue, StateMachine, Bootstrap.*
* **Callbacks that call back.** A cascade's callback that cancels or triggers its
  own task, a handler that publishes, subscribes or unsubscribes while its event is
  still being handed out, an onElected that throws. *CascadeKill, EventBuses,
  LeaderElection.*
* **External systems.** Row locks that a missing row cannot carry, batches that
  lock in opposite orders, READ COMMITTED; BullMQ's locks and stalls; a
  subscriber connection that is lost; pods and policies that are two objects.
  *PostgresStorage, RedisQueue, EventBuses, AgentRuntimes.*
* **Time.** Ttl expiry while a renewal is under way, `once`'s timer against the
  signal, half-open cooling, windows that end under a suspended call. *Actions of
  a clock, or the interleaving of the timeout with the answer.*
* **Failures half way.** A call that fails between two statements or commands, a
  release or extend that throws, `cache.set` after the charge, a save or a
  subscriber or a sink that throws, an initialization that rejects, a crash with
  executions, runs, batches or creations under way. *Modelled in the module of
  each.*
* **Limits and boundaries.** maxAttempts 0, limit 0, amount 0,
  halfOpenMaxCalls below successThreshold, the point where two windows meet, a
  full audit buffer, the page limit.
* **Progress.** A queue that drains, jobs that settle, a breaker that leaves
  half-open, an election that finds a leader, calls that settle in spite of
  deadlocks, workflows, cascades, starts and promises that end. *Checked under
  the fairness of section 6.*

Smaller hazards seen in the modelled code and left out, with the reason:

* `queue.ts:150` completed messages stay in the array for ever: unconditional
  growth, nothing to explore; `queue.ts:81` scheduledAt is stored and never read.
* `circuit-breaker.ts:147` onStateChange that throws or calls the breaker: the
  source does not constrain the callback.
* `postgres/storage.ts:204` a batch that names a key twice is refused by
  Postgres and accepted in memory; `memory/storage.ts:58` rows are handed out by
  reference. Both concern callers that src/ does not contain.
* `redis/lock.ts:136` a second electLeader for the same candidate overwrites the
  interval: no caller in src/ does it.
* `token-quota.ts:175` ttl 0 for a window that has ended keeps its cache entry;
  `token-quota.ts:133` usage rows are never deleted. Memory only.
* `simple-workflow.ts:48` initialize reads one page of definitions.

Where a document does say otherwise the disagreement is in section 8. Met
while modelling besides, with no document, comment or test against it, or only
for the host to run into:

* `routes/policies.ts:9` POST replaces all policies in memory while storage keeps
  the others, which come back with the next process (RestartKeepsDecisions).
* `routes/api-keys.ts:18` keys made by the route have no `k:` and `h:` rows: the
  manager never accepts them, and the DELETE route does not find the manager's.
* `routes/sessions.ts` lists messages by the session's key as prefix, while their
  ids are UUIDs; `src/index.ts` builds the request for Hono without its body; the
  OIDC refresh route returns a field that the provider does not fill.
* `embedding/api/rest-api-builder.ts` mounts cors only: the middleware chain that
  RequestPipeline models is the host's to use. The audit pipeline is neither
  started nor stopped by the bootstrap.
* `storage-sink.ts:35` a batch of several tenants is stored under the first
  event's (MovedToEarlier says exactly that). `audit-sink.ts:5` has a sink's errors
  logged and retried: the webhook sink retries, the pipeline does not (Accounted).
* `redis/queue.ts:132` a second subscribe overwrites the first worker in the map,
  and one that comes while shutdown awaits a worker is behind its loop: such workers
  stay open (LeftOpen).
* `memory/event-bus.ts:27` an event that a handler publishes overtakes its own event
  for the later subscribers, and a once handler may be called with both, of which
  its promise has the first (HeardInOrder, OnceSettlesOnce).
* `memory/lock.ts:70` an election tries once; if the lock is taken it never leads.
* `token-quota.ts:54` initializes and shuts down the kernel's storage and cache
  once more: besides item 6 of section 8, a Postgres pool or a cache timer is lost.
* `cascade-kill.ts` the end of a cascade forgets a registration made during it.
* `storage-checkpoint.ts:106` of two checkpoints of one millisecond loadLatest
  returns the one saved first. `storage-knowledge.ts:75` two sets of a new key
  return two ids, the first of which no longer exists.
* On Postgres a listing has no order, so what takes more than one page (200 or
  500 entries) may be missed there, and so may an entry of a full page when another
  is inserted between `postgres/storage.ts:111` (the count, from which hasMore is
  told) and `:123` (the rows); in memory, newest first, an entry is missed only if
  another is deleted or updated meanwhile (AnswersComplete).
* `migrations/runner.ts:73` of processes that migrate at once all but one may
  reject with a duplicate key (SomeServerStarts).

## 3. Modules and how they correspond to the code

The map in `PROJECT.json` gives the lines of every definition.

**QueueContract** is what `kernel/queue.ts` promises about one message: it has
at most one holder, only its holder settles it, a completed message does not
come back. **MemoryQueue** is the in-memory backend. Its methods have no await
before their last write, so each is one action; the interleaving is that of
deliveries. `state`, `info` and `attempts` are the message's fields, with
`"absent"` and `"gone"` for not yet and no longer in the array; `ripe` says that
visibleAfter has passed; `inflight` are the deliveries somebody still works on;
`active` are the active subscriptions. Enqueue has the deduplication,
Visible / Before / First the filter and sort of dequeue, Take the rest of it;
Poll is `processPendingForSubscribers`; HandlerResolves and HandlerThrows its
wrapper around the handler; NackState the branch to dead_letter. The refinement
mapping takes a message's holder from `inflight` while it is in processing.

**CircuitBreaker** splits `execute` at its await: Enter or Reject, then Succeed
or Fail. `cooled` says that resetTimeMs have passed since openedAt. The
consecutive counters are counted up to their thresholds, the only comparison
made of them. `probes` is an auxiliary variable: the running calls admitted in
the present half-open episode.

**StorageContract** is what `kernel/storage.ts` promises its callers. A row is
the set of the calls its value incorporates, so a lost update is a call missing
from a row. **PostgresStorage** runs each method as its statements:
SelectForUpdate then Upsert (atomicUpdate), Upserts in any order (set, batchSet,
the writes of a transaction), Delete, then Commit or Abort. Postgres is
external; the model keeps statement-level visibility of committed rows, row
locks to the end of the transaction, and that an absent row has no lock to take
while an uncommitted insert of the same key makes others wait. **MemoryStorage**
runs each method as its pieces between awaits, without isolation or undo. It is
not shown to implement the contract, because it does not: LossOnlyUnderOverlap
says what is left of it.

**LeaderElection** is `electLeader` with one candidate per process. `key` is
what Redis holds, `currentLock` and `leaders` (the isLeaderFlag) the object's
fields, `task[c][i]` the activations of tryAcquire / renewOrAcquire suspended at
an await, task 0 the release of `resign`. Acquired, Refused, Extended,
ExtendFailed and Released are the answers of Redis and redlock (external; redlock
invalidates the handle that extend replaces, so an extend may fail although the
lock is held); Win and Depose are the code after the await, and ElectedThrows is Win
when the callback of onElected throws (for the candidates in `Throwing`): the catch
clears the flag and keeps currentLock. Stop is the end of
the process, by a crash or after the backend's shutdown: with the process its
flags are gone. `late` is auxiliary: a key has expired although its owner was
renewing it.

**TokenQuota** suspends check and consume at each await: `limit`
(resolveQuotaLimit), `update` and `write` (atomicUpdate), `store` (cache.set),
`lookup`, `load` and `fill` (readUsed). The window is fixed at the start of the
call, as in the code. Whether two updates may overlap is the storage backend's
matter and is shown by the storage modules; TokenQuota allows it always and notes
it in `raced`, so its properties say exactly what a caller gets from a backend
that serialises updates of a row, and claim nothing about the others.

**WorkflowEngine** suspends an execution at each `storage.set`, split into the
write (visible to others) and the continuation, and at `eventBus.once`. BeginStep
and RunStep are the two halves of executeStep's loop; FailInstance and Rejects
its catch; Signal and Publish the two halves of `signal`; the in-process bus
calls the handlers subscribed at that moment. Crash ends all executions and keeps
what is stored. agent_task, condition and parallel steps push a result that
depends on nothing and are one kind, `"task"`; human_review and wait_signal are
`"wait"`.

**RedisQueue** is one queue of the BullMQ backend. A job's record is what Redis
keeps of it (place, attempts made, stalls, starts, whose lock), `runs` are the
handlers that run, also after they lost the job, `entry` is the class's map of at
most one worker. The scripts of BullMQ (add, moveToActive, moveToFinished, the
stalled check, promote) are external and one step each; AddJob, Work, CloseWorker,
NackJob, Drain, Replayed and ShutdownRedis are the class's methods around them. Work
(subscribe) has no guard but the number of workers. shutdown is the loop of the code:
StopWorker comes to the entry of the queue and awaits its close, ShutdownEnds is what
follows it; `left` notes the workers it cannot find.

**MemoryLock** is the in-process lock: `holder` stands for the token, since a
client acquires once; `election` has the closure variables of each electLeader.
TryAcquireGoesOn, Deposed and ResignGoesOn are what follows the awaits, before
which other calls may run but no timer.

**Caches** has both backends, `value`, `ttl` and `life` of one key: the memory
backend's increment and setIfAbsent are a look and a set, the Redis one's up to
three commands (Incr, Pttl, Pexpire), with other clients or a failure in between.

**EventBuses** has both buses for events of one type. publish hands an event out
in one turn; HandlerCalled is one handler of it, and until HandedOut only what the
handler that runs calls may come in between: unsubscribe, subscribe and, in the
process, a publish, which hands its event out before the first goes on. `dispatch`
has, for each event, to whom it still goes; `within` notes inside which dispatches an
event was published. On Redis the message takes the subscriber connection
(`channel`), which may be lost.

**Bootstrap** starts the kernel's backends at once and then the services; `alive`
and `pending` are the parts of an instance that are initialized and being
initialized or shut down, a local part in the step that makes it, a remote one when
its await ends. BootstrapEnterprise, BootStep, ShutdownEnterprise and StopStep are
the pieces between awaits.

**Migrations** is runMigrations as each process that starts runs it, statement by
statement, for processes of several releases.

**ApiKeys** makes each storage call of the manager a step, over a storage whose
atomicUpdate is one step (Postgres) or a get and a set (memory); **Handoff** does
the same for requests and adds the publish that follows. In both, `collided` /
`overlapped` note the rows written from a stale read, which the memory backend
allows and Postgres does not. **Tasks** has the routes' POST and cancel against a
worker of the host (external) that moves tasks by the table of TaskFSM.
**StateMachine** runs such tables: its send moves first and then awaits the
transition's action.

**RequestPipeline** is the chain of MiddlewarePipeline: a request goes `down` by
one middleware at a time and comes `up` again with an answer or something thrown;
each middleware's two halves are its own operator. The limiter's counter is
shared by the requests. MCRequestPipeline has its requests and stacks. **RbacPolicies** has the engine's policies, its cache of
abilities and what it stores one by one.

**PagedRecords**, of the agents' suite, looks up knowledge and checkpoints page after
page, between the writes of others. What a page holds is the backend's order: newest first in
memory, where a page is one step, any choice of rows from Postgres, which is given no
ORDER BY and asked twice: Lists counts, RowsRead selects, and others commit in
between. `stayed`
and `met` note for each call what was stored throughout and what happened.

**CascadeKill** has the three timers of one task, the three maps that remember
them and the stage whose callback is being called, since only a callback can come
between. **AuditPipeline** has the buffer, the timers (the current one and one that a
second start has leaked) and the batches that each
sink is still writing; Post tries a webhook again after a lost answer.

**AgentRuntimes** has the three backends; createInstance of a pod is CreatePod
and then ApplyNetworkPolicy, and what a pod may reach is the union of the policies
that select its labels (Kubernetes, external).

The other `MC*` modules instantiate a component for TLC, and `*Proofs` modules
hold the theorems: those of a component that was proved on its own
(MemoryQueueProofs, PostgresStorageProofs, TokenQuotaProofs, RedisQueueProofs) and
those of a suite with its other components (LocksProofs, RequestsProofs,
AgentsProofs, PlatformProofs).

MCPlatform, MCLocks, MCRequests and MCAgents put several
components into one instance: they share no state, `part`, fixed in the initial
state, says which one a behaviour is about, and the others keep an initial state of
theirs. So a suite's state space is the sum of its parts, and each part is explored
as it would be alone. SuiteTypeOK is the conjunction of the type invariants; a
property with several parts (StartsKept, AccessHolds, ...) is the conjunction of
named properties, each with its comment in the module of its component.

Components that rest on storage or a bus use the conclusions of the modules
about those by argument (`raced`, `atomic`, `oneStep`; a set that is visible before
it is answered, or throws without writing), not by INSTANCE.

## 4. Runs: what is checked and what it shows

| Run | Properties | Shows | Distinct states |
|---|---|---|---|
| queue_pass | TypeOK, SingleDelivery, DuplicateOnlyByReplay, RetriesEnd (RetryBudget, CompletedIsFinal), ImplementsContract, Drains | with pull consumers, subscriptions, purge, replay and shutdown interleaved, no double delivery, an exact budget of tries, deduplication broken only by a replay, final completion, and a drained queue while a subscription stays; the contract is implemented | 469 423 |
| redis_queue | RedisTypeOK, RunsAccounted (PulledWasTried, OneRun, RunBudget, LeftOpen, LateAnswerDropped), JobsSettle | two handlers have a job only after the first lost its lock or was nacked, a late answer is dropped, every start is paid for by an attempt or a stall, whenever a subscribe or unsubscribe comes, shutdown leaves open only workers that fell out of the map or came behind its loop; while a worker is open every job settles | 833 496 |
| platform: storage | UpdatesAtomic (LockExclusive, AllOrNothing, LossOnlyOnCreation), ImplementsContract | on rows that exist every Postgres call is one atomic step; a failed call leaves nothing; updates are lost only in a race to create the row | 232 949 (all parts) |
| platform: breaker | BreakerSound (ProbeBudget, NeverStuck, TransitionOrder) | calls of several episodes overlapping keep the probe budget and the documented transitions | |
| platform: cascade | CascadeObeys (OneCascade, CancelStops, Cancellable) | one cascade at a time and none after cancel, unless a callback calls back | |
| platform: bootstrap | StartsKept (InstancesKept: ActiveIsWhole, NothingLeftBehind, StopIsFinal) | the published instance is whole; what is left behind is left by overlapping starts, rejected starts or the quota manager | |
| platform: migrations | StartsKept (MigrationsHold: MigratedOnce, MigratedInOrder, SomeServerStarts) | however processes overlap and fail, a migration takes effect once and in order, and one process gets through | |
| platform: audit | EventsKept (NoDuplicates, Accounted, LogInOrder, MovedToEarlier) | nothing is dropped between flushes, and one sink's failure takes nothing from another; tenants are mixed only within a batch | |
| platform: bus | BusDelivers (HeardInOrder, OnceSettlesOnce, ReachesWhileOn, QuietAfterUnsubscribe) | each event once and in order, but for one published within the dispatch of another, and none missed but through the connection or an unsubscribe; once is settled by exactly one of event and timer | |
| platform: all | SuiteTypeOK, EachEnds (CallsSettle, HalfOpenEnds, CascadeEnds, CallsEnd, FlushedWhenStarted, OnceEnds) | deadlocked calls, half-open, cascades, starts and stops, events in a buffer and promises all end | |
| locks: redis | LeaderSafe (OneLeader, LeaderHoldsLock), LosersStepDown (StepsDown), LeaderEmerges | one leader while renewals are on time, a running leader that lost its lock steps down, there is always another unless the callback of the lock's owner threw | 441 162 (both) |
| locks: memory | LockKeeps (StaleLeaderLearns, ResignedLeadsIfEarly, LockStands), LosersStepDown (StaleLeaderDeposed), SuiteTypeOK | nobody loses an unexpired lock but by an act of its own; a leader that lost it learns so; who resigned leads only if it resigned before its election had its handle | |
| requests: quota | WithinLimit, DenialGenuine, BooksTrue (ChargesAddUp, CacheExact) | where updates do not race, no window is overspent, no denial is false and charges add up, whatever order the cache is written in and whatever throws; where calls do not overlap the cache is exact | 917 151 (all parts, up to symmetry) |
| requests: pipeline | RequestsGuarded (HandlerGuarded, AuditAgrees, AtMostTwice, NothingEscapes) | whoever ends a request, the handler ran for the permitted only, one audit event agrees with the answer, and a window's length sees more than the limit, but at most twice, which is what fixed windows give (section 8, item 7) | |
| requests: keys, policies | AccessHolds (RevokedRefused, OldOutBeforeNew, RevocationFinal, CacheAgrees, RestartKeepsDecisions) | on Postgres a revoked or replaced key never comes back, in memory only by an update that had read it before; cached decisions are current, and when a restart keeps them | |
| requests: storage | LossOnlyUnderOverlap | an update in memory is exact when no call on its key overlaps it | |
| requests: cache | CountersHold (TicketsDiffer, CounterExpires), SuiteTypeOK | on Redis two increments never get one count and a counter with a ttl expires; in memory only a set over an unread value breaks it | |
| agents | SuiteTypeOK, CompletedInFull, ProgressStands (ProgressKept, EndIsFinal), Settles | workflows: completed means every step ran with a signal of its own, saved progress and ends stand, every instance of a running process ends | 361 310 (all parts) |
| agents | PodsConfined, HandoffsEndOnce, MachineTrue, TasksKept | pods stay confined from the return of createInstance on; a handoff has one end that its events tell; history, state and answers of the machine agree; a task neither gets stuck nor comes back, but by cancel (section 8, item 8) or a stale worker | |
| agents: paged | ScansTrue (AnswersComplete, LatestIsNewest, RightEntryRemoved) | what is found, missed or seen twice page by page, and between the two statements of a page; the latest checkpoint in memory; delete takes the right entry, if it is still there | |
| queue_autonack | AutoNack (violated) | nothing nacks a message whose consumer went away | - |
| breaker_stuck | HalfOpenEnds (violated) | with halfOpenMaxCalls < successThreshold the breaker wedges | - |
| pg_creation | UpdateAppliesToLatest (violated) | two atomicUpdate calls that race to create a row lose an update | - |
| leader_resigned | LostLockStepsDown (violated) | a candidate that resigned during tryAcquire leads for ever | - |
| workflow_lost | WaitingCaptures (violated) | a signal to a waiting instance may reach nobody | - |
| bootstrap_full | StartsUnlessOutage (violated) | the README's complete configuration never starts | - |

Runs of one name are one run: `platform: bus` is the part `bus` of `platform`. In
`requests` the calls of all parts, and the pipeline's requests but q1, are the same names c1, c2, c3, so that one
symmetry set serves all of them: no part tells them apart, and the parts share no state.

Every property of a passing run has a mutant of the code (`PROJECT.json`,
"mutants"; in the modules, the definitions commented "Mutant") that violates it
under the same configuration.

Many properties hold under a condition (`late`, `raced`, `disturbed`, `read # Absent`,
`overlap`, `lapsed`, `collided`, `overlapped`, `outdated`, `torn`, `overtaken`,
`early`, `missed`, `inside`, `within`, `met`, `left`, Muted). Most of these are auxiliary variables, on
which no guard depends. The condition is part of the result: outside it the code does not keep the promise,
and it is as weak as TLC allowed - the mutants and the violation runs show both sides.

## 5. Bounds

* **Queue**: 2 messages, 2 subscriptions, 1 replay of a message, 2 consumers, 2
  priorities, one key, maxAttempts 0 and 2. Two messages are what order,
  deduplication and double delivery are about; a third adds no new pair.
  maxAttempts 2 has a retry and an exhaustion, 0 the boundary. AutoNack needs one
  message and one consumer.
* **Breaker**: 5 callers against a budget of 3 and thresholds of 2: more callers
  than probes, and stale calls beside fresh ones. The stuck run needs 3.
* **Storage**: 3 calls on 2 keys: two that conflict and a third that sees a state
  between them; two keys allow opposite lock orders. In `platform` one key always
  exists and the other comes and goes.
* **Election**: 2 candidates, one with 2 overlapping activations, 3 tokens. A
  token is reusable when nobody knows it, so acquisitions are unbounded; each
  process stops at most once (a restart is a new candidate). The callback of the
  candidate with one activation may throw.
* **Quota**: 3 calls of any kind, amounts 0 and 1, limits 0 and 2 that may change, two windows: two
  consumes that race, a third call between or after them, and a limit that the first
  two fill to the last unit and the third exceeds.
* **Workflow**: `task, wait, task` and `wait, wait`, 3 signals each sent once:
  waits in the middle, first, last and in a row, and a signal too many or too few.
* **Redis queue**: 2 jobs, maybe under one key, maxAttempts 2 and 1, 2 workers of
  concurrency 1, subscribed at any time, 1 replay of the first, maxStalledCount 1: a job can be retried, stalled once
  and stalled too often, run twice at a time and be replayed.
* **In-memory lock**: 2 candidates and 2 clients: somebody to wait, to evict and to
  take over while the first still believes to hold it.
* **Pipeline**: 4 requests, one of four kinds (admin, viewer without the permission,
  excluded path, no tenant header) and three by an admin or with a bad token, of which
  three reach the limiter in the order of the examples and four where it comes before
  authn; limit 2 in a window of 2 ticks of 3: where two windows meet three requests
  pass within a window's length. With limit 1 two admissions are always a window apart.
* **Keys**: 2 keys, so that one can replace the other, and 3 calls. **Policies**: 3
  policies for 2 users, a page of 2, 2 processes. **Caches**: 3 calls, the key set
  or removed twice. **Paged**: pages of 1 of at most 3 entries, 2 setters, 1 lookup:
  a lookup of three pages with two writes and a delete between any two.
* **Agents**: 3 instances of 2 agents; 3 calls on one handoff; 6 transitions by 2
  senders; 1 task with 2 cancels.
* **Cascade**: 2 registrations, 2 triggers. **Bootstrap**: 2 starts and 2 stops, of
  the in-memory configuration and of one with remote parts. **Audit**: 4 events of 2
  tenants in batches of up to 3, so that a full buffer, a timer and a rest occur.
  **Buses**: 3 subscriptions, 2 events, 1 lost connection. **Migrations**: 3 processes,
  2 migrations: two releases, and a third process that finds half of it done.

`CHECK_DEADLOCK FALSE` is set where all calls, candidates, jobs or instances may have
ended. The in-memory queue and the breaker alone (breaker_stuck) never stop and
are checked for deadlock.

## 6. Fairness

Only what the runtime really provides is assumed. What must end is stated as `[]<>` of
the settled state, "again and again nothing is under way", since calls, cascades and
starts may begin anew.

* **Queue**: Poll (its interval keeps firing), the clock (Ripen), and that a
  handler returns, for each message. Nothing is assumed of pull consumers: they
  may go away. Drains is for a queue where some subscription stays active.
* **Breaker**: an admitted call settles (withTimeout's timer rejects it), and
  callers keep calling (Enter). Without callers the code changes no state: the
  breaker is lazy.
* **Postgres**: a statement that need not wait is executed, and a member of a
  deadlock is aborted (deadlock_timeout). Nothing makes other calls fail or
  succeed.
* **Election**: intervals fire, Redis answers each request, answered activations
  continue, an unrenewed key expires. No fairness makes Redis answer an extend
  with success, or a candidate stop or resign.
* **Workflow**: an execution whose await is over goes on: storage answers a set
  and once's timer fires. No fairness for signals, and none for failures.

* **Redis queue**: for each job, an open worker takes it, finds it stalled or
  promotes it, a lock that no run renews expires, and handlers end. A worker that
  closes or crashes is owed nothing, so JobsSettle is for as long as one is open.
* **In-memory lock**: what follows an await runs, intervals fire; a client that waits
  tries again.
* **Cascade, bus, audit, bootstrap**: timers fire and callbacks end; handlers are
  called and return, and once's timer fires; the flush interval fires, and a sink's write is
  answered or throws; initializations and shutdowns settle. No message of Redis
  and no reconnection is assumed to come.

In a suite each fairness condition is that of the part the behaviour is about. The
quota, the memory storage, the caches and the other parts of `requests` have no
liveness property, nor have handoffs, tasks, runtimes and migrations: their calls
end when the backends answer.

## 7. Proofs

TLAPS checks these for every value of the constants, from the assumptions named
in the modules (finite callers and positive thresholds for the breaker, a token
other than Free, numeric limits, and so on). What a component's theorem needs
beyond them is in its statement: RequestsGuarded and the requests' SuiteTypeCorrect
assume StacksFit (no middleware twice, authz and audit among them), which
CheckedStacksFit proves of the two stacks that the run checks; MachineTrue assumes
that no transition leaves a terminal state, and TaskMachineTrue proves it of the
task's table.

Every safety property and action property of the passing runs is a theorem. The
proofs have one form: an invariant that says what a suspended call may rely on, kept
by each action; the property follows from it, or from it and one step.

* **MemoryQueueProofs**: TypeCorrect, SingleDeliveryHolds, RetryBudgetHolds,
  DeduplicationHolds, CompletedIsFinalHolds, RetriesEndHolds (the budget and the
  finality in one), Refinement. The inductive invariant
  adds Unused (a message not yet enqueued is nobody's delivery, so a new id is
  not held) and Tried (a message in processing has been tried, so a message with
  maxAttempts 0 dies after exactly one try). The refinement matches each action
  with an action of QueueContract or a stutter; the holder's exactness comes
  from SingleDelivery.
* **RedisQueueProofs**: RedisTypeCorrect, RunsAccountedHolds. RunBudget needs
  Budgeted: a job that waits has paid for every start by an attempt or a stall, and
  one that is not settled has attempts and stalls left, so that another start
  cannot exceed them. RunFits gives a handler a number not above that of the lock
  and, unless the job has lapsed, the lock itself; that is why two handlers of one
  job mean that it lapsed, and why a late answer completes nothing. WorkersFit says
  that who is open is in the map or out of the reach of shutdown (`left`), and only the
  latter once the loop of shutdown has gone past the queue.
* **PostgresStorageProofs**: TypeCorrect, LockExclusiveHolds, AllOrNothingHolds,
  LossOnlyOnCreationHolds, UpdatesAtomicHolds of the three, Refinement. The invariant adds Traces (only committed
  calls are part of a value), Shapes (what a transaction has locked and has still
  to write) and FreshRead (what SELECT ... FOR UPDATE read of an existing row is
  still there). FreshRead is what the row lock buys. The refinement is for the
  rows in Stable, which exist and are never deleted, and Populated says so.
* **PlatformProofs**, a part for each component:
  * *breaker*: BreakerTypeCorrect, ProbeBudgetHolds, NeverStuckHolds,
    TransitionOrderHolds, and BreakerSoundHolds of the three. NeverStuck needs
    Accounting: the part of the budget that is spent and not outstanding was spent
    by successes that are still counted, and fewer than successThreshold of them.
  * *cascade*: CascadeObeysHolds, from Alone (one timer or one callback, unless a
    callback triggered) and Forgotten (a task not registered has no cascade, unless
    a callback called).
  * *migrations*: MigrationsHoldAlways. Todo (what a process has not to do is
    committed, so it inserts in order), Inserting (uncommitted inserts are of
    different versions that nobody has committed) and SomeoneLeads (whoever
    committed last has nothing left that another has done, so that it is not the
    one to throw).
  * *bootstrap*: InstancesKeptHolds. StartFits and StopFits say what a start has
    made, and a stop left, by where it is; StartsKeptAlways joins both in the suite.
  * *audit*: EventsKeptHolds. A batch is a run of successive events; an event still
    in the buffer has reached no sink (FreshEvent); the calls of one sink write
    different events (WritesApart), which only a webhook may have got before
    (WriteFits).
  * *buses*: BusDeliversAlways. HandsFit (an event goes only to those who have not
    heard it, to a once handler a second time only within the dispatch of the first)
    and EventsFit (in the process whatever is published comes within all that is being
    handed out; on Redis what was heard, what is in hand and what is on its way are in
    this order). That a dispatch lists its subscribers in order is proved of InOrder.
* **LocksProofs**: for Redis TypeCorrect, LeaderHoldsLockHolds, OneLeaderHolds and
  LeaderSafeHolds. The
  invariant adds Separate (no two candidates know one token), Quiet, ReleaseSlot,
  Flagged (a running candidate leads only while it has a lock), Tokened and
  Timely (while renewals are on time, an acquisition on its way back is still in
  Redis). OneLeader follows from LeaderHoldsLock and Separate. For memory
  StaleLeaderLearnsHolds, ResignedLeadsIfEarlyHolds, LockStandsHolds and
  LockKeepsHolds of the three: a leader without a timer is one whose resign is under
  way (Renews), a handle is what an election leads and holds the lock by (ByHandle),
  and a resign finds its election unless it came early (Resigning).
* **TokenQuotaProofs**: TypeCorrect, WithinLimitHolds, DenialGenuineHolds. The
  invariant adds, for windows where updates have not raced, Serial and Current (a
  call about to write has read what is still in the row), NotAhead (no copy of
  the usage, cached or on its way to the cache, is ahead of the row: a stale copy
  can only err towards allowing a check) and Refused (a refusal decided earlier
  stays justified, since usage only grows within a window).
* **RequestsProofs**:
  * *quota*: BooksTrueHolds. Total, the fold that sums the charges, is shown to take
    its elements in any order (existence and uniqueness of the fold, then
    TotalWithout, by a least counterexample among the subsets of a finite set:
    only finitely many charges have been made). The cache is exact by ExactIn: in a
    window that nothing disturbed one call is under way, and only between its charge
    and its write to the cache does the cache lag behind.
  * *keys*: RevokedRefusedHolds, OldOutBeforeNewHolds, RevocationFinalHolds, from
    RevokedStays, CallsFit and ReplacedTold (a row whose revocation was reported
    stays revoked unless a write that had read it before collided).
  * *policies*: CacheAgreesHolds, RestartKeepsDecisionsHolds, for any policies,
    users and application. AccessHoldsAlways joins keys and policies in the suite.
  * *cache*: CountersHoldAlways. Unless torn, no count of this life is above the
    value (CountsFit); Redis never tears (RedisFits).
  * *storage*: LossOnlyUnderOverlapHolds, from Fresh: calls of one key know each
    other, and what an update that overlaps nothing has read is still in the row.
  * *pipeline*: AtMostTwiceHolds from LimiterFits (the window, and the stretch
    before it that may lie in one window's length with it, have each let by no more
    than the limit), RequestsGuardedHolds from Journey: where a request is in the
    stack tells who identified and permitted it and which audit event is owed on the
    way up. The way up is a recursion over the stack, solved by a least
    counterexample among positions.
* **AgentsProofs**:
  * *workflows*: CompletedInFullHolds, ProgressKeptHolds, EndIsFinalHolds,
    ProgressStandsHolds. The saved instance is the one in memory or what that was
    before the save under way (SavedFits, MemoryFits, PlaceFits, by the place where
    the execution is suspended).
  * *runtimes*: PodsConfinedHolds (ConfinedOnceReturned, PoliciesAccumulate,
    StoppedStays), from Created: where a creation is tells whether its pod has its
    policy.
  * *handoff*: HandoffsEndOnceHolds, from LetThrough (an update that was let through
    has read a status that its updater accepts), EndedByOne and EndHasCall.
  * *machine, tasks*: MachineTrueHolds, TaskMachineTrue, TasksKeptHolds (a loaded
    task has its message).
  * *paged*: ScansTrueHolds. PagedInv keeps ids and keys together; ScanFits says what
    a call has met on the pages behind it: on the memory backend, while nothing moved,
    every row before its offset that stays stored; CountFits that, between the two
    statements of a first page, the count covers the rows unless some were stored since.

The four suites' SuiteTypeCorrect say that every variable keeps its type. A theorem
about a component's own specification holds in a suite by its SuiteOfParts (SuiteOfBoth
in LocksProofs): a behaviour of the suite is one of each component.

Only model-checked: all liveness (Drains, JobsSettle, EachEnds, LosersStepDown,
LeaderEmerges, Settles), since fairness and ENABLED are beyond TLAPS; and what the
violation runs refute.

## 8. Where code and documents disagree

Items 1 to 6 have a run that TLC ends with a counterexample. Items 7 to 13 have none of
their own: each is the exception that a passing property states, and that property says
what the code keeps of the promise; without the exception the passing run fails.

1. **visibilityTimeout does nothing** (`memory/queue.ts:115`): dequeue stores
   processingDeadline and no method reads it; `kernel/queue.ts:46` says "Auto-nack
   timeout if consumer doesn't ack in time." Run queue_autonack.
2. **The breaker can wedge** (`circuit-breaker.ts:85`): a successful probe never
   gives its place back, so with halfOpenMaxCalls < successThreshold
   (1 and 2, say) it stays half-open, rejecting everybody. Run
   breaker_stuck. With successThreshold <= halfOpenMaxCalls it
   cannot happen: NeverStuck is proved.
3. **atomicUpdate is not atomic on a new row** (`postgres/storage.ts:137`): FOR
   UPDATE locks no row, the second upsert overwrites the first. Run pg_creation, in
   which only atomicUpdate is called. It
   is the only way to lose an update: LossOnlyOnCreation is proved. The token
   quota meets it with the first two consumes of every window.
4. **A candidate that resigned leads** (`redis/lock.ts:106`): tryAcquire sets the
   flag without looking whether resign came meanwhile. Nobody renews or releases
   its lock, which expires, and isLeader() stays true beside the next leader. Run
   leader_resigned.
5. **A signal is lost** (`simple-workflow.ts:150`): the instance is saved as
   waiting_signal before once subscribes; a signal in between is published to
   nobody and the step waits for its timeout. Run workflow_lost.
6. **The complete configuration does not start** (`token-quota.ts:55`): the quota
   manager's initialize calls initialize() on the storage and the cache that
   bootstrapKernel has initialized; ioredis refuses connect() on a connected
   client. `src/README.md:212` gives such a configuration as the complete one. Run
   bootstrap_full.
7. **The limiter's window does not slide** (`memory-limiter.ts:54`): it begins with a
   request and is followed by a fresh one, so that twice the limit may pass within a
   window's length, and no more (AtMostTwice, proved). `src/README.md:37` and `:318`
   call it a sliding window, the PRD (`:1100`) a token bucket.
   The same words are used of the token quota (`src/README.md:22`, `:304`,
   `src/CHANGELOG.md:58`), whose windows are fixed as well, on
   multiples of their length (`token-quota.ts:123`).
8. **A completed task can be killed** (`routes/tasks.ts:54`): cancel saves `killed`
   over whatever it has read and answers success. `task-fsm.ts:2` and `:11` make
   completed terminal, `src/docs/api-design.md:1325` has an illegal transition
   answered with 409. EndedTaskChanges (of TasksKept) excepts exactly this cancel.
9. **A crash leaves workflows unfinished for ever** (`simple-workflow.ts:46`):
   initialize reads definitions only. `src/docs/PRD-openclaw-enterprise-architecture.md:1085`
   has saved instances resumed. Settles excuses such instances (`gone`).
10. **Who has the lock may not lead** (`redis/lock.ts:112`): when onElected throws, the
   catch clears the flag and keeps the lock, which is renewed from then on; nobody
   leads. `src/docs/tech-desigh.md:2111`: whoever acquires the lock becomes leader.
   LeaderEmerges excepts it as Muted.
11. **increment is not atomic in memory** (`memory/cache.ts:57`): it awaits its own get
   before it sets. `kernel/cache.ts:21`: "Atomic increment (counters,
   rate-limiting)". TicketsDiffer (of CountersHold) excepts
   such calls of the memory backend as `torn`.
12. **Nothing can be pulled from the Redis queue** (`redis/queue.ts:94`): dequeue looks
   at the waiting list, and jobs have a priority, which BullMQ keeps elsewhere.
   `kernel/queue.ts:6` has both push and pull consumers. PulledWasTried (of
   RunsAccounted) states it: what is pulled has been with a worker before.
13. **Starting twice at once starts two** (`bootstrap.ts:46`): the second call finds no
   instance while the first awaits, and replaces the first one's. `bootstrap.ts:19`:
   "Idempotent: calling twice returns the existing instance." NothingLeftBehind excepts it as `overtaken`.

## 9. What is not modelled

Left out for good, with status `not_modelled` or `partly` in `PROJECT.json`:
discovery, refresh and revocation of tokens (a library's), the content filter and
the data classifier (regular expressions over text), health and metrics
(independent reads), withRetry (a loop without state that nothing in the
repository calls), secrets, network modes and resource limits (predicates over the
environment), the database types, the REST builder and the CRUD routes (one
storage call each).

Within the modelled components these are left out: tenancy and row level security
(rows of different tenants do not meet), reads that change nothing, a commit in
Postgres whose reply is lost (the call rejects although it took effect, so
AllOrNothing is about calls Postgres rolled back), rows handed out by reference in
memory storage, onStateChange, scheduledAt, the patterns of the event buses (on
Redis `a.*` matches at any depth, in memory one level), plain acquisition of the lock of an election by other callers on
Redis, and the interval between the backend's shutdown and the end of its process,
in which isLeader() is still true, an onDeposed that throws (the rejection of an
interval's callback that nobody handles, which ends the process: a Stop), a queue
object first made after the backend's shutdown, the order of BullMQ's priorities, the cache's
shutdown and deltas other than 1, the conditions of RBAC rules, the filters of
search and the content of entries, checkpoints of several targets, and the query
side of audit.

## 10. Plan

Done: the core (MemoryQueue with its contract, CircuitBreaker, StorageContract and
its two backends, LeaderElection, TokenQuota, WorkflowEngine), then the modules of all
other components with state of their own, gathered in four suites, and the proofs of
every safety and action property of the runs.

Next, the most important first:

1. Composition: TokenQuota over PostgresStorage, so that `raced` is derived from
   the row's creation instead of being an auxiliary variable; the same for ApiKeys'
   `atomic` and Handoff's.
2. An abstract LeaderContract that both elections implement while renewals are on
   time, and one queue contract for MemoryQueue and RedisQueue as far as they agree.
3. The step lemmas of the leads-to properties (each helpful action brings its goal
   nearer), so that only the fairness argument itself is left to TLC.
