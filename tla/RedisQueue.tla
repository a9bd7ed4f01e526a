----------------------------- MODULE RedisQueue -----------------------------
(***************************************************************************)
(* RedisQueueBackend (src/kernel-impl/redis/queue.ts): one queue, its       *)
(* workers, pull consumers and the operator's purge and replay.             *)
(*                                                                          *)
(* BullMQ is external: each of its scripts is one step.  As the class uses  *)
(* it, every job has a priority, so that add and a promoted delay put it    *)
(* among the prioritized jobs, while the plain waiting list holds the jobs  *)
(* that were stalled or retried; a job id is kept until the job is removed; *)
(* a worker holds the lock of a job it runs and renews it; a finished run   *)
(* without the lock changes nothing; a job without its lock is stalled.     *)
(* The order of the priorities is left out: no property depends on it.      *)
(***************************************************************************)
EXTENDS Naturals, Sequences, FiniteSets

CONSTANTS
    JobKeys,        \* idempotency keys; NoJobKey for a generated job id
    NoJobKey,
    Offers,         \* the key and maxAttempts that callers may give each job
    MaxWorkers,     \* bound: workers ever made, one by a subscribe
    Concurrency,    \* options.concurrency
    Kept,           \* removeOnComplete.count
    MaxRetries,     \* bound: replays of each job
    MaxStalled      \* external: maxStalledCount of a BullMQ worker, 1

ASSUME RedisQueueAssumption ==
    /\ NoJobKey \in JobKeys /\ Offers \in Seq(SUBSET (JobKeys \X Nat)) /\ Kept \in Nat \ {0}
    /\ {MaxWorkers, Concurrency, MaxStalled} \subseteq Nat
    /\ MaxRetries \in [1 .. Len(Offers) -> Nat]

Jobs == 1 .. Len(Offers)
Workers == 1 .. MaxWorkers

VARIABLES
    job,        \* the jobs in Redis
    runs,       \* the handlers that run: of a job, in a worker, the start-th
    worker,     \* the workers
    entry,      \* this.workers.get(queue): a set of at most one worker
    life,       \* shutdown of the backend: its loop over this.workers has still
                \* the queue's entry before it, or has gone past it, or has ended
    lapsed,     \* auxiliary: jobs whose run lost its lock or was nacked
    retries,    \* auxiliary: replays of each job
    left        \* auxiliary: workers that shutdown cannot find: a later subscribe
                \* or an unsubscribe of another worker took them out of the map,
                \* or they were subscribed when its loop had gone past the queue

backend == <<worker, entry, life>>
redisvars == <<job, runs, backend, lapsed, retries, left>>
ghosts == <<lapsed, retries, left>>

Places == {"absent", "waiting", "prioritized", "delayed", "active", "completed", "failed", "removed"}

\* A worker that runs jobs: open, or being closed by unsubscribe ("closing"), by
\* shutdown ("stopping") or by both.
Closable == {"open", "closing", "stopping", "both"}

RedisTypeOK ==
    /\ job \in [Jobs -> [place : Places, key : JobKeys, max : Nat,
                         made : Nat, starts : Nat, lock : Nat, stalls : Nat]]
    /\ \A r \in runs : r.job \in Jobs /\ r.by \in Workers /\ r.start \in 1 .. job[r.job].starts
    /\ \A r \in runs : worker[r.by] \in Closable
    /\ worker \in [Workers -> Closable \cup {"none", "closed", "gone"}]
    /\ entry \subseteq Workers /\ Cardinality(entry) <= 1
    /\ life \in {"up", "closing", "past", "down"}
    /\ retries \in [Jobs -> Nat] /\ \A j \in Jobs : retries[j] <= MaxRetries[j]
    /\ lapsed \subseteq Jobs /\ left \subseteq Workers

RedisInit ==
    /\ job = [j \in Jobs |-> [place |-> "absent", key |-> NoJobKey, max |-> 0,
                              made |-> 0, starts |-> 0, lock |-> 0, stalls |-> 0]]
    /\ runs = {} /\ worker = [w \in Workers |-> "none"] /\ entry = {} /\ life = "up"
    /\ lapsed = {} /\ retries = [j \in Jobs |-> 0] /\ left = {}

----------------------------------------------------------------------------
In(j, places) == job[j].place \in places
Puts(j, place) == job' = [job EXCEPT ![j].place = place]

\* mapPriority gives 1, 5 or 10.
PlaceOfNew(delayed) == IF delayed THEN "delayed" ELSE "prioritized"

\* getOrCreateQueue: a queue object that has been used before shutdown is closed by
\* it, and rejects from then on.
QueueOpen == life # "down"

\* enqueue, the jobs in the order of their numbers; when a job of that id is kept, add changes nothing.
AddJob(j, key, max, delayed) ==
    /\ QueueOpen /\ In(j, {"absent"}) /\ \A k \in 1 .. j - 1 : ~In(k, {"absent"})
    /\ key # NoJobKey => \A k \in Jobs : job[k].key = key => In(k, {"absent", "removed"})
    /\ job' = [job EXCEPT ![j].place = PlaceOfNew(delayed), ![j].key = key, ![j].max = max]
    /\ UNCHANGED <<runs, worker, entry, life, ghosts>>

\* subscribe, at any time: the worker has a connection of its own, and replaces
\* that of an earlier subscribe in the map.
Work(w) ==
    /\ worker[w] = "none" /\ \A v \in 1 .. w - 1 : worker[v] # "none"
    /\ worker' = [worker EXCEPT ![w] = "open"]
    /\ entry' = {w}
    /\ left' = left \cup entry \cup (IF life \in {"past", "down"} THEN {w} ELSE {})
    /\ UNCHANGED <<job, runs, life, lapsed, retries>>

\* unsubscribe: worker.close waits for the worker's runs, and then the entry is
\* deleted, whichever worker it has.
CloseWorker(w) ==
    /\ worker[w] \in {"open", "stopping", "closed"}
    /\ worker' = [worker EXCEPT ![w] = IF @ = "stopping" THEN "both" ELSE "closing"]
    /\ UNCHANGED <<job, runs, entry, life, ghosts>>

\* A Map's iterator meets a key again that was deleted and set once more.
Deleted(w) ==
    /\ entry' = {} /\ left' = left \cup (entry \ {w})
    /\ life' = IF life = "past" THEN "closing" ELSE life

\* Mutant: close does not wait for the runs.
WorkerClosesNow(w) ==
    /\ worker[w] \in {"closing", "stopping", "both"}
    /\ worker' = [worker EXCEPT ![w] = "closed"]
    /\ IF worker[w] = "stopping" THEN UNCHANGED <<entry, left, life>> ELSE Deleted(w)
    /\ UNCHANGED <<job, runs, lapsed, retries>>

WorkerCloses(w) ==
    /\ worker[w] \in {"closing", "stopping", "both"} /\ \A r \in runs : r.by # w
    /\ worker' = [worker EXCEPT ![w] = "closed"]
    /\ IF worker[w] = "stopping" THEN UNCHANGED <<entry, left, life>> ELSE Deleted(w)
    /\ UNCHANGED <<job, runs, lapsed, retries>>

\* shutdown: the loop over the workers of all queues begins, ...
ShutdownRedis ==
    /\ life = "up" /\ life' = "closing"
    /\ UNCHANGED <<job, runs, worker, entry, ghosts>>

\* ... comes to the entry of the queue, and waits for its worker to close, ...
StopWorker(w) ==
    /\ life = "closing" /\ entry = {w} /\ \A v \in Workers : worker[v] \notin {"stopping", "both"}
    /\ life' = "past"
    /\ worker' = [worker EXCEPT ![w] = CASE @ = "open" -> "stopping" [] @ = "closing" -> "both"
                                          [] OTHER -> @]
    /\ UNCHANGED <<job, runs, entry, ghosts>>

\* ... and ends with the close of the queues there are.
ShutdownEnds ==
    /\ life = "past" \/ (life = "closing" /\ entry = {})
    /\ \A v \in Workers : worker[v] \notin {"stopping", "both"}
    /\ life' = "down"
    /\ UNCHANGED <<job, runs, worker, entry, ghosts>>

----------------------------------------------------------------------------
\* External: a worker takes a job, of the waiting list first.
TakeJob(w, j) ==
    /\ worker[w] = "open" /\ Cardinality({r \in runs : r.by = w}) < Concurrency
    /\ \/ In(j, {"waiting"})
       \/ In(j, {"prioritized"}) /\ \A k \in Jobs : ~In(k, {"waiting"})
    /\ LET n == job[j].starts + 1
       IN  /\ job' = [job EXCEPT ![j].place = "active", ![j].starts = n, ![j].lock = n]
           /\ runs' = runs \cup {[job |-> j, by |-> w, start |-> n]}
    /\ UNCHANGED <<backend, ghosts>>

\* External: completed jobs beyond the count are removed.
Trimmed(f) ==
    LET done == {k \in Jobs : f[k].place = "completed"}
    IN  IF Cardinality(done) <= Kept THEN {f}
        ELSE {[f EXCEPT ![k].place = "removed"] : k \in {m \in done : job[m].place = "completed"}}

\* Mutant: the answer of any run of an active job counts.
HoldsActive(r) == In(r.job, {"active"})

\* External: the run still has its job.
Holds(r) == In(r.job, {"active"}) /\ job[r.job].lock = r.start

\* External: the answer of a run gives its lock back and, if it still has the
\* job, makes new of it.
Answered(r, new) ==
    LET lock == IF job[r.job].lock = r.start THEN 0 ELSE job[r.job].lock
    IN  [job EXCEPT ![r.job] = [(IF Holds(r) THEN new ELSE job[r.job]) EXCEPT !.lock = lock]]

HandlerReturns(r) ==
    /\ runs' = runs \ {r}
    /\ job' \in Trimmed(Answered(r, [job[r.job] EXCEPT !.place = "completed"]))
    /\ UNCHANGED <<backend, ghosts>>

\* moveToFailed: attempts and backoff of enqueue, or the dead letters.
FailedOnce(j) ==
    [job[j] EXCEPT !.made = @ + 1, !.place = IF job[j].made + 1 < job[j].max THEN "delayed" ELSE "failed"]

HandlerThrows(r) ==
    /\ runs' = runs \ {r}
    /\ job' = Answered(r, FailedOnce(r.job))
    /\ UNCHANGED <<backend, ghosts>>

\* nack: moveToFailed with token "0" passes the lock by and rejects only when
\* the job is not active; with fetchNext it may start another job, without a
\* lock, for a worker that is not there.
NackJob(j) ==
    /\ QueueOpen /\ In(j, {"active"})
    /\ LET failed == [job EXCEPT ![j] = FailedOnce(j)]
       IN  \/ job' = failed
           \/ \E k \in Jobs : /\ In(k, {"waiting", "prioritized"})
                              /\ job' = [failed EXCEPT ![k].place = "active", ![k].starts = @ + 1]
    /\ lapsed' = lapsed \cup {j}
    /\ UNCHANGED <<runs, backend, retries, left>>

\* External: the lock is not renewed in time, as the worker is gone or busy.
LockExpires(j) ==
    /\ In(j, {"active"}) /\ job[j].lock # 0
    /\ job' = [job EXCEPT ![j].lock = 0]
    /\ lapsed' = lapsed \cup {j}
    /\ UNCHANGED <<runs, backend, retries, left>>

\* Mutant: a job that has stalled too often is left where it is.
StalledLeft(j) ==
    /\ In(j, {"active"}) /\ job[j].lock = 0 /\ \E w \in Workers : worker[w] = "open"
    /\ job[j].stalls < MaxStalled
    /\ job' = [job EXCEPT ![j].stalls = @ + 1, ![j].place = "waiting"]
    /\ UNCHANGED <<runs, backend, ghosts>>

\* External: an open worker finds an active job without a lock.
Stalled(j) ==
    /\ In(j, {"active"}) /\ job[j].lock = 0 /\ \E w \in Workers : worker[w] = "open"
    /\ job' = [job EXCEPT ![j].stalls = @ + 1,
                          ![j].place = IF job[j].stalls + 1 > MaxStalled THEN "failed" ELSE "waiting"]
    /\ UNCHANGED <<runs, backend, ghosts>>

\* External: a delay or a backoff ends.
Promote(j) ==
    /\ In(j, {"delayed"}) /\ \E w \in Workers : worker[w] = "open"
    /\ Puts(j, "prioritized")
    /\ UNCHANGED <<runs, backend, ghosts>>

\* replayDeadLetter: retry keeps attemptsMade, and rejects a job that has not
\* failed.
Replayed(j) ==
    /\ QueueOpen /\ In(j, {"failed"}) /\ retries[j] < MaxRetries[j]
    /\ Puts(j, "waiting")
    /\ retries' = [retries EXCEPT ![j] = @ + 1]
    /\ UNCHANGED <<runs, backend, lapsed, left>>

\* purge: drain leaves delayed and active jobs.
Drain ==
    /\ QueueOpen
    /\ job' = [j \in Jobs |-> IF In(j, {"waiting", "prioritized"})
                              THEN [job[j] EXCEPT !.place = "removed"] ELSE job[j]]
    /\ UNCHANGED <<runs, backend, ghosts>>

\* The process crashes and starts again; a lock outlives its worker.
RedisCrash ==
    /\ runs' = {} /\ entry' = {} /\ life' = "up"
    /\ worker' = [w \in Workers |-> IF worker[w] = "none" THEN "none" ELSE "gone"]
    /\ UNCHANGED <<job, lapsed, retries, left>>

RedisNext ==
    \/ \E j \in Jobs :
          \/ \E offer \in Offers[j], d \in BOOLEAN : AddJob(j, offer[1], offer[2], d)
          \/ \E w \in Workers : TakeJob(w, j)
          \/ NackJob(j) \/ LockExpires(j) \/ Stalled(j) \/ Promote(j) \/ Replayed(j)
    \/ \E w \in Workers : Work(w) \/ CloseWorker(w) \/ WorkerCloses(w) \/ StopWorker(w)
    \/ \E r \in runs : HandlerReturns(r) \/ HandlerThrows(r)
    \/ ShutdownRedis \/ ShutdownEnds \/ Drain \/ RedisCrash

RedisSpec == RedisInit /\ [][RedisNext]_redisvars

\* Fair are the steps of open workers for each job, the expiry of a lock that no
\* run renews, and the end of every handler.
RedisFairness ==
    \A j \in Jobs :
        /\ WF_redisvars(Stalled(j)) /\ WF_redisvars(Promote(j))
        /\ WF_redisvars(\E w \in Workers : TakeJob(w, j))
        /\ WF_redisvars((\A r \in runs : r.job = j => r.start # job[j].lock) /\ LockExpires(j))
        /\ WF_redisvars(\E r \in runs : r.job = j /\ (HandlerReturns(r) \/ HandlerThrows(r)))

RedisLiveSpec == RedisSpec /\ RedisFairness

----------------------------------------------------------------------------
\* dequeue and getQueueDepth: the jobs in the waiting list.
Pullable == {j \in Jobs : In(j, {"waiting"})}

\* getDeadLetterMessages.
Failed == {j \in Jobs : In(j, {"failed"})}

\* A pull consumer peeks at jobs that a worker has had before, stalled or
\* replayed ones, and never at a job that was only enqueued: without workers the
\* pull side of the interface gets nothing.
PulledWasTried == \A j \in Pullable : job[j].starts > 0

\* Two handlers have a job at the same time only after the first has lost it,
\* by a nack or without its lock.
OneRun == \A r, q \in runs : r.job = q.job /\ r # q => r.job \in lapsed

\* Only the last handler that got a job can complete it: the late answer of an
\* earlier one is dropped.
LateAnswerDropped ==
    [][\A j \in Jobs : In(j, {"active"}) /\ job'[j].place = "completed" =>
          \E r \in runs \ runs' : r.job = j /\ \A q \in runs : q.job = j => q.start <= r.start]_redisvars

\* Over failures, nacks, stalls and replays a job runs no more often than that:
\* every start is paid for by an attempt or a stall, and a dead letter has used
\* one of the two up.
RunBudget ==
    \A j \in Jobs :
        /\ job[j].starts <= job[j].made + job[j].stalls + 1
        /\ job[j].made <= (IF job[j].max = 0 THEN 1 ELSE job[j].max) + retries[j]
        /\ job[j].stalls <= MaxStalled + 1 + retries[j]
        /\ j \in Failed => job[j].made >= job[j].max \/ job[j].stalls > MaxStalled

\* Shutdown closes, to the end of its runs, every worker that it can find: one
\* that goes on was taken out of the map by another subscribe or unsubscribe, or
\* subscribed when the loop had gone past the queue.
LeftOpen ==
    life = "down" => \A w \in Workers : worker[w] \in {"open", "stopping", "both"} => w \in left

\* While some worker is open every job is settled: no crash, nack or stall
\* leaves one active, delayed or waiting for good.
JobsSettle ==
    \A j \in Jobs :
        []<>(\/ ~In(j, {"waiting", "prioritized", "delayed", "active"})
             \/ \A w \in Workers : worker[w] # "open")

\* Jobs through workers, pulls, stalls, nacks, replays and crashes.
RunsAccounted ==
    /\ []PulledWasTried /\ []OneRun /\ []RunBudget /\ []LeftOpen
    /\ LateAnswerDropped
=============================================================================
