------------------------- MODULE RedisQueueProofs -------------------------
(***************************************************************************)
(* Proofs about RedisQueue, for any jobs, offers, workers, numbers of       *)
(* replays and stalls: the type invariant and RunsAccounted.                *)
(***************************************************************************)
EXTENDS RedisQueue, FiniteSetTheorems, TLAPS

RetriesFit == retries \in [Jobs -> Nat] /\ \A j \in Jobs : retries[j] <= MaxRetries[j]

JobRecord == [place : Places, key : JobKeys, max : Nat, made : Nat, starts : Nat, lock : Nat, stalls : Nat]

\* How often a job may fail before it is a dead letter.
Attempts(x) == IF x.max = 0 THEN 1 ELSE x.max

(***************************************************************************)
(* RunBudget is not inductive: why is there a start left to pay for when a  *)
(* job is taken, and an attempt when it fails?  A job that waits has paid   *)
(* for every start, and one that is not settled has not used its attempts   *)
(* or its stalls up; a replay gives one of each back.                       *)
(***************************************************************************)
Budgeted(x, n) ==
    /\ x.starts <= x.made + x.stalls + 1 /\ x.made <= Attempts(x) + n /\ x.stalls <= MaxStalled + 1 + n
    /\ x.place \in {"waiting", "active", "failed"} => x.starts > 0
    /\ x.place \in {"waiting", "prioritized", "delayed", "failed"} => x.starts <= x.made + x.stalls
    /\ x.place \in {"waiting", "prioritized", "delayed", "active"} =>
          x.made < Attempts(x) + n /\ x.stalls <= MaxStalled + n
    /\ x.place = "failed" => x.made >= x.max \/ x.stalls > MaxStalled
    /\ x.place = "absent" => x.starts = 0 /\ x.made = 0 /\ x.stalls = 0

\* A handler's number is not above that of the lock, if there is one, and it has the
\* job unless the job has lapsed.
RunFits(r) ==
    /\ r.job \in Jobs /\ r.by \in Workers /\ r.start \in 1 .. job[r.job].starts
    /\ worker[r.by] \in Closable
    /\ job[r.job].lock = 0 \/ r.start <= job[r.job].lock
    /\ r.job \notin lapsed => job[r.job].place = "active" /\ job[r.job].lock = r.start

\* Who is open is in the map, or out of the reach of shutdown; once its loop has gone
\* past the queue only the latter.
WorkersFit ==
    /\ worker \in [Workers -> Closable \cup {"none", "closed", "gone"}]
    /\ left \subseteq Workers /\ (entry = {} \/ \E w \in Workers : entry = {w})
    /\ life \in {"up", "closing", "past", "down"}
    /\ \A w \in Workers : worker[w] = "open" => w \in entry \cup left
    /\ life \in {"past", "down"} => \A w \in Workers : worker[w] = "open" => w \in left
    /\ life = "down" => \A w \in Workers : worker[w] \notin {"stopping", "both"}

JobsFit ==
    /\ job \in [Jobs -> JobRecord] /\ RetriesFit /\ lapsed \subseteq Jobs
    /\ \A j \in Jobs : Budgeted(job[j], retries[j])

RedisInv == JobsFit /\ WorkersFit /\ OneRun /\ \A r \in runs : RunFits(r)

LEMMA PlacesAre ==
  /\ "absent" \in Places /\ "waiting" \in Places /\ "prioritized" \in Places /\ "delayed" \in Places
  /\ "active" \in Places /\ "completed" \in Places /\ "failed" \in Places /\ "removed" \in Places
  BY DEF Places

LEMMA Bounds == MaxStalled \in Nat /\ MaxWorkers \in Nat /\ MaxRetries \in [Jobs -> Nat]
  BY RedisQueueAssumption DEF Jobs

LEMMA RedisInitInv == RedisInit => RedisInv
  <1> SUFFICES ASSUME RedisInit PROVE RedisInv
    OBVIOUS
  <1> DEFINE none == [place |-> "absent", key |-> NoJobKey, max |-> 0,
                      made |-> 0, starts |-> 0, lock |-> 0, stalls |-> 0]
  <1>1. none \in JobRecord
    BY PlacesAre, RedisQueueAssumption DEF JobRecord
  <1>2. Budgeted(none, 0)
    BY Bounds DEF Budgeted, Attempts
  <1>3. job = [j \in Jobs |-> none] /\ retries = [j \in Jobs |-> 0] /\ lapsed = {}
    BY DEF RedisInit
  <1> HIDE DEF none
  <1>4. JobsFit
    BY <1>1, <1>2, <1>3, Bounds DEF JobsFit, RetriesFit
  <1>5. WorkersFit
    BY DEF RedisInit, WorkersFit
  <1> QED  BY <1>4, <1>5 DEF RedisInit, RedisInv, OneRun

\* A step of Redis: jobs move on, no handler begins, and those that run keep their
\* place in order.
JobsGoOn ==
    /\ job' \in [Jobs -> JobRecord] /\ RetriesFit'
    /\ \A j \in Jobs : Budgeted(job'[j], retries'[j]) /\ job[j].starts <= job'[j].starts
    /\ lapsed \subseteq lapsed' /\ lapsed' \subseteq Jobs /\ runs' \subseteq runs
    /\ \A r \in runs' :
          /\ job'[r.job].lock = 0 \/ job'[r.job].lock = job[r.job].lock
          /\ r.job \notin lapsed' =>
                job'[r.job].place = job[r.job].place /\ job'[r.job].lock = job[r.job].lock
    /\ UNCHANGED <<backend, left>>

LEMMA JobsGoOnInv == ASSUME RedisInv, JobsGoOn PROVE RedisInv'
  <1>1. JobsFit'
    BY DEF JobsGoOn, JobsFit, RetriesFit
  <1>2. WorkersFit'
    BY DEF JobsGoOn, RedisInv, WorkersFit, backend
  <1>3. OneRun'
    BY DEF JobsGoOn, RedisInv, OneRun
  <1>4. ASSUME NEW r \in runs' PROVE RunFits(r)'
    <2>1. r \in runs /\ RunFits(r)
      BY DEF JobsGoOn, RedisInv
    <2>2. /\ job[r.job] \in JobRecord /\ job'[r.job] \in JobRecord
          /\ job[r.job].starts <= job'[r.job].starts
      BY <2>1 DEF JobsGoOn, RedisInv, JobsFit, RetriesFit, RunFits
    <2>3. r.start \in 1 .. job'[r.job].starts
      <3>1. job[r.job].starts \in Nat /\ job'[r.job].starts \in Nat
        BY <2>2 DEF JobRecord
      <3> QED  BY <2>1, <2>2, <3>1 DEF RunFits
    <2>4. job'[r.job].lock = 0 \/ r.start <= job'[r.job].lock
      BY <2>1 DEF JobsGoOn, RunFits
    <2>5. r.job \notin lapsed' => job'[r.job].place = "active" /\ job'[r.job].lock = r.start
      BY <2>1 DEF JobsGoOn, RunFits
    <2> QED  BY <2>1, <2>3, <2>4, <2>5 DEF JobsGoOn, RunFits, backend
  <1> QED  BY <1>1, <1>2, <1>3, <1>4 DEF RedisInv

\* One job moves on.
LEMMA OneJobGoesOn ==
  ASSUME RedisInv, NEW j \in Jobs, NEW x \in JobRecord, job' = [job EXCEPT ![j] = x],
         RetriesFit', \A k \in Jobs : k # j => retries'[k] = retries[k],
         Budgeted(x, retries'[j]), job[j].starts <= x.starts, x.lock = 0 \/ x.lock = job[j].lock,
         lapsed \subseteq lapsed', lapsed' \subseteq Jobs, runs' \subseteq runs,
         \A r \in runs' : r.job = j => j \in lapsed' \/ (x.place = job[j].place /\ x.lock = job[j].lock),
         UNCHANGED <<backend, left>>
  PROVE  RedisInv'
  <1>1. /\ job' \in [Jobs -> JobRecord] /\ job'[j] = x /\ \A k \in Jobs : k # j => job'[k] = job[k]
    BY DEF RedisInv, JobsFit, RetriesFit
  <1>2. \A k \in Jobs : job[k].starts \in Nat
    BY DEF RedisInv, JobsFit, RetriesFit, JobRecord
  <1>3. \A k \in Jobs : Budgeted(job'[k], retries'[k]) /\ job[k].starts <= job'[k].starts
    <2> SUFFICES ASSUME NEW k \in Jobs PROVE Budgeted(job'[k], retries'[k]) /\ job[k].starts <= job'[k].starts
      OBVIOUS
    <2>1. CASE k = j
      BY <1>1, <2>1
    <2>2. CASE k # j
      BY <1>1, <1>2, <2>2 DEF RedisInv, JobsFit, RetriesFit
    <2> QED  BY <2>1, <2>2
  <1>4. \A r \in runs' : r \in runs /\ r.job \in Jobs
    BY DEF RedisInv, RunFits
  <1>5. JobsGoOn
    BY <1>1, <1>3, <1>4 DEF JobsGoOn
  <1> QED  BY <1>5, JobsGoOnInv

LEMMA JobsTyped ==
  ASSUME RedisInv, NEW j \in Jobs
  PROVE  /\ job[j] \in JobRecord /\ Budgeted(job[j], retries[j]) /\ retries[j] \in Nat
         /\ job[j].place \in Places /\ job[j].key \in JobKeys /\ job[j].max \in Nat /\ job[j].made \in Nat
         /\ job[j].starts \in Nat /\ job[j].lock \in Nat /\ job[j].stalls \in Nat
         /\ job = [job EXCEPT ![j] = job[j]]
         /\ job[j] = [place |-> job[j].place, key |-> job[j].key, max |-> job[j].max, made |-> job[j].made,
                      starts |-> job[j].starts, lock |-> job[j].lock, stalls |-> job[j].stalls]
  <1>1. job[j] \in JobRecord /\ Budgeted(job[j], retries[j]) /\ retries[j] \in Nat /\ job = [job EXCEPT ![j] = job[j]]
    BY Bounds DEF RedisInv, JobsFit, RetriesFit
  <1> QED  BY <1>1 DEF JobRecord

\* A job that does not wait for an answer has no handler but lapsed ones.
LEMMA LapsedUnlessActive ==
  ASSUME RedisInv, NEW r \in runs, job[r.job].place # "active"
  PROVE  r.job \in lapsed
  BY DEF RedisInv, RunFits

LEMMA AddJobInv ==
  ASSUME RedisInv, NEW j \in Jobs, NEW offer \in Offers[j], NEW d \in BOOLEAN, AddJob(j, offer[1], offer[2], d)
  PROVE  RedisInv'
  <1> DEFINE x == [job[j] EXCEPT !.place = PlaceOfNew(d), !.key = offer[1], !.max = offer[2]]
  <1>0. /\ job[j].max \in Nat /\ job[j].made \in Nat /\ job[j].starts \in Nat /\ job[j].stalls \in Nat
        /\ retries[j] \in Nat
    BY JobsTyped
  <1>1. offer[1] \in JobKeys /\ offer[2] \in Nat
    BY RedisQueueAssumption DEF Jobs
  <1>2. /\ x.place = PlaceOfNew(d) /\ x.max = offer[2] /\ x.made = job[j].made /\ x.starts = job[j].starts
        /\ x.lock = job[j].lock /\ x.stalls = job[j].stalls /\ x.key = offer[1]
    BY JobsTyped
  <1>3. PlaceOfNew(d) \in {"prioritized", "delayed"}
    BY DEF PlaceOfNew
  <1>4. x \in JobRecord
    <2>1. PlaceOfNew(d) \in Places
      BY <1>3, PlacesAre
    <2> QED  BY <1>1, <2>1, JobsTyped DEF JobRecord
  <1>5. job' = [job EXCEPT ![j] = x]
    BY DEF AddJob
  <1>6. job[j].starts = 0 /\ job[j].made = 0 /\ job[j].stalls = 0
    BY JobsTyped DEF AddJob, In, Budgeted
  <1>7. Budgeted(x, retries[j])
    <2>1. x.made < Attempts(x) + retries[j] /\ x.made = 0 /\ x.starts = 0 /\ x.stalls = 0
      BY <1>0, <1>1, <1>2, <1>6 DEF Attempts
    <2>2. x.place \in {"prioritized", "delayed"} /\ Attempts(x) \in Nat
      BY <1>1, <1>2, <1>3 DEF Attempts
    <2> HIDE DEF x
    <2> QED  BY <1>0, <2>1, <2>2, Bounds DEF Budgeted
  <1>8. \A r \in runs : r.job # j
    BY <1>6 DEF RedisInv, RunFits
  <1>9. x.starts = job[j].starts /\ x.lock = job[j].lock
    BY <1>2
  <1>10. /\ retries' = retries /\ lapsed' = lapsed /\ runs' = runs /\ UNCHANGED <<backend, left>>
    BY DEF AddJob, ghosts, backend
  <1> HIDE DEF x
  <1>11. job[j].starts <= x.starts /\ (x.lock = 0 \/ x.lock = job[j].lock)
    BY <1>0, <1>9
  <1>12. \A r \in runs' : r.job = j => j \in lapsed' \/ (x.place = job[j].place /\ x.lock = job[j].lock)
    BY <1>8, <1>10
  <1>13. /\ RetriesFit' /\ (\A k \in Jobs : k # j => retries'[k] = retries[k])
         /\ Budgeted(x, retries'[j]) /\ lapsed \subseteq lapsed' /\ lapsed' \subseteq Jobs /\ runs' \subseteq runs
    BY <1>7, <1>10 DEF RedisInv, JobsFit, RetriesFit
  <1> QED  BY <1>4, <1>5, <1>10, <1>11, <1>12, <1>13, OneJobGoesOn

\* What a job becomes, and that its budget allows it.
LEMMA FailedFits ==
  ASSUME RedisInv, NEW j \in Jobs, In(j, {"active"})
  PROVE  /\ FailedOnce(j) \in JobRecord /\ Budgeted(FailedOnce(j), retries[j])
         /\ FailedOnce(j).starts = job[j].starts /\ FailedOnce(j).lock = job[j].lock
         /\ FailedOnce(j).place \in {"delayed", "failed"}
  <1> DEFINE x == FailedOnce(j)
             p == IF job[j].made + 1 < job[j].max THEN "delayed" ELSE "failed"
  <1>1. /\ job[j].max \in Nat /\ job[j].made \in Nat /\ job[j].starts \in Nat /\ job[j].stalls \in Nat
        /\ retries[j] \in Nat /\ job[j] \in JobRecord
    BY JobsTyped
  <1>2. /\ x.place = p /\ x.made = job[j].made + 1 /\ x.max = job[j].max /\ x.starts = job[j].starts
        /\ x.lock = job[j].lock /\ x.stalls = job[j].stalls
    BY <1>1 DEF FailedOnce, JobRecord
  <1>3. x \in JobRecord
    <2>1. p \in Places
      BY PlacesAre
    <2>2. job[j].made + 1 \in Nat
      BY <1>1
    <2>3. x = [[job[j] EXCEPT !.made = job[j].made + 1] EXCEPT !.place = p]
      BY <1>1 DEF FailedOnce, JobRecord
    <2>4. [job[j] EXCEPT !.made = job[j].made + 1] \in JobRecord
      BY <1>1, <2>2 DEF JobRecord
    <2> HIDE DEF x, p
    <2> QED  BY <2>1, <2>3, <2>4 DEF JobRecord
  <1>4. /\ p \in {"delayed", "failed"} /\ (p = "delayed" => job[j].made + 1 < job[j].max)
        /\ (p = "failed" => job[j].made + 1 >= job[j].max)
    BY <1>1
  <1>5. /\ job[j].starts <= job[j].made + job[j].stalls + 1 /\ job[j].starts > 0
        /\ job[j].made < Attempts(job[j]) + retries[j] /\ job[j].stalls <= MaxStalled + retries[j]
    BY <1>1, JobsTyped DEF In, Budgeted
  <1>6. /\ Attempts(x) = Attempts(job[j]) /\ Attempts(x) \in Nat
        /\ (job[j].max > 0 => Attempts(x) = job[j].max)
    BY <1>1, <1>2 DEF Attempts
  <1> HIDE DEF x, p
  <1>7. Budgeted(x, retries[j])
    <2>1. x.place = "delayed" => x.made < Attempts(x) + retries[j]
      BY <1>1, <1>2, <1>4, <1>6
    <2>2. x.place = "failed" => x.made >= x.max
      BY <1>1, <1>2, <1>4
    <2>3. x.starts <= x.made + x.stalls
      BY <1>1, <1>2, <1>5
    <2> QED  BY <1>1, <1>2, <1>4, <1>5, <1>6, <2>1, <2>2, <2>3, Bounds DEF Budgeted
  <1> QED  BY <1>2, <1>3, <1>4, <1>7 DEF x

Started(j, l) == [job[j] EXCEPT !.place = "active", !.starts = job[j].starts + 1, !.lock = l]

LEMMA StartedFits ==
  ASSUME RedisInv, NEW j \in Jobs, job[j].place \in {"waiting", "prioritized"}, NEW l \in Nat
  PROVE  /\ Started(j, l) \in JobRecord /\ Budgeted(Started(j, l), retries[j])
         /\ Started(j, l).lock = l /\ Started(j, l).starts = job[j].starts + 1
         /\ Started(j, l).place = "active"
  <1> DEFINE x == Started(j, l)
  <1>1. /\ job[j].max \in Nat /\ job[j].made \in Nat /\ job[j].starts \in Nat /\ job[j].stalls \in Nat
        /\ retries[j] \in Nat /\ job[j] \in JobRecord
    BY JobsTyped
  <1>2. /\ x.place = "active" /\ x.made = job[j].made /\ x.max = job[j].max /\ x.starts = job[j].starts + 1
        /\ x.lock = l /\ x.stalls = job[j].stalls
    BY <1>1 DEF JobRecord, Started
  <1>3. x \in JobRecord
    <2>1. job[j].starts + 1 \in Nat /\ "active" \in Places
      BY <1>1, PlacesAre
    <2> QED  BY <1>1, <2>1 DEF JobRecord, Started
  <1>4. /\ job[j].starts <= job[j].made + job[j].stalls
        /\ job[j].made < Attempts(job[j]) + retries[j] /\ job[j].stalls <= MaxStalled + retries[j]
    BY <1>1, JobsTyped DEF In, Budgeted
  <1> HIDE DEF x
  <1>5. Attempts(x) = Attempts(job[j]) /\ Attempts(x) \in Nat
    BY <1>1, <1>2 DEF Attempts
  <1>6. Budgeted(x, retries[j])
    BY <1>1, <1>2, <1>4, <1>5, Bounds DEF Budgeted
  <1> QED  BY <1>2, <1>3, <1>6 DEF x

LEMMA CompletedFits ==
  ASSUME RedisInv, NEW j \in Jobs, NEW x, x = [job[j] EXCEPT !.place = "completed"]
  PROVE  /\ x \in JobRecord /\ Budgeted(x, retries[j]) /\ x.lock = job[j].lock /\ x.starts = job[j].starts
         /\ x.place = "completed"
  <1>1. /\ job[j].max \in Nat /\ job[j].made \in Nat /\ job[j].starts \in Nat /\ job[j].stalls \in Nat
        /\ retries[j] \in Nat /\ job[j] \in JobRecord
    BY JobsTyped
  <1>2. /\ x.place = "completed" /\ x.made = job[j].made /\ x.max = job[j].max /\ x.starts = job[j].starts
        /\ x.lock = job[j].lock /\ x.stalls = job[j].stalls
    BY <1>1 DEF JobRecord
  <1>3. x \in JobRecord
    BY <1>1, PlacesAre DEF JobRecord
  <1>4. Attempts(x) = Attempts(job[j])
    BY <1>2 DEF Attempts
  <1>5. Budgeted(x, retries[j])
    BY <1>1, <1>2, <1>4, JobsTyped DEF Budgeted
  <1> QED  BY <1>2, <1>3, <1>5

\* The budget of a job is not about its lock.
LEMMA UnlockedFits ==
  ASSUME NEW y \in JobRecord, NEW n \in Nat, Budgeted(y, n), NEW l \in Nat, NEW x, x = [y EXCEPT !.lock = l]
  PROVE  x \in JobRecord /\ Budgeted(x, n) /\ x.lock = l /\ x.starts = y.starts /\ x.place = y.place
  <1>1. /\ x.place = y.place /\ x.made = y.made /\ x.max = y.max /\ x.starts = y.starts
        /\ x.lock = l /\ x.stalls = y.stalls /\ x \in JobRecord
    BY DEF JobRecord
  <1>2. Attempts(x) = Attempts(y)
    BY <1>1 DEF Attempts
  <1> QED  BY <1>1, <1>2 DEF Budgeted

LEMMA LockExpiresInv == ASSUME RedisInv, NEW j \in Jobs, LockExpires(j) PROVE RedisInv'
  <1> DEFINE x == [job[j] EXCEPT !.lock = 0]
  <1>1. /\ job[j] \in JobRecord /\ job[j].starts \in Nat /\ retries[j] \in Nat /\ Budgeted(job[j], retries[j])
    BY JobsTyped
  <1>2. x \in JobRecord /\ Budgeted(x, retries[j]) /\ x.lock = 0 /\ x.starts = job[j].starts
    BY <1>1, UnlockedFits
  <1>3. job' = [job EXCEPT ![j] = x] /\ lapsed' = lapsed \cup {j}
    BY DEF LockExpires
  <1>4. retries' = retries /\ runs' = runs /\ UNCHANGED <<backend, left>>
    BY DEF LockExpires
  <1> HIDE DEF x
  <1>5. job[j].starts <= x.starts /\ (x.lock = 0 \/ x.lock = job[j].lock)
    BY <1>1, <1>2
  <1>6. \A r \in runs' : r.job = j => j \in lapsed' \/ (x.place = job[j].place /\ x.lock = job[j].lock)
    BY <1>3
  <1>7. /\ RetriesFit' /\ (\A k \in Jobs : k # j => retries'[k] = retries[k])
        /\ Budgeted(x, retries'[j]) /\ lapsed \subseteq lapsed' /\ lapsed' \subseteq Jobs /\ runs' \subseteq runs
    BY <1>2, <1>3, <1>4 DEF RedisInv, JobsFit, RetriesFit
  <1>8. x \in JobRecord /\ job' = [job EXCEPT ![j] = x]
    BY <1>2, <1>3
  <1> QED  BY <1>4, <1>5, <1>6, <1>7, <1>8, OneJobGoesOn

LEMMA StalledInv == ASSUME RedisInv, NEW j \in Jobs, Stalled(j) PROVE RedisInv'
  <1> DEFINE p == IF job[j].stalls + 1 > MaxStalled THEN "failed" ELSE "waiting"
             x == [job[j] EXCEPT !.stalls = job[j].stalls + 1, !.place = p]
  <1>1. /\ job[j].max \in Nat /\ job[j].made \in Nat /\ job[j].starts \in Nat /\ job[j].stalls \in Nat
        /\ retries[j] \in Nat /\ job[j] \in JobRecord /\ MaxStalled \in Nat
    BY JobsTyped, Bounds
  <1>2. /\ x.place = p /\ x.made = job[j].made /\ x.max = job[j].max /\ x.starts = job[j].starts
        /\ x.lock = job[j].lock /\ x.stalls = job[j].stalls + 1
    BY <1>1 DEF JobRecord
  <1>3. x \in JobRecord
    <2>1. p \in Places /\ job[j].stalls + 1 \in Nat
      BY <1>1, PlacesAre
    <2> HIDE DEF p
    <2> QED  BY <1>1, <2>1 DEF JobRecord
  <1>4. job' = [job EXCEPT ![j] = x]
    BY DEF Stalled
  <1>5. /\ job[j].starts <= job[j].made + job[j].stalls + 1 /\ job[j].starts > 0 /\ job[j].lock = 0
        /\ job[j].made < Attempts(job[j]) + retries[j] /\ job[j].stalls <= MaxStalled + retries[j]
        /\ job[j].place = "active"
    BY JobsTyped DEF Stalled, In, Budgeted
  <1>6. /\ p \in {"waiting", "failed"} /\ (p = "waiting" => job[j].stalls + 1 <= MaxStalled)
        /\ (p = "failed" => job[j].stalls + 1 > MaxStalled)
    BY <1>1
  <1>7. Attempts(x) = Attempts(job[j]) /\ Attempts(x) \in Nat
    BY <1>1, <1>2 DEF Attempts
  <1>8. retries' = retries /\ runs' = runs /\ lapsed' = lapsed /\ UNCHANGED <<backend, left>>
    BY DEF Stalled, ghosts, backend
  <1> HIDE DEF x, p
  <1>9. Budgeted(x, retries[j])
    BY <1>1, <1>2, <1>5, <1>6, <1>7 DEF Budgeted
  <1>10. job[j].starts <= x.starts /\ (x.lock = 0 \/ x.lock = job[j].lock)
    BY <1>1, <1>2
  <1>11. \A r \in runs' : r.job = j => j \in lapsed' \/ (x.place = job[j].place /\ x.lock = job[j].lock)
    BY <1>5, <1>8 DEF RedisInv, RunFits
  <1>12. /\ RetriesFit' /\ (\A k \in Jobs : k # j => retries'[k] = retries[k])
         /\ Budgeted(x, retries'[j]) /\ lapsed \subseteq lapsed' /\ lapsed' \subseteq Jobs /\ runs' \subseteq runs
    BY <1>8, <1>9 DEF RedisInv, JobsFit, RetriesFit
  <1> QED  BY <1>3, <1>4, <1>8, <1>10, <1>11, <1>12, OneJobGoesOn

LEMMA PromoteInv == ASSUME RedisInv, NEW j \in Jobs, Promote(j) PROVE RedisInv'
  <1> DEFINE x == [job[j] EXCEPT !.place = "prioritized"]
  <1>1. /\ job[j].max \in Nat /\ job[j].made \in Nat /\ job[j].starts \in Nat /\ job[j].stalls \in Nat
        /\ retries[j] \in Nat /\ job[j] \in JobRecord
    BY JobsTyped
  <1>2. /\ x.place = "prioritized" /\ x.made = job[j].made /\ x.max = job[j].max /\ x.starts = job[j].starts
        /\ x.lock = job[j].lock /\ x.stalls = job[j].stalls
    BY <1>1 DEF JobRecord
  <1>3. x \in JobRecord
    BY <1>1, PlacesAre DEF JobRecord
  <1>4. job' = [job EXCEPT ![j] = x]
    BY DEF Promote, Puts
  <1>5. Attempts(x) = Attempts(job[j])
    BY <1>2 DEF Attempts
  <1>6. Budgeted(x, retries[j]) /\ job[j].place = "delayed"
    BY <1>1, <1>2, <1>5, JobsTyped DEF Budgeted, Promote, In
  <1>7. retries' = retries /\ runs' = runs /\ lapsed' = lapsed /\ UNCHANGED <<backend, left>>
    BY DEF Promote, ghosts, backend
  <1> HIDE DEF x
  <1>8. job[j].starts <= x.starts /\ (x.lock = 0 \/ x.lock = job[j].lock)
    BY <1>1, <1>2
  <1>9. \A r \in runs' : r.job = j => j \in lapsed' \/ (x.place = job[j].place /\ x.lock = job[j].lock)
    BY <1>6, <1>7 DEF RedisInv, RunFits
  <1>10. /\ RetriesFit' /\ (\A k \in Jobs : k # j => retries'[k] = retries[k])
         /\ Budgeted(x, retries'[j]) /\ lapsed \subseteq lapsed' /\ lapsed' \subseteq Jobs /\ runs' \subseteq runs
    BY <1>6, <1>7 DEF RedisInv, JobsFit, RetriesFit
  <1> QED  BY <1>3, <1>4, <1>7, <1>8, <1>9, <1>10, OneJobGoesOn

LEMMA ReplayedInv == ASSUME RedisInv, NEW j \in Jobs, Replayed(j) PROVE RedisInv'
  <1> DEFINE x == [job[j] EXCEPT !.place = "waiting"]
             n == retries[j] + 1
  <1>1. /\ job[j].max \in Nat /\ job[j].made \in Nat /\ job[j].starts \in Nat /\ job[j].stalls \in Nat
        /\ retries[j] \in Nat /\ job[j] \in JobRecord /\ MaxStalled \in Nat /\ MaxRetries[j] \in Nat
    BY JobsTyped, Bounds
  <1>2. /\ x.place = "waiting" /\ x.made = job[j].made /\ x.max = job[j].max /\ x.starts = job[j].starts
        /\ x.lock = job[j].lock /\ x.stalls = job[j].stalls
    BY <1>1 DEF JobRecord
  <1>3. x \in JobRecord
    BY <1>1, PlacesAre DEF JobRecord
  <1>4. job' = [job EXCEPT ![j] = x]
    BY DEF Replayed, Puts
  <1>5. /\ job[j].starts <= job[j].made + job[j].stalls /\ job[j].starts > 0 /\ job[j].place = "failed"
        /\ job[j].made <= Attempts(job[j]) + retries[j] /\ job[j].stalls <= MaxStalled + 1 + retries[j]
    BY JobsTyped DEF Replayed, In, Budgeted
  <1>6. Attempts(x) = Attempts(job[j]) /\ Attempts(x) \in Nat
    BY <1>1, <1>2 DEF Attempts
  <1>7. /\ retries' = [retries EXCEPT ![j] = n] /\ retries[j] < MaxRetries[j] /\ runs' = runs
        /\ lapsed' = lapsed /\ UNCHANGED <<backend, left>>
    BY DEF Replayed
  <1>8. n \in Nat /\ n \in 0 .. MaxRetries[j]
    BY <1>1, <1>7
  <1>9. n = retries[j] + 1
    OBVIOUS
  <1> HIDE DEF x, n
  <1>10. Budgeted(x, n)
    BY <1>1, <1>2, <1>5, <1>6, <1>8, <1>9 DEF Budgeted
  <1>11. job[j].starts <= x.starts /\ (x.lock = 0 \/ x.lock = job[j].lock)
    BY <1>1, <1>2
  <1>12. \A r \in runs' : r.job = j => j \in lapsed' \/ (x.place = job[j].place /\ x.lock = job[j].lock)
    BY <1>5, <1>7 DEF RedisInv, RunFits
  <1>13. /\ RetriesFit' /\ (\A k \in Jobs : k # j => retries'[k] = retries[k])
         /\ retries'[j] = n
    BY <1>7, <1>8 DEF RedisInv, JobsFit, RetriesFit
  <1>14. Budgeted(x, retries'[j]) /\ lapsed \subseteq lapsed' /\ lapsed' \subseteq Jobs /\ runs' \subseteq runs
    BY <1>7, <1>10, <1>13 DEF RedisInv, JobsFit, RetriesFit
  <1>15. UNCHANGED <<backend, left>>
    BY <1>7
  <1> QED  BY <1>3, <1>4, <1>11, <1>12, <1>13, <1>14, <1>15, OneJobGoesOn

LEMMA NackJobInv == ASSUME RedisInv, NEW j \in Jobs, NackJob(j) PROVE RedisInv'
  <1> DEFINE x == FailedOnce(j)
             failed == [job EXCEPT ![j] = x]
  <1>1. /\ x \in JobRecord /\ Budgeted(x, retries[j]) /\ x.starts = job[j].starts /\ x.lock = job[j].lock
    BY FailedFits DEF NackJob
  <1>2. /\ job \in [Jobs -> JobRecord] /\ RetriesFit /\ lapsed \subseteq Jobs
        /\ \A i \in Jobs : Budgeted(job[i], retries[i])
    BY DEF RedisInv, JobsFit, RetriesFit
  <1>3. \A i \in Jobs : job[i].starts \in Nat /\ job[i].lock \in Nat
    BY <1>2 DEF JobRecord
  <1>4. /\ lapsed' = lapsed \cup {j} /\ runs' = runs /\ retries' = retries
        /\ UNCHANGED <<backend, left>> /\ job[j].place = "active"
    BY DEF NackJob, In
  <1>5. \A r \in runs : r.job \in Jobs
    BY DEF RedisInv, RunFits
  <1>6. \/ job' = failed
        \/ \E k \in Jobs : In(k, {"waiting", "prioritized"})
                           /\ job' = [failed EXCEPT ![k].place = "active", ![k].starts = @ + 1]
    BY DEF NackJob
  <1>7. failed \in [Jobs -> JobRecord] /\ failed[j] = x /\ \A i \in Jobs : i # j => failed[i] = job[i]
    BY <1>1, <1>2
  <1> HIDE DEF x, failed
  <1>8. CASE job' = failed
    <2>1. \A i \in Jobs : Budgeted(job'[i], retries'[i]) /\ job[i].starts <= job'[i].starts
      BY <1>1, <1>2, <1>3, <1>4, <1>7, <1>8
    <2>2. \A r \in runs' :
             /\ job'[r.job].lock = 0 \/ job'[r.job].lock = job[r.job].lock
             /\ r.job \notin lapsed' =>
                   job'[r.job].place = job[r.job].place /\ job'[r.job].lock = job[r.job].lock
      BY <1>1, <1>4, <1>5, <1>7, <1>8
    <2>3. JobsGoOn
      BY <1>2, <1>4, <1>7, <1>8, <2>1, <2>2 DEF JobsGoOn, backend, RetriesFit
    <2> QED  BY <2>3, JobsGoOnInv
  <1>9. ASSUME NEW k \in Jobs, In(k, {"waiting", "prioritized"}),
               job' = [failed EXCEPT ![k].place = "active", ![k].starts = @ + 1]
        PROVE  RedisInv'
    <2> DEFINE y == Started(k, job[k].lock)
    <2>1. k # j
      BY <1>4, <1>9 DEF In
    <2>2. y \in JobRecord /\ Budgeted(y, retries[k]) /\ y.lock = job[k].lock /\ y.starts = job[k].starts + 1
      <3>1. job[k].lock \in Nat /\ job[k].place \in {"waiting", "prioritized"}
        BY <1>3, <1>9 DEF In
      <3> QED  BY <3>1, StartedFits
    <2>3. y = [[job[k] EXCEPT !.place = "active"] EXCEPT !.starts = job[k].starts + 1]
      BY <1>2 DEF JobRecord, Started
    <2>4. failed[k] = job[k]
      BY <1>7, <2>1
    <2>5. job' = [failed EXCEPT ![k] = [[job[k] EXCEPT !.place = "active"] EXCEPT !.starts = job[k].starts + 1]]
      BY <1>7, <1>9, <2>4
    <2>6. job' = [failed EXCEPT ![k] = y]
      BY <2>3, <2>5
    <2> HIDE DEF y
    <2>7. job' \in [Jobs -> JobRecord] /\ job'[k] = y /\ job'[j] = x
          /\ \A i \in Jobs : i # j /\ i # k => job'[i] = job[i]
      BY <1>7, <2>1, <2>2, <2>6
    <2>8. ASSUME NEW i \in Jobs PROVE Budgeted(job'[i], retries'[i]) /\ job[i].starts <= job'[i].starts
      <3>1. CASE i = k
        BY <1>3, <1>4, <2>2, <2>7, <3>1
      <3>2. CASE i = j
        BY <1>1, <1>3, <1>4, <2>7, <3>2
      <3>3. CASE i # j /\ i # k
        BY <1>2, <1>3, <1>4, <2>7, <3>3
      <3> QED  BY <3>1, <3>2, <3>3
    <2>9. \A r \in runs : r.job = k => k \in lapsed
      BY <1>9, LapsedUnlessActive DEF In
    <2>10. ASSUME NEW r \in runs'
           PROVE  /\ job'[r.job].lock = 0 \/ job'[r.job].lock = job[r.job].lock
                  /\ r.job \notin lapsed' =>
                        job'[r.job].place = job[r.job].place /\ job'[r.job].lock = job[r.job].lock
      BY <1>1, <1>4, <1>5, <2>2, <2>7, <2>9
    <2>11. JobsGoOn
      BY <1>2, <1>4, <2>7, <2>8, <2>10 DEF JobsGoOn, backend, RetriesFit
    <2> QED  BY <2>11, JobsGoOnInv
  <1> QED  BY <1>6, <1>8, <1>9

LEMMA DrainInv == ASSUME RedisInv, Drain PROVE RedisInv'
  <1>1. /\ job \in [Jobs -> JobRecord] /\ RetriesFit /\ lapsed \subseteq Jobs
        /\ \A i \in Jobs : Budgeted(job[i], retries[i])
    BY DEF RedisInv, JobsFit, RetriesFit
  <1>2. runs' = runs /\ retries' = retries /\ lapsed' = lapsed /\ UNCHANGED <<backend, left>>
    BY DEF Drain, ghosts, backend
  <1>3. ASSUME NEW i \in Jobs
        PROVE  /\ job'[i] \in JobRecord /\ Budgeted(job'[i], retries'[i]) /\ job[i].starts <= job'[i].starts
               /\ job'[i].lock = job[i].lock /\ (job[i].place = "active" => job'[i] = job[i])
    <2>0. job[i].starts \in Nat
      BY JobsTyped
    <2>1. CASE In(i, {"waiting", "prioritized"})
      <3> DEFINE x == [job[i] EXCEPT !.place = "removed"]
      <3>1. job'[i] = x /\ job[i].place # "active"
        BY <2>1 DEF Drain, In
      <3>2. /\ job[i].max \in Nat /\ job[i].made \in Nat /\ job[i].stalls \in Nat
            /\ retries[i] \in Nat /\ job[i] \in JobRecord
        BY JobsTyped
      <3>3. /\ x.place = "removed" /\ x.made = job[i].made /\ x.max = job[i].max /\ x.starts = job[i].starts
            /\ x.lock = job[i].lock /\ x.stalls = job[i].stalls
        BY <3>2 DEF JobRecord
      <3>4. x \in JobRecord
        BY <3>2, PlacesAre DEF JobRecord
      <3>5. Attempts(x) = Attempts(job[i])
        BY <3>3 DEF Attempts
      <3>6. Budgeted(x, retries[i])
        BY <1>1, <3>3, <3>5 DEF Budgeted
      <3> HIDE DEF x
      <3> QED  BY <1>2, <2>0, <3>1, <3>3, <3>4, <3>6
    <2>2. CASE ~In(i, {"waiting", "prioritized"})
      <3>1. job'[i] = job[i]
        BY <2>2 DEF Drain
      <3> QED  BY <1>1, <1>2, <2>0, <3>1
    <2> QED  BY <2>1, <2>2
  <1>4. job' \in [Jobs -> JobRecord]
    <2>1. job' = [i \in Jobs |-> job'[i]]
      BY DEF Drain
    <2> QED  BY <1>3, <2>1
  <1>5. ASSUME NEW r \in runs'
        PROVE  /\ job'[r.job].lock = 0 \/ job'[r.job].lock = job[r.job].lock
               /\ r.job \notin lapsed' =>
                     job'[r.job].place = job[r.job].place /\ job'[r.job].lock = job[r.job].lock
    BY <1>2, <1>3 DEF RedisInv, RunFits
  <1>6. JobsGoOn
    BY <1>1, <1>2, <1>3, <1>4, <1>5 DEF JobsGoOn, backend, RetriesFit
  <1> QED  BY <1>6, JobsGoOnInv

LEMMA RemovedFits ==
  ASSUME NEW y \in JobRecord, NEW n \in Nat, Budgeted(y, n), NEW x, x = [y EXCEPT !.place = "removed"]
  PROVE  x \in JobRecord /\ Budgeted(x, n) /\ x.lock = y.lock /\ x.starts = y.starts /\ x.place = "removed"
  <1>1. /\ x.place = "removed" /\ x.made = y.made /\ x.max = y.max /\ x.starts = y.starts
        /\ x.lock = y.lock /\ x.stalls = y.stalls /\ x \in JobRecord
    BY PlacesAre DEF JobRecord
  <1>2. Attempts(x) = Attempts(y)
    BY <1>1 DEF Attempts
  <1> QED  BY <1>1, <1>2 DEF Budgeted

\* The answer of a run changes its own job only, and no other run that has its job
\* is disturbed: it would be a second run of the same one.
AnswerFits(f, r) ==
    /\ f \in [Jobs -> JobRecord]
    /\ \A i \in Jobs : /\ Budgeted(f[i], retries[i]) /\ job[i].starts <= f[i].starts
                       /\ f[i].lock = 0 \/ f[i].lock = job[i].lock
    /\ \A q \in runs \ {r} : q.job \notin lapsed => f[q.job] = job[q.job]

LEMMA AnsweredFits ==
  ASSUME RedisInv, NEW r \in runs, NEW new,
         Holds(r) => new \in JobRecord /\ Budgeted(new, retries[r.job]) /\ new.starts = job[r.job].starts
  PROVE  AnswerFits(Answered(r, new), r)
  <1> DEFINE j == r.job
             y == IF Holds(r) THEN new ELSE job[j]
             l == IF job[j].lock = r.start THEN 0 ELSE job[j].lock
             x == [y EXCEPT !.lock = l]
             f == Answered(r, new)
  <1>1. j \in Jobs
    BY DEF RedisInv, RunFits
  <1>2. /\ job[j] \in JobRecord /\ job[j].starts \in Nat /\ retries[j] \in Nat /\ job[j].lock \in Nat
        /\ Budgeted(job[j], retries[j])
    BY <1>1, JobsTyped
  <1>3. f = [job EXCEPT ![j] = x]
    BY DEF Answered
  <1>4. y \in JobRecord /\ Budgeted(y, retries[j]) /\ y.starts = job[j].starts
    <2>1. CASE Holds(r)
      BY <2>1
    <2>2. CASE ~Holds(r)
      BY <1>2, <2>2
    <2> QED  BY <2>1, <2>2
  <1>5. l \in Nat /\ (l = 0 \/ l = job[j].lock)
    BY <1>2
  <1>6. x = [y EXCEPT !.lock = l]
    OBVIOUS
  <1>7. \A i \in Jobs : Budgeted(job[i], retries[i]) /\ job[i].starts \in Nat
    BY JobsTyped
  <1>8. job \in [Jobs -> JobRecord]
    BY DEF RedisInv, JobsFit, RetriesFit
  <1>9. \A q \in runs \ {r} : q.job \in Jobs /\ (q.job \notin lapsed => q.job # j)
    BY DEF RedisInv, OneRun, RunFits
  <1> HIDE DEF x, y, l, f, j
  <1>10. x \in JobRecord /\ Budgeted(x, retries[j]) /\ x.lock = l /\ x.starts = y.starts
    BY <1>2, <1>4, <1>5, <1>6, UnlockedFits
  <1>11. f \in [Jobs -> JobRecord] /\ f[j] = x /\ \A i \in Jobs : i # j => f[i] = job[i]
    BY <1>1, <1>3, <1>8, <1>10
  <1>12. ASSUME NEW i \in Jobs
         PROVE  Budgeted(f[i], retries[i]) /\ job[i].starts <= f[i].starts /\ (f[i].lock = 0 \/ f[i].lock = job[i].lock)
    <2>1. CASE i = j
      BY <1>2, <1>4, <1>5, <1>10, <1>11, <2>1
    <2>2. CASE i # j
      BY <1>7, <1>11, <2>2
    <2> QED  BY <2>1, <2>2
  <1>13. \A q \in runs \ {r} : q.job \notin lapsed => f[q.job] = job[q.job]
    BY <1>9, <1>11
  <1>14. AnswerFits(f, r)
    BY <1>11, <1>12, <1>13 DEF AnswerFits
  <1> QED  BY <1>14 DEF f

LEMMA AnswerInv ==
  ASSUME RedisInv, NEW r \in runs, AnswerFits(job', r), runs' = runs \ {r},
         UNCHANGED <<backend, lapsed, retries, left>>
  PROVE  RedisInv'
  <1>1. /\ RetriesFit /\ lapsed \subseteq Jobs
    BY DEF RedisInv, JobsFit, RetriesFit
  <1>2. \A q \in runs : q.job \in Jobs
    BY DEF RedisInv, RunFits
  <1>3. JobsGoOn
    BY <1>1, <1>2 DEF JobsGoOn, AnswerFits, backend, RetriesFit
  <1> QED  BY <1>3, JobsGoOnInv

LEMMA HandlerThrowsInv == ASSUME RedisInv, NEW r \in runs, HandlerThrows(r) PROVE RedisInv'
  <1>1. r.job \in Jobs
    BY DEF RedisInv, RunFits
  <1>2. Holds(r) => /\ FailedOnce(r.job) \in JobRecord /\ Budgeted(FailedOnce(r.job), retries[r.job])
                    /\ FailedOnce(r.job).starts = job[r.job].starts
    BY <1>1, FailedFits DEF Holds
  <1>3. AnswerFits(Answered(r, FailedOnce(r.job)), r)
    BY <1>2, AnsweredFits
  <1>4. /\ job' = Answered(r, FailedOnce(r.job)) /\ runs' = runs \ {r}
        /\ UNCHANGED <<backend, lapsed, retries, left>>
    BY DEF HandlerThrows, ghosts, backend
  <1>5. AnswerFits(job', r)
    BY <1>3, <1>4
  <1> QED  BY <1>4, <1>5, AnswerInv

LEMMA HandlerReturnsInv == ASSUME RedisInv, NEW r \in runs, HandlerReturns(r) PROVE RedisInv'
  <1> DEFINE new == [job[r.job] EXCEPT !.place = "completed"]
             f == Answered(r, new)
  <1>1. r.job \in Jobs
    BY DEF RedisInv, RunFits
  <1>2. new = [job[r.job] EXCEPT !.place = "completed"]
    OBVIOUS
  <1>3. /\ job' \in Trimmed(f) /\ runs' = runs \ {r}
        /\ UNCHANGED <<backend, lapsed, retries, left>>
    BY DEF HandlerReturns, ghosts, backend
  <1>4. AnswerFits(f, r)
    <2> HIDE DEF new
    <2>1. new \in JobRecord /\ Budgeted(new, retries[r.job]) /\ new.starts = job[r.job].starts
      BY <1>1, <1>2, CompletedFits
    <2> QED  BY <2>1, AnsweredFits
  <1> HIDE DEF f, new
  <1>5. CASE job' = f
    BY <1>3, <1>4, <1>5, AnswerInv
  <1>6. ASSUME NEW k \in Jobs, f[k].place = "completed", job[k].place = "completed",
               job' = [f EXCEPT ![k].place = "removed"]
        PROVE  RedisInv'
    <2> DEFINE x == [f[k] EXCEPT !.place = "removed"]
    <2>1. f \in [Jobs -> JobRecord] /\ Budgeted(f[k], retries[k]) /\ retries[k] \in Nat /\ f[k] \in JobRecord
      BY <1>4, JobsTyped DEF AnswerFits
    <2>2. job' = [f EXCEPT ![k] = x] /\ x = [f[k] EXCEPT !.place = "removed"]
      BY <1>6
    <2> HIDE DEF x
    <2>3. x \in JobRecord /\ Budgeted(x, retries[k]) /\ x.lock = f[k].lock /\ x.starts = f[k].starts
      BY <2>1, <2>2, RemovedFits
    <2>4. job' \in [Jobs -> JobRecord] /\ job'[k] = x /\ \A i \in Jobs : i # k => job'[i] = f[i]
      BY <2>1, <2>2, <2>3
    <2>5. \A q \in runs : q.job \in Jobs /\ (q.job = k => q.job \in lapsed)
      BY <1>6 DEF RedisInv, RunFits
    <2>6. ASSUME NEW i \in Jobs
          PROVE  /\ Budgeted(job'[i], retries[i]) /\ job[i].starts <= job'[i].starts
                 /\ job'[i].lock = 0 \/ job'[i].lock = job[i].lock
      <3>1. CASE i = k
        BY <1>4, <2>3, <2>4, <3>1 DEF AnswerFits
      <3>2. CASE i # k
        BY <1>4, <2>4, <3>2 DEF AnswerFits
      <3> QED  BY <3>1, <3>2
    <2>7. \A q \in runs \ {r} : q.job \notin lapsed => job'[q.job] = job[q.job]
      BY <1>4, <2>4, <2>5 DEF AnswerFits
    <2>8. AnswerFits(job', r)
      BY <2>4, <2>6, <2>7 DEF AnswerFits
    <2> QED  BY <1>3, <2>8, AnswerInv
  <1>7. \/ job' = f
        \/ \E k \in Jobs : /\ f[k].place = "completed" /\ job[k].place = "completed"
                           /\ job' = [f EXCEPT ![k].place = "removed"]
    BY <1>3 DEF Trimmed
  <1> QED  BY <1>5, <1>6, <1>7

LEMMA TakeJobInv == ASSUME RedisInv, NEW j \in Jobs, NEW w \in Workers, TakeJob(w, j) PROVE RedisInv'
  <1> DEFINE n == job[j].starts + 1
             x == Started(j, n)
             new == [job |-> j, by |-> w, start |-> n]
  <1>0. job[j].starts \in Nat
    BY JobsTyped
  <1>1. job[j].starts \in Nat /\ n \in Nat /\ n = job[j].starts + 1
    BY <1>0
  <1>2. /\ runs' = runs \cup {new} /\ worker[w] = "open" /\ job[j].place \in {"waiting", "prioritized"}
        /\ UNCHANGED <<backend, lapsed, retries, left>>
    BY DEF TakeJob, In, ghosts, backend
  <1>3. job' = [job EXCEPT ![j] = x]
    BY DEF TakeJob, Started
  <1>4. new.job = j /\ new.by = w /\ new.start = n
    OBVIOUS
  <1> HIDE DEF n, new
  <1>5. /\ x \in JobRecord /\ Budgeted(x, retries[j]) /\ x.lock = n /\ x.starts = job[j].starts + 1
        /\ x.place = "active"
    BY <1>1, <1>2, StartedFits
  <1> HIDE DEF x
  <1>6. job' \in [Jobs -> JobRecord] /\ job'[j] = x /\ \A i \in Jobs : i # j => job'[i] = job[i]
    BY <1>3, <1>5 DEF RedisInv, JobsFit, RetriesFit
  <1>7. JobsFit'
    <2>1. ASSUME NEW i \in Jobs PROVE Budgeted(job'[i], retries'[i])
      <3>1. CASE i = j
        BY <1>2, <1>5, <1>6, <3>1
      <3>2. CASE i # j
        BY <1>2, <1>6, <3>2 DEF RedisInv, JobsFit, RetriesFit
      <3> QED  BY <3>1, <3>2
    <2> QED  BY <1>2, <1>6, <2>1 DEF RedisInv, JobsFit, RetriesFit
  <1>8. WorkersFit'
    BY <1>2 DEF RedisInv, WorkersFit, backend
  <1>9. \A q \in runs : q.job = j => j \in lapsed
    BY <1>2, LapsedUnlessActive
  <1>10. OneRun'
    BY <1>2, <1>4, <1>9 DEF RedisInv, OneRun
  <1>11. ASSUME NEW q \in runs' PROVE RunFits(q)'
    <2>1. CASE q = new
      <3>1. q.start \in 1 .. job'[j].starts
        BY <1>1, <1>4, <1>5, <1>6, <2>1
      <3>2. q.job = j /\ q.by = w /\ q.start = n
        BY <1>4, <2>1
      <3>3. job'[j].lock = n /\ job'[j].place = "active"
        BY <1>5, <1>6
      <3>4. n <= n
        BY <1>1
      <3> QED  BY <1>2, <3>1, <3>2, <3>3, <3>4 DEF RunFits, backend, Closable
    <2>2. CASE q \in runs /\ q.job = j
      <3>1. /\ q.by \in Workers /\ q.start \in 1 .. job[j].starts /\ j \in lapsed
            /\ worker[q.by] \in Closable
        BY <1>9, <2>2 DEF RedisInv, RunFits
      <3>2. q.start \in 1 .. job'[j].starts /\ q.start <= job'[j].lock
        BY <1>1, <1>5, <1>6, <3>1
      <3> QED  BY <1>2, <2>2, <3>1, <3>2 DEF RunFits, backend
    <2>3. CASE q \in runs /\ q.job # j
      <3>1. RunFits(q)
        BY <2>3 DEF RedisInv
      <3>2. job'[q.job] = job[q.job]
        BY <1>6, <2>3, <3>1 DEF RunFits
      <3> QED  BY <1>2, <3>1, <3>2 DEF RunFits, backend
    <2> QED  BY <1>2, <2>1, <2>2, <2>3
  <1> QED  BY <1>7, <1>8, <1>10, <1>11 DEF RedisInv

\* Steps of workers and of the backend leave the jobs alone, and a worker with
\* runs is not closed.
LEMMA WorkersGoOn ==
  ASSUME RedisInv, UNCHANGED <<job, lapsed, retries>>, runs' \subseteq runs, WorkersFit',
         \A r \in runs' : worker'[r.by] \in Closable
  PROVE  RedisInv'
  <1>1. JobsFit' /\ OneRun'
    BY DEF RedisInv, JobsFit, RetriesFit, OneRun
  <1>2. ASSUME NEW r \in runs' PROVE RunFits(r)'
    BY DEF RedisInv, RunFits
  <1> QED  BY <1>1, <1>2 DEF RedisInv

LEMMA WorkerStepsInv ==
  ASSUME RedisInv, NEW w \in Workers, Work(w) \/ CloseWorker(w) \/ WorkerCloses(w) \/ StopWorker(w)
  PROVE  RedisInv'
  <1>1. /\ WorkersFit /\ worker \in [Workers -> Closable \cup {"none", "closed", "gone"}]
        /\ \A r \in runs : r.by \in Workers /\ worker[r.by] \in Closable
    BY DEF RedisInv, WorkersFit, RunFits
  <1>2. UNCHANGED <<job, lapsed, retries>> /\ runs' = runs
    BY DEF Work, CloseWorker, WorkerCloses, StopWorker, ghosts
  <1>3. CASE Work(w)
    <2>1. WorkersFit'
      BY <1>1, <1>3 DEF Work, WorkersFit, Closable
    <2>2. \A r \in runs' : worker'[r.by] \in Closable
      BY <1>1, <1>2, <1>3 DEF Work, Closable
    <2> QED  BY <1>2, <2>1, <2>2, WorkersGoOn
  <1>4. CASE CloseWorker(w)
    <2>1. WorkersFit'
      BY <1>1, <1>4 DEF CloseWorker, WorkersFit, Closable, ghosts
    <2>2. \A r \in runs' : worker'[r.by] \in Closable
      BY <1>1, <1>2, <1>4 DEF CloseWorker, Closable
    <2> QED  BY <1>2, <2>1, <2>2, WorkersGoOn
  <1>5. CASE WorkerCloses(w)
    <2>1. worker' = [worker EXCEPT ![w] = "closed"]
      BY <1>5 DEF WorkerCloses
    <2>2. WorkersFit'
      <3>1. CASE worker[w] = "stopping"
        BY <1>1, <1>5, <2>1, <3>1 DEF WorkerCloses, WorkersFit, Closable
      <3>2. CASE worker[w] # "stopping"
        BY <1>1, <1>5, <2>1, <3>2 DEF WorkerCloses, WorkersFit, Deleted, Closable
      <3> QED  BY <3>1, <3>2
    <2>3. \A r \in runs' : worker'[r.by] \in Closable
      BY <1>1, <1>2, <1>5, <2>1 DEF WorkerCloses
    <2> QED  BY <1>2, <2>2, <2>3, WorkersGoOn
  <1>6. CASE StopWorker(w)
    <2>1. worker' \in [Workers -> Closable \cup {"none", "closed", "gone"}]
      BY <1>1, <1>6 DEF StopWorker, Closable
    <2>2. /\ \A v \in Workers : v # w => worker'[v] = worker[v]
          /\ worker'[w] # "open" /\ (worker[w] \in Closable => worker'[w] \in Closable)
      BY <1>1, <1>6 DEF StopWorker, Closable
    <2>3. WorkersFit'
      BY <1>1, <1>6, <2>1, <2>2 DEF StopWorker, WorkersFit, ghosts
    <2>4. \A r \in runs' : worker'[r.by] \in Closable
      BY <1>1, <1>2, <2>2
    <2> QED  BY <1>2, <2>3, <2>4, WorkersGoOn
  <1> QED  BY <1>3, <1>4, <1>5, <1>6

LEMMA LifeStepsInv == ASSUME RedisInv, ShutdownRedis \/ ShutdownEnds \/ RedisCrash PROVE RedisInv'
  <1>1. /\ WorkersFit /\ worker \in [Workers -> Closable \cup {"none", "closed", "gone"}]
        /\ \A r \in runs : r.by \in Workers /\ worker[r.by] \in Closable
    BY DEF RedisInv, WorkersFit, RunFits
  <1>2. UNCHANGED <<job, lapsed, retries, left>> /\ runs' \subseteq runs
    BY DEF ShutdownRedis, ShutdownEnds, RedisCrash, ghosts
  <1>3. WorkersFit'
    <2>1. CASE ShutdownRedis
      BY <1>1, <2>1 DEF ShutdownRedis, WorkersFit, ghosts
    <2>2. CASE ShutdownEnds
      BY <1>1, <2>2 DEF ShutdownEnds, WorkersFit, ghosts
    <2>3. CASE RedisCrash
      BY <1>1, <2>3 DEF RedisCrash, WorkersFit
    <2> QED  BY <2>1, <2>2, <2>3
  <1>4. \A r \in runs' : worker'[r.by] \in Closable
    BY <1>1 DEF ShutdownRedis, ShutdownEnds, RedisCrash
  <1> QED  BY <1>2, <1>3, <1>4, WorkersGoOn

LEMMA RedisStepInv == RedisInv /\ [RedisNext]_redisvars => RedisInv'
  <1> SUFFICES ASSUME RedisInv, [RedisNext]_redisvars PROVE RedisInv'
    OBVIOUS
  <1>1. ASSUME NEW j \in Jobs, NEW offer \in Offers[j], NEW d \in BOOLEAN, AddJob(j, offer[1], offer[2], d)
        PROVE  RedisInv'
    BY <1>1, AddJobInv
  <1>2. ASSUME NEW j \in Jobs,
               \/ \E w \in Workers : TakeJob(w, j)
               \/ NackJob(j) \/ LockExpires(j) \/ Stalled(j) \/ Promote(j) \/ Replayed(j)
        PROVE  RedisInv'
    BY <1>2, TakeJobInv, NackJobInv, LockExpiresInv, StalledInv, PromoteInv, ReplayedInv
  <1>3. ASSUME NEW w \in Workers, Work(w) \/ CloseWorker(w) \/ WorkerCloses(w) \/ StopWorker(w) PROVE RedisInv'
    BY <1>3, WorkerStepsInv
  <1>4. ASSUME NEW r \in runs, HandlerReturns(r) \/ HandlerThrows(r) PROVE RedisInv'
    BY <1>4, HandlerReturnsInv, HandlerThrowsInv
  <1>5. CASE ShutdownRedis \/ ShutdownEnds \/ Drain \/ RedisCrash
    BY <1>5, LifeStepsInv, DrainInv
  <1>6. CASE UNCHANGED redisvars
    BY <1>6 DEF redisvars, RedisInv, JobsFit, RetriesFit, WorkersFit, OneRun, RunFits, backend
  <1> QED  BY <1>1, <1>2, <1>3, <1>4, <1>5, <1>6 DEF RedisNext

\* Every job's runs are accounted for, in every reachable state.
THEOREM RedisInvariance == RedisSpec => []RedisInv
  BY RedisInitInv, RedisStepInv, PTL DEF RedisSpec

LEMMA RedisTypeFromInv == RedisInv => RedisTypeOK
  <1> SUFFICES ASSUME RedisInv PROVE RedisTypeOK
    OBVIOUS
  <1>1. entry \subseteq Workers /\ Cardinality(entry) <= 1
    <2>1. CASE entry = {}
      BY <2>1, FS_EmptySet
    <2>2. ASSUME NEW w \in Workers, entry = {w} PROVE entry \subseteq Workers /\ Cardinality(entry) <= 1
      BY <2>2, FS_Singleton
    <2> QED  BY <2>1, <2>2 DEF RedisInv, WorkersFit
  <1>2. job \in [Jobs -> [place : Places, key : JobKeys, max : Nat,
                          made : Nat, starts : Nat, lock : Nat, stalls : Nat]]
    BY DEF RedisInv, JobsFit, RetriesFit, JobRecord
  <1> QED  BY <1>1, <1>2 DEF RedisTypeOK, RedisInv, JobsFit, RetriesFit, WorkersFit, RunFits

LEMMA BudgetFromInv == RedisInv => PulledWasTried /\ RunBudget
  <1> SUFFICES ASSUME RedisInv PROVE PulledWasTried /\ RunBudget
    OBVIOUS
  <1>1. \A j \in Jobs : Budgeted(job[j], retries[j])
    BY DEF RedisInv, JobsFit, RetriesFit
  <1> QED  BY <1>1 DEF PulledWasTried, RunBudget, Pullable, Failed, In, Budgeted, Attempts

\* A step that ends no run completes no job.
LEMMA OnlyAnswersComplete ==
  ASSUME RedisInv, [RedisNext]_redisvars, ~\E r \in runs : HandlerReturns(r),
         NEW j \in Jobs, job[j].place = "active"
  PROVE  job'[j].place # "completed"
  <1>1. job \in [Jobs -> JobRecord] /\ \A i \in Jobs : job[i].place \in Places
    BY JobsTyped DEF RedisInv, JobsFit, RetriesFit
  <1>2. ASSUME NEW i \in Jobs, NEW offer \in Offers[i], NEW d \in BOOLEAN, AddJob(i, offer[1], offer[2], d)
        PROVE  job'[j].place # "completed"
    BY <1>1, <1>2 DEF AddJob, PlaceOfNew, JobRecord
  <1>3. ASSUME NEW i \in Jobs, NEW w \in Workers, TakeJob(w, i) PROVE job'[j].place # "completed"
    BY <1>1, <1>3 DEF TakeJob, JobRecord
  <1>4. ASSUME NEW i \in Jobs, NackJob(i) PROVE job'[j].place # "completed"
    <2> DEFINE failed == [job EXCEPT ![i] = FailedOnce(i)]
    <2>1. FailedOnce(i) \in JobRecord /\ FailedOnce(i).place # "completed"
      BY <1>4, FailedFits DEF NackJob
    <2>2. failed \in [Jobs -> JobRecord] /\ failed[j].place # "completed"
      BY <1>1, <2>1
    <2>3. \/ job' = failed
          \/ \E k \in Jobs : job' = [failed EXCEPT ![k].place = "active", ![k].starts = @ + 1]
      BY <1>4 DEF NackJob
    <2> HIDE DEF failed
    <2>4. ASSUME NEW k \in Jobs, job' = [failed EXCEPT ![k].place = "active", ![k].starts = @ + 1]
          PROVE  job'[j].place # "completed"
      BY <2>2, <2>4 DEF JobRecord
    <2> QED  BY <2>2, <2>3, <2>4
  <1>5. ASSUME NEW i \in Jobs, LockExpires(i) PROVE job'[j].place # "completed"
    BY <1>1, <1>5 DEF LockExpires, JobRecord
  <1>6. ASSUME NEW i \in Jobs, Stalled(i) PROVE job'[j].place # "completed"
    BY <1>1, <1>6 DEF Stalled, JobRecord
  <1>7. ASSUME NEW i \in Jobs, Promote(i) \/ Replayed(i) PROVE job'[j].place # "completed"
    BY <1>1, <1>7 DEF Promote, Replayed, Puts, JobRecord
  <1>8. ASSUME NEW r \in runs, HandlerThrows(r) PROVE job'[j].place # "completed"
    <2> DEFINE new == FailedOnce(r.job)
               y == IF Holds(r) THEN new ELSE job[r.job]
               l == IF job[r.job].lock = r.start THEN 0 ELSE job[r.job].lock
    <2>1. r.job \in Jobs
      BY DEF RedisInv, RunFits
    <2>2. Holds(r) => new \in JobRecord /\ new.place # "completed"
      BY <2>1, FailedFits DEF Holds
    <2>3. job' = [job EXCEPT ![r.job] = [y EXCEPT !.lock = l]]
      BY <1>8 DEF HandlerThrows, Answered
    <2>4. r.job = j => y \in JobRecord /\ y.place # "completed"
      <3>1. CASE Holds(r)
        BY <2>2, <3>1
      <3>2. CASE ~Holds(r)
        BY <1>1, <3>2
      <3> QED  BY <3>1, <3>2
    <2> HIDE DEF y, l
    <2> QED  BY <1>1, <2>1, <2>3, <2>4 DEF JobRecord
  <1>9. CASE Drain
    BY <1>1, <1>9 DEF Drain, In
  <1>10. CASE job' = job
    BY <1>10
  <1>11. ASSUME NEW w \in Workers, Work(w) \/ CloseWorker(w) \/ WorkerCloses(w) \/ StopWorker(w) PROVE job' = job
    BY <1>11 DEF Work, CloseWorker, WorkerCloses, StopWorker
  <1>12. ShutdownRedis \/ ShutdownEnds \/ RedisCrash \/ UNCHANGED redisvars => job' = job
    BY DEF ShutdownRedis, ShutdownEnds, RedisCrash, redisvars
  <1> QED  BY <1>2, <1>3, <1>4, <1>5, <1>6, <1>7, <1>8, <1>9, <1>10, <1>11, <1>12 DEF RedisNext

\* A handler's return completes its job only while it has the lock, which no earlier
\* handler of the job has.
LEMMA ReturnCompletes ==
  ASSUME RedisInv, NEW r \in runs, HandlerReturns(r), NEW j \in Jobs,
         job[j].place = "active", job'[j].place = "completed"
  PROVE  r \in runs \ runs' /\ r.job = j /\ \A q \in runs : q.job = j => q.start <= r.start
  <1> DEFINE new == [job[r.job] EXCEPT !.place = "completed"]
             y == IF Holds(r) THEN new ELSE job[r.job]
             l == IF job[r.job].lock = r.start THEN 0 ELSE job[r.job].lock
             f == Answered(r, new)
  <1>1. job \in [Jobs -> JobRecord] /\ r.job \in Jobs /\ r.start \in Nat /\ r.start # 0
    <2>1. job[r.job] \in JobRecord /\ r.start \in 1 .. job[r.job].starts
      BY DEF RedisInv, RunFits, JobsFit, RetriesFit
    <2>2. job[r.job].starts \in Nat
      BY <2>1 DEF JobRecord
    <2> QED  BY <2>1, <2>2 DEF RedisInv, RunFits, JobsFit, RetriesFit
  <1>2. job' \in Trimmed(f) /\ runs' = runs \ {r}
    BY DEF HandlerReturns
  <1>3. f = [job EXCEPT ![r.job] = [y EXCEPT !.lock = l]]
    BY DEF Answered
  <1>4. y \in JobRecord /\ (~Holds(r) => y = job[r.job])
    <2>1. new \in JobRecord
      BY <1>1, PlacesAre DEF JobRecord
    <2> QED  BY <1>1, <2>1
  <1>5. l \in Nat
    BY <1>1 DEF JobRecord
  <1> HIDE DEF y, l, f, new
  <1>6. f \in [Jobs -> JobRecord]
    BY <1>1, <1>3, <1>4, <1>5 DEF JobRecord
  <1>7. f[j].place = "completed"
    <2>1. CASE job' = f
      BY <2>1
    <2>2. ASSUME NEW k \in Jobs, f[k].place = "completed", job' = [f EXCEPT ![k].place = "removed"]
          PROVE  f[j].place = "completed"
      BY <1>6, <2>2 DEF JobRecord
    <2> QED  BY <1>2, <2>1, <2>2 DEF Trimmed
  <1>8. j = r.job
    BY <1>1, <1>3, <1>7
  <1>9. f[j].place = y.place
    BY <1>1, <1>3, <1>4, <1>5, <1>8 DEF JobRecord
  <1>10. job[j].lock = r.start
    BY <1>4, <1>7, <1>8, <1>9 DEF Holds
  <1>11. \A q \in runs : q.job = j => q.start <= r.start
    BY <1>1, <1>10 DEF RedisInv, RunFits
  <1> QED  BY <1>2, <1>8, <1>11

\* The type invariant holds for any jobs, offers, workers and bounds.
THEOREM RedisTypeCorrect == RedisSpec => []RedisTypeOK
  BY RedisInvariance, RedisTypeFromInv, PTL

\* Jobs through workers, pulls, stalls, nacks, replays and crashes: only tried jobs
\* are pulled, two handlers have a job only after the first has lapsed, every run is
\* paid for, shutdown leaves open only who was out of its reach, and a late answer is dropped.
THEOREM RunsAccountedHolds == RedisSpec => RunsAccounted
  <1>1. RedisInv /\ [RedisNext]_redisvars =>
          [\A j \in Jobs : In(j, {"active"}) /\ job'[j].place = "completed" =>
              \E r \in runs \ runs' : r.job = j /\ \A q \in runs : q.job = j => q.start <= r.start]_redisvars
    <2> SUFFICES ASSUME RedisInv, [RedisNext]_redisvars,
                        NEW j \in Jobs, In(j, {"active"}), job'[j].place = "completed"
                 PROVE  \E r \in runs \ runs' : r.job = j /\ \A q \in runs : q.job = j => q.start <= r.start
      OBVIOUS
    <2>1. PICK r \in runs : HandlerReturns(r)
      BY OnlyAnswersComplete DEF In
    <2>2. job[j].place = "active"
      BY DEF In
    <2>3. r \in runs \ runs' /\ r.job = j /\ \A q \in runs : q.job = j => q.start <= r.start
      BY <2>1, <2>2, ReturnCompletes
    <2> QED  BY <2>3
  <1>2. RedisInv => PulledWasTried /\ OneRun /\ RunBudget /\ LeftOpen
    BY BudgetFromInv DEF RedisInv, WorkersFit, LeftOpen
  <1>3. RedisSpec => []RedisInv /\ [][RedisNext]_redisvars
    BY RedisInvariance DEF RedisSpec
  <1> QED  BY <1>1, <1>2, <1>3, PTL DEF RunsAccounted, LateAnswerDropped
=============================================================================
