------------------------------- MODULE Caches -------------------------------
(***************************************************************************)
(* MemoryCacheBackend and RedisCacheBackend (src/kernel-impl/memory/cache.ts *)
(* and redis/cache.ts): one key, counted with increment, claimed with       *)
(* setIfAbsent, set and deleted.  The memory backend awaits its own get     *)
(* and has before it sets, so other calls run in between; the Redis backend *)
(* sends one or three commands, and other clients' commands, or a crash of  *)
(* the process, come in between.  Increments are by one.                    *)
(***************************************************************************)
EXTENDS Naturals

CONSTANTS
    CacheCalls,     \* the calls of increment and setIfAbsent, each made once
    MaxLives        \* bound: how often the key is set, deleted or expires

VARIABLES
    cacheBackend,   \* "memory" or "redis"
    value,          \* the value; 0 when the key is not there
    ttl,            \* the entry expires some time
    elapsed,        \* memory: Date.now() > expiresAt, and the entry still there
    cacheCall,      \* the calls
    life,           \* auxiliary: changes whenever the key is set or removed
    torn            \* auxiliary: some call has set over a value it had not read

cachevars == <<cacheBackend, value, ttl, elapsed, cacheCall, life, torn>>

\* A call: its kind, whether it gave a ttl, where it is, what it read or was
\* answered, and the life of the key it found.
Progress == [kind : {"none", "increment", "setIfAbsent"}, ttl : BOOLEAN,
             at : {"new", "read", "pttl", "pexpire", "told", "failed"}, n : Nat, in : Nat]

CacheTypeOK ==
    /\ cacheBackend \in {"memory", "redis"} /\ value \in Nat
    /\ ttl \in BOOLEAN /\ elapsed \in BOOLEAN /\ torn \in BOOLEAN
    /\ value = 0 => ~ttl
    /\ elapsed => ttl /\ cacheBackend = "memory"
    /\ cacheCall \in [CacheCalls -> Progress]
    /\ \A c \in CacheCalls :
          /\ cacheCall[c].at = "read" => cacheBackend = "memory"
          /\ cacheCall[c].at \in {"pttl", "pexpire", "failed"} => cacheBackend = "redis"
    /\ life \in Nat

CacheInit ==
    /\ cacheBackend \in {"memory", "redis"} /\ value = 0 /\ ttl = FALSE /\ elapsed = FALSE
    /\ cacheCall = [c \in CacheCalls |-> [kind |-> "none", ttl |-> FALSE, at |-> "new", n |-> 0, in |-> 0]]
    /\ life = 0 /\ torn = FALSE

----------------------------------------------------------------------------
Made(c, kind, t, at, n, in) ==
    cacheCall' = [cacheCall EXCEPT ![c] = [kind |-> kind, ttl |-> t, at |-> at, n |-> n, in |-> in]]
Turns(c, at) == cacheCall' = [cacheCall EXCEPT ![c].at = at]

\* The entry goes: by delete, by eviction, or as Redis expires it.
Removed == value' = 0 /\ ttl' = FALSE /\ elapsed' = FALSE

\* memory: get and has, which remove an expired entry.
Looks == IF elapsed THEN Removed /\ life' = life + 1 ELSE UNCHANGED <<value, ttl, elapsed, life>>

\* memory: increment and setIfAbsent up to their first await.  setIfAbsent has
\* its answer when the key is there.
MemoryCall(c, kind, t) ==
    /\ cacheBackend = "memory" /\ cacheCall[c].at = "new" /\ (kind = "setIfAbsent" => t)
    /\ Looks
    /\ Made(c, kind, t, IF kind = "setIfAbsent" /\ value' # 0 THEN "told" ELSE "read",
            IF kind = "setIfAbsent" THEN 0 ELSE value', life')
    /\ UNCHANGED <<cacheBackend, torn>>

\* memory: and after it, set.  Without a ttl the new entry has none.
MemorySet(c) ==
    /\ cacheCall[c].at = "read"
    /\ value' = cacheCall[c].n + 1 /\ ttl' = cacheCall[c].ttl /\ elapsed' = FALSE
    /\ cacheCall' = [cacheCall EXCEPT ![c].at = "told", ![c].n = @ + 1]
    /\ torn' = (torn \/ life # cacheCall[c].in \/ value # cacheCall[c].n)
    /\ UNCHANGED <<cacheBackend, life>>

\* redis: INCR, which keeps the ttl of a key that has one.
Incr(c, t) ==
    /\ cacheBackend = "redis" /\ cacheCall[c].at = "new"
    /\ value' = value + 1
    /\ Made(c, "increment", t, IF t THEN "pttl" ELSE "told", value + 1, life)
    /\ UNCHANGED <<cacheBackend, ttl, elapsed, life, torn>>

\* Mutant: the ttl is set on a key that was new with this increment.
PttlOfFirst(c) ==
    /\ cacheCall[c].at = "pttl"
    /\ Turns(c, IF cacheCall[c].n = 1 THEN "pexpire" ELSE "told")
    /\ UNCHANGED <<cacheBackend, value, ttl, elapsed, life, torn>>

\* redis: PTTL, negative without a ttl and without the key.
Pttl(c) ==
    /\ cacheCall[c].at = "pttl"
    /\ Turns(c, IF ttl THEN "told" ELSE "pexpire")
    /\ UNCHANGED <<cacheBackend, value, ttl, elapsed, life, torn>>

\* redis: PEXPIRE, which does nothing without the key.
Pexpire(c) ==
    /\ cacheCall[c].at = "pexpire"
    /\ ttl' = (value # 0) /\ Turns(c, "told")
    /\ UNCHANGED <<cacheBackend, value, elapsed, life, torn>>

\* redis: SET with PX and NX.
SetNX(c) ==
    /\ cacheBackend = "redis" /\ cacheCall[c].at = "new"
    /\ IF value = 0 THEN value' = 1 /\ ttl' = TRUE ELSE UNCHANGED <<value, ttl>>
    /\ Made(c, "setIfAbsent", TRUE, "told", IF value = 0 THEN 1 ELSE 0, life)
    /\ UNCHANGED <<cacheBackend, elapsed, life, torn>>

\* redis: a command throws, or the process crashes, after INCR.
CacheFails(c) ==
    /\ cacheCall[c].at \in {"pttl", "pexpire"} /\ Turns(c, "failed")
    /\ UNCHANGED <<cacheBackend, value, ttl, elapsed, life, torn>>

----------------------------------------------------------------------------
\* set of a value, as a new beginning of the key.
SetKey(t) ==
    /\ life < MaxLives /\ life' = life + 1
    /\ value' = 1 /\ ttl' = t /\ elapsed' = FALSE
    /\ UNCHANGED <<cacheBackend, cacheCall, torn>>

DeleteEntry ==
    /\ life < MaxLives /\ life' = life + 1 /\ value # 0 /\ Removed
    /\ UNCHANGED <<cacheBackend, cacheCall, torn>>

\* The ttl passes: Redis removes the key, the memory backend when it looks at
\* it next, or at the next cleanup.
TtlPasses ==
    /\ ttl /\ ~elapsed /\ life < MaxLives
    /\ IF cacheBackend = "redis" THEN Removed /\ life' = life + 1
       ELSE elapsed' = TRUE /\ UNCHANGED <<value, ttl, life>>
    /\ UNCHANGED <<cacheBackend, cacheCall, torn>>

EvictCache ==
    /\ elapsed /\ Removed /\ life' = life + 1
    /\ UNCHANGED <<cacheBackend, cacheCall, torn>>

CacheNext ==
    \/ \E c \in CacheCalls :
          \/ \E t \in BOOLEAN, kind \in {"increment", "setIfAbsent"} : MemoryCall(c, kind, t)
          \/ MemorySet(c)
          \/ \E t \in BOOLEAN : Incr(c, t)
          \/ Pttl(c) \/ Pexpire(c) \/ SetNX(c) \/ CacheFails(c)
    \/ \E t \in BOOLEAN : SetKey(t)
    \/ DeleteEntry \/ TtlPasses \/ EvictCache

CacheSpec == CacheInit /\ [][CacheNext]_cachevars

----------------------------------------------------------------------------
\* The calls that were answered with a number of their own: a count, or TRUE.
Told(c) == cacheCall[c].at \notin {"new", "read"} /\ cacheCall[c].n > 0

\* Two callers of increment get the same count, or two of setIfAbsent both TRUE,
\* in one life of the key only where a call of the memory backend has set over
\* a value it had not read: never on Redis.
TicketsDiffer ==
    torn \/ \A c, d \in CacheCalls :
        c # d /\ Told(c) /\ Told(d) /\ cacheCall[c].in = cacheCall[d].in =>
            cacheCall[c].n # cacheCall[d].n

\* On Redis, once an increment with a ttl has returned, the counter has one,
\* whoever has set it and whatever other increments ran in between, until it is
\* set anew.
CounterExpires ==
    \A c \in CacheCalls :
        cacheBackend = "redis" /\ cacheCall[c].kind = "increment" /\ cacheCall[c].ttl
            /\ cacheCall[c].at = "told" /\ cacheCall[c].in = life => ttl

\* What rate limiting by a counter rests on.
CountersHold == TicketsDiffer /\ CounterExpires
=============================================================================
