----------------------------- MODULE TokenQuota -----------------------------
(***************************************************************************)
(* TokenQuotaManager (src/governance/quota/impl/token-quota.ts): concurrent *)
(* check and consume calls for one quota key.  Usage is kept per window in  *)
(* storage and copied into the cache; a call is suspended at every await:   *)
(* the limit, the storage calls and the cache calls.                        *)
(*                                                                          *)
(* atomicUpdate reads the row and then writes it.  Whether another call's   *)
(* update fits between the two is the storage backend's matter: never, with *)
(* the row lock of Postgres on a row that exists; always, in memory.  The   *)
(* model lets it happen and notes the windows where it did in raced; the    *)
(* modules StorageContract, PostgresStorage and MemoryStorage say when that *)
(* is.  Every storage and cache call may throw, and the cache may lose an   *)
(* entry at any time (ttl, eviction).  getUsage reads what check reads.     *)
(***************************************************************************)
EXTENDS Naturals

CONSTANTS
    Calls,          \* the calls ever made, each once
    Amounts,        \* what consume may be asked for; <= 0 counts as 0
    Limits,         \* what resolveQuotaLimit may return
    LastWindow,     \* bound: windows 0 .. LastWindow
    Miss            \* the cache's null

ASSUME QuotaAssumption ==
    /\ Amounts \subseteq Nat /\ Limits \subseteq Nat
    /\ LastWindow \in Nat
    /\ Miss \notin Nat

VARIABLES
    window,     \* the window of Date.now()
    used,       \* storage: the usage row of each window, 0 when there is none
    cached,     \* cache: the usage of each window; Miss when there is no entry
    call,
    charged,    \* auxiliary: the consume calls whose charge was written
    raced,      \* auxiliary: windows where two atomicUpdate calls overlapped
    disturbed   \* auxiliary: windows where two calls overlapped or one threw

vars == <<window, used, cached, call, charged, raced, disturbed>>

Windows == 0 .. LastWindow

\* Where a call is suspended, or how it ended.
Places == {"idle", "limit", "update", "write", "store", "lookup", "load", "fill",
           "allowed", "denied", "thrown"}

Call == [at : Places, kind : {"check", "consume"}, amount : Nat, win : Windows,
         limit : Nat, value : Nat]

TypeOK ==
    /\ window \in Windows
    /\ used \in [Windows -> Nat]
    /\ cached \in [Windows -> Nat \cup {Miss}]
    /\ call \in [Calls -> Call]
    /\ charged \subseteq Calls
    /\ raced \subseteq Windows
    /\ disturbed \subseteq Windows

Idle == [at |-> "idle", kind |-> "check", amount |-> 0, win |-> 0, limit |-> 0,
         value |-> 0]

Init ==
    /\ window = 0
    /\ used = [w \in Windows |-> 0]
    /\ cached = [w \in Windows |-> Miss]
    /\ call = [c \in Calls |-> Idle]
    /\ charged = {} /\ raced = {} /\ disturbed = {}

----------------------------------------------------------------------------
Open(c) == call[c].at \notin {"idle", "allowed", "denied", "thrown"}

OpenIn(w) == {c \in Calls : Open(c) /\ call[c].win = w}

Go(c, at) == call' = [call EXCEPT ![c].at = at]

\* check or consume up to its first await; the window is fixed here.
Begin(c, kind, amount) ==
    /\ call[c].at = "idle"
    /\ call' = [call EXCEPT ![c] = [Idle EXCEPT !.at = "limit", !.kind = kind,
                                                !.amount = amount, !.win = window]]
    /\ disturbed' = IF OpenIn(window) # {} THEN disturbed \cup {window} ELSE disturbed
    /\ UNCHANGED <<window, used, cached, charged, raced>>

\* The limit is known: consume goes to storage, unless nothing is asked for or
\* nothing is allowed.
Resolve(c, limit) ==
    /\ call[c].at = "limit"
    /\ call' = [call EXCEPT ![c].limit = limit,
                            ![c].at = IF call[c].amount > 0 /\ limit > 0 THEN "update"
                                                                         ELSE "lookup"]
    /\ UNCHANGED <<window, used, cached, charged, raced, disturbed>>

\* Mutant: consume fills the cache with what it is about to charge.
ReadUsageCaching(c) ==
    /\ call[c].at = "update"
    /\ call' = [call EXCEPT ![c].at = "write", ![c].value = used[call[c].win]]
    /\ raced' = IF \E d \in OpenIn(call[c].win) : call[d].at = "write"
                THEN raced \cup {call[c].win} ELSE raced
    /\ cached' = [cached EXCEPT ![call[c].win] = used[call[c].win] + call[c].amount]
    /\ UNCHANGED <<window, used, charged, disturbed>>

\* atomicUpdate has read the row.
ReadUsage(c) ==
    /\ call[c].at = "update"
    /\ call' = [call EXCEPT ![c].at = "write", ![c].value = used[call[c].win]]
    /\ raced' = IF \E d \in OpenIn(call[c].win) : call[d].at = "write"
                THEN raced \cup {call[c].win} ELSE raced
    /\ UNCHANGED <<window, used, cached, charged, disturbed>>

\* Mutant: the amount is left out of the comparison.
OverLimitAlready(c) == call[c].value > call[c].limit

OverLimit(c) == call[c].value + call[c].amount > call[c].limit

\* Mutant: the row is overwritten with the amount.
ChargeOnly(c) ==
    /\ call[c].at = "write" /\ ~OverLimit(c)
    /\ used' = [used EXCEPT ![call[c].win] = call[c].amount]
    /\ call' = [call EXCEPT ![c].at = "store", ![c].value = call[c].amount]
    /\ charged' = charged \cup {c}
    /\ UNCHANGED <<window, cached, raced, disturbed>>

\* The updater returns and atomicUpdate writes the row.
Charge(c) ==
    /\ call[c].at = "write" /\ ~OverLimit(c)
    /\ LET next == call[c].value + call[c].amount
       IN  /\ used' = [used EXCEPT ![call[c].win] = next]
           /\ call' = [call EXCEPT ![c].at = "store", ![c].value = next]
    /\ charged' = charged \cup {c}
    /\ UNCHANGED <<window, cached, raced, disturbed>>

\* The updater throws QuotaExceededError and consume reads the usage to report.
Exceeded(c) ==
    /\ call[c].at = "write" /\ OverLimit(c)
    /\ Go(c, "lookup")
    /\ UNCHANGED <<window, used, cached, charged, raced, disturbed>>

\* The cache has the charge and consume answers.
Store(c) ==
    /\ call[c].at = "store"
    /\ cached' = [cached EXCEPT ![call[c].win] = call[c].value]
    /\ Go(c, "allowed")
    /\ UNCHANGED <<window, used, charged, raced, disturbed>>

----------------------------------------------------------------------------
\* check compares; consume is denied here unless it asked for nothing.
Allowed(c, u) ==
    \/ call[c].kind = "check" /\ u < call[c].limit
    \/ call[c].kind = "consume" /\ call[c].amount = 0

Answer(c, u) ==
    call' = [call EXCEPT ![c].value = u,
                         ![c].at = IF Allowed(c, u) THEN "allowed" ELSE "denied"]

\* readUsed: the cache answers ...
Hit(c) ==
    /\ call[c].at = "lookup" /\ cached[call[c].win] # Miss
    /\ Answer(c, cached[call[c].win])
    /\ UNCHANGED <<window, used, cached, charged, raced, disturbed>>

\* ... or storage is asked ...
MissCache(c) ==
    /\ call[c].at = "lookup" /\ cached[call[c].win] = Miss
    /\ Go(c, "load")
    /\ UNCHANGED <<window, used, cached, charged, raced, disturbed>>

\* Mutant: a row that does not exist is not taken for 0.
LoadNoDefault(c) ==
    /\ call[c].at = "load"
    /\ LET u == used[call[c].win]
       IN  call' = [call EXCEPT ![c].at = "fill", ![c].value = IF u = 0 THEN Miss ELSE u]
    /\ UNCHANGED <<window, used, cached, charged, raced, disturbed>>

Load(c) ==
    /\ call[c].at = "load"
    /\ call' = [call EXCEPT ![c].at = "fill", ![c].value = used[call[c].win]]
    /\ UNCHANGED <<window, used, cached, charged, raced, disturbed>>

\* ... and what it said is written to the cache, however old it is by now.
Fill(c) ==
    /\ call[c].at = "fill"
    /\ cached' = [cached EXCEPT ![call[c].win] = call[c].value]
    /\ Answer(c, call[c].value)
    /\ UNCHANGED <<window, used, charged, raced, disturbed>>

\* A storage or cache call throws; a charge that was written stays.
Throw(c) ==
    /\ Open(c)
    /\ Go(c, "thrown")
    /\ disturbed' = disturbed \cup {call[c].win}
    /\ UNCHANGED <<window, used, cached, charged, raced>>

Evict(w) ==
    /\ cached[w] # Miss
    /\ cached' = [cached EXCEPT ![w] = Miss]
    /\ UNCHANGED <<window, used, call, charged, raced, disturbed>>

NextWindow ==
    /\ window < LastWindow
    /\ window' = window + 1
    /\ UNCHANGED <<used, cached, call, charged, raced, disturbed>>

----------------------------------------------------------------------------
Next ==
    \/ \E c \in Calls :
          \/ Begin(c, "check", 0)
          \/ \E amount \in Amounts : Begin(c, "consume", amount)
          \/ \E limit \in Limits : Resolve(c, limit)
          \/ ReadUsage(c) \/ Charge(c) \/ Exceeded(c) \/ Store(c)
          \/ Hit(c) \/ MissCache(c) \/ Load(c) \/ Fill(c) \/ Throw(c)
    \/ \E w \in Windows : Evict(w)
    \/ NextWindow

Spec == Init /\ [][Next]_vars

----------------------------------------------------------------------------
\* Unless updates raced, what a window has been charged fits the limit of one
\* of the calls charged to it: limits that change meanwhile, windows that end
\* before the charge and calls that throw after it make no difference.
WithinLimit ==
    \A w \in Windows \ raced :
        used[w] > 0 => \E c \in charged : call[c].win = w /\ used[w] <= call[c].limit

\* Unless updates raced, a denial is true for the rest of the window: check did
\* not take a stale copy, or one not yet charged, for the usage.
DenialGenuine ==
    \A c \in Calls :
        call[c].at = "denied" /\ call[c].win \notin raced =>
            IF call[c].kind = "check"
            THEN used[call[c].win] >= call[c].limit
            ELSE used[call[c].win] + call[c].amount > call[c].limit

\* Where calls neither overlapped nor threw, the cache agrees with storage.
CacheExact ==
    \A w \in Windows \ disturbed :
        OpenIn(w) = {} => cached[w] \in {Miss, used[w]}
=============================================================================
