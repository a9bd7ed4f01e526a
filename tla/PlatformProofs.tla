--------------------------- MODULE PlatformProofs ---------------------------
(***************************************************************************)
(* Proofs about what the platform stands on: CircuitBreaker, CascadeKill,   *)
(* Migrations, Bootstrap, AuditPipeline and EventBuses, each for any        *)
(* callers, processes, configurations, sinks and bounds, and about the      *)
(* suite of them with PostgresStorage, whose own proofs are in              *)
(* PostgresStorageProofs.                                                   *)
(***************************************************************************)
EXTENDS MCPlatform, PostgresStorageProofs, FiniteSetTheorems, SequenceTheorems

----------------------------------------------------------------------------
(* Circuit breaker.                                                         *)

(***************************************************************************)
(* NeverStuck is not inductive: why is the budget not used up with nothing  *)
(* outstanding?  Because every probe of the episode that settled without    *)
(* ending it was a success, and those successes are all still counted.      *)
(***************************************************************************)
Spent == halfOpenCalls - Cardinality(probes)

Accounting ==
    state = "half_open" =>
        /\ Spent <= consecutiveSuccesses
        /\ Spent > 0 => consecutiveSuccesses < SuccessThreshold

BreakerInv == TypeOK /\ ProbeBudget /\ Accounting

\* Cardinalities of the probe sets the actions build.
LEMMA ProbeCards ==
  ASSUME TypeOK
  PROVE  /\ Cardinality(probes) \in Nat
         /\ Cardinality({}) = 0
         /\ probes = {} => Cardinality(probes) = 0
         /\ Cardinality(probes) = 0 => probes = {}
         /\ \A c \in Calls :
               /\ c \notin probes => Cardinality(probes \cup {c}) = Cardinality(probes) + 1
               /\ c \in probes => Cardinality(probes \ {c}) = Cardinality(probes) - 1
               /\ c \notin probes => probes \ {c} = probes
  <1>1. IsFiniteSet(probes)
    BY FS_Subset, BreakerAssumption DEF TypeOK
  <1>2. Cardinality(probes) \in Nat
    BY <1>1, FS_CardinalityType
  <1>3. Cardinality({}) = 0 /\ (Cardinality(probes) = 0 <=> probes = {})
    BY <1>1, FS_EmptySet
  <1>4. ASSUME NEW c \in Calls, c \notin probes PROVE Cardinality(probes \cup {c}) = Cardinality(probes) + 1
    BY <1>1, <1>4, FS_AddElement
  <1>5. ASSUME NEW c \in Calls, c \in probes PROVE Cardinality(probes \ {c}) = Cardinality(probes) - 1
    BY <1>1, <1>5, FS_RemoveElement
  <1> QED  BY <1>2, <1>3, <1>4, <1>5

LEMMA BreakerInitInv == Init => BreakerInv
  <1> SUFFICES ASSUME Init PROVE BreakerInv
    OBVIOUS
  <1>0. FailureThreshold \in Nat /\ SuccessThreshold \in Nat
    BY BreakerAssumption
  <1>1. TypeOK
    <2>1. cooled \in BOOLEAN
      BY Zenon DEF Init
    <2> QED
      BY <1>0, <2>1 DEF Init, TypeOK, States
  <1>2. Cardinality(probes) = 0
    BY <1>1, ProbeCards DEF Init
  <1> QED
    BY <1>1, <1>2, BreakerAssumption DEF Init, BreakerInv, ProbeBudget, Accounting

LEMMA EnterStep == ASSUME BreakerInv, NEW c \in Calls, Enter(c) PROVE BreakerInv'
  <1>1. TypeOK'
    BY DEF BreakerInv, TypeOK, Enter, Checked, States
  <1>2. c \notin probes /\ Cardinality(probes) \in Nat
    BY ProbeCards DEF BreakerInv, TypeOK, Enter
  <1>3. CASE Checked = "half_open"
    <2>1. /\ halfOpenCalls' = halfOpenCalls + 1
          /\ Cardinality(probes') = Cardinality(probes) + 1
          /\ halfOpenCalls < HalfOpenMaxCalls
          /\ state' = "half_open"
      BY <1>2, <1>3, ProbeCards DEF BreakerInv, Enter, Admitted
    <2>2. state = "open" => Spent = 0
      BY <1>2 DEF BreakerInv, ProbeBudget, Spent, TypeOK
    <2>3. state \in {"open", "half_open"}
      BY <1>3 DEF Checked
    <2>4. Spent' = Spent
      BY <1>2, <2>1 DEF Spent, BreakerInv, TypeOK
    <2>5. UNCHANGED consecutiveSuccesses
      BY DEF Enter
    <2> QED
      BY <1>1, <1>2, <2>1, <2>2, <2>3, <2>4, <2>5, BreakerAssumption
         DEF BreakerInv, ProbeBudget, Accounting, TypeOK
  <1>4. CASE Checked # "half_open"
    <2>1. state' = "closed" /\ state = "closed"
      BY <1>4 DEF Enter, Admitted, Checked
    <2>2. UNCHANGED <<halfOpenCalls, probes>>
      BY <1>4 DEF Enter
    <2> QED
      BY <1>1, <2>1, <2>2 DEF BreakerInv, ProbeBudget, Accounting
  <1> QED
    BY <1>3, <1>4

LEMMA RejectStep == ASSUME BreakerInv, NEW c \in Calls, Reject(c) PROVE BreakerInv'
  <1>1. TypeOK'
    BY DEF BreakerInv, TypeOK, Reject, Checked, States
  <1>2. Cardinality(probes) \in Nat
    BY ProbeCards DEF BreakerInv
  <1>3. state = "open" => Spent = 0
    BY <1>2 DEF BreakerInv, ProbeBudget, Spent, TypeOK
  <1>4. Spent' = Spent /\ UNCHANGED <<halfOpenCalls, probes, consecutiveSuccesses>>
    BY DEF Reject, Spent
  <1>5. state' = state \/ (state = "open" /\ state' = "half_open")
    BY DEF Reject, Checked
  <1> QED
    BY <1>1, <1>3, <1>4, <1>5, BreakerAssumption
       DEF BreakerInv, ProbeBudget, Accounting, TypeOK

LEMMA SucceedStep == ASSUME BreakerInv, NEW c \in Calls, Succeed(c) PROVE BreakerInv'
  <1>1. TypeOK'
    BY BreakerAssumption DEF BreakerInv, TypeOK, Succeed, States, UpTo
  <1>2. /\ Cardinality(probes) \in Nat /\ Cardinality({}) = 0
        /\ c \in probes => Cardinality(probes \ {c}) = Cardinality(probes) - 1
        /\ c \notin probes => probes \ {c} = probes
    BY ProbeCards DEF BreakerInv
  <1>3. CASE CloseOnSuccess
    <2>1. state' = "closed" /\ halfOpenCalls' = 0 /\ probes' = {}
      BY <1>3 DEF Succeed
    <2> QED
      BY <1>1, <1>2, <2>1, BreakerAssumption DEF BreakerInv, ProbeBudget, Accounting
  <1>4. CASE ~CloseOnSuccess
    <2>1. UNCHANGED <<state, halfOpenCalls>> /\ probes' = probes \ {c}
      BY <1>4 DEF Succeed
    <2>2. Cardinality(probes') \in {Cardinality(probes), Cardinality(probes) - 1}
      BY <1>2, <2>1
    <2>3. ProbeBudget'
      BY <1>1, <1>2, <2>1, <2>2, BreakerAssumption DEF BreakerInv, ProbeBudget, TypeOK
    <2>4. ASSUME state = "half_open"
          PROVE  /\ consecutiveSuccesses' = consecutiveSuccesses + 1
                 /\ consecutiveSuccesses' < SuccessThreshold
      BY <1>4, <2>4, BreakerAssumption DEF Succeed, CloseOnSuccess, UpTo, BreakerInv, TypeOK
    <2>5. Spent' \in {Spent, Spent + 1} /\ Spent \in Int
      BY <1>2, <2>1, <2>2 DEF Spent, BreakerInv, TypeOK
    <2>6. Accounting'
      BY <2>1, <2>4, <2>5, BreakerAssumption DEF BreakerInv, Accounting, TypeOK
    <2> QED
      BY <1>1, <2>3, <2>6 DEF BreakerInv
  <1> QED
    BY <1>3, <1>4

LEMMA FailStep == ASSUME BreakerInv, NEW c \in Calls, Fail(c) PROVE BreakerInv'
  <1>0. FailureThreshold \in Nat /\ SuccessThreshold \in Nat
    BY BreakerAssumption
  <1>1. TypeOK'
    <2>1. consecutiveFailures' \in 0 .. FailureThreshold /\ consecutiveSuccesses' \in 0 .. SuccessThreshold
      BY <1>0 DEF BreakerInv, TypeOK, Fail, UpTo
    <2>2. cooled' \in BOOLEAN
      BY Zenon DEF BreakerInv, TypeOK, Fail, FailedProbe
    <2>3. /\ state' \in States /\ halfOpenCalls' \in Nat
          /\ running' = running \ {c}
          /\ probes' = probes \ {c} \/ probes' = {}
      BY DEF BreakerInv, TypeOK, Fail, FailedProbe, States
    <2> QED
      BY <2>1, <2>2, <2>3 DEF BreakerInv, TypeOK
  <1>2. /\ Cardinality(probes) \in Nat /\ Cardinality({}) = 0
        /\ Cardinality(probes) = 0 => probes = {}
    BY ProbeCards DEF BreakerInv
  <1>3. state' # "half_open"
    BY DEF Fail, FailedProbe
  <1>4. halfOpenCalls' = 0 /\ probes' = {}
    <2>1. CASE FailedProbe(c)
      BY <2>1 DEF FailedProbe
    <2>2. CASE state # "half_open"
      <3>1. halfOpenCalls = 0 /\ probes = {}
        BY <1>2, <2>2 DEF BreakerInv, ProbeBudget, TypeOK
      <3> QED
        BY <2>2, <3>1 DEF Fail, FailedProbe
    <2> QED
      BY <2>1, <2>2 DEF Fail
  <1> QED
    BY <1>1, <1>2, <1>3, <1>4, BreakerAssumption DEF BreakerInv, ProbeBudget, Accounting

LEMMA BreakerStepInv == BreakerInv /\ [Next]_vars => BreakerInv'
  <1> SUFFICES ASSUME BreakerInv, [Next]_vars PROVE BreakerInv'
    OBVIOUS
  <1>1. CASE Reset
    <2>1. TypeOK'
      BY <1>1, BreakerAssumption DEF BreakerInv, TypeOK, Reset, States
    <2> QED
      BY <1>1, <2>1, FS_EmptySet, BreakerAssumption DEF BreakerInv, ProbeBudget, Accounting, Reset
  <1>2. CASE Cool
    <2>1. TypeOK'
      BY <1>2 DEF BreakerInv, TypeOK, Cool
    <2> QED
      BY <1>2, <2>1 DEF BreakerInv, ProbeBudget, Accounting, Spent, Cool
  <1>3. CASE UNCHANGED vars
    <2>1. TypeOK'
      BY <1>3 DEF BreakerInv, TypeOK, vars
    <2> QED
      BY <1>3, <2>1 DEF BreakerInv, ProbeBudget, Accounting, Spent, vars
  <1> QED
    BY <1>1, <1>2, <1>3, EnterStep, RejectStep, SucceedStep, FailStep DEF Next

THEOREM BreakerInvariance == Spec => []BreakerInv
  BY BreakerInitInv, BreakerStepInv, PTL DEF Spec

\* Every variable of the breaker keeps its type.
THEOREM BreakerTypeCorrect == Spec => []TypeOK
  <1>1. BreakerInv => TypeOK
    BY DEF BreakerInv
  <1> QED
    BY <1>1, BreakerInvariance, PTL

\* Never more outstanding probes than halfOpenMaxCalls.
THEOREM ProbeBudgetHolds == Spec => []ProbeBudget
  <1>1. BreakerInv => ProbeBudget
    BY DEF BreakerInv
  <1> QED
    BY <1>1, BreakerInvariance, PTL

\* With successThreshold <= halfOpenMaxCalls the breaker is never half-open
\* with a spent budget and nothing outstanding.
THEOREM NeverStuckHolds == Spec => []NeverStuck
  <1>1. BreakerInv => NeverStuck
    <2> SUFFICES ASSUME BreakerInv, SuccessThreshold <= HalfOpenMaxCalls,
                        state = "half_open", probes = {}
                 PROVE  halfOpenCalls < HalfOpenMaxCalls
      BY DEF NeverStuck
    <2>1. Spent = halfOpenCalls
      BY FS_EmptySet DEF Spent, BreakerInv, TypeOK
    <2> QED
      BY <2>1, BreakerAssumption DEF BreakerInv, Accounting, TypeOK
  <1> QED
    BY <1>1, BreakerInvariance, PTL

\* The only ways between the states are the documented ones and reset().
THEOREM TransitionOrderHolds == Spec => TransitionOrder
  <1> DEFINE A == /\ state = "closed" => state' # "half_open"
                  /\ state = "open" /\ state' = "closed" => Reset
  <1>1. [Next]_vars => [A]_vars
    <2> SUFFICES ASSUME Next PROVE A
      OBVIOUS
    <2>1. ASSUME NEW c \in Calls, Enter(c) \/ Reject(c) PROVE A
      BY <2>1 DEF Enter, Reject, Checked
    <2>2. ASSUME NEW c \in Calls, Succeed(c) PROVE A
      BY <2>2 DEF Succeed, CloseOnSuccess
    <2>3. ASSUME NEW c \in Calls, Fail(c) PROVE A
      BY <2>3 DEF Fail, FailedProbe
    <2>4. CASE Reset \/ Cool
      BY <2>4 DEF Reset, Cool
    <2> QED
      BY <2>1, <2>2, <2>3, <2>4 DEF Next
  <1> QED
    BY <1>1, PTL DEF Spec, TransitionOrder

\* The breaker's half-open episodes and its transitions are sound, for any number
\* of callers and all thresholds.
THEOREM BreakerSoundHolds == Spec => BreakerSound
  BY ProbeBudgetHolds, NeverStuckHolds, TransitionOrderHolds, PTL DEF BreakerSound

----------------------------------------------------------------------------
(* Cascade kill.                                                            *)

AtMostOne(S) == S = {} \/ \E t \in S : S = {t}

\* Nobody has triggered from a callback: then there is one timer or one callback.
Alone ==
    \/ "trigger" \in inside
    \/ pending = {} /\ AtMostOne(calling)
    \/ calling = {} /\ AtMostOne(pending)

\* A task that is not registered has no cascade, unless a callback has called.
Forgotten == registered = 0 => (pending = {} /\ calling = {}) \/ inside # {}

CascadeInv ==
    /\ registered \in 0 .. registrations /\ registrations \in 0 .. MaxRegistrations
    /\ triggers \in 0 .. MaxTriggers
    /\ pending \subseteq Timers /\ calling \subseteq Timers /\ AtMostOne(calling)
    /\ timerOf \in [Stages -> SUBSET Timers] /\ \A s \in Stages : AtMostOne(timerOf[s])
    /\ inside \subseteq {"cancel", "trigger"}
    /\ Alone /\ Forgotten /\ Cancellable

LEMMA CascadeInitInv == CascadeInit => CascadeInv
  BY CascadeAssumption
     DEF CascadeInit, CascadeInv, AtMostOne, Alone, Forgotten, Cancellable

\* clearTimers leaves no timer, unless a callback has triggered.
LEMMA Cleared ==
  ASSUME CascadeInv, ClearTimers
  PROVE  /\ pending' \subseteq pending /\ (pending' = {} \/ "trigger" \in inside)
         /\ timerOf' \in [Stages -> SUBSET Timers] /\ \A s \in Stages : timerOf'[s] = {}
  <1>1. \A t \in pending : t.stage \in Stages
    BY DEF CascadeInv, Timers
  <1> QED  BY <1>1 DEF CascadeInv, ClearTimers, Cancellable

LEMMA CascadeStepInv == CascadeInv /\ [CascadeNext]_cascadevars => CascadeInv'
  <1> SUFFICES ASSUME CascadeInv, [CascadeNext]_cascadevars PROVE CascadeInv'
    OBVIOUS
  <1>1. CASE Register
    BY <1>1, CascadeAssumption
       DEF Register, CascadeInv, AtMostOne, Alone, Forgotten, Cancellable
  <1>2. CASE Cancel
    BY <1>2, Cleared DEF Cancel, Noted, CascadeInv, AtMostOne, Alone, Forgotten, Cancellable
  <1>3. CASE Trigger
    <2> DEFINE t == [stage |-> "signal", reg |-> registered, by |-> triggers + 1]
    <2>1. t \in Timers /\ t.stage = "signal"
      BY <1>3, CascadeAssumption DEF Trigger, CascadeInv, Timers, Stages
    <2>2. pending' = (pending \ UNION {timerOf[s] : s \in Stages}) \cup {t}
          /\ timerOf' = [s \in Stages |-> IF s = "signal" THEN {t} ELSE {}]
      BY <1>3 DEF Trigger
    <2> HIDE DEF t
    <2>3. \A u \in pending : u.stage \in Stages
      BY DEF CascadeInv, Timers
    <2>4. pending' = {t} \/ "trigger" \in inside
      BY <2>2, <2>3 DEF CascadeInv, Cancellable
    <2>5. /\ triggers' \in 0 .. MaxTriggers /\ UNCHANGED <<registered, registrations, calling>>
          /\ registered # 0
          /\ inside' = IF calling = {} THEN inside ELSE inside \cup {"trigger"}
      BY <1>3, CascadeAssumption DEF Trigger, Noted, CascadeInv
    <2>6. /\ timerOf' \in [Stages -> SUBSET Timers]
          /\ \A s \in Stages : timerOf'[s] = {} \/ timerOf'[s] = {t}
          /\ t \in timerOf'["signal"]
      BY <2>1, <2>2 DEF Stages
    <2>7. Alone' /\ Cancellable'
      BY <2>1, <2>4, <2>5, <2>6 DEF Alone, Cancellable, AtMostOne, CascadeInv
    <2> QED  BY <2>1, <2>2, <2>5, <2>6, <2>7 DEF CascadeInv, AtMostOne, Forgotten
  <1>4. ASSUME NEW t \in pending, FireTimer(t) PROVE CascadeInv'
    BY <1>4 DEF FireTimer, CascadeInv, AtMostOne, Alone, Forgotten, Cancellable
  <1>5. ASSUME NEW t \in calling, StageEnds(t) PROVE CascadeInv'
    <2> DEFINE next == [t EXCEPT !.stage = Following[t.stage]]
    <2>1. t \in Timers /\ calling = {t} /\ t.stage \in {"signal", "abort"}
      BY <1>5 DEF StageEnds, CascadeInv, AtMostOne, Timers, Stages
    <2>2. next \in Timers /\ next.stage \in Stages
      BY <2>1 DEF Timers, Stages, Following
    <2>3. /\ pending' = pending \cup {next} /\ timerOf' = [timerOf EXCEPT ![next.stage] = {next}]
          /\ calling' = {} /\ UNCHANGED <<registered, registrations, triggers, inside>>
      BY <1>5 DEF StageEnds
    <2> HIDE DEF next
    <2>4. pending = {} \/ "trigger" \in inside
      BY <2>1 DEF CascadeInv, Alone
    <2> QED  BY <2>1, <2>2, <2>3, <2>4 DEF CascadeInv, AtMostOne, Alone, Forgotten, Cancellable
  <1>6. ASSUME NEW t \in calling, KillEnds(t) PROVE CascadeInv'
    BY <1>6, Cleared DEF KillEnds, CascadeInv, AtMostOne, Alone, Forgotten, Cancellable
  <1>7. ASSUME NEW t \in calling, CallbackThrows(t) PROVE CascadeInv'
    BY <1>7 DEF CallbackThrows, CascadeInv, AtMostOne, Alone, Forgotten, Cancellable
  <1>8. CASE UNCHANGED cascadevars
    BY <1>8 DEF cascadevars, CascadeInv, AtMostOne, Alone, Forgotten, Cancellable
  <1> QED  BY <1>1, <1>2, <1>3, <1>4, <1>5, <1>6, <1>7, <1>8 DEF CascadeNext

THEOREM CascadeInvariance == CascadeSpec => []CascadeInv
  BY CascadeInitInv, CascadeStepInv, PTL DEF CascadeSpec

LEMMA AtMostOneCard == ASSUME NEW S, AtMostOne(S) PROVE Cardinality(S) \in 0 .. 1
  <1>1. \A t : Cardinality({t}) = 1
    BY FS_Singleton
  <1> QED  BY <1>1, FS_EmptySet DEF AtMostOne

\* What the invariant says of the type and of the three promises.
LEMMA CascadeConsequences == CascadeInv => CascadeTypeOK /\ CascadeObeys
  <1> SUFFICES ASSUME CascadeInv PROVE CascadeTypeOK /\ CascadeObeys
    OBVIOUS
  <1>1. CascadeTypeOK
    BY AtMostOneCard DEF CascadeInv, CascadeTypeOK
  <1>2. OneCascade
    <2>1. \A S : AtMostOne(S) => Cardinality(S) \in 0 .. 1
      BY AtMostOneCard
    <2>2. Cardinality({}) = 0
      BY FS_EmptySet
    <2>3. CASE pending = {}
      BY <2>1, <2>2, <2>3 DEF CascadeInv, OneCascade
    <2>4. CASE calling = {} /\ AtMostOne(pending)
      BY <2>1, <2>2, <2>4 DEF OneCascade
    <2> QED  BY <2>3, <2>4 DEF CascadeInv, Alone, OneCascade
  <1>3. CancelStops
    BY DEF CascadeInv, Forgotten, CancelStops
  <1> QED  BY <1>1, <1>2, <1>3 DEF CascadeInv, CascadeObeys

\* One cascade at a time, stopped by cancel and never out of its reach, but for what
\* a callback calls itself: for any registrations and triggers.
THEOREM CascadeObeysHolds == CascadeSpec => []CascadeObeys
  BY CascadeInvariance, CascadeConsequences, PTL

----------------------------------------------------------------------------
(* Migrations.                                                              *)

\* A process that has read the versions has to do what is missing of its release, or
\* what another has migrated meanwhile.
Todo ==
    \A p \in Servers : server[p].at \in {"next", "sql", "inserted"} =>
        /\ server[p].todo \subseteq 1 .. server[p].release
        /\ (1 .. server[p].release) \ server[p].todo \subseteq migrated
        /\ server[p].at # "next" => server[p].todo # {}

\* The uncommitted inserts are of different versions that nobody has committed.
Inserting ==
    \A p \in Servers : server[p].at = "inserted" =>
        /\ Current(p) \notin migrated
        /\ \A q \in Servers : server[q].at = "inserted" /\ Current(q) = Current(p) => q = p

\* A process that has nothing left to do that another has done.
Leads(p) ==
    /\ server[p].at \in {"next", "sql", "inserted", "started"}
    /\ server[p].todo \cap migrated = {}

\* Whoever committed last leads, and nobody has thrown before the first commit.
SomeoneLeads ==
    \/ outages # {}
    \/ migrated = {} /\ \A p \in Servers : server[p].at # "threw"
    \/ \E p \in Servers : Leads(p)

MigrationInv ==
    /\ migrated \subseteq Versions /\ outages \subseteq Servers
    /\ effects \in [Versions -> Nat]
    /\ server \in [Servers -> [release : Versions, todo : SUBSET Versions,
          at : {"new", "table", "next", "sql", "inserted", "started", "threw"}]]
    /\ MigratedOnce /\ MigratedInOrder
    /\ Todo /\ Inserting /\ SomeoneLeads

\* A set of versions that is not empty has a least one.
LEMMA LeastVersion ==
  ASSUME NEW S, S \subseteq Versions, S # {}
  PROVE  \E v \in S : \A u \in S : v <= u
  <1>1. S \subseteq Nat
    BY DEF Versions
  <1>2. \E v \in S : \A u \in S : <<u, v>> \notin OpToRel(<, Nat)
    <2> HIDE DEF OpToRel, IsWellFoundedOn
    <2> QED  BY <1>1, WFMin, NatLessThanWellFounded
  <1>3. PICK v \in S : \A u \in S : <<u, v>> \notin OpToRel(<, Nat)
    BY <1>2
  <1>4. \A u \in S : ~(u < v)
    BY <1>1, <1>3 DEF OpToRel
  <1> QED  BY <1>1, <1>4

LEMMA CurrentLeast ==
  ASSUME NEW p \in Servers, server[p].todo \subseteq Versions, server[p].todo # {}
  PROVE  Current(p) \in server[p].todo /\ \A u \in server[p].todo : Current(p) <= u
  BY LeastVersion DEF Current

LEMMA MigrationInitInv == MigrationInit => MigrationInv
  BY DEF MigrationInit, MigrationInv, MigratedOnce, MigratedInOrder, Todo, Inserting, SomeoneLeads

\* A step that moves one process to another place, with what it has to do.
LEMMA Moved ==
  ASSUME MigrationInv, NEW p \in Servers, NEW at, Step(p, at),
         at \in {"new", "table", "next", "sql", "inserted", "started", "threw"}
  PROVE  /\ server' \in [Servers -> [release : Versions, todo : SUBSET Versions,
                at : {"new", "table", "next", "sql", "inserted", "started", "threw"}]]
         /\ \A q \in Servers : /\ server'[q].release = server[q].release
                               /\ server'[q].todo = server[q].todo
                               /\ server'[q].at = IF q = p THEN at ELSE server[q].at
                               /\ Current(q)' = Current(q)
  BY DEF MigrationInv, Step, Current

LEMMA MigrationStepInv == MigrationInv /\ [MigrationNext]_migrationvars => MigrationInv'
  <1> SUFFICES ASSUME MigrationInv, [MigrationNext]_migrationvars PROVE MigrationInv'
    OBVIOUS
  <1> USE DEF MigrationInv
  <1>1. ASSUME NEW p \in Servers, EnsureMigrationsTable(p) PROVE MigrationInv'
    BY <1>1, Moved DEF EnsureMigrationsTable, MigratedOnce, MigratedInOrder, Todo, Inserting,
       SomeoneLeads, Leads
  <1>2. ASSUME NEW p \in Servers, GetAppliedVersions(p) PROVE MigrationInv'
    <2>1. /\ server' \in [Servers -> [release : Versions, todo : SUBSET Versions,
                at : {"new", "table", "next", "sql", "inserted", "started", "threw"}]]
          /\ \A q \in Servers : /\ server'[q].release = server[q].release
                                /\ q # p => server'[q] = server[q]
          /\ server'[p].todo = (1 .. server[p].release) \ migrated /\ server'[p].at = "next"
          /\ server[p].at = "table"
      BY <1>2 DEF GetAppliedVersions, Versions
    <2>2. \A q \in Servers : q # p => Current(q)' = Current(q)
      BY <2>1 DEF Current
    <2>3. UNCHANGED <<migrated, effects, outages>>
      BY <1>2 DEF GetAppliedVersions
    <2>4. Todo' /\ Inserting'
      BY <2>1, <2>2, <2>3 DEF Todo, Inserting
    <2> QED  BY <2>1, <2>3, <2>4 DEF MigratedOnce, MigratedInOrder, SomeoneLeads, Leads
  <1>3. ASSUME NEW p \in Servers, RunSql(p) PROVE MigrationInv'
    <2>1. /\ server[p].at = "next" /\ server[p].todo # {} /\ Step(p, "sql")
          /\ UNCHANGED <<migrated, effects, outages>>
      BY <1>3 DEF RunSql
    <2>2. Todo' /\ Inserting'
      BY <2>1, Moved DEF Todo, Inserting
    <2>3. SomeoneLeads'
      BY <2>1, Moved DEF SomeoneLeads, Leads
    <2> QED  BY <2>1, <2>2, <2>3, Moved DEF MigratedOnce, MigratedInOrder
  <1>4. ASSUME NEW p \in Servers, InsertVersion(p) PROVE MigrationInv'
    <2>1. server[p].at = "sql" /\ UNCHANGED <<migrated, effects, outages>>
      BY <1>4 DEF InsertVersion
    <2>2. CASE Current(p) \in migrated
      <3>1. Step(p, "threw")
        BY <1>4, <2>2 DEF InsertVersion
      <3>2. Current(p) \in server[p].todo
        BY <2>1, CurrentLeast DEF Todo
      <3>3. ~Leads(p)
        BY <2>2, <3>2 DEF Leads
      <3> QED  BY <2>1, <2>2, <3>1, <3>3, Moved DEF MigratedOnce, MigratedInOrder, Todo, Inserting,
                  SomeoneLeads, Leads
    <2>3. CASE Current(p) \notin migrated
      <3>1. Step(p, "inserted") /\ \A q \in Servers : server[q].at = "inserted" => Current(q) # Current(p)
        BY <1>4, <2>3 DEF InsertVersion
      <3> QED  BY <2>1, <2>3, <3>1, Moved DEF MigratedOnce, MigratedInOrder, Todo, Inserting,
                  SomeoneLeads, Leads
    <2> QED  BY <2>2, <2>3
  <1>5. ASSUME NEW p \in Servers, CommitMigration(p) PROVE MigrationInv'
    <2> DEFINE v == Current(p)
    <2>1. /\ server[p].at = "inserted" /\ migrated' = migrated \cup {v}
          /\ effects' = [effects EXCEPT ![v] = @ + 1]
          /\ server' = [server EXCEPT ![p].todo = @ \ {v}, ![p].at = "next"]
          /\ UNCHANGED outages
      BY <1>5 DEF CommitMigration
    <2>2. v \in server[p].todo /\ \A u \in server[p].todo : v <= u
      BY <2>1, CurrentLeast DEF Todo
    <2>3. v \notin migrated /\ \A q \in Servers : server[q].at = "inserted" /\ Current(q) = v => q = p
      BY <2>1 DEF Inserting
    <2>4. v \in Versions /\ v \in 1 .. server[p].release
      BY <2>1, <2>2 DEF Todo
    <2>5. /\ server' \in [Servers -> [release : Versions, todo : SUBSET Versions,
                at : {"new", "table", "next", "sql", "inserted", "started", "threw"}]]
          /\ \A q \in Servers : /\ server'[q].release = server[q].release
                                /\ q # p => server'[q] = server[q]
          /\ server'[p].todo = server[p].todo \ {v} /\ server'[p].at = "next"
      BY <2>1
    <2>6. \A q \in Servers : q # p => Current(q)' = Current(q)
      BY <2>5 DEF Current
    <2> HIDE DEF v
    <2>7. MigratedOnce' /\ effects' \in [Versions -> Nat]
      BY <2>1, <2>3, <2>4 DEF MigratedOnce
    <2>8. MigratedInOrder'
      <3>1. 1 .. v \subseteq migrated'
        <4> SUFFICES ASSUME NEW u \in 1 .. v, u # v PROVE u \in migrated
          BY <2>1, <2>4
        <4>1. u \in 1 .. server[p].release
          BY <2>4 DEF Versions
        <4>2. u \notin server[p].todo
          BY <2>2, <2>4 DEF Versions
        <4> QED  BY <2>1, <4>1, <4>2 DEF Todo
      <3> QED  BY <2>1, <2>5, <3>1 DEF MigratedInOrder
    <2>9. Todo'
      BY <2>1, <2>5 DEF Todo
    <2>10. Inserting'
      BY <2>1, <2>3, <2>5, <2>6 DEF Inserting
    <2>11. Leads(p)'
      <3>1. \A u \in server[p].todo : u \notin migrated
        <4> SUFFICES ASSUME NEW u \in server[p].todo, u \in migrated PROVE FALSE
          OBVIOUS
        <4>1. v \in 1 .. u
          BY <2>2, <2>4 DEF Versions
        <4> QED  BY <2>3, <4>1 DEF MigratedInOrder
      <3> QED  BY <2>1, <2>5, <3>1 DEF Leads
    <2> QED  BY <2>1, <2>4, <2>5, <2>7, <2>8, <2>9, <2>10, <2>11 DEF SomeoneLeads
  <1>6. ASSUME NEW p \in Servers, ServerStarts(p) PROVE MigrationInv'
    BY <1>6, Moved DEF ServerStarts, MigratedOnce, MigratedInOrder, Todo, Inserting, SomeoneLeads, Leads
  <1>7. ASSUME NEW p \in Servers, ServerFails(p) PROVE MigrationInv'
    BY <1>7, Moved DEF ServerFails, MigratedOnce, MigratedInOrder, Todo, Inserting, SomeoneLeads
  <1>8. CASE UNCHANGED migrationvars
    BY <1>8 DEF migrationvars, MigratedOnce, MigratedInOrder, Todo, Inserting, SomeoneLeads, Leads, Current
  <1> QED  BY <1>1, <1>2, <1>3, <1>4, <1>5, <1>6, <1>7, <1>8 DEF MigrationNext

THEOREM MigrationInvariance == MigrationSpec => []MigrationInv
  BY MigrationInitInv, MigrationStepInv, PTL DEF MigrationSpec

\* What the invariant says of the type and of the three promises.
LEMMA MigrationConsequences == MigrationInv => MigrationTypeOK /\ MigrationsHold
  <1> SUFFICES ASSUME MigrationInv PROVE MigrationTypeOK /\ MigrationsHold
    OBVIOUS
  <1>1. Cardinality(Servers) \in Nat /\ Cardinality(Servers) # 0
    BY MigrationAssumption, FS_CardinalityType, FS_EmptySet
  <1>2. MigrationTypeOK
    BY <1>1 DEF MigrationInv, MigrationTypeOK, MigratedOnce
  <1>3. SomeServerStarts
    BY MigrationAssumption DEF MigrationInv, SomeoneLeads, Leads, SomeServerStarts
  <1> QED  BY <1>2, <1>3 DEF MigrationInv, MigrationsHold

\* However many processes of whatever releases start and fail at once, a migration
\* takes effect once and in its order, and not all processes are turned away.
THEOREM MigrationsHoldAlways == MigrationSpec => []MigrationsHold
  BY MigrationInvariance, MigrationConsequences, PTL

----------------------------------------------------------------------------
(* Bootstrap.                                                               *)

Parts == Kernel \cup Services

\* What a start has initialized and is initializing, by where it is.
StartFits(b) ==
    /\ boot[b].pending \subseteq Made(boot[b].config)
    /\ boot[b].at \in {"idle", "shared"} => alive[b] = {} /\ boot[b].pending = {}
    /\ boot[b].at = "kernel" =>
          Kernel \cap Made(boot[b].config) \subseteq alive[b] \cup boot[b].pending
    /\ boot[b].at = "modules" => Made(boot[b].config) = alive[b] \cup boot[b].pending
    /\ boot[b].at = "returned" =>
          /\ boot[b].pending = {}
          /\ b = activeModules \/ b \in overtaken \/ \E s \in Stops : stop[s].of = b
    /\ lost[b] # {} => "quotaManager" \in Made(boot[b].config)

\* A stop has an instance that had been returned, and by its end nothing of it is left.
StopFits(s) ==
    /\ stop[s].of # NoInstance => boot[stop[s].of].at = "returned"
    /\ stop[s].at \in {"services", "kernel"} => stop[s].of # NoInstance
    /\ stop[s].at = "idle" => stop[s].of = NoInstance
    /\ stop[s].of # NoInstance /\ stop[s].at = "kernel" => alive[stop[s].of] \subseteq Kernel
    /\ stop[s].of # NoInstance /\ stop[s].at = "done" => alive[stop[s].of] = {}

BootInv ==
    /\ activeModules \in Boots \cup {NoInstance}
    /\ boot \in [Boots -> Boot] /\ alive \in [Boots -> SUBSET Parts]
    /\ \A b \in Boots : alive[b] \subseteq Made(boot[b].config)
    /\ stop \in [Stops -> [at : {"idle", "services", "kernel", "done"}, of : Boots \cup {NoInstance}]]
    /\ lost \in [Boots -> SUBSET {"storage", "cache"}]
    /\ overtaken \subseteq Boots /\ outage \subseteq Boots
    /\ activeModules # NoInstance => boot[activeModules].at = "returned"
    /\ ActiveIsWhole /\ StopIsFinal
    /\ \A b \in Boots : StartFits(b)
    /\ \A s \in Stops : StopFits(s)

LEMMA BootInitInv == BootInit => BootInv
  <1> SUFFICES ASSUME BootInit PROVE BootInv
    OBVIOUS
  <1>1. /\ boot \in [Boots -> Boot] /\ alive \in [Boots -> SUBSET Parts]
        /\ stop \in [Stops -> [at : {"idle", "services", "kernel", "done"}, of : Boots \cup {NoInstance}]]
        /\ lost \in [Boots -> SUBSET {"storage", "cache"}]
    BY DEF BootInit, Boot
  <1>2. /\ \A b \in Boots : alive[b] = {} /\ boot[b].pending = {} /\ boot[b].at = "idle" /\ lost[b] = {}
        /\ \A s \in Stops : stop[s].at = "idle" /\ stop[s].of = NoInstance
    BY DEF BootInit
  <1> QED  BY <1>1, <1>2 DEF BootInit, BootInv, ActiveIsWhole, StopIsFinal, StartFits, StopFits

\* Every configuration has the same parts, and what a start awaits it has to make.
LEMMA AwaitedParts ==
  ASSUME NEW c \in Configs, NEW parts \in {Kernel, Services}
  PROVE  /\ Made(c) \subseteq Parts
         /\ Awaited(c, parts) \subseteq parts \cap Made(c)
  <1>1. Made(c) \subseteq Parts
    BY BootstrapAssumption DEF Made, Parts
  <1>2. \A p \in parts : After(p) \subseteq parts
    <2> SUFFICES ASSUME NEW p \in parts PROVE After(p) \subseteq parts
      OBVIOUS
    <2>1. CASE p \in {"identityProvider", "policyEngine", "workflowEngine"}
      <3>1. p \in Services
        BY <2>1 DEF Services, Governance, Collaboration
      <3>2. p \notin Kernel
        BY <2>1 DEF Kernel
      <3>3. After(p) \subseteq Services
        BY <2>1 DEF After, Services, Governance, Collaboration
      <3> QED  BY <3>2, <3>3
    <2>2. CASE p \notin {"identityProvider", "policyEngine", "workflowEngine"}
      BY <2>2 DEF After
    <2> QED  BY <2>1, <2>2
  <1>3. Remote(c, parts) \subseteq parts
    BY DEF Remote
  <1> QED  BY <1>1, <1>2, <1>3 DEF Awaited

LEMMA DoubledMade ==
  ASSUME NEW c, NEW parts
  PROVE  /\ Doubled(c, parts) \subseteq {"storage", "cache"}
         /\ Doubled(c, parts) # {} => "quotaManager" \in parts
  BY DEF Doubled, Holding

\* A start makes its parts: the rest is awaited.
LEMMA MakesFits ==
  ASSUME BootInv, NEW b \in Boots, NEW parts \in {Kernel, Services},
         NEW at \in {"kernel", "modules"}, Makes(b, parts, at)
  PROVE  /\ boot' \in [Boots -> Boot] /\ alive' \in [Boots -> SUBSET Parts]
         /\ lost' \in [Boots -> SUBSET {"storage", "cache"}]
         /\ \A d \in Boots \ {b} : boot'[d] = boot[d] /\ alive'[d] = alive[d] /\ lost'[d] = lost[d]
         /\ boot'[b].config = boot[b].config /\ boot'[b].at = at
         /\ boot'[b].pending \subseteq parts \cap Made(boot[b].config)
         /\ alive'[b] \subseteq alive[b] \cup (parts \cap Made(boot[b].config))
         /\ alive'[b] \cup boot'[b].pending = alive[b] \cup (parts \cap Made(boot[b].config))
         /\ lost'[b] # {} => "quotaManager" \in Made(boot[b].config)
  <1> DEFINE c == boot[b].config
             waited == Awaited(c, parts)
             local == (parts \cap Made(c)) \ waited
  <1>1. c \in Configs /\ boot \in [Boots -> Boot] /\ alive \in [Boots -> SUBSET Parts]
        /\ lost \in [Boots -> SUBSET {"storage", "cache"}]
    BY DEF BootInv, Boot
  <1>2. waited \subseteq parts \cap Made(c) /\ Made(c) \subseteq Parts
    BY <1>1, AwaitedParts
  <1>3. /\ Doubled(c, local) \subseteq {"storage", "cache"}
        /\ Doubled(c, local) # {} => "quotaManager" \in local
    BY DoubledMade
  <1>4. /\ alive' = [alive EXCEPT ![b] = @ \cup local]
        /\ lost' = [lost EXCEPT ![b] = @ \cup Doubled(c, local)]
        /\ boot' = [boot EXCEPT ![b].at = at, ![b].pending = waited]
    BY DEF Makes
  <1>5. lost[b] # {} => "quotaManager" \in Made(c)
    BY DEF BootInv, StartFits
  <1>6. waited \subseteq Kernel \cup Services
    BY <1>2 DEF Parts
  <1> HIDE DEF waited
  <1>7. boot' \in [Boots -> Boot] /\ boot'[b].config = c /\ boot'[b].at = at /\ boot'[b].pending = waited
        /\ \A d \in Boots \ {b} : boot'[d] = boot[d]
    BY <1>1, <1>4, <1>6 DEF Boot
  <1> HIDE DEF c
  <1>8. alive' \in [Boots -> SUBSET Parts] /\ alive'[b] = alive[b] \cup local
        /\ \A d \in Boots \ {b} : alive'[d] = alive[d]
    BY <1>1, <1>2, <1>4
  <1> HIDE DEF local
  <1>9. lost' \in [Boots -> SUBSET {"storage", "cache"}] /\ lost'[b] = lost[b] \cup Doubled(c, local)
        /\ \A d \in Boots \ {b} : lost'[d] = lost[d]
    <2>1. /\ lost[b] \cup Doubled(c, local) \in SUBSET {"storage", "cache"}
      BY <1>1, <1>3
    <2> QED  BY <1>1, <1>4, <2>1
  <1> USE DEF c, local
  <1> QED  BY <1>2, <1>3, <1>5, <1>7, <1>8, <1>9

\* A step of a start that has not been returned leaves the instances that were alone.
LEMMA StartStep ==
  ASSUME BootInv, NEW b \in Boots, boot[b].at # "returned",
         boot' \in [Boots -> Boot], alive' \in [Boots -> SUBSET Parts],
         lost' \in [Boots -> SUBSET {"storage", "cache"}],
         \A d \in Boots \ {b} : boot'[d] = boot[d] /\ alive'[d] = alive[d] /\ lost'[d] = lost[d],
         boot'[b].config = boot[b].config, boot'[b].at # "returned",
         outage' \subseteq Boots, UNCHANGED <<activeModules, stop, overtaken>>,
         alive'[b] \subseteq Made(boot[b].config), StartFits(b)'
  PROVE  BootInv'
  <1>1. b # activeModules /\ \A s \in Stops : stop[s].of # b
    BY BootstrapAssumption DEF BootInv, StopFits
  <1>2. \A d \in Boots : StartFits(d)'
    <2> SUFFICES ASSUME NEW d \in Boots, d # b PROVE StartFits(d)'
      OBVIOUS
    <2>1. StartFits(d) /\ boot'[d] = boot[d] /\ alive'[d] = alive[d] /\ lost'[d] = lost[d]
      BY DEF BootInv
    <2> QED  BY <2>1 DEF StartFits
  <1>3. \A s \in Stops : StopFits(s)'
    <2> SUFFICES ASSUME NEW s \in Stops PROVE StopFits(s)'
      OBVIOUS
    <2>1. StopFits(s) /\ stop[s].of \in Boots \cup {NoInstance} /\ stop[s].of # b
      BY <1>1 DEF BootInv
    <2> QED  BY <2>1 DEF StopFits
  <1>4. activeModules # NoInstance =>
            /\ activeModules \in Boots \ {b}
            /\ boot'[activeModules] = boot[activeModules] /\ alive'[activeModules] = alive[activeModules]
    BY <1>1 DEF BootInv
  <1>5. ActiveIsWhole' /\ (activeModules' # NoInstance => boot'[activeModules'].at = "returned")
    BY <1>4 DEF BootInv, ActiveIsWhole
  <1>6. StopIsFinal'
    BY DEF BootInv, StopIsFinal
  <1>7. \A d \in Boots : alive'[d] \subseteq Made(boot'[d].config)
    BY DEF BootInv
  <1> QED  BY <1>2, <1>3, <1>5, <1>6, <1>7 DEF BootInv

\* A step of a stop shuts down parts of the instance that it has taken, which nobody
\* else has.
LEMMA StopStepFits ==
  ASSUME BootInv, NEW s \in Stops, stop[s].of \in Boots, NEW left, NEW at \in {"kernel", "done"},
         alive' = [alive EXCEPT ![stop[s].of] = left], left \subseteq alive[stop[s].of],
         stop' = [stop EXCEPT ![s].at = at],
         at = "kernel" => left \subseteq Kernel, at = "done" => left = {},
         UNCHANGED <<activeModules, boot, lost, overtaken, outage>>
  PROVE  BootInv'
  <1> DEFINE b == stop[s].of
  <1>1. b \in Boots /\ b # activeModules /\ boot[b].at = "returned" /\ b # NoInstance
    BY BootstrapAssumption DEF BootInv, StopIsFinal, StopFits
  <1>2. /\ stop' \in [Stops -> [at : {"idle", "services", "kernel", "done"}, of : Boots \cup {NoInstance}]]
        /\ \A r \in Stops : stop'[r].of = stop[r].of /\ (r # s => stop'[r] = stop[r])
        /\ stop'[s].at = at
    BY DEF BootInv
  <1>3. /\ alive' \in [Boots -> SUBSET Parts] /\ alive'[b] = left
        /\ \A d \in Boots : alive'[d] \subseteq alive[d] /\ (d # b => alive'[d] = alive[d])
    BY <1>1 DEF BootInv
  <1> HIDE DEF b
  <1>4. \A d \in Boots : StartFits(d)'
    <2> SUFFICES ASSUME NEW d \in Boots PROVE StartFits(d)'
      OBVIOUS
    <2>1. StartFits(d)
      BY DEF BootInv
    <2>2. CASE d = b
      BY <1>1, <1>2, <2>1, <2>2 DEF StartFits
    <2>3. CASE d # b
      BY <1>2, <1>3, <2>1, <2>3 DEF StartFits
    <2> QED  BY <2>2, <2>3
  <1>5. \A r \in Stops : StopFits(r)'
    <2> SUFFICES ASSUME NEW r \in Stops PROVE StopFits(r)'
      OBVIOUS
    <2>1. StopFits(r) /\ stop[r].of \in Boots \cup {NoInstance} /\ stop'[r].of = stop[r].of
      BY <1>2 DEF BootInv
    <2>2. CASE r = s
      BY <1>1, <1>2, <1>3, <2>2 DEF StopFits, b
    <2>3. CASE r # s
      BY <1>2, <1>3, <2>1, <2>3 DEF StopFits
    <2> QED  BY <2>2, <2>3
  <1>6. ActiveIsWhole'
    BY <1>1, <1>3 DEF BootInv, ActiveIsWhole
  <1>7. StopIsFinal'
    BY <1>2 DEF BootInv, StopIsFinal
  <1>8. \A d \in Boots : alive'[d] \subseteq Made(boot'[d].config)
    BY <1>3 DEF BootInv
  <1> QED  BY <1>2, <1>3, <1>4, <1>5, <1>6, <1>7, <1>8 DEF BootInv

LEMMA BootStepInv == BootInv /\ [BootNext]_bootvars => BootInv'
  <1> SUFFICES ASSUME BootInv, [BootNext]_bootvars PROVE BootInv'
    OBVIOUS
  <1>0. /\ boot \in [Boots -> Boot] /\ alive \in [Boots -> SUBSET Parts]
        /\ lost \in [Boots -> SUBSET {"storage", "cache"}]
        /\ stop \in [Stops -> [at : {"idle", "services", "kernel", "done"}, of : Boots \cup {NoInstance}]]
    BY DEF BootInv
  <1>1. ASSUME NEW b \in Boots, BootstrapEnterprise(b) PROVE BootInv'
    <2>1. boot[b].at = "idle" /\ StartFits(b) /\ UNCHANGED <<activeModules, stop, overtaken, outage>>
      BY <1>1 DEF BootstrapEnterprise, BootInv
    <2>2. alive[b] = {} /\ boot[b].pending = {}
      BY <2>1 DEF StartFits
    <2>3. CASE activeModules # NoInstance
      <3>1. boot' = [boot EXCEPT ![b].at = "shared"] /\ UNCHANGED <<alive, lost>>
        BY <1>1, <2>3 DEF BootstrapEnterprise
      <3>2. boot' \in [Boots -> Boot] /\ boot'[b].config = boot[b].config /\ boot'[b].at = "shared"
            /\ boot'[b].pending = {} /\ \A d \in Boots \ {b} : boot'[d] = boot[d]
        BY <1>0, <2>2, <3>1 DEF Boot
      <3>3. StartFits(b)'
        BY <2>1, <2>2, <3>1, <3>2 DEF StartFits
      <3> QED  BY <1>0, <2>1, <2>2, <3>1, <3>2, <3>3, StartStep DEF BootInv
    <2>4. CASE activeModules = NoInstance
      <3>1. Makes(b, Kernel, "kernel")
        BY <1>1, <2>4 DEF BootstrapEnterprise
      <3>2. StartFits(b)'
        BY <2>1, <2>2, <3>1, MakesFits DEF StartFits
      <3> QED  BY <2>1, <2>2, <3>1, <3>2, MakesFits, StartStep DEF BootInv
    <2> QED  BY <2>3, <2>4
  <1>2. ASSUME NEW b \in Boots, KernelReady(b) PROVE BootInv'
    <2>1. /\ boot[b].at = "kernel" /\ boot[b].pending = {} /\ StartFits(b)
          /\ Makes(b, Services, "modules") /\ UNCHANGED <<activeModules, stop, overtaken, outage>>
      BY <1>2 DEF KernelReady, BootInv
    <2>2. Made(boot[b].config) \subseteq Parts /\ alive[b] \subseteq Made(boot[b].config)
      BY <1>0, AwaitedParts DEF BootInv, Boot
    <2>3. StartFits(b)'
      BY <2>1, <2>2, MakesFits DEF StartFits, Parts
    <2> QED  BY <2>1, <2>2, <2>3, MakesFits, StartStep DEF BootInv
  <1>3. ASSUME NEW b \in Boots, ModulesReady(b) PROVE BootInv'
    <2>1. /\ boot[b].at = "modules" /\ boot[b].pending = {} /\ StartFits(b)
          /\ boot' = [boot EXCEPT ![b].at = "returned"] /\ activeModules' = b
          /\ overtaken' = overtaken \cup ({activeModules} \ {NoInstance})
          /\ UNCHANGED <<alive, stop, lost, outage>>
      BY <1>3 DEF ModulesReady, BootInv
    <2>2. boot' \in [Boots -> Boot] /\ boot'[b].config = boot[b].config /\ boot'[b].at = "returned"
          /\ boot'[b].pending = {} /\ \A d \in Boots \ {b} : boot'[d] = boot[d]
      BY <1>0, <2>1 DEF Boot
    <2>3. \A s \in Stops : stop[s].of # b
      BY <2>1, BootstrapAssumption DEF BootInv, StopFits
    <2>4. ActiveIsWhole'
      BY <2>1, <2>2 DEF StartFits, ActiveIsWhole
    <2>5. StopIsFinal'
      BY <2>1, <2>3 DEF StopIsFinal
    <2>6. \A d \in Boots : StartFits(d)'
      <3> SUFFICES ASSUME NEW d \in Boots PROVE StartFits(d)'
        OBVIOUS
      <3>1. CASE d = b
        BY <2>1, <2>2, <3>1 DEF StartFits
      <3>2. CASE d # b
        <4>1. StartFits(d) /\ boot'[d] = boot[d] /\ d # NoInstance
          BY <2>2, <3>2, BootstrapAssumption DEF BootInv
        <4> QED  BY <2>1, <4>1 DEF StartFits
      <3> QED  BY <3>1, <3>2
    <2>7. \A s \in Stops : StopFits(s)'
      <3> SUFFICES ASSUME NEW s \in Stops PROVE StopFits(s)'
        OBVIOUS
      <3>1. StopFits(s) /\ stop[s].of \in Boots \cup {NoInstance} /\ stop[s].of # b
        BY <2>3 DEF BootInv
      <3> QED  BY <2>1, <2>2, <3>1 DEF StopFits
    <2>8. \A d \in Boots : alive'[d] \subseteq Made(boot'[d].config)
      BY <2>1, <2>2 DEF BootInv
    <2> QED  BY <2>1, <2>2, <2>4, <2>5, <2>6, <2>7, <2>8 DEF BootInv
  <1>4. ASSUME NEW b \in Boots, NEW p \in Kernel \cup Services, PartReady(b, p) PROVE BootInv'
    <2>1. /\ p \in boot[b].pending /\ StartFits(b)
          /\ alive' = [alive EXCEPT ![b] = @ \cup {p}]
          /\ lost' = [lost EXCEPT ![b] = @ \cup Doubled(boot[b].config, {p})]
          /\ boot' = [boot EXCEPT ![b].pending = @ \ {p}]
          /\ UNCHANGED <<activeModules, stop, overtaken, outage>>
      BY <1>4 DEF PartReady, MayInitialize, BootInv
    <2>2. Doubled(boot[b].config, {p}) \subseteq {"storage", "cache"}
          /\ (Doubled(boot[b].config, {p}) # {} => "quotaManager" \in {p})
      BY DoubledMade
    <2>3. p \in Made(boot[b].config) /\ boot[b].at \notin {"idle", "shared", "returned"}
      BY <2>1 DEF StartFits
    <2>4. boot' \in [Boots -> Boot] /\ boot'[b].config = boot[b].config /\ boot'[b].at = boot[b].at
          /\ boot'[b].pending = boot[b].pending \ {p} /\ \A d \in Boots \ {b} : boot'[d] = boot[d]
      BY <1>0, <2>1 DEF Boot
    <2>5. alive' \in [Boots -> SUBSET Parts] /\ alive'[b] = alive[b] \cup {p}
          /\ \A d \in Boots \ {b} : alive'[d] = alive[d]
      BY <1>0, <2>1 DEF Parts
    <2>6. lost' \in [Boots -> SUBSET {"storage", "cache"}]
          /\ lost'[b] = lost[b] \cup Doubled(boot[b].config, {p})
          /\ \A d \in Boots \ {b} : lost'[d] = lost[d]
      <3>1. lost[b] \cup Doubled(boot[b].config, {p}) \in SUBSET {"storage", "cache"}
        BY <1>0, <2>2
      <3> QED  BY <1>0, <2>1, <3>1
    <2>7. StartFits(b)'
      <3>1. lost'[b] # {} => "quotaManager" \in Made(boot[b].config)
        BY <2>1, <2>2, <2>3, <2>6 DEF StartFits
      <3>2. boot'[b].pending \subseteq Made(boot[b].config)
        BY <2>1, <2>4 DEF StartFits
      <3>3. alive'[b] \cup boot'[b].pending = alive[b] \cup boot[b].pending
        BY <2>1, <2>4, <2>5
      <3> QED  BY <2>1, <2>3, <2>4, <3>1, <3>2, <3>3 DEF StartFits
    <2>8. alive'[b] \subseteq Made(boot[b].config)
      BY <2>3, <2>5 DEF BootInv
    <2> QED  BY <2>1, <2>3, <2>4, <2>5, <2>6, <2>7, <2>8, StartStep DEF BootInv
  <1>5. ASSUME NEW b \in Boots, NEW p \in Kernel \cup Services, PartFails(b, p) PROVE BootInv'
    <2>1. /\ p \in boot[b].pending /\ StartFits(b)
          /\ boot' = [boot EXCEPT ![b].at = "rejected", ![b].pending = @ \ ({p} \cup After(p))]
          /\ lost' = [lost EXCEPT ![b] = @ \cup (Doubled(boot[b].config, {p}) \ {"cache"})]
          /\ outage' \subseteq Boots
          /\ UNCHANGED <<activeModules, alive, stop, overtaken>>
      BY <1>5 DEF PartFails, MayInitialize, BootInv
    <2>2. Doubled(boot[b].config, {p}) \subseteq {"storage", "cache"}
          /\ (Doubled(boot[b].config, {p}) # {} => "quotaManager" \in {p})
      BY DoubledMade
    <2>3. p \in Made(boot[b].config) /\ boot[b].at \notin {"idle", "shared", "returned"}
      BY <2>1 DEF StartFits
    <2>4. boot' \in [Boots -> Boot] /\ boot'[b].config = boot[b].config /\ boot'[b].at = "rejected"
          /\ boot'[b].pending \subseteq boot[b].pending /\ \A d \in Boots \ {b} : boot'[d] = boot[d]
      <3>1. boot[b].pending \ ({p} \cup After(p)) \subseteq Kernel \cup Services
        BY <1>0 DEF Boot
      <3> QED  BY <1>0, <2>1, <3>1 DEF Boot
    <2>6. lost' \in [Boots -> SUBSET {"storage", "cache"}]
          /\ lost'[b] \subseteq lost[b] \cup Doubled(boot[b].config, {p})
          /\ \A d \in Boots \ {b} : lost'[d] = lost[d]
      <3>1. lost[b] \cup (Doubled(boot[b].config, {p}) \ {"cache"}) \in SUBSET {"storage", "cache"}
        BY <1>0, <2>2
      <3> QED  BY <1>0, <2>1, <3>1
    <2>7. StartFits(b)'
      <3>1. lost'[b] # {} => "quotaManager" \in Made(boot[b].config)
        BY <2>1, <2>2, <2>3, <2>6 DEF StartFits
      <3>2. boot'[b].pending \subseteq Made(boot[b].config)
        BY <2>1, <2>4 DEF StartFits
      <3> QED  BY <2>4, <3>1, <3>2 DEF StartFits
    <2>8. alive'[b] \subseteq Made(boot[b].config) /\ alive' \in [Boots -> SUBSET Parts]
      BY <1>0, <2>1 DEF BootInv
    <2> QED  BY <2>1, <2>3, <2>4, <2>6, <2>7, <2>8, StartStep DEF BootInv
  <1>6. ASSUME NEW s \in Stops, ShutdownEnterprise(s) PROVE BootInv'
    <2>1. /\ stop[s].at = "idle" /\ StopFits(s)
          /\ stop' = [stop EXCEPT ![s] = [at |-> IF activeModules = NoInstance THEN "done" ELSE "services",
                                          of |-> activeModules]]
          /\ activeModules' = NoInstance /\ UNCHANGED <<boot, alive, lost, overtaken, outage>>
      BY <1>6 DEF ShutdownEnterprise, BootInv
    <2>2. /\ stop' \in [Stops -> [at : {"idle", "services", "kernel", "done"}, of : Boots \cup {NoInstance}]]
          /\ stop'[s].of = activeModules
          /\ stop'[s].at = IF activeModules = NoInstance THEN "done" ELSE "services"
          /\ \A r \in Stops \ {s} : stop'[r] = stop[r]
      BY <1>0, <2>1 DEF BootInv
    <2>3. stop[s].of = NoInstance
      BY <2>1 DEF StopFits
    <2>4. \A b \in Boots : StartFits(b)'
      <3> SUFFICES ASSUME NEW b \in Boots PROVE StartFits(b)'
        OBVIOUS
      <3>1. StartFits(b) /\ b # NoInstance
        BY BootstrapAssumption DEF BootInv
      <3>2. ASSUME b = activeModules \/ \E r \in Stops : stop[r].of = b
            PROVE  \E r \in Stops : stop'[r].of = b
        BY <2>2, <2>3, <3>1, <3>2
      <3> QED  BY <2>1, <3>1, <3>2 DEF StartFits
    <2>5. \A r \in Stops : StopFits(r)'
      <3> SUFFICES ASSUME NEW r \in Stops PROVE StopFits(r)'
        OBVIOUS
      <3>1. CASE r = s
        BY <2>1, <2>2, <3>1 DEF StopFits, BootInv
      <3>2. CASE r # s
        BY <2>1, <2>2, <3>2 DEF StopFits, BootInv
      <3> QED  BY <3>1, <3>2
    <2>6. ActiveIsWhole' /\ StopIsFinal'
      BY <2>1, BootstrapAssumption DEF ActiveIsWhole, StopIsFinal
    <2> QED  BY <2>1, <2>2, <2>4, <2>5, <2>6 DEF BootInv
  <1>7. ASSUME NEW s \in Stops, ServicesDown(s) PROVE BootInv'
    <2> DEFINE b == stop[s].of
               left == alive[b] \ (Services \cup IF "quotaManager" \in alive[b] THEN {"storage", "cache"} ELSE {})
    <2>1. /\ stop[s].at = "services" /\ alive' = [alive EXCEPT ![b] = left]
          /\ stop' = [stop EXCEPT ![s].at = "kernel"]
          /\ UNCHANGED <<activeModules, boot, lost, overtaken, outage>>
      BY <1>7 DEF ServicesDown
    <2>2. b \in Boots
      BY <1>0, <2>1 DEF BootInv, StopFits
    <2>3. left \subseteq Kernel
      BY <1>0, <2>2 DEF Parts
    <2> HIDE DEF left
    <2>4. left \subseteq alive[b]
      BY DEF left
    <2> QED  BY <2>1, <2>2, <2>3, <2>4, StopStepFits
  <1>8. ASSUME NEW s \in Stops, KernelDown(s) PROVE BootInv'
    <2> DEFINE b == stop[s].of
    <2>1. /\ stop[s].at = "kernel" /\ alive' = [alive EXCEPT ![b] = alive[b] \ Kernel]
          /\ stop' = [stop EXCEPT ![s].at = "done"]
          /\ UNCHANGED <<activeModules, boot, lost, overtaken, outage>>
      BY <1>8 DEF KernelDown
    <2>2. b \in Boots /\ b # NoInstance
      BY <1>0, <2>1 DEF BootInv, StopFits
    <2>3. alive[b] \subseteq Kernel
      BY <2>1, <2>2 DEF BootInv, StopFits
    <2>4. alive[b] \ Kernel = {}
      BY <2>3
    <2> QED  BY <2>1, <2>2, <2>4, StopStepFits
  <1>9. CASE UNCHANGED bootvars
    BY <1>9 DEF bootvars, BootInv, ActiveIsWhole, StopIsFinal, StartFits, StopFits
  <1> QED  BY <1>1, <1>2, <1>3, <1>4, <1>5, <1>6, <1>7, <1>8, <1>9 DEF BootNext, BootStep, StopStep

THEOREM BootInvariance == BootSpec => []BootInv
  BY BootInitInv, BootStepInv, PTL DEF BootSpec

\* What the invariant says of the type and of the instances.
LEMMA BootConsequences == BootInv => BootTypeOK /\ InstancesKept
  <1> SUFFICES ASSUME BootInv PROVE BootTypeOK /\ InstancesKept
    OBVIOUS
  <1>1. BootTypeOK
    BY DEF BootInv, BootTypeOK
  <1>2. NothingLeftBehind
    <2> SUFFICES ASSUME \A b \in Boots : boot[b].at \notin {"kernel", "modules"} /\ boot[b].pending = {},
                        \A s \in Stops : stop[s].at \in {"idle", "done"},
                        NEW b \in Boots
                 PROVE  /\ alive[b] # {} => b = activeModules \/ b \in overtaken \/ boot[b].at = "rejected"
                        /\ lost[b] # {} => "quotaManager" \in Made(boot[b].config)
      BY DEF NothingLeftBehind
    <2>1. StartFits(b) /\ boot[b] \in Boot /\ b # NoInstance
      BY BootstrapAssumption DEF BootInv
    <2>2. ASSUME NEW s \in Stops, stop[s].of = b PROVE alive[b] = {}
      <3>1. StopFits(s)
        BY DEF BootInv
      <3> QED  BY <2>1, <2>2, <3>1 DEF StopFits
    <2>3. boot[b].at \in {"idle", "shared", "returned", "rejected"}
      BY <2>1 DEF Boot
    <2> QED  BY <2>1, <2>2, <2>3 DEF StartFits
  <1> QED  BY <1>1, <1>2 DEF BootInv, InstancesKept

\* The published instance is whole, a stopped one is not published again, and when all
\* calls have ended nothing else runs but what overlapping or rejected starts left:
\* for any configurations and any overlapping starts and stops.
THEOREM InstancesKeptHolds == BootSpec => []InstancesKept
  BY BootInvariance, BootConsequences, PTL

----------------------------------------------------------------------------
(* Audit pipeline.                                                          *)

\* Successive events: what is flushed at a time.
Run(q) == q \in Seq(Events) /\ \A i, j \in 1 .. Len(q) : q[j] = q[i] + (j - i)

LEMMA RunIn ==
  ASSUME NEW q, Run(q)
  PROVE  /\ Len(q) \in Nat /\ Range(q) \subseteq Events
         /\ \A i \in 1 .. Len(q) : q[i] \in Range(q) /\ q[i] \in Events
         /\ \A e \in Range(q) : \E i \in 1 .. Len(q) : e = q[i]
         /\ \A i, j \in 1 .. Len(q) : q[j] = q[i] + (j - i)
         /\ q # <<>> => Len(q) > 0 /\ Head(q) = q[1] /\ q[1] \in Range(q)
  <1>1. q \in Seq(Events) /\ Len(q) \in Nat /\ DOMAIN q = 1 .. Len(q)
    BY LenProperties DEF Run
  <1>2. \A i \in 1 .. Len(q) : q[i] \in Events
    BY <1>1, ElementOfSeq
  <1>3. Range(q) = {q[i] : i \in 1 .. Len(q)}
    BY <1>1 DEF Range
  <1>4. q # <<>> => Len(q) > 0
    BY <1>1, EmptySeq
  <1> QED  BY <1>1, <1>2, <1>3, <1>4 DEF Run

LEMMA EmptyRun == Run(<<>>) /\ Range(<<>>) = {}
  BY EmptySeq DEF Run, Range

LEMMA RunAppended ==
  ASSUME NEW q, Run(q), NEW e \in Events, q # <<>> => q[Len(q)] = e - 1
  PROVE  /\ Run(Append(q, e)) /\ Append(q, e) # <<>>
         /\ Len(Append(q, e)) = Len(q) + 1 /\ Append(q, e)[Len(q) + 1] = e
         /\ Range(Append(q, e)) = Range(q) \cup {e}
  <1> DEFINE r == Append(q, e)
  <1>1. q \in Seq(Events) /\ Len(q) \in Nat
    BY LenProperties DEF Run
  <1>2. /\ r \in Seq(Events) /\ r # <<>> /\ Len(r) = Len(q) + 1
        /\ \A i \in 1 .. Len(q) : r[i] = q[i]
        /\ r[Len(q) + 1] = e
    BY <1>1, AppendProperties
  <1>3. \A i \in 1 .. Len(q) : q[i] \in Nat /\ q[i] = e - 1 - (Len(q) - i)
    <2> SUFFICES ASSUME NEW i \in 1 .. Len(q) PROVE q[i] \in Nat /\ q[i] = e - 1 - (Len(q) - i)
      OBVIOUS
    <2>1. q # <<>> /\ Len(q) \in 1 .. Len(q) /\ q[i] \in Events
      BY <1>1, EmptySeq, ElementOfSeq
    <2>2. q[Len(q)] = q[i] + (Len(q) - i)
      BY <2>1 DEF Run
    <2> QED  BY <1>1, <2>1, <2>2 DEF Events
  <1> HIDE DEF r
  <1>4. \A i \in 1 .. Len(r) : r[i] = e - (Len(r) - i)
    BY <1>1, <1>2, <1>3 DEF Events
  <1>5. Run(r)
    BY <1>1, <1>2, <1>4 DEF Run, Events
  <1>6. Range(r) = {r[i] : i \in 1 .. Len(r)} /\ Range(q) = {q[i] : i \in 1 .. Len(q)}
    BY <1>1, <1>2, LenProperties DEF Range
  <1>7. Range(r) = Range(q) \cup {e}
    <2>1. \A i \in 1 .. Len(r) : i \in 1 .. Len(q) \/ i = Len(q) + 1
      BY <1>1, <1>2
    <2>2. 1 .. Len(q) \subseteq 1 .. Len(r) /\ Len(q) + 1 \in 1 .. Len(r)
      BY <1>1, <1>2
    <2> QED  BY <1>2, <1>6, <2>1, <2>2
  <1> USE DEF r
  <1> QED  BY <1>2, <1>5, <1>7

LEMMA RunTail ==
  ASSUME NEW q, Run(q), q # <<>>
  PROVE  /\ Run(Tail(q)) /\ Len(Tail(q)) = Len(q) - 1
         /\ Range(q) = Range(Tail(q)) \cup {Head(q)} /\ Head(q) \notin Range(Tail(q))
         /\ Tail(q) # <<>> <=> Len(q) # 1
  <1> DEFINE r == Tail(q)
  <1>1. q \in Seq(Events) /\ Len(q) \in Nat \ {0} /\ Head(q) = q[1]
    BY EmptySeq DEF Run
  <1>2. r \in Seq(Events) /\ Len(r) = Len(q) - 1 /\ \A i \in 1 .. Len(r) : r[i] = q[i + 1]
    BY <1>1, HeadTailProperties
  <1>3. r # <<>> <=> Len(q) # 1
    <2>1. r = <<>> => Len(r) = 0
      BY EmptySeq
    <2>2. r # <<>> => Len(r) # 0
      BY <1>2, EmptySeq
    <2> HIDE DEF r
    <2> QED  BY <1>1, <1>2, <2>1, <2>2
  <1>4. \A i \in 1 .. Len(q) : q[i] \in Nat /\ q[i] = q[1] + (i - 1)
    <2>1. \A i \in 1 .. Len(q) : q[i] \in Events
      BY <1>1, ElementOfSeq
    <2>2. 1 \in 1 .. Len(q)
      BY <1>1
    <2> QED  BY <2>1, <2>2 DEF Run, Events
  <1> HIDE DEF r
  <1>5. \A i \in 1 .. Len(r) : i + 1 \in 1 .. Len(q) /\ r[i] = q[1] + i
    BY <1>1, <1>2, <1>4
  <1>6. Run(r)
    BY <1>1, <1>2, <1>4, <1>5 DEF Run
  <1>7. Range(r) = {r[i] : i \in 1 .. Len(r)} /\ Range(q) = {q[i] : i \in 1 .. Len(q)}
    BY <1>1, <1>2, LenProperties DEF Range
  <1>8. q[1] \notin Range(r)
    BY <1>1, <1>4, <1>5, <1>7
  <1>9. Range(q) = Range(r) \cup {q[1]}
    <2>1. \A i \in 1 .. Len(q) : i = 1 \/ (i - 1 \in 1 .. Len(r) /\ r[i - 1] = q[i])
      BY <1>1, <1>2
    <2>2. \A i \in 1 .. Len(r) : i + 1 \in 1 .. Len(q) /\ r[i] = q[i + 1]
      BY <1>2, <1>5
    <2>3. 1 \in 1 .. Len(q)
      BY <1>1
    <2>4. ASSUME NEW e \in Range(q) PROVE e \in Range(r) \cup {q[1]}
      BY <1>7, <2>1
    <2>5. ASSUME NEW e \in Range(r) PROVE e \in Range(q)
      BY <1>7, <2>2
    <2> QED  BY <1>7, <2>3, <2>4, <2>5
  <1> USE DEF r
  <1> QED  BY <1>1, <1>2, <1>3, <1>6, <1>8, <1>9

LEMMA RunSplit ==
  ASSUME NEW q, Run(q), NEW n \in 0 .. Len(q)
  PROVE  /\ SubSeq(q, 1, n) \in Seq(Events) /\ Len(SubSeq(q, 1, n)) = n
         /\ \A i \in 1 .. n : SubSeq(q, 1, n)[i] = q[i] /\ q[i] \in Range(q)
         /\ Range(q) = Range(SubSeq(q, 1, n)) \cup Range(SubSeq(q, n + 1, Len(q)))
  <1> DEFINE lo == SubSeq(q, 1, n)
             hi == SubSeq(q, n + 1, Len(q))
  <1>1. q \in Seq(Events) /\ Len(q) \in Nat /\ \A i \in 1 .. Len(q) : q[i] \in Events /\ q[i] \in Range(q)
    BY RunIn DEF Run
  <1>2. /\ \A i \in 1 .. n : q[i] \in Events
        /\ \A i \in (n + 1) .. Len(q) : q[i] \in Events
    BY <1>1
  <1>3. lo \in Seq(Events) /\ Len(lo) = n /\ \A i \in 1 .. n : lo[i] = q[i]
    BY <1>1, <1>2, SubSeqProperties
  <1>4. hi \in Seq(Events) /\ Len(hi) = Len(q) - n /\ \A i \in 1 .. Len(q) - n : hi[i] = q[n + i]
    BY <1>1, <1>2, SubSeqProperties
  <1>5. /\ Range(lo) = {lo[i] : i \in 1 .. n} /\ Range(hi) = {hi[i] : i \in 1 .. Len(q) - n}
        /\ Range(q) = {q[i] : i \in 1 .. Len(q)}
    BY <1>1, <1>3, <1>4, LenProperties DEF Range
  <1> HIDE DEF lo, hi
  <1>6. ASSUME NEW e \in Range(q) PROVE e \in Range(lo) \cup Range(hi)
    <2>1. PICK i \in 1 .. Len(q) : e = q[i]
      BY <1>5
    <2>2. CASE i \in 1 .. n
      BY <1>3, <1>5, <2>1, <2>2
    <2>3. CASE i \notin 1 .. n
      <3>1. PICK j \in 1 .. Len(q) - n : n + j = i
        <4>1. i - n \in 1 .. Len(q) - n /\ n + (i - n) = i
          BY <1>1, <2>3
        <4> QED  BY <4>1
      <3> QED  BY <1>4, <1>5, <2>1, <3>1
    <2> QED  BY <2>2, <2>3
  <1>7. ASSUME NEW e \in Range(lo) \cup Range(hi) PROVE e \in Range(q)
    <2>1. CASE e \in Range(lo)
      BY <1>1, <1>3, <1>5, <2>1
    <2>2. CASE e \in Range(hi)
      <3>1. PICK i \in 1 .. Len(q) - n : e = hi[i]
        BY <1>5, <2>2
      <3>2. n + i \in 1 .. Len(q)
        BY <1>1
      <3> QED  BY <1>1, <1>4, <3>1, <3>2
    <2> QED  BY <1>7, <2>1, <2>2
  <1> USE DEF lo, hi
  <1> QED  BY <1>1, <1>3, <1>6, <1>7

\* No sink has got the event or is writing it, and the log ends before it.
FreshEvent(e) ==
    /\ \A s \in sinks : got[s][e] = 0
    /\ \A w \in writes : e \notin Range(w.batch)
    /\ \A i \in 1 .. Len(lines) : lines[i] < e

\* A call writes successive events, which only a webhook may have got already, once
\* for each attempt that was made.
WriteFits(w) ==
    /\ w \in Write /\ Run(w.batch) /\ w.batch # <<>> /\ Len(w.batch) <= BatchSize
    /\ \A e \in Range(w.batch) :
          /\ e <= emitted
          /\ got[w.sink][e] <= IF w.sink = "webhook" THEN w.tries ELSE 0

\* The calls of one sink write different events.
WritesApart ==
    \A w, x \in writes : w.sink = x.sink /\ w # x => Range(w.batch) \cap Range(x.batch) = {}

Intervals == {"current", "leaked"}

AuditTypes ==
    /\ sinks \in SinkSets /\ emitted \in 0 .. MaxEvents /\ timers \subseteq Intervals
    /\ got \in [sinks -> [Events -> Nat]]
    /\ auditRows \subseteq Range(TenantOf) \X Events /\ gaveUp \subseteq sinks \X Events
    /\ lines \in Seq(Events) /\ \A i \in 1 .. Len(lines) : lines[i] <= emitted

BufferFits ==
    /\ Run(buffer) /\ Len(buffer) < BatchSize
    /\ buffer # <<>> => buffer[Len(buffer)] = emitted
    /\ \A e \in Range(buffer) : e <= emitted

AuditInv ==
    /\ AuditTypes /\ BufferFits
    /\ \A w \in writes : WriteFits(w)
    /\ WritesApart
    /\ \A e \in Events : e \in Range(buffer) \/ e > emitted => FreshEvent(e)
    /\ NoDuplicates /\ Accounted /\ LogInOrder /\ MovedToEarlier

LEMMA AuditInitInv == AuditInit => AuditInv
  <1> SUFFICES ASSUME AuditInit PROVE AuditInv
    OBVIOUS
  <1>1. Run(<<>>) /\ Range(<<>>) = {} /\ Len(<<>>) = 0
    BY EmptyRun
  <1>2. got \in [sinks -> [Events -> Nat]] /\ \A s \in sinks, e \in Events : got[s][e] = 0
    BY DEF AuditInit
  <1>3. lines \in Seq(Events) /\ \A i \in 1 .. Len(lines) : lines[i] <= emitted
    BY <1>1 DEF AuditInit, Run
  <1>4. AuditTypes
    <2>1. timers \subseteq Intervals
      BY DEF AuditInit
    <2>2. sinks \in SinkSets /\ emitted \in 0 .. MaxEvents /\ auditRows = {} /\ gaveUp = {}
      BY AuditAssumption DEF AuditInit
    <2> QED  BY <1>2, <1>3, <2>1, <2>2 DEF AuditTypes
  <1>5. BufferFits
    BY <1>1, AuditAssumption DEF AuditInit, BufferFits
  <1> QED  BY <1>1, <1>2, <1>4, <1>5, AuditAssumption
           DEF AuditInit, AuditInv, WritesApart, FreshEvent, NoDuplicates, Accounted, LogInOrder, MovedToEarlier

\* The calls that a flush begins: one for each sink but the log.
Begun(batch) == [sink : sinks \ {"log"}, batch : {batch}, tries : {0}]

LEMMA BegunCalls ==
  ASSUME NEW batch
  PROVE  /\ \A x \in Begun(batch) : x.sink \in sinks \ {"log"} /\ x.batch = batch /\ x.tries = 0
         /\ \A x, y \in Begun(batch) : x.sink = y.sink => x = y
         /\ \A s \in sinks \ {"log"} : \E x \in Begun(batch) : x.sink = s /\ x.batch = batch
         /\ batch \in Seq(Events) /\ MaxSendRetries \in Nat => Begun(batch) \subseteq Write
  <1>1. \A x \in Begun(batch) : x = [sink |-> x.sink, batch |-> batch, tries |-> 0]
    BY DEF Begun
  <1>2. \A s \in sinks \ {"log"} : [sink |-> s, batch |-> batch, tries |-> 0] \in Begun(batch)
    BY DEF Begun
  <1>3. \A x \in Begun(batch) : x.sink \in sinks \ {"log"} /\ x.batch = batch /\ x.tries = 0
    BY DEF Begun
  <1>4. batch \in Seq(Events) /\ MaxSendRetries \in Nat => Begun(batch) \subseteq Write
    BY <1>1, <1>3 DEF Write
  <1> QED  BY <1>1, <1>2, <1>3, <1>4

\* What the log sink does with a batch: it writes the first n events of it.
LEMMA Logged ==
  ASSUME AuditInv, NEW batch, Run(batch), WriteLines(batch),
         \A e \in Range(batch) : FreshEvent(e)
  PROVE  /\ got' \in [sinks -> [Events -> Nat]] /\ gaveUp' \subseteq sinks \X Events
         /\ gaveUp \subseteq gaveUp'
         /\ \A s \in sinks, e \in Events :
               /\ got'[s][e] = got[s][e] \/ (s = "log" /\ e \in Range(batch) /\ got'[s][e] = 1)
               /\ got'[s][e] >= got[s][e]
         /\ "log" \in sinks => \A e \in Range(batch) : got'["log"][e] > 0 \/ <<"log", e>> \in gaveUp'
         /\ lines' \in Seq(Events)
         /\ \A i \in 1 .. Len(lines') :
               (i \in 1 .. Len(lines) /\ lines'[i] = lines[i]) \/ lines'[i] \in Range(batch)
         /\ LogInOrder'
  <1>0. /\ got \in [sinks -> [Events -> Nat]] /\ gaveUp \subseteq sinks \X Events
        /\ lines \in Seq(Events) /\ Len(lines) \in Nat /\ LogInOrder
        /\ \A i \in 1 .. Len(lines) : lines[i] \in Events
        /\ \A s \in sinks, e \in Events : got[s][e] \in Nat
    BY LenProperties, ElementOfSeq DEF AuditInv, AuditTypes
  <1>1. CASE "log" \notin sinks
    <2>1. UNCHANGED <<got, lines, gaveUp>>
      BY <1>1 DEF WriteLines
    <2>2. LogInOrder'
      BY <1>0, <2>1 DEF LogInOrder
    <2> QED  BY <1>0, <1>1, <2>1, <2>2
  <1>2. CASE "log" \in sinks
    <2>1. PICK n \in 0 .. Len(batch) :
            /\ lines' = lines \o SubSeq(batch, 1, n)
            /\ Receives("log", Range(SubSeq(batch, 1, n)))
            /\ gaveUp' = gaveUp \cup ({"log"} \X Range(SubSeq(batch, n + 1, Len(batch))))
      BY <1>2 DEF WriteLines
    <2> DEFINE lo == SubSeq(batch, 1, n)
               hi == SubSeq(batch, n + 1, Len(batch))
    <2>2. /\ lo \in Seq(Events) /\ Len(lo) = n /\ \A i \in 1 .. n : lo[i] = batch[i] /\ batch[i] \in Range(batch)
          /\ Range(batch) = Range(lo) \cup Range(hi)
      BY RunSplit
    <2>3. /\ Len(batch) \in Nat /\ Range(batch) \subseteq Events
          /\ \A i, j \in 1 .. Len(batch) : batch[j] = batch[i] + (j - i)
          /\ \A i \in 1 .. Len(batch) : batch[i] \in Events
      BY RunIn
    <2> HIDE DEF lo, hi
    <2>4. got' = [got EXCEPT !["log"] = [e \in Events |-> IF e \in Range(lo) THEN @[e] + 1 ELSE @[e]]]
          /\ gaveUp' = gaveUp \cup ({"log"} \X Range(hi)) /\ lines' = lines \o lo
      BY <2>1 DEF Receives, lo, hi
    <2>5. /\ got' \in [sinks -> [Events -> Nat]]
          /\ \A s \in sinks, e \in Events :
                got'[s][e] = IF s = "log" /\ e \in Range(lo) THEN got[s][e] + 1 ELSE got[s][e]
      <3> DEFINE more == [e \in Events |-> IF e \in Range(lo) THEN got["log"][e] + 1 ELSE got["log"][e]]
      <3>1. more \in [Events -> Nat]
        BY <1>0, <1>2
      <3>2. got' = [got EXCEPT !["log"] = more]
        BY <2>4
      <3>3. \A e \in Events : more[e] = IF e \in Range(lo) THEN got["log"][e] + 1 ELSE got["log"][e]
        OBVIOUS
      <3> HIDE DEF more
      <3> QED  BY <1>0, <1>2, <3>1, <3>2, <3>3
    <2>6. \A e \in Range(batch) : got["log"][e] = 0
      BY <1>2 DEF FreshEvent
    <2>7. \A s \in sinks, e \in Events :
             /\ got'[s][e] = got[s][e] \/ (s = "log" /\ e \in Range(batch) /\ got'[s][e] = 1)
             /\ got'[s][e] >= got[s][e]
      <3> SUFFICES ASSUME NEW s \in sinks, NEW e \in Events
                   PROVE  /\ got'[s][e] = got[s][e] \/ (s = "log" /\ e \in Range(batch) /\ got'[s][e] = 1)
                          /\ got'[s][e] >= got[s][e]
        OBVIOUS
      <3>1. got[s][e] \in Nat
        BY <1>0
      <3>2. CASE s = "log" /\ e \in Range(lo)
        BY <2>2, <2>5, <2>6, <3>1, <3>2
      <3>3. CASE ~(s = "log" /\ e \in Range(lo))
        BY <2>5, <3>1, <3>3
      <3> QED  BY <3>2, <3>3
    <2>8. gaveUp' \subseteq sinks \X Events /\ gaveUp \subseteq gaveUp'
      BY <1>0, <1>2, <2>2, <2>3, <2>4
    <2>9. \A e \in Range(batch) : got'["log"][e] > 0 \/ <<"log", e>> \in gaveUp'
      BY <1>2, <2>2, <2>3, <2>4, <2>5, <2>6
    <2>10. /\ lines' \in Seq(Events) /\ Len(lines') = Len(lines) + n
           /\ \A i \in 1 .. Len(lines) + n :
                 lines'[i] = IF i <= Len(lines) THEN lines[i] ELSE lo[i - Len(lines)]
      BY <1>0, <2>2, <2>4, ConcatProperties
    <2>11. \A i \in 1 .. Len(lines') :
              \/ i \in 1 .. Len(lines) /\ lines'[i] = lines[i]
              \/ /\ i > Len(lines) /\ i - Len(lines) \in 1 .. Len(batch)
                 /\ lines'[i] = batch[i - Len(lines)] /\ lines'[i] \in Range(batch)
      <3> SUFFICES ASSUME NEW i \in 1 .. Len(lines')
                   PROVE  \/ i \in 1 .. Len(lines) /\ lines'[i] = lines[i]
                          \/ /\ i > Len(lines) /\ i - Len(lines) \in 1 .. Len(batch)
                             /\ lines'[i] = batch[i - Len(lines)] /\ lines'[i] \in Range(batch)
        OBVIOUS
      <3>0. i \in 1 .. Len(lines) + n /\ Len(lines) \in Nat
        BY <1>0, <2>10
      <3>1. CASE i <= Len(lines)
        <4>1. i \in 1 .. Len(lines)
          BY <3>0, <3>1
        <4>2. lines'[i] = lines[i]
          BY <2>10, <3>0, <3>1
        <4> QED  BY <4>1, <4>2
      <3>2. CASE ~(i <= Len(lines))
        <4>1. i - Len(lines) \in 1 .. n /\ i - Len(lines) \in 1 .. Len(batch) /\ i > Len(lines)
          BY <1>0, <2>3, <2>10, <3>2
        <4> QED  BY <2>2, <2>10, <3>2, <4>1
      <3> QED  BY <3>1, <3>2
    <2>12. LogInOrder'
      <3> SUFFICES ASSUME NEW i \in 1 .. Len(lines'), NEW j \in 1 .. Len(lines'), i < j
                   PROVE  lines'[i] < lines'[j]
        BY DEF LogInOrder
      <3>1. CASE j <= Len(lines)
        <4>1. i \in 1 .. Len(lines) /\ j \in 1 .. Len(lines) /\ lines'[i] = lines[i] /\ lines'[j] = lines[j]
          <5>1. i \in 1 .. Len(lines) /\ j \in 1 .. Len(lines)
            <6>1. i \in Nat /\ j \in Nat /\ 1 <= i /\ 1 <= j /\ i < j
              BY <1>0, <2>3, <2>10
            <6> QED  BY <1>0, <3>1, <6>1
          <5>2. ~(i > Len(lines)) /\ ~(j > Len(lines))
            BY <1>0, <5>1
          <5> QED  BY <2>11, <5>1, <5>2
        <4> QED  BY <1>0, <4>1 DEF LogInOrder
      <3>2. CASE i <= Len(lines) /\ ~(j <= Len(lines))
        <4>1. lines'[j] \in Range(batch) /\ i \in 1 .. Len(lines) /\ lines'[i] = lines[i]
          BY <1>0, <2>10, <2>11, <3>2
        <4> QED  BY <4>1 DEF FreshEvent
      <3>3. CASE ~(i <= Len(lines))
        <4> DEFINE u == i - Len(lines)
                   v == j - Len(lines)
        <4>1. /\ u \in 1 .. Len(batch) /\ v \in 1 .. Len(batch) /\ u < v
              /\ lines'[i] = batch[u] /\ lines'[j] = batch[v]
          BY <1>0, <2>10, <2>11, <3>3
        <4> HIDE DEF u, v
        <4> QED  BY <2>3, <4>1 DEF Events
      <3> QED  BY <1>0, <2>10, <3>1, <3>2, <3>3
    <2>13. \A i \in 1 .. Len(lines') :
              (i \in 1 .. Len(lines) /\ lines'[i] = lines[i]) \/ lines'[i] \in Range(batch)
      BY <2>11
    <2> QED  BY <2>5, <2>7, <2>8, <2>9, <2>10, <2>12, <2>13
  <1> QED  BY <1>1, <1>2

\* A flush of what is in the buffer, with the event that fills it or without: its
\* events are fresh, so that afterwards each is in one batch of each sink.
LEMMA FlushStep ==
  ASSUME AuditInv, NEW batch, Run(batch), batch # <<>>, Len(batch) <= BatchSize, Flush(batch),
         emitted' \in 0 .. MaxEvents, emitted <= emitted', timers' \subseteq Intervals,
         \A e \in Range(batch) : FreshEvent(e) /\ e <= emitted',
         Range(buffer) \subseteq Range(batch),
         \A e \in Events : emitted < e /\ e <= emitted' => e \in Range(batch),
         \A e \in Events : emitted' < e => \A d \in Range(batch) : d < e,
         UNCHANGED <<sinks, auditRows>>
  PROVE  AuditInv'
  <1>1. /\ buffer' = <<>> /\ writes' = writes \cup Begun(batch) /\ WriteLines(batch)
    BY DEF Flush, Begun
  <1>2. /\ got' \in [sinks -> [Events -> Nat]] /\ gaveUp' \subseteq sinks \X Events
        /\ gaveUp \subseteq gaveUp'
        /\ \A s \in sinks, e \in Events :
              /\ got'[s][e] = got[s][e] \/ (s = "log" /\ e \in Range(batch) /\ got'[s][e] = 1)
              /\ got'[s][e] >= got[s][e]
        /\ "log" \in sinks => \A e \in Range(batch) : got'["log"][e] > 0 \/ <<"log", e>> \in gaveUp'
        /\ lines' \in Seq(Events)
        /\ \A i \in 1 .. Len(lines') :
              (i \in 1 .. Len(lines) /\ lines'[i] = lines[i]) \/ lines'[i] \in Range(batch)
        /\ LogInOrder'
    BY <1>1, Logged
  <1>3. /\ Range(batch) \subseteq Events /\ batch \in Seq(Events) /\ MaxSendRetries \in Nat
        /\ \A e \in Events : e \in Nat
        /\ emitted \in Nat /\ emitted' \in Nat
    <2>1. MaxSendRetries \in Nat /\ MaxEvents \in Nat /\ \A e \in Events : e \in Nat
      BY AuditAssumption DEF Events
    <2>2. emitted \in Nat /\ emitted' \in Nat
      BY <2>1 DEF AuditInv, AuditTypes
    <2>3. Range(batch) \subseteq Events /\ batch \in Seq(Events)
      BY RunIn DEF Run
    <2> QED  BY <2>1, <2>2, <2>3
  <1>4. /\ \A x \in Begun(batch) : x.sink \in sinks \ {"log"} /\ x.batch = batch /\ x.tries = 0
        /\ \A x, y \in Begun(batch) : x.sink = y.sink => x = y
        /\ \A s \in sinks \ {"log"} : \E x \in Begun(batch) : x.sink = s /\ x.batch = batch
        /\ Begun(batch) \subseteq Write
    BY <1>3, BegunCalls
  <1>5. \A w \in writes : w \in Write /\ Range(w.batch) \subseteq Events /\ w.sink \in sinks \ {"log"}
    BY RunIn DEF AuditInv, WriteFits, Write
  <1>6. \A e \in Range(batch) : (\A s \in sinks : got[s][e] = 0) /\ \A w \in writes : e \notin Range(w.batch)
    BY DEF FreshEvent
  <1>7. Run(<<>>) /\ Range(<<>>) = {} /\ Len(<<>>) = 0
    BY EmptyRun
  <1> HIDE DEF Begun
  <1>8. AuditTypes'
    <2>1. \A i \in 1 .. Len(lines') : lines'[i] <= emitted'
      <3> SUFFICES ASSUME NEW i \in 1 .. Len(lines') PROVE lines'[i] <= emitted'
        OBVIOUS
      <3>1. CASE i \in 1 .. Len(lines) /\ lines'[i] = lines[i]
        <4>1. lines[i] \in Events /\ lines[i] <= emitted
          BY <3>1, ElementOfSeq DEF AuditInv, AuditTypes
        <4> QED  BY <1>3, <3>1, <4>1
      <3> QED  BY <1>2, <3>1
    <2> QED  BY <1>2, <2>1 DEF AuditInv, AuditTypes
  <1>9. BufferFits'
    BY <1>1, <1>7, AuditAssumption DEF BufferFits
  <1>10. \A w \in writes' : WriteFits(w)'
    <2>1. ASSUME NEW w \in writes PROVE WriteFits(w)'
      <3>1. WriteFits(w) /\ \A e \in Range(w.batch) : e \in Events /\ got'[w.sink][e] = got[w.sink][e]
        BY <1>2, <1>5, <1>6 DEF AuditInv
      <3>2. \A e \in Range(w.batch) : e <= emitted'
        BY <1>3, <3>1 DEF WriteFits
      <3> QED  BY <3>1, <3>2 DEF WriteFits, Write
    <2>2. ASSUME NEW w \in Begun(batch) PROVE WriteFits(w)'
      <3>1. w.sink \in sinks /\ w.sink # "log" /\ w.batch = batch /\ w.tries = 0 /\ w \in Write
        BY <1>4
      <3>2. \A e \in Range(batch) : got'[w.sink][e] = 0
        <4> SUFFICES ASSUME NEW e \in Range(batch) PROVE got'[w.sink][e] = 0
          OBVIOUS
        <4>1. e \in Events /\ got[w.sink][e] = 0
          BY <1>3, <1>6, <3>1
        <4> QED  BY <1>2, <3>1, <4>1
      <3> QED  BY <3>1, <3>2 DEF WriteFits, Write
    <2> QED  BY <1>1, <2>1, <2>2
  <1>11. WritesApart'
    <2> SUFFICES ASSUME NEW w \in writes', NEW x \in writes', w.sink = x.sink, w # x
                 PROVE  Range(w.batch) \cap Range(x.batch) = {}
      BY DEF WritesApart
    <2>1. CASE w \in writes /\ x \in writes
      BY <2>1 DEF AuditInv, WritesApart
    <2>2. CASE w \in Begun(batch) /\ x \in writes
      BY <1>4, <1>6, <2>2
    <2>3. CASE w \in writes /\ x \in Begun(batch)
      BY <1>4, <1>6, <2>3
    <2>4. CASE w \in Begun(batch) /\ x \in Begun(batch)
      BY <1>4, <2>4
    <2> QED  BY <1>1, <2>1, <2>2, <2>3, <2>4
  <1>12. ASSUME NEW e \in Events, e \in Range(buffer') \/ e > emitted' PROVE FreshEvent(e)'
    <2>1. e > emitted' /\ e \notin Range(batch) /\ \A d \in Range(batch) : d < e
      BY <1>1, <1>3, <1>7, <1>12
    <2>2. FreshEvent(e)
      BY <1>3, <2>1 DEF AuditInv
    <2>3. \A s \in sinks : got'[s][e] = 0
      BY <1>2, <2>1, <2>2 DEF FreshEvent
    <2>4. \A w \in writes' : e \notin Range(w.batch)
      BY <1>1, <1>4, <2>1, <2>2 DEF FreshEvent
    <2>5. \A i \in 1 .. Len(lines') : lines'[i] < e
      BY <1>2, <2>1, <2>2 DEF FreshEvent
    <2> QED  BY <2>3, <2>4, <2>5 DEF FreshEvent
  <1>13. NoDuplicates'
    <2> SUFFICES ASSUME NEW e \in Events, NEW s \in sinks
                 PROVE  got'[s][e] <= IF s = "webhook" THEN 1 + MaxSendRetries ELSE 1
      BY DEF NoDuplicates
    <2>1. got[s][e] <= IF s = "webhook" THEN 1 + MaxSendRetries ELSE 1
      BY DEF AuditInv, NoDuplicates
    <2>2. CASE got'[s][e] = got[s][e]
      BY <2>1, <2>2
    <2>3. CASE s = "log" /\ got'[s][e] = 1
      BY <2>3
    <2> QED  BY <1>2, <2>2, <2>3
  <1>14. Accounted'
    <2> SUFFICES ASSUME NEW e \in 1 .. emitted', NEW s \in sinks
                 PROVE  Pending(s, e)' \/ got'[s][e] > 0 \/ <<s, e>> \in gaveUp'
      BY DEF Accounted
    <2>1. e \in Events
      BY <1>3, AuditAssumption DEF Events
    <2>2. CASE e \in Range(batch)
      <3>1. CASE s = "log"
        BY <1>2, <2>2, <3>1
      <3>2. CASE s # "log"
        <4>1. PICK x \in Begun(batch) : x.sink = s /\ x.batch = batch
          BY <1>4, <3>2
        <4> QED  BY <1>1, <2>2, <4>1 DEF Pending
      <3> QED  BY <3>1, <3>2
    <2>3. CASE e \notin Range(batch)
      <3>1. e \in 1 .. emitted /\ e \notin Range(buffer)
        BY <1>3, <2>1, <2>3
      <3>2. Pending(s, e) \/ got[s][e] > 0 \/ <<s, e>> \in gaveUp
        BY <3>1 DEF AuditInv, Accounted
      <3>3. got'[s][e] = got[s][e]
        BY <1>2, <2>1, <2>3
      <3>4. Pending(s, e) => Pending(s, e)'
        BY <1>1 DEF Pending
      <3> QED  BY <1>2, <3>2, <3>3, <3>4
    <2> QED  BY <2>2, <2>3
  <1>15. MovedToEarlier'
    BY DEF AuditInv, MovedToEarlier
  <1> QED  BY <1>2, <1>8, <1>9, <1>10, <1>11, <1>12, <1>13, <1>14, <1>15 DEF AuditInv

\* How often a call that fits may have sent an event already.
Sent(w) == IF w.sink = "webhook" THEN w.tries ELSE 0

LEMMA ReceivedBy ==
  ASSUME AuditInv, NEW s \in sinks, NEW S, Receives(s, S)
  PROVE  /\ got' \in [sinks -> [Events -> Nat]]
         /\ \A r \in sinks, e \in Events :
               got'[r][e] = IF r = s /\ e \in S THEN got[r][e] + 1 ELSE got[r][e]
  <1> DEFINE more == [e \in Events |-> IF e \in S THEN got[s][e] + 1 ELSE got[s][e]]
  <1>1. got \in [sinks -> [Events -> Nat]]
    BY DEF AuditInv, AuditTypes
  <1>2. more \in [Events -> Nat]
    BY <1>1
  <1>3. got' = [got EXCEPT ![s] = more]
    BY DEF Receives
  <1>4. \A e \in Events : more[e] = IF e \in S THEN got[s][e] + 1 ELSE got[s][e]
    OBVIOUS
  <1> HIDE DEF more
  <1> QED  BY <1>1, <1>2, <1>3, <1>4

LEMMA NothingReceived ==
  ASSUME AuditInv, NEW s \in sinks, UNCHANGED got
  PROVE  Receives(s, {})
  <1>1. got \in [sinks -> [Events -> Nat]]
    BY DEF AuditInv, AuditTypes
  <1>2. [e \in Events |-> IF e \in {} THEN got[s][e] + 1 ELSE got[s][e]] = got[s]
    BY <1>1
  <1>3. got = [got EXCEPT ![s] = got[s]]
    BY <1>1
  <1> QED  BY <1>2, <1>3 DEF Receives

\* A call of a sink goes on: it has sent the events of S, and the rest is what the
\* call X that takes its place has to write, or is given up.
GoesOn(w, S, X) ==
    /\ S \subseteq Range(w.batch)
    /\ writes' = (writes \ {w}) \cup X /\ \A x, y \in X : x = y
    /\ \A x \in X :
          /\ x \in Write /\ x.sink = w.sink /\ Run(x.batch) /\ x.batch # <<>>
          /\ Len(x.batch) <= BatchSize /\ Range(x.batch) \subseteq Range(w.batch)
          /\ \A e \in Range(x.batch) : Sent(w) + (IF e \in S THEN 1 ELSE 0) <= Sent(x)
    /\ Receives(w.sink, S) /\ gaveUp \subseteq gaveUp' /\ gaveUp' \subseteq sinks \X Events
    /\ \A e \in Range(w.batch) :
          e \in S \/ (\E x \in X : e \in Range(x.batch)) \/ <<w.sink, e>> \in gaveUp'

LEMMA WriteStep ==
  ASSUME AuditInv, NEW w \in writes, NEW S, NEW X, GoesOn(w, S, X),
         UNCHANGED <<sinks, emitted, buffer, timers, lines>>,
         auditRows' \subseteq Range(TenantOf) \X Events, MovedToEarlier'
  PROVE  AuditInv'
  <1>0. /\ S \subseteq Range(w.batch)
        /\ writes' = (writes \ {w}) \cup X /\ \A x, y \in X : x = y
        /\ \A x \in X : /\ x \in Write /\ x.sink = w.sink /\ Run(x.batch) /\ x.batch # <<>>
                         /\ Len(x.batch) <= BatchSize /\ Range(x.batch) \subseteq Range(w.batch)
                         /\ \A e \in Range(x.batch) : Sent(w) + (IF e \in S THEN 1 ELSE 0) <= Sent(x)
        /\ Receives(w.sink, S) /\ gaveUp \subseteq gaveUp' /\ gaveUp' \subseteq sinks \X Events
        /\ \A e \in Range(w.batch) :
              e \in S \/ (\E x \in X : e \in Range(x.batch)) \/ <<w.sink, e>> \in gaveUp'
    BY DEF GoesOn
  <1>1. /\ w \in Write /\ WriteFits(w) /\ w.sink \in sinks /\ w.tries \in 0 .. MaxSendRetries
        /\ Range(w.batch) \subseteq Events /\ MaxSendRetries \in Nat /\ Sent(w) \in Nat
    BY <1>0, RunIn, AuditAssumption DEF AuditInv, WriteFits, Write, Sent
  <1>2. /\ got' \in [sinks -> [Events -> Nat]]
        /\ \A r \in sinks, e \in Events :
              got'[r][e] = IF r = w.sink /\ e \in S THEN got[r][e] + 1 ELSE got[r][e]
    BY <1>0, <1>1, ReceivedBy
  <1>3. \A r \in sinks, e \in Events : got[r][e] \in Nat
    BY <1>0 DEF AuditInv, AuditTypes
  <1>4. \A e \in Range(w.batch) : got[w.sink][e] <= Sent(w)
    BY <1>0, <1>1 DEF WriteFits, Sent
  <1>5. AuditTypes' /\ BufferFits'
    BY <1>0, <1>2 DEF AuditInv, AuditTypes, BufferFits
  <1>6. ASSUME NEW x \in writes, x # w PROVE WriteFits(x)'
    <2>1. WriteFits(x) /\ x.sink \in sinks /\ Range(x.batch) \subseteq Events
      BY <1>0, RunIn DEF AuditInv, WriteFits, Write
    <2>2. x.sink = w.sink => Range(x.batch) \cap Range(w.batch) = {}
      BY <1>0, <1>6 DEF AuditInv, WritesApart
    <2>3. \A e \in Range(x.batch) : got'[x.sink][e] = got[x.sink][e]
      BY <1>0, <1>2, <2>1, <2>2
    <2> QED  BY <1>0, <2>1, <2>3 DEF WriteFits, Write
  <1>7. ASSUME NEW x \in X PROVE WriteFits(x)'
    <2>1. \A e \in Range(x.batch) :
             got'[x.sink][e] <= Sent(x) /\ e <= emitted
      <3> SUFFICES ASSUME NEW e \in Range(x.batch) PROVE got'[x.sink][e] <= Sent(x) /\ e <= emitted
        OBVIOUS
      <3>1. /\ e \in Range(w.batch) /\ e \in Events /\ x.sink = w.sink
            /\ Sent(w) + (IF e \in S THEN 1 ELSE 0) <= Sent(x) /\ x \in Write
        BY <1>0, <1>1
      <3>2. Sent(x) \in Nat
        BY <1>0, <3>1, AuditAssumption DEF Write, Sent
      <3> QED  BY <1>0, <1>1, <1>2, <1>3, <1>4, <3>1, <3>2 DEF WriteFits
    <2> QED  BY <1>0, <2>1 DEF WriteFits, Sent, Write
  <1>8. WritesApart'
    <2> SUFFICES ASSUME NEW x \in writes', NEW y \in writes', x.sink = y.sink, x # y
                 PROVE  Range(x.batch) \cap Range(y.batch) = {}
      BY <1>0 DEF WritesApart
    <2>1. \A a1, a2 \in writes : a1.sink = a2.sink /\ a1 # a2 => Range(a1.batch) \cap Range(a2.batch) = {}
      BY <1>0 DEF AuditInv, WritesApart
    <2>2. CASE x \in writes \ {w} /\ y \in writes \ {w}
      BY <1>0, <2>1, <2>2
    <2>3. CASE x \in writes \ {w} /\ y \in X
      BY <1>0, <2>1, <2>3
    <2>4. CASE x \in X /\ y \in writes \ {w}
      BY <1>0, <2>1, <2>4
    <2> QED  BY <1>0, <2>2, <2>3, <2>4
  <1>9. ASSUME NEW e \in Events, e \in Range(buffer') \/ e > emitted' PROVE FreshEvent(e)'
    <2>1. FreshEvent(e)
      BY <1>0, <1>9 DEF AuditInv
    <2>2. e \notin Range(w.batch)
      BY <1>0, <2>1 DEF FreshEvent
    <2>3. \A s \in sinks : got'[s][e] = 0
      BY <1>0, <1>2, <2>1, <2>2 DEF FreshEvent
    <2> QED  BY <1>0, <2>1, <2>2, <2>3 DEF FreshEvent
  <1>10. NoDuplicates'
    <2> SUFFICES ASSUME NEW e \in Events, NEW s \in sinks
                 PROVE  got'[s][e] <= IF s = "webhook" THEN 1 + MaxSendRetries ELSE 1
      BY <1>0 DEF NoDuplicates
    <2>1. CASE s = w.sink /\ e \in S
      <3>1. got[s][e] <= Sent(w) /\ got[s][e] \in Nat /\ got'[s][e] = got[s][e] + 1
        BY <1>0, <1>2, <1>3, <1>4, <2>1
      <3> QED  BY <1>0, <1>1, <2>1, <3>1 DEF Sent
    <2>2. CASE ~(s = w.sink /\ e \in S)
      BY <1>0, <1>2, <2>2 DEF AuditInv, NoDuplicates
    <2> QED  BY <1>0, <2>1, <2>2
  <1>11. Accounted'
    <2> SUFFICES ASSUME NEW e \in 1 .. emitted, NEW s \in sinks, e \notin Range(buffer)
                 PROVE  Pending(s, e)' \/ got'[s][e] > 0 \/ <<s, e>> \in gaveUp'
      BY <1>0 DEF Accounted
    <2>1. e \in Events
      BY <1>0, AuditAssumption DEF AuditInv, AuditTypes, Events
    <2>2. got[s][e] > 0 => got'[s][e] > 0
      BY <1>0, <1>2, <1>3, <2>1
    <2>3. CASE s = w.sink /\ e \in Range(w.batch)
      <3>1. e \in S => got'[s][e] > 0
        BY <1>0, <1>2, <1>3, <2>1, <2>3
      <3>2. (\E x \in X : e \in Range(x.batch)) => Pending(s, e)'
        BY <1>0, <2>3 DEF Pending
      <3> QED  BY <1>0, <2>3, <3>1, <3>2
    <2>4. CASE ~(s = w.sink /\ e \in Range(w.batch))
      <3>1. Pending(s, e) => Pending(s, e)'
        BY <1>0, <2>4 DEF Pending
      <3>2. Pending(s, e) \/ got[s][e] > 0 \/ <<s, e>> \in gaveUp
        BY <1>0 DEF AuditInv, Accounted
      <3> QED  BY <1>0, <2>2, <3>1, <3>2
    <2> QED  BY <1>0, <2>3, <2>4
  <1>12. LogInOrder'
    BY <1>0 DEF AuditInv, LogInOrder
  <1> QED  BY <1>0, <1>5, <1>6, <1>7, <1>8, <1>9, <1>10, <1>11, <1>12 DEF AuditInv

\* What a call gives up when it throws.
LEMMA Thrown ==
  ASSUME AuditInv, NEW w \in writes, Throw(w)
  PROVE  \A S : S \subseteq Range(w.batch) /\ Receives(w.sink, S) => GoesOn(w, S, {})
  <1>1. w.sink \in sinks /\ Range(w.batch) \subseteq Events /\ gaveUp \subseteq sinks \X Events
    BY RunIn DEF AuditInv, AuditTypes, WriteFits, Write
  <1>2. /\ writes' = (writes \ {w}) \cup {} /\ gaveUp \subseteq gaveUp'
        /\ gaveUp' \subseteq sinks \X Events
        /\ \A e \in Range(w.batch) : <<w.sink, e>> \in gaveUp'
    BY <1>1 DEF Throw
  <1> QED  BY <1>2 DEF GoesOn

LEMMA EmitStep == ASSUME AuditInv, Emit PROVE AuditInv'
  <1> DEFINE e == emitted + 1
             batch == Append(buffer, e)
  <1>1. /\ emitted \in Nat /\ MaxEvents \in Nat /\ BatchSize \in Nat \ {0} /\ emitted < MaxEvents
        /\ emitted' = e /\ UNCHANGED <<sinks, timers, auditRows>> /\ timers \subseteq Intervals
        /\ Run(buffer) /\ Len(buffer) < BatchSize /\ Len(buffer) \in Nat
        /\ buffer # <<>> => buffer[Len(buffer)] = emitted
    BY AuditAssumption, RunIn DEF Emit, AuditInv, AuditTypes, BufferFits
  <1>2. e \in Events /\ e \in Nat /\ e > emitted /\ emitted = e - 1
    BY <1>1 DEF Events
  <1>3. /\ Run(batch) /\ batch # <<>> /\ Len(batch) = Len(buffer) + 1 /\ batch[Len(buffer) + 1] = e
        /\ Range(batch) = Range(buffer) \cup {e}
    BY <1>1, <1>2, RunAppended
  <1>4. FreshEvent(e) /\ \A d \in Range(buffer) : FreshEvent(d) /\ d <= emitted /\ d \in Events
    BY <1>1, <1>2, RunIn DEF AuditInv, BufferFits
  <1>5. \A d \in Range(batch) : FreshEvent(d) /\ d <= e
    <2> SUFFICES ASSUME NEW d \in Range(batch) PROVE FreshEvent(d) /\ d <= e
      OBVIOUS
    <2>1. CASE d = e
      BY <1>2, <1>4, <2>1
    <2>2. CASE d \in Range(buffer)
      BY <1>1, <1>2, <1>4, <2>2 DEF Events
    <2> QED  BY <1>3, <2>1, <2>2
  <1> HIDE DEF e, batch
  <1>6. CASE Len(batch) >= BatchSize
    <2>1. Flush(batch)
      BY <1>6 DEF Emit, Buffered, batch, e
    <2>2. Len(batch) <= BatchSize
      BY <1>1, <1>3
    <2>3. \A d \in Events : emitted < d /\ d <= emitted' => d \in Range(batch)
      BY <1>1, <1>2, <1>3 DEF Events
    <2>4. \A d \in Events : emitted' < d => \A c \in Range(batch) : c < d
      <3> SUFFICES ASSUME NEW d \in Events, emitted' < d, NEW c \in Range(batch) PROVE c < d
        OBVIOUS
      <3>1. c \in Events /\ c <= e
        BY <1>3, <1>5, RunIn
      <3> QED  BY <1>1, <1>2, <3>1 DEF Events
    <2>5. emitted' \in 0 .. MaxEvents /\ emitted <= emitted' /\ timers' \subseteq Intervals
      BY <1>1, <1>2
    <2> QED  BY <1>1, <1>3, <1>5, <2>1, <2>2, <2>3, <2>4, <2>5, FlushStep
  <1>7. CASE ~(Len(batch) >= BatchSize)
    <2>1. buffer' = batch /\ UNCHANGED <<writes, got, lines, gaveUp>>
      BY <1>7 DEF Emit, Buffered, batch, e
    <2>2. AuditTypes'
      <3>1. \A i \in 1 .. Len(lines) : lines[i] \in Events /\ lines[i] <= emitted
        BY ElementOfSeq DEF AuditInv, AuditTypes
      <3>2. \A i \in 1 .. Len(lines) : lines[i] <= e
        BY <1>1, <1>2, <3>1 DEF Events
      <3>3. timers' \subseteq Intervals /\ emitted' \in 0 .. MaxEvents
        BY <1>1, <1>2
      <3> QED  BY <1>1, <2>1, <3>2, <3>3 DEF AuditInv, AuditTypes
    <2>3. BufferFits'
      BY <1>1, <1>3, <1>5, <1>7, <2>1 DEF BufferFits
    <2>4. \A w \in writes : WriteFits(w)'
      <3> SUFFICES ASSUME NEW w \in writes PROVE WriteFits(w)'
        OBVIOUS
      <3>1. WriteFits(w) /\ Range(w.batch) \subseteq Events
        BY RunIn DEF AuditInv, WriteFits
      <3>2. \A d \in Range(w.batch) : d <= e
        BY <1>1, <1>2, <3>1 DEF WriteFits, Events
      <3> QED  BY <1>1, <2>1, <3>1, <3>2 DEF WriteFits, Write
    <2>5. ASSUME NEW d \in Events, d \in Range(buffer') \/ d > emitted' PROVE FreshEvent(d)'
      <3>1. FreshEvent(d)
        <4>1. CASE d \in Range(batch)
          BY <1>5, <4>1
        <4>2. CASE d > e
          BY <1>1, <1>2, <4>2 DEF AuditInv, Events
        <4> QED  BY <1>1, <2>1, <2>5, <4>1, <4>2
      <3> QED  BY <1>1, <2>1, <3>1 DEF FreshEvent
    <2>6. Accounted'
      <3> SUFFICES ASSUME NEW d \in 1 .. e, NEW s \in sinks
                   PROVE  d \in Range(batch) \/ Pending(s, d) \/ got[s][d] > 0 \/ <<s, d>> \in gaveUp
        BY <1>1, <2>1 DEF Accounted, Pending
      <3>1. d = e \/ d \in 1 .. emitted
        BY <1>1, <1>2
      <3> QED  BY <1>3, <3>1 DEF AuditInv, Accounted
    <2>7. NoDuplicates' /\ WritesApart' /\ LogInOrder' /\ MovedToEarlier'
      BY <1>1, <2>1 DEF AuditInv, NoDuplicates, WritesApart, LogInOrder, MovedToEarlier
    <2> QED  BY <2>1, <2>2, <2>3, <2>4, <2>5, <2>6, <2>7 DEF AuditInv
  <1> QED  BY <1>6, <1>7

\* A flush of the buffer by the timer or by stop.
LEMMA FlushBuffer ==
  ASSUME AuditInv, Flush(buffer), timers' \subseteq Intervals, UNCHANGED <<sinks, emitted, auditRows>>
  PROVE  AuditInv'
  <1>1. CASE buffer = <<>>
    <2>1. UNCHANGED <<buffer, writes, got, lines, gaveUp>>
      BY <1>1 DEF Flush
    <2>2. \A w \in writes : WriteFits(w)'
      BY <2>1 DEF AuditInv, WriteFits, Write
    <2>3. AuditTypes' /\ BufferFits'
      BY <2>1 DEF AuditInv, AuditTypes, BufferFits
    <2> QED  BY <2>1, <2>2, <2>3
             DEF AuditInv, WritesApart, FreshEvent, NoDuplicates, Accounted, Pending, LogInOrder, MovedToEarlier
  <1>2. CASE buffer # <<>>
    <2>1. /\ emitted \in Nat /\ emitted \in 0 .. MaxEvents /\ Run(buffer) /\ Len(buffer) <= BatchSize
          /\ Range(buffer) \subseteq Events
      BY RunIn, AuditAssumption DEF AuditInv, AuditTypes, BufferFits
    <2>2. \A e \in Range(buffer) : FreshEvent(e) /\ e <= emitted
      BY <2>1 DEF AuditInv, BufferFits
    <2>3. \A e \in Events : emitted < e => \A d \in Range(buffer) : d < e
      BY <2>1, <2>2 DEF Events
    <2>4. \A e \in Events : ~(emitted < e /\ e <= emitted)
      BY <2>1 DEF Events
    <2> QED  BY <1>2, <2>1, <2>2, <2>3, <2>4, FlushStep
  <1> QED  BY <1>1, <1>2

\* The storage sink: the rows of a batch are of the tenant of its first event.
LEMMA StoreStep == ASSUME AuditInv, NEW w \in writes, StoreBatch(w) PROVE AuditInv'
  <1>1. w.sink = "storage" /\ UNCHANGED <<sinks, emitted, buffer, timers, lines>>
    BY DEF StoreBatch
  <1>2. /\ WriteFits(w) /\ w.sink \in sinks /\ Run(w.batch) /\ w.batch # <<>> /\ Len(w.batch) <= BatchSize
        /\ Len(w.batch) \in Nat /\ BatchSize \in Nat
        /\ auditRows \subseteq Range(TenantOf) \X Events /\ MovedToEarlier
    BY RunIn, AuditAssumption DEF AuditInv, AuditTypes, WriteFits, Write
  <1>3. CASE Throw(w) /\ UNCHANGED <<auditRows, got>>
    <2>1. Receives(w.sink, {})
      BY <1>2, <1>3, NothingReceived
    <2>2. MovedToEarlier'
      BY <1>2, <1>3 DEF MovedToEarlier
    <2>3. GoesOn(w, {}, {})
      BY <1>3, <2>1, Thrown
    <2>4. auditRows' \subseteq Range(TenantOf) \X Events
      BY <1>2, <1>3
    <2> QED  BY <1>1, <2>2, <2>3, <2>4, WriteStep
  <1>4. CASE /\ auditRows' = auditRows \cup ({TenantOf[Head(w.batch)]} \X Range(w.batch))
             /\ Receives("storage", Range(w.batch))
             /\ writes' = writes \ {w} /\ UNCHANGED gaveUp
    <2> DEFINE first == w.batch[1]
    <2>1. /\ Head(w.batch) = first /\ first \in Range(w.batch) /\ Range(w.batch) \subseteq Events
          /\ \A e \in Range(w.batch) : \E i \in 1 .. Len(w.batch) : e = w.batch[i]
          /\ \A i, j \in 1 .. Len(w.batch) : w.batch[j] = w.batch[i] + (j - i)
          /\ Len(w.batch) > 0
      BY <1>2, RunIn
    <2>2. TenantOf[first] \in Range(TenantOf)
      BY <2>1, AuditAssumption DEF Range
    <2>3. auditRows' \subseteq Range(TenantOf) \X Events
      BY <1>2, <1>4, <2>1, <2>2
    <2>4. ASSUME NEW r \in auditRows', r \notin auditRows, r[1] # TenantOf[r[2]]
          PROVE  \E e \in 1 .. r[2] - 1 :
                    r[2] - e < BatchSize /\ TenantOf[e] = r[1] /\ <<r[1], e>> \in auditRows'
      <3>1. r[1] = TenantOf[first] /\ r[2] \in Range(w.batch) /\ first # r[2]
        BY <1>4, <2>1, <2>4
      <3>2. PICK i \in 1 .. Len(w.batch) : r[2] = w.batch[i]
        BY <2>1, <3>1
      <3>3. r[2] = first + (i - 1)
        BY <1>2, <2>1, <3>2
      <3>4. first \in 1 .. r[2] - 1 /\ r[2] - first < BatchSize
        <4>1. first \in Nat /\ first >= 1 /\ r[2] \in Nat
          BY <2>1, <3>1 DEF Events
        <4>2. i # 1
          BY <3>1, <3>2
        <4> HIDE DEF first
        <4> QED  BY <1>2, <3>2, <3>3, <4>1, <4>2
      <3>5. <<r[1], first>> \in auditRows'
        BY <1>4, <2>1, <3>1
      <3> QED  BY <3>1, <3>4, <3>5
    <2>5. MovedToEarlier'
      <3> SUFFICES ASSUME NEW r \in auditRows', r[1] # TenantOf[r[2]]
                   PROVE  \E e \in 1 .. r[2] - 1 :
                             r[2] - e < BatchSize /\ TenantOf[e] = r[1] /\ <<r[1], e>> \in auditRows'
        BY DEF MovedToEarlier
      <3>1. CASE r \in auditRows
        BY <1>2, <1>4, <3>1 DEF MovedToEarlier
      <3>2. CASE r \notin auditRows
        BY <2>4, <3>2
      <3> QED  BY <3>1, <3>2
    <2>6. GoesOn(w, Range(w.batch), {})
      BY <1>1, <1>4 DEF AuditInv, AuditTypes, GoesOn
    <2> QED  BY <1>1, <2>3, <2>5, <2>6, WriteStep
  <1> QED  BY <1>3, <1>4 DEF StoreBatch

\* The event bus sink: the head of the batch is sent, the rest is left to send.
LEMMA PublishStep == ASSUME AuditInv, NEW w \in writes, PublishNext(w) PROVE AuditInv'
  <1>1. w.sink = "bus" /\ UNCHANGED <<sinks, emitted, buffer, timers, auditRows, lines>>
    BY DEF PublishNext
  <1>2. /\ WriteFits(w) /\ w \in Write /\ w.sink \in sinks /\ Run(w.batch) /\ w.batch # <<>>
        /\ Len(w.batch) <= BatchSize /\ Len(w.batch) \in Nat /\ BatchSize \in Nat
        /\ auditRows' \subseteq Range(TenantOf) \X Events /\ gaveUp \subseteq sinks \X Events
    BY <1>1, RunIn, AuditAssumption DEF AuditInv, AuditTypes, WriteFits, Write
  <1>3. MovedToEarlier'
    BY <1>1 DEF AuditInv, MovedToEarlier
  <1>4. CASE Throw(w) /\ UNCHANGED got
    <2>1. Receives(w.sink, {})
      BY <1>2, <1>4, NothingReceived
    <2>2. GoesOn(w, {}, {})
      BY <1>4, <2>1, Thrown
    <2> QED  BY <1>1, <1>2, <1>3, <2>2, WriteStep
  <1>5. CASE /\ Receives("bus", {Head(w.batch)}) /\ UNCHANGED gaveUp
             /\ writes' = (writes \ {w}) \cup
                   (IF Len(w.batch) = 1 THEN {} ELSE {[w EXCEPT !.batch = Tail(@)]})
    <2> DEFINE rest == [w EXCEPT !.batch = Tail(@)]
               X == IF Len(w.batch) = 1 THEN {} ELSE {rest}
    <2>1. /\ Run(Tail(w.batch)) /\ Len(Tail(w.batch)) = Len(w.batch) - 1
          /\ Range(w.batch) = Range(Tail(w.batch)) \cup {Head(w.batch)}
          /\ Head(w.batch) \notin Range(Tail(w.batch))
          /\ Tail(w.batch) # <<>> <=> Len(w.batch) # 1
      BY <1>2, RunTail
    <2>2. rest \in Write /\ rest.sink = w.sink /\ rest.batch = Tail(w.batch)
      <3> DEFINE left == Tail(w.batch)
      <3>1. left \in Seq(Events) /\ rest = [w EXCEPT !.batch = left]
        BY <2>1 DEF Run
      <3> HIDE DEF left, rest
      <3>2. rest \in Write /\ rest.sink = w.sink /\ rest.batch = left
        BY <1>2, <3>1 DEF Write
      <3> QED  BY <3>2 DEF left
    <2>3. Len(w.batch) = 1 => Range(w.batch) = {Head(w.batch)}
      BY <2>1, EmptyRun
    <2> HIDE DEF rest
    <2>4. \A x \in X : /\ x \in Write /\ x.sink = w.sink /\ Run(x.batch) /\ x.batch # <<>>
                       /\ Len(x.batch) <= BatchSize /\ Range(x.batch) \subseteq Range(w.batch)
                       /\ \A e \in Range(x.batch) :
                             Sent(w) + (IF e \in {Head(w.batch)} THEN 1 ELSE 0) <= Sent(x)
      <3> SUFFICES ASSUME Len(w.batch) # 1
                   PROVE  /\ rest.batch # <<>> /\ Len(rest.batch) <= BatchSize
                          /\ \A e \in Range(rest.batch) :
                                Sent(w) + (IF e \in {Head(w.batch)} THEN 1 ELSE 0) <= Sent(rest)
        BY <2>1, <2>2
      <3>1. rest.batch # <<>> /\ Len(rest.batch) <= BatchSize
        BY <1>2, <2>1, <2>2
      <3>2. Sent(w) = 0 /\ Sent(rest) = 0
        BY <1>1, <2>2 DEF Sent
      <3> QED  BY <2>1, <2>2, <3>1, <3>2
    <2>5. \A x, y \in X : x = y
      OBVIOUS
    <2>6. \A e \in Range(w.batch) :
             e \in {Head(w.batch)} \/ (\E x \in X : e \in Range(x.batch)) \/ <<w.sink, e>> \in gaveUp'
      BY <2>1, <2>2, <2>3
    <2>7. writes' = (writes \ {w}) \cup X
      BY <1>5 DEF rest
    <2>8. Receives(w.sink, {Head(w.batch)}) /\ {Head(w.batch)} \subseteq Range(w.batch)
          /\ gaveUp' \subseteq sinks \X Events /\ gaveUp \subseteq gaveUp'
      BY <1>1, <1>2, <1>5, <2>1
    <2> HIDE DEF X
    <2>9. GoesOn(w, {Head(w.batch)}, X)
      BY <2>4, <2>5, <2>6, <2>7, <2>8 DEF GoesOn
    <2> QED  BY <1>1, <1>2, <1>3, <2>9, WriteStep
  <1> QED  BY <1>4, <1>5 DEF PublishNext

\* The webhook: an attempt that may have been received, and what follows it.
LEMMA PostStep == ASSUME AuditInv, NEW w \in writes, Post(w) PROVE AuditInv'
  <1>1. w.sink = "webhook" /\ UNCHANGED <<sinks, emitted, buffer, timers, auditRows, lines>>
    BY DEF Post
  <1>2. /\ WriteFits(w) /\ w \in Write /\ w.sink \in sinks /\ Run(w.batch) /\ w.batch # <<>>
        /\ Len(w.batch) <= BatchSize /\ w.tries \in 0 .. MaxSendRetries /\ MaxSendRetries \in Nat
        /\ auditRows' \subseteq Range(TenantOf) \X Events /\ gaveUp \subseteq sinks \X Events
    BY <1>1, AuditAssumption DEF AuditInv, AuditTypes, WriteFits, Write
  <1>3. MovedToEarlier'
    BY <1>1 DEF AuditInv, MovedToEarlier
  <1>4. ASSUME NEW S \in {{}, Range(w.batch)}, Receives(w.sink, S), Again(w) PROVE AuditInv'
    <2>1. CASE Throw(w)
      <3>1. GoesOn(w, S, {})
        BY <1>4, <2>1, Thrown
      <3> QED  BY <1>1, <1>2, <1>3, <3>1, WriteStep
    <2>2. CASE /\ w.tries < MaxSendRetries
               /\ writes' = (writes \ {w}) \cup {[w EXCEPT !.tries = @ + 1]} /\ UNCHANGED gaveUp
      <3> DEFINE x == [w EXCEPT !.tries = @ + 1]
      <3>1. x \in Write /\ x.sink = w.sink /\ x.batch = w.batch /\ x.tries = w.tries + 1
        BY <1>2, <2>2 DEF Write
      <3>2. \A e \in Range(w.batch) : Sent(w) + (IF e \in S THEN 1 ELSE 0) <= Sent(x)
        BY <1>1, <1>2, <3>1 DEF Sent
      <3>3. writes' = (writes \ {w}) \cup {x}
        BY <2>2
      <3> HIDE DEF x
      <3>4. /\ \A y \in {x} : /\ y \in Write /\ y.sink = w.sink /\ Run(y.batch) /\ y.batch # <<>>
                              /\ Len(y.batch) <= BatchSize /\ Range(y.batch) \subseteq Range(w.batch)
                              /\ \A e \in Range(y.batch) : Sent(w) + (IF e \in S THEN 1 ELSE 0) <= Sent(y)
            /\ \A e \in Range(w.batch) : \E y \in {x} : e \in Range(y.batch)
            /\ \A y, z \in {x} : y = z
        BY <1>2, <3>1, <3>2
      <3>5. gaveUp' \subseteq sinks \X Events /\ gaveUp \subseteq gaveUp' /\ S \subseteq Range(w.batch)
        BY <1>2, <1>4, <2>2
      <3>6. GoesOn(w, S, {x})
        BY <1>4, <3>3, <3>4, <3>5 DEF GoesOn
      <3> QED  BY <1>1, <1>2, <1>3, <3>6, WriteStep
    <2> QED  BY <1>4, <2>1, <2>2 DEF Again
  <1>5. CASE Receives("webhook", Range(w.batch)) /\ writes' = writes \ {w} /\ UNCHANGED gaveUp
    <2>1. writes' = (writes \ {w}) \cup {} /\ Receives(w.sink, Range(w.batch))
          /\ gaveUp' \subseteq sinks \X Events
      BY <1>1, <1>2, <1>5
    <2>2. GoesOn(w, Range(w.batch), {})
      BY <1>5, <2>1 DEF GoesOn
    <2> QED  BY <1>1, <1>2, <1>3, <2>2, WriteStep
  <1>6. CASE Receives("webhook", Range(w.batch)) /\ Again(w)
    BY <1>1, <1>4, <1>6
  <1>7. CASE UNCHANGED got /\ Again(w)
    <2>1. Receives(w.sink, {})
      BY <1>2, <1>7, NothingReceived
    <2> QED  BY <1>4, <1>7, <2>1
  <1> QED  BY <1>5, <1>6, <1>7 DEF Post

\* A crash gives up what is buffered or being written.
LEMMA CrashStep == ASSUME AuditInv, CrashAudit PROVE AuditInv'
  <1>1. /\ writes' = {} /\ buffer' = <<>> /\ timers' = {}
        /\ gaveUp' = gaveUp \cup (UNION {{w.sink} \X Range(w.batch) : w \in writes})
                            \cup (sinks \X Range(buffer))
        /\ UNCHANGED <<sinks, emitted, got, auditRows, lines>>
    BY DEF CrashAudit
  <1>2. Range(buffer) \subseteq Events /\ \A w \in writes : w.sink \in sinks /\ Range(w.batch) \subseteq Events
    BY RunIn DEF AuditInv, BufferFits, WriteFits, Write
  <1>3. gaveUp' \subseteq sinks \X Events
    <2> SUFFICES ASSUME NEW g \in gaveUp' PROVE g \in sinks \X Events
      OBVIOUS
    <2>1. CASE g \in gaveUp
      BY <2>1 DEF AuditInv, AuditTypes
    <2>2. CASE g \in sinks \X Range(buffer)
      BY <1>2, <2>2
    <2>3. CASE g \in UNION {{w.sink} \X Range(w.batch) : w \in writes}
      <3>1. PICK w \in writes : g \in {w.sink} \X Range(w.batch)
        BY <2>3
      <3> QED  BY <1>2, <3>1
    <2> QED  BY <1>1, <2>1, <2>2, <2>3
  <1>4. AuditTypes'
    BY <1>1, <1>3 DEF AuditInv, AuditTypes
  <1>5. BufferFits'
    BY <1>1, EmptyRun, AuditAssumption DEF BufferFits, Run
  <1>6. \A e \in Events : e \in Range(buffer') \/ e > emitted' => FreshEvent(e)'
    BY <1>1, EmptyRun DEF AuditInv, FreshEvent
  <1>7. Accounted'
    <2> SUFFICES ASSUME NEW e \in 1 .. emitted, NEW s \in sinks, ~(got[s][e] > 0)
                 PROVE  <<s, e>> \in gaveUp'
      BY <1>1 DEF Accounted
    <2>1. CASE e \in Range(buffer)
      <3>1. <<s, e>> \in sinks \X Range(buffer)
        BY <2>1
      <3> QED  BY <1>1, <3>1
    <2>2. CASE Pending(s, e)
      <3>1. PICK w \in writes : w.sink = s /\ e \in Range(w.batch)
        BY <2>2 DEF Pending
      <3>2. <<s, e>> \in {w.sink} \X Range(w.batch)
        BY <3>1
      <3> QED  BY <1>1, <3>2
    <2> QED  BY <1>1, <2>1, <2>2 DEF AuditInv, Accounted
  <1>8. WritesApart' /\ NoDuplicates' /\ LogInOrder' /\ MovedToEarlier'
    BY <1>1 DEF AuditInv, WritesApart, NoDuplicates, LogInOrder, MovedToEarlier
  <1> QED  BY <1>1, <1>4, <1>5, <1>6, <1>7, <1>8 DEF AuditInv

LEMMA AuditStepInv == AuditInv /\ [AuditNext]_auditvars => AuditInv'
  <1> SUFFICES ASSUME AuditInv, [AuditNext]_auditvars PROVE AuditInv'
    OBVIOUS
  <1>1. ASSUME UNCHANGED <<sinks, emitted, buffer, writes, got, auditRows, lines, gaveUp>>, timers' \subseteq Intervals
        PROVE  AuditInv'
    <2>1. \A w \in writes : WriteFits(w)'
      BY <1>1 DEF AuditInv, WriteFits, Write
    <2>2. AuditTypes' /\ BufferFits'
      BY <1>1 DEF AuditInv, AuditTypes, BufferFits
    <2> QED  BY <1>1, <2>1, <2>2
             DEF AuditInv, WritesApart, FreshEvent, NoDuplicates, Accounted, Pending, LogInOrder, MovedToEarlier
  <1>2. timers \subseteq Intervals
    BY DEF AuditInv, AuditTypes
  <1>3. CASE StartTimer
    BY <1>1, <1>3 DEF StartTimer, Intervals
  <1>4. CASE TimerFlush
    BY <1>2, <1>4, FlushBuffer DEF TimerFlush
  <1>5. CASE StopPipeline
    BY <1>2, <1>5, FlushBuffer DEF StopPipeline
  <1>6. CASE UNCHANGED auditvars
    BY <1>1, <1>2, <1>6 DEF auditvars
  <1> QED  BY <1>3, <1>4, <1>5, <1>6, EmitStep, CrashStep, StoreStep, PublishStep, PostStep DEF AuditNext

THEOREM AuditInvariance == AuditSpec => []AuditInv
  BY AuditInitInv, AuditStepInv, PTL DEF AuditSpec

\* Every event is in the buffer, on its way or there, unless a write threw or the
\* process crashed; no receiver gets it twice but by the attempts of a webhook; the
\* log is in order; and it moves only to a tenant whose event is stored with it: for
\* any sinks, batch size, tenants and number of attempts.
THEOREM EventsKeptHolds == AuditSpec => []EventsKept
  <1>1. AuditInv => EventsKept
    BY DEF AuditInv, EventsKept
  <1> QED  BY <1>1, AuditInvariance, PTL

----------------------------------------------------------------------------
(* The event buses.                                                         *)

Ascending(q) == \A i, j \in 1 .. Len(q) : i < j => q[i] < q[j]

Distinct(q) == \A i, j \in 1 .. Len(q) : q[i] = q[j] => i = j

LEMMA EmptySeqFacts ==
  /\ \A T : <<>> \in Seq(T)
  /\ Len(<<>>) = 0 /\ Range(<<>>) = {} /\ Ascending(<<>>) /\ Distinct(<<>>)
  BY DEF Range, Ascending, Distinct

LEMMA AppendFacts ==
  ASSUME NEW T, NEW q \in Seq(T), NEW x \in T
  PROVE  /\ Append(q, x) \in Seq(T) /\ Append(q, x) # <<>> /\ Len(Append(q, x)) = Len(q) + 1
         /\ Append(q, x)[Len(q) + 1] = x /\ \A i \in 1 .. Len(q) : Append(q, x)[i] = q[i]
         /\ Range(Append(q, x)) = Range(q) \cup {x} /\ Range(q) \subseteq T
         /\ Ascending(q) /\ (\A y \in Range(q) : y < x) => Ascending(Append(q, x))
         /\ Distinct(q) /\ x \notin Range(q) => Distinct(Append(q, x))
  <1> DEFINE a == Append(q, x)
  <1>1. /\ a \in Seq(T) /\ a # <<>> /\ Len(q) \in Nat /\ Len(a) = Len(q) + 1
        /\ DOMAIN q = 1 .. Len(q) /\ DOMAIN a = 1 .. Len(q) + 1
        /\ \A i \in 1 .. Len(q) : a[i] = q[i] /\ q[i] \in T
        /\ a[Len(q) + 1] = x
    OBVIOUS
  <1> HIDE DEF a
  <1>2. Range(q) = {q[i] : i \in 1 .. Len(q)} /\ Range(a) = {a[i] : i \in 1 .. Len(q) + 1}
    BY <1>1 DEF Range
  <1>3. Range(a) = Range(q) \cup {x} /\ Range(q) \subseteq T
    BY <1>1, <1>2
  <1>4. ASSUME Ascending(q), \A y \in Range(q) : y < x PROVE Ascending(a)
    <2> SUFFICES ASSUME NEW i \in 1 .. Len(a), NEW j \in 1 .. Len(a), i < j PROVE a[i] < a[j]
      BY DEF Ascending
    <2>1. i \in 1 .. Len(q) /\ (j \in 1 .. Len(q) \/ j = Len(q) + 1)
      BY <1>1
    <2>2. a[i] = q[i] /\ q[i] \in Range(q)
      BY <1>1, <1>2, <2>1
    <2> QED  BY <1>1, <1>4, <2>1, <2>2 DEF Ascending
  <1>5. ASSUME Distinct(q), x \notin Range(q) PROVE Distinct(a)
    <2> SUFFICES ASSUME NEW i \in 1 .. Len(a), NEW j \in 1 .. Len(a), a[i] = a[j] PROVE i = j
      BY DEF Distinct
    <2>1. \A k \in 1 .. Len(a) : k = Len(q) + 1 \/ (k \in 1 .. Len(q) /\ a[k] = q[k] /\ a[k] # x)
      BY <1>1, <1>2, <1>5
    <2> QED  BY <1>1, <1>5, <2>1 DEF Distinct
  <1> QED  BY <1>1, <1>3, <1>4, <1>5 DEF a

\* What a sequence holds, its first element among it.
LEMMA ElementFacts ==
  ASSUME NEW T, NEW q \in Seq(T)
  PROVE  /\ Len(q) \in Nat /\ Range(q) \subseteq T
         /\ \A i \in 1 .. Len(q) : q[i] \in T /\ q[i] \in Range(q)
         /\ q # <<>> => Len(q) # 0 /\ 1 \in 1 .. Len(q) /\ q[1] \in Range(q)
  BY RangeEquality, EmptySeq, LenProperties, ElementOfSeq

LEMMA TailFacts ==
  ASSUME NEW T, NEW q \in Seq(T), q # <<>>
  PROVE  /\ Tail(q) \in Seq(T) /\ Head(q) \in T /\ Range(q) \subseteq T
         /\ Range(q) = Range(Tail(q)) \cup {Head(q)}
         /\ Len(q) = 1 => Range(Tail(q)) = {}
         /\ Len(q) # 1 => Tail(q) # <<>>
         /\ Ascending(q) => Ascending(Tail(q)) /\ \A x \in Range(Tail(q)) : Head(q) < x
         /\ Distinct(q) => Distinct(Tail(q)) /\ Head(q) \notin Range(Tail(q))
  <1> DEFINE t == Tail(q)
             n == Len(q) - 1
  <1>1. /\ t \in Seq(T) /\ Len(q) \in Nat /\ Len(q) > 0 /\ n \in Nat /\ Len(q) = n + 1 /\ Len(t) = n
        /\ DOMAIN q = 1 .. n + 1 /\ DOMAIN t = 1 .. n /\ Head(q) = q[1]
        /\ \A i \in 1 .. n : t[i] = q[i + 1]
        /\ \A i \in 1 .. n + 1 : q[i] \in T
    OBVIOUS
  <1>2. n # 0 => t # <<>>
    BY <1>1
  <1> HIDE DEF t, n
  <1>3. Range(q) = {q[i] : i \in 1 .. n + 1} /\ Range(t) = {t[i] : i \in 1 .. n}
    BY <1>1 DEF Range
  <1>4. \A i \in 1 .. n + 1 : i = 1 \/ (i - 1 \in 1 .. n /\ i = (i - 1) + 1)
    BY <1>1
  <1>5. 1 \in 1 .. n + 1 /\ \A i \in 1 .. n : i + 1 \in 1 .. n + 1 /\ 1 < i + 1
    BY <1>1
  <1>6. Range(q) = Range(t) \cup {Head(q)}
    <2>1. ASSUME NEW x \in Range(q) PROVE x \in Range(t) \cup {Head(q)}
      <3>1. PICK i \in 1 .. n + 1 : x = q[i]
        BY <1>3
      <3>2. CASE i = 1
        BY <1>1, <3>1, <3>2
      <3>3. CASE i # 1
        <4>1. i - 1 \in 1 .. n /\ t[i - 1] = q[i]
          BY <1>1, <1>4, <3>3
        <4> QED  BY <1>3, <3>1, <4>1
      <3> QED  BY <3>2, <3>3
    <2>2. ASSUME NEW x \in Range(t) PROVE x \in Range(q)
      BY <1>1, <1>3, <1>5
    <2>3. Head(q) \in Range(q)
      BY <1>1, <1>3, <1>5
    <2> QED  BY <2>1, <2>2, <2>3
  <1>7. ASSUME Ascending(q) PROVE Ascending(t) /\ \A x \in Range(t) : Head(q) < x
    <2>1. \A i \in 1 .. n : q[1] < q[i + 1]
      BY <1>1, <1>5, <1>7 DEF Ascending
    <2>2. \A x \in Range(t) : Head(q) < x
      BY <1>1, <1>3, <2>1
    <2>3. \A i, j \in 1 .. n : i < j => q[i + 1] < q[j + 1]
      BY <1>1, <1>5, <1>7 DEF Ascending
    <2> QED  BY <1>1, <2>2, <2>3 DEF Ascending
  <1>8. ASSUME Distinct(q) PROVE Distinct(t) /\ Head(q) \notin Range(t)
    <2>1. \A i \in 1 .. n : q[1] # q[i + 1]
      BY <1>1, <1>5, <1>8 DEF Distinct
    <2>2. Head(q) \notin Range(t)
      BY <1>1, <1>3, <2>1
    <2>3. \A i, j \in 1 .. n : q[i + 1] = q[j + 1] => i = j
      BY <1>1, <1>5, <1>8 DEF Distinct
    <2> QED  BY <1>1, <2>2, <2>3 DEF Distinct
  <1>9. Len(q) = 1 => Range(t) = {}
    BY <1>1, <1>3
  <1>10. Head(q) \in T /\ Range(q) \subseteq T
    BY <1>1, <1>3, <1>5
  <1> QED  BY <1>1, <1>2, <1>6, <1>7, <1>8, <1>9, <1>10 DEF t, n


\* A family of subsets of a finite set has a smallest one: the induction on finite
\* sets, as the existence of a least counterexample.
LEMMA LeastSubset ==
  ASSUME NEW S, IsFiniteSet(S), NEW F, \A X \in F : X \subseteq S, F # {}
  PROVE  \E X \in F : \A Y \in F : Y \subseteq X => Y = X
  <1>1. FiniteSubsetsOf(S) = SUBSET S
    BY FS_FiniteSubsetsOfFinite
  <1>2. IsWellFoundedOn(StrictSubsetOrdering(S), SUBSET S)
    BY <1>1, FS_StrictSubsetOrderingWellFounded
  <1>3. \E X \in F : \A Y \in F : <<Y, X>> \notin StrictSubsetOrdering(S)
    <2> HIDE DEF StrictSubsetOrdering, IsWellFoundedOn
    <2> QED  BY <1>2, WFMin
  <1> QED  BY <1>3 DEF StrictSubsetOrdering

Lists(q, S) == q \in [1 .. Cardinality(S) -> S] /\ \A i, j \in DOMAIN q : i < j => q[i] < q[j]

\* What lists a set without its largest element, and then that one, lists the set.
LEMMA ListsMore ==
  ASSUME NEW S, IsFiniteSet(S), S \subseteq Nat, NEW m \in S, \A x \in S : x <= m,
         NEW q, Lists(q, S \ {m})
  PROVE  \E r : Lists(r, S)
  <1> DEFINE n == Cardinality(S \ {m})
             r == [i \in 1 .. n + 1 |-> IF i = n + 1 THEN m ELSE q[i]]
  <1>1. IsFiniteSet(S \ {m}) /\ n \in Nat /\ Cardinality(S) \in Nat /\ n = Cardinality(S) - 1
    BY FS_RemoveElement, FS_CardinalityType
  <1>2. /\ q \in [1 .. n -> S \ {m}]
        /\ \A i, j \in 1 .. n : i < j => q[i] < q[j]
    BY DEF Lists
  <1> HIDE DEF n
  <1>3. \A i \in 1 .. n + 1 : i = n + 1 \/ i \in 1 .. n
    BY <1>1
  <1>4. \A i \in 1 .. n : q[i] \in S /\ q[i] < m /\ i # n + 1 /\ i \in 1 .. n + 1
    <2> SUFFICES ASSUME NEW i \in 1 .. n PROVE q[i] \in S /\ q[i] < m /\ i # n + 1 /\ i \in 1 .. n + 1
      OBVIOUS
    <2>1. q[i] \in S /\ q[i] # m
      BY <1>2
    <2>2. q[i] \in Nat /\ m \in Nat /\ q[i] <= m
      BY <2>1
    <2> QED  BY <1>1, <2>1, <2>2
  <1>5. r \in [1 .. n + 1 -> S]
    BY <1>3, <1>4
  <1>6. \A i \in 1 .. n : r[i] = q[i]
    BY <1>4
  <1>7. r[n + 1] = m
    BY <1>1
  <1> HIDE DEF r
  <1>8. ASSUME NEW i \in 1 .. n + 1, NEW j \in 1 .. n + 1, i < j PROVE r[i] < r[j]
    <2>1. i \in 1 .. n
      BY <1>1, <1>8
    <2>2. CASE j \in 1 .. n
      BY <1>2, <1>6, <1>8, <2>1, <2>2
    <2>3. CASE j = n + 1
      BY <1>4, <1>6, <1>7, <2>1, <2>3
    <2> QED  BY <1>3, <2>2, <2>3
  <1>9. Cardinality(S) = n + 1
    BY <1>1
  <1> QED  BY <1>5, <1>8, <1>9 DEF Lists

LEMMA LargestOf ==
  ASSUME NEW S, S \subseteq Nat, IsFiniteSet(S), S # {}
  PROVE  \E m \in S : \A x \in S : x <= m
  <1> DEFINE Bounded(X) == \E m \in X : \A x \in X : x <= m
             F == {X \in SUBSET S : X # {} /\ ~Bounded(X)}
  <1>1. CASE F = {}
    BY <1>1
  <1>2. CASE F # {}
    <2>1. PICK X \in F : \A Y \in F : Y \subseteq X => Y = X
      <3>1. \A X \in F : X \subseteq S
        OBVIOUS
      <3> HIDE DEF F
      <3> QED  BY <1>2, <3>1, LeastSubset
    <2>2. PICK x \in X : TRUE
      BY <2>1
    <2>3. X \subseteq Nat /\ ~Bounded(X)
      BY <2>1
    <2>4. CASE X \ {x} = {}
      BY <2>2, <2>3, <2>4
    <2>5. CASE X \ {x} # {}
      <3>1. X \ {x} \notin F
        BY <2>1, <2>2
      <3>2. PICK m \in X \ {x} : \A y \in X \ {x} : y <= m
        BY <2>1, <2>5, <3>1
      <3>3. CASE x <= m
        BY <2>3, <3>2, <3>3
      <3>4. CASE ~(x <= m)
        <4>1. \A y \in X : y <= x
          BY <2>2, <2>3, <3>2, <3>4
        <4> QED  BY <2>2, <2>3, <4>1
      <3> QED  BY <3>3, <3>4
    <2> QED  BY <2>4, <2>5
  <1> QED  BY <1>1, <1>2

\* InOrder lists every subscription of a set once.
LEMMA InOrderLists ==
  ASSUME NEW S, IsFiniteSet(S), S \subseteq Nat
  PROVE  InOrder(S) \in Seq(S) /\ Range(InOrder(S)) = S /\ Distinct(InOrder(S))
  <1> DEFINE F == {X \in SUBSET S : ~ \E q : Lists(q, X)}
  <1>1. \E q : Lists(q, S)
    <2> SUFFICES ASSUME F # {} PROVE FALSE
      OBVIOUS
    <2>1. PICK X \in F : \A Y \in F : Y \subseteq X => Y = X
      <3>1. \A X \in F : X \subseteq S
        OBVIOUS
      <3> HIDE DEF F
      <3> QED  BY <3>1, LeastSubset
    <2>2. X \subseteq Nat /\ IsFiniteSet(X) /\ ~ \E q : Lists(q, X)
      BY <2>1, FS_Subset
    <2>3. CASE X = {}
      <3>1. Cardinality(X) = 0 /\ 1 .. 0 = {}
        BY <2>3, FS_EmptySet
      <3>2. Lists([i \in {} |-> 0], X)
        BY <3>1 DEF Lists
      <3> QED  BY <2>2, <3>2
    <2>4. CASE X # {}
      <3>1. PICK m \in X : \A x \in X : x <= m
        BY <2>2, <2>4, LargestOf
      <3>2. X \ {m} \in SUBSET S /\ X \ {m} \subseteq X /\ X \ {m} # X
        BY <2>1, <3>1
      <3>3. X \ {m} \notin F
        BY <2>1, <3>2
      <3>4. PICK q : Lists(q, X \ {m})
        BY <3>2, <3>3
      <3> QED  BY <2>2, <3>1, <3>4, ListsMore
    <2> QED  BY <2>3, <2>4
  <1> DEFINE q == InOrder(S)
             n == Cardinality(S)
  <1>2. q \in [1 .. n -> S] /\ \A i, j \in DOMAIN q : i < j => q[i] < q[j]
    BY <1>1 DEF Lists, InOrder
  <1>3. n \in Nat
    BY FS_CardinalityType
  <1> HIDE DEF q, n
  <1>4. q \in Seq(S) /\ Len(q) = n /\ DOMAIN q = 1 .. n
    <2>1. q \in Seq(S)
      BY <1>2, <1>3, SeqDef
    <2>2. DOMAIN q = 1 .. n /\ Len(q) = n
      BY <1>2, <1>3, <2>1, LenProperties
    <2> QED  BY <2>1, <2>2
  <1>5. \A i, j \in 1 .. n : q[i] = q[j] => i = j
    <2> SUFFICES ASSUME NEW i \in 1 .. n, NEW j \in 1 .. n, i # j PROVE q[i] # q[j]
      OBVIOUS
    <2>1. i < j \/ j < i
      BY <1>3
    <2>2. q[i] \in S /\ q[j] \in S
      BY <1>2
    <2>3. q[i] < q[j] \/ q[j] < q[i]
      BY <1>2, <2>1
    <2>4. \A a, b \in Nat : a < b => a # b
      OBVIOUS
    <2>5. q[i] \in Nat /\ q[j] \in Nat
      BY <2>2
    <2> QED  BY <2>3, <2>4, <2>5
  <1>6. q \in Injection(1 .. n, S) /\ IsFiniteSet(1 .. n) /\ Cardinality(1 .. n) = n
    <2>1. IsFiniteSet(1 .. n) /\ Cardinality(1 .. n) = n
      BY <1>3, FS_Interval
    <2> QED  BY <1>2, <1>5, <2>1 DEF Injection, IsInjective
  <1>7. q \in Surjection(1 .. n, S)
    BY <1>6, FS_Injection DEF n
  <1>8. Range(q) = S
    BY <1>2, <1>4, <1>7 DEF Surjection, Range
  <1>9. Distinct(q)
    BY <1>4, <1>5 DEF Distinct
  <1> QED  BY <1>4, <1>8, <1>9 DEF q

Subscription ==
    [kind : {"none", "subscribe", "once"}, on : BOOLEAN, promise : {"none", "open", "resolved", "rejected"}]

Frame == [on : BOOLEAN, by : 0 .. MaxSubscribers, to : Seq(Subscribers)]

BusTypes ==
    /\ bus \in {"memory", "redis"} /\ subscription \in [Subscribers -> Subscription]
    /\ \A s \in Subscribers :
          /\ subscription[s].on => subscription[s].kind # "none"
          /\ subscription[s].promise # "none" <=> subscription[s].kind = "once"
    /\ published \in 0 .. MaxPublished /\ missed \subseteq 1 .. published
    /\ channel \in Seq(Published) /\ (bus = "memory" => channel = <<>>)
    /\ connection \in {"up", "lost", "closed"} /\ drops \in 0 .. MaxDrops
    /\ dispatch \in [Published -> Frame] /\ \A e \in Handing : e <= published
    /\ within \in [Published -> SUBSET Published]
    /\ heard \in [Subscribers -> Seq(Published)] /\ since \in [Subscribers -> 0 .. published]

\* An event is still handed out only to those who have not heard it, once each; in
\* the process to that of once only if its timer has not fired, and a second time
\* only in a dispatch within which the first was published.
HandsFit ==
    /\ \A e \in Handing :
          /\ Distinct(dispatch[e].to)
          /\ \A s \in Range(dispatch[e].to) :
                /\ subscription[s].kind # "none" /\ e \notin Range(heard[s])
                /\ bus = "memory" /\ subscription[s].kind = "once" =>
                      /\ subscription[s].promise # "rejected"
                      /\ heard[s] # <<>> => e \in within[heard[s][1]]
    /\ \A s \in Subscribers : subscription[s].kind = "none" => heard[s] = <<>>

\* In the process what is published comes within all that is being handed out.  On
\* Redis one event is handed out at a time, those on their way come after it, and
\* both after what a handler has heard.
EventsFit ==
    /\ \A s \in Subscribers : \A h \in Range(heard[s]) : h <= published
    /\ bus = "memory" => \A e \in Handing : \A g \in e + 1 .. published : e \in within[g]
    /\ Ascending(channel)
    /\ \A c \in Range(channel) :
          /\ c <= published
          /\ \A e \in Handing : e < c
          /\ \A s \in Subscribers : \A h \in Range(heard[s]) : h < c
    /\ bus = "redis" => \A e \in Handing :
          /\ \A f \in Handing : f = e
          /\ \A s \in Subscribers : \A h \in Range(heard[s]) : h <= e

BusInv == BusTypes /\ HandsFit /\ EventsFit /\ HeardInOrder /\ OnceSettlesOnce /\ ReachesWhileOn

LEMMA BusInitInv == BusInit => BusInv
  <1> SUFFICES ASSUME BusInit PROVE BusInv
    OBVIOUS
  <1>1. MaxPublished \in Nat /\ MaxDrops \in Nat /\ MaxSubscribers \in Nat
    BY BusAssumption
  <1>2. Handing = {}
    BY DEF BusInit, Handing, Idle
  <1>3. BusTypes
    <2>1. FALSE \in BOOLEAN
      BY Zenon
    <2>2. subscription \in [Subscribers -> Subscription] /\ dispatch \in [Published -> Frame]
      BY <1>1, <2>1, EmptySeqFacts DEF BusInit, Subscription, Frame, Idle
    <2> QED  BY <1>1, <1>2, <2>2, EmptySeqFacts DEF BusInit, BusTypes
  <1> QED  BY <1>1, <1>2, <1>3, EmptySeqFacts
           DEF BusInit, BusInv, HandsFit, EventsFit, HeardInOrder, OnceSettlesOnce, ReachesWhileOn

\* What has been heard, and to whom an event still goes.
LEMMA BusRanges ==
  ASSUME BusTypes
  PROVE  /\ published \in Nat /\ MaxPublished \in Nat /\ published <= MaxPublished
         /\ \A e \in Published : e \in Nat
         /\ Handing \subseteq Published
         /\ channel \in Seq(Published) /\ Range(channel) \subseteq Published
         /\ \A s \in Subscribers :
               /\ heard[s] \in Seq(Published) /\ Len(heard[s]) \in Nat /\ Range(heard[s]) \subseteq Published
               /\ \A i \in 1 .. Len(heard[s]) : heard[s][i] \in Published /\ heard[s][i] \in Range(heard[s])
               /\ heard[s] # <<>> => Len(heard[s]) # 0 /\ 1 \in 1 .. Len(heard[s]) /\ heard[s][1] \in Range(heard[s])
         /\ \A e \in Published : dispatch[e] \in Frame /\ Range(dispatch[e].to) \subseteq Subscribers
  <1>1. published \in Nat /\ MaxPublished \in Nat /\ published <= MaxPublished /\ \A e \in Published : e \in Nat
    BY BusAssumption DEF BusTypes, Published
  <1>2. Handing \subseteq Published
    BY DEF Handing
  <1>3. channel \in Seq(Published) /\ Range(channel) \subseteq Published
    BY ElementFacts DEF BusTypes
  <1>4. ASSUME NEW s \in Subscribers
        PROVE  /\ heard[s] \in Seq(Published) /\ Len(heard[s]) \in Nat /\ Range(heard[s]) \subseteq Published
               /\ \A i \in 1 .. Len(heard[s]) : heard[s][i] \in Published /\ heard[s][i] \in Range(heard[s])
               /\ heard[s] # <<>> => Len(heard[s]) # 0 /\ 1 \in 1 .. Len(heard[s]) /\ heard[s][1] \in Range(heard[s])
    <2>1. heard[s] \in Seq(Published)
      BY DEF BusTypes
    <2> QED  BY <2>1, ElementFacts
  <1>5. ASSUME NEW e \in Published PROVE dispatch[e] \in Frame /\ Range(dispatch[e].to) \subseteq Subscribers
    <2>1. dispatch[e] \in Frame
      BY DEF BusTypes
    <2>2. dispatch[e].to \in Seq(Subscribers)
      BY <2>1 DEF Frame
    <2> QED  BY <2>1, <2>2, ElementFacts
  <1> QED  BY <1>1, <1>2, <1>3, <1>4, <1>5

\* A step that hands out nothing: it may end subscriptions, and, with nothing in
\* hand, reject a promise; and it may lose what is on its way.
LEMMA QuietStep ==
  ASSUME BusInv, subscription' \in [Subscribers -> Subscription],
         \A s \in Subscribers :
             /\ subscription'[s].kind = subscription[s].kind
             /\ subscription'[s].on => subscription[s].on
             /\ \/ subscription'[s].promise = subscription[s].promise
                \/ /\ subscription[s].promise = "open" /\ subscription'[s].promise = "rejected"
                   /\ ~subscription'[s].on /\ Handing = {},
         \/ channel' = channel /\ missed' = missed
         \/ channel' = <<>> /\ missed' = missed \cup Range(channel),
         connection' \in {"up", "lost", "closed"}, drops' \in 0 .. MaxDrops,
         UNCHANGED <<bus, published, dispatch, heard, within, since>>
  PROVE  BusInv'
  <1>1. Handing' = Handing
    BY DEF Handing
  <1>2. /\ channel' \in Seq(Published) /\ Range(channel') \subseteq Range(channel) /\ Ascending(channel')
        /\ bus = "memory" => channel' = <<>>
        /\ Range(channel) \subseteq Range(channel') \cup missed' /\ missed \subseteq missed'
        /\ missed' \subseteq 1 .. published
    <2>1. Range(channel) \subseteq 1 .. published
      <3>1. \A c \in Range(channel) : c \in Published /\ c <= published
        BY BusRanges DEF BusInv, EventsFit
      <3> QED  BY <3>1, BusRanges DEF BusInv, Published
    <2> QED  BY <2>1, EmptySeqFacts DEF BusInv, BusTypes, EventsFit
  <1>3. BusTypes'
    <2>1. \A s \in Subscribers :
             /\ subscription'[s].on => subscription'[s].kind # "none"
             /\ subscription'[s].promise # "none" <=> subscription'[s].kind = "once"
      BY DEF BusInv, BusTypes
    <2> QED  BY <1>1, <1>2, <2>1 DEF BusInv, BusTypes
  <1>4. HandsFit'
    <2>1. \A e \in Handing : e \in Published /\ Range(dispatch[e].to) \subseteq Subscribers
      BY BusRanges DEF BusInv
    <2>2. ASSUME NEW e \in Handing, NEW s \in Range(dispatch[e].to)
          PROVE  s \in Subscribers /\ subscription'[s].promise = subscription[s].promise
      BY <2>1, <2>2
    <2> QED  BY <1>1, <2>2 DEF BusInv, HandsFit
  <1>5. EventsFit'
    BY <1>1, <1>2 DEF BusInv, EventsFit
  <1>6. HeardInOrder'
    BY DEF BusInv, HeardInOrder
  <1>7. OnceSettlesOnce'
    BY DEF BusInv, OnceSettlesOnce
  <1>8. ReachesWhileOn'
    BY <1>1, <1>2 DEF BusInv, ReachesWhileOn
  <1> QED  BY <1>3, <1>4, <1>5, <1>6, <1>7, <1>8 DEF BusInv

LEMMA SubscribeStep ==
  ASSUME BusInv, NEW s \in Subscribers, NEW kind \in {"subscribe", "once"}, SubscribeTo(s, kind)
  PROVE  BusInv'
  <1> DEFINE promised == IF kind = "once" THEN "open" ELSE "none"
             sub == [kind |-> kind, on |-> TRUE, promise |-> promised]
  <1>1. /\ subscription' = [subscription EXCEPT ![s] = sub] /\ since' = [since EXCEPT ![s] = published]
        /\ dispatch' = [e \in Published |-> IF bus = "redis" /\ dispatch[e].on
                                             THEN [dispatch[e] EXCEPT !.to = Append(@, s)] ELSE dispatch[e]]
        /\ subscription[s].kind = "none"
        /\ UNCHANGED <<bus, published, channel, connection, drops, heard, within, missed>>
    <2>1. ~(s < s)
      BY BusAssumption DEF Subscribers
    <2> QED  BY <2>1 DEF SubscribeTo
  <1>2. sub \in Subscription /\ sub.on /\ sub.kind = kind /\ sub.promise = promised
    <2>1. TRUE \in BOOLEAN
      BY Zenon
    <2> QED  BY <2>1 DEF Subscription
  <1>3. promised # "resolved" /\ (promised # "none" <=> kind = "once") /\ (kind = "once" => promised = "open")
    OBVIOUS
  <1> HIDE DEF sub, promised
  <1>4. /\ subscription' \in [Subscribers -> Subscription] /\ subscription'[s] = sub
        /\ \A t \in Subscribers : t # s => subscription'[t] = subscription[t]
    BY <1>1, <1>2 DEF BusInv, BusTypes
  <1>5. /\ since' \in [Subscribers -> 0 .. published] /\ since'[s] = published
        /\ \A t \in Subscribers : t # s => since'[t] = since[t]
    BY <1>1, BusRanges DEF BusInv, BusTypes
  <1>6. heard[s] = <<>> /\ Range(heard[s]) = {} /\ Len(heard[s]) = 0
    BY <1>1, EmptySeqFacts DEF BusInv, HandsFit
  <1>7. ASSUME NEW e \in Published
        PROVE  /\ dispatch'[e] \in Frame /\ dispatch'[e].on = dispatch[e].on
               /\ Range(dispatch[e].to) \subseteq Range(dispatch'[e].to)
               /\ Range(dispatch'[e].to) \subseteq Range(dispatch[e].to) \cup {s}
               /\ e \in Handing => Distinct(dispatch'[e].to)
               /\ bus = "memory" => dispatch'[e] = dispatch[e]
    <2> DEFINE f == dispatch[e]
    <2>1. f \in Frame /\ f.to \in Seq(Subscribers)
      BY DEF BusInv, BusTypes, Frame
    <2>2. CASE bus = "redis" /\ f.on
      <3>1. dispatch'[e] = [f EXCEPT !.to = Append(f.to, s)]
        BY <1>1, <2>2
      <3>2. e \in Handing
        BY <2>2 DEF Handing
      <3> HIDE DEF f
      <3>3. /\ Append(f.to, s) \in Seq(Subscribers)
            /\ Range(Append(f.to, s)) = Range(f.to) \cup {s}
            /\ Distinct(f.to) /\ s \notin Range(f.to) => Distinct(Append(f.to, s))
        BY <2>1, AppendFacts
      <3>4. [f EXCEPT !.to = Append(f.to, s)] \in Frame
        BY <2>1, <3>3 DEF Frame
      <3>5. [f EXCEPT !.to = Append(f.to, s)].on = f.on /\ [f EXCEPT !.to = Append(f.to, s)].to = Append(f.to, s)
        BY <2>1 DEF Frame
      <3>6. Distinct(f.to) /\ s \notin Range(f.to)
        BY <1>1, <3>2 DEF BusInv, HandsFit, f
      <3> QED  BY <2>2, <3>1, <3>3, <3>4, <3>5, <3>6 DEF f
    <2>3. CASE ~(bus = "redis" /\ f.on)
      BY <1>1, <2>1, <2>3 DEF BusInv, HandsFit
    <2> QED  BY <2>2, <2>3
  <1>8. Handing' = Handing
    BY <1>7 DEF Handing
  <1>9. BusTypes'
    <2>1. dispatch' \in [Published -> Frame]
      BY <1>1, <1>7
    <2> QED  BY <1>1, <1>2, <1>3, <1>4, <1>5, <1>8, <2>1 DEF BusInv, BusTypes
  <1>10. HandsFit'
    <2>1. ASSUME NEW e \in Handing, NEW t \in Range(dispatch'[e].to)
          PROVE  /\ subscription'[t].kind # "none" /\ e \notin Range(heard[t])
                 /\ bus = "memory" /\ subscription'[t].kind = "once" =>
                      /\ subscription'[t].promise # "rejected"
                      /\ heard[t] # <<>> => e \in within[heard[t][1]]
      <3>1. e \in Published /\ Range(dispatch[e].to) \subseteq Subscribers
        BY BusRanges DEF BusInv
      <3>2. CASE t = s
        BY <1>2, <1>3, <1>4, <1>6, <3>2
      <3>3. CASE t # s
        <4>1. t \in Range(dispatch[e].to) /\ subscription'[t] = subscription[t]
          BY <1>4, <1>7, <3>1, <3>3
        <4> QED  BY <4>1 DEF BusInv, HandsFit
      <3> QED  BY <3>2, <3>3
    <2>2. \A t \in Subscribers : subscription'[t].kind = "none" => heard[t] = <<>>
      BY <1>4, <1>6 DEF BusInv, HandsFit
    <2>3. \A e \in Handing : Distinct(dispatch'[e].to)
      BY <1>7 DEF Handing
    <2> QED  BY <1>1, <1>8, <2>1, <2>2, <2>3 DEF HandsFit
  <1>11. EventsFit'
    BY <1>1, <1>8 DEF BusInv, EventsFit
  <1>12. HeardInOrder'
    BY <1>1 DEF BusInv, HeardInOrder
  <1>13. OnceSettlesOnce'
    <2> SUFFICES ASSUME NEW t \in Subscribers, subscription'[t].kind = "once"
                 PROVE  /\ subscription'[t].promise = "resolved" <=> heard[t] # <<>>
                        /\ subscription'[t].promise # "open" => ~subscription'[t].on
                        /\ \A i \in 2 .. Len(heard[t]) : heard[t][i] \in within[heard[t][1]]
      BY <1>1 DEF OnceSettlesOnce
    <2>1. CASE t = s
      BY <1>2, <1>3, <1>4, <1>6, <2>1
    <2>2. CASE t # s
      BY <1>4, <2>2 DEF BusInv, OnceSettlesOnce
    <2> QED  BY <2>1, <2>2
  <1>14. ReachesWhileOn'
    <2> SUFFICES ASSUME NEW t \in Subscribers, NEW e \in since'[t] + 1 .. published, subscription'[t].on
                 PROVE  \/ e \in Range(heard[t]) \/ e \in Range(channel) \/ e \in missed
                        \/ e \in Handing /\ t \in Range(dispatch'[e].to)
      BY <1>1, <1>8 DEF ReachesWhileOn
    <2>1. since'[t] # published
      BY <1>5, BusRanges DEF BusInv
    <2>2. since'[t] = since[t] /\ subscription[t].on
      BY <1>4, <1>5, <2>1
    <2>3. \A f \in Handing : Range(dispatch[f].to) \subseteq Range(dispatch'[f].to)
      BY <1>7 DEF Handing
    <2> QED  BY <2>2, <2>3 DEF BusInv, ReachesWhileOn
  <1> QED  BY <1>9, <1>10, <1>11, <1>12, <1>13, <1>14 DEF BusInv

\* What a dispatch is handed: each that is on, once.
LEMMA OnInOrder ==
  InOrder(On) \in Seq(Subscribers) /\ Range(InOrder(On)) = On /\ Distinct(InOrder(On))
  <1>1. On \subseteq Subscribers /\ On \subseteq Nat
    BY BusAssumption DEF On, Subscribers
  <1>2. IsFiniteSet(On)
    <2>1. IsFiniteSet(Subscribers)
      BY FS_Interval, BusAssumption DEF Subscribers
    <2> QED  BY <1>1, <2>1, FS_Subset
  <1>3. InOrder(On) \in Seq(On) /\ Range(InOrder(On)) = On /\ Distinct(InOrder(On))
    BY <1>1, <1>2, InOrderLists
  <1> QED  BY <1>1, <1>3, SeqMonotonic

LEMMA HandsOut ==
  ASSUME BusTypes, NEW n \in Published, HandOut(n)
  PROVE  /\ dispatch' \in [Published -> Frame] /\ \A e \in Published : e # n => dispatch'[e] = dispatch[e]
         /\ Range(dispatch'[n].to) = On /\ Distinct(dispatch'[n].to)
         /\ Handing' = Handing \cup {n}
  <1> DEFINE q == InOrder(On)
             frame == [on |-> TRUE, by |-> 0, to |-> q]
  <1>1. q \in Seq(Subscribers) /\ Range(q) = On /\ Distinct(q)
    BY OnInOrder
  <1>2. dispatch' = [dispatch EXCEPT ![n] = frame]
    BY DEF HandOut
  <1> HIDE DEF q
  <1>3. frame \in Frame /\ frame.on /\ frame.to = q
    <2>1. TRUE \in BOOLEAN
      BY Zenon
    <2>2. 0 \in 0 .. MaxSubscribers
      BY BusAssumption
    <2> QED  BY <1>1, <2>1, <2>2 DEF Frame
  <1> HIDE DEF frame
  <1>4. /\ dispatch' \in [Published -> Frame] /\ dispatch'[n] = frame
        /\ \A e \in Published : e # n => dispatch'[e] = dispatch[e]
    BY <1>2, <1>3 DEF BusTypes
  <1>5. Handing' = Handing \cup {n}
    BY <1>3, <1>4 DEF Handing
  <1> QED  BY <1>1, <1>3, <1>4, <1>5

\* Those who are on have not settled.
LEMMA OnFits ==
  ASSUME BusInv, NEW s \in On
  PROVE  /\ s \in Subscribers /\ subscription[s].on /\ subscription[s].kind # "none"
         /\ subscription[s].kind = "once" => subscription[s].promise # "rejected" /\ heard[s] = <<>>
  BY DEF BusInv, BusTypes, OnceSettlesOnce, On

LEMMA PublishOnStep == ASSUME BusInv, PublishOn PROVE BusInv'
  <1> DEFINE n == published'
  <1>1. /\ published < MaxPublished /\ published' = published + 1
        /\ UNCHANGED <<bus, subscription, connection, drops, heard, since>>
    BY DEF PublishOn
  <1>2. /\ published \in Nat /\ n \in Nat /\ n \in Published /\ n = published + 1 /\ published < n
        /\ published' \in 0 .. MaxPublished
    BY <1>1, BusRanges DEF BusInv, Published
  <1>3. /\ since' \in [Subscribers -> 0 .. published'] /\ missed \subseteq 1 .. published'
        /\ n \in 1 .. published' /\ \A s \in Subscribers : since[s] \in Nat
    BY <1>1, <1>2 DEF BusInv, BusTypes
  <1>4. \A s \in Subscribers : \A h \in Range(heard[s]) : h \in Nat /\ h <= published /\ h < n
    <2>1. \A s \in Subscribers : \A h \in Range(heard[s]) : h \in Nat /\ h <= published
      BY BusRanges DEF BusInv, EventsFit
    <2> QED  BY <1>2, <2>1
  <1>5. \A e \in Handing : e \in Nat /\ e <= published /\ e < n /\ e \in Published
    <2>1. \A e \in Handing : e \in Nat /\ e <= published /\ e \in Published
      BY BusRanges DEF BusInv, BusTypes
    <2> QED  BY <1>2, <2>1
  <1>6. \A s \in Subscribers : \A e \in since[s] + 1 .. published' : e = n \/ e \in since[s] + 1 .. published
    BY <1>2, <1>3
  <1>7. CASE bus = "memory"
    <2>1. HandOut(n) /\ within' = [within EXCEPT ![n] = Handing] /\ UNCHANGED <<channel, missed>>
      BY <1>7 DEF PublishOn
    <2>2. /\ dispatch' \in [Published -> Frame] /\ \A e \in Published : e # n => dispatch'[e] = dispatch[e]
          /\ Range(dispatch'[n].to) = On /\ Distinct(dispatch'[n].to)
          /\ Handing' = Handing \cup {n}
      BY <1>2, <2>1, HandsOut DEF BusInv
    <2>3. /\ within' \in [Published -> SUBSET Published] /\ within'[n] = Handing
          /\ \A h \in Published : h # n => within'[h] = within[h]
      BY <1>2, <1>5, <2>1 DEF BusInv, BusTypes
    <2> HIDE DEF n
    <2>4. BusTypes'
      <3>1. \A e \in Handing' : e <= published'
        BY <1>2, <1>5, <2>2 DEF n
      <3> QED  BY <1>1, <1>2, <1>3, <2>1, <2>2, <2>3, <3>1 DEF BusInv, BusTypes
    <2>5. \A s \in Subscribers : \A h \in Range(heard[s]) : within'[h] = within[h]
      BY <1>2, <1>4, <2>3, BusRanges DEF BusInv
    <2>6. HandsFit'
      <3>1. ASSUME NEW e \in Handing', NEW s \in Range(dispatch'[e].to)
            PROVE  /\ subscription[s].kind # "none" /\ e \notin Range(heard[s])
                   /\ subscription[s].kind = "once" =>
                        /\ subscription[s].promise # "rejected"
                        /\ heard[s] # <<>> => e \in within'[heard[s][1]]
        <4>1. CASE e = n
          <5>1. s \in On /\ s \in Subscribers
            BY <2>2, <4>1, OnFits
          <5>2. n \notin Range(heard[s])
            BY <1>2, <1>4, <5>1
          <5> QED  BY <4>1, <5>1, <5>2, OnFits
        <4>2. CASE e # n
          <5>1. e \in Handing /\ s \in Range(dispatch[e].to) /\ s \in Subscribers
            BY <1>5, <2>2, <4>2, BusRanges DEF BusInv
          <5>2. heard[s] # <<>> => within'[heard[s][1]] = within[heard[s][1]]
            BY <2>5, <5>1, BusRanges DEF BusInv
          <5> QED  BY <1>7, <5>1, <5>2 DEF BusInv, HandsFit
        <4> QED  BY <4>1, <4>2
      <3>2. \A e \in Handing' : Distinct(dispatch'[e].to)
        BY <1>5, <2>2 DEF BusInv, HandsFit
      <3> QED  BY <1>1, <3>1, <3>2 DEF BusInv, HandsFit
    <2>7. EventsFit'
      <3>1. ASSUME NEW e \in Handing', NEW g \in e + 1 .. published' PROVE e \in within'[g]
        <4>1. e \in Nat /\ g \in Nat /\ e < g /\ g <= n
          BY <1>2, <1>5, <2>2, <3>1 DEF n
        <4>2. e \in Handing
          BY <1>2, <2>2, <4>1
        <4>3. CASE g = n
          BY <2>3, <4>2, <4>3
        <4>4. CASE g # n
          <5>1. g \in e + 1 .. published /\ g \in Published
            BY <1>2, <4>1, <4>4, BusRanges DEF BusInv, Published
          <5> QED  BY <1>7, <2>3, <4>2, <4>4, <5>1 DEF BusInv, EventsFit
        <4> QED  BY <4>3, <4>4
      <3>2. \A s \in Subscribers : \A h \in Range(heard[s]) : h <= published'
        BY <1>2, <1>4 DEF n
      <3>3. channel' = <<>>
        BY <1>7, <2>1 DEF BusInv, BusTypes
      <3> QED  BY <1>1, <1>7, <3>1, <3>2, <3>3, EmptySeqFacts DEF EventsFit
    <2>8. HeardInOrder'
      <3>1. ASSUME NEW s \in Subscribers, NEW i \in 1 .. Len(heard[s])
            PROVE  within'[heard[s][i]] = within[heard[s][i]]
        BY <2>5, BusRanges DEF BusInv
      <3> QED  BY <1>1, <3>1 DEF BusInv, HeardInOrder
    <2>9. OnceSettlesOnce'
      <3>1. ASSUME NEW s \in Subscribers, NEW i \in 2 .. Len(heard[s])
            PROVE  within'[heard[s][1]] = within[heard[s][1]]
        <4>1. 1 \in 1 .. Len(heard[s])
          BY <3>1, BusRanges DEF BusInv
        <4> QED  BY <2>5, <4>1, BusRanges DEF BusInv
      <3> QED  BY <1>1, <3>1 DEF BusInv, OnceSettlesOnce
    <2>10. ReachesWhileOn'
      <3> SUFFICES ASSUME NEW s \in Subscribers, NEW e \in since[s] + 1 .. published', subscription[s].on
                   PROVE  \/ e \in Range(heard[s]) \/ e \in Range(channel) \/ e \in missed
                          \/ e \in Handing' /\ s \in Range(dispatch'[e].to)
        BY <1>1, <2>1 DEF ReachesWhileOn
      <3>1. CASE e = n
        BY <2>2, <3>1 DEF On
      <3>2. CASE e # n
        <4>1. e \in since[s] + 1 .. published
          BY <1>6, <3>2 DEF n
        <4>2. e \in Handing => e \in Handing' /\ dispatch'[e] = dispatch[e]
          BY <1>5, <2>2, <3>2
        <4> QED  BY <4>1, <4>2 DEF BusInv, ReachesWhileOn
      <3> QED  BY <3>1, <3>2
    <2> QED  BY <2>4, <2>6, <2>7, <2>8, <2>9, <2>10 DEF BusInv
  <1>8. CASE bus # "memory"
    <2>1. /\ UNCHANGED <<dispatch, within>>
          /\ \/ channel' = Append(channel, n) /\ missed' = missed
             \/ channel' = channel /\ missed' = missed \cup {n}
      BY <1>8 DEF PublishOn
    <2>2. Handing' = Handing
      BY <2>1 DEF Handing
    <2> HIDE DEF n
    <2>3. /\ channel' \in Seq(Published) /\ Ascending(channel')
          /\ \A c \in Range(channel') : c \in Range(channel) \/ c = n
          /\ Range(channel) \subseteq Range(channel') /\ missed \subseteq missed' /\ missed' \subseteq 1 .. published'
          /\ n \in Range(channel') \cup missed'
      <3>1. Ascending(channel) /\ channel \in Seq(Published) /\ \A c \in Range(channel) : c < n
        <4>1. \A c \in Range(channel) : c \in Nat /\ c <= published
          BY BusRanges DEF BusInv, EventsFit
        <4> QED  BY <1>2, <4>1, BusRanges DEF BusInv, EventsFit
      <3>2. /\ Append(channel, n) \in Seq(Published)
            /\ Range(Append(channel, n)) = Range(channel) \cup {n}
            /\ Ascending(Append(channel, n))
        BY <1>2, <3>1, AppendFacts
      <3> QED  BY <1>3, <2>1, <3>1, <3>2
    <2>4. BusTypes'
      <3>1. \A e \in Handing : e <= published'
        BY <1>2, <1>5 DEF n
      <3> QED  BY <1>1, <1>2, <1>3, <1>8, <2>1, <2>2, <2>3, <3>1 DEF BusInv, BusTypes
    <2>5. HandsFit'
      BY <1>1, <2>1, <2>2 DEF BusInv, HandsFit
    <2>6. EventsFit'
      <3>1. ASSUME NEW c \in Range(channel')
            PROVE  /\ c <= published' /\ \A e \in Handing : e < c
                   /\ \A s \in Subscribers : \A h \in Range(heard[s]) : h < c
        <4>1. CASE c = n
          BY <1>2, <1>4, <1>5, <4>1 DEF n
        <4>2. CASE c # n
          <5>1. c \in Range(channel) /\ c \in Nat /\ c <= published
            BY <2>3, <4>2, BusRanges DEF BusInv, EventsFit
          <5>2. c <= published'
            BY <1>2, <5>1 DEF n
          <5> QED  BY <5>1, <5>2 DEF BusInv, EventsFit
        <4> QED  BY <4>1, <4>2
      <3>2. \A s \in Subscribers : \A h \in Range(heard[s]) : h <= published'
        BY <1>2, <1>4 DEF n
      <3> QED  BY <1>1, <1>8, <2>1, <2>2, <2>3, <3>1, <3>2 DEF BusInv, EventsFit
    <2>7. HeardInOrder'
      BY <1>1, <2>1 DEF BusInv, HeardInOrder
    <2>8. OnceSettlesOnce'
      BY <1>1, <2>1 DEF BusInv, OnceSettlesOnce
    <2>9. ReachesWhileOn'
      <3> SUFFICES ASSUME NEW s \in Subscribers, NEW e \in since[s] + 1 .. published', subscription[s].on
                   PROVE  \/ e \in Range(heard[s]) \/ e \in Range(channel') \/ e \in missed'
                          \/ e \in Handing /\ s \in Range(dispatch[e].to)
        BY <1>1, <2>1, <2>2 DEF ReachesWhileOn
      <3>1. CASE e = n
        BY <2>3, <3>1
      <3>2. CASE e # n
        <4>1. e \in since[s] + 1 .. published
          BY <1>6, <3>2 DEF n
        <4> QED  BY <2>3, <4>1 DEF BusInv, ReachesWhileOn
      <3> QED  BY <3>1, <3>2
    <2> QED  BY <2>4, <2>5, <2>6, <2>7, <2>8, <2>9 DEF BusInv
  <1> QED  BY <1>7, <1>8

LEMMA MessageStep == ASSUME BusInv, MessageComes PROVE BusInv'
  <1> DEFINE n == Head(channel)
  <1>1. /\ Handing = {} /\ channel # <<>> /\ HandOut(n) /\ channel' = Tail(channel)
        /\ UNCHANGED <<bus, subscription, published, connection, drops, heard, within, since, missed>>
    BY DEF MessageComes, Calm
  <1>2. /\ channel \in Seq(Published) /\ Tail(channel) \in Seq(Published) /\ n \in Published
        /\ Range(channel) = Range(Tail(channel)) \cup {n}
        /\ Ascending(Tail(channel)) /\ \A c \in Range(Tail(channel)) : n < c
    BY <1>1, TailFacts DEF BusInv, BusTypes, EventsFit
  <1>3. n <= published /\ n \in Nat /\ \A s \in Subscribers : \A h \in Range(heard[s]) : h \in Nat /\ h < n
    BY <1>2, BusRanges DEF BusInv, EventsFit
  <1>4. bus = "redis"
    BY <1>1 DEF BusInv, BusTypes
  <1>5. /\ dispatch' \in [Published -> Frame]
        /\ Range(dispatch'[n].to) = On /\ Distinct(dispatch'[n].to)
        /\ Handing' = {n}
    <2> HIDE DEF n
    <2> QED  BY <1>1, <1>2, HandsOut DEF BusInv
  <1> HIDE DEF n
  <1>6. BusTypes'
    BY <1>1, <1>2, <1>3, <1>4, <1>5 DEF BusInv, BusTypes
  <1>7. HandsFit'
    <2>1. ASSUME NEW s \in On PROVE subscription[s].kind # "none" /\ n \notin Range(heard[s])
      <3>1. s \in Subscribers /\ subscription[s].kind # "none"
        BY OnFits
      <3> QED  BY <1>3, <3>1
    <2> QED  BY <1>1, <1>4, <1>5, <2>1 DEF BusInv, HandsFit
  <1>8. EventsFit'
    <2>1. \A s \in Subscribers : \A h \in Range(heard[s]) : h <= n
      BY <1>3
    <2> QED  BY <1>1, <1>2, <1>4, <1>5, <2>1 DEF BusInv, EventsFit
  <1>9. HeardInOrder' /\ OnceSettlesOnce'
    BY <1>1 DEF BusInv, HeardInOrder, OnceSettlesOnce
  <1>10. ReachesWhileOn'
    <2> SUFFICES ASSUME NEW s \in Subscribers, NEW e \in since[s] + 1 .. published, subscription[s].on
                 PROVE  \/ e \in Range(heard[s]) \/ e \in Range(channel') \/ e \in missed
                        \/ e \in Handing' /\ s \in Range(dispatch'[e].to)
      BY <1>1 DEF ReachesWhileOn
    <2>1. e \in Range(heard[s]) \/ e \in Range(channel) \/ e \in missed
      BY <1>1 DEF BusInv, ReachesWhileOn
    <2>2. s \in Range(dispatch'[n].to)
      BY <1>5 DEF On
    <2> QED  BY <1>1, <1>2, <1>5, <2>1, <2>2
  <1> QED  BY <1>6, <1>7, <1>8, <1>9, <1>10 DEF BusInv

\* The next handler: what is left to hand out loses it, and if it is called it has
\* heard the event.
LEMMA HandlerStep == ASSUME BusInv, HandlerCalled PROVE BusInv'
  <1>1. PICK e \in Handing :
           /\ Innermost(e) /\ dispatch[e].to # <<>>
           /\ LET s == Head(dispatch[e].to)
                  rest == [dispatch[e] EXCEPT !.to = Tail(@), !.by = IF Skips(s) THEN 0 ELSE s]
              IN  /\ dispatch' = [dispatch EXCEPT ![e] = rest]
                  /\ IF Skips(s) THEN UNCHANGED <<subscription, heard>>
                     ELSE /\ heard' = [heard EXCEPT ![s] = Append(@, e)]
                          /\ subscription' = IF subscription[s].kind = "once" THEN CalledOnce(s) ELSE subscription
           /\ UNCHANGED <<bus, published, channel, connection, drops, within, since, missed>>
    BY DEF HandlerCalled
  <1> DEFINE s == Head(dispatch[e].to)
             rest == [dispatch[e] EXCEPT !.to = Tail(@), !.by = IF Skips(s) THEN 0 ELSE s]
  <1>2. /\ e \in Published /\ e \in Nat /\ e <= published /\ dispatch[e] \in Frame /\ dispatch[e].on
        /\ dispatch[e].to \in Seq(Subscribers) /\ Distinct(dispatch[e].to)
        /\ \A f \in Handing : f \in Published /\ f \in Nat /\ f <= e
    BY <1>1, BusRanges DEF BusInv, BusTypes, HandsFit, Frame, Innermost, Handing
  <1>3. /\ s \in Subscribers /\ Tail(dispatch[e].to) \in Seq(Subscribers)
        /\ Range(dispatch[e].to) = Range(Tail(dispatch[e].to)) \cup {s} /\ s \notin Range(Tail(dispatch[e].to))
        /\ Distinct(Tail(dispatch[e].to))
    BY <1>1, <1>2, TailFacts
  <1>4. dispatch' = [dispatch EXCEPT ![e] = rest]
    BY <1>1
  <1>5. \/ Skips(s) /\ subscription' = subscription /\ heard' = heard
        \/ /\ ~Skips(s) /\ heard' = [heard EXCEPT ![s] = Append(heard[s], e)]
           /\ subscription' = IF subscription[s].kind = "once" THEN CalledOnce(s) ELSE subscription
    BY <1>1
  <1>6. rest \in Frame /\ rest.on /\ rest.to = Tail(dispatch[e].to)
    <2>1. 0 \in 0 .. MaxSubscribers /\ s \in 0 .. MaxSubscribers
      BY <1>3, BusAssumption DEF Subscribers
    <2> DEFINE by == IF Skips(s) THEN 0 ELSE s
               f == dispatch[e]
    <2>2. by \in 0 .. MaxSubscribers
      BY <2>1
    <2>3. rest = [f EXCEPT !.to = Tail(f.to), !.by = by]
      OBVIOUS
    <2> HIDE DEF by, rest, f, s
    <2>4. f \in Frame /\ f.on /\ Tail(f.to) \in Seq(Subscribers)
      BY <1>2, <1>3 DEF f
    <2> QED  BY <2>2, <2>3, <2>4 DEF Frame, f
  <1> HIDE DEF s, rest
  <1>7. /\ dispatch' \in [Published -> Frame] /\ dispatch'[e] = rest
        /\ \A f \in Published : f # e => dispatch'[f] = dispatch[f]
    BY <1>2, <1>4, <1>6 DEF BusInv, BusTypes
  <1>8. Handing' = Handing
    BY <1>6, <1>7 DEF Handing
  <1>9. \A f \in Handing : Range(dispatch'[f].to) \subseteq Range(dispatch[f].to) /\ Distinct(dispatch'[f].to)
    BY <1>2, <1>3, <1>6, <1>7 DEF BusInv, HandsFit
  <1>10. /\ heard[s] \in Seq(Published) /\ Len(heard[s]) \in Nat
         /\ Append(heard[s], e) \in Seq(Published) /\ Append(heard[s], e) # <<>>
         /\ Len(Append(heard[s], e)) = Len(heard[s]) + 1
         /\ Append(heard[s], e)[Len(heard[s]) + 1] = e
         /\ \A i \in 1 .. Len(heard[s]) : Append(heard[s], e)[i] = heard[s][i]
         /\ Range(Append(heard[s], e)) = Range(heard[s]) \cup {e}
    BY <1>2, <1>3, BusRanges, AppendFacts DEF BusInv
  <1>11. /\ e \notin Range(heard[s]) /\ subscription[s].kind # "none" /\ s \in Range(dispatch[e].to)
         /\ bus = "memory" /\ subscription[s].kind = "once" =>
              /\ subscription[s].promise # "rejected"
              /\ heard[s] # <<>> => e \in within[heard[s][1]]
    BY <1>1, <1>3 DEF BusInv, HandsFit
  <1>12. /\ heard' \in [Subscribers -> Seq(Published)]
         /\ \A t \in Subscribers : heard'[t] = heard[t] \/ (t = s /\ ~Skips(s) /\ heard'[t] = Append(heard[t], e))
         /\ ~Skips(s) => heard'[s] = Append(heard[s], e)
    BY <1>3, <1>5, <1>10 DEF BusInv, BusTypes
  <1>13. /\ subscription' \in [Subscribers -> Subscription]
         /\ \A t \in Subscribers :
               \/ subscription'[t] = subscription[t]
               \/ /\ t = s /\ ~Skips(s) /\ subscription[t].kind = "once" /\ subscription'[t].kind = "once"
                  /\ ~subscription'[t].on
                  /\ subscription'[t].promise = IF subscription[t].promise = "open" THEN "resolved"
                                                 ELSE subscription[t].promise
         /\ ~Skips(s) /\ subscription[s].kind = "once" =>
               ~subscription'[s].on /\ subscription'[s].promise # "open"
    <2>1. CASE Skips(s) \/ subscription[s].kind # "once"
      BY <1>5, <2>1 DEF BusInv, BusTypes
    <2>2. CASE ~Skips(s) /\ subscription[s].kind = "once"
      <3> DEFINE old == subscription[s]
                 promise == IF old.promise = "open" THEN "resolved" ELSE old.promise
                 new == [old EXCEPT !.on = FALSE, !.promise = promise]
      <3>1. subscription \in [Subscribers -> Subscription] /\ old \in Subscription
        BY <1>3 DEF BusInv, BusTypes
      <3>2. subscription' = CalledOnce(s)
        BY <1>5, <2>2
      <3>3. subscription' = [subscription EXCEPT ![s] = new]
        BY <1>3, <3>1, <3>2 DEF CalledOnce
      <3>4. FALSE \in BOOLEAN
        BY Zenon
      <3>5. promise \in {"none", "resolved", "rejected"}
        BY <3>1 DEF Subscription
      <3>6. old.kind = "once"
        BY <2>2
      <3> HIDE DEF old, promise
      <3>7. new \in Subscription /\ new.kind = "once" /\ ~new.on /\ new.promise = promise
        BY <3>1, <3>4, <3>5, <3>6 DEF Subscription
      <3> HIDE DEF new
      <3>8. /\ subscription' \in [Subscribers -> Subscription] /\ subscription'[s] = new
            /\ \A t \in Subscribers : t # s => subscription'[t] = subscription[t]
        BY <1>3, <3>1, <3>3, <3>7
      <3> QED  BY <2>2, <3>5, <3>7, <3>8 DEF promise, old
    <2> QED  BY <2>1, <2>2
  <1>14. ~Skips(s) /\ subscription[s].kind = "once" =>
           /\ subscription[s].promise # "rejected" /\ subscription[s].promise # "none"
           /\ subscription'[s].promise = "resolved"
           /\ heard[s] # <<>> => bus = "memory" /\ e \in within[heard[s][1]]
    <2> SUFFICES ASSUME ~Skips(s), subscription[s].kind = "once"
                 PROVE  /\ subscription[s].promise # "rejected" /\ subscription[s].promise # "none"
                        /\ subscription'[s].promise = "resolved"
                        /\ heard[s] # <<>> => bus = "memory" /\ e \in within[heard[s][1]]
      OBVIOUS
    <2>1. bus = "memory" \/ subscription[s].on
      BY DEF Skips, BusInv, BusTypes
    <2>2. /\ subscription[s].promise # "none"
          /\ subscription[s].on => subscription[s].promise = "open" /\ heard[s] = <<>>
      BY <1>3 DEF BusInv, BusTypes, OnceSettlesOnce
    <2>3. subscription[s].promise # "rejected"
      BY <1>11, <2>1, <2>2
    <2>4. subscription'[s].promise = "resolved"
      <3>1. subscription[s].promise \in {"open", "resolved"}
        <4>1. subscription[s] \in Subscription
          BY <1>3 DEF BusInv, BusTypes
        <4> QED  BY <2>2, <2>3, <4>1 DEF Subscription
      <3> QED  BY <1>3, <1>13, <3>1
    <2> QED  BY <1>11, <2>1, <2>2, <2>3, <2>4
  <1>15. \A h \in Range(heard[s]) : h \in Nat /\ (h < e \/ e \in within[h])
    <2> SUFFICES ASSUME NEW h \in Range(heard[s]), ~(h < e) PROVE h \in Nat /\ e \in within[h]
      BY <1>3, BusRanges DEF BusInv
    <2>1. h \in Published /\ h \in Nat /\ h <= published /\ h # e
      BY <1>3, <1>11, BusRanges DEF BusInv, EventsFit
    <2>2. h \in e + 1 .. published
      BY <1>2, <2>1, BusRanges DEF BusInv
    <2>3. bus # "redis"
      <3>1. bus = "redis" => h <= e
        BY <1>1, <1>3 DEF BusInv, EventsFit
      <3> QED  BY <1>2, <2>1, <2>2, <3>1, BusRanges DEF BusInv
    <2>4. bus = "memory"
      BY <2>3 DEF BusInv, BusTypes
    <2> QED  BY <1>1, <2>1, <2>2, <2>4 DEF BusInv, EventsFit
  <1>16. BusTypes'
    <2>1. \A t \in Subscribers :
             /\ subscription'[t].on => subscription'[t].kind # "none"
             /\ subscription'[t].promise # "none" <=> subscription'[t].kind = "once"
      BY <1>13, <1>14 DEF BusInv, BusTypes
    <2> QED  BY <1>1, <1>7, <1>8, <1>12, <1>13, <2>1 DEF BusInv, BusTypes
  <1>17. HandsFit'
    <2>1. ASSUME NEW f \in Handing, NEW t \in Range(dispatch'[f].to)
          PROVE  /\ subscription'[t].kind # "none" /\ f \notin Range(heard'[t])
                 /\ bus = "memory" /\ subscription'[t].kind = "once" =>
                       /\ subscription'[t].promise # "rejected"
                       /\ heard'[t] # <<>> => f \in within[heard'[t][1]]
      <3>1. /\ t \in Range(dispatch[f].to) /\ t \in Subscribers /\ f \in Published /\ f \in Nat /\ f <= e
            /\ t = s => f # e
        BY <1>2, <1>3, <1>6, <1>7, <1>9, BusRanges DEF BusInv
      <3>2. /\ subscription[t].kind # "none" /\ f \notin Range(heard[t])
            /\ bus = "memory" /\ subscription[t].kind = "once" =>
                 /\ subscription[t].promise # "rejected"
                 /\ heard[t] # <<>> => f \in within[heard[t][1]]
        BY <3>1 DEF BusInv, HandsFit
      <3>3. subscription'[t].kind = subscription[t].kind
        BY <1>13, <3>1
      <3>4. subscription[t].promise # "rejected" => subscription'[t].promise # "rejected"
        BY <1>13, <3>1
      <3>5. f \notin Range(heard'[t])
        <4>1. CASE heard'[t] = heard[t]
          BY <3>2, <4>1
        <4>2. CASE t = s /\ heard'[s] = Append(heard[s], e)
          BY <1>10, <3>1, <3>2, <4>2
        <4> QED  BY <1>12, <3>1, <4>1, <4>2
      <3>6. ASSUME bus = "memory", subscription[t].kind = "once", heard'[t] # <<>>
            PROVE  f \in within[heard'[t][1]]
        <4>1. CASE heard'[t] = heard[t]
          BY <3>2, <3>6, <4>1
        <4>2. CASE heard'[t] # heard[t]
          <5>1. t = s /\ heard'[s] = Append(heard[s], e)
            BY <1>12, <3>1, <4>2
          <5>2. CASE heard[s] = <<>>
            <6>1. heard'[s][1] = e
              BY <1>10, <5>1, <5>2, EmptySeqFacts
            <6>2. f < e /\ e \in f + 1 .. published
              BY <1>2, <3>1, <5>1, BusRanges DEF BusInv
            <6> QED  BY <3>6, <5>1, <6>1, <6>2 DEF BusInv, EventsFit
          <5>3. CASE heard[s] # <<>>
            <6>1. heard'[s][1] = heard[s][1]
              BY <1>3, <1>10, <5>1, <5>3, BusRanges DEF BusInv
            <6> QED  BY <3>2, <3>6, <5>1, <5>3, <6>1
          <5> QED  BY <5>2, <5>3
        <4> QED  BY <4>1, <4>2
      <3> QED  BY <3>2, <3>3, <3>4, <3>5, <3>6
    <2>2. \A t \in Subscribers : subscription'[t].kind = "none" => heard'[t] = <<>>
      BY <1>11, <1>12, <1>13 DEF BusInv, HandsFit
    <2> QED  BY <1>1, <1>8, <1>9, <2>1, <2>2 DEF HandsFit
  <1>18. EventsFit'
    <2>1. ASSUME NEW t \in Subscribers, NEW h \in Range(heard'[t])
          PROVE  /\ h <= published
                 /\ \A c \in Range(channel) : h < c
                 /\ bus = "redis" => \A f \in Handing : h <= f
      <3>1. h \in Range(heard[t]) \/ h = e
        BY <1>3, <1>10, <1>12
      <3>2. CASE h \in Range(heard[t])
        BY <3>2 DEF BusInv, EventsFit
      <3>3. CASE h = e
        <4>1. bus = "redis" => \A f \in Handing : f = e
          BY <1>1 DEF BusInv, EventsFit
        <4> QED  BY <1>1, <1>2, <3>3, <4>1 DEF BusInv, EventsFit
      <3> QED  BY <3>1, <3>2, <3>3
    <2> QED  BY <1>1, <1>8, <2>1 DEF BusInv, EventsFit
  <1>19. HeardInOrder'
    <2> SUFFICES ASSUME NEW t \in Subscribers, NEW i \in 1 .. Len(heard'[t]), NEW j \in 1 .. Len(heard'[t]), i < j
                 PROVE  /\ heard'[t][i] # heard'[t][j]
                        /\ heard'[t][i] < heard'[t][j] \/ heard'[t][j] \in within[heard'[t][i]]
      BY <1>1 DEF HeardInOrder
    <2>1. CASE heard'[t] = heard[t]
      BY <2>1 DEF BusInv, HeardInOrder
    <2>2. CASE heard'[t] # heard[t]
      <3>1. t = s /\ heard'[t] = Append(heard[s], e)
        BY <1>12, <2>2
      <3>2. i \in 1 .. Len(heard[s]) /\ (j \in 1 .. Len(heard[s]) \/ j = Len(heard[s]) + 1)
        BY <1>10, <3>1
      <3>3. heard'[t][i] = heard[s][i] /\ heard[s][i] \in Range(heard[s])
        BY <1>3, <1>10, <3>1, <3>2, BusRanges DEF BusInv
      <3>4. CASE j \in 1 .. Len(heard[s])
        BY <1>3, <1>10, <3>1, <3>2, <3>3, <3>4 DEF BusInv, HeardInOrder
      <3>5. CASE j = Len(heard[s]) + 1
        <4>1. heard'[t][j] = e
          BY <1>10, <3>1, <3>5
        <4> QED  BY <1>11, <1>15, <3>3, <4>1
      <3> QED  BY <3>2, <3>4, <3>5
    <2> QED  BY <2>1, <2>2
  <1>20. OnceSettlesOnce'
    <2> SUFFICES ASSUME NEW t \in Subscribers, subscription'[t].kind = "once"
                 PROVE  /\ subscription'[t].promise = "resolved" <=> heard'[t] # <<>>
                        /\ subscription'[t].promise # "open" => ~subscription'[t].on
                        /\ \A i \in 2 .. Len(heard'[t]) : heard'[t][i] \in within[heard'[t][1]]
      BY <1>1 DEF OnceSettlesOnce
    <2>1. subscription[t].kind = "once"
      BY <1>13
    <2>2. CASE t = s /\ ~Skips(s)
      <3>1. /\ heard'[t] = Append(heard[s], e) /\ heard'[t] # <<>>
            /\ subscription'[t].promise = "resolved" /\ ~subscription'[t].on
        BY <1>10, <1>12, <1>13, <1>14, <2>1, <2>2
      <3>2. ASSUME NEW i \in 2 .. Len(heard'[t]) PROVE heard'[t][i] \in within[heard'[t][1]]
        <4>1. heard[s] # <<>>
          <5>1. Len(heard[s]) # 0
            BY <1>10, <3>1, <3>2
          <5> QED  BY <5>1, EmptySeqFacts
        <4>2. heard'[t][1] = heard[s][1]
          BY <1>3, <1>10, <3>1, <4>1, BusRanges DEF BusInv
        <4>3. i \in 2 .. Len(heard[s]) \/ i = Len(heard[s]) + 1
          BY <1>10, <3>1, <3>2
        <4>4. CASE i \in 2 .. Len(heard[s])
          <5>1. i \in 1 .. Len(heard[s]) /\ heard'[t][i] = heard[s][i]
            BY <1>10, <3>1, <4>4
          <5> QED  BY <1>3, <2>1, <2>2, <4>2, <4>4, <5>1 DEF BusInv, OnceSettlesOnce
        <4>5. CASE i = Len(heard[s]) + 1
          <5>1. heard'[t][i] = e
            BY <1>10, <3>1, <4>5
          <5> QED  BY <1>14, <2>1, <2>2, <4>1, <4>2, <5>1
        <4> QED  BY <4>3, <4>4, <4>5
      <3> QED  BY <3>1, <3>2
    <2>3. CASE ~(t = s /\ ~Skips(s))
      <3>1. subscription'[t] = subscription[t] /\ heard'[t] = heard[t]
        BY <1>12, <1>13, <2>3
      <3> QED  BY <2>1, <3>1 DEF BusInv, OnceSettlesOnce
    <2> QED  BY <2>2, <2>3
  <1>21. ReachesWhileOn'
    <2> SUFFICES ASSUME NEW t \in Subscribers, NEW g \in since[t] + 1 .. published, subscription'[t].on
                 PROVE  \/ g \in Range(heard'[t]) \/ g \in Range(channel) \/ g \in missed
                        \/ g \in Handing /\ t \in Range(dispatch'[g].to)
      BY <1>1, <1>8 DEF ReachesWhileOn
    <2>1. subscription[t].on
      BY <1>13
    <2>2. \/ g \in Range(heard[t]) \/ g \in Range(channel) \/ g \in missed
          \/ g \in Handing /\ t \in Range(dispatch[g].to)
      BY <2>1 DEF BusInv, ReachesWhileOn
    <2>3. Range(heard[t]) \subseteq Range(heard'[t])
      BY <1>3, <1>10, <1>12
    <2>4. CASE g \in Handing /\ t \in Range(dispatch[g].to)
      <3>1. CASE g # e
        BY <1>2, <1>7, <2>4, <3>1
      <3>2. CASE g = e /\ t # s
        BY <1>3, <1>6, <1>7, <2>4, <3>2
      <3>3. CASE g = e /\ t = s
        <4>1. ~Skips(s)
          BY <2>1, <3>3 DEF Skips
        <4> QED  BY <1>10, <1>12, <3>3, <4>1
      <3> QED  BY <3>1, <3>2, <3>3
    <2> QED  BY <2>2, <2>3, <2>4
  <1> QED  BY <1>16, <1>17, <1>18, <1>19, <1>20, <1>21 DEF BusInv

LEMMA HandedOutStep == ASSUME BusInv, HandedOut PROVE BusInv'
  <1>1. PICK e \in Handing :
           /\ dispatch[e].to = <<>> /\ dispatch' = [dispatch EXCEPT ![e] = Idle]
           /\ UNCHANGED <<bus, subscription, published, channel, connection, drops, heard, within, since, missed>>
    BY DEF HandedOut
  <1>2. Idle \in Frame /\ ~Idle.on
    <2>1. FALSE \in BOOLEAN
      BY Zenon
    <2>2. 0 \in 0 .. MaxSubscribers
      BY BusAssumption
    <2> QED  BY <2>1, <2>2, EmptySeqFacts DEF Idle, Frame
  <1>3. /\ e \in Published /\ dispatch' \in [Published -> Frame] /\ dispatch'[e] = Idle
        /\ \A f \in Published : f # e => dispatch'[f] = dispatch[f]
    BY <1>1, <1>2 DEF BusInv, BusTypes, Handing
  <1>4. Handing' = Handing \ {e}
    BY <1>2, <1>3 DEF Handing
  <1>5. \A f \in Handing' : f \in Handing /\ dispatch'[f] = dispatch[f]
    BY <1>3, <1>4 DEF Handing
  <1>6. BusTypes'
    BY <1>1, <1>3, <1>4 DEF BusInv, BusTypes
  <1>7. HandsFit'
    BY <1>1, <1>5 DEF BusInv, HandsFit
  <1>8. EventsFit'
    BY <1>1, <1>4 DEF BusInv, EventsFit
  <1>9. HeardInOrder' /\ OnceSettlesOnce'
    BY <1>1 DEF BusInv, HeardInOrder, OnceSettlesOnce
  <1>10. ReachesWhileOn'
    <2>1. \A f \in Handing : Range(dispatch[f].to) # {} => f \in Handing' /\ dispatch'[f] = dispatch[f]
      BY <1>1, <1>3, <1>4, EmptySeqFacts DEF Handing
    <2> QED  BY <1>1, <2>1 DEF BusInv, ReachesWhileOn
  <1> QED  BY <1>6, <1>7, <1>8, <1>9, <1>10 DEF BusInv

LEMMA BusStepInv == BusInv /\ [BusNext]_busvars => BusInv'
  <1> SUFFICES ASSUME BusInv, [BusNext]_busvars PROVE BusInv'
    OBVIOUS
  <1>0. /\ subscription \in [Subscribers -> Subscription] /\ drops \in 0 .. MaxDrops /\ MaxDrops \in Nat
        /\ connection \in {"up", "lost", "closed"}
    BY BusAssumption DEF BusInv, BusTypes
  <1>1. ASSUME NEW s \in Subscribers, UnsubscribeFrom(s) PROVE BusInv'
    <2> DEFINE sub == [subscription[s] EXCEPT !.on = FALSE]
    <2>1. /\ subscription' = [subscription EXCEPT ![s] = sub]
          /\ UNCHANGED <<bus, published, channel, connection, drops, dispatch, heard, within, since, missed>>
      BY <1>0, <1>1 DEF UnsubscribeFrom
    <2>2. /\ sub \in Subscription /\ ~sub.on /\ sub.kind = subscription[s].kind
          /\ sub.promise = subscription[s].promise
      <3>1. FALSE \in BOOLEAN
        BY Zenon
      <3> QED  BY <1>0, <3>1 DEF Subscription
    <2> HIDE DEF sub
    <2> QED  BY <1>0, <2>1, <2>2, QuietStep
  <1>2. ASSUME NEW s \in Subscribers, OnceTimer(s) PROVE BusInv'
    <2> DEFINE sub == [subscription[s] EXCEPT !.promise = "rejected", !.on = FALSE]
    <2>1. /\ subscription' = [subscription EXCEPT ![s] = sub] /\ subscription[s].promise = "open" /\ Handing = {}
          /\ UNCHANGED <<bus, published, channel, connection, drops, dispatch, heard, within, since, missed>>
      BY <1>0, <1>2 DEF OnceTimer, Calm
    <2>2. sub \in Subscription /\ ~sub.on /\ sub.kind = subscription[s].kind /\ sub.promise = "rejected"
      <3>1. FALSE \in BOOLEAN
        BY Zenon
      <3> QED  BY <1>0, <3>1 DEF Subscription
    <2> HIDE DEF sub
    <2> QED  BY <1>0, <2>1, <2>2, QuietStep
  <1>3. CASE ShutdownBus
    <2>1. /\ channel' = <<>> /\ missed' = missed \cup Range(channel)
          /\ subscription' = [s \in Subscribers |-> [subscription[s] EXCEPT !.on = FALSE]]
          /\ connection' \in {"up", "lost", "closed"} /\ drops' \in 0 .. MaxDrops
          /\ UNCHANGED <<bus, published, dispatch, heard, within, since>>
      BY <1>0, <1>3 DEF ShutdownBus
    <2>2. ASSUME NEW s \in Subscribers
          PROVE  /\ subscription'[s] \in Subscription
                 /\ subscription'[s].kind = subscription[s].kind
                 /\ subscription'[s].promise = subscription[s].promise
                 /\ ~subscription'[s].on
      <3>1. FALSE \in BOOLEAN
        BY Zenon
      <3>2. subscription'[s] = [subscription[s] EXCEPT !.on = FALSE]
        BY <2>1
      <3> QED  BY <1>0, <3>1, <3>2 DEF Subscription
    <2>3. subscription' \in [Subscribers -> Subscription]
      BY <2>1, <2>2
    <2> QED  BY <2>1, <2>2, <2>3, QuietStep
  <1>4. CASE ConnectionLost
    <2>1. /\ channel' = <<>> /\ missed' = missed \cup Range(channel) /\ subscription' = subscription
          /\ connection' \in {"up", "lost", "closed"} /\ drops' \in 0 .. MaxDrops
          /\ UNCHANGED <<bus, published, dispatch, heard, within, since>>
      BY <1>0, <1>4 DEF ConnectionLost
    <2> QED  BY <1>0, <2>1, QuietStep
  <1>5. CASE Reconnects
    BY <1>0, <1>5, QuietStep DEF Reconnects
  <1>6. CASE UNCHANGED busvars
    BY <1>0, <1>6, QuietStep DEF busvars
  <1> QED  BY <1>1, <1>2, <1>3, <1>4, <1>5, <1>6, SubscribeStep, PublishOnStep, MessageStep, HandlerStep,
              HandedOutStep DEF BusNext

THEOREM BusInvariance == BusSpec => []BusInv
  BY BusInitInv, BusStepInv, PTL DEF BusSpec

LEMMA BusConsequences == BusInv => BusTypeOK /\ HeardInOrder /\ OnceSettlesOnce /\ ReachesWhileOn
  <1> SUFFICES ASSUME BusInv PROVE BusTypeOK
    BY DEF BusInv
  <1>1. ASSUME NEW q \in Seq(Published), \A e \in Range(q) : e <= published PROVE q \in Seq(1 .. published)
    <2>1. Range(q) \subseteq 1 .. published
      <3>1. Range(q) \subseteq Published
        BY RangeOfSeq
      <3>2. \A e \in Published : e <= published => e \in 1 .. published
        BY BusRanges DEF BusInv, Published
      <3> QED  BY <1>1, <3>1, <3>2
    <2>2. q \in Seq(Range(q))
      BY SeqOfRange
    <2> QED  BY <2>1, <2>2, SeqMonotonic
  <1>2. channel \in Seq(1 .. published)
    BY <1>1 DEF BusInv, BusTypes, EventsFit
  <1>3. heard \in [Subscribers -> Seq(1 .. published)]
    <2>1. \A s \in Subscribers : heard[s] \in Seq(1 .. published)
      BY <1>1 DEF BusInv, BusTypes, EventsFit
    <2> QED  BY <2>1 DEF BusInv, BusTypes
  <1>4. \A e \in Published : dispatch[e].on => e <= published
    BY DEF BusInv, BusTypes, Handing
  <1> QED  BY <1>2, <1>3, <1>4 DEF BusInv, BusTypes, BusTypeOK, Subscription, Frame

\* For any number of subscriptions and events, however subscriptions, publications,
\* deliveries, timers and losses of the connection interleave, in handlers too: a
\* handler hears no event twice, and in order but for the events published within the
\* dispatch of another; once settles one way, with the first event; what is published
\* reaches who is subscribed unless it is lost; and no handler is called after its
\* unsubscribe but in the process, by an event that was being handed out.
THEOREM BusDeliversAlways == BusSpec => BusDelivers
  <1>1. BusInv /\ [BusNext]_busvars =>
           [\A s \in Subscribers : heard'[s] # heard[s] /\ ~subscription[s].on => bus = "memory"]_busvars
    <2> SUFFICES ASSUME BusInv, BusNext, NEW s \in Subscribers, heard'[s] # heard[s], ~subscription[s].on
                 PROVE  bus = "memory"
      BY DEF busvars
    <2>1. CASE HandlerCalled
      <3>1. heard \in [Subscribers -> Seq(Published)] /\ bus \in {"memory", "redis"}
        BY DEF BusInv, BusTypes
      <3>2. PICK e \in Handing :
               LET t == Head(dispatch[e].to)
               IN  IF Skips(t) THEN heard' = heard ELSE heard' = [heard EXCEPT ![t] = Append(@, e)]
        BY <2>1 DEF HandlerCalled
      <3> DEFINE t == Head(dispatch[e].to)
      <3>3. ~Skips(t) /\ heard' = [heard EXCEPT ![t] = Append(@, e)]
        BY <3>2
      <3> HIDE DEF t
      <3>4. t = s
        BY <3>1, <3>3
      <3> QED  BY <3>1, <3>3, <3>4 DEF Skips
    <2>2. CASE ~HandlerCalled
      BY <2>2 DEF BusNext, SubscribeTo, UnsubscribeFrom, OnceTimer, PublishOn, MessageComes, HandedOut, ShutdownBus,
                  ConnectionLost, Reconnects
    <2> QED  BY <2>1, <2>2
  <1> QED  BY <1>1, BusInvariance, BusConsequences, PTL DEF BusSpec, BusDelivers, QuietAfterUnsubscribe

----------------------------------------------------------------------------
(* The suite.                                                               *)

LEMMA SeqUpTo ==
  ASSUME NEW n \in Nat, NEW m \in Nat, NEW q \in Seq(1 .. m), \A i \in 1 .. Len(q) : q[i] <= n
  PROVE  q \in Seq(1 .. n)
  <1>1. Range(q) = {q[i] : i \in 1 .. Len(q)} /\ \A i \in 1 .. Len(q) : q[i] \in 1 .. m
    BY RangeEquality, ElementOfSeq
  <1>2. Range(q) \subseteq 1 .. n
    BY <1>1
  <1>3. q \in Seq(Range(q))
    BY SeqOfRange
  <1> QED  BY <1>2, <1>3, SeqMonotonic

LEMMA AuditTypesHold == AuditInv => AuditTypeOK
  <1> SUFFICES ASSUME AuditInv PROVE AuditTypeOK
    OBVIOUS
  <1>1. emitted \in Nat /\ MaxEvents \in Nat
    BY AuditAssumption DEF AuditInv, AuditTypes
  <1>2. lines \in Seq(1 .. emitted)
    BY <1>1, SeqUpTo DEF AuditInv, AuditTypes, Events
  <1>3. buffer \in Seq(Events) /\ \A i \in 1 .. Len(buffer) : buffer[i] <= emitted
    BY RunIn DEF AuditInv, BufferFits, Run
  <1>4. buffer \in Seq(1 .. emitted)
    BY <1>1, <1>3, SeqUpTo DEF Events
  <1>5. writes \subseteq Write /\ \A w \in writes : w.batch # <<>>
    BY DEF AuditInv, WriteFits
  <1> QED  BY <1>2, <1>4, <1>5 DEF AuditInv, AuditTypes, BufferFits, AuditTypeOK, Intervals

LEMMA SuiteOfParts == SuiteSpec =>
          PSpec /\ Spec /\ CascadeSpec /\ BootSpec /\ AuditSpec /\ BusSpec /\ MigrationSpec
  <1>1. SuiteInit => PInit /\ Init /\ CascadeInit /\ BootInit /\ AuditInit /\ BusInit /\ MigrationInit
    BY DEF SuiteInit
  <1>2. [SuiteNext]_suitevars =>
           /\ [PNext]_pvars /\ [Next]_vars /\ [CascadeNext]_cascadevars /\ [BootNext]_bootvars
           /\ [AuditNext]_auditvars /\ [BusNext]_busvars /\ [MigrationNext]_migrationvars
    BY DEF SuiteNext, suitevars
  <1> QED  BY <1>1, <1>2, PTL
           DEF SuiteSpec, PSpec, Spec, CascadeSpec, BootSpec, AuditSpec, BusSpec, MigrationSpec

\* What starts and stops leave behind, in the process (any configurations, any calls)
\* and in the database (any servers, any number of migrations).
THEOREM StartsKeptAlways == SuiteSpec => []StartsKept
  <1>1. InstancesKept /\ MigrationsHold => StartsKept
    BY DEF StartsKept
  <1> QED  BY <1>1, SuiteOfParts, InstancesKeptHolds, MigrationsHoldAlways, PTL

\* Every variable of the seven components keeps its type.
THEOREM SuiteTypeCorrect == SuiteSpec => []SuiteTypeOK
  <1>1. /\ CascadeInv => CascadeTypeOK
        /\ BootInv => BootTypeOK
        /\ MigrationInv => MigrationTypeOK
        /\ BusInv => BusTypeOK
    BY CascadeConsequences, BootConsequences, MigrationConsequences, BusConsequences
  <1>2. /\ PTypeOK /\ TypeOK /\ CascadeTypeOK /\ BootTypeOK /\ AuditTypeOK /\ BusTypeOK
        /\ MigrationTypeOK
        => SuiteTypeOK
    BY DEF SuiteTypeOK
  <1> QED  BY <1>1, <1>2, AuditTypesHold, SuiteOfParts, TypeCorrect, BreakerTypeCorrect, CascadeInvariance,
           BootInvariance, MigrationInvariance, BusInvariance, AuditInvariance, PTL
=============================================================================
