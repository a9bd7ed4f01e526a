--------------------------- MODULE CircuitBreaker ---------------------------
(***************************************************************************)
(* CircuitBreaker (src/reliability/circuit-breaker/circuit-breaker.ts): one *)
(* breaker shared by concurrent callers.  execute runs to its await in one  *)
(* step (Enter) and from the settlement of the call to its end in another   *)
(* (Succeed, Fail), so a call admitted in one state may settle in another.  *)
(* A call always settles: withTimeout rejects after timeoutMs.              *)
(*                                                                          *)
(* consecutiveFailures and consecutiveSuccesses are only compared with      *)
(* their thresholds, so they are counted up to them; the statistics that no *)
(* guard reads (failures, successes, last*At) are left out.  cooled says    *)
(* that resetTimeMs has passed since openedAt.  onStateChange is taken to   *)
(* neither throw nor re-enter the breaker.                                  *)
(***************************************************************************)
EXTENDS Naturals, FiniteSets

CONSTANTS
    Calls,              \* the callers, each with at most one call at a time
    FailureThreshold,
    SuccessThreshold,
    HalfOpenMaxCalls

ASSUME BreakerAssumption ==
    /\ IsFiniteSet(Calls)
    /\ FailureThreshold \in Nat \ {0}
    /\ SuccessThreshold \in Nat \ {0}
    /\ HalfOpenMaxCalls \in Nat \ {0}

VARIABLES
    state,
    consecutiveFailures,
    consecutiveSuccesses,
    halfOpenCalls,
    cooled,
    running,    \* calls admitted and not settled
    probes      \* auxiliary: those of running admitted in this half-open episode

vars == <<state, consecutiveFailures, consecutiveSuccesses, halfOpenCalls,
          cooled, running, probes>>

States == {"closed", "open", "half_open"}

TypeOK ==
    /\ state \in States
    /\ consecutiveFailures \in 0 .. FailureThreshold
    /\ consecutiveSuccesses \in 0 .. SuccessThreshold
    /\ halfOpenCalls \in Nat
    /\ cooled \in BOOLEAN
    /\ running \subseteq Calls
    /\ probes \subseteq running

Init ==
    /\ state = "closed"
    /\ consecutiveFailures = 0
    /\ consecutiveSuccesses = 0
    /\ halfOpenCalls = 0
    /\ cooled = FALSE
    /\ running = {}
    /\ probes = {}

\* Mutant: counted one past the threshold.
UpToAndOver(n, threshold) == IF n <= threshold THEN n + 1 ELSE n

\* One more, counted up to the threshold it is compared with.
UpTo(n, threshold) == IF n < threshold THEN n + 1 ELSE n

----------------------------------------------------------------------------
\* checkState, the state execute goes on with.
Checked == IF state = "open" /\ cooled THEN "half_open" ELSE state

Admitted ==
    \/ Checked = "closed"
    \/ Checked = "half_open" /\ halfOpenCalls < HalfOpenMaxCalls

\* execute up to the await: the call starts.
Enter(c) ==
    /\ c \notin running
    /\ Admitted
    /\ state' = Checked
    /\ running' = running \cup {c}
    /\ IF Checked = "half_open"
       THEN /\ halfOpenCalls' = halfOpenCalls + 1
            /\ probes' = probes \cup {c}
       ELSE UNCHANGED <<halfOpenCalls, probes>>
    /\ UNCHANGED <<consecutiveFailures, consecutiveSuccesses, cooled>>

\* execute throws CircuitBreakerOpenError; checkState has run.
Reject(c) ==
    /\ c \notin running
    /\ ~ Admitted
    /\ state' = Checked
    /\ UNCHANGED <<consecutiveFailures, consecutiveSuccesses, halfOpenCalls,
                   cooled, running, probes>>

\* Mutant: a success closes the breaker from any state.
CloseOnAnySuccess == UpTo(consecutiveSuccesses, SuccessThreshold) = SuccessThreshold

\* onSuccess's test, on the incremented counter.
CloseOnSuccess ==
    /\ state = "half_open"
    /\ UpTo(consecutiveSuccesses, SuccessThreshold) = SuccessThreshold

\* The call resolves in time: onSuccess.
Succeed(c) ==
    /\ c \in running
    /\ running' = running \ {c}
    /\ consecutiveSuccesses' = UpTo(consecutiveSuccesses, SuccessThreshold)
    /\ consecutiveFailures' = 0
    /\ IF CloseOnSuccess
       THEN state' = "closed" /\ halfOpenCalls' = 0 /\ probes' = {}
       ELSE UNCHANGED <<state, halfOpenCalls>> /\ probes' = probes \ {c}
    /\ UNCHANGED cooled

FailedProbe(c) ==
    /\ state = "half_open"
    /\ state' = "open" /\ cooled' = FALSE /\ probes' = {}
    /\ halfOpenCalls' = 0

\* The call rejects or times out: onFailure.
Fail(c) ==
    /\ c \in running
    /\ running' = running \ {c}
    /\ consecutiveFailures' = UpTo(consecutiveFailures, FailureThreshold)
    /\ consecutiveSuccesses' = 0
    /\ \/ /\ state = "closed" /\ consecutiveFailures' = FailureThreshold
          /\ state' = "open" /\ cooled' = FALSE
          /\ probes' = probes \ {c} /\ UNCHANGED halfOpenCalls
       \/ FailedProbe(c)
       \/ /\ state = "open" \/ (state = "closed" /\ consecutiveFailures' < FailureThreshold)
          /\ probes' = probes \ {c}
          /\ UNCHANGED <<state, cooled, halfOpenCalls>>

\* reset(), at any time; calls that run go on.
Reset ==
    /\ state' = "closed"
    /\ consecutiveFailures' = 0
    /\ consecutiveSuccesses' = 0
    /\ halfOpenCalls' = 0
    /\ probes' = {}
    /\ UNCHANGED <<cooled, running>>

\* resetTimeMs have passed since openedAt.
Cool ==
    /\ state = "open" /\ ~cooled
    /\ cooled' = TRUE
    /\ UNCHANGED <<state, consecutiveFailures, consecutiveSuccesses,
                   halfOpenCalls, running, probes>>

Next ==
    \/ \E c \in Calls : Enter(c) \/ Reject(c) \/ Succeed(c) \/ Fail(c)
    \/ Reset
    \/ Cool

Spec == Init /\ [][Next]_vars

\* Every admitted call settles (withTimeout's timer), callers keep calling.
Fairness ==
    \A c \in Calls : WF_vars(Succeed(c) \/ Fail(c)) /\ WF_vars(Enter(c))

LiveSpec == Spec /\ Fairness

----------------------------------------------------------------------------
\* However calls of several episodes overlap, the breaker never has more
\* probes of the current half-open episode outstanding than halfOpenMaxCalls,
\* and outside half_open the budget is untouched.
ProbeBudget ==
    /\ halfOpenCalls <= HalfOpenMaxCalls
    /\ Cardinality(probes) <= halfOpenCalls
    /\ state # "half_open" => halfOpenCalls = 0

\* halfOpenCalls is never decremented while half-open, so a settled probe
\* uses the budget up; with a budget of at least successThreshold the breaker
\* still never rejects every caller with no probe left to decide.
NeverStuck ==
    SuccessThreshold <= HalfOpenMaxCalls =>
        (state = "half_open" /\ probes = {} => halfOpenCalls < HalfOpenMaxCalls)

\* closed -> open -> half_open -> closed|open: an open breaker closes only by
\* reset(), whatever late successes arrive, and a closed one never probes.
TransitionOrder ==
    [][/\ state = "closed" => state' # "half_open"
       /\ state = "open" /\ state' = "closed" => Reset]_vars

\* Half-open some probe decides, not too many, and nothing else closes it.
BreakerSound == []ProbeBudget /\ []NeverStuck /\ TransitionOrder

\* Half-open is transient: it ends closed or open again.
HalfOpenEnds == []<>(state # "half_open")
=============================================================================
