---------------------------- MODULE CascadeKill ----------------------------
(***************************************************************************)
(* CascadeKillManager (src/reliability/timeout/cascade-kill.ts): one task,  *)
(* whose callbacks are called one after the other, by timers each of which  *)
(* the stage before it sets.  Nothing is awaited: the steps interleave only *)
(* because a callback may itself call register, cancel and trigger, between *)
(* the moment its timer has fired and the moment the next timer is set.     *)
(***************************************************************************)
EXTENDS Naturals, FiniteSets

CONSTANTS
    MaxRegistrations,   \* bound: calls of register
    MaxTriggers         \* bound: calls of trigger that find callbacks

ASSUME CascadeAssumption == MaxRegistrations \in Nat /\ MaxTriggers \in Nat

Stages == {"signal", "abort", "kill"}
Following == [signal |-> "abort", abort |-> "kill"]

VARIABLES
    registered,     \* the registration in callbacks; 0 without one
    registrations,  \* auxiliary: how many there were
    triggers,       \* auxiliary: how many calls of trigger found callbacks
    pending,        \* the timers that are set: stage, registration and trigger
    timerOf,        \* the three maps: the timer of each stage, {} without one
    calling,        \* the timer whose callback is being called
    inside          \* auxiliary: what the callbacks of some stage have called

cascadevars == <<registered, registrations, triggers, pending, timerOf, calling, inside>>

Timers == [stage : Stages, reg : 1 .. MaxRegistrations, by : 1 .. MaxTriggers]

CascadeTypeOK ==
    /\ registered \in 0 .. registrations /\ registrations \in 0 .. MaxRegistrations
    /\ triggers \in 0 .. MaxTriggers
    /\ pending \subseteq Timers
    /\ timerOf \in [Stages -> SUBSET Timers] /\ \A s \in Stages : Cardinality(timerOf[s]) <= 1
    /\ calling \subseteq Timers /\ Cardinality(calling) <= 1
    /\ inside \subseteq {"cancel", "trigger"}

CascadeInit ==
    /\ registered = 0 /\ registrations = 0 /\ triggers = 0 /\ pending = {} /\ calling = {}
    /\ timerOf = [s \in Stages |-> {}] /\ inside = {}

----------------------------------------------------------------------------
\* Mutant: the timer of the last stage is not cleared.
ClearTimersButKill ==
    /\ pending' = pending \ (timerOf["signal"] \cup timerOf["abort"])
    /\ timerOf' = [s \in Stages |-> {}]

\* clearTimers: the timers in the maps.
ClearTimers ==
    /\ pending' = pending \ UNION {timerOf[s] : s \in Stages}
    /\ timerOf' = [s \in Stages |-> {}]

\* What a callback calls is noted.
Noted(what) == inside' = IF calling = {} THEN inside ELSE inside \cup {what}

\* register: new callbacks, and the timers of the old ones go on.
Register ==
    /\ registrations < MaxRegistrations
    /\ registrations' = registrations + 1 /\ registered' = registrations + 1
    /\ UNCHANGED <<triggers, pending, timerOf, calling, inside>>

\* cancel of a handle, whichever registration it came from.
Cancel ==
    /\ registrations > 0 /\ ClearTimers /\ registered' = 0 /\ Noted("cancel")
    /\ UNCHANGED <<registrations, triggers, calling>>

\* trigger, with callbacks.
Trigger ==
    /\ registered # 0 /\ triggers < MaxTriggers
    /\ LET t == [stage |-> "signal", reg |-> registered, by |-> triggers + 1]
       IN  /\ pending' = (pending \ UNION {timerOf[s] : s \in Stages}) \cup {t}
           /\ timerOf' = [s \in Stages |-> IF s = "signal" THEN {t} ELSE {}]
    /\ triggers' = triggers + 1 /\ Noted("trigger")
    /\ UNCHANGED <<registered, registrations, calling>>

\* A timer fires: the callback of its registration is called.
FireTimer(t) ==
    /\ t \in pending /\ calling = {}
    /\ pending' = pending \ {t} /\ calling' = {t}
    /\ UNCHANGED <<registered, registrations, triggers, timerOf, inside>>

\* Mutant: the stage is called again, as by an interval.
StageEndsAgain(t) ==
    /\ t \in calling /\ calling' = {} /\ t.stage # "kill"
    /\ pending' = pending \cup {t} /\ timerOf' = [timerOf EXCEPT ![t.stage] = {t}]
    /\ UNCHANGED <<registered, registrations, triggers, inside>>

\* The callback has returned: the timer of the next stage is set, whatever the
\* callback has cancelled or triggered.
StageEnds(t) ==
    /\ t \in calling /\ calling' = {} /\ t.stage # "kill"
    /\ LET next == [t EXCEPT !.stage = Following[t.stage]]
       IN  /\ pending' = pending \cup {next}
           /\ timerOf' = [timerOf EXCEPT ![next.stage] = {next}]
    /\ UNCHANGED <<registered, registrations, triggers, inside>>

\* After onKill the task is forgotten, with what onKill may have registered.
KillEnds(t) ==
    /\ t \in calling /\ calling' = {} /\ t.stage = "kill"
    /\ ClearTimers /\ registered' = 0
    /\ UNCHANGED <<registrations, triggers, inside>>

\* A callback throws: the cascade ends where it is.
CallbackThrows(t) ==
    /\ t \in calling /\ calling' = {}
    /\ UNCHANGED <<registered, registrations, triggers, pending, timerOf, inside>>

CascadeNext ==
    \/ Register \/ Cancel \/ Trigger
    \/ \E t \in pending : FireTimer(t)
    \/ \E t \in calling : StageEnds(t) \/ KillEnds(t) \/ CallbackThrows(t)

CascadeSpec == CascadeInit /\ [][CascadeNext]_cascadevars

\* Timers fire and callbacks end.
CascadeFairness ==
    /\ WF_cascadevars(\E t \in pending : FireTimer(t))
    /\ WF_cascadevars(\E t \in calling : StageEnds(t) \/ KillEnds(t) \/ CallbackThrows(t))

----------------------------------------------------------------------------
\* One cascade at a time: a second trigger stops the first, unless a callback
\* triggers, for the stage that calls it goes on.
OneCascade == Cardinality(pending) + Cardinality(calling) <= 1 \/ "trigger" \in inside

\* After cancel no stage is called any more until the task is registered and
\* triggered again, unless a callback cancels its own task: the next timer is
\* set after that, and only a second cancel clears it.
CancelStops ==
    registered = 0 /\ calling = {} => pending = {} \/ inside # {}

\* A timer that is set can be cancelled: it is in the map of its stage, unless
\* callbacks have triggered a second cascade, which overwrites it there.
Cancellable == \A t \in pending : t \in timerOf[t.stage] \/ "trigger" \in inside

\* A cascade that has begun comes to its end: it kills, or it is cancelled, or
\* triggered anew, or a callback has thrown.
CascadeEnds == []<>(pending \cup calling = {})

\* A cascade is one, is stopped by cancel, and can be stopped.
CascadeObeys == OneCascade /\ CancelStops /\ Cancellable
=============================================================================
