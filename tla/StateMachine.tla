---------------------------- MODULE StateMachine ----------------------------
(***************************************************************************)
(* StateMachine (src/reliability/state-machine/state-machine.ts)            *)
(* and TaskFSM (src/collaboration/task/task-fsm.ts), which is the same      *)
(* machine over a fixed table, without guards and actions.                  *)
(* send moves the machine and then awaits an action of the transition, so   *)
(* that other sends run before it returns.                                  *)
(***************************************************************************)
EXTENDS Naturals, Sequences

CONSTANTS
    Transitions,    \* the table: records with from, event and to
    InitialState,
    TerminalStates,
    Guarded,        \* the <<from, event>> with a guard, which may refuse
    Acting,         \* the <<from, to>> with an action to await
    Senders,        \* callers of send, each with at most one call at a time
    MaxHistory      \* bound: transitions before the callers stop

MachineStates == {InitialState} \cup {t.from : t \in Transitions} \cup {t.to : t \in Transitions}
Events == {t.event : t \in Transitions}

\* find takes the first transition of the table, and there is one at most.
ASSUME TableAssumption ==
    /\ \A t, u \in Transitions : t.from = u.from /\ t.event = u.event => t = u
    /\ MaxHistory \in Nat

VARIABLES
    machine,        \* _state and _history
    send,           \* the calls
    snapshot        \* what serialize returned last

machinevars == <<machine, send, snapshot>>

Machine == [state : MachineStates, history : Seq(Transitions)]

MachineTypeOK ==
    /\ machine \in Machine /\ snapshot \in Machine
    /\ send \in [Senders -> [at : {"idle", "acting", "returned", "rejected"},
                             result : MachineStates, entered : Nat]]
    /\ Len(machine.history) <= MaxHistory

Blank == [state |-> InitialState, history |-> <<>>]

MachineInit ==
    /\ machine = Blank /\ snapshot = Blank
    /\ send = [s \in Senders |-> [at |-> "idle", result |-> InitialState, entered |-> 0]]

----------------------------------------------------------------------------
From(state, event) == {t \in Transitions : t.from = state /\ t.event = event}

\* canHandle, canTransition; availableEvents.
CanHandle(event) == From(machine.state, event) # {}
AvailableEvents == {e \in Events : CanHandle(e)}

Sending(s) == send[s].at # "acting" /\ Len(machine.history) < MaxHistory

\* send throws: there is no transition, or its guard refuses.
Refuse(s, event) ==
    /\ Sending(s)
    /\ event \notin AvailableEvents \/ <<machine.state, event>> \in Guarded
    /\ send' = [send EXCEPT ![s].at = "rejected"]
    /\ UNCHANGED <<machine, snapshot>>

\* send and transition: the machine moves; without an action send returns.
Move(s, event) ==
    /\ Sending(s)
    /\ \E t \in From(machine.state, event) :
          /\ machine' = [state |-> t.to, history |-> Append(machine.history, t)]
          /\ send' = [send EXCEPT ![s] =
                        [at |-> IF <<t.from, t.to>> \in Acting THEN "acting" ELSE "returned",
                         result |-> t.to, entered |-> Len(machine.history) + 1]]
    /\ UNCHANGED snapshot

\* The action is over, and send returns the state the machine is in by now.
ActionEnds(s) ==
    /\ send[s].at = "acting"
    /\ send' = [send EXCEPT ![s].at = "returned", ![s].result = machine.state]
    /\ UNCHANGED <<machine, snapshot>>

\* The action throws, and send with it; the machine has moved all the same.
ActionThrows(s) ==
    /\ send[s].at = "acting"
    /\ send' = [send EXCEPT ![s].at = "rejected"]
    /\ UNCHANGED <<machine, snapshot>>

Serialize ==
    /\ snapshot' = machine
    /\ UNCHANGED <<machine, send>>

\* Mutant: the new process starts a machine of its own.
RestoreNothing ==
    /\ machine' = Blank
    /\ send' = [s \in Senders |-> [at |-> "idle", result |-> InitialState, entered |-> 0]]
    /\ UNCHANGED snapshot

\* A new process restores the machine of the last snapshot; its calls are gone.
Restore ==
    /\ machine' = snapshot
    /\ send' = [s \in Senders |-> [at |-> "idle", result |-> InitialState, entered |-> 0]]
    /\ UNCHANGED snapshot

MachineNext ==
    \/ \E s \in Senders :
          \/ ActionEnds(s) \/ ActionThrows(s)
          \/ \E e \in Events : Refuse(s, e) \/ Move(s, e)
    \/ Serialize \/ Restore

MachineSpec == MachineInit /\ [][MachineNext]_machinevars

----------------------------------------------------------------------------
\* The history is a path of the table from the initial state to the current
\* one, restores and sends that run into each other included.
HistoryIsPath ==
    LET h == machine.history
        At(i) == IF i = 0 THEN InitialState ELSE h[i].to
    IN  /\ machine.state = At(Len(h))
        /\ \A i \in DOMAIN h : h[i] \in Transitions /\ h[i].from = At(i - 1)

\* A machine never leaves a terminal state, except back to a snapshot.
TerminalIsFinal ==
    [][machine.state \in TerminalStates =>
          machine' = machine \/ machine' = snapshot]_machinevars

\* send answers with a state that the machine was in after its own transition,
\* however many other transitions its action has let by.
AnswersReached ==
    \A s \in Senders : send[s].at = "returned" =>
        \E i \in send[s].entered .. Len(machine.history) : machine.history[i].to = send[s].result

\* The machine, its history and its answers tell the same.
MachineTrue == []HistoryIsPath /\ []AnswersReached /\ TerminalIsFinal
=============================================================================
