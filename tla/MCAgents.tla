------------------------------ MODULE MCAgents ------------------------------
(* The instances of what agents run in and work on together: WorkflowEngine, *)
(* AgentRuntimes, Handoff, StateMachine, Tasks and PagedRecords.  They share  *)
(* no state: a behaviour is one of a single component, the others keep one   *)
(* of their initial states.                                                  *)
EXTENDS MCWorkflowEngine, AgentRuntimes, Handoff, StateMachine, Tasks, PagedRecords

CONSTANTS r1, r2, r3, a1, a2

VARIABLE part       \* the component this behaviour is about

suitevars == <<part, vars, runtimevars, handoffvars, machinevars, taskvars, pagedvars>>

SuiteInit ==
    /\ part \in {"workflow", "runtime", "handoff", "machine", "tasks", "paged"}
    /\ Init /\ MachineInit /\ TaskInit
    /\ RuntimeInit /\ (part # "runtime" => runtime = "docker" /\ mode = [i \in RuntimeIds |-> "none"])
    /\ HandoffInit /\ (part # "handoff" => oneStep)
    /\ PagedInit /\ (part # "paged" => given = 0 /\ sorted /\ keeper = "knowledge")

SuiteNext ==
    /\ UNCHANGED part
    /\ \/ /\ part = "workflow" /\ Next
          /\ UNCHANGED <<runtimevars, handoffvars, machinevars, taskvars, pagedvars>>
       \/ /\ part = "runtime" /\ RuntimeNext
          /\ UNCHANGED <<vars, handoffvars, machinevars, taskvars, pagedvars>>
       \/ /\ part = "handoff" /\ HandoffNext
          /\ UNCHANGED <<vars, runtimevars, machinevars, taskvars, pagedvars>>
       \/ /\ part = "machine" /\ MachineNext
          /\ UNCHANGED <<vars, runtimevars, handoffvars, taskvars, pagedvars>>
       \/ /\ part = "tasks" /\ TaskNext
          /\ UNCHANGED <<vars, runtimevars, handoffvars, machinevars, pagedvars>>
       \/ /\ part = "paged" /\ PagedNext
          /\ UNCHANGED <<vars, runtimevars, handoffvars, machinevars, taskvars>>

\* The engine is fair.
SuiteSpec ==
    /\ SuiteInit /\ [][SuiteNext]_suitevars
    /\ \A i \in Instances : WF_vars(part = "workflow" /\ Engine(i))

----------------------------------------------------------------------------
\* Two instances of one agent, and one of another.
MCAgentOf == (r1 :> a1) @@ (r2 :> a1) @@ (r3 :> a2)

\* The table is TaskFSM's; the generic machine over it gets a guard on a retry
\* and an action on a pause, which TaskFSM itself does not have.
MCGuarded == {<<"failed", "retry">>}
MCActing  == {<<"running", "paused">>}

SuiteTypeOK ==
    TypeOK /\ RuntimeTypeOK /\ HandoffTypeOK /\ MachineTypeOK /\ TaskTypeOK
    /\ PagedTypeOK
=============================================================================
