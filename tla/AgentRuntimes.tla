--------------------------- MODULE AgentRuntimes ---------------------------
(***************************************************************************)
(* The three agent runtimes (src/isolation/runtime/impl) and the            *)
(* /runtime-instances routes: InProcessRuntime and DockerRuntime keep a map *)
(* of instances in the process, KubernetesRuntime makes a pod and then a    *)
(* network policy for it.  Creations and destructions interleave at the     *)
(* awaits.  The cluster (external) runs and ends pods, and confines the     *)
(* egress of a pod to the union of the policies that select its labels, the *)
(* tenant and the agent; a pod that none selects is not confined.           *)
(***************************************************************************)
EXTENDS FiniteSets

CONSTANTS
    RuntimeIds,     \* the instances ever created
    Agents,         \* tenant and agent of an instance: the labels of its pod
    AgentOf,        \* the agent of each instance
    Modes           \* the modes of networkPolicy that callers use

VARIABLES
    runtime,        \* the backend
    inst,           \* the state of each instance
    creation,       \* where its createInstance is
    mode,           \* networkPolicy.mode of its spec; "none" also without one
    netpols         \* the instances whose policy np-<pod> is in the cluster

runtimevars == <<runtime, inst, creation, mode, netpols>>

ASSUME RuntimeAssumption ==
    /\ AgentOf \in [RuntimeIds -> Agents]
    /\ Modes \subseteq {"none", "allowlist", "denylist", "full"}

RuntimeTypeOK ==
    /\ runtime \in {"inprocess", "docker", "kubernetes"}
    /\ inst \in [RuntimeIds -> {"none", "creating", "running", "stopped", "failed", "gone"}]
    /\ creation \in [RuntimeIds -> {"idle", "starting", "policy", "returned", "rejected"}]
    /\ mode \in [RuntimeIds -> Modes]
    /\ netpols \subseteq {i \in RuntimeIds : mode[i] # "none" /\ runtime = "kubernetes"}

RuntimeInit ==
    /\ runtime \in {"inprocess", "docker", "kubernetes"}
    /\ inst = [i \in RuntimeIds |-> "none"]
    /\ creation = [i \in RuntimeIds |-> "idle"]
    /\ mode \in [RuntimeIds -> Modes]
    /\ netpols = {}

----------------------------------------------------------------------------
Sets(i, state, at) ==
    /\ inst' = [inst EXCEPT ![i] = state]
    /\ creation' = [creation EXCEPT ![i] = at]

CreateInProcess(i) ==
    /\ runtime = "inprocess" /\ creation[i] = "idle"
    /\ Sets(i, "running", "returned")
    /\ UNCHANGED <<runtime, mode, netpols>>

\* createInstance of Docker, up to setImmediate and after it.
CreateContainer(i) ==
    /\ runtime = "docker" /\ creation[i] = "idle"
    /\ Sets(i, "creating", "starting")
    /\ UNCHANGED <<runtime, mode, netpols>>

ContainerReady(i) ==
    /\ creation[i] = "starting"
    /\ Sets(i, "running", "returned")
    /\ UNCHANGED <<runtime, mode, netpols>>

\* createInstance of Kubernetes: the cluster has made the pod, or has refused,
\* as for the second pod of an agent in one millisecond.
CreatePod(i) ==
    /\ runtime = "kubernetes" /\ creation[i] = "idle"
    /\ \/ Sets(i, "creating", IF mode[i] = "none" THEN "returned" ELSE "policy")
       \/ Sets(i, "none", "rejected")
    /\ UNCHANGED <<runtime, mode, netpols>>

\* applyNetworkPolicy; when it throws, the pod stays.
ApplyNetworkPolicy(i) ==
    /\ creation[i] = "policy"
    /\ \/ netpols' = netpols \cup {i} /\ creation' = [creation EXCEPT ![i] = "returned"]
       \/ UNCHANGED netpols /\ creation' = [creation EXCEPT ![i] = "rejected"]
    /\ UNCHANGED <<runtime, inst, mode>>

\* Mutant: the policies are deleted by the labels of the pod.
DestroyByLabels(i) ==
    /\ inst[i] \notin {"none", "gone"}
    /\ inst' = [inst EXCEPT ![i] = IF runtime = "kubernetes" THEN "gone" ELSE "stopped"]
    /\ netpols' = netpols \ {p \in netpols : AgentOf[p] = AgentOf[i]}
    /\ UNCHANGED <<runtime, creation, mode>>

\* destroyInstance, of an instance that listInstances shows while it is created
\* too: the pod goes and its policy stays, an entry of the map is stopped.
Destroy(i) ==
    /\ inst[i] \notin {"none", "gone"}
    /\ inst' = [inst EXCEPT ![i] = IF runtime = "kubernetes" THEN "gone" ELSE "stopped"]
    /\ UNCHANGED <<runtime, creation, mode, netpols>>

\* External: the phases of a pod, as podToInstance shows them; restartPolicy is
\* Never and activeDeadlineSeconds ends it.
PodRuns(i) ==
    /\ runtime = "kubernetes" /\ inst[i] = "creating"
    /\ inst' = [inst EXCEPT ![i] = "running"]
    /\ UNCHANGED <<runtime, creation, mode, netpols>>

PodEnds(i) ==
    /\ runtime = "kubernetes" /\ inst[i] \in {"creating", "running"}
    /\ \E state \in {"stopped", "failed"} : inst' = [inst EXCEPT ![i] = state]
    /\ UNCHANGED <<runtime, creation, mode, netpols>>

\* The process crashes: the maps are lost, pods and policies are not, and a pod
\* that waited for its policy never gets it.
ProcessCrash ==
    /\ creation' = [i \in RuntimeIds |->
                      IF creation[i] \in {"policy", "starting"} THEN "rejected" ELSE creation[i]]
    /\ inst' = IF runtime = "kubernetes" THEN inst
               ELSE [i \in RuntimeIds |-> IF inst[i] = "none" THEN "none" ELSE "gone"]
    /\ UNCHANGED <<runtime, mode, netpols>>

RuntimeNext ==
    \/ \E i \in RuntimeIds :
          \/ CreateInProcess(i) \/ CreateContainer(i) \/ ContainerReady(i)
          \/ CreatePod(i) \/ ApplyNetworkPolicy(i) \/ Destroy(i)
          \/ PodRuns(i) \/ PodEnds(i)
    \/ ProcessCrash

RuntimeSpec == RuntimeInit /\ [][RuntimeNext]_runtimevars

----------------------------------------------------------------------------
Selecting(i) == {p \in netpols : AgentOf[p] = AgentOf[i]}
Exists(i) == inst[i] \notin {"none", "gone"}

\* A pod for which a policy was asked is not confined only until createInstance
\* has returned, or if it rejected, in which case nobody removes the pod.
ConfinedOnceReturned ==
    \A i \in RuntimeIds :
        runtime = "kubernetes" /\ Exists(i) /\ mode[i] # "none" /\ Selecting(i) = {} =>
            creation[i] \in {"policy", "rejected"}

\* What a pod may reach depends on its own policy and on those made for other
\* pods of its agent, before it or after, and stays confined when they go: the
\* policies that select a pod are never fewer.
PoliciesAccumulate ==
    [][\A i \in RuntimeIds : Exists(i) => Selecting(i) \subseteq Selecting(i)']_runtimevars

\* An instance that has been stopped or has failed does not run again, except a
\* container stopped while it was being created.
StoppedStays ==
    [][\A i \in RuntimeIds : inst[i] \in {"stopped", "failed"} /\ inst'[i] \in {"creating", "running"} =>
          runtime = "docker" /\ creation[i] = "starting"]_runtimevars

\* Instances stay stopped, and pods confined.
PodsConfined == []ConfinedOnceReturned /\ PoliciesAccumulate /\ StoppedStays
=============================================================================
