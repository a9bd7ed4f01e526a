---------------------------- MODULE AgentsProofs ----------------------------
(***************************************************************************)
(* Proofs about AgentRuntimes, Handoff, StateMachine, Tasks, WorkflowEngine *)
(* and PagedRecords for any instances, calls, definitions and bounds.       *)
(*                                                                          *)
(* Each invariant says what a suspended call may rely on: where a creation  *)
(* is tells whether its pod has its policy, an update that has been let     *)
(* through has read a status that its updater accepts, a loaded task has    *)
(* its message, a workflow's saved instance is the one in memory, or what   *)
(* that was before the save under way, and a call that goes through pages   *)
(* has met the rows that are listed before its offset.                      *)
(***************************************************************************)
EXTENDS MCAgents, FiniteSetTheorems, SequenceTheorems, TLAPS

----------------------------------------------------------------------------
(* Agent runtimes.                                                          *)

\* What the progress of a creation says about its instance.
Created ==
    \A i \in RuntimeIds :
        /\ creation[i] = "idle" => inst[i] = "none"
        /\ creation[i] = "starting" => runtime = "docker"
        /\ creation[i] = "policy" => runtime = "kubernetes" /\ mode[i] # "none"
        /\ creation[i] = "returned" /\ runtime = "kubernetes" /\ mode[i] # "none" =>
              i \in netpols

RuntimeInv == RuntimeTypeOK /\ Created

LEMMA RuntimeInvariance == RuntimeSpec => []RuntimeInv
  <1>1. RuntimeInit => RuntimeInv
    BY DEF RuntimeInit, RuntimeInv, RuntimeTypeOK, Created
  <1>2. ASSUME RuntimeInv, [RuntimeNext]_runtimevars PROVE RuntimeInv'
    <2> USE <1>2 DEF RuntimeInv, RuntimeTypeOK, Created
    <2>1. CASE UNCHANGED runtimevars
      BY <2>1 DEF runtimevars
    <2>2. CASE ProcessCrash
      BY <2>2 DEF ProcessCrash
    <2>3. ASSUME NEW i \in RuntimeIds,
                 CreateInProcess(i) \/ CreateContainer(i) \/ ContainerReady(i) \/ CreatePod(i)
          PROVE  RuntimeInv'
      BY <2>3 DEF CreateInProcess, CreateContainer, ContainerReady, CreatePod, Sets
    <2>4. ASSUME NEW i \in RuntimeIds,
                 ApplyNetworkPolicy(i) \/ Destroy(i) \/ PodRuns(i) \/ PodEnds(i)
          PROVE  RuntimeInv'
      BY <2>4 DEF ApplyNetworkPolicy, Destroy, PodRuns, PodEnds
    <2> QED  BY <2>1, <2>2, <2>3, <2>4 DEF RuntimeNext
  <1> QED  BY <1>1, <1>2, PTL DEF RuntimeSpec

\* A pod for which a policy was asked has it once createInstance has returned: no
\* crash, destruction or end of another pod takes it away.
THEOREM ConfinedOnceReturnedHolds == RuntimeSpec => []ConfinedOnceReturned
  <1>1. RuntimeInv => ConfinedOnceReturned
    BY DEF RuntimeInv, RuntimeTypeOK, Created, ConfinedOnceReturned, Selecting, Exists
  <1> QED  BY <1>1, RuntimeInvariance, PTL

\* The policies that select the labels of a pod are never fewer.
THEOREM PoliciesAccumulateHolds == RuntimeSpec => PoliciesAccumulate
  <1>1. [RuntimeNext]_runtimevars =>
          [\A i \in RuntimeIds : Exists(i) => Selecting(i) \subseteq Selecting(i)']_runtimevars
    <2>1. RuntimeNext => netpols \subseteq netpols'
      BY DEF RuntimeNext, CreateInProcess, CreateContainer, ContainerReady, CreatePod,
         ApplyNetworkPolicy, Destroy, PodRuns, PodEnds, ProcessCrash
    <2> QED  BY <2>1 DEF Selecting
  <1> QED  BY <1>1, PTL DEF RuntimeSpec, PoliciesAccumulate

\* What has stopped or failed does not run again, but for a container that was
\* stopped while it was being created.
THEOREM StoppedStaysHolds == RuntimeSpec => StoppedStays
  <1>1. RuntimeInv /\ [RuntimeNext]_runtimevars =>
          [\A i \in RuntimeIds :
             inst[i] \in {"stopped", "failed"} /\ inst'[i] \in {"creating", "running"} =>
                runtime = "docker" /\ creation[i] = "starting"]_runtimevars
    BY DEF RuntimeInv, RuntimeTypeOK, Created, RuntimeNext, CreateInProcess, CreateContainer,
       ContainerReady, CreatePod, ApplyNetworkPolicy, Destroy, PodRuns, PodEnds,
       ProcessCrash, Sets
  <1> QED  BY <1>1, RuntimeInvariance, PTL DEF RuntimeSpec, StoppedStays

\* Instances stay stopped, and pods confined.
THEOREM PodsConfinedHolds == RuntimeSpec => PodsConfined
  BY ConfinedOnceReturnedHolds, PoliciesAccumulateHolds, StoppedStaysHolds, PTL
  DEF PodsConfined

----------------------------------------------------------------------------
(* Handoffs.                                                                *)

\* A write under way was let through by its updater, and only the memory backend
\* has one.
LetThrough ==
    \A c \in HandoffCalls : hcall[c].at = "write" =>
        /\ ~oneStep
        /\ hcall[c].to \in Ends \cup {"assigned"}
        /\ MayBecome(hcall[c].to, hcall[c].read)

EndsIt(c, h) == Wrote(c) /\ hcall[c].id = h /\ hcall[c].to \in Ends

\* Until somebody overwrites a request, what ended it is its status, and one call.
EndedByOne ==
    \A h \in Handoffs \ overlapped :
        /\ \A c \in HandoffCalls : EndsIt(c, h) => handoff[h] = hcall[c].to
        /\ \A c, d \in HandoffCalls : EndsIt(c, h) /\ EndsIt(d, h) => c = d

\* A request that was written is there, and somebody has written its end, and has
\* said so unless it threw.
EndHasCall ==
    /\ \A c \in HandoffCalls : Wrote(c) => handoff[hcall[c].id] # "none"
    /\ \A h \in Handoffs : handoff[h] \in Ends =>
          \E c \in HandoffCalls : /\ hcall[c].id = h /\ hcall[c].to = handoff[h]
                                  /\ hcall[c].at \in {"publish", "done", "rejected"}
    /\ \A c \in HandoffCalls :
          hcall[c].at = "done" => <<hcall[c].id, hcall[c].to, c>> \in announced
    /\ \A e \in announced :
          hcall[e[3]].at = "done" /\ hcall[e[3]].id = e[1] /\ hcall[e[3]].to = e[2]

HandoffInv == HandoffTypeOK /\ LetThrough /\ EndedByOne /\ EndHasCall

HCall == [id : Handoffs, to : Statuses, read : Statuses,
          at : {"idle", "write", "publish", "done", "rejected"}]

LEMMA HandoffInitInv == HandoffInit => HandoffInv
  <1> SUFFICES ASSUME HandoffInit PROVE HandoffInv
    OBVIOUS
  <1>1. (CHOOSE h \in Handoffs : TRUE) \in Handoffs
    BY HandoffAssumption
  <1>2. \A c \in HandoffCalls : hcall[c].at = "idle" /\ hcall[c].to = "none"
    BY DEF HandoffInit
  <1>3. HandoffTypeOK
    BY <1>1 DEF HandoffInit, HandoffTypeOK, Statuses
  <1> QED
    BY <1>2, <1>3 DEF HandoffInit, HandoffInv, LetThrough, EndedByOne, EndsIt, EndHasCall,
       Wrote, Ends

\* What a write of status to by call c needs to keep the invariant: the request had
\* no end, or the write is one over a stale read.
LEMMA StoresInv ==
  ASSUME HandoffInv, NEW c \in HandoffCalls, NEW h \in Handoffs, NEW to \in Statuses,
         NEW old \in Statuses, Stores(c, h, to, old), hcall[c].at \in {"idle", "write"},
         UNCHANGED <<oneStep, announced>>, overlapped \subseteq overlapped',
         overlapped' \subseteq Handoffs, to # "none",
         handoff[h] \notin Ends \/ h \in overlapped'
  PROVE  HandoffInv'
  <1> USE DEF HandoffInv
  <1>1. /\ hcall' \in [HandoffCalls -> HCall] /\ handoff' \in [Handoffs -> Statuses]
        /\ handoff'[h] = to /\ \A g \in Handoffs : g # h => handoff'[g] = handoff[g]
        /\ hcall'[c] = [id |-> h, to |-> to, read |-> old, at |-> "publish"]
        /\ \A d \in HandoffCalls : d # c => hcall'[d] = hcall[d]
    BY DEF Stores, HandoffTypeOK, HCall
  <1>2. \A e \in announced : e[3] # c /\ e[3] \in HandoffCalls /\ e[1] \in Handoffs
    BY DEF EndHasCall, HandoffTypeOK
  <1>3. HandoffTypeOK'
    <2>1. \A e \in announced' : handoff'[e[1]] # "none" /\ hcall'[e[3]].to = e[2]
      BY <1>1, <1>2 DEF HandoffTypeOK
    <2> QED  BY <1>1, <2>1 DEF HandoffTypeOK, HCall
  <1>4. LetThrough'
    BY <1>1 DEF LetThrough
  <1>5. EndedByOne'
    <2> SUFFICES ASSUME NEW g \in Handoffs \ overlapped'
                 PROVE  /\ \A d \in HandoffCalls : EndsIt(d, g)' => handoff'[g] = hcall'[d].to
                        /\ \A d, e \in HandoffCalls : EndsIt(d, g)' /\ EndsIt(e, g)' => d = e
      BY DEF EndedByOne
    <2>1. g \in Handoffs \ overlapped
      OBVIOUS
    <2>2. \A d \in HandoffCalls : d # c => (EndsIt(d, g)' <=> EndsIt(d, g))
      BY <1>1 DEF EndsIt, Wrote
    <2>3. CASE g = h
      <3>1. \A d \in HandoffCalls : ~EndsIt(d, g)
        BY <2>1, <2>3 DEF EndedByOne, EndsIt
      <3> QED  BY <1>1, <2>2, <2>3, <3>1
    <2>4. CASE g # h
      <3>1. ~EndsIt(c, g)'
        BY <1>1, <2>4 DEF EndsIt
      <3> QED  BY <1>1, <2>1, <2>2, <2>4, <3>1 DEF EndedByOne
    <2> QED  BY <2>3, <2>4
  <1>6. EndHasCall'
    <2>1. ASSUME NEW g \in Handoffs, handoff'[g] \in Ends
          PROVE  \E d \in HandoffCalls : /\ hcall'[d].id = g /\ hcall'[d].to = handoff'[g]
                                         /\ hcall'[d].at \in {"publish", "done", "rejected"}
      <3>1. CASE g = h
        BY <1>1, <3>1
      <3>2. CASE g # h
        BY <1>1, <2>1, <3>2 DEF EndHasCall
      <3> QED  BY <3>1, <3>2
    <2>2. \A d \in HandoffCalls :
             hcall'[d].at = "done" => <<hcall'[d].id, hcall'[d].to, d>> \in announced'
      BY <1>1 DEF EndHasCall
    <2>3. \A e \in announced' :
             hcall'[e[3]].at = "done" /\ hcall'[e[3]].id = e[1] /\ hcall'[e[3]].to = e[2]
      BY <1>1, <1>2 DEF EndHasCall
    <2>4. \A d \in HandoffCalls : Wrote(d)' => handoff'[hcall'[d].id] # "none"
      BY <1>1 DEF EndHasCall, Wrote, HandoffTypeOK
    <2> QED  BY <2>1, <2>2, <2>3, <2>4 DEF EndHasCall
  <1> QED  BY <1>3, <1>4, <1>5, <1>6

LEMMA HandoffStepInv == HandoffInv /\ [HandoffNext]_handoffvars => HandoffInv'
  <1> SUFFICES ASSUME HandoffInv, [HandoffNext]_handoffvars PROVE HandoffInv'
    OBVIOUS
  <1> USE DEF HandoffInv
  <1>1. CASE UNCHANGED handoffvars
    BY <1>1 DEF handoffvars, HandoffTypeOK, LetThrough, EndedByOne, EndsIt, EndHasCall, Wrote
  <1>2. ASSUME NEW c \in HandoffCalls, NEW h \in Handoffs, CreateRequest(c, h)
        PROVE  HandoffInv'
    <2>1. handoff[h] \notin Ends /\ {"pending", "none"} \subseteq Statuses
      BY <1>2 DEF CreateRequest, Ends, Statuses
    <2> QED  BY <1>2, <2>1, StoresInv DEF CreateRequest, HandoffTypeOK
  <1>3. ASSUME NEW c \in HandoffCalls, NEW h \in Handoffs,
               NEW to \in Ends \cup {"assigned"}, UpdateRequest(c, h, to)
        PROVE  HandoffInv'
    <2>1. to \in Statuses /\ handoff[h] \in Statuses /\ to # "none" /\ overlapped \subseteq Handoffs
      BY DEF Ends, Statuses, HandoffTypeOK
    <2>2. CASE MayBecome(to, handoff[h]) /\ oneStep
      <3>1. handoff[h] \notin Ends
        BY <2>2 DEF MayBecome, Ends
      <3> QED  BY <1>3, <2>1, <2>2, <3>1, StoresInv DEF UpdateRequest
    <2>3. CASE ~(MayBecome(to, handoff[h]) /\ oneStep)
      <3>1. PICK at \in {"rejected", "write"} :
               /\ hcall' = [hcall EXCEPT ![c] = [id |-> h, to |-> to, read |-> handoff[h], at |-> at]]
               /\ at = "write" => MayBecome(to, handoff[h]) /\ ~oneStep
        <4>1. CASE ~MayBecome(to, handoff[h])
          BY <1>3, <4>1 DEF UpdateRequest
        <4>2. CASE MayBecome(to, handoff[h]) /\ ~oneStep
          BY <1>3, <4>2 DEF UpdateRequest
        <4> QED  BY <2>3, <4>1, <4>2
      <3>2. hcall[c].at = "idle" /\ UNCHANGED <<oneStep, handoff, announced, overlapped>>
        BY <1>3, <2>3 DEF UpdateRequest
      <3>3. /\ hcall' \in [HandoffCalls -> HCall]
            /\ hcall'[c] = [id |-> h, to |-> to, read |-> handoff[h], at |-> at]
            /\ \A d \in HandoffCalls : d # c => hcall'[d] = hcall[d]
        BY <2>1, <3>1 DEF HandoffTypeOK, HCall
      <3>4. \A e \in announced : e[3] # c /\ e[3] \in HandoffCalls
        BY <3>2 DEF EndHasCall, HandoffTypeOK
      <3>5. HandoffTypeOK' /\ LetThrough'
        BY <3>1, <3>2, <3>3, <3>4 DEF HandoffTypeOK, HCall, LetThrough
      <3>6. \A d \in HandoffCalls, g \in Handoffs : EndsIt(d, g)' <=> EndsIt(d, g) 
        BY <3>2, <3>3 DEF EndsIt, Wrote
      <3>7. EndedByOne'
        <4>1. \A d \in HandoffCalls, g \in Handoffs : EndsIt(d, g) => hcall'[d].to = hcall[d].to
          BY <3>2, <3>3 DEF EndsIt, Wrote
        <4> QED  BY <3>2, <3>6, <4>1 DEF EndedByOne
      <3>8. EndHasCall'
        <4>1. \A d \in HandoffCalls : Wrote(d)' => handoff'[hcall'[d].id] # "none"
          BY <3>1, <3>2, <3>3 DEF EndHasCall, Wrote
        <4>2. ASSUME NEW g \in Handoffs, handoff'[g] \in Ends
              PROVE  \E d \in HandoffCalls : /\ hcall'[d].id = g /\ hcall'[d].to = handoff'[g]
                                             /\ hcall'[d].at \in {"publish", "done", "rejected"}
          <5>1. PICK d \in HandoffCalls : /\ hcall[d].id = g /\ hcall[d].to = handoff[g]
                                          /\ hcall[d].at \in {"publish", "done", "rejected"}
            BY <3>2, <4>2 DEF EndHasCall
          <5> QED  BY <3>2, <3>3, <5>1
        <4>3. \A d \in HandoffCalls :
                 hcall'[d].at = "done" => <<hcall'[d].id, hcall'[d].to, d>> \in announced'
          BY <3>1, <3>2, <3>3 DEF EndHasCall
        <4>4. \A e \in announced' :
                 hcall'[e[3]].at = "done" /\ hcall'[e[3]].id = e[1] /\ hcall'[e[3]].to = e[2]
          BY <3>2, <3>3, <3>4 DEF EndHasCall
        <4> QED  BY <4>1, <4>2, <4>3, <4>4 DEF EndHasCall
      <3> QED  BY <3>5, <3>7, <3>8
    <2> QED  BY <2>2, <2>3
  <1>4. ASSUME NEW c \in HandoffCalls, WriteRequest(c) PROVE HandoffInv'
    <2> DEFINE h == hcall[c].id
    <2>1. /\ h \in Handoffs /\ hcall[c].to \in Statuses /\ hcall[c].read \in Statuses
          /\ overlapped \subseteq Handoffs
      BY DEF HandoffTypeOK
    <2>2. hcall[c].to # "none" /\ hcall[c].read \notin Ends
      BY <1>4 DEF WriteRequest, LetThrough, MayBecome, Ends
    <2>3. overlapped \subseteq overlapped' /\ overlapped' \subseteq Handoffs
          /\ (handoff[h] \notin Ends \/ h \in overlapped')
      BY <1>4, <2>1, <2>2 DEF WriteRequest
    <2> QED  BY <1>4, <2>1, <2>2, <2>3, StoresInv DEF WriteRequest
  <1>5. ASSUME NEW c \in HandoffCalls, PublishUpdate(c) PROVE HandoffInv'
    <2>1. /\ hcall' \in [HandoffCalls -> HCall]
          /\ hcall'[c] = [hcall[c] EXCEPT !.at = "done"]
          /\ \A d \in HandoffCalls : d # c => hcall'[d] = hcall[d]
          /\ UNCHANGED <<oneStep, handoff, overlapped>> /\ hcall[c].at = "publish"
          /\ announced' = announced \cup {<<hcall[c].id, hcall[c].to, c>>}
          /\ hcall[c] \in HCall
      BY <1>5 DEF PublishUpdate, HandoffTypeOK, HCall
    <2>2. /\ hcall'[c].id = hcall[c].id /\ hcall'[c].to = hcall[c].to
          /\ hcall'[c].read = hcall[c].read /\ hcall'[c].at = "done"
      BY <2>1 DEF HCall
    <2>3. \A e \in announced : e[3] # c /\ e[3] \in HandoffCalls
      BY <2>1 DEF EndHasCall, HandoffTypeOK
    <2>4. handoff[hcall[c].id] # "none"
      BY <2>1 DEF EndHasCall, Wrote
    <2>5. HandoffTypeOK' /\ LetThrough'
      BY <2>1, <2>2, <2>3, <2>4 DEF HandoffTypeOK, HCall, LetThrough
    <2>6. \A d \in HandoffCalls : /\ Wrote(d)' <=> Wrote(d)
                                  /\ hcall'[d].id = hcall[d].id /\ hcall'[d].to = hcall[d].to
      BY <2>1, <2>2 DEF Wrote
    <2>7. EndedByOne'
      BY <2>1, <2>6 DEF EndedByOne, EndsIt
    <2>8. EndHasCall'
      <3>1. \A d \in HandoffCalls : Wrote(d)' => handoff'[hcall'[d].id] # "none"
        BY <2>1, <2>6 DEF EndHasCall
      <3>2. ASSUME NEW g \in Handoffs, handoff'[g] \in Ends
            PROVE  \E d \in HandoffCalls : /\ hcall'[d].id = g /\ hcall'[d].to = handoff'[g]
                                           /\ hcall'[d].at \in {"publish", "done", "rejected"}
        <4>1. PICK d \in HandoffCalls : /\ hcall[d].id = g /\ hcall[d].to = handoff[g]
                                        /\ hcall[d].at \in {"publish", "done", "rejected"}
          BY <2>1, <3>2 DEF EndHasCall
        <4>2. hcall'[d].at \in {"publish", "done", "rejected"}
          BY <2>1, <2>2, <4>1
        <4> QED  BY <2>1, <2>6, <4>1, <4>2
      <3>3. \A d \in HandoffCalls :
               hcall'[d].at = "done" => <<hcall'[d].id, hcall'[d].to, d>> \in announced'
        <4>1. ASSUME NEW d \in HandoffCalls, d # c, hcall'[d].at = "done"
              PROVE  <<hcall'[d].id, hcall'[d].to, d>> \in announced'
          BY <2>1, <4>1 DEF EndHasCall
        <4>2. <<hcall'[c].id, hcall'[c].to, c>> \in announced'
          BY <2>1, <2>2
        <4> QED  BY <4>1, <4>2
      <3>4. ASSUME NEW e \in announced'
            PROVE  hcall'[e[3]].at = "done" /\ hcall'[e[3]].id = e[1] /\ hcall'[e[3]].to = e[2]
        <4>1. CASE e \in announced
          BY <2>1, <2>3, <4>1 DEF EndHasCall
        <4>2. CASE e = <<hcall[c].id, hcall[c].to, c>>
          BY <2>2, <4>2
        <4> QED  BY <2>1, <4>1, <4>2
      <3> QED  BY <3>1, <3>2, <3>3, <3>4 DEF EndHasCall
    <2> QED  BY <2>5, <2>7, <2>8
  <1>6. ASSUME NEW c \in HandoffCalls, HandoffThrows(c) PROVE HandoffInv'
    <2>1. /\ hcall' \in [HandoffCalls -> HCall]
          /\ hcall'[c] = [hcall[c] EXCEPT !.at = "rejected"]
          /\ \A d \in HandoffCalls : d # c => hcall'[d] = hcall[d]
          /\ UNCHANGED <<oneStep, handoff, announced, overlapped>>
          /\ hcall[c].at \in {"write", "publish"} /\ hcall[c] \in HCall
      BY <1>6 DEF HandoffThrows, HandoffTypeOK, HCall
    <2>2. /\ hcall'[c].id = hcall[c].id /\ hcall'[c].to = hcall[c].to
          /\ hcall'[c].read = hcall[c].read /\ hcall'[c].at = "rejected"
      BY <2>1 DEF HCall
    <2>3. \A e \in announced : e[3] # c /\ e[3] \in HandoffCalls
      BY <2>1 DEF EndHasCall, HandoffTypeOK
    <2>4. HandoffTypeOK' /\ LetThrough'
      BY <2>1, <2>2, <2>3 DEF HandoffTypeOK, HCall, LetThrough
    <2>5. \A d \in HandoffCalls : /\ Wrote(d)' => Wrote(d)
                                  /\ hcall'[d].id = hcall[d].id /\ hcall'[d].to = hcall[d].to
      BY <2>1, <2>2 DEF Wrote
    <2>6. EndedByOne'
      BY <2>1, <2>5 DEF EndedByOne, EndsIt
    <2>7. EndHasCall'
      <3>1. \A d \in HandoffCalls : Wrote(d)' => handoff'[hcall'[d].id] # "none"
        BY <2>1, <2>5 DEF EndHasCall
      <3>2. ASSUME NEW g \in Handoffs, handoff'[g] \in Ends
            PROVE  \E d \in HandoffCalls : /\ hcall'[d].id = g /\ hcall'[d].to = handoff'[g]
                                           /\ hcall'[d].at \in {"publish", "done", "rejected"}
        <4>1. PICK d \in HandoffCalls : /\ hcall[d].id = g /\ hcall[d].to = handoff[g]
                                        /\ hcall[d].at \in {"publish", "done", "rejected"}
          BY <2>1, <3>2 DEF EndHasCall
        <4>2. hcall'[d].at \in {"publish", "done", "rejected"}
          BY <2>1, <2>2, <4>1
        <4> QED  BY <2>1, <2>5, <4>1, <4>2
      <3>3. \A d \in HandoffCalls :
               hcall'[d].at = "done" => <<hcall'[d].id, hcall'[d].to, d>> \in announced'
        <4>1. ASSUME NEW d \in HandoffCalls, d # c, hcall'[d].at = "done"
              PROVE  <<hcall'[d].id, hcall'[d].to, d>> \in announced'
          BY <2>1, <4>1 DEF EndHasCall
        <4> QED  BY <2>2, <4>1
      <3>4. \A e \in announced' :
               hcall'[e[3]].at = "done" /\ hcall'[e[3]].id = e[1] /\ hcall'[e[3]].to = e[2]
        BY <2>1, <2>2, <2>3 DEF EndHasCall
      <3> QED  BY <3>1, <3>2, <3>3, <3>4 DEF EndHasCall
    <2> QED  BY <2>4, <2>6, <2>7
  <1> QED  BY <1>1, <1>2, <1>3, <1>4, <1>5, <1>6 DEF HandoffNext

LEMMA HandoffInvariance == HandoffSpec => []HandoffInv
  BY HandoffInitInv, HandoffStepInv, PTL DEF HandoffSpec

\* People may act on a request at the same time: one of them ends it, and its status
\* stays that end, unless an update of the memory backend wrote over a stale read.
THEOREM OneEndHolds == HandoffSpec => []OneEnd
  <1>1. ASSUME HandoffInv PROVE OneEnd
    <2> SUFFICES ASSUME NEW h \in Handoffs \ overlapped
                 PROVE  LET enders == {c \in HandoffCalls : EndsIt(c, h)}
                        IN  Cardinality(enders) <= 1 /\ \A c \in enders : handoff[h] = hcall[c].to
      BY DEF OneEnd, EndsIt
    <2> DEFINE enders == {c \in HandoffCalls : EndsIt(c, h)}
    <2>1. /\ \A c \in enders : handoff[h] = hcall[c].to
          /\ \A c, d \in enders : c = d
      BY <1>1 DEF HandoffInv, EndedByOne
    <2>2. CASE enders = {}
      BY <2>2, FS_EmptySet
    <2>3. CASE enders # {}
      <3>1. PICK c \in enders : TRUE
        BY <2>3
      <3>2. enders = {c}
        BY <2>1, <3>1
      <3>3. Cardinality(enders) <= 1
        <4> HIDE DEF enders
        <4>1. Cardinality(enders) = 1
          BY <3>2, FS_Singleton
        <4> QED  BY <4>1
      <3> QED  BY <2>1, <3>3
    <2> QED  BY <2>2, <2>3
  <1> QED  BY <1>1, HandoffInvariance, PTL

\* Only a write over a stale read takes a request out of its end.
THEOREM EndStandsHolds == HandoffSpec => EndStands
  <1>1. ASSUME HandoffInv, HandoffNext, NEW h \in Handoffs, handoff[h] \in Ends,
               handoff'[h] # handoff[h]
        PROVE  ~oneStep /\ h \in overlapped'
    <2>1. PICK c \in HandoffCalls :
             \/ WriteRequest(c)
             \/ \E g \in Handoffs :
                   CreateRequest(c, g) \/ \E to \in Ends \cup {"assigned"} : UpdateRequest(c, g, to)
      BY <1>1 DEF HandoffNext, PublishUpdate, HandoffThrows
    <2>2. CASE WriteRequest(c)
      <3>1. h = hcall[c].id /\ handoff[h] # hcall[c].read /\ ~oneStep
        BY <1>1, <2>2 DEF WriteRequest, Stores, HandoffInv, HandoffTypeOK, LetThrough,
           MayBecome, Ends
      <3> QED  BY <2>2, <3>1 DEF WriteRequest
    <2>3. ASSUME NEW g \in Handoffs, CreateRequest(c, g) PROVE FALSE
      BY <1>1, <2>3 DEF CreateRequest, Stores, HandoffInv, HandoffTypeOK, Ends
    <2>4. ASSUME NEW g \in Handoffs, NEW to \in Ends \cup {"assigned"}, UpdateRequest(c, g, to)
          PROVE  FALSE
      BY <1>1, <2>4 DEF UpdateRequest, Stores, MayBecome, HandoffInv, HandoffTypeOK, Ends
    <2> QED  BY <2>1, <2>2, <2>3, <2>4
  <1>2. HandoffInv /\ [HandoffNext]_handoffvars =>
          [\A h \in Handoffs : handoff[h] \in Ends /\ handoff'[h] # handoff[h] =>
             ~oneStep /\ h \in overlapped']_handoffvars
    BY <1>1
  <1> QED  BY <1>2, HandoffInvariance, PTL DEF HandoffSpec, EndStands

\* When every call has returned, subscribers know the stored end of a request from
\* its events, whatever their order, unless a call that rejected has stored it.
THEOREM SubscribersKnowEndHolds == HandoffSpec => []SubscribersKnowEnd
  <1>1. ASSUME HandoffInv PROVE SubscribersKnowEnd
    <2> SUFFICES ASSUME \A c \in HandoffCalls : hcall[c].at \notin {"write", "publish"},
                        NEW h \in Handoffs \ overlapped,
                        ~\E c \in HandoffCalls : hcall[c].id = h /\ hcall[c].at = "rejected"
                                                 /\ hcall[c].to = handoff[h]
                 PROVE  {e[2] : e \in {b \in announced : b[1] = h /\ b[2] \in Ends}}
                          = {handoff[h]} \cap Ends
      BY DEF SubscribersKnowEnd
    <2>1. ASSUME NEW b \in announced, b[1] = h, b[2] \in Ends PROVE b[2] = handoff[h]
      BY <1>1, <2>1 DEF HandoffInv, HandoffTypeOK, EndHasCall, EndedByOne, EndsIt, Wrote
    <2>2. ASSUME handoff[h] \in Ends
          PROVE  \E b \in announced : b[1] = h /\ b[2] = handoff[h]
      <3>1. PICK c \in HandoffCalls : /\ hcall[c].id = h /\ hcall[c].to = handoff[h]
                                      /\ hcall[c].at = "done"
        BY <1>1, <2>2 DEF HandoffInv, EndHasCall
      <3>2. <<h, handoff[h], c>> \in announced
        BY <1>1, <3>1 DEF HandoffInv, EndHasCall
      <3>3. <<h, handoff[h], c>>[1] = h /\ <<h, handoff[h], c>>[2] = handoff[h]
        OBVIOUS
      <3> QED  BY <3>2, <3>3
    <2> QED  BY <2>1, <2>2
  <1> QED  BY <1>1, HandoffInvariance, PTL

\* A request has one end, which stands and which its subscribers know.
THEOREM HandoffsEndOnceHolds == HandoffSpec => HandoffsEndOnce
  BY OneEndHolds, EndStandsHolds, SubscribersKnowEndHolds, PTL DEF HandoffsEndOnce

----------------------------------------------------------------------------
(* The state machine and the tasks.                                         *)

\* The history of m leads from the initial state to its state.
PathTo(m) ==
    /\ m.state = IF m.history = <<>> THEN InitialState ELSE m.history[Len(m.history)].to
    /\ \A i \in 1 .. Len(m.history) :
          m.history[i].from = IF i = 1 THEN InitialState ELSE m.history[i - 1].to

\* A call that has moved the machine finds its transition in the history.
Entered ==
    \A s \in Senders :
        /\ send[s].at \in {"acting", "returned"} =>
              send[s].entered \in 1 .. Len(machine.history)
        /\ send[s].at = "returned" =>
              \E i \in send[s].entered .. Len(machine.history) :
                 machine.history[i].to = send[s].result

MachineInv ==
    /\ MachineTypeOK /\ Len(snapshot.history) <= MaxHistory
    /\ PathTo(machine) /\ PathTo(snapshot) /\ Entered

LEMMA AppendPath ==
  ASSUME NEW m \in Machine, PathTo(m), NEW t \in Transitions, t.from = m.state
  PROVE  LET n == [state |-> t.to, history |-> Append(m.history, t)]
         IN  n \in Machine /\ PathTo(n)
  <1> DEFINE h == Append(m.history, t)
  <1>1. /\ m.history \in Seq(Transitions) /\ Len(m.history) \in Nat
        /\ h \in Seq(Transitions) /\ Len(h) = Len(m.history) + 1 /\ h[Len(h)] = t
        /\ \A i \in 1 .. Len(m.history) : h[i] = m.history[i]
        /\ h # <<>>
    BY DEF Machine
  <1>2. t.to \in MachineStates
    BY DEF MachineStates
  <1>3. ASSUME NEW i \in 1 .. Len(h)
        PROVE  h[i].from = IF i = 1 THEN InitialState ELSE h[i - 1].to
    <2>1. CASE i \in 1 .. Len(m.history)
      <3>1. m.history[i].from = IF i = 1 THEN InitialState ELSE m.history[i - 1].to
        BY <2>1 DEF PathTo
      <3>2. i # 1 => i - 1 \in 1 .. Len(m.history)
        BY <1>1, <2>1
      <3> QED  BY <1>1, <2>1, <3>1, <3>2
    <2>2. CASE i = Len(h)
      <3>1. CASE m.history = <<>>
        BY <1>1, <2>2, <3>1 DEF PathTo
      <3>2. CASE m.history # <<>>
        <4>1. Len(m.history) # 0
          BY <1>1, <3>2, EmptySeq
        <4>2. i # 1 /\ i - 1 = Len(m.history) /\ i - 1 \in 1 .. Len(m.history)
          BY <1>1, <2>2, <4>1
        <4>3. h[i - 1] = m.history[Len(m.history)] /\ h[i] = t
          BY <1>1, <2>2, <4>2
        <4> QED  BY <3>2, <4>2, <4>3 DEF PathTo
      <3> QED  BY <3>1, <3>2
    <2> QED  BY <1>1, <2>1, <2>2
  <1> QED  BY <1>1, <1>2, <1>3 DEF Machine, PathTo

Send == [at : {"idle", "acting", "returned", "rejected"}, result : MachineStates, entered : Nat]

LEMMA MachineInvariance == MachineSpec => []MachineInv
  <1>1. ASSUME MachineInit PROVE MachineInv
    <2>1. Blank \in Machine /\ PathTo(Blank) /\ Len(Blank.history) = 0
      BY DEF Blank, Machine, PathTo, MachineStates
    <2>2. InitialState \in MachineStates
      BY DEF MachineStates
    <2> QED  BY <1>1, <2>1, <2>2, TableAssumption
             DEF MachineInit, MachineInv, MachineTypeOK, Entered
  <1>2. ASSUME MachineInv, [MachineNext]_machinevars PROVE MachineInv'
    <2> USE <1>2 DEF MachineInv
    <2>0. /\ send \in [Senders -> Send] /\ machine \in Machine /\ snapshot \in Machine
          /\ machine.state \in MachineStates /\ machine.history \in Seq(Transitions)
          /\ Len(machine.history) \in Nat
      BY DEF MachineTypeOK, Send, Machine
    <2>1. CASE UNCHANGED machinevars
      BY <2>1 DEF machinevars, MachineTypeOK, PathTo, Entered
    <2>2. ASSUME NEW s \in Senders, NEW e \in Events, Refuse(s, e) PROVE MachineInv'
      <3>1. /\ send' \in [Senders -> Send] /\ send'[s].at = "rejected"
            /\ \A r \in Senders : r # s => send'[r] = send[r]
            /\ UNCHANGED <<machine, snapshot>>
        BY <2>0, <2>2 DEF Refuse, Send
      <3>2. Entered'
        BY <3>1 DEF Entered
      <3> QED  BY <3>1, <3>2 DEF MachineTypeOK, Send, PathTo
    <2>3. ASSUME NEW s \in Senders, NEW e \in Events, Move(s, e) PROVE MachineInv'
      <3>1. PICK t \in From(machine.state, e) :
               /\ machine' = [state |-> t.to, history |-> Append(machine.history, t)]
               /\ send' = [send EXCEPT ![s] =
                             [at |-> IF <<t.from, t.to>> \in Acting THEN "acting" ELSE "returned",
                              result |-> t.to, entered |-> Len(machine.history) + 1]]
        BY <2>3 DEF Move
      <3>2. t \in Transitions /\ t.from = machine.state /\ t.to \in MachineStates
        BY DEF From, MachineStates
      <3>3. machine' \in Machine /\ PathTo(machine)'
        <4> DEFINE n == [state |-> t.to, history |-> Append(machine.history, t)]
        <4>1. PathTo(machine)
          OBVIOUS
        <4>2. n \in Machine /\ PathTo(n)
          BY <2>0, <3>2, <4>1, AppendPath
        <4>3. machine' = n
          BY <3>1
        <4> HIDE DEF n
        <4> QED  BY <4>2, <4>3 DEF PathTo
      <3>4. /\ machine'.history = Append(machine.history, t)
            /\ Len(machine'.history) = Len(machine.history) + 1
            /\ machine'.history[Len(machine.history) + 1] = t
            /\ \A i \in 1 .. Len(machine.history) : machine'.history[i] = machine.history[i]
        BY <2>0, <3>1, <3>2
      <3>5. /\ send' \in [Senders -> Send] /\ \A r \in Senders : r # s => send'[r] = send[r]
            /\ send'[s].result = t.to /\ send'[s].entered = Len(machine.history) + 1
        BY <2>0, <3>1, <3>2 DEF Send
      <3>6. Len(machine.history) < MaxHistory /\ UNCHANGED snapshot
        BY <2>3 DEF Move, Sending
      <3>7. MachineTypeOK'
        BY <2>0, <3>3, <3>4, <3>5, <3>6, TableAssumption DEF MachineTypeOK, Send
      <3>8. Entered'
        <4> SUFFICES ASSUME NEW r \in Senders
                     PROVE  /\ send'[r].at \in {"acting", "returned"} =>
                                 send'[r].entered \in 1 .. Len(machine'.history)
                            /\ send'[r].at = "returned" =>
                                 \E i \in send'[r].entered .. Len(machine'.history) :
                                    machine'.history[i].to = send'[r].result
          BY DEF Entered
        <4>1. CASE r = s
          BY <2>0, <3>4, <3>5, <4>1
        <4>2. CASE r # s
          <5>1. send[r].at = "returned" =>
                  \E i \in send[r].entered .. Len(machine.history) :
                     i \in 1 .. Len(machine.history) /\ machine.history[i].to = send[r].result
            BY <2>0 DEF Entered
          <5> QED  BY <2>0, <3>4, <3>5, <4>2, <5>1 DEF Entered
        <4> QED  BY <4>1, <4>2
      <3> QED  BY <3>3, <3>6, <3>7, <3>8 DEF PathTo
    <2>4. ASSUME NEW s \in Senders, ActionEnds(s) PROVE MachineInv'
      <3>1. /\ send' \in [Senders -> Send] /\ send'[s].result = machine.state
            /\ send'[s].entered = send[s].entered /\ send[s].at = "acting"
            /\ \A r \in Senders : r # s => send'[r] = send[r]
            /\ UNCHANGED <<machine, snapshot>>
        BY <2>0, <2>4 DEF ActionEnds, Send
      <3>2. send[s].entered \in 1 .. Len(machine.history)
        BY <3>1 DEF Entered
      <3>3. machine.history # <<>> /\ Len(machine.history) \in send[s].entered .. Len(machine.history)
        BY <2>0, <3>2
      <3>4. machine.history[Len(machine.history)].to = machine.state
        BY <3>3 DEF PathTo
      <3>5. Entered'
        BY <3>1, <3>2, <3>3, <3>4 DEF Entered
      <3> QED  BY <3>1, <3>5 DEF MachineTypeOK, Send, PathTo
    <2>5. ASSUME NEW s \in Senders, ActionThrows(s) PROVE MachineInv'
      <3>1. /\ send' \in [Senders -> Send] /\ send'[s].at = "rejected"
            /\ \A r \in Senders : r # s => send'[r] = send[r]
            /\ UNCHANGED <<machine, snapshot>>
        BY <2>0, <2>5 DEF ActionThrows, Send
      <3>2. Entered'
        BY <3>1 DEF Entered
      <3> QED  BY <3>1, <3>2 DEF MachineTypeOK, Send, PathTo
    <2>6. CASE Serialize
      BY <2>6 DEF Serialize, MachineTypeOK, PathTo, Entered
    <2>7. CASE Restore
      <3>1. send' \in [Senders -> Send] /\ \A r \in Senders : send'[r].at = "idle"
        BY <2>7 DEF Restore, Send, MachineStates
      <3> QED  BY <2>7, <3>1 DEF Restore, MachineTypeOK, Send, PathTo, Entered
    <2> QED  BY <2>1, <2>2, <2>3, <2>4, <2>5, <2>6, <2>7 DEF MachineNext
  <1> QED  BY <1>1, <1>2, PTL DEF MachineSpec

\* The history is a path of the table from the initial state to the current one,
\* restores and sends that run into each other included.
THEOREM HistoryIsPathHolds == MachineSpec => []HistoryIsPath
  <1>1. ASSUME MachineInv PROVE HistoryIsPath
    <2>1. machine.history \in Seq(Transitions) /\ Len(machine.history) \in Nat
      BY <1>1 DEF MachineInv, MachineTypeOK, Machine
    <2>2. machine.history = <<>> <=> Len(machine.history) = 0
      BY <2>1, EmptySeq
    <2>3. DOMAIN machine.history = 1 .. Len(machine.history)
      BY <2>1
    <2>4. \A i \in 1 .. Len(machine.history) : machine.history[i] \in Transitions
      BY <2>1
    <2>5. PathTo(machine)
      BY <1>1 DEF MachineInv
    <2> QED  BY <2>1, <2>2, <2>3, <2>4, <2>5 DEF PathTo, HistoryIsPath
  <1> QED  BY <1>1, MachineInvariance, PTL

\* send answers with a state that the machine was in after its own transition.
THEOREM AnswersReachedHolds == MachineSpec => []AnswersReached
  <1>1. MachineInv => AnswersReached
    BY DEF MachineInv, Entered, AnswersReached
  <1> QED  BY <1>1, MachineInvariance, PTL

\* In a table without a way out of the terminal states, the machine, its history and
\* its answers tell the same: only a snapshot takes it out of a terminal state.
THEOREM MachineTrueHolds ==
  ASSUME \A t \in Transitions : t.from \notin TerminalStates
  PROVE  MachineSpec => MachineTrue
  <1>1. [MachineNext]_machinevars =>
          [machine.state \in TerminalStates => machine' = machine \/ machine' = snapshot]_machinevars
    BY DEF MachineNext, Refuse, Move, From, ActionEnds, ActionThrows, Serialize, Restore
  <1> QED  BY <1>1, HistoryIsPathHolds, AnswersReachedHolds, PTL
           DEF MachineSpec, MachineTrue, TerminalIsFinal

\* TaskFSM's table has none, so that a task's machine stays completed or killed.
THEOREM TaskMachineTrue ==
  ASSUME Transitions = TaskTransitions, TerminalStates = {"completed", "killed"}
  PROVE  MachineSpec => MachineTrue
  <1>1. \A t \in Transitions : t.from \notin TerminalStates
    BY DEF TaskTransitions
  <1> QED  BY <1>1, MachineTrueHolds

\* A loaded task has its message, one loaded in its end has ended, and cancel
\* writes only what it has read.
LoadedHasMessage ==
    /\ \A i \in TaskIds :
          /\ i \in taskMsgs => creating[i] = "created"
          /\ loaded[i] # "none" => i \in taskMsgs
          /\ loaded[i] \in {"completed", "killed"} => taskRow[i] \in {"completed", "killed"}
    /\ \A c \in Cancels : cancel[c].at = "read" => taskRow[cancel[c].id] # "none"

TaskInv == TaskTypeOK /\ LoadedHasMessage /\ WaitingHasMessage

Cancel == [id : TaskIds, read : TaskStates \cup {"none"},
           at : {"idle", "read", "killed", "notFound"}]

LEMMA TaskInvariance == TaskSpec => []TaskInv
  <1>1. TaskInit => TaskInv
    BY DEF TaskInit, TaskInv, TaskTypeOK, LoadedHasMessage, WaitingHasMessage
  <1>2. ASSUME TaskInv, [TaskNext]_taskvars PROVE TaskInv'
    <2> USE <1>2 DEF TaskInv
    <2>1. CASE UNCHANGED taskvars
      BY <2>1 DEF taskvars, TaskTypeOK, LoadedHasMessage, WaitingHasMessage
    <2>2. ASSUME NEW i \in TaskIds, PostTask(i) \/ EnqueueTask(i) \/ LoadTask(i) \/ GiveUpTask(i)
          PROVE  TaskInv'
      BY <2>2 DEF PostTask, EnqueueTask, LoadTask, GiveUpTask, TaskTypeOK, TaskStates,
         LoadedHasMessage, WaitingHasMessage
    <2>3. ASSUME NEW i \in TaskIds, SaveTask(i) PROVE TaskInv'
      <3>1. PICK t \in TaskTransitions :
               loaded[i] = t.from /\ taskRow' = [taskRow EXCEPT ![i] = t.to]
        BY <2>3 DEF SaveTask
      <3>2. t.to \in TaskStates /\ t.from # "none"
        BY DEF TaskTransitions, TaskStates
      <3>3. i \in taskMsgs /\ creating[i] = "created"
        BY <3>1, <3>2 DEF LoadedHasMessage
      <3> QED  BY <2>3, <3>1, <3>2, <3>3 DEF SaveTask, TaskTypeOK, TaskStates,
               LoadedHasMessage, WaitingHasMessage
    <2>4. ASSUME NEW c \in Cancels, FindTask(c) PROVE TaskInv'
      <3>1. /\ cancel' \in [Cancels -> Cancel] /\ cancel'[c].id = cancel[c].id
            /\ cancel'[c].at = "read" => taskRow[cancel[c].id] # "none"
            /\ \A d \in Cancels : d # c => cancel'[d] = cancel[d]
            /\ UNCHANGED <<taskRow, creating, taskMsgs, loaded, outdated>>
        BY <2>4 DEF FindTask, TaskTypeOK, Cancel
      <3> QED  BY <3>1 DEF TaskTypeOK, Cancel, LoadedHasMessage, WaitingHasMessage
    <2>5. ASSUME NEW c \in Cancels, KillTask(c) PROVE TaskInv'
      <3>1. /\ cancel' \in [Cancels -> Cancel] /\ cancel'[c].at = "killed"
            /\ \A d \in Cancels : d # c => cancel'[d] = cancel[d]
            /\ taskRow' = [taskRow EXCEPT ![cancel[c].id] = "killed"]
            /\ cancel[c].id \in TaskIds /\ taskRow[cancel[c].id] # "none"
            /\ UNCHANGED <<creating, taskMsgs, loaded, outdated>>
        BY <2>5 DEF KillTask, TaskTypeOK, Cancel, LoadedHasMessage
      <3> QED  BY <3>1 DEF TaskTypeOK, TaskStates, Cancel, LoadedHasMessage, WaitingHasMessage
    <2> QED  BY <2>1, <2>2, <2>3, <2>4, <2>5 DEF TaskNext, TaskStep
  <1> QED  BY <1>1, <1>2, PTL DEF TaskSpec

\* Created tasks do not get stuck: one that is pending or queued has a message for a
\* worker, unless its POST is still running or has failed.
THEOREM WaitingHasMessageHolds == TaskSpec => []WaitingHasMessage
  <1>1. TaskInv => WaitingHasMessage
    BY DEF TaskInv
  <1> QED  BY <1>1, TaskInvariance, PTL

\* A task that has ended stays as it is, except that cancel kills a completed one, and
\* that a worker saves over a kill which came after it had loaded.
THEOREM EndedTaskChangesHolds == TaskSpec => EndedTaskChanges
  <1>1. ASSUME TaskInv, TaskNext, NEW i \in TaskIds, taskRow[i] \in {"completed", "killed"},
               taskRow'[i] # taskRow[i]
        PROVE  \/ taskRow'[i] = "killed" /\ \E c \in Cancels : cancel[c].at = "read" /\ cancel[c].id = i
               \/ i \in outdated'
    <2> USE <1>1 DEF TaskInv, TaskTypeOK
    <2>1. ASSUME NEW j \in TaskIds, TaskStep(j) PROVE i \in outdated'
      <3>1. ~(EnqueueTask(j) \/ LoadTask(j) \/ GiveUpTask(j) \/ PostTask(j))
        BY DEF EnqueueTask, LoadTask, GiveUpTask, PostTask
      <3>2. SaveTask(j)
        BY <2>1, <3>1 DEF TaskStep
      <3>3. \A t \in TaskTransitions : t.from \notin {"completed", "killed"}
        BY DEF TaskTransitions
      <3> QED  BY <3>2, <3>3 DEF SaveTask
    <2>2. ASSUME NEW c \in Cancels, FindTask(c) \/ KillTask(c)
          PROVE  taskRow'[i] = "killed" /\ cancel[c].at = "read" /\ cancel[c].id = i
      BY <2>2 DEF FindTask, KillTask
    <2> QED  BY <2>1, <2>2 DEF TaskNext
  <1>2. TaskInv /\ [TaskNext]_taskvars =>
          [\A i \in TaskIds : taskRow[i] \in {"completed", "killed"} /\ taskRow'[i] # taskRow[i] =>
              \/ taskRow'[i] = "killed" /\ \E c \in Cancels : cancel[c].at = "read" /\ cancel[c].id = i
              \/ i \in outdated']_taskvars
    BY <1>1
  <1> QED  BY <1>2, TaskInvariance, PTL DEF TaskSpec, EndedTaskChanges

\* Tasks neither get lost before their end nor come back from it.
THEOREM TasksKeptHolds == TaskSpec => TasksKept
  BY WaitingHasMessageHolds, EndedTaskChangesHolds, PTL DEF TasksKept

----------------------------------------------------------------------------
(* The workflow engine.                                                     *)

\* The result of a step: a signal of this instance, captured in g, ended a waiting one.
Fits(i, k, r, g) ==
    IF Definition[i][k] = "task" THEN r = "task"
    ELSE r \in Signals /\ Target[r] = i /\ g[r] = "captured"

\* The instance object m has the results of its steps so far, and no signal twice.
MemoryFits(i, m, g) ==
    /\ m.step = Len(m.results) /\ m.step <= Len(Definition[i])
    /\ \A k \in 1 .. m.step : Fits(i, k, m.results[k], g)
    /\ \A k, l \in 1 .. m.step :
          m.results[k] = m.results[l] /\ m.results[k] \in Signals => k = l
    /\ m.state = "completed" => m.step = Len(Definition[i])

\* Where an execution is tells what its object m looks like.
PlaceFits(i, m, at) ==
    /\ at \in {"new", "created"} => m = Fresh
    /\ at \in {"created", "entered", "advanced"} => m.state = "running"
    /\ at = "entered" => m.step < Len(Definition[i])
    /\ at \in {"paused", "once"} =>
          /\ m.state = "waiting_signal" /\ m.step < Len(Definition[i])
          /\ Definition[i][m.step + 1] = "wait"
    /\ at = "finished" => m.state = "completed"
    /\ at = "failing" => m.state = "failed"

\* A saved instance r is m as it is, or what m was before its last step.
Precedes(r, m) ==
    /\ r.step = Len(r.results) /\ r.step <= m.step /\ m.step <= r.step + 1
    /\ \A k \in 1 .. r.step : r.results[k] = m.results[k]

\* What is saved is the object as it is, or, while a save is under way, what it
\* was before.
SavedFits(i, m, r, t) ==
    /\ t.at = "new" => r = None
    /\ t.at \in Saving \cup {"once"} /\ t.set = "ok" => r = m
    /\ t.at = "created" /\ t.set # "ok" => r = None
    /\ t.at \in Saving \ {"created"} => r # None
    /\ r # None =>
          /\ Precedes(r, m)
          /\ t.at \in Saving /\ t.set # "ok" =>
                r.state # "failed" /\ (r.state = "completed" => t.at = "failing")
          /\ r.state = "completed" =>
                r.step = Len(Definition[i]) /\ t.at \notin {"new", "created", "once"}

InstanceFits(i, m, r, t, g) ==
    MemoryFits(i, m, g) /\ PlaceFits(i, m, t.at) /\ SavedFits(i, m, r, t)

WorkflowInv ==
    TypeOK /\ \A i \in Instances : InstanceFits(i, mem[i], store[i], task[i], sig)

\* A captured signal stays captured.
LEMMA FitsStays ==
  ASSUME NEW i \in Instances, NEW m, NEW r, NEW t, NEW g, NEW h, InstanceFits(i, m, r, t, g),
         \A s \in Signals : g[s] = "captured" => h[s] = "captured"
  PROVE  InstanceFits(i, m, r, t, h)
  BY DEF InstanceFits, MemoryFits, Fits

\* Pushing a result that fits the next step.
LEMMA AdvancedFits ==
  ASSUME NEW i \in Instances, NEW m \in Instance, NEW g, MemoryFits(i, m, g),
         NEW r \in Signals \cup {"task"}, m.step < Len(Definition[i]), Fits(i, m.step + 1, r, g),
         \A k \in 1 .. m.step : m.results[k] # r \/ r = "task"
  PROVE  LET n == Advanced(m, r)
         IN  /\ n \in Instance /\ n.state = "running" /\ n.step = m.step + 1
             /\ MemoryFits(i, n, g)
             /\ \A k \in 1 .. m.step : n.results[k] = m.results[k]
  <1> DEFINE n == Advanced(m, r)
  <1>1. /\ m.results \in Seq(Signals \cup {"task"}) /\ m.step \in Nat
        /\ Len(m.results) = m.step /\ Len(Definition[i]) \in Nat
    BY WorkflowAssumption DEF Instance, MemoryFits
  <1>2. /\ n.state = "running" /\ n.step = m.step + 1
        /\ n.results = Append(m.results, r)
    BY DEF Advanced
  <1>3. /\ n.results \in Seq(Signals \cup {"task"}) /\ Len(n.results) = m.step + 1
        /\ \A k \in 1 .. m.step : n.results[k] = m.results[k]
        /\ n.results[m.step + 1] = r
    BY <1>1, <1>2
  <1>4. n \in Instance
    BY <1>1, <1>3 DEF Advanced, Instance, States
  <1>5. \A k \in 1 .. n.step : k \in 1 .. m.step \/ k = m.step + 1
    BY <1>1, <1>2
  <1>6. \A k \in 1 .. n.step : Fits(i, k, n.results[k], g)
    BY <1>1, <1>3, <1>5 DEF MemoryFits
  <1>7. ASSUME NEW k \in 1 .. n.step, NEW l \in 1 .. n.step,
               n.results[k] = n.results[l], n.results[k] \in Signals
        PROVE  k = l
    BY <1>1, <1>3, <1>5, <1>7, NoneAssumption DEF MemoryFits
  <1>8. MemoryFits(i, n, g)
    BY <1>1, <1>2, <1>3, <1>6, <1>7 DEF MemoryFits
  <1> QED  BY <1>2, <1>3, <1>4, <1>8

\* A step that gives instance i the object m, the saved r and the place t, and leaves
\* the others alone, keeps the invariant when they fit.
LEMMA OneInstance ==
  ASSUME WorkflowInv, NEW i \in Instances, NEW m \in Instance, NEW r \in Instance \cup {None},
         NEW t \in Awaits,
         mem' = [mem EXCEPT ![i] = m], store' = [store EXCEPT ![i] = r],
         task' = [task EXCEPT ![i] = t], UNCHANGED seen,
         sig' \in [Signals -> {"unsent", "found", "captured", "lost"}],
         \A s \in Signals : sig[s] = "captured" => sig'[s] = "captured",
         InstanceFits(i, m, r, t, sig')
  PROVE  WorkflowInv'
  <1>1. /\ mem'[i] = m /\ store'[i] = r /\ task'[i] = t
        /\ \A j \in Instances : j # i => /\ mem'[j] = mem[j] /\ store'[j] = store[j]
                                         /\ task'[j] = task[j]
    BY DEF WorkflowInv, TypeOK
  <1>2. TypeOK'
    BY DEF WorkflowInv, TypeOK
  <1>3. ASSUME NEW j \in Instances PROVE InstanceFits(j, mem'[j], store'[j], task'[j], sig')
    <2>1. CASE j = i
      BY <1>1, <2>1
    <2>2. CASE j # i
      <3>1. InstanceFits(j, mem[j], store[j], task[j], sig)
        BY DEF WorkflowInv
      <3>2. InstanceFits(j, mem[j], store[j], task[j], sig')
        BY <3>1, FitsStays
      <3> QED  BY <1>1, <2>2, <3>2
    <2> QED  BY <2>1, <2>2
  <1> QED  BY <1>2, <1>3 DEF WorkflowInv

\* The same for a step that saves object m.
LEMMA SaveFits ==
  ASSUME WorkflowInv, NEW i \in Instances, NEW m \in Instance, NEW at \in Saving,
         Save(i, m, at), InstanceFits(i, m, store[i], [at |-> at, set |-> "sent"], sig)
  PROVE  WorkflowInv'
  <1> DEFINE t == [at |-> at, set |-> "sent"]
  <1>1. t \in Awaits
    BY DEF Awaits
  <1>2. store \in [Instances -> Instance \cup {None}] /\ sig \in [Signals -> {"unsent", "found", "captured", "lost"}]
    BY DEF WorkflowInv, TypeOK
  <1>3. store' = [store EXCEPT ![i] = store[i]]
    BY <1>2 DEF Save
  <1>4. mem' = [mem EXCEPT ![i] = m] /\ task' = [task EXCEPT ![i] = t] /\ UNCHANGED <<sig, seen>>
    BY DEF Save
  <1>5. InstanceFits(i, m, store[i], t, sig')
    BY <1>4
  <1> HIDE DEF t
  <1> QED  BY <1>1, <1>2, <1>3, <1>4, <1>5, OneInstance

\* And for a step that only changes the place.
LEMMA PlaceStepFits ==
  ASSUME WorkflowInv, NEW i \in Instances, NEW t \in Awaits,
         task' = [task EXCEPT ![i] = t], UNCHANGED <<store, mem, sig, seen>>,
         PlaceFits(i, mem[i], t.at), SavedFits(i, mem[i], store[i], t)
  PROVE  WorkflowInv'
  <1>1. /\ store \in [Instances -> Instance \cup {None}] /\ mem \in [Instances -> Instance]
        /\ sig \in [Signals -> {"unsent", "found", "captured", "lost"}]
    BY DEF WorkflowInv, TypeOK
  <1>2. store' = [store EXCEPT ![i] = store[i]] /\ mem' = [mem EXCEPT ![i] = mem[i]]
    BY <1>1
  <1>3. InstanceFits(i, mem[i], store[i], t, sig')
    BY DEF WorkflowInv, InstanceFits
  <1> QED  BY <1>1, <1>2, <1>3, OneInstance

LEMMA WorkflowStep == WorkflowInv /\ [Next]_vars => WorkflowInv'
  <1> SUFFICES ASSUME WorkflowInv, [Next]_vars PROVE WorkflowInv'
    OBVIOUS
  <1>0. /\ store \in [Instances -> Instance \cup {None}] /\ mem \in [Instances -> Instance]
        /\ task \in [Instances -> Awaits] /\ seen \in [Signals -> States \cup {None}]
        /\ sig \in [Signals -> {"unsent", "found", "captured", "lost"}]
    BY DEF WorkflowInv, TypeOK
  <1>a. ASSUME NEW i \in Instances
        PROVE  /\ InstanceFits(i, mem[i], store[i], task[i], sig)
               /\ mem[i] \in Instance /\ mem[i].step = Len(mem[i].results)
               /\ mem[i].step \in Nat /\ mem[i].step <= Len(Definition[i])
               /\ Len(Definition[i]) \in Nat
               /\ Precedes(mem[i], mem[i])
    BY <1>0, WorkflowAssumption DEF WorkflowInv, InstanceFits, MemoryFits, Instance, Precedes
  <1>1. CASE UNCHANGED vars
    BY <1>1 DEF vars, WorkflowInv, TypeOK
  <1>2. ASSUME NEW i \in Instances, Start(i) PROVE WorkflowInv'
    <2>1. task[i].at = "new" /\ Save(i, Fresh, "created")
      BY <1>2 DEF Start
    <2>2. mem[i] = Fresh /\ store[i] = None
      BY <1>a, <2>1 DEF InstanceFits, PlaceFits, SavedFits
    <2>3. InstanceFits(i, Fresh, store[i], [at |-> "created", set |-> "sent"], sig)
      BY <1>a, <2>2 DEF InstanceFits, PlaceFits, SavedFits, Fresh
    <2> QED  BY <1>a, <2>1, <2>2, <2>3, SaveFits DEF Saving
  <1>3. ASSUME NEW i \in Instances, SetThrows(i) PROVE WorkflowInv'
    <2> DEFINE t == [task[i] EXCEPT !.set = "error"]
    <2>1. /\ t \in Awaits /\ t.at = task[i].at /\ t.at \in Saving /\ t.set = "error"
          /\ task[i].set = "sent"
      BY <1>0, <1>3 DEF SetThrows, Awaits
    <2>2. task' = [task EXCEPT ![i] = t] /\ UNCHANGED <<store, mem, sig, seen>>
      BY <1>3 DEF SetThrows
    <2>3. PlaceFits(i, mem[i], t.at) /\ SavedFits(i, mem[i], store[i], t)
      BY <1>a, <2>1 DEF InstanceFits, SavedFits
    <2> HIDE DEF t
    <2> QED  BY <2>1, <2>2, <2>3, PlaceStepFits
  <1>4. ASSUME NEW i \in Instances, Written(i) PROVE WorkflowInv'
    <2> DEFINE t == [task[i] EXCEPT !.set = "ok"]
    <2>1. /\ t \in Awaits /\ t.at = task[i].at /\ t.at \in Saving /\ t.set = "ok"
          /\ task[i].set = "sent"
      BY <1>0, <1>4 DEF Written, Awaits
    <2>2. /\ task' = [task EXCEPT ![i] = t] /\ store' = [store EXCEPT ![i] = mem[i]]
          /\ mem' = [mem EXCEPT ![i] = mem[i]] /\ UNCHANGED <<sig, seen>>
      BY <1>0, <1>4 DEF Written
    <2>3. SavedFits(i, mem[i], mem[i], t)
      <3>1. mem[i] # None
        BY <1>a, NoneAssumption
      <3>2. t.at \notin {"new", "once"}
        BY <2>1 DEF Saving
      <3>3. mem[i].state = "completed" => t.at # "created" /\ mem[i].step = Len(Definition[i])
        BY <1>a, <2>1 DEF InstanceFits, PlaceFits, MemoryFits
      <3> QED  BY <1>a, <2>1, <3>1, <3>2, <3>3 DEF SavedFits
    <2>4. InstanceFits(i, mem[i], mem[i], t, sig')
      BY <1>a, <2>1, <2>2, <2>3 DEF InstanceFits
    <2> HIDE DEF t
    <2> QED  BY <1>0, <1>a, <2>1, <2>2, <2>4, OneInstance
  <1>5. ASSUME NEW i \in Instances, BeginStep(i) PROVE WorkflowInv'
    <2>1. /\ task[i].at \in {"created", "advanced"} /\ store[i] = mem[i]
          /\ mem[i].state = "running" /\ mem[i] # None
      BY <1>5, <1>a, NoneAssumption DEF BeginStep, Saved, InstanceFits, PlaceFits, SavedFits, Saving
    <2>2. CASE mem[i].step >= Len(Definition[i])
      <3> DEFINE m == [mem[i] EXCEPT !.state = "completed"]
      <3>1. /\ m \in Instance /\ m.state = "completed" /\ m.step = mem[i].step
            /\ m.results = mem[i].results
        BY <1>a DEF Instance, States
      <3>2. Save(i, m, "finished")
        BY <1>5, <2>2 DEF BeginStep
      <3>3. InstanceFits(i, m, store[i], [at |-> "finished", set |-> "sent"], sig)
        BY <1>a, <2>1, <2>2, <3>1 DEF InstanceFits, MemoryFits, PlaceFits, SavedFits, Precedes
      <3> HIDE DEF m
      <3> QED  BY <3>1, <3>2, <3>3, SaveFits DEF Saving
    <2>3. CASE ~(mem[i].step >= Len(Definition[i]))
      <3>1. Save(i, mem[i], "entered")
        BY <1>5, <2>3 DEF BeginStep
      <3>2. InstanceFits(i, mem[i], store[i], [at |-> "entered", set |-> "sent"], sig)
        BY <1>a, <2>1, <2>3 DEF InstanceFits, PlaceFits, SavedFits
      <3> QED  BY <1>a, <3>1, <3>2, SaveFits DEF Saving
    <2> QED  BY <2>2, <2>3
  <1>6. ASSUME NEW i \in Instances, RunStep(i) PROVE WorkflowInv'
    <2>1. /\ task[i].at = "entered" /\ store[i] = mem[i] /\ mem[i].state = "running"
          /\ mem[i] # None /\ mem[i].step < Len(Definition[i])
      BY <1>6, <1>a, NoneAssumption DEF RunStep, Saved, InstanceFits, PlaceFits, SavedFits, Saving
    <2>2. CASE Definition[i][mem[i].step + 1] = "task"
      <3> DEFINE m == Advanced(mem[i], "task")
      <3>1. /\ m \in Instance /\ m.state = "running" /\ m.step = mem[i].step + 1
            /\ MemoryFits(i, m, sig)
            /\ \A k \in 1 .. mem[i].step : m.results[k] = mem[i].results[k]
        BY <1>a, <2>1, <2>2, AdvancedFits DEF InstanceFits, Fits
      <3>2. Save(i, m, "advanced")
        BY <1>6, <2>2 DEF RunStep
      <3> HIDE DEF m
      <3>3. InstanceFits(i, m, store[i], [at |-> "advanced", set |-> "sent"], sig)
        BY <1>a, <2>1, <3>1 DEF InstanceFits, PlaceFits, SavedFits, Precedes
      <3> QED  BY <3>1, <3>2, <3>3, SaveFits DEF Saving
    <2>3. CASE Definition[i][mem[i].step + 1] # "task"
      <3> DEFINE m == [mem[i] EXCEPT !.state = "waiting_signal"]
      <3>1. /\ m \in Instance /\ m.state = "waiting_signal" /\ m.step = mem[i].step
            /\ m.results = mem[i].results
        BY <1>a DEF Instance, States
      <3>2. Definition[i][mem[i].step + 1] = "wait"
        BY <1>a, <2>1, <2>3, WorkflowAssumption
      <3>3. Save(i, m, "paused")
        BY <1>6, <2>3 DEF RunStep
      <3>4. InstanceFits(i, m, store[i], [at |-> "paused", set |-> "sent"], sig)
        BY <1>a, <2>1, <3>1, <3>2 DEF InstanceFits, MemoryFits, PlaceFits, SavedFits, Precedes
      <3> HIDE DEF m
      <3> QED  BY <3>1, <3>3, <3>4, SaveFits DEF Saving
    <2> QED  BY <2>2, <2>3
  <1>7. ASSUME NEW i \in Instances, FailInstance(i), task[i].at \in Saving \cup {"once"},
               task[i].at \notin {"created", "failing"}
        PROVE  WorkflowInv'
    <2> DEFINE m == [mem[i] EXCEPT !.state = "failed"]
    <2>1. /\ m \in Instance /\ m.state = "failed" /\ m.step = mem[i].step
          /\ m.results = mem[i].results
      BY <1>a DEF Instance, States
    <2>2. Save(i, m, "failing")
      BY <1>7 DEF FailInstance
    <2>3. /\ store[i] # None /\ Precedes(store[i], mem[i]) /\ store[i].state # "failed"
          /\ store[i].state = "completed" => store[i].step = Len(Definition[i])
      <3>1. CASE task[i].set = "ok"
        <4>1. store[i] = mem[i] /\ store[i] # None
          BY <1>7, <1>a, <3>1, NoneAssumption DEF InstanceFits, SavedFits
        <4>2. mem[i].state # "failed"
          BY <1>7, <1>a DEF InstanceFits, PlaceFits, Saving
        <4> QED  BY <1>a, <4>1, <4>2 DEF InstanceFits, SavedFits
      <3>2. CASE task[i].set # "ok"
        <4>1. task[i].at \in Saving
          BY <1>0, <3>2 DEF Awaits
        <4> QED  BY <1>7, <1>a, <3>2, <4>1 DEF InstanceFits, SavedFits
      <3> QED  BY <3>1, <3>2
    <2>4. InstanceFits(i, m, store[i], [at |-> "failing", set |-> "sent"], sig)
      BY <1>a, <2>1, <2>3 DEF InstanceFits, MemoryFits, PlaceFits, SavedFits, Precedes
    <2> HIDE DEF m
    <2> QED  BY <2>1, <2>2, <2>4, SaveFits DEF Saving
  <1>8. ASSUME NEW i \in Instances, NEW at \in {"once", "rejected", "ended"}, Suspend(i, at),
               at = "once" => task[i].at = "paused" /\ task[i].set = "ok",
               at # "once" => task[i].at \in Saving
        PROVE  WorkflowInv'
    <2> DEFINE t == [at |-> at, set |-> "ok"]
    <2>1. t \in Awaits /\ t.at = at /\ t.set = "ok"
      BY DEF Awaits
    <2>2. task' = [task EXCEPT ![i] = t] /\ UNCHANGED <<store, mem, sig, seen>>
      BY <1>8 DEF Suspend
    <2>3. CASE at = "once"
      <3>1. PlaceFits(i, mem[i], "once") /\ store[i] = mem[i] /\ mem[i].state = "waiting_signal"
        BY <1>8, <1>a, <2>3 DEF InstanceFits, PlaceFits, SavedFits, Saving
      <3>2. SavedFits(i, mem[i], store[i], t)
        BY <1>a, <2>3, <3>1 DEF SavedFits, Saving
      <3> QED  BY <2>1, <2>2, <2>3, <3>1, <3>2, PlaceStepFits
    <2>4. CASE at # "once"
      <3>1. PlaceFits(i, mem[i], at)
        BY <2>4 DEF PlaceFits
      <3>2. SavedFits(i, mem[i], store[i], t)
        BY <1>8, <1>a, <2>4 DEF InstanceFits, SavedFits, Saving
      <3> QED  BY <2>1, <2>2, <3>1, <3>2, PlaceStepFits
    <2> QED  BY <2>3, <2>4
  <1>9. ASSUME NEW s \in Signals, Signal(s) PROVE WorkflowInv'
    <2>1. store[Target[s]] \in Instance
      BY <1>9, <1>0, WorkflowAssumption DEF Signal
    <2>2. TypeOK'
      BY <1>9, <1>0, <2>1 DEF Signal, TypeOK, Instance
    <2>3. \A r \in Signals : sig[r] = "captured" => sig'[r] = "captured"
      BY <1>9, <1>0 DEF Signal
    <2>4. \A i \in Instances : InstanceFits(i, mem[i], store[i], task[i], sig')
      BY <1>a, <2>3, FitsStays
    <2> QED  BY <1>9, <2>2, <2>4 DEF Signal, WorkflowInv
  <1>10. ASSUME NEW s \in Signals, Captured(s) PROVE WorkflowInv'
    <2> DEFINE i == Target[s]
               m == Advanced(mem[i], s)
               t == [at |-> "advanced", set |-> "sent"]
    <2>1. i \in Instances /\ task[i].at = "once" /\ sig[s] = "found"
      BY <1>10, WorkflowAssumption DEF Captured
    <2>2. /\ store[i] = mem[i] /\ mem[i] # None /\ mem[i].state = "waiting_signal"
          /\ mem[i].step < Len(Definition[i]) /\ Definition[i][mem[i].step + 1] = "wait"
      BY <1>0, <1>a, <2>1, NoneAssumption DEF InstanceFits, PlaceFits, SavedFits, Awaits, Saving
    <2>3. /\ sig' \in [Signals -> {"unsent", "found", "captured", "lost"}] /\ sig'[s] = "captured"
          /\ \A r \in Signals : sig[r] = "captured" => sig'[r] = "captured"
      BY <1>0, <1>10 DEF Captured
    <2>4. MemoryFits(i, mem[i], sig) /\ MemoryFits(i, mem[i], sig')
      BY <1>a, <2>1, <2>3, FitsStays DEF InstanceFits
    <2>5. \A k \in 1 .. mem[i].step : mem[i].results[k] # s
      BY <2>1, <2>4, NoneAssumption DEF MemoryFits, Fits
    <2>6. Fits(i, mem[i].step + 1, s, sig')
      BY <2>2, <2>3 DEF Fits
    <2>7. /\ m \in Instance /\ m.state = "running" /\ m.step = mem[i].step + 1
          /\ MemoryFits(i, m, sig')
          /\ \A k \in 1 .. mem[i].step : m.results[k] = mem[i].results[k]
      <3> HIDE DEF i
      <3> QED  BY <1>a, <2>1, <2>2, <2>4, <2>5, <2>6, AdvancedFits
    <2>8. /\ mem' = [mem EXCEPT ![i] = m] /\ store' = [store EXCEPT ![i] = store[i]]
          /\ task' = [task EXCEPT ![i] = t] /\ UNCHANGED seen /\ t \in Awaits
      BY <1>0, <1>10 DEF Captured, Awaits, Saving
    <2>9. InstanceFits(i, m, store[i], t, sig')
      <3> HIDE DEF i, m
      <3> QED  BY <1>a, <2>1, <2>2, <2>7 DEF InstanceFits, PlaceFits, SavedFits, Precedes
    <2> HIDE DEF i, m, t
    <2> QED  BY <1>0, <2>1, <2>3, <2>7, <2>8, <2>9, OneInstance
  <1>11. ASSUME NEW s \in Signals, Lost(s) PROVE WorkflowInv'
    <2>1. TypeOK'
      BY <1>11, <1>0 DEF Lost, TypeOK
    <2>2. \A r \in Signals : sig[r] = "captured" => sig'[r] = "captured"
      BY <1>11, <1>0 DEF Lost
    <2>3. \A i \in Instances : InstanceFits(i, mem[i], store[i], task[i], sig')
      BY <1>a, <2>2, FitsStays
    <2> QED  BY <1>11, <2>1, <2>3 DEF Lost, WorkflowInv
  <1>12. CASE Crash
    <2>1. task' \in [Instances -> Awaits]
      BY <1>0, <1>12 DEF Crash, Awaits
    <2>2. ASSUME NEW i \in Instances PROVE InstanceFits(i, mem[i], store[i], task'[i], sig)
      <3>1. CASE task'[i] = task[i]
        BY <1>a, <3>1
      <3>2. CASE task'[i] = [at |-> "gone", set |-> "ok"]
        BY <1>a, <3>2 DEF InstanceFits, PlaceFits, SavedFits, Saving
      <3> QED  BY <1>12, <3>1, <3>2 DEF Crash
    <2> QED  BY <1>0, <1>12, <2>1, <2>2 DEF Crash, WorkflowInv, TypeOK
  <1>13. ASSUME NEW i \in Instances, Engine(i) PROVE WorkflowInv'
    <2>1. CASE Once(i)
      BY <1>8, <2>1 DEF Once, Saved
    <2>2. CASE Timeout(i)
      BY <1>7, <2>2 DEF Timeout, Saving
    <2>3. CASE StepThrows(i)
      BY <1>7, <2>3 DEF StepThrows
    <2>4. CASE Rejects(i)
      BY <1>8, <2>4 DEF Rejects, Saving
    <2>5. CASE Announce(i)
      BY <1>7, <1>8, <2>5 DEF Announce, Saved, Saving
    <2>6. CASE FailureSaved(i)
      BY <1>8, <2>6 DEF FailureSaved, Saved, Saving
    <2> QED  BY <1>4, <1>5, <1>6, <1>13, <2>1, <2>2, <2>3, <2>4, <2>5, <2>6 DEF Engine
  <1> QED  BY <1>1, <1>2, <1>3, <1>9, <1>10, <1>11, <1>12, <1>13 DEF Next, Publish

LEMMA WorkflowInvariance == Spec => []WorkflowInv
  <1>1. ASSUME Init PROVE WorkflowInv
    <2>1. Fresh \in Instance /\ Fresh.step = 0 /\ Fresh.results = <<>> /\ Fresh.state = "running"
      BY DEF Fresh, Instance, States
    <2>2. TypeOK
      BY <1>1, <2>1 DEF Init, TypeOK, Awaits
    <2>3. \A i \in Instances : Len(Definition[i]) \in Nat
      BY WorkflowAssumption
    <2> QED  BY <1>1, <2>1, <2>2, <2>3 DEF Init, WorkflowInv, InstanceFits, MemoryFits,
             PlaceFits, SavedFits, Saving
  <1> QED  BY <1>1, WorkflowStep, PTL DEF Spec

\* A workflow saved as completed has run all its steps in order, each waiting one ended
\* by a signal of its own, whatever has crashed, timed out or thrown.
THEOREM CompletedInFullHolds == Spec => []CompletedInFull
  <1>1. ASSUME WorkflowInv, NEW i \in Instances, store[i] # None, store[i].state = "completed"
        PROVE  LET r == store[i].results
               IN  /\ Len(r) = Len(Definition[i])
                   /\ \A k \in DOMAIN r : Fits(i, k, r[k], sig)
                   /\ \A k, l \in DOMAIN r : r[k] = r[l] /\ r[k] \in Signals => k = l
    <2> DEFINE r == store[i].results
    <2>1. InstanceFits(i, mem[i], store[i], task[i], sig)
      BY <1>1 DEF WorkflowInv
    <2>2. Precedes(store[i], mem[i]) /\ store[i].step = Len(Definition[i])
      BY <1>1, <2>1 DEF InstanceFits, SavedFits
    <2>3. Len(r) = Len(Definition[i]) /\ DOMAIN r = 1 .. store[i].step
      <3>1. r \in Seq(Signals \cup {"task"})
        BY <1>1 DEF WorkflowInv, TypeOK, Instance
      <3>2. Len(r) \in Nat /\ DOMAIN r = 1 .. Len(r)
        BY <3>1
      <3>3. store[i].step = Len(r)
        BY <2>2 DEF Precedes
      <3> QED  BY <2>2, <3>2, <3>3
    <2>4. \A k \in DOMAIN r : k \in 1 .. mem[i].step /\ r[k] = mem[i].results[k]
      <3>1. store[i].step \in Nat /\ mem[i].step \in Nat
        BY <1>1 DEF WorkflowInv, TypeOK, Instance
      <3> QED  BY <2>2, <2>3, <3>1 DEF Precedes
    <2> QED  BY <2>1, <2>3, <2>4 DEF InstanceFits, MemoryFits
  <1>2. WorkflowInv => CompletedInFull
    BY <1>1 DEF CompletedInFull, Fits
  <1> QED  BY <1>2, WorkflowInvariance, PTL

\* What one step may do to what is saved of an instance: nothing, or replace it by the
\* object in memory, when a save was under way.
LEMMA StoreStep ==
  ASSUME WorkflowInv, [Next]_vars, NEW i \in Instances
  PROVE  \/ store'[i] = store[i]
         \/ task[i].set = "sent" /\ task[i].at \in Saving /\ store'[i] = mem[i]
  <1> USE DEF WorkflowInv, TypeOK
  <1>1. CASE UNCHANGED vars
    BY <1>1 DEF vars
  <1>2. ASSUME NEW j \in Instances, Written(j)
        PROVE  \/ store'[i] = store[i]
               \/ task[i].set = "sent" /\ task[i].at \in Saving /\ store'[i] = mem[i]
    BY <1>2 DEF Written, Awaits
  <1>3. ASSUME NEW j \in Instances, Engine(j), ~Written(j) PROVE UNCHANGED store
    BY <1>3 DEF Engine, BeginStep, RunStep, Once, Timeout, StepThrows, Rejects, Announce,
       FailureSaved, FailInstance, Save, Suspend
  <1>4. ASSUME NEW j \in Instances, Start(j) \/ SetThrows(j) PROVE UNCHANGED store
    BY <1>4 DEF Start, SetThrows, Save
  <1>5. ASSUME NEW s \in Signals, Signal(s) \/ Publish(s) PROVE UNCHANGED store
    BY <1>5 DEF Signal, Publish, Captured, Lost
  <1>6. CASE Crash
    BY <1>6 DEF Crash
  <1> QED  BY <1>1, <1>2, <1>3, <1>4, <1>5, <1>6 DEF Next

\* What has been saved of a workflow's progress is never taken back, failed saves and
\* late timeouts included, and a result comes with its step.
THEOREM ProgressKeptHolds == Spec => ProgressKept
  <1>1. ASSUME WorkflowInv, [Next]_vars, NEW i \in Instances, store[i] # None
        PROVE  /\ store'[i] # None /\ store'[i].step = Len(store'[i].results)
               /\ store'[i].step \in {store[i].step, store[i].step + 1}
               /\ SubSeq(store'[i].results, 1, store[i].step) = store[i].results
    <2> DEFINE r == store[i].results
    <2>1. /\ Precedes(store[i], mem[i]) /\ mem[i] \in Instance /\ store[i] \in Instance
          /\ mem[i] # None /\ mem[i].step = Len(mem[i].results)
      BY <1>1, NoneAssumption
         DEF WorkflowInv, TypeOK, InstanceFits, SavedFits, MemoryFits
    <2>2. ASSUME NEW q \in Seq(Signals \cup {"task"}), Len(r) <= Len(q),
                 \A k \in 1 .. Len(r) : r[k] = q[k]
          PROVE  SubSeq(q, 1, Len(r)) = r
      <3>1. r \in Seq(Signals \cup {"task"})
        BY <2>1 DEF Instance
      <3> HIDE DEF r
      <3>2. /\ Len(r) \in Nat /\ Len(q) \in Nat
            /\ Len(SubSeq(q, 1, Len(r))) = Len(r)
            /\ \A k \in 1 .. Len(r) : SubSeq(q, 1, Len(r))[k] = q[k]
        BY <2>2, <3>1
      <3>3. SubSeq(q, 1, Len(r)) \in Seq(Signals \cup {"task"})
        BY <2>2, <3>1, <3>2
      <3> QED  BY <2>2, <3>1, <3>2, <3>3, SeqEqual
    <2>3. r \in Seq(Signals \cup {"task"}) /\ store[i].step = Len(r) /\ Len(r) \in Nat
      BY <2>1 DEF Instance, Precedes
    <2>4. CASE store'[i] = store[i]
      <3>1. SubSeq(r, 1, Len(r)) = r
        BY <2>2, <2>3
      <3> QED  BY <1>1, <2>3, <2>4, <3>1
    <2>5. CASE store'[i] = mem[i]
      <3>1. /\ mem[i].results \in Seq(Signals \cup {"task"}) /\ Len(r) <= Len(mem[i].results)
            /\ \A k \in 1 .. Len(r) : r[k] = mem[i].results[k]
            /\ mem[i].step \in {store[i].step, store[i].step + 1}
        BY <2>1, <2>3 DEF Instance, Precedes
      <3>2. SubSeq(mem[i].results, 1, Len(r)) = r
        BY <2>2, <3>1
      <3> QED  BY <2>1, <2>3, <2>5, <3>1, <3>2
    <2> QED  BY <1>1, <2>4, <2>5, StoreStep
  <1>2. WorkflowInv /\ [Next]_vars =>
          [\A i \in Instances : store[i] # None =>
             /\ store'[i] # None /\ store'[i].step = Len(store'[i].results)
             /\ store'[i].step \in {store[i].step, store[i].step + 1}
             /\ SubSeq(store'[i].results, 1, store[i].step) = store[i].results]_vars
    BY <1>1
  <1> QED  BY <1>2, WorkflowInvariance, PTL DEF Spec, ProgressKept

\* A saved end is final, but for a completion whose announcement throws.
THEOREM EndIsFinalHolds == Spec => EndIsFinal
  <1>1. ASSUME WorkflowInv, [Next]_vars, NEW i \in Instances, store[i] # None,
               store[i].state \in {"completed", "failed"}, store'[i] # store[i]
        PROVE  store[i].state = "completed" /\ store'[i].state = "failed" /\ task[i].at = "failing"
    <2>1. task[i].set = "sent" /\ task[i].at \in Saving /\ store'[i] = mem[i]
      BY <1>1, StoreStep
    <2>2. InstanceFits(i, mem[i], store[i], task[i], sig)
      BY <1>1 DEF WorkflowInv
    <2> QED  BY <1>1, <2>1, <2>2 DEF InstanceFits, SavedFits, PlaceFits
  <1>2. WorkflowInv /\ [Next]_vars =>
          [\A i \in Instances :
             store[i] # None /\ store[i].state \in {"completed", "failed"} =>
                 \/ store'[i] = store[i]
                 \/ store[i].state = "completed" /\ store'[i].state = "failed"
                    /\ task[i].at = "failing"]_vars
    BY <1>1
  <1> QED  BY <1>2, WorkflowInvariance, PTL DEF Spec, EndIsFinal

\* Progress and ends are kept.
THEOREM ProgressStandsHolds == Spec => ProgressStands
  BY ProgressKeptHolds, EndIsFinalHolds, PTL DEF ProgressStands

----------------------------------------------------------------------------
(* Paged records.                                                           *)

\* Someone holds the id together with the key: a row, a call of set that has read it,
\* or a call that has found it.
InRows(id, key) == \E i \in DOMAIN entries : entries[i].id = id /\ entries[i].key = key

WasRead(id, key) == \E s \in Setters : setting[s].read = id /\ setting[s].key = key

WasFound(id, key) ==
    \E f \in Finders : /\ find[f].at \in {"remove", "true", "false"}
                       /\ find[f].id = id /\ find[f].key = key

Knows(id, key) == InRows(id, key) \/ WasRead(id, key) \/ WasFound(id, key)

\* An id belongs to one key for ever, and in the checkpoint manager it is the key.
IdsBelong ==
    /\ \A id, k, l \in 1 .. MaxEntries : Knows(id, k) /\ Knows(id, l) => k = l
    /\ \A id, k \in 1 .. MaxEntries : Knows(id, k) =>
          id <= given /\ (keeper = "checkpoint" => k = id)
    /\ \A s \in Setters : setting[s].at # "idle" =>
          keeper = "knowledge" /\ setting[s].key \in EntryKeys
    /\ \A f \in Finders : find[f].at \in {"remove", "true", "false"} =>
          find[f].id # 0 /\ find[f].key # 0

\* What a call that is under way counts as stored is stored.
StayedStored ==
    \A f \in Finders : find[f].at \in {"page", "rows", "remove"} => find[f].stayed \subseteq Ids(entries)

PagedInv == PagedTypeOK /\ IdsBelong /\ StayedStored

LEMMA BoundsFit == Stored <= MaxEntries
  <1>1. CASE Stored = 0
    BY <1>1, PagedAssumption
  <1>2. CASE Stored # 0
    <2>1. Stored \in 1 .. Stored
      BY <1>2, PagedAssumption
    <2>2. Stored \in 1 .. MaxEntries
      BY <2>1, PagedAssumption
    <2> QED  BY <2>2, PagedAssumption
  <1> QED  BY <1>1, <1>2

\* A set of naturals has a least one.
LEMMA LeastNatural ==
  ASSUME NEW S, S \subseteq Nat, S # {}
  PROVE  \E m \in S : \A x \in S : m <= x
  <1>1. \E m \in S : \A x \in S : <<x, m>> \notin OpToRel(<, Nat)
    <2> HIDE DEF OpToRel, IsWellFoundedOn
    <2> QED  BY WFMin, NatLessThanWellFounded
  <1>2. PICK m \in S : \A x \in S : <<x, m>> \notin OpToRel(<, Nat)
    BY <1>1
  <1>3. \A x \in S : ~(x < m)
    BY <1>2 DEF OpToRel
  <1>4. \A x \in S : m <= x
    <2>1. m \in Nat /\ \A x \in S : x \in Nat
      OBVIOUS
    <2> QED  BY <1>3, <2>1
  <1> QED  BY <1>2, <1>4

\* A page holds rows of the backend.
LEMMA PageRows ==
  ASSUME entries \in Seq(Entry), NEW offset \in Nat, NEW page \in Pages(offset)
  PROVE  /\ page \in Seq(Entry)
         /\ \A i \in DOMAIN page : \E j \in DOMAIN entries : page[i] = entries[j]
  <1> DEFINE last == Min({offset + PageSize, Len(entries)})
  <1>1. last \in Int /\ last <= Len(entries)
    <2>1. offset + PageSize \in Int /\ Len(entries) \in Int
      BY PagedAssumption
    <2> QED  BY <2>1 DEF Min
  <1>2. PICK p \in Orders : page = [i \in 1 .. last - offset |-> entries[p[offset + i]]]
    BY DEF Pages
  <1>3. p \in [DOMAIN entries -> DOMAIN entries]
    BY <1>2 DEF Orders, Bijection, Injection
  <1> HIDE DEF last
  <1>4. \A i \in 1 .. last - offset : p[offset + i] \in DOMAIN entries
    BY <1>1, <1>3
  <1>5. CASE last - offset \in Nat
    <2> DEFINE n == last - offset
    <2>1. page = [i \in 1 .. n |-> entries[p[offset + i]]]
      BY <1>2
    <2>2. \A i \in 1 .. n : p[offset + i] \in DOMAIN entries
      BY <1>4
    <2>3. n \in Nat
      BY <1>5
    <2> HIDE DEF n
    <2>4. \A i \in 1 .. n : page[i] = entries[p[offset + i]] /\ page[i] \in Entry
      BY <2>1, <2>2
    <2>5. page \in Seq(Entry) /\ DOMAIN page = 1 .. n
      BY <2>1, <2>3, <2>4, SeqDef
    <2> QED  BY <2>2, <2>4, <2>5
  <1>6. CASE last - offset \notin Nat
    <2>1. 1 .. last - offset = {}
      BY <1>1, <1>6
    <2>2. page = <<>>
      BY <1>2, <2>1
    <2> QED  BY <2>2
  <1> QED  BY <1>5, <1>6

LEMMA NotedFits ==
  ASSUME NEW calls \in [Finders -> FindCall], NEW lost, NEW how \in SUBSET {"moved", "grown"}
  PROVE  /\ Noted(calls, lost, how) \in [Finders -> FindCall]
         /\ \A f \in Finders : /\ Noted(calls, lost, how)[f].at = calls[f].at
                               /\ Noted(calls, lost, how)[f].op = calls[f].op
                               /\ Noted(calls, lost, how)[f].id = calls[f].id
                               /\ Noted(calls, lost, how)[f].key = calls[f].key
                               /\ Noted(calls, lost, how)[f].offset = calls[f].offset
                               /\ Noted(calls, lost, how)[f].seen = calls[f].seen
                               /\ Noted(calls, lost, how)[f].total = calls[f].total
                               /\ calls[f].at \in {"page", "rows", "remove"} =>
                                     /\ Noted(calls, lost, how)[f].stayed = calls[f].stayed \ lost
                                     /\ Noted(calls, lost, how)[f].met = calls[f].met \cup how
  <1> DEFINE n == Noted(calls, lost, how)
  <1>1. ASSUME NEW f \in Finders, calls[f].at \notin {"page", "rows", "remove"} PROVE n[f] = calls[f]
    BY <1>1 DEF Noted
  <1>2. ASSUME NEW f \in Finders, calls[f].at \in {"page", "rows", "remove"}
        PROVE  /\ n[f] \in FindCall /\ n[f].at = calls[f].at /\ n[f].op = calls[f].op
               /\ n[f].id = calls[f].id /\ n[f].key = calls[f].key /\ n[f].offset = calls[f].offset
               /\ n[f].seen = calls[f].seen /\ n[f].total = calls[f].total /\ n[f].stayed = calls[f].stayed \ lost
               /\ n[f].met = calls[f].met \cup how
    <2>1. PICK c \in FindCall : c = calls[f]
      OBVIOUS
    <2>2. PICK stayed \in SUBSET (1 .. MaxEntries) : stayed = c.stayed \ lost
      BY DEF FindCall
    <2>3. PICK met \in SUBSET {"moved", "grown"} : met = c.met \cup how
      BY DEF FindCall
    <2>4. n[f] = [c EXCEPT !.stayed = stayed, !.met = met]
      BY <1>2, <2>1, <2>2, <2>3 DEF Noted
    <2> HIDE DEF n
    <2>5. /\ n[f] \in FindCall /\ n[f].at = c.at /\ n[f].op = c.op /\ n[f].id = c.id /\ n[f].key = c.key
          /\ n[f].offset = c.offset /\ n[f].seen = c.seen /\ n[f].total = c.total
          /\ n[f].stayed = stayed /\ n[f].met = met
      BY <2>4 DEF FindCall
    <2> QED  BY <2>1, <2>2, <2>3, <2>5
  <1>3. n \in [Finders -> FindCall]
    <2>1. \A f \in Finders : n[f] \in FindCall
      BY <1>1, <1>2
    <2>2. n = [f \in Finders |-> n[f]]
      BY DEF Noted
    <2> HIDE DEF n
    <2> QED  BY <2>1, <2>2
  <1> QED  BY <1>1, <1>2, <1>3

LEMMA RemoveAtIs ==
  ASSUME NEW S, NEW s \in Seq(S), NEW i \in DOMAIN s
  PROVE  /\ RemoveAt(s, i) \in Seq(S) /\ Len(RemoveAt(s, i)) = Len(s) - 1
         /\ \A j \in 1 .. Len(s) - 1 : RemoveAt(s, i)[j] = IF j < i THEN s[j] ELSE s[j + 1]
  <1>1. /\ SubSeq(s, 1, i - 1) \in Seq(S) /\ Len(SubSeq(s, 1, i - 1)) = i - 1
        /\ \A j \in 1 .. i - 1 : SubSeq(s, 1, i - 1)[j] = s[j]
    OBVIOUS
  <1>2. /\ SubSeq(s, i + 1, Len(s)) \in Seq(S) /\ Len(SubSeq(s, i + 1, Len(s))) = Len(s) - i
        /\ \A j \in 1 .. Len(s) - i : SubSeq(s, i + 1, Len(s))[j] = s[i + j]
    OBVIOUS
  <1> DEFINE x == SubSeq(s, 1, i - 1)
             y == SubSeq(s, i + 1, Len(s))
  <1>3. RemoveAt(s, i) = x \o y
    BY DEF RemoveAt
  <1>4. x \in Seq(S) /\ Len(x) = i - 1 /\ \A j \in 1 .. i - 1 : x[j] = s[j]
    BY <1>1
  <1>5. y \in Seq(S) /\ Len(y) = Len(s) - i /\ \A j \in 1 .. Len(s) - i : y[j] = s[i + j]
    BY <1>2
  <1> HIDE DEF x, y
  <1>6. x \o y \in Seq(S) /\ Len(x \o y) = Len(s) - 1
    BY <1>4, <1>5
  <1>7. ASSUME NEW j \in 1 .. Len(s) - 1, j < i PROVE (x \o y)[j] = s[j]
    BY <1>4, <1>5, <1>7
  <1>8. ASSUME NEW j \in 1 .. Len(s) - 1, ~(j < i) PROVE (x \o y)[j] = s[j + 1]
    <2>1. (x \o y)[j] = y[j - (i - 1)] /\ j - (i - 1) \in 1 .. Len(s) - i
      <3>1. j \in Int /\ i \in Int /\ j \in 1 .. Len(x) + Len(y) /\ ~(j <= Len(x)) /\ j - (i - 1) = j - Len(x)
        BY <1>4, <1>5, <1>8
      <3>2. (x \o y)[j] = y[j - Len(x)]
        BY <1>4, <1>5, <3>1, ConcatProperties
      <3> QED  BY <1>4, <1>8, <3>1, <3>2
    <2>2. i + (j - (i - 1)) = j + 1
      OBVIOUS
    <2> QED  BY <1>5, <2>1, <2>2
  <1>9. \A j \in 1 .. Len(s) - 1 : (x \o y)[j] = IF j < i THEN s[j] ELSE s[j + 1]
    BY <1>7, <1>8
  <1> QED  BY <1>3, <1>6, <1>9

\* Someone learns nothing but the key of a new id.
LEMMA BelongStep ==
  ASSUME PagedInv, given' \in {given, given + 1}, given' <= MaxEntries, UNCHANGED keeper,
         NEW key \in 1 .. MaxEntries, keeper = "checkpoint" => key = given + 1,
         \A id, k \in 1 .. MaxEntries : Knows(id, k)' =>
             Knows(id, k) \/ (given' = given + 1 /\ id = given' /\ k = key)
  PROVE  /\ (\A id, k, l \in 1 .. MaxEntries : Knows(id, k) /\ Knows(id, l) => k = l)'
         /\ (\A id, k \in 1 .. MaxEntries : Knows(id, k) =>
                id <= given /\ (keeper = "checkpoint" => k = id))'
  <1>1. given \in Nat /\ MaxEntries \in Nat
    BY PagedAssumption DEF PagedInv, PagedTypeOK
  <1> HIDE DEF Knows
  <1>2. \A id, k \in 1 .. MaxEntries : Knows(id, k) => id <= given
    BY DEF PagedInv, IdsBelong
  <1>3. \A id, k \in 1 .. MaxEntries : Knows(id, k)' =>
            id <= given' /\ (keeper' = "checkpoint" => k = id)
    BY <1>1, <1>2 DEF PagedInv, IdsBelong
  <1>4. ASSUME NEW id \in 1 .. MaxEntries, NEW k \in 1 .. MaxEntries, NEW l \in 1 .. MaxEntries,
               Knows(id, k)', Knows(id, l)'
        PROVE  k = l
    BY <1>1, <1>2, <1>4 DEF PagedInv, IdsBelong
  <1> QED  BY <1>3, <1>4

\* What the rows are.
LEMMA RowsFit ==
  ASSUME PagedInv
  PROVE  /\ DOMAIN entries = 1 .. Len(entries) /\ Len(entries) \in Nat
         /\ \A i \in DOMAIN entries :
               /\ entries[i] \in Entry /\ entries[i].id <= given
               /\ entries[i].id \in 1 .. MaxEntries /\ entries[i].key \in 1 .. MaxEntries
               /\ entries[i].ms \in 0 .. MaxMillis
               /\ keeper = "checkpoint" => entries[i].key = entries[i].id
         /\ \A i, j \in DOMAIN entries : entries[i].id = entries[j].id => i = j
  <1>1. entries \in Seq(Entry)
    BY DEF PagedInv, PagedTypeOK
  <1>2. /\ DOMAIN entries = 1 .. Len(entries) /\ Len(entries) \in Nat
        /\ \A i \in DOMAIN entries : entries[i] \in Entry
    BY <1>1
  <1>3. \A i \in DOMAIN entries :
            /\ entries[i].id \in 1 .. MaxEntries /\ entries[i].key \in 1 .. MaxEntries
            /\ entries[i].ms \in 0 .. MaxMillis
    BY <1>2 DEF Entry
  <1>4. \A i \in DOMAIN entries : Knows(entries[i].id, entries[i].key)
    BY DEF Knows, InRows
  <1> HIDE DEF Knows
  <1>5. \A i \in DOMAIN entries :
            entries[i].id <= given /\ (keeper = "checkpoint" => entries[i].key = entries[i].id)
    BY <1>3, <1>4 DEF PagedInv, IdsBelong
  <1>6. ASSUME NEW i \in DOMAIN entries, NEW j \in DOMAIN entries, entries[i].id = entries[j].id
        PROVE  i = j
    <2>1. Knows(entries[i].id, entries[i].key) /\ Knows(entries[i].id, entries[j].key)
      BY <1>4, <1>6
    <2>2. entries[i].key = entries[j].key
      BY <1>3, <2>1 DEF PagedInv, IdsBelong
    <2> QED  BY <2>2 DEF PagedInv, PagedTypeOK
  <1> QED  BY <1>2, <1>3, <1>5, <1>6

LEMMA SaveCheckpointStep ==
  ASSUME PagedInv, SaveCheckpoint PROVE PagedInv'
  <1>1. /\ given \in Nat /\ given < MaxEntries /\ given' = given + 1 /\ millis \in 0 .. MaxMillis
        /\ entries \in Seq(Entry) /\ find \in [Finders -> FindCall] /\ keeper = "checkpoint"
        /\ UNCHANGED <<keeper, sorted, millis, setting>>
        /\ given' \in 1 .. MaxEntries /\ MaxEntries \in Nat /\ MaxMillis \in Nat
    BY PagedAssumption DEF PagedInv, PagedTypeOK, SaveCheckpoint
  <1>2. PICK ms \in 0 .. millis : entries' = Append(entries, [key |-> given', id |-> given', ms |-> ms])
    <2>1. PICK ms \in (IF sorted THEN {millis} ELSE 0 .. millis) :
             entries' = Append(entries, [key |-> given', id |-> given', ms |-> ms])
      BY DEF SaveCheckpoint
    <2>2. ms \in 0 .. millis
      BY <1>1, <2>1
    <2> QED  BY <2>1, <2>2
  <1> DEFINE e == [key |-> given', id |-> given', ms |-> ms]
  <1>3. e \in Entry /\ e.key = given' /\ e.id = given'
    BY <1>1, <1>2 DEF Entry
  <1>4. entries' = Append(entries, e)
    BY <1>2
  <1> HIDE DEF e
  <1>5. /\ entries' \in Seq(Entry) /\ Len(entries') = Len(entries) + 1 /\ entries'[Len(entries) + 1] = e
        /\ \A i \in 1 .. Len(entries) : entries'[i] = entries[i]
    BY <1>1, <1>3, <1>4
  <1>6. find' \in [Finders -> FindCall] /\ \A f \in Finders :
           /\ find'[f].at = find[f].at /\ find'[f].id = find[f].id /\ find'[f].key = find[f].key
           /\ find[f].at \in {"page", "rows", "remove"} => find'[f].stayed \subseteq find[f].stayed
    <2>1. find' = Noted(find, {}, {"grown"}) /\ {"grown"} \in SUBSET {"moved", "grown"}
      BY DEF SaveCheckpoint
    <2> QED  BY <1>1, <2>1, NotedFits
  <1>7. /\ DOMAIN entries = 1 .. Len(entries) /\ Len(entries) \in Nat
        /\ DOMAIN entries' = 1 .. Len(entries) + 1
        /\ \A i \in DOMAIN entries : entries[i].id <= given /\ entries[i].key = entries[i].id
                                    /\ entries[i].id \in Nat
    BY <1>1, <1>5, RowsFit
  <1>8. /\ \A i \in DOMAIN entries' : i = Len(entries) + 1 \/ i \in DOMAIN entries
        /\ \A i \in DOMAIN entries : i \in DOMAIN entries' /\ entries'[i] = entries[i]
        /\ entries'[Len(entries) + 1].id = given' /\ entries'[Len(entries) + 1].key = given'
        /\ Len(entries) + 1 \in DOMAIN entries'
    BY <1>3, <1>5, <1>7
  <1>9. \A i \in DOMAIN entries : entries[i].id # given' /\ entries[i].key # given'
    BY <1>1, <1>7
  <1>10. PagedTypeOK'
    <2>1. \A i, j \in DOMAIN entries' : entries'[i].key = entries'[j].key => i = j
      BY <1>8, <1>9 DEF PagedInv, PagedTypeOK
    <2>2. \A i \in DOMAIN entries' : entries'[i].id <= given'
      BY <1>1, <1>7, <1>8
    <2> QED  BY <1>1, <1>5, <1>6, <2>1, <2>2 DEF PagedInv, PagedTypeOK, Ids
  <1>11. IdsBelong'
    <2>1. ASSUME NEW id \in 1 .. MaxEntries, NEW k \in 1 .. MaxEntries, Knows(id, k)'
          PROVE  Knows(id, k) \/ (given' = given + 1 /\ id = given' /\ k = given')
      <3>1. CASE InRows(id, k)'
        <4>1. PICK i \in DOMAIN entries' : entries'[i].id = id /\ entries'[i].key = k
          BY <3>1 DEF InRows
        <4>2. CASE i \in DOMAIN entries
          BY <1>8, <4>1, <4>2 DEF Knows, InRows
        <4> QED  BY <1>1, <1>8, <4>1, <4>2
      <3>2. CASE WasRead(id, k)'
        BY <1>1, <3>2 DEF Knows, WasRead
      <3>3. CASE WasFound(id, k)'
        BY <1>6, <3>3 DEF Knows, WasFound
      <3> QED  BY <2>1, <3>1, <3>2, <3>3 DEF Knows
    <2>2. \A f \in Finders : find'[f].at \in {"remove", "true", "false"} =>
             find'[f].id # 0 /\ find'[f].key # 0
      BY <1>6 DEF PagedInv, IdsBelong
    <2> HIDE DEF Knows
    <2>3. /\ (\A id, k, l \in 1 .. MaxEntries : Knows(id, k) /\ Knows(id, l) => k = l)'
          /\ (\A id, k \in 1 .. MaxEntries : Knows(id, k) =>
                id <= given /\ (keeper = "checkpoint" => k = id))'
      <3>1. /\ given' \in {given, given + 1} /\ given' <= MaxEntries /\ keeper' = keeper
            /\ given' = given + 1 /\ given' \in 1 .. MaxEntries
        BY <1>1
      <3>2. \A id, k \in 1 .. MaxEntries : Knows(id, k)' =>
              Knows(id, k) \/ (given' = given + 1 /\ id = given' /\ k = given')
        BY <2>1
      <3> QED  BY <3>1, <3>2, BelongStep
    <2> QED  BY <1>1, <2>2, <2>3 DEF PagedInv, IdsBelong
  <1>12. StayedStored'
    <2>1. Ids(entries) \subseteq Ids(entries')
      BY <1>8 DEF Ids
    <2> QED  BY <1>6, <2>1 DEF PagedInv, StayedStored
  <1> QED  BY <1>10, <1>11, <1>12 DEF PagedInv

\* Nobody learns anything new.
LEMMA BelongSame ==
  ASSUME PagedInv, UNCHANGED <<keeper, given>>,
         \A id, k \in 1 .. MaxEntries : Knows(id, k)' => Knows(id, k)
  PROVE  /\ (\A id, k, l \in 1 .. MaxEntries : Knows(id, k) /\ Knows(id, l) => k = l)'
         /\ (\A id, k \in 1 .. MaxEntries : Knows(id, k) =>
                id <= given /\ (keeper = "checkpoint" => k = id))'
  <1> HIDE DEF Knows
  <1> QED  BY DEF PagedInv, IdsBelong

LEMMA SetReadsStep ==
  ASSUME PagedInv, NEW s \in Setters, NEW k \in EntryKeys, SetReads(s, k) PROVE PagedInv'
  <1> DEFINE SetCall == [at : {"idle", "set", "done"}, key : 0 .. MaxEntries, read : 0 .. MaxEntries]
  <1>1. /\ setting \in [Setters -> SetCall] /\ entries \in Seq(Entry) /\ k \in 1 .. MaxEntries
        /\ keeper = "knowledge" /\ UNCHANGED <<keeper, sorted, entries, given, millis, find>>
    BY PagedAssumption DEF PagedInv, PagedTypeOK, SetReads
  <1>2. PICK n \in 0 .. MaxEntries :
           /\ setting' = [setting EXCEPT ![s] = [at |-> "set", key |-> k, read |-> n]]
           /\ n # 0 => \E i \in DOMAIN entries : entries[i].id = n /\ entries[i].key = k
    <2>1. CASE \E e \in Range(entries) : e.key = k
      <3> DEFINE e == CHOOSE e \in Range(entries) : e.key = k
      <3>1. e \in Range(entries) /\ e.key = k
        BY <2>1
      <3>2. setting' = [setting EXCEPT ![s] = [at |-> "set", key |-> k, read |-> e.id]]
        BY <2>1 DEF SetReads
      <3> HIDE DEF e
      <3>3. PICK i \in DOMAIN entries : entries[i] = e
        BY <3>1 DEF Range
      <3>4. e.id \in 0 .. MaxEntries
        BY <1>1, <3>3, RowsFit, PagedAssumption
      <3> QED  BY <3>1, <3>2, <3>3, <3>4
    <2>2. CASE ~ \E e \in Range(entries) : e.key = k
      <3>1. setting' = [setting EXCEPT ![s] = [at |-> "set", key |-> k, read |-> 0]]
        BY <2>2 DEF SetReads
      <3>2. 0 \in 0 .. MaxEntries
        BY PagedAssumption
      <3> QED  BY <3>1, <3>2
    <2> QED  BY <2>1, <2>2
  <1>3. /\ setting' \in [Setters -> SetCall] /\ setting'[s].key = k /\ setting'[s].read = n
        /\ \A t \in Setters : t # s => setting'[t] = setting[t]
    BY <1>1, <1>2, PagedAssumption
  <1> HIDE DEF SetCall
  <1>4. PagedTypeOK'
    BY <1>1, <1>3 DEF PagedInv, PagedTypeOK, Ids, SetCall
  <1>5. IdsBelong'
    <2>1. ASSUME NEW id \in 1 .. MaxEntries, NEW l \in 1 .. MaxEntries, Knows(id, l)'
          PROVE  Knows(id, l)
      <3>1. CASE InRows(id, l)' \/ WasFound(id, l)'
        BY <1>1, <3>1 DEF Knows, InRows, WasFound
      <3>2. CASE WasRead(id, l)'
        <4>1. PICK t \in Setters : setting'[t].read = id /\ setting'[t].key = l
          BY <3>2 DEF WasRead
        <4>2. CASE t = s
          <5>1. n # 0 /\ id = n /\ l = k
            BY <1>3, <4>1, <4>2
          <5> QED  BY <1>2, <5>1 DEF Knows, InRows
        <4>3. CASE t # s
          BY <1>3, <4>1, <4>3 DEF Knows, WasRead
        <4> QED  BY <4>2, <4>3
      <3> QED  BY <2>1, <3>1, <3>2 DEF Knows
    <2> HIDE DEF Knows
    <2>2. /\ (\A id, l, m \in 1 .. MaxEntries : Knows(id, l) /\ Knows(id, m) => l = m)'
          /\ (\A id, l \in 1 .. MaxEntries : Knows(id, l) =>
                id <= given /\ (keeper = "checkpoint" => l = id))'
      BY <1>1, <2>1, BelongSame
    <2> QED  BY <1>1, <1>3, <2>2 DEF PagedInv, IdsBelong
  <1>6. StayedStored'
    BY <1>1 DEF PagedInv, StayedStored, Ids
  <1> QED  BY <1>4, <1>5, <1>6 DEF PagedInv

\* The row that a call of set writes.
RowWritten(s) == [key |-> setting[s].key, ms |-> millis,
               id |-> IF setting[s].read = 0 THEN given' ELSE setting[s].read]

LEMMA SetWritesFits ==
  ASSUME PagedInv, NEW s \in Setters, SetWrites(s)
  PROVE  /\ RowWritten(s) \in Entry /\ RowWritten(s).key = setting[s].key /\ RowWritten(s).ms = millis
         /\ RowWritten(s).id \in 1 .. given'
         /\ given' \in {given, given + 1} /\ given' \in 0 .. MaxEntries
         /\ RowWritten(s).id # given + 1 => given' = given /\ Knows(RowWritten(s).id, RowWritten(s).key)
         /\ RowWritten(s).id = given + 1 => given' = given + 1
         /\ keeper = "knowledge"
  <1>1. /\ setting[s].at = "set" /\ setting[s].key \in EntryKeys /\ keeper = "knowledge"
        /\ setting[s].key \in 1 .. MaxEntries
        /\ setting[s].read \in 0 .. MaxEntries /\ millis \in 0 .. MaxMillis /\ given \in 0 .. MaxEntries
    BY PagedAssumption DEF PagedInv, PagedTypeOK, IdsBelong, SetWrites
  <1>2. CASE setting[s].read = 0
    <2>1. given' = given + 1 /\ given < MaxEntries /\ RowWritten(s).id = given'
      BY <1>2 DEF SetWrites, RowWritten
    <2>2. given' \in 1 .. MaxEntries
      BY <1>1, <2>1, PagedAssumption
    <2> QED  BY <1>1, <2>1, <2>2, PagedAssumption DEF RowWritten, Entry
  <1>3. CASE setting[s].read # 0
    <2>1. given' = given /\ RowWritten(s).id = setting[s].read
      BY <1>3 DEF SetWrites, RowWritten
    <2>2. setting[s].read \in 1 .. MaxEntries
      BY <1>1, <1>3, PagedAssumption
    <2>3. Knows(RowWritten(s).id, RowWritten(s).key)
      BY <2>1 DEF Knows, WasRead, RowWritten
    <2> HIDE DEF Knows
    <2>4. setting[s].read <= given
      BY <1>1, <2>1, <2>2, <2>3 DEF PagedInv, IdsBelong, RowWritten
    <2> QED  BY <1>1, <2>1, <2>2, <2>3, <2>4, PagedAssumption DEF RowWritten, Entry
  <1> QED  BY <1>2, <1>3

LEMMA SetWritesStep ==
  ASSUME PagedInv, NEW s \in Setters, SetWrites(s) PROVE PagedInv'
  <1> DEFINE e == RowWritten(s)
             SetCall == [at : {"idle", "set", "done"}, key : 0 .. MaxEntries, read : 0 .. MaxEntries]
  <1>1. /\ e \in Entry /\ e.key = setting[s].key /\ e.id \in 1 .. given'
        /\ given' \in {given, given + 1} /\ given' \in 0 .. MaxEntries /\ given \in Nat
        /\ e.id # given + 1 => given' = given /\ Knows(e.id, e.key)
        /\ e.id = given + 1 => given' = given + 1
        /\ keeper = "knowledge"
    BY SetWritesFits DEF PagedInv, PagedTypeOK
  <1>2. \/ /\ ~ \E i \in DOMAIN entries : entries[i].key = e.key
           /\ entries' = Append(entries, e) /\ find' = Noted(find, {}, {"grown"})
        \/ \E i \in DOMAIN entries :
              /\ entries[i].key = e.key /\ entries' = [entries EXCEPT ![i] = e]
              /\ find' = Noted(find, {entries[i].id} \ {e.id}, {"moved"})
    BY DEF SetWrites, RowWritten
  <1>3. /\ setting \in [Setters -> SetCall] /\ entries \in Seq(Entry) /\ find \in [Finders -> FindCall]
        /\ setting' = [setting EXCEPT ![s].at = "done"] /\ setting[s].at = "set"
        /\ setting[s].key \in EntryKeys
        /\ UNCHANGED <<keeper, sorted, millis>>
    BY DEF PagedInv, PagedTypeOK, IdsBelong, SetWrites
  <1>4. /\ setting' \in [Setters -> SetCall]
        /\ \A t \in Setters : setting'[t].read = setting[t].read /\ setting'[t].key = setting[t].key
        /\ \A t \in Setters : setting'[t].at # "idle" => setting[t].at # "idle"
    BY <1>3
  <1> HIDE DEF e, SetCall
  <1> DEFINE RowsAfter ==
           /\ entries' \in Seq(Entry)
           /\ \A j \in DOMAIN entries' : \/ entries'[j] = e
                                         \/ /\ j \in DOMAIN entries /\ entries'[j] = entries[j]
                                            /\ entries[j].key # e.key
           /\ \A i, j \in DOMAIN entries' : entries'[i] = e /\ entries'[j] = e => i = j
           /\ \A j \in DOMAIN entries : entries[j].key # e.key =>
                 j \in DOMAIN entries' /\ entries'[j] = entries[j]
           /\ \E j \in DOMAIN entries' : entries'[j] = e
  <1>5. RowsAfter
    <2>1. CASE entries' = Append(entries, e) /\ ~ \E i \in DOMAIN entries : entries[i].key = e.key
      <3>1. /\ entries' \in Seq(Entry) /\ DOMAIN entries' = 1 .. Len(entries) + 1
            /\ DOMAIN entries = 1 .. Len(entries) /\ Len(entries) \in Nat
            /\ entries'[Len(entries) + 1] = e
            /\ \A j \in 1 .. Len(entries) : entries'[j] = entries[j]
        BY <1>1, <1>3, <2>1
      <3>2. \A j \in DOMAIN entries : entries'[j] # e
        BY <2>1, <3>1
      <3>3. \A j \in DOMAIN entries' : j = Len(entries) + 1 \/ j \in DOMAIN entries
        BY <3>1
      <3>4. Len(entries) + 1 \in DOMAIN entries' /\ DOMAIN entries \subseteq DOMAIN entries'
        BY <3>1
      <3> QED  BY <2>1, <3>1, <3>2, <3>3, <3>4
    <2>2. ASSUME NEW i \in DOMAIN entries, entries[i].key = e.key, entries' = [entries EXCEPT ![i] = e]
          PROVE  RowsAfter
      <3>1. /\ entries' \in Seq(Entry) /\ DOMAIN entries' = DOMAIN entries /\ entries'[i] = e
            /\ \A j \in DOMAIN entries : j # i => entries'[j] = entries[j]
        BY <1>1, <1>3, <2>2, ExceptSeq
      <3>2. \A j \in DOMAIN entries : j # i => entries[j].key # e.key
        BY <2>2 DEF PagedInv, PagedTypeOK
      <3> QED  BY <2>2, <3>1, <3>2
    <2> QED  BY <1>2, <2>1, <2>2
  <1> DEFINE CallsAfter ==
           /\ find' \in [Finders -> FindCall]
           /\ \A f \in Finders :
                 /\ find'[f].at = find[f].at /\ find'[f].id = find[f].id /\ find'[f].key = find[f].key
                 /\ find[f].at \in {"page", "rows", "remove"} =>
                       find'[f].stayed \subseteq find[f].stayed \cap Ids(entries')
  <1>6. CallsAfter
    <2>1. CASE entries' = Append(entries, e) /\ find' = Noted(find, {}, {"grown"})
      <3>1. {"grown"} \in SUBSET {"moved", "grown"}
        OBVIOUS
      <3>2. Ids(entries) \subseteq Ids(entries')
        <4>1. /\ DOMAIN entries' = 1 .. Len(entries) + 1 /\ DOMAIN entries = 1 .. Len(entries)
              /\ \A j \in 1 .. Len(entries) : entries'[j] = entries[j]
              /\ Len(entries) \in Nat
          BY <1>1, <1>3, <2>1
        <4>2. \A j \in DOMAIN entries : j \in DOMAIN entries' /\ entries'[j] = entries[j]
          BY <4>1
        <4> QED  BY <4>2 DEF Ids
      <3>3. \A f \in Finders : find[f].at \in {"page", "rows", "remove"} => find[f].stayed \subseteq Ids(entries)
        BY DEF PagedInv, StayedStored
      <3> QED  BY <1>3, <2>1, <3>1, <3>2, <3>3, NotedFits
    <2>2. ASSUME NEW i \in DOMAIN entries, entries[i].key = e.key, entries' = [entries EXCEPT ![i] = e],
                 find' = Noted(find, {entries[i].id} \ {e.id}, {"moved"})
          PROVE  CallsAfter
      <3>1. {"moved"} \in SUBSET {"moved", "grown"}
        OBVIOUS
      <3>2. Ids(entries) \ ({entries[i].id} \ {e.id}) \subseteq Ids(entries')
        BY <1>3, <2>2 DEF Ids
      <3>3. \A f \in Finders : find[f].at \in {"page", "rows", "remove"} => find[f].stayed \subseteq Ids(entries)
        BY DEF PagedInv, StayedStored
      <3> DEFINE lost == {entries[i].id} \ {e.id}
      <3>4. find' = Noted(find, lost, {"moved"}) /\ Ids(entries) \ lost \subseteq Ids(entries')
        BY <2>2, <3>2
      <3> HIDE DEF lost
      <3>5. /\ find' \in [Finders -> FindCall]
            /\ \A f \in Finders :
                  /\ find'[f].at = find[f].at /\ find'[f].id = find[f].id /\ find'[f].key = find[f].key
                  /\ find[f].at \in {"page", "rows", "remove"} => find'[f].stayed = find[f].stayed \ lost
        BY <1>3, <3>1, <3>4, NotedFits
      <3> QED  BY <3>3, <3>4, <3>5
    <2> QED  BY <1>2, <2>1, <2>2
  <1>7. PagedTypeOK'
    <2>1. \A i, j \in DOMAIN entries' : entries'[i].key = entries'[j].key => i = j
      BY <1>5 DEF PagedInv, PagedTypeOK
    <2>2. \A j \in DOMAIN entries' : entries'[j].id <= given'
      <3>1. \A j \in DOMAIN entries : entries[j].id <= given /\ entries[j].id \in Nat
        BY RowsFit
      <3> QED  BY <1>1, <1>5, <3>1
    <2> QED  BY <1>1, <1>3, <1>4, <1>5, <1>6, <2>1, <2>2 DEF PagedInv, PagedTypeOK, Ids, SetCall
  <1>8. IdsBelong'
    <2>1. ASSUME NEW id \in 1 .. MaxEntries, NEW k \in 1 .. MaxEntries, Knows(id, k)'
          PROVE  Knows(id, k) \/ (given' = given + 1 /\ id = given' /\ k = e.key)
      <3>1. CASE InRows(id, k)'
        <4>1. PICK j \in DOMAIN entries' : entries'[j].id = id /\ entries'[j].key = k
          BY <3>1 DEF InRows
        <4>2. CASE entries'[j] = e
          <5> HIDE DEF Knows
          <5> QED  BY <1>1, <4>1, <4>2
        <4>3. CASE entries'[j] # e
          BY <1>5, <4>1, <4>3 DEF Knows, InRows
        <4> QED  BY <4>2, <4>3
      <3>2. CASE WasRead(id, k)'
        BY <1>4, <3>2 DEF Knows, WasRead
      <3>3. CASE WasFound(id, k)'
        BY <1>6, <3>3 DEF Knows, WasFound
      <3> QED  BY <2>1, <3>1, <3>2, <3>3 DEF Knows
    <2>2. \A f \in Finders : find'[f].at \in {"remove", "true", "false"} =>
             find'[f].id # 0 /\ find'[f].key # 0
      BY <1>6 DEF PagedInv, IdsBelong
    <2> HIDE DEF Knows
    <2>3. /\ (\A id, k, l \in 1 .. MaxEntries : Knows(id, k) /\ Knows(id, l) => k = l)'
          /\ (\A id, k \in 1 .. MaxEntries : Knows(id, k) =>
                id <= given /\ (keeper = "checkpoint" => k = id))'
      <3>1. /\ given' <= MaxEntries /\ keeper' = keeper /\ e.key \in 1 .. MaxEntries
            /\ keeper # "checkpoint"
        BY <1>1, <1>3, PagedAssumption
      <3>2. \A id, k \in 1 .. MaxEntries : Knows(id, k)' =>
              Knows(id, k) \/ (given' = given + 1 /\ id = given' /\ k = e.key)
        BY <2>1
      <3> QED  BY <1>1, <3>1, <3>2, BelongStep
    <2> QED  BY <1>1, <1>3, <1>4, <2>2, <2>3 DEF PagedInv, IdsBelong
  <1>9. StayedStored'
    BY <1>6 DEF StayedStored
  <1> QED  BY <1>7, <1>8, <1>9 DEF PagedInv

LEMMA NoFindFits == NoFind \in FindCall
  BY PagedAssumption DEF NoFind, FindCall


\* A call that asks for a page: c is what it was before, at its first page or a later one.
Asked(f, c) ==
    /\ c \in FindCall /\ c.stayed \subseteq Ids(entries)
    /\ find[f].at \in {"idle", "page", "rows"} /\ (find[f].at # "idle" => c = find[f])
    /\ find[f].at = "idle" => c.at = "idle" /\ c.offset = 0 /\ c.seen = <<>>

\* It has the rows of the page; there were total rows when it counted.
Looking(f, c, total) ==
    /\ Asked(f, c) /\ LooksThrough(f, c, total) /\ total \in Nat
    /\ find[f].at = "rows" => total = c.total
    /\ find[f].at # "rows" => sorted /\ total = Len(entries)

\* It has the count, on Postgres.
Counting(f, c) ==
    /\ Asked(f, c) /\ find[f].at # "rows" /\ ~sorted
    /\ find' = [find EXCEPT ![f] = [c EXCEPT !.at = "rows", !.total = Len(entries)]]
    /\ UNCHANGED <<keeper, sorted, entries, given, millis, setting>>

LEMMA PagesAreLookedThrough ==
  ASSUME PagedInv, NEW f \in Finders,
         \/ NextPage(f) \/ RowsRead(f)
         \/ \E op \in {"list", "load", "delete"}, id \in 0 .. MaxEntries : FirstPage(f, op, id)
  PROVE  \E c \in FindCall : Counting(f, c) \/ \E total \in Nat : Looking(f, c, total)
  <1>0. Len(entries) \in Nat
    BY RowsFit
  <1>1. ASSUME NEW c \in FindCall, Asked(f, c), find[f].at # "rows", Lists(f, c)
        PROVE  Counting(f, c) \/ \E total \in Nat : Looking(f, c, total)
    <2>1. CASE sorted
      <3>1. LooksThrough(f, c, Len(entries))
        BY <1>1, <2>1 DEF Lists
      <3> QED  BY <1>0, <1>1, <2>1, <3>1 DEF Looking
    <2>2. CASE ~sorted
      BY <1>1, <2>2 DEF Lists, Counting
    <2> QED  BY <2>1, <2>2
  <1>2. ASSUME find[f].at \in {"page", "rows"} PROVE Asked(f, find[f]) /\ find[f] \in FindCall
    BY <1>2 DEF Asked, PagedInv, PagedTypeOK, StayedStored
  <1>3. CASE NextPage(f)
    <2>1. find[f].at = "page" /\ Lists(f, find[f])
      BY <1>3 DEF NextPage
    <2> QED  BY <1>1, <1>2, <2>1
  <1>4. CASE RowsRead(f)
    <2>1. find[f].at = "rows" /\ LooksThrough(f, find[f], find[f].total)
      BY <1>4 DEF RowsRead
    <2>2. find[f].total \in Nat
      BY <1>2, <2>1 DEF FindCall
    <2>3. Looking(f, find[f], find[f].total)
      BY <1>2, <2>1, <2>2 DEF Looking
    <2> QED  BY <1>2, <2>1, <2>2, <2>3
  <1>5. ASSUME NEW op \in {"list", "load", "delete"}, NEW id \in 0 .. MaxEntries, FirstPage(f, op, id)
        PROVE  \E c \in FindCall : Counting(f, c) \/ \E total \in Nat : Looking(f, c, total)
    <2> DEFINE ids == Ids(entries)
               c == [NoFind EXCEPT !.op = op, !.id = id, !.stayed = ids]
    <2>1. ids \in SUBSET (1 .. MaxEntries)
      BY RowsFit DEF Ids
    <2>2. find[f].at = "idle" /\ Lists(f, c)
      BY <1>5 DEF FirstPage
    <2> HIDE DEF ids
    <2>3. c \in FindCall /\ c.stayed = ids /\ c.at = "idle" /\ c.offset = 0 /\ c.seen = <<>>
      BY <2>1, NoFindFits DEF FindCall, NoFind
    <2>4. c.stayed \subseteq Ids(entries)
      BY <2>3 DEF ids
    <2> HIDE DEF c
    <2>5. Asked(f, c)
      BY <2>2, <2>3, <2>4 DEF Asked
    <2> QED  BY <1>1, <2>2, <2>3, <2>5
  <1> QED  BY <1>3, <1>4, <1>5

\* d is what becomes of it when it has looked through the page.
Looked(f, c, total, page, d) ==
    /\ find' = [find EXCEPT ![f] = d] /\ d.id = c.id /\ d.op = c.op /\ d.met = c.met
    /\ d.stayed \subseteq Ids(entries) /\ d.at \in {"page", "ended", "found", "remove"}
    /\ d.at = "remove" => d.id # 0 /\ \E i \in DOMAIN entries : entries[i].id = d.id /\ entries[i].key = d.key
    /\ d.at \in {"page", "ended"} =>
          /\ d.stayed = c.stayed /\ d.seen = IF c.op = "list" THEN c.seen \o page ELSE c.seen
          /\ c.op # "list" => \A i \in DOMAIN page : page[i].id # c.id
    /\ d.at = "page" => HasMore(c.offset, total) /\ d.offset = NextOffset(c.offset)
    /\ d.at = "ended" => ~HasMore(c.offset, total) /\ d.offset = c.offset

LEMMA LooksIs ==
  ASSUME PagedInv, NEW f \in Finders, NEW c \in FindCall, NEW total \in Nat, Looking(f, c, total)
  PROVE  \E page \in Pages(c.offset), d \in FindCall : Looked(f, c, total, page, d)
  <1>0. entries \in Seq(Entry) /\ c.offset \in Nat /\ c.stayed \subseteq Ids(entries)
    BY DEF PagedInv, PagedTypeOK, Looking, Asked, FindCall
  <1>1. PICK page \in Pages(c.offset) :
           LET hits == {i \in DOMAIN page : c.op # "list" /\ page[i].id = c.id}
               d == [c EXCEPT !.total = 0, !.seen = IF c.op = "list" THEN @ \o page ELSE @]
           IN  find' = [find EXCEPT ![f] =
                  IF hits # {}
                  THEN [d EXCEPT !.at = IF c.op = "load" THEN "found" ELSE "remove",
                                 !.key = page[CHOOSE i \in hits : TRUE].key, !.stayed = {c.id}]
                  ELSE IF HasMore(c.offset, total)
                  THEN [d EXCEPT !.at = "page", !.offset = NextOffset(@)]
                  ELSE [d EXCEPT !.at = "ended"]]
    BY DEF Looking, LooksThrough
  <1>2. /\ page \in Seq(Entry)
        /\ \A i \in DOMAIN page : \E j \in DOMAIN entries : page[i] = entries[j]
    BY <1>0, <1>1, PageRows
  <1> DEFINE hits == {i \in DOMAIN page : c.op # "list" /\ page[i].id = c.id}
             d == [c EXCEPT !.total = 0, !.seen = IF c.op = "list" THEN @ \o page ELSE @]
  <1>3. /\ d \in FindCall /\ d.id = c.id /\ d.op = c.op /\ d.met = c.met /\ d.stayed = c.stayed
        /\ d.offset = c.offset /\ d.seen = IF c.op = "list" THEN c.seen \o page ELSE c.seen
    <2>1. PICK got \in Seq(Entry) : got = IF c.op = "list" THEN c.seen \o page ELSE c.seen
      <3>1. c.seen \in Seq(Entry)
        BY DEF FindCall
      <3>2. c.seen \o page \in Seq(Entry)
        BY <1>2, <3>1
      <3> QED  BY <3>1, <3>2
    <2>2. d = [c EXCEPT !.total = 0, !.seen = got]
      BY <2>1
    <2> HIDE DEF d
    <2>3. /\ d \in FindCall /\ d.id = c.id /\ d.op = c.op /\ d.met = c.met /\ d.stayed = c.stayed
          /\ d.offset = c.offset /\ d.seen = got
      BY <2>2 DEF FindCall
    <2> QED  BY <2>1, <2>3
  <1> HIDE DEF d
  <1>4. CASE hits # {}
    <2>1. PICK i \in hits : i = CHOOSE h \in hits : TRUE
      BY <1>4
    <2>2. PICK at \in {"found", "remove"} : at = IF c.op = "load" THEN "found" ELSE "remove"
      OBVIOUS
    <2>3. find' = [find EXCEPT ![f] = [d EXCEPT !.at = at, !.key = page[i].key, !.stayed = {c.id}]]
      BY <1>1, <1>4, <2>1, <2>2 DEF d
    <2>4. PICK j \in DOMAIN entries : page[i] = entries[j]
      BY <1>2
    <2>5. entries[j].id = c.id /\ entries[j].key \in 1 .. MaxEntries /\ c.id \in 1 .. MaxEntries
      BY <2>1, <2>4, RowsFit
    <2>6. {c.id} \subseteq Ids(entries)
      BY <2>5 DEF Ids
    <2> DEFINE k == page[i].key
               stayed == {c.id}
               answer == [d EXCEPT !.at = at, !.key = k, !.stayed = stayed]
    <2>7. /\ k \in 0 .. MaxEntries /\ stayed \in SUBSET (1 .. MaxEntries) /\ c.id # 0
          /\ entries[j].key = k /\ stayed \subseteq Ids(entries)
      BY <2>4, <2>5, <2>6, PagedAssumption
    <2>8. find' = [find EXCEPT ![f] = answer]
      BY <2>3
    <2> HIDE DEF k, stayed
    <2>9. /\ answer \in FindCall /\ answer.id = c.id /\ answer.op = c.op /\ answer.met = c.met
          /\ answer.at = at /\ answer.key = k /\ answer.stayed = stayed
      BY <1>3, <2>7 DEF FindCall
    <2> HIDE DEF answer
    <2>10. Looked(f, c, total, page, answer)
      BY <2>2, <2>5, <2>7, <2>8, <2>9 DEF Looked
    <2> QED  BY <1>1, <2>9, <2>10
  <1>5. CASE hits = {} /\ HasMore(c.offset, total)
    <2>1. find' = [find EXCEPT ![f] = [d EXCEPT !.at = "page", !.offset = NextOffset(c.offset)]]
      BY <1>1, <1>3, <1>5 DEF d
    <2>2. NextOffset(c.offset) \in Nat
      BY <1>0, PagedAssumption DEF NextOffset
    <2> DEFINE next == [d EXCEPT !.at = "page", !.offset = NextOffset(c.offset)]
    <2>3. /\ next \in FindCall /\ next.id = d.id /\ next.op = d.op /\ next.met = d.met /\ next.at = "page"
          /\ next.stayed = d.stayed /\ next.seen = d.seen /\ next.offset = NextOffset(c.offset)
      BY <1>3, <2>2 DEF FindCall
    <2>4. find' = [find EXCEPT ![f] = next]
      BY <2>1
    <2>5. c.op # "list" => \A i \in DOMAIN page : page[i].id # c.id
      BY <1>5
    <2> HIDE DEF next
    <2>6. Looked(f, c, total, page, next)
      BY <1>0, <1>3, <1>5, <2>3, <2>4, <2>5 DEF Looked
    <2> QED  BY <1>1, <2>3, <2>6
  <1>6. CASE hits = {} /\ ~HasMore(c.offset, total)
    <2>1. find' = [find EXCEPT ![f] = [d EXCEPT !.at = "ended"]]
      BY <1>1, <1>6 DEF d
    <2> DEFINE last == [d EXCEPT !.at = "ended"]
    <2>2. /\ last \in FindCall /\ last.id = d.id /\ last.op = d.op /\ last.met = d.met /\ last.at = "ended"
          /\ last.stayed = d.stayed /\ last.seen = d.seen /\ last.offset = d.offset
      BY <1>3 DEF FindCall
    <2>3. find' = [find EXCEPT ![f] = last]
      BY <2>1
    <2>4. c.op # "list" => \A i \in DOMAIN page : page[i].id # c.id
      BY <1>6
    <2> HIDE DEF last
    <2>5. Looked(f, c, total, page, last)
      BY <1>0, <1>3, <1>6, <2>2, <2>3, <2>4 DEF Looked
    <2> QED  BY <1>1, <2>2, <2>5
  <1> QED  BY <1>4, <1>5, <1>6

LEMMA LooksStep ==
  ASSUME PagedInv, NEW f \in Finders, NEW c \in FindCall, NEW total \in Nat, Looking(f, c, total)
  PROVE  PagedInv'
  <1>1. /\ entries \in Seq(Entry) /\ find \in [Finders -> FindCall]
        /\ UNCHANGED <<keeper, sorted, entries, given, millis, setting>>
    BY DEF PagedInv, PagedTypeOK, Looking, LooksThrough
  <1>2. PICK d \in FindCall :
           /\ find' = [find EXCEPT ![f] = d] /\ d.stayed \subseteq Ids(entries)
           /\ d.at \notin {"true", "false"}
           /\ d.at = "remove" => d.id # 0 /\ \E i \in DOMAIN entries : entries[i].id = d.id /\ entries[i].key = d.key
    BY LooksIs DEF Looked
  <1>3. /\ find' \in [Finders -> FindCall] /\ find'[f] = d
        /\ \A g \in Finders : g # f => find'[g] = find[g]
    BY <1>1, <1>2
  <1>4. PagedTypeOK'
    BY <1>1, <1>3 DEF PagedInv, PagedTypeOK, Ids
  <1>5. d.at = "remove" => d.key # 0
    BY <1>2, RowsFit
  <1>6. IdsBelong'
    <2>1. ASSUME NEW id \in 1 .. MaxEntries, NEW k \in 1 .. MaxEntries, Knows(id, k)'
          PROVE  Knows(id, k)
      <3>1. CASE InRows(id, k)' \/ WasRead(id, k)'
        BY <1>1, <3>1 DEF Knows, InRows, WasRead
      <3>2. CASE WasFound(id, k)'
        <4>1. PICK g \in Finders : /\ find'[g].at \in {"remove", "true", "false"}
                                   /\ find'[g].id = id /\ find'[g].key = k
          BY <3>2 DEF WasFound
        <4>2. CASE g = f
          BY <1>2, <1>3, <4>1, <4>2 DEF Knows, InRows
        <4>3. CASE g # f
          BY <1>3, <4>1, <4>3 DEF Knows, WasFound
        <4> QED  BY <4>2, <4>3
      <3> QED  BY <2>1, <3>1, <3>2 DEF Knows
    <2> HIDE DEF Knows
    <2>2. /\ (\A id, l, m \in 1 .. MaxEntries : Knows(id, l) /\ Knows(id, m) => l = m)'
          /\ (\A id, l \in 1 .. MaxEntries : Knows(id, l) =>
                id <= given /\ (keeper = "checkpoint" => l = id))'
      BY <1>1, <2>1, BelongSame
    <2>3. \A g \in Finders : find'[g].at \in {"remove", "true", "false"} =>
             find'[g].id # 0 /\ find'[g].key # 0
      BY <1>2, <1>3, <1>5 DEF PagedInv, IdsBelong
    <2> QED  BY <1>1, <2>2, <2>3 DEF PagedInv, IdsBelong
  <1>7. StayedStored'
    BY <1>1, <1>2, <1>3 DEF PagedInv, StayedStored, Ids
  <1> QED  BY <1>4, <1>6, <1>7 DEF PagedInv

LEMMA CountsIs ==
  ASSUME PagedInv, NEW f \in Finders, NEW c \in FindCall, Counting(f, c)
  PROVE  \E d \in FindCall :
            /\ find' = [find EXCEPT ![f] = d] /\ d.at = "rows" /\ d.total = Len(entries)
            /\ d.op = c.op /\ d.offset = c.offset /\ d.seen = c.seen /\ d.met = c.met
            /\ d.stayed = c.stayed
  <1> DEFINE d == [c EXCEPT !.at = "rows", !.total = Len(entries)]
  <1>1. Len(entries) \in Nat
    BY RowsFit
  <1>2. /\ d \in FindCall /\ d.at = "rows" /\ d.total = Len(entries)
        /\ d.op = c.op /\ d.offset = c.offset /\ d.seen = c.seen /\ d.met = c.met /\ d.stayed = c.stayed
    BY <1>1 DEF FindCall
  <1>3. find' = [find EXCEPT ![f] = d]
    BY DEF Counting
  <1> HIDE DEF d
  <1> QED  BY <1>2, <1>3

LEMMA CountStep ==
  ASSUME PagedInv, NEW f \in Finders, NEW c \in FindCall, Counting(f, c) PROVE PagedInv'
  <1>1. /\ entries \in Seq(Entry) /\ find \in [Finders -> FindCall] /\ c.stayed \subseteq Ids(entries)
        /\ UNCHANGED <<keeper, sorted, entries, given, millis, setting>>
    BY DEF PagedInv, PagedTypeOK, Counting, Asked
  <1>2. PICK d \in FindCall :
           find' = [find EXCEPT ![f] = d] /\ d.at = "rows" /\ d.stayed = c.stayed
    BY CountsIs
  <1>3. /\ find' \in [Finders -> FindCall] /\ find'[f] = d
        /\ \A g \in Finders : g # f => find'[g] = find[g]
    BY <1>1, <1>2
  <1>4. PagedTypeOK'
    BY <1>1, <1>3 DEF PagedInv, PagedTypeOK, Ids
  <1>5. IdsBelong'
    <2>1. ASSUME NEW id \in 1 .. MaxEntries, NEW k \in 1 .. MaxEntries, Knows(id, k)'
          PROVE  Knows(id, k)
      BY <1>1, <1>2, <1>3, <2>1 DEF Knows, InRows, WasRead, WasFound
    <2> HIDE DEF Knows
    <2>2. /\ (\A id, l, m \in 1 .. MaxEntries : Knows(id, l) /\ Knows(id, m) => l = m)'
          /\ (\A id, l \in 1 .. MaxEntries : Knows(id, l) =>
                id <= given /\ (keeper = "checkpoint" => l = id))'
      BY <1>1, <2>1, BelongSame
    <2>3. \A g \in Finders : find'[g].at \in {"remove", "true", "false"} =>
             find'[g].id # 0 /\ find'[g].key # 0
      BY <1>2, <1>3 DEF PagedInv, IdsBelong
    <2> QED  BY <1>1, <2>2, <2>3 DEF PagedInv, IdsBelong
  <1>6. StayedStored'
    BY <1>1, <1>2, <1>3 DEF PagedInv, StayedStored, Ids
  <1> QED  BY <1>4, <1>5, <1>6 DEF PagedInv

\* The row of the key that was found goes, if there is one.
LEMMA DeleteFoundStep ==
  ASSUME PagedInv, NEW f \in Finders, DeleteFound(f) PROVE PagedInv'
  <1>1. /\ entries \in Seq(Entry) /\ find \in [Finders -> FindCall] /\ find[f].at = "remove"
        /\ UNCHANGED <<keeper, sorted, given, millis, setting>>
    BY DEF PagedInv, PagedTypeOK, DeleteFound
  <1> DEFINE CallsAfter ==
          /\ find' \in [Finders -> FindCall]
          /\ \A g \in Finders :
                /\ find'[g].id = find[g].id /\ find'[g].key = find[g].key
                /\ find'[g].at \in {"remove", "true", "false"} =>
                      find[g].at \in {"remove", "true", "false"}
                /\ find'[g].at \in {"page", "rows", "remove"} =>
                      find[g].at \in {"page", "rows", "remove"}
                      /\ find'[g].stayed \subseteq find[g].stayed \cap Ids(entries')
         RowsAfter ==
          /\ entries' \in Seq(Entry)
          /\ \A j \in DOMAIN entries' : \E i \in DOMAIN entries : entries'[j] = entries[i]
          /\ \A i, j \in DOMAIN entries' : entries'[i].key = entries'[j].key => i = j
  <1>2. CallsAfter /\ RowsAfter
    <2>0. \A g \in Finders : find[g].at \in {"page", "rows", "remove"} => find[g].stayed \subseteq Ids(entries)
      BY DEF PagedInv, StayedStored
    <2>1. CASE entries' = entries /\ find' = [find EXCEPT ![f].at = "false"]
      <3>1. CallsAfter
        <4>1. [find[f] EXCEPT !.at = "false"] \in FindCall
          BY <1>1 DEF FindCall
        <4>2. /\ find' \in [Finders -> FindCall] /\ find'[f].at = "false"
              /\ find'[f].id = find[f].id /\ find'[f].key = find[f].key
              /\ \A g \in Finders : g # f => find'[g] = find[g]
          BY <1>1, <2>1, <4>1 DEF FindCall
        <4> QED  BY <1>1, <2>0, <2>1, <4>2 DEF Ids
      <3> QED  BY <1>1, <2>1, <3>1 DEF PagedInv, PagedTypeOK
    <2>2. ASSUME NEW i \in DOMAIN entries, entries' = RemoveAt(entries, i),
                 find' = [Noted(find, {entries[i].id}, {"moved"}) EXCEPT ![f].at = "true"]
          PROVE  CallsAfter /\ RowsAfter
      <3>1. /\ entries' \in Seq(Entry) /\ DOMAIN entries' = 1 .. Len(entries) - 1
            /\ DOMAIN entries = 1 .. Len(entries) /\ Len(entries) \in Nat
            /\ \A j \in 1 .. Len(entries) - 1 : entries'[j] = IF j < i THEN entries[j] ELSE entries[j + 1]
        BY <1>1, <2>2, RemoveAtIs
      <3>2. \A j \in DOMAIN entries' : entries'[j] = entries[j] \/ entries'[j] = entries[j + 1]
        BY <3>1
      <3>3. \A j \in DOMAIN entries' : j \in DOMAIN entries /\ j + 1 \in DOMAIN entries
        BY <3>1
      <3>4. \A j \in DOMAIN entries : j # i => \E k \in DOMAIN entries' : entries'[k] = entries[j]
        <4> SUFFICES ASSUME NEW j \in DOMAIN entries, j # i
                     PROVE  \E k \in DOMAIN entries' : entries'[k] = entries[j]
          OBVIOUS
        <4>1. CASE j < i
          BY <3>1, <4>1
        <4>2. CASE i < j
          <5>1. j - 1 \in 1 .. Len(entries) - 1 /\ ~(j - 1 < i) /\ (j - 1) + 1 = j
            BY <3>1, <4>2
          <5> QED  BY <3>1, <5>1
        <4> QED  BY <3>1, <4>1, <4>2
      <3>5. Ids(entries) \ {entries[i].id} \subseteq Ids(entries')
        BY <3>4 DEF Ids
      <3>6. CallsAfter
        <4>1. {"moved"} \in SUBSET {"moved", "grown"}
          OBVIOUS
        <4> DEFINE calls == Noted(find, {entries[i].id}, {"moved"})
        <4>2. /\ calls \in [Finders -> FindCall]
              /\ \A g \in Finders : /\ calls[g].at = find[g].at /\ calls[g].id = find[g].id
                                    /\ calls[g].key = find[g].key
                                    /\ find[g].at \in {"page", "rows", "remove"} =>
                                          calls[g].stayed = find[g].stayed \ {entries[i].id}
          BY <1>1, <4>1, NotedFits
        <4>3. find' = [calls EXCEPT ![f].at = "true"]
          BY <2>2
        <4> HIDE DEF calls
        <4>4. /\ find' \in [Finders -> FindCall] /\ find'[f].at = "true"
              /\ find'[f].id = calls[f].id /\ find'[f].key = calls[f].key
              /\ \A g \in Finders : g # f => find'[g] = calls[g]
          <5>0. calls[f] \in FindCall
            BY <4>2
          <5>1. [calls[f] EXCEPT !.at = "true"] \in FindCall
            BY <5>0 DEF FindCall
          <5> QED  BY <4>2, <4>3, <5>1 DEF FindCall
        <4> QED  BY <1>1, <2>0, <3>5, <4>2, <4>4
      <3>7. ASSUME NEW j \in DOMAIN entries', NEW k \in DOMAIN entries', entries'[j].key = entries'[k].key
            PROVE  j = k
        <4> DEFINE old(n) == IF n < i THEN n ELSE n + 1
        <4>1. /\ old(j) \in DOMAIN entries /\ entries'[j] = entries[old(j)]
              /\ old(k) \in DOMAIN entries /\ entries'[k] = entries[old(k)]
          BY <3>1
        <4>2. old(j) = old(k)
          BY <3>7, <4>1 DEF PagedInv, PagedTypeOK
        <4> QED  BY <3>1, <4>2
      <3> QED  BY <3>1, <3>2, <3>3, <3>6, <3>7
    <2> QED  BY <2>1, <2>2 DEF DeleteFound
  <1>3. PagedTypeOK'
    <2>1. \A j \in DOMAIN entries' : entries'[j].id <= given
      BY <1>2, RowsFit
    <2> QED  BY <1>1, <1>2, <2>1 DEF PagedInv, PagedTypeOK, Ids
  <1>4. IdsBelong'
    <2>1. ASSUME NEW id \in 1 .. MaxEntries, NEW k \in 1 .. MaxEntries, Knows(id, k)'
          PROVE  Knows(id, k)
      <3>1. CASE InRows(id, k)'
        BY <1>2, <3>1 DEF Knows, InRows
      <3>2. CASE WasRead(id, k)'
        BY <1>1, <3>2 DEF Knows, WasRead
      <3>3. CASE WasFound(id, k)'
        BY <1>2, <3>3 DEF Knows, WasFound
      <3> QED  BY <2>1, <3>1, <3>2, <3>3 DEF Knows
    <2> HIDE DEF Knows
    <2>2. /\ (\A id, l, m \in 1 .. MaxEntries : Knows(id, l) /\ Knows(id, m) => l = m)'
          /\ (\A id, l \in 1 .. MaxEntries : Knows(id, l) =>
                id <= given /\ (keeper = "checkpoint" => l = id))'
      BY <1>1, <2>1, BelongSame
    <2>3. \A g \in Finders : find'[g].at \in {"remove", "true", "false"} =>
             find'[g].id # 0 /\ find'[g].key # 0
      BY <1>2 DEF PagedInv, IdsBelong
    <2> QED  BY <1>1, <2>2, <2>3 DEF PagedInv, IdsBelong
  <1>5. StayedStored'
    BY <1>2 DEF StayedStored
  <1> QED  BY <1>3, <1>4, <1>5 DEF PagedInv

LEMMA PagedInvariance == PagedSpec => []PagedInv
  <1>1. ASSUME PagedInit PROVE PagedInv
    <2>1. given \in 0 .. Stored /\ given \in Nat /\ given <= MaxEntries /\ millis \in 0 .. MaxMillis
      BY <1>1, BoundsFit, PagedAssumption DEF PagedInit
    <2>2. entries \in Seq(Entry) /\ DOMAIN entries = 1 .. given
          /\ \A i \in 1 .. given : entries[i] = [key |-> i, id |-> i, ms |-> 0]
      <3>1. entries = [i \in 1 .. given |-> [key |-> i, id |-> i, ms |-> 0]]
        BY <1>1 DEF PagedInit
      <3>2. \A i \in 1 .. given : [key |-> i, id |-> i, ms |-> 0] \in Entry
        BY <2>1, PagedAssumption DEF Entry
      <3> QED  BY <2>1, <3>1, <3>2, SeqDef
    <2>3. NoFind \in FindCall
      BY NoFindFits
    <2>4. \A f \in Finders : find[f] = NoFind /\ find[f].at = "idle"
      BY <1>1 DEF PagedInit, NoFind
    <2>5. \A s \in Setters : setting[s] = NoSet /\ setting[s].at = "idle" /\ setting[s].read = 0
      BY <1>1 DEF PagedInit, NoSet
    <2>6. NoSet \in [at : {"idle", "set", "done"}, key : 0 .. MaxEntries, read : 0 .. MaxEntries]
      BY PagedAssumption DEF NoSet
    <2>7. PagedTypeOK
      BY <1>1, <2>1, <2>2, <2>3, <2>6, PagedAssumption DEF PagedInit, PagedTypeOK, Ids
    <2>8. \A id, k \in 1 .. MaxEntries : Knows(id, k) => id = k /\ id <= given
      BY <2>1, <2>2, <2>4, <2>5 DEF Knows, InRows, WasRead, WasFound
    <2> HIDE DEF Knows
    <2> QED  BY <2>4, <2>5, <2>7, <2>8 DEF PagedInv, IdsBelong, StayedStored
  <1>2. ASSUME PagedInv, [PagedNext]_pagedvars PROVE PagedInv'
    <2>1. CASE UNCHANGED pagedvars
      BY <1>2, <2>1 DEF pagedvars, PagedInv, PagedTypeOK, IdsBelong, StayedStored, Knows, InRows,
         WasRead, WasFound, Ids
    <2>2. CASE SaveCheckpoint
      BY <1>2, <2>2, SaveCheckpointStep
    <2>3. CASE Millisecond
      <3>1. millis' \in 0 .. MaxMillis /\ UNCHANGED <<keeper, sorted, entries, given, setting, find>>
        BY <1>2, <2>3, PagedAssumption DEF Millisecond, PagedInv, PagedTypeOK
      <3>2. PagedTypeOK'
        BY <1>2, <3>1 DEF PagedInv, PagedTypeOK, Ids
      <3> QED  BY <1>2, <3>1, <3>2 DEF PagedInv, IdsBelong, StayedStored, Knows, InRows, WasRead,
                  WasFound, Ids
    <2>4. ASSUME NEW s \in Setters, SetWrites(s) PROVE PagedInv'
      BY <1>2, <2>4, SetWritesStep
    <2>5. ASSUME NEW s \in Setters, NEW k \in EntryKeys, SetReads(s, k) PROVE PagedInv'
      BY <1>2, <2>5, SetReadsStep
    <2>6. ASSUME NEW f \in Finders,
                 \/ NextPage(f) \/ RowsRead(f)
                 \/ \E op \in {"list", "load", "delete"}, id \in 0 .. MaxEntries : FirstPage(f, op, id)
          PROVE  PagedInv'
      <3>1. PICK c \in FindCall : Counting(f, c) \/ \E total \in Nat : Looking(f, c, total)
        BY <1>2, <2>6, PagesAreLookedThrough
      <3> QED  BY <1>2, <3>1, LooksStep, CountStep
    <2>7. ASSUME NEW f \in Finders, DeleteFound(f) PROVE PagedInv'
      BY <1>2, <2>7, DeleteFoundStep
    <2> QED  BY <1>2, <2>1, <2>2, <2>3, <2>4, <2>5, <2>6, <2>7 DEF PagedNext
  <1> QED  BY <1>1, <1>2, PTL DEF PagedSpec

\* The rows that the memory backend lists before the row i.
Ahead(i) == {j \in DOMAIN entries : Before(j, i)}

\* What a call has met on the pages it has read: on the memory backend, where nothing
\* was deleted or changed, every row listed before its offset that stays stored; if
\* nothing was stored either, those rows in their order; and a row as new as the
\* newest checkpoint.
ScanFits(c) ==
    /\ c.offset # 0 /\ (sorted /\ "moved" \notin c.met => c.offset <= Len(entries))
    /\ sorted /\ "moved" \notin c.met =>
          \A i \in DOMAIN entries :
              entries[i].id \in c.stayed /\ Cardinality(Ahead(i)) < c.offset =>
                  IF c.op = "list" THEN entries[i].id \in Ids(c.seen) ELSE entries[i].id # c.id
    /\ sorted /\ c.met = {} /\ c.op = "list" =>
          /\ Len(c.seen) = c.offset
          /\ \A n \in DOMAIN c.seen : \E i \in DOMAIN entries :
                entries[i].id = c.seen[n].id /\ Cardinality(Ahead(i)) = n - 1
    /\ keeper = "checkpoint" /\ sorted /\ c.op = "list" =>
          \A i \in DOMAIN entries : entries[i].id \in c.stayed =>
              \E n \in DOMAIN c.seen : entries[i].ms <= c.seen[n].ms
    /\ c.op # "list" => c.seen = <<>>

\* On Postgres, between count and rows: where nothing was stored since the first count,
\* that count still covers the rows.
CountFits(c) ==
    /\ ~sorted
    /\ c.offset = 0 /\ "grown" \notin c.met => Len(entries) <= c.total
    /\ c.offset = 0 => c.seen = <<>>
    /\ c.op # "list" => c.seen = <<>>

Scanned ==
    \A f \in Finders : /\ find[f].at = "page" => ScanFits(find[f])
                       /\ find[f].at = "rows" => CountFits(find[f])

ScanInv == PagedInv /\ Scanned

\* A row has as many rows before it as its place in the listing says.
LEMMA AheadFits ==
  ASSUME PagedInv, NEW i \in DOMAIN entries
  PROVE  IsFiniteSet(Ahead(i)) /\ Cardinality(Ahead(i)) \in Nat
  <1>1. IsFiniteSet(DOMAIN entries)
    BY RowsFit, FS_Interval
  <1>2. Ahead(i) \in SUBSET DOMAIN entries
    BY DEF Ahead
  <1> QED  BY <1>1, <1>2, FS_Subset, FS_CardinalityType

LEMMA Place ==
  ASSUME PagedInv, sorted, NEW p \in Orders, NEW n \in DOMAIN entries
  PROVE  p[n] \in DOMAIN entries /\ Cardinality(Ahead(p[n])) = n - 1
  <1>1. /\ DOMAIN entries = 1 .. Len(entries) /\ Len(entries) \in Nat
        /\ \A i \in DOMAIN entries : entries[i].ms \in Int
    BY RowsFit
  <1>2. /\ p \in [DOMAIN entries -> DOMAIN entries]
        /\ \A i, j \in DOMAIN entries : p[i] = p[j] => i = j
        /\ \A j \in DOMAIN entries : \E i \in DOMAIN entries : p[i] = j
        /\ \A i, j \in DOMAIN entries : i < j => Before(p[i], p[j])
    BY DEF Orders, Bijection, Injection, Surjection, IsInjective
  <1>3. \A i, j \in DOMAIN entries : ~(Before(i, j) /\ Before(j, i))
    BY <1>1 DEF Before
  <1>4. \A m \in DOMAIN entries : Before(p[m], p[n]) <=> m < n
    <2> SUFFICES ASSUME NEW m \in DOMAIN entries, Before(p[m], p[n]), ~(m < n) PROVE FALSE
      BY <1>2
    <2>1. m = n \/ n < m
      BY <1>1
    <2>2. CASE m = n
      BY <1>2, <1>3, <2>2
    <2>3. CASE n < m
      BY <1>2, <1>3, <2>3
    <2> QED  BY <2>1, <2>2, <2>3
  <1> DEFINE q == [m \in 1 .. n - 1 |-> p[m]]
  <1>5. q \in Bijection(1 .. n - 1, Ahead(p[n]))
    <2>1. 1 .. n - 1 \subseteq DOMAIN entries /\ \A m \in DOMAIN entries : m < n => m \in 1 .. n - 1
      BY <1>1
    <2>2. \A m \in 1 .. n - 1 : q[m] = p[m] /\ m < n /\ q[m] \in Ahead(p[n])
      BY <1>1, <1>2, <2>1 DEF Ahead
    <2>3. \A j \in Ahead(p[n]) : \E m \in 1 .. n - 1 : q[m] = j
      BY <1>2, <1>4, <2>1 DEF Ahead
    <2>4. q \in [1 .. n - 1 -> Ahead(p[n])] /\ \A i, j \in 1 .. n - 1 : q[i] = q[j] => i = j
      BY <1>2, <2>1, <2>2
    <2> QED  BY <2>3, <2>4 DEF Bijection, Injection, Surjection, IsInjective
  <1>6. ExistsBijection(1 .. n - 1, Ahead(p[n]))
    BY <1>5 DEF ExistsBijection
  <1>7. n - 1 \in Nat
    BY <1>1
  <1> HIDE DEF q
  <1>8. Cardinality(Ahead(p[n])) = n - 1
    BY <1>6, <1>7, FS_CountingElements
  <1> QED  BY <1>2, <1>8

\* What a page is.
LEMMA PageFits ==
  ASSUME PagedInv, NEW offset \in Nat, NEW page \in Pages(offset)
  PROVE  \E p \in Orders :
            /\ p \in [DOMAIN entries -> DOMAIN entries]
            /\ \A i, j \in DOMAIN entries : p[i] = p[j] => i = j
            /\ \A j \in DOMAIN entries : \E i \in DOMAIN entries : p[i] = j
            /\ page \in Seq(Entry)
            /\ HasMore(offset, Len(entries)) => Len(page) = PageSize
            /\ ~HasMore(offset, Len(entries)) /\ offset <= Len(entries) => Len(page) = Len(entries) - offset
            /\ \A m \in 1 .. Len(page) : offset + m \in DOMAIN entries /\ page[m] = entries[p[offset + m]]
  <1> DEFINE last == Min({offset + PageSize, Len(entries)})
             n == last - offset
  <1>1. PICK p \in Orders : page = [i \in 1 .. n |-> entries[p[offset + i]]]
    BY DEF Pages
  <1>2. /\ n \in Int /\ offset + n <= Len(entries) /\ Len(entries) \in Nat
        /\ HasMore(offset, Len(entries)) => n = PageSize
        /\ ~HasMore(offset, Len(entries)) => n = Len(entries) - offset
    <2>1. PageSize \in Nat /\ Len(entries) \in Nat
      BY RowsFit, PagedAssumption
    <2>2. HasMore(offset, Len(entries)) => last = offset + PageSize
      BY <2>1 DEF Min, HasMore
    <2>3. ~HasMore(offset, Len(entries)) => last = Len(entries)
      BY <2>1 DEF Min, HasMore
    <2> HIDE DEF last
    <2> QED  BY <2>1, <2>2, <2>3 DEF HasMore
  <1> HIDE DEF n
  <1>3. /\ p \in [DOMAIN entries -> DOMAIN entries]
        /\ \A i, j \in DOMAIN entries : p[i] = p[j] => i = j
        /\ \A j \in DOMAIN entries : \E i \in DOMAIN entries : p[i] = j
    BY DEF Orders, Bijection, Injection, Surjection, IsInjective
  <1>4. \A i \in 1 .. n : offset + i \in DOMAIN entries
    <2> SUFFICES ASSUME NEW i \in 1 .. n PROVE offset + i \in DOMAIN entries
      OBVIOUS
    <2>1. DOMAIN entries = 1 .. Len(entries) /\ Len(entries) \in Nat
      BY RowsFit
    <2>2. n \in Int /\ offset + n <= Len(entries)
      BY <1>2
    <2>3. offset + i \in Nat /\ 1 <= offset + i /\ offset + i <= Len(entries)
      BY <2>1, <2>2
    <2> QED  BY <2>1, <2>3
  <1>5. \A i \in 1 .. n : page[i] = entries[p[offset + i]] /\ page[i] \in Entry
    BY <1>1, <1>3, <1>4, RowsFit
  <1>6. /\ page \in Seq(Entry) /\ \A m \in 1 .. Len(page) : m \in 1 .. n
        /\ n \in Nat => Len(page) = n
    <2>1. CASE n \in Nat
      <3>1. page \in [1 .. n -> Entry]
        BY <1>1, <1>5
      <3>2. page \in Seq(Entry)
        BY <2>1, <3>1, SeqDef
      <3> QED  BY <2>1, <3>1, <3>2
    <2>2. CASE n \notin Nat
      <3>1. 1 .. n = {}
        BY <1>2, <2>2
      <3>2. page = <<>>
        BY <1>1, <3>1
      <3> QED  BY <2>2, <3>2
    <2> QED  BY <2>1, <2>2
  <1>7. /\ HasMore(offset, Len(entries)) => Len(page) = PageSize
        /\ ~HasMore(offset, Len(entries)) /\ offset <= Len(entries) => Len(page) = Len(entries) - offset
    BY <1>2, <1>6, PagedAssumption
  <1> QED  BY <1>3, <1>4, <1>5, <1>6, <1>7

\* A new row leaves the others where they are, or moves them further down.
LEMMA ScanGrows ==
  ASSUME PagedInv, NEW e \in Entry, entries' = Append(entries, e), e.id \notin Ids(entries),
         UNCHANGED <<keeper, sorted>>, NEW c \in FindCall, c.stayed \subseteq Ids(entries), ScanFits(c),
         PagedInv'
  PROVE  ScanFits([c EXCEPT !.stayed = @ \ {}, !.met = @ \cup {"grown"}])'
  <1>1. /\ DOMAIN entries = 1 .. Len(entries) /\ Len(entries) \in Nat /\ entries \in Seq(Entry)
    BY RowsFit DEF PagedInv, PagedTypeOK
  <1>2. /\ \A i \in DOMAIN entries : i \in DOMAIN entries' /\ entries'[i] = entries[i]
        /\ \A i \in DOMAIN entries' : i \in DOMAIN entries \/ entries'[i] = e
    <2>1. DOMAIN entries' = 1 .. Len(entries) + 1 /\ entries'[Len(entries) + 1] = e
          /\ \A i \in 1 .. Len(entries) : entries'[i] = entries[i]
      BY <1>1
    <2> QED  BY <1>1, <2>1
  <1>3. ASSUME NEW i \in DOMAIN entries' , entries'[i].id \in c.stayed
        PROVE  i \in DOMAIN entries /\ entries'[i] = entries[i]
               /\ Cardinality(Ahead(i)') >= Cardinality(Ahead(i))
               /\ Cardinality(Ahead(i)') \in Nat /\ Cardinality(Ahead(i)) \in Nat
    <2>1. i \in DOMAIN entries
      BY <1>2, <1>3
    <2>2. Ahead(i) \subseteq Ahead(i)'
      BY <1>2, <2>1 DEF Ahead, Before
    <2>3. IsFiniteSet(Ahead(i)') /\ Cardinality(Ahead(i)') \in Nat /\ Cardinality(Ahead(i)) \in Nat
      <3>1. DOMAIN entries' = 1 .. Len(entries) + 1
        BY <1>1
      <3>2. IsFiniteSet(DOMAIN entries')
        BY <1>1, <3>1, FS_Interval
      <3>3. Ahead(i)' \in SUBSET DOMAIN entries'
        BY DEF Ahead
      <3> QED  BY <2>1, <3>2, <3>3, FS_Subset, FS_CardinalityType, AheadFits
    <2>4. Cardinality(Ahead(i)) <= Cardinality(Ahead(i)')
      BY <2>2, <2>3, FS_Subset
    <2> QED  BY <1>2, <2>1, <2>3, <2>4
  <1> DEFINE d == [c EXCEPT !.stayed = @ \ {}, !.met = @ \cup {"grown"}]
  <1>4. /\ d.offset = c.offset /\ d.op = c.op /\ d.seen = c.seen /\ d.id = c.id /\ d.stayed = c.stayed
        /\ d.met # {} /\ ("moved" \notin d.met => "moved" \notin c.met) /\ c.offset \in Nat
    BY DEF FindCall
  <1> HIDE DEF d
  <1>5. ASSUME sorted, "moved" \notin c.met, NEW i \in DOMAIN entries', entries'[i].id \in c.stayed,
               Cardinality(Ahead(i)') < c.offset
        PROVE  IF c.op = "list" THEN entries'[i].id \in Ids(c.seen) ELSE entries'[i].id # c.id
    <2>1. Cardinality(Ahead(i)) < c.offset
      BY <1>3, <1>4, <1>5
    <2> QED  BY <1>3, <1>5, <2>1 DEF ScanFits
  <1>6. ASSUME keeper = "checkpoint", sorted, c.op = "list", NEW i \in DOMAIN entries',
               entries'[i].id \in c.stayed
        PROVE  \E n \in DOMAIN c.seen : entries'[i].ms <= c.seen[n].ms
    BY <1>3, <1>6 DEF ScanFits
  <1>7. sorted /\ "moved" \notin c.met => c.offset <= Len(entries')
    <2>1. Len(entries') = Len(entries) + 1
      BY <1>1
    <2> QED  BY <1>1, <1>4, <2>1 DEF ScanFits
  <1>8. ScanFits(d)'
    BY <1>4, <1>5, <1>6, <1>7 DEF ScanFits, Ids
  <1> QED  BY <1>8 DEF d

\* Rows that are changed or go.
LEMMA ScanMoves ==
  ASSUME PagedInv, UNCHANGED <<keeper, sorted>>,
         NEW lost, NEW c \in FindCall, ScanFits(c),
         keeper = "checkpoint" => \A i \in DOMAIN entries' : \E j \in DOMAIN entries : entries'[i] = entries[j]
  PROVE  ScanFits([c EXCEPT !.stayed = @ \ lost, !.met = @ \cup {"moved"}])'
  <1> DEFINE d == [c EXCEPT !.stayed = @ \ lost, !.met = @ \cup {"moved"}]
  <1>1. /\ d.offset = c.offset /\ d.op = c.op /\ d.seen = c.seen /\ d.id = c.id
        /\ d.stayed \subseteq c.stayed /\ "moved" \in d.met
    BY DEF FindCall
  <1> HIDE DEF d
  <1>2. ASSUME keeper = "checkpoint", sorted, c.op = "list", NEW i \in DOMAIN entries',
               entries'[i].id \in c.stayed
        PROVE  \E n \in DOMAIN c.seen : entries'[i].ms <= c.seen[n].ms
    BY <1>2 DEF ScanFits
  <1>3. ScanFits(d)'
    BY <1>1, <1>2 DEF ScanFits
  <1> QED  BY <1>3 DEF d

\* What a call has from the page it reads; more is what the count said.
LEMMA PageScanned ==
  ASSUME PagedInv, NEW c \in FindCall, c.stayed \subseteq Ids(entries),
         c.at = "page" => ScanFits(c), sorted /\ c.at # "page" => c.offset = 0,
         c.offset = 0 => c.at # "page" /\ c.seen = <<>>, c.op # "list" => c.seen = <<>>,
         NEW more \in BOOLEAN, sorted => more = HasMore(c.offset, Len(entries)),
         c.offset = 0 /\ "grown" \notin c.met /\ ~more => ~HasMore(c.offset, Len(entries)),
         NEW page \in Pages(c.offset),
         NEW d \in FindCall, d.op = c.op, d.id = c.id, d.stayed = c.stayed, d.met = c.met,
         d.seen = IF c.op = "list" THEN c.seen \o page ELSE c.seen,
         c.op # "list" => \A i \in DOMAIN page : page[i].id # c.id
  PROVE  /\ more /\ d.offset = NextOffset(c.offset) => ScanFits(d)
         /\ ~more =>
               LET still == \/ c.offset = 0 /\ "grown" \notin c.met
                            \/ sorted /\ "moved" \notin c.met
               IN  /\ still => IF c.op = "list" THEN c.stayed \subseteq Ids(d.seen) ELSE c.id \notin c.stayed
                   /\ still /\ "grown" \notin c.met =>
                         \A i, j \in DOMAIN d.seen : d.seen[i].id = d.seen[j].id => i = j
                   /\ keeper = "checkpoint" /\ sorted /\ c.op = "list" =>
                         \A e \in Range(entries) : e.id \in c.stayed =>
                             \E n \in DOMAIN d.seen : e.ms <= d.seen[n].ms
  <1>1. /\ DOMAIN entries = 1 .. Len(entries) /\ Len(entries) \in Nat /\ PageSize \in Nat \ {0}
        /\ c.offset \in Nat /\ c.seen \in Seq(Entry)
        /\ \A i \in DOMAIN entries : entries[i].ms \in Int
    BY RowsFit, PagedAssumption DEF FindCall
  <1>2. PICK p \in Orders :
            /\ p \in [DOMAIN entries -> DOMAIN entries]
            /\ \A i, j \in DOMAIN entries : p[i] = p[j] => i = j
            /\ \A j \in DOMAIN entries : \E i \in DOMAIN entries : p[i] = j
            /\ page \in Seq(Entry)
            /\ HasMore(c.offset, Len(entries)) => Len(page) = PageSize
            /\ ~HasMore(c.offset, Len(entries)) /\ c.offset <= Len(entries) => Len(page) = Len(entries) - c.offset
            /\ \A m \in 1 .. Len(page) : c.offset + m \in DOMAIN entries /\ page[m] = entries[p[c.offset + m]]
    BY <1>1, PageFits
  <1>3. c.op = "list" =>
           /\ d.seen \in Seq(Entry) /\ Len(d.seen) = Len(c.seen) + Len(page)
           /\ DOMAIN d.seen = 1 .. Len(c.seen) + Len(page)
           /\ \A n \in 1 .. Len(c.seen) : d.seen[n] = c.seen[n]
           /\ \A m \in 1 .. Len(page) : d.seen[Len(c.seen) + m] = page[m]
    <2>1. ASSUME c.op = "list" PROVE d.seen = c.seen \o page
      BY <2>1
    <2> QED  BY <1>1, <1>2, <2>1
  <1>4. Len(page) \in Nat /\ Len(c.seen) \in Nat /\ DOMAIN page = 1 .. Len(page)
        /\ DOMAIN c.seen = 1 .. Len(c.seen)
    BY <1>1, <1>2
  \* The rows with a place on the page are on it.
  <1>5. ASSUME NEW n \in DOMAIN entries, c.offset < n, n <= c.offset + Len(page)
        PROVE  \E m \in 1 .. Len(page) : page[m] = entries[p[n]]
    <2>1. n - c.offset \in 1 .. Len(page) /\ c.offset + (n - c.offset) = n
      BY <1>1, <1>4, <1>5
    <2> QED  BY <1>2, <2>1
  <1>6. ASSUME c.op = "list", NEW m \in 1 .. Len(page)
        PROVE  \E n \in DOMAIN d.seen : d.seen[n] = page[m]
    <2>1. Len(c.seen) + m \in DOMAIN d.seen
      BY <1>3, <1>4, <1>6
    <2> QED  BY <1>3, <1>6, <2>1
  <1>7. ASSUME c.op = "list", NEW n \in DOMAIN c.seen
        PROVE  n \in DOMAIN d.seen /\ d.seen[n] = c.seen[n]
    BY <1>3, <1>4, <1>7
  \* The rows before the end of the page.
  <1>8. ASSUME sorted, "moved" \notin c.met, NEW i \in DOMAIN entries, entries[i].id \in c.stayed,
               Cardinality(Ahead(i)) < c.offset + Len(page)
        PROVE  IF c.op = "list" THEN entries[i].id \in Ids(d.seen) ELSE entries[i].id # c.id
    <2>1. PICK n \in DOMAIN entries : p[n] = i
      BY <1>2
    <2>2. Cardinality(Ahead(i)) = n - 1
      BY <1>8, <2>1, Place
    <2>3. CASE n <= c.offset
      <3>1. c.offset # 0 /\ Cardinality(Ahead(i)) < c.offset
        BY <1>1, <2>2, <2>3
      <3>2. IF c.op = "list" THEN entries[i].id \in Ids(c.seen) ELSE entries[i].id # c.id
        <4>1. ScanFits(c)
          BY <1>8, <3>1
        <4> QED  BY <1>8, <3>1, <4>1 DEF ScanFits
      <3> QED  BY <1>7, <3>2 DEF Ids
    <2>4. CASE c.offset < n
      <3>1. n <= c.offset + Len(page)
        BY <1>1, <1>4, <1>8, <2>2
      <3>2. PICK m \in 1 .. Len(page) : page[m] = entries[i]
        BY <1>5, <2>1, <2>4, <3>1
      <3> QED  BY <1>4, <1>6, <3>2 DEF Ids
    <2> QED  BY <1>1, <2>3, <2>4
  \* The places of the rows on the page.
  <1>9. ASSUME sorted, c.met = {}, c.op = "list", NEW n \in DOMAIN d.seen
        PROVE  /\ Len(c.seen) = c.offset
               /\ \E i \in DOMAIN entries :
                    entries[i].id = d.seen[n].id /\ Cardinality(Ahead(i)) = n - 1
    <2>1. Len(c.seen) = c.offset
      BY <1>9 DEF ScanFits
    <2>2. CASE n <= c.offset
      <3>1. n \in DOMAIN c.seen /\ d.seen[n] = c.seen[n] /\ c.at = "page"
        BY <1>1, <1>3, <1>4, <1>9, <2>1, <2>2
      <3> QED  BY <1>9, <2>1, <3>1 DEF ScanFits
    <2>3. CASE c.offset < n
      <3>1. n - c.offset \in 1 .. Len(page) /\ c.offset + (n - c.offset) = n
        BY <1>1, <1>3, <1>4, <1>9, <2>1, <2>3
      <3>2. d.seen[n] = page[n - c.offset] /\ n \in DOMAIN entries /\ page[n - c.offset] = entries[p[n]]
        <4>1. d.seen[c.offset + (n - c.offset)] = page[n - c.offset]
          BY <1>3, <1>9, <2>1, <3>1
        <4>2. /\ c.offset + (n - c.offset) \in DOMAIN entries
              /\ page[n - c.offset] = entries[p[c.offset + (n - c.offset)]]
          BY <1>2, <3>1
        <4> QED  BY <3>1, <4>1, <4>2
      <3>3. p[n] \in DOMAIN entries /\ Cardinality(Ahead(p[n])) = n - 1
        BY <1>9, <3>2, Place
      <3> QED  BY <2>1, <3>2, <3>3
    <2> QED  BY <1>1, <1>3, <1>9, <2>2, <2>3
  \* The newest checkpoint is on the first page.
  <1>10. ASSUME sorted, keeper = "checkpoint", c.op = "list", NEW i \in DOMAIN entries,
                entries[i].id \in c.stayed
         PROVE  \E n \in DOMAIN d.seen : entries[i].ms <= d.seen[n].ms
    <2>1. CASE c.at = "page"
      BY <1>7, <1>10, <2>1 DEF ScanFits
    <2>2. CASE c.at # "page"
      <3>1. 1 \in DOMAIN entries /\ 1 \in 1 .. Len(page) /\ c.offset = 0 /\ page[1] = entries[p[1]]
        <4>1. Len(entries) # 0 /\ c.offset = 0
          BY <1>1, <1>10, <2>2
        <4>2. Len(page) # 0 /\ 1 \in 1 .. Len(page)
          <5>1. CASE HasMore(c.offset, Len(entries))
            BY <1>1, <1>2, <1>4, <5>1
          <5>2. CASE ~HasMore(c.offset, Len(entries))
            <6>1. Len(page) = Len(entries)
              BY <1>1, <1>2, <4>1, <5>2
            <6> QED  BY <1>1, <4>1, <6>1
          <5> QED  BY <5>1, <5>2
        <4>3. c.offset + 1 = 1
          BY <4>1
        <4> QED  BY <1>1, <1>2, <4>1, <4>2, <4>3
      <3>2. PICK n \in DOMAIN entries : p[n] = i
        BY <1>2
      <3>3. n = 1 \/ Before(p[1], i)
        <4>1. n = 1 \/ 1 < n
          BY <1>1
        <4> QED  BY <1>10, <3>1, <3>2, <4>1 DEF Orders
      <3>4. entries[i].ms <= page[1].ms
        <4>1. p[1] \in DOMAIN entries /\ entries[p[1]].ms \in Int /\ entries[i].ms \in Int
          BY <1>1, <1>2, <3>1
        <4> QED  BY <3>1, <3>2, <3>3, <4>1 DEF Before
      <3> QED  BY <1>6, <1>10, <3>1, <3>4
    <2> QED  BY <2>1, <2>2
  <1>11. ASSUME more, d.offset = NextOffset(c.offset) PROVE ScanFits(d)
    <2>0. d.offset # 0
      BY <1>1, <1>11 DEF NextOffset
    <2>1. sorted => d.offset = c.offset + Len(page)
      BY <1>1, <1>2, <1>11 DEF NextOffset
    <2>2. c.op # "list" => d.seen = <<>>
      OBVIOUS
    <2>3. sorted /\ c.met = {} /\ c.op = "list" => Len(d.seen) = d.offset
      <3>1. ASSUME sorted, c.met = {}, c.op = "list" PROVE Len(c.seen) = c.offset
        BY <3>1 DEF ScanFits
      <3> QED  BY <1>3, <2>1, <3>1
    <2>4. sorted => d.offset <= Len(entries)
      <3>1. sorted => HasMore(c.offset, Len(entries))
        BY <1>11
      <3> QED  BY <1>1, <1>11, <3>1 DEF NextOffset, HasMore
    <2> QED  BY <1>8, <1>9, <1>10, <2>0, <2>1, <2>2, <2>3, <2>4 DEF ScanFits
  <1>12. ASSUME ~more,
                \/ c.offset = 0 /\ "grown" \notin c.met
                \/ sorted /\ "moved" \notin c.met
         PROVE  Len(page) = Len(entries) - c.offset
    <2>1. c.offset <= Len(entries)
      BY <1>1, <1>12 DEF ScanFits
    <2>2. ~HasMore(c.offset, Len(entries))
      BY <1>12
    <2> QED  BY <1>2, <2>1, <2>2
  <1>13. ASSUME ~more,
                \/ c.offset = 0 /\ "grown" \notin c.met
                \/ sorted /\ "moved" \notin c.met
         PROVE  IF c.op = "list" THEN c.stayed \subseteq Ids(d.seen) ELSE c.id \notin c.stayed
    <2>1. ASSUME NEW i \in DOMAIN entries, entries[i].id \in c.stayed
          PROVE  IF c.op = "list" THEN entries[i].id \in Ids(d.seen) ELSE entries[i].id # c.id
      <3>1. CASE c.offset = 0
        <4>1. PICK n \in DOMAIN entries : p[n] = i
          BY <1>2
        <4>2. c.offset < n /\ n <= c.offset + Len(page)
          BY <1>1, <1>12, <1>13, <3>1
        <4>3. PICK m \in 1 .. Len(page) : page[m] = entries[i]
          BY <1>5, <4>1, <4>2
        <4> QED  BY <1>4, <1>6, <4>3 DEF Ids
      <3>2. CASE sorted /\ "moved" \notin c.met
        <4>1. PICK n \in DOMAIN entries : p[n] = i
          BY <1>2
        <4>2. Cardinality(Ahead(i)) = n - 1
          BY <3>2, <4>1, Place
        <4>3. Cardinality(Ahead(i)) < c.offset + Len(page)
          BY <1>1, <1>12, <1>13, <4>2
        <4> QED  BY <1>8, <2>1, <3>2, <4>3
      <3> QED  BY <1>13, <3>1, <3>2
    <2> QED  BY <2>1 DEF Ids
  <1>14. ASSUME ~more,
                \/ c.offset = 0 /\ "grown" \notin c.met
                \/ sorted /\ "moved" \notin c.met,
                "grown" \notin c.met,
                NEW i \in DOMAIN d.seen, NEW j \in DOMAIN d.seen, d.seen[i].id = d.seen[j].id
         PROVE  i = j
    <2>1. CASE c.op # "list"
      <3>1. d.seen = <<>> /\ DOMAIN d.seen = {}
        BY <2>1
      <3> QED  BY <1>14, <3>1
    <2>2. CASE c.op = "list" /\ c.offset # 0
      <3>1. c.met = {} /\ sorted
        BY <1>14, <2>2 DEF FindCall
      <3>2. PICK k \in DOMAIN entries : entries[k].id = d.seen[i].id /\ Cardinality(Ahead(k)) = i - 1
        BY <1>9, <2>2, <3>1
      <3>3. PICK l \in DOMAIN entries : entries[l].id = d.seen[j].id /\ Cardinality(Ahead(l)) = j - 1
        BY <1>9, <2>2, <3>1
      <3>4. k = l
        BY <1>14, <3>2, <3>3, RowsFit
      <3> QED  BY <1>3, <2>2, <3>2, <3>3, <3>4
    <2>3. CASE c.op = "list" /\ c.offset = 0
      <3>1. c.at # "page" /\ Len(c.seen) = 0 /\ c.offset = 0
        BY <2>3
      <3>2. \A n \in DOMAIN d.seen : n \in DOMAIN entries /\ d.seen[n] = entries[p[n]]
        <4> SUFFICES ASSUME NEW n \in DOMAIN d.seen
                     PROVE  n \in DOMAIN entries /\ d.seen[n] = entries[p[n]]
          OBVIOUS
        <4>0. Len(c.seen) + Len(page) = Len(page)
          BY <1>4, <3>1
        <4>1. DOMAIN d.seen = 1 .. Len(page)
          BY <1>3, <2>3, <4>0
        <4>2. n \in 1 .. Len(page) /\ Len(c.seen) + n = n /\ c.offset + n = n
          BY <1>4, <3>1, <4>1
        <4> QED  BY <1>2, <1>3, <2>3, <4>2
      <3>3. p[i] = p[j]
        <4>1. /\ i \in DOMAIN entries /\ j \in DOMAIN entries
              /\ entries[p[i]].id = entries[p[j]].id
          BY <1>14, <3>2
        <4> QED  BY <1>2, <4>1, RowsFit
      <3> QED  BY <1>2, <3>2, <3>3
    <2> QED  BY <2>1, <2>2, <2>3
  <1>15. sorted /\ keeper = "checkpoint" /\ c.op = "list" =>
            \A e \in Range(entries) : e.id \in c.stayed => \E n \in DOMAIN d.seen : e.ms <= d.seen[n].ms
    BY <1>10 DEF Range
  <1> QED  BY <1>11, <1>13, <1>14, <1>15

\* What a call that ends has: what stayed stored, each once, and no checkpoint that is
\* newer than all it has seen.
Complete(c) ==
    LET still == \/ c.offset = 0 /\ "grown" \notin c.met
                 \/ sorted /\ "moved" \notin c.met
    IN  /\ still => IF c.op = "list" THEN c.stayed \subseteq Ids(c.seen) ELSE c.id \notin c.stayed
        /\ still /\ "grown" \notin c.met =>
              \A i, j \in DOMAIN c.seen : c.seen[i].id = c.seen[j].id => i = j

AsNew(c) ==
    keeper = "checkpoint" /\ sorted /\ c.op = "list" =>
        \A e \in Range(entries) : e.id \in c.stayed => \E n \in DOMAIN c.seen : e.ms <= c.seen[n].ms

\* The rows stay as they are.
LEMMA StaysScanned ==
  ASSUME UNCHANGED <<keeper, sorted, entries>>,
         \A g \in Finders : /\ find'[g].at = "page" => ScanFits(find'[g])
                            /\ find'[g].at = "rows" => CountFits(find'[g])
  PROVE  Scanned'
  <1>1. ASSUME NEW g \in Finders, NEW e, e = find'[g], e.at = "page" PROVE ScanFits(e)'
    <2>1. ScanFits(e)
      BY <1>1
    <2>2. \A i : Ahead(i)' = Ahead(i)
      BY DEF Ahead, Before
    <2> QED  BY <2>1, <2>2 DEF ScanFits, Ids
  <1>2. ASSUME NEW g \in Finders, NEW e, e = find'[g], e.at = "rows" PROVE CountFits(e)'
    BY <1>2 DEF CountFits
  <1> QED  BY <1>1, <1>2 DEF Scanned, ScanFits, CountFits, Ahead, Before, Ids

LEMMA LooksScanned ==
  ASSUME ScanInv, NEW f \in Finders, NEW c \in FindCall, NEW total \in Nat, Looking(f, c, total)
  PROVE  /\ Scanned'
         /\ find'[f].at = "ended" => Complete(find'[f]) /\ AsNew(find'[f])
         /\ \A g \in Finders : g # f => find'[g] = find[g]
         /\ find'[f].at \notin {"true", "false"} /\ find[f].at # "remove"
  <1>1. PICK page \in Pages(c.offset), d \in FindCall : Looked(f, c, total, page, d)
    BY LooksIs DEF ScanInv
  <1>2. /\ find \in [Finders -> FindCall] /\ UNCHANGED <<keeper, sorted, entries, given, millis, setting>>
        /\ c.stayed \subseteq Ids(entries) /\ find[f].at \in {"idle", "page", "rows"}
    BY DEF ScanInv, PagedInv, PagedTypeOK, Looking, Asked, LooksThrough
  <1>3. find'[f] = d /\ \A g \in Finders : g # f => find'[g] = find[g]
    BY <1>1, <1>2 DEF Looked
  <1> DEFINE more == HasMore(c.offset, total)
  <1>4. /\ c.at = "page" => ScanFits(c)
        /\ sorted /\ c.at # "page" => c.offset = 0
        /\ c.offset = 0 => c.at # "page" /\ c.seen = <<>>
        /\ c.op # "list" => c.seen = <<>>
        /\ sorted => total = Len(entries)
        /\ c.offset = 0 /\ "grown" \notin c.met => Len(entries) <= total
    <2>1. CASE find[f].at = "idle"
      <3>1. c.at = "idle" /\ c.offset = 0 /\ c.seen = <<>> /\ total = Len(entries)
        BY <2>1 DEF Looking, Asked
      <3>2. Len(entries) \in Nat
        BY RowsFit DEF ScanInv
      <3> QED  BY <3>1, <3>2
    <2>2. CASE find[f].at = "page"
      <3>1. c.at = "page" /\ ScanFits(c) /\ total = Len(entries)
        BY <2>2 DEF Looking, Asked, ScanInv, Scanned
      <3>2. c.offset # 0 /\ (c.op # "list" => c.seen = <<>>)
        BY <3>1 DEF ScanFits
      <3> QED  BY <3>1, <3>2
    <2>3. CASE find[f].at = "rows"
      <3>1. c.at = "rows" /\ CountFits(c) /\ total = c.total
        BY <2>3 DEF Looking, Asked, ScanInv, Scanned
      <3> QED  BY <3>1 DEF CountFits
    <2> QED  BY <1>2, <2>1, <2>2, <2>3
  <1>5. ASSUME d.at \in {"page", "ended"}
        PROVE  /\ more /\ d.offset = NextOffset(c.offset) => ScanFits(d)
               /\ ~more =>
                     LET still == \/ c.offset = 0 /\ "grown" \notin c.met
                                  \/ sorted /\ "moved" \notin c.met
                     IN  /\ still => IF c.op = "list" THEN c.stayed \subseteq Ids(d.seen) ELSE c.id \notin c.stayed
                         /\ still /\ "grown" \notin c.met =>
                               \A i, j \in DOMAIN d.seen : d.seen[i].id = d.seen[j].id => i = j
                         /\ keeper = "checkpoint" /\ sorted /\ c.op = "list" =>
                               \A e \in Range(entries) : e.id \in c.stayed =>
                                   \E n \in DOMAIN d.seen : e.ms <= d.seen[n].ms
    <2>1. /\ d.op = c.op /\ d.id = c.id /\ d.stayed = c.stayed /\ d.met = c.met
          /\ d.seen = IF c.op = "list" THEN c.seen \o page ELSE c.seen
          /\ c.op # "list" => \A i \in DOMAIN page : page[i].id # c.id
      BY <1>1, <1>5 DEF Looked
    <2>2. /\ more \in BOOLEAN /\ (sorted => more = HasMore(c.offset, Len(entries)))
          /\ c.offset = 0 /\ "grown" \notin c.met /\ ~more => ~HasMore(c.offset, Len(entries))
      <3>1. Len(entries) \in Nat /\ c.offset \in Nat /\ PageSize \in Nat
        BY RowsFit, PagedAssumption DEF ScanInv, FindCall
      <3> QED  BY <1>4, <3>1 DEF HasMore
    <2> HIDE DEF more
    <2>3. PagedInv
      BY DEF ScanInv
    <2> QED  BY <1>2, <1>4, <2>1, <2>2, <2>3, PageScanned
  <1>6. d.at = "page" => ScanFits(d)
    BY <1>1, <1>5 DEF Looked
  <1>7. d.at = "ended" => Complete(d) /\ AsNew(d)
    <2>1. ASSUME d.at = "ended"
          PROVE  /\ d.op = c.op /\ d.id = c.id /\ d.stayed = c.stayed /\ d.met = c.met
                 /\ d.offset = c.offset /\ ~more
      BY <1>1, <2>1 DEF Looked
    <2> QED  BY <1>5, <2>1 DEF Complete, AsNew
  <1>8. Scanned'
    <2>1. d.at # "rows"
      BY <1>1 DEF Looked
    <2>2. \A g \in Finders : /\ find'[g].at = "page" => ScanFits(find'[g])
                             /\ find'[g].at = "rows" => CountFits(find'[g])
      BY <1>3, <1>6, <2>1 DEF ScanInv, Scanned
    <2> QED  BY <1>2, <2>2, StaysScanned
  <1>9. d.at \notin {"true", "false"}
    BY <1>1 DEF Looked
  <1> QED  BY <1>2, <1>3, <1>7, <1>8, <1>9

\* A call that has the count has what it had before.
LEMMA CountScanned ==
  ASSUME ScanInv, NEW f \in Finders, NEW c \in FindCall, Counting(f, c)
  PROVE  /\ Scanned' /\ find'[f].at = "rows" /\ find[f].at # "remove"
         /\ \A g \in Finders : g # f => find'[g] = find[g]
  <1>1. PICK d \in FindCall :
            /\ find' = [find EXCEPT ![f] = d] /\ d.at = "rows" /\ d.total = Len(entries)
            /\ d.op = c.op /\ d.offset = c.offset /\ d.seen = c.seen
    BY CountsIs DEF ScanInv
  <1>2. /\ find \in [Finders -> FindCall] /\ ~sorted /\ UNCHANGED <<keeper, sorted, entries>>
        /\ find[f].at \in {"idle", "page"}
    BY DEF ScanInv, PagedInv, PagedTypeOK, Counting, Asked
  <1>3. find'[f] = d /\ \A g \in Finders : g # f => find'[g] = find[g]
    BY <1>1, <1>2
  <1>4. /\ c.offset = 0 => c.seen = <<>>
        /\ c.op # "list" => c.seen = <<>>
    <2>1. CASE find[f].at = "idle"
      BY <2>1 DEF Counting, Asked
    <2>2. CASE find[f].at = "page"
      <3>1. ScanFits(c)
        BY <2>2 DEF Counting, Asked, ScanInv, Scanned
      <3> QED  BY <3>1 DEF ScanFits
    <2> QED  BY <1>2, <2>1, <2>2
  <1>5. CountFits(d)
    <2>1. Len(entries) \in Nat
      BY RowsFit DEF ScanInv
    <2> QED  BY <1>1, <1>2, <1>4, <2>1 DEF CountFits
  <1>6. \A g \in Finders : /\ find'[g].at = "page" => ScanFits(find'[g])
                           /\ find'[g].at = "rows" => CountFits(find'[g])
    BY <1>1, <1>3, <1>5 DEF ScanInv, Scanned
  <1>7. Scanned'
    BY <1>2, <1>6, StaysScanned
  <1> QED  BY <1>1, <1>2, <1>3, <1>7

\* A step that changes the rows.
LEMMA NotedScanned ==
  ASSUME ScanInv, PagedInv', UNCHANGED <<keeper, sorted>>, NEW lost, NEW how \in {"moved", "grown"},
         NEW f,
         \A g \in Finders : g # f => find'[g] = Noted(find, lost, {how})[g],
         f \in Finders => find'[f].at \notin {"page", "rows"},
         how = "grown" => lost = {} /\ \E e \in Entry : entries' = Append(entries, e) /\ e.id \notin Ids(entries),
         how = "moved" => Len(entries') <= Len(entries),
         how = "moved" /\ keeper = "checkpoint" =>
             \A i \in DOMAIN entries' : \E j \in DOMAIN entries : entries'[i] = entries[j]
  PROVE  Scanned'
  <1> SUFFICES ASSUME NEW g \in Finders, NEW d, d = find'[g], d.at \in {"page", "rows"}
               PROVE  (d.at = "page" => ScanFits(d)') /\ (d.at = "rows" => CountFits(d)')
    BY DEF Scanned, ScanFits, CountFits, Ahead, Before, Ids
  <1>1. find[g] \in FindCall /\ find'[g] = Noted(find, lost, {how})[g] /\ find[g].at = d.at
    <2>1. find[g] \in FindCall /\ g # f
      BY DEF ScanInv, PagedInv, PagedTypeOK
    <2> QED  BY <2>1 DEF Noted, FindCall
  <1>2. /\ d.at = "page" => ScanFits(find[g])
        /\ d.at = "rows" => CountFits(find[g])
        /\ find[g].stayed \subseteq Ids(entries)
        /\ d = [find[g] EXCEPT !.stayed = @ \ lost, !.met = @ \cup {how}]
    BY <1>1 DEF ScanInv, Scanned, PagedInv, StayedStored, Noted
  <1>3. PICK c \in FindCall : c = find[g]
    BY <1>1
  <1>4. /\ d.at = "page" => ScanFits(c)
        /\ d.at = "rows" => CountFits(c)
        /\ c.stayed \subseteq Ids(entries)
        /\ d = [c EXCEPT !.stayed = @ \ lost, !.met = @ \cup {how}]
    BY <1>2, <1>3
  <1>5. CASE d.at = "page" /\ how = "grown"
    <2>1. PICK e \in Entry : entries' = Append(entries, e) /\ e.id \notin Ids(entries)
      BY <1>5
    <2>2. /\ PagedInv
      BY DEF ScanInv
    <2>3. lost = {}
      BY <1>5
    <2> QED  BY <1>4, <1>5, <2>1, <2>2, <2>3, ScanGrows
  <1>6. CASE d.at = "page" /\ how = "moved"
    <2>1. PagedInv /\ (keeper = "checkpoint" => \A i \in DOMAIN entries' : \E j \in DOMAIN entries : entries'[i] = entries[j])
      BY <1>6 DEF ScanInv
    <2>2. d = [c EXCEPT !.stayed = @ \ lost, !.met = @ \cup {"moved"}]
      BY <1>4, <1>6
    <2>3. ScanFits([c EXCEPT !.stayed = @ \ lost, !.met = @ \cup {"moved"}])'
      BY <1>4, <1>6, <2>1, ScanMoves
    <2> QED  BY <1>6, <2>2, <2>3
  <1>7. CASE d.at = "rows"
    <2>1. /\ d.offset = c.offset /\ d.total = c.total /\ d.seen = c.seen /\ d.op = c.op
          /\ how \in d.met /\ ("grown" \in c.met => "grown" \in d.met)
      BY <1>4 DEF FindCall
    <2>2. entries \in Seq(Entry) /\ entries' \in Seq(Entry)
      BY DEF ScanInv, PagedInv, PagedTypeOK
    <2>3. c.total \in Nat /\ Len(entries) \in Nat /\ Len(entries') \in Nat
      BY <2>2 DEF FindCall
    <2> QED  BY <1>4, <1>7, <2>1, <2>3 DEF CountFits
  <1> QED  BY <1>5, <1>6, <1>7

LEMMA SaveScanned ==
  ASSUME ScanInv, PagedInv', SaveCheckpoint PROVE Scanned'
  <1>1. /\ find' = Noted(find, {}, {"grown"}) /\ UNCHANGED <<keeper, sorted>>
        /\ given \in Nat /\ given' = given + 1 /\ given' \in 1 .. MaxEntries
        /\ millis \in 0 .. MaxMillis /\ MaxMillis \in Nat
    BY PagedAssumption DEF ScanInv, PagedInv, PagedTypeOK, SaveCheckpoint
  <1>2. PICK ms \in (IF sorted THEN {millis} ELSE 0 .. millis) :
           entries' = Append(entries, [key |-> given', id |-> given', ms |-> ms])
    BY DEF SaveCheckpoint
  <1> DEFINE e == [key |-> given', id |-> given', ms |-> ms]
  <1>3. e \in Entry /\ e.id = given'
    BY <1>1, <1>2 DEF Entry
  <1>4. e.id \notin Ids(entries)
    <2>1. \A i \in DOMAIN entries : entries[i].id <= given /\ entries[i].id \in Nat
      BY RowsFit DEF ScanInv
    <2> QED  BY <1>1, <1>3, <2>1 DEF Ids
  <1>5. \E r \in Entry : entries' = Append(entries, r) /\ r.id \notin Ids(entries)
    BY <1>2, <1>3, <1>4
  <1>6. \A g \in Finders : find'[g] = Noted(find, {}, {"grown"})[g]
    BY <1>1
  <1>7. PICK none : none \notin Finders
    <2>1. \A g \in Finders : g # CHOOSE x : x \notin Finders
      BY NoSetContainsEverything
    <2> QED  BY <2>1
  <1> QED  BY <1>1, <1>5, <1>6, <1>7, NotedScanned

LEMMA SetScanned ==
  ASSUME ScanInv, PagedInv', NEW s \in Setters, SetWrites(s)
  PROVE  /\ Scanned' /\ \A f \in Finders : find'[f].at = find[f].at
         /\ keeper = "knowledge"
  <1> DEFINE e == RowWritten(s)
  <1>1. /\ e \in Entry /\ e.id \in 1 .. given'
        /\ given \in Nat
        /\ e.id # given + 1 => Knows(e.id, e.key)
        /\ keeper = "knowledge" /\ UNCHANGED <<keeper, sorted>>
        /\ e.key \in 1 .. MaxEntries /\ given' <= MaxEntries
    <2>1. UNCHANGED <<keeper, sorted>> /\ given \in Nat
      BY DEF SetWrites, ScanInv, PagedInv, PagedTypeOK
    <2>2. e \in Entry => e.key \in 1 .. MaxEntries
      BY DEF Entry
    <2> HIDE DEF e
    <2> QED  BY <2>1, <2>2, SetWritesFits, PagedAssumption DEF ScanInv, e
  <1>2. \/ /\ ~ \E i \in DOMAIN entries : entries[i].key = e.key
           /\ entries' = Append(entries, e) /\ find' = Noted(find, {}, {"grown"})
        \/ \E i \in DOMAIN entries :
              /\ entries' = [entries EXCEPT ![i] = e]
              /\ find' = Noted(find, {entries[i].id} \ {e.id}, {"moved"})
    BY DEF SetWrites, RowWritten
  <1> HIDE DEF e
  <1>3. \A f \in Finders : find'[f].at = find[f].at
    <2>1. find \in [Finders -> FindCall] /\ {"moved"} \in SUBSET {"moved", "grown"}
          /\ {"grown"} \in SUBSET {"moved", "grown"}
      BY DEF ScanInv, PagedInv, PagedTypeOK
    <2>2. \E lost : \/ find' = Noted(find, lost, {"moved"})
                    \/ find' = Noted(find, lost, {"grown"})
      BY <1>2
    <2> QED  BY <2>1, <2>2, NotedFits
  <1>4. PICK none : none \notin Finders
    BY NoSetContainsEverything
  <1>5. CASE /\ ~ \E i \in DOMAIN entries : entries[i].key = e.key
             /\ entries' = Append(entries, e) /\ find' = Noted(find, {}, {"grown"})
    <2>1. ASSUME NEW i \in DOMAIN entries, entries[i].id = e.id PROVE FALSE
      <3>1. /\ entries[i].id <= given /\ entries[i].id \in 1 .. MaxEntries
            /\ entries[i].key \in 1 .. MaxEntries
        BY RowsFit DEF ScanInv
      <3>2. Knows(entries[i].id, entries[i].key)
        BY DEF Knows, InRows
      <3> HIDE DEF Knows
      <3>3. Knows(e.id, e.key) /\ Knows(e.id, entries[i].key) /\ e.id \in 1 .. MaxEntries
        BY <1>1, <2>1, <3>1, <3>2
      <3>4. entries[i].key = e.key
        BY <1>1, <3>1, <3>3 DEF ScanInv, PagedInv, IdsBelong
      <3> QED  BY <1>5, <3>4
    <2>2. e.id \notin Ids(entries)
      BY <2>1 DEF Ids
    <2>3. \E r \in Entry : entries' = Append(entries, r) /\ r.id \notin Ids(entries)
      BY <1>1, <1>5, <2>2
    <2>4. Scanned'
      BY <1>1, <1>4, <1>5, <2>3, NotedScanned
    <2> QED  BY <1>1, <1>3, <2>4
  <1>6. ASSUME NEW i \in DOMAIN entries, entries' = [entries EXCEPT ![i] = e],
               find' = Noted(find, {entries[i].id} \ {e.id}, {"moved"})
        PROVE  Scanned'
    <2>1. Len(entries') <= Len(entries)
      <3>1. entries \in Seq(Entry)
        BY DEF ScanInv, PagedInv, PagedTypeOK
      <3> QED  BY <1>1, <1>6, <3>1
    <2> QED  BY <1>1, <1>4, <1>6, <2>1, NotedScanned
  <1> QED  BY <1>1, <1>2, <1>3, <1>5, <1>6

\* A delete moves one call on, and takes one row at most.
LEMMA DeleteScanned ==
  ASSUME ScanInv, PagedInv', NEW f \in Finders, DeleteFound(f)
  PROVE  /\ Scanned' /\ find[f].at = "remove" /\ find'[f].at \in {"true", "false"}
         /\ \A g \in Finders : g # f => find'[g].at = find[g].at
         /\ UNCHANGED <<keeper, sorted>>
  <1>1. /\ find[f].at = "remove" /\ UNCHANGED <<keeper, sorted>>
        /\ find \in [Finders -> FindCall] /\ entries \in Seq(Entry)
    BY DEF DeleteFound, ScanInv, PagedInv, PagedTypeOK
  <1>2. CASE entries' = entries /\ find' = [find EXCEPT ![f].at = "false"]
    <2>1. find[f] \in FindCall
      BY <1>1
    <2>2. find'[f].at = "false" /\ \A g \in Finders : g # f => find'[g] = find[g]
      BY <1>1, <1>2, <2>1 DEF FindCall
    <2>3. \A g \in Finders : /\ find'[g].at = "page" => ScanFits(find'[g])
                             /\ find'[g].at = "rows" => CountFits(find'[g])
      BY <2>2 DEF ScanInv, Scanned
    <2>4. Scanned'
      BY <1>1, <1>2, <2>3, StaysScanned
    <2> QED  BY <1>1, <2>2, <2>4
  <1>3. ASSUME NEW i \in DOMAIN entries, entries' = RemoveAt(entries, i),
               find' = [Noted(find, {entries[i].id}, {"moved"}) EXCEPT ![f].at = "true"]
        PROVE  /\ Scanned' /\ find'[f].at \in {"true", "false"}
               /\ \A g \in Finders : g # f => find'[g].at = find[g].at
    <2> DEFINE calls == Noted(find, {entries[i].id}, {"moved"})
    <2>1. calls \in [Finders -> FindCall] /\ \A g \in Finders : calls[g].at = find[g].at
      <3>1. {"moved"} \in SUBSET {"moved", "grown"}
        OBVIOUS
      <3> QED  BY <1>1, <3>1, NotedFits
    <2>2. find' = [calls EXCEPT ![f].at = "true"]
      BY <1>3
    <2> HIDE DEF calls
    <2>3. find'[f].at = "true" /\ \A g \in Finders : g # f => find'[g] = calls[g]
      <3>1. calls[f] \in FindCall
        BY <2>1
      <3> QED  BY <2>1, <2>2, <3>1 DEF FindCall
    <2>4. /\ \A j \in DOMAIN entries' : \E k \in DOMAIN entries : entries'[j] = entries[k]
          /\ Len(entries') <= Len(entries)
      <3>1. /\ DOMAIN entries' = 1 .. Len(entries) - 1 /\ DOMAIN entries = 1 .. Len(entries)
            /\ Len(entries) \in Nat /\ Len(entries') = Len(entries) - 1
            /\ \A j \in 1 .. Len(entries) - 1 : entries'[j] = IF j < i THEN entries[j] ELSE entries[j + 1]
        BY <1>1, <1>3, RemoveAtIs
      <3>2. \A j \in DOMAIN entries' : j \in DOMAIN entries /\ j + 1 \in DOMAIN entries
        BY <3>1
      <3> QED  BY <3>1, <3>2
    <2>5. \A g \in Finders : g # f => find'[g] = Noted(find, {entries[i].id}, {"moved"})[g]
      BY <2>3 DEF calls
    <2>6. Scanned'
      <3>1. find'[f].at \notin {"page", "rows"} /\ "moved" \in {"moved", "grown"}
        BY <2>3
      <3> DEFINE lost == {entries[i].id}
      <3>2. \A g \in Finders : g # f => find'[g] = Noted(find, lost, {"moved"})[g]
        BY <2>5
      <3> HIDE DEF lost
      <3> QED  BY <1>1, <2>4, <3>1, <3>2, NotedScanned
    <2> QED  BY <2>1, <2>3, <2>6
  <1> QED  BY <1>1, <1>2, <1>3 DEF DeleteFound

LEMMA SameScanned ==
  ASSUME Scanned, UNCHANGED <<keeper, sorted, entries, find>> PROVE Scanned'
  <1>1. \A g \in Finders : /\ find'[g].at = "page" => ScanFits(find'[g])
                           /\ find'[g].at = "rows" => CountFits(find'[g])
    BY DEF Scanned
  <1> QED  BY <1>1, StaysScanned

LEMMA ScanInvariance == PagedSpec => []ScanInv
  <1>1. ASSUME PagedInit PROVE Scanned
    BY <1>1 DEF PagedInit, NoFind, Scanned
  <1>2. ASSUME ScanInv, PagedInv', [PagedNext]_pagedvars PROVE Scanned'
    <2>1. CASE UNCHANGED pagedvars
      BY <1>2, <2>1, SameScanned DEF pagedvars, ScanInv
    <2>2. CASE SaveCheckpoint
      BY <1>2, <2>2, SaveScanned
    <2>3. CASE Millisecond
      BY <1>2, <2>3, SameScanned DEF Millisecond, ScanInv
    <2>4. ASSUME NEW s \in Setters, SetWrites(s) PROVE Scanned'
      BY <1>2, <2>4, SetScanned
    <2>5. ASSUME NEW s \in Setters, NEW k \in EntryKeys, SetReads(s, k) PROVE Scanned'
      BY <1>2, <2>5, SameScanned DEF SetReads, ScanInv
    <2>6. ASSUME NEW f \in Finders,
                 \/ NextPage(f) \/ RowsRead(f)
                 \/ \E op \in {"list", "load", "delete"}, id \in 0 .. MaxEntries : FirstPage(f, op, id)
          PROVE  Scanned'
      <3>1. PICK c \in FindCall : Counting(f, c) \/ \E total \in Nat : Looking(f, c, total)
        BY <1>2, <2>6, PagesAreLookedThrough DEF ScanInv
      <3> QED  BY <1>2, <3>1, LooksScanned, CountScanned
    <2>7. ASSUME NEW f \in Finders, DeleteFound(f) PROVE Scanned'
      BY <1>2, <2>7, DeleteScanned
    <2> QED  BY <1>2, <2>1, <2>2, <2>3, <2>4, <2>5, <2>6, <2>7 DEF PagedNext
  <1>3. PagedSpec => [][PagedNext]_pagedvars /\ PagedInit
    BY DEF PagedSpec
  <1> QED  BY <1>1, <1>2, <1>3, PagedInvariance, PTL DEF ScanInv

\* The step with which a call ends.
LEMMA EndLooks ==
  ASSUME ScanInv, PagedInv', PagedNext, NEW f \in Finders, ScanEnds(f)
  PROVE  Complete(find'[f]) /\ AsNew(find'[f])
  <1>1. CASE SaveCheckpoint
    <2>1. find'[f].at = find[f].at
      <3>1. /\ find \in [Finders -> FindCall] /\ {"grown"} \in SUBSET {"moved", "grown"}
            /\ find' = Noted(find, {}, {"grown"})
        BY <1>1 DEF ScanInv, PagedInv, PagedTypeOK, SaveCheckpoint
      <3> QED  BY <3>1, NotedFits
    <2> QED  BY <2>1 DEF ScanEnds
  <1>2. CASE Millisecond
    BY <1>2 DEF Millisecond, ScanEnds
  <1>3. ASSUME NEW s \in Setters, SetWrites(s) PROVE FALSE
    BY <1>3, SetScanned DEF ScanEnds
  <1>4. ASSUME NEW s \in Setters, NEW k \in EntryKeys, SetReads(s, k) PROVE FALSE
    BY <1>4 DEF SetReads, ScanEnds
  <1>5. ASSUME NEW g \in Finders,
               \/ NextPage(g) \/ RowsRead(g)
               \/ \E op \in {"list", "load", "delete"}, id \in 0 .. MaxEntries : FirstPage(g, op, id)
        PROVE  Complete(find'[f]) /\ AsNew(find'[f])
    <2>1. PICK c \in FindCall : Counting(g, c) \/ \E total \in Nat : Looking(g, c, total)
      BY <1>5, PagesAreLookedThrough DEF ScanInv
    <2> QED  BY <2>1, LooksScanned, CountScanned DEF ScanEnds
  <1>6. ASSUME NEW g \in Finders, DeleteFound(g) PROVE FALSE
    BY <1>6, DeleteScanned DEF ScanEnds
  <1> QED  BY <1>1, <1>2, <1>3, <1>4, <1>5, <1>6 DEF PagedNext

\* Nothing that stays stored is missed or seen twice.
THEOREM AnswersCompleteHolds == PagedSpec => AnswersComplete
  <1>1. ScanInv /\ PagedInv' /\ [PagedNext]_pagedvars =>
          [\A f \in Finders : ScanEnds(f) =>
              LET c == find'[f]
                  still == \/ c.offset = 0 /\ "grown" \notin c.met
                           \/ sorted /\ "moved" \notin c.met
              IN  /\ still => IF c.op = "list" THEN c.stayed \subseteq Ids(c.seen) ELSE c.id \notin c.stayed
                  /\ still /\ "grown" \notin c.met =>
                        \A i, j \in DOMAIN c.seen : c.seen[i].id = c.seen[j].id => i = j]_pagedvars
    BY EndLooks DEF Complete
  <1>2. PagedSpec => [][PagedNext]_pagedvars
    BY DEF PagedSpec
  <1> QED  BY <1>1, <1>2, ScanInvariance, PagedInvariance, PTL DEF AnswersComplete

\* Latest is defined, and nothing seen is newer.
LEMMA LatestIs ==
  ASSUME NEW got \in Seq(Entry), got # <<>>
  PROVE  Latest(got).ms \in Nat /\ \A n \in DOMAIN got : got[n].ms <= Latest(got).ms
  <1>1. DOMAIN got = 1 .. Len(got) /\ Len(got) \in Nat /\ Len(got) # 0 /\ MaxMillis \in Nat
        /\ \A n \in DOMAIN got : got[n] \in Entry /\ got[n].ms \in 0 .. MaxMillis
    <2>1. /\ DOMAIN got = 1 .. Len(got) /\ Len(got) \in Nat /\ Len(got) # 0
          /\ \A n \in DOMAIN got : got[n] \in Entry
      <3>1. Len(got) = 0 => got = <<>>
        OBVIOUS
      <3> QED  BY <3>1
    <2> QED  BY <2>1, PagedAssumption DEF Entry
  <1> DEFINE best == {i \in DOMAIN got : \A j \in DOMAIN got : got[j].ms <= got[i].ms}
             bounds == {m \in Nat : \A n \in DOMAIN got : got[n].ms <= m}
  <1>2. best # {}
    <2>1. MaxMillis \in bounds
      BY <1>1, PagedAssumption
    <2>2. PICK m \in bounds : \A x \in bounds : m <= x
      <3>1. bounds \subseteq Nat /\ bounds # {}
        BY <2>1
      <3> HIDE DEF bounds
      <3> QED  BY <3>1, LeastNatural
    <2>3. \E n \in DOMAIN got : got[n].ms = m
      <3> SUFFICES ASSUME \A n \in DOMAIN got : got[n].ms # m PROVE FALSE
        OBVIOUS
      <3>1. \A n \in DOMAIN got : got[n].ms <= m - 1 /\ got[n].ms \in Nat
        BY <1>1, <2>2
      <3>2. 1 \in DOMAIN got
        BY <1>1
      <3>3. m - 1 \in Nat
        BY <2>2, <3>1, <3>2
      <3>4. m - 1 \in bounds
        BY <3>1, <3>3
      <3> QED  BY <2>2, <3>4
    <2> QED  BY <2>2, <2>3
  <1>3. \E i \in best : \A j \in best : i <= j
    <2>1. best \subseteq Nat
      BY <1>1
    <2> HIDE DEF best
    <2> QED  BY <1>2, <2>1, LeastNatural
  <1> DEFINE first == CHOOSE i \in best : \A j \in best : i <= j
  <1>4. first \in best
    BY <1>3
  <1>5. Latest(got) = got[first]
    BY DEF Latest
  <1>6. \A j \in DOMAIN got : got[j].ms <= got[first].ms
    BY <1>4
  <1>7. first \in DOMAIN got
    BY <1>4
  <1> HIDE DEF first
  <1> QED  BY <1>1, <1>5, <1>6, <1>7


\* loadLatest answers a checkpoint as new as any that was there all the while.
THEOREM LatestIsNewestHolds == PagedSpec => LatestIsNewest
  <1>1. ASSUME ScanInv, PagedInv', PagedNext, NEW f \in Finders, keeper = "checkpoint", sorted, ScanEnds(f),
               NEW e \in Range(entries), find'[f].op = "list", e.id \in find'[f].stayed
        PROVE  find'[f].seen # <<>> /\ e.ms <= Latest(find'[f].seen).ms
    <2> DEFINE got == find'[f].seen
    <2>1. got \in Seq(Entry)
      BY <1>1 DEF PagedInv, PagedTypeOK, FindCall
    <2>2. PICK n \in DOMAIN got : e.ms <= got[n].ms
      BY <1>1, EndLooks DEF AsNew
    <2>3. PICK i \in DOMAIN entries : e = entries[i]
      BY <1>1 DEF Range
    <2>4. e.ms \in Nat /\ got[n].ms \in Nat
      <3>1. e \in Entry /\ got[n] \in Entry
        BY <1>1, <2>1, <2>2, <2>3, RowsFit DEF ScanInv
      <3> QED  BY <3>1, PagedAssumption DEF Entry
    <2> HIDE DEF got
    <2>5. got # <<>>
      BY <2>2
    <2>6. got[n].ms <= Latest(got).ms /\ Latest(got).ms \in Nat
      BY <2>1, <2>2, <2>5, LatestIs
    <2>7. e.ms <= Latest(got).ms
      BY <2>2, <2>4, <2>6
    <2> QED  BY <2>5, <2>7 DEF got
  <1>2. ScanInv /\ PagedInv' /\ [PagedNext]_pagedvars =>
          [\A f \in Finders : keeper = "checkpoint" /\ sorted /\ ScanEnds(f) =>
              LET c == find'[f]
              IN  \A e \in Range(entries) :
                     c.op = "list" /\ e.id \in c.stayed => c.seen # <<>> /\ e.ms <= Latest(c.seen).ms]_pagedvars
    BY <1>1
  <1>3. PagedSpec => [][PagedNext]_pagedvars
    BY DEF PagedSpec
  <1> QED  BY <1>2, <1>3, ScanInvariance, PagedInvariance, PTL DEF LatestIsNewest

\* The step with which a call leaves the removal.
LEMMA RemovalDeletes ==
  ASSUME ScanInv, PagedNext, NEW f \in Finders, find[f].at = "remove", find'[f].at # "remove"
  PROVE  DeleteFound(f)
  <1>1. CASE SaveCheckpoint
    <2>1. find'[f].at = find[f].at
      <3>1. /\ find \in [Finders -> FindCall] /\ {"grown"} \in SUBSET {"moved", "grown"}
            /\ find' = Noted(find, {}, {"grown"})
        BY <1>1 DEF ScanInv, PagedInv, PagedTypeOK, SaveCheckpoint
      <3> QED  BY <3>1, NotedFits
    <2> QED  BY <2>1
  <1>2. CASE Millisecond
    BY <1>2 DEF Millisecond
  <1>3. ASSUME NEW s \in Setters, SetWrites(s) PROVE FALSE
    BY <1>3, SetScanned, SetWritesStep DEF ScanInv
  <1>4. ASSUME NEW s \in Setters, NEW k \in EntryKeys, SetReads(s, k) PROVE FALSE
    BY <1>4 DEF SetReads
  <1>5. ASSUME NEW g \in Finders,
               \/ NextPage(g) \/ RowsRead(g)
               \/ \E op \in {"list", "load", "delete"}, id \in 0 .. MaxEntries : FirstPage(g, op, id)
        PROVE  FALSE
    <2>1. PICK c \in FindCall : Counting(g, c) \/ \E total \in Nat : Looking(g, c, total)
      BY <1>5, PagesAreLookedThrough DEF ScanInv
    <2> QED  BY <2>1, LooksScanned, CountScanned
  <1>6. ASSUME NEW g \in Finders, DeleteFound(g) PROVE g = f
    BY <1>6, DeleteScanned, DeleteFoundStep DEF ScanInv
  <1> QED  BY <1>1, <1>2, <1>3, <1>4, <1>5, <1>6 DEF PagedNext

\* delete takes the entry of its id, or that one was gone already.
THEOREM RightEntryRemovedHolds == PagedSpec => RightEntryRemoved
  <1>1. ASSUME ScanInv, PagedNext, NEW f \in Finders, find[f].at = "remove", find'[f].at # "remove",
               find[f].id \in find[f].stayed
        PROVE  find'[f].at = "true" /\ Ids(entries) \ Ids(entries') = {find[f].id}
    <2>1. find \in [Finders -> FindCall] /\ entries \in Seq(Entry) /\ PagedInv
      BY <1>1 DEF ScanInv, PagedInv, PagedTypeOK
    <2>2. DeleteFound(f)
      BY <1>1, RemovalDeletes
    <2>3. PICK k \in DOMAIN entries : entries[k].id = find[f].id
      BY <1>1, <2>1 DEF PagedInv, StayedStored, Ids
    <2>4. entries[k].key = find[f].key
      <3>1. Knows(entries[k].id, entries[k].key)
        BY DEF Knows, InRows
      <3>2. Knows(find[f].id, find[f].key)
        BY <1>1 DEF Knows, WasFound
      <3> HIDE DEF Knows
      <3>3. /\ entries[k].id \in 1 .. MaxEntries /\ entries[k].key \in 1 .. MaxEntries
            /\ find[f].key \in 1 .. MaxEntries
        <4>1. find[f].key \in 0 .. MaxEntries /\ find[f].key # 0
          BY <1>1, <2>1 DEF PagedInv, IdsBelong, FindCall
        <4> QED  BY <2>1, <4>1, RowsFit, PagedAssumption
      <3> QED  BY <2>1, <2>3, <3>1, <3>2, <3>3 DEF PagedInv, IdsBelong
    <2>5. PICK i \in DOMAIN entries :
             /\ entries[i].key = find[f].key /\ entries' = RemoveAt(entries, i)
             /\ find' = [Noted(find, {entries[i].id}, {"moved"}) EXCEPT ![f].at = "true"]
      BY <2>2, <2>4 DEF DeleteFound
    <2>6. i = k
      BY <2>1, <2>4, <2>5 DEF PagedInv, PagedTypeOK
    <2>7. find'[f].at = "true"
      <3>1. {"moved"} \in SUBSET {"moved", "grown"}
        OBVIOUS
      <3> DEFINE calls == Noted(find, {entries[i].id}, {"moved"})
      <3>2. calls \in [Finders -> FindCall] /\ find' = [calls EXCEPT ![f].at = "true"]
        BY <2>1, <2>5, <3>1, NotedFits
      <3> HIDE DEF calls
      <3>3. calls[f] \in FindCall
        BY <3>2
      <3> QED  BY <3>2, <3>3 DEF FindCall
    <2>8. /\ DOMAIN entries' = 1 .. Len(entries) - 1 /\ DOMAIN entries = 1 .. Len(entries)
          /\ Len(entries) \in Nat
          /\ \A j \in 1 .. Len(entries) - 1 : entries'[j] = IF j < i THEN entries[j] ELSE entries[j + 1]
      BY <2>1, <2>5, RemoveAtIs
    <2>9. \A j \in DOMAIN entries' : \E l \in DOMAIN entries : l # i /\ entries'[j] = entries[l]
      <3> SUFFICES ASSUME NEW j \in DOMAIN entries'
                   PROVE  \E l \in DOMAIN entries : l # i /\ entries'[j] = entries[l]
        OBVIOUS
      <3>1. CASE j < i
        BY <2>8, <3>1
      <3>2. CASE ~(j < i)
        <4>1. j + 1 \in DOMAIN entries /\ j + 1 # i /\ entries'[j] = entries[j + 1]
          BY <2>8, <3>2
        <4> QED  BY <4>1
      <3> QED  BY <3>1, <3>2
    <2>10. \A l \in DOMAIN entries : l # i => \E j \in DOMAIN entries' : entries'[j] = entries[l]
      <3> SUFFICES ASSUME NEW l \in DOMAIN entries, l # i
                   PROVE  \E j \in DOMAIN entries' : entries'[j] = entries[l]
        OBVIOUS
      <3>1. CASE l < i
        BY <2>8, <3>1
      <3>2. CASE i < l
        <4>1. l - 1 \in 1 .. Len(entries) - 1 /\ ~(l - 1 < i) /\ (l - 1) + 1 = l
          BY <2>8, <3>2
        <4> QED  BY <2>8, <4>1
      <3> QED  BY <2>8, <3>1, <3>2
    <2>11. \A j, l \in DOMAIN entries : entries[j].id = entries[l].id => j = l
      BY <2>1, RowsFit
    <2>12. Ids(entries) \ Ids(entries') = {entries[i].id}
      BY <2>9, <2>10, <2>11 DEF Ids
    <2> QED  BY <2>3, <2>6, <2>7, <2>12
  <1>2. ScanInv /\ [PagedNext]_pagedvars =>
          [\A f \in Finders :
             find[f].at = "remove" /\ find'[f].at # "remove" /\ find[f].id \in find[f].stayed =>
                 find'[f].at = "true" /\ Ids(entries) \ Ids(entries') = {find[f].id}]_pagedvars
    BY <1>1
  <1>3. PagedSpec => [][PagedNext]_pagedvars
    BY DEF PagedSpec
  <1> QED  BY <1>2, <1>3, ScanInvariance, PTL DEF RightEntryRemoved

\* Entries are found while others write.
THEOREM ScansTrueHolds == PagedSpec => ScansTrue
  BY AnswersCompleteHolds, LatestIsNewestHolds, RightEntryRemovedHolds DEF ScansTrue

----------------------------------------------------------------------------
(* A behaviour of the suite is a behaviour of each of its components.       *)

LEMMA SuiteOfParts == SuiteSpec => 
          Spec /\ RuntimeSpec /\ HandoffSpec /\ MachineSpec /\ TaskSpec /\ PagedSpec
  <1>1. SuiteInit => Init /\ RuntimeInit /\ HandoffInit /\ MachineInit /\ TaskInit /\ PagedInit
    BY DEF SuiteInit
  <1>2. [SuiteNext]_suitevars =>
           /\ [Next]_vars /\ [RuntimeNext]_runtimevars /\ [HandoffNext]_handoffvars
           /\ [MachineNext]_machinevars /\ [TaskNext]_taskvars /\ [PagedNext]_pagedvars
    BY DEF SuiteNext, suitevars
  <1> QED  BY <1>1, <1>2, PTL
           DEF SuiteSpec, Spec, RuntimeSpec, HandoffSpec, MachineSpec, TaskSpec, PagedSpec

\* Every variable of the six components keeps its type.
THEOREM SuiteTypeCorrect == SuiteSpec => []SuiteTypeOK
  <1>1. WorkflowInv /\ RuntimeInv /\ HandoffInv /\ MachineInv /\ TaskInv /\ PagedInv => SuiteTypeOK
    BY DEF WorkflowInv, RuntimeInv, HandoffInv, MachineInv, TaskInv, PagedInv, SuiteTypeOK
  <1> QED  BY <1>1, SuiteOfParts, WorkflowInvariance, RuntimeInvariance, HandoffInvariance,
           MachineInvariance, TaskInvariance, PagedInvariance, PTL
=============================================================================
