------------------------------ MODULE Handoff ------------------------------
(***************************************************************************)
(* StorageHandoffManager (src/collaboration/handoff/impl/storage-handoff.ts)*)
(* and the /handoffs routes: people create, assign, resolve and cancel      *)
(* requests, each call by one storage call and then one publish.  Other     *)
(* calls run in between.  On Postgres atomicUpdate is one step; on the      *)
(* memory backend it is a get and a set.  expiresAt is stored and never     *)
(* looked at, so that a request does not expire.                            *)
(***************************************************************************)
EXTENDS Naturals, FiniteSets

CONSTANTS
    Handoffs,       \* the requests ever created
    HandoffCalls,   \* the calls ever made, each once
    AtomicUpdates   \* storage.atomicUpdate is one step: the values explored

ASSUME HandoffAssumption == Handoffs # {} /\ AtomicUpdates \subseteq BOOLEAN

VARIABLES
    oneStep,        \* this storage's atomicUpdate is one step
    handoff,        \* the status of each stored request
    hcall,          \* the calls
    announced,      \* the events published, <<handoff, status, call>>
    overlapped      \* auxiliary: requests written from a get that was stale

handoffvars == <<oneStep, handoff, hcall, announced, overlapped>>

Statuses == {"none", "pending", "assigned", "resolved", "cancelled"}
Ends     == {"resolved", "cancelled"}

HandoffTypeOK ==
    /\ oneStep \in AtomicUpdates
    /\ handoff \in [Handoffs -> Statuses]
    /\ hcall \in [HandoffCalls ->
                    [id : Handoffs, to : Statuses, read : Statuses,
                     at : {"idle", "write", "publish", "done", "rejected"}]]
    /\ announced \in SUBSET (Handoffs \X Statuses \X HandoffCalls)
    /\ overlapped \in SUBSET Handoffs
    /\ \A a \in announced : handoff[a[1]] # "none" /\ hcall[a[3]].to = a[2]

HandoffInit ==
    /\ oneStep \in AtomicUpdates
    /\ handoff = [h \in Handoffs |-> "none"]
    /\ hcall \in [HandoffCalls ->
                    [id : {CHOOSE h \in Handoffs : TRUE}, to : {"none"}, read : {"none"},
                     at : {"idle"}]]
    /\ announced = {} /\ overlapped = {}

----------------------------------------------------------------------------
\* What the updaters of assign-, resolve- and cancelRequest let through; they
\* throw on any other status and when there is no request.
MayBecome(to, status) ==
    CASE to = "assigned"  -> status = "pending"
      [] to = "resolved"  -> status \in {"pending", "assigned"}
      [] to = "cancelled" -> status \notin Ends \cup {"none"}

\* The call has written status to of request h, and publishes it next.
Stores(c, h, to, read) ==
    /\ handoff' = [handoff EXCEPT ![h] = to]
    /\ hcall' = [hcall EXCEPT ![c] = [id |-> h, to |-> to, read |-> read, at |-> "publish"]]

CreateRequest(c, h) ==
    /\ hcall[c].at = "idle" /\ handoff[h] = "none"
    /\ Stores(c, h, "pending", "none")
    /\ UNCHANGED <<oneStep, announced, overlapped>>

\* Mutant: on every backend the status is checked before the call.
UpdateRequestUnlocked(c, h, to) ==
    /\ hcall[c].at = "idle"
    /\ hcall' = [hcall EXCEPT ![c] =
                   [id |-> h, to |-> to, read |-> handoff[h],
                    at |-> IF MayBecome(to, handoff[h]) THEN "write" ELSE "rejected"]]
    /\ UNCHANGED <<oneStep, handoff, announced, overlapped>>

\* assignRequest, resolveRequest, cancelRequest: atomicUpdate, or its get.
UpdateRequest(c, h, to) ==
    /\ hcall[c].at = "idle"
    /\ LET call(at) == [id |-> h, to |-> to, read |-> handoff[h], at |-> at]
       IN  IF ~MayBecome(to, handoff[h])
           THEN hcall' = [hcall EXCEPT ![c] = call("rejected")] /\ UNCHANGED handoff
           ELSE IF oneStep THEN Stores(c, h, to, handoff[h])
           ELSE hcall' = [hcall EXCEPT ![c] = call("write")] /\ UNCHANGED handoff
    /\ UNCHANGED <<oneStep, announced, overlapped>>

\* The set of the memory backend's atomicUpdate.
WriteRequest(c) ==
    /\ hcall[c].at = "write"
    /\ LET h == hcall[c].id
       IN  /\ Stores(c, h, hcall[c].to, hcall[c].read)
           /\ overlapped' = IF hcall[c].read = handoff[h] THEN overlapped
                            ELSE overlapped \cup {h}
    /\ UNCHANGED <<oneStep, announced>>

PublishUpdate(c) ==
    /\ hcall[c].at = "publish"
    /\ announced' = announced \cup {<<hcall[c].id, hcall[c].to, c>>}
    /\ hcall' = [hcall EXCEPT ![c].at = "done"]
    /\ UNCHANGED <<oneStep, handoff, overlapped>>

\* The storage call or publish throws: what is written stays, unannounced.
HandoffThrows(c) ==
    /\ hcall[c].at \in {"write", "publish"}
    /\ hcall' = [hcall EXCEPT ![c].at = "rejected"]
    /\ UNCHANGED <<oneStep, handoff, announced, overlapped>>

HandoffNext ==
    \E c \in HandoffCalls :
        \/ WriteRequest(c) \/ PublishUpdate(c) \/ HandoffThrows(c)
        \/ \E h \in Handoffs :
              CreateRequest(c, h) \/ \E to \in Ends \cup {"assigned"} : UpdateRequest(c, h, to)

HandoffSpec == HandoffInit /\ [][HandoffNext]_handoffvars

----------------------------------------------------------------------------
Wrote(c) == hcall[c].at \in {"publish", "done"}

\* People may act on one request at the same time: one of them ends it, and
\* nobody assigns it afterwards, unless an update of the memory backend wrote
\* over a status it had not read.
OneEnd ==
    \A h \in Handoffs \ overlapped :
        LET enders == {c \in HandoffCalls : Wrote(c) /\ hcall[c].id = h /\ hcall[c].to \in Ends}
        IN  Cardinality(enders) <= 1 /\ \A c \in enders : handoff[h] = hcall[c].to

\* Only a write over a stale read takes a request out of its end.
EndStands ==
    [][\A h \in Handoffs : handoff[h] \in Ends /\ handoff'[h] # handoff[h] =>
          ~oneStep /\ h \in overlapped']_handoffvars

\* When every call has returned, a subscriber that takes the end of a request
\* from its events has the stored end, whatever the order of the events, unless
\* a call that rejected has stored an end.
SubscribersKnowEnd ==
    (\A c \in HandoffCalls : hcall[c].at \notin {"write", "publish"}) =>
        \A h \in Handoffs \ overlapped :
            \/ {a[2] : a \in {b \in announced : b[1] = h /\ b[2] \in Ends}}
                 = {handoff[h]} \cap Ends
            \/ \E c \in HandoffCalls : hcall[c].id = h /\ hcall[c].at = "rejected"
                                       /\ hcall[c].to = handoff[h]

\* A request has one end, which stands and which its subscribers know.
HandoffsEndOnce == []OneEnd /\ []SubscribersKnowEnd /\ EndStands
=============================================================================
