--------------------------- MODULE QueueContract ---------------------------
(***************************************************************************)
(* What QueueBackend (src/kernel/queue.ts) promises about one message: it   *)
(* is held by at most one consumer at a time, only its holder decides how   *)
(* the delivery ends, and a finished message never comes back.              *)
(***************************************************************************)
CONSTANTS Ids, Holders

VARIABLES
    stage,      \* where the message is in its life
    holder      \* who holds it: nobody, {}, or one holder, {h}

cvars == <<stage, holder>>

Init ==
    /\ stage = [m \in Ids |-> "absent"]
    /\ holder = [m \in Ids |-> {}]

\* Move m between stages and set its holder.
Move(m, from, to, h) ==
    /\ stage[m] = from
    /\ stage' = [stage EXCEPT ![m] = to]
    /\ holder' = [holder EXCEPT ![m] = h]

Send(m)       == Move(m, "absent", "pending", {})
Deliver(m, h) == Move(m, "pending", "processing", {h})
Revive(m)     == Move(m, "dead_letter", "pending", {})

\* A delivery ends only by a decision of the current holder.
Settle(m, to) == holder[m] # {} /\ Move(m, "processing", to, {})

\* The holder goes away without deciding; the message stays held by nobody.
Forsake(m) == Settle(m, "processing")

\* purge and shutdown: some messages are dropped together.
Drop ==
    \E S \in SUBSET Ids :
        /\ \A m \in S : stage[m] # "absent"
        /\ stage' = [m \in Ids |-> IF m \in S THEN "gone" ELSE stage[m]]
        /\ holder' = [m \in Ids |-> IF m \in S THEN {} ELSE holder[m]]

Next ==
    \/ \E m \in Ids :
          \/ Send(m) \/ Revive(m) \/ Forsake(m)
          \/ \E h \in Holders : Deliver(m, h)
          \/ \E to \in {"completed", "pending", "dead_letter"} : Settle(m, to)
    \/ Drop

Spec == Init /\ [][Next]_cvars
=============================================================================
