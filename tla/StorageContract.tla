-------------------------- MODULE StorageContract --------------------------
(***************************************************************************)
(* What StorageBackend (src/kernel/storage.ts) promises the callers of      *)
(* atomicUpdate, set, batchSet, delete and transaction: a call that         *)
(* succeeds takes effect once, in one step, on all its keys, and an update  *)
(* is computed from the very value it replaces; a call that fails leaves    *)
(* nothing behind.                                                          *)
(*                                                                          *)
(* A row is the set of the calls its value incorporates: an update adds its *)
(* call to what it read, a set starts afresh.  So a lost update is a call   *)
(* missing from the row.  A row that does not exist is the empty set.       *)
(***************************************************************************)
CONSTANTS
    Keys,
    Callers,      \* the calls ever made, each at most once
    Seed        \* stands for the call that wrote the rows that exist at first

VARIABLES row, op, outcome

cvars == <<row, op, outcome>>

Absent == {}

Rows  == SUBSET (Callers \cup {Seed})
Kinds == {"update", "set", "remove"}
Ops   == [kind : Kinds, keys : SUBSET Keys]

\* What a call of this kind makes of a row that holds r.
Result(kind, c, r) ==
    IF kind = "update" THEN r \cup {c}
    ELSE IF kind = "set" THEN {c} ELSE Absent

ContractInit ==
    /\ row \in [Keys -> Rows]
    /\ op \in [Callers -> Ops]
    /\ outcome = [c \in Callers |-> "idle"]

ContractBegin(c) ==
    /\ outcome[c] = "idle"
    /\ \E o \in Ops : op' = [op EXCEPT ![c] = o]
    /\ outcome' = [outcome EXCEPT ![c] = "open"]
    /\ UNCHANGED row

ContractApply(c) ==
    /\ outcome[c] = "open"
    /\ outcome' = [outcome EXCEPT ![c] = "applied"]
    /\ row' = [k \in Keys |-> IF k \in op[c].keys THEN Result(op[c].kind, c, row[k])
                                                  ELSE row[k]]
    /\ UNCHANGED op

ContractFail(c) ==
    /\ outcome[c] = "open"
    /\ outcome' = [outcome EXCEPT ![c] = "failed"]
    /\ UNCHANGED <<row, op>>

ContractNext == \E c \in Callers : ContractBegin(c) \/ ContractApply(c) \/ ContractFail(c)

ContractSpec == ContractInit /\ [][ContractNext]_cvars
=============================================================================
