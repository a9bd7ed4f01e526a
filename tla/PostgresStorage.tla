-------------------------- MODULE PostgresStorage --------------------------
(***************************************************************************)
(* PostgresStorageBackend (src/kernel-impl/postgres/storage.ts): every      *)
(* method runs its statements in one READ COMMITTED transaction             *)
(* (withTenantScope).  atomicUpdate is SELECT ... FOR UPDATE, then an       *)
(* upsert; set is an upsert; batchSet and the writes of a transaction are   *)
(* upserts of several keys; delete is a DELETE.                             *)
(*                                                                          *)
(* Of Postgres the model keeps what these statements rely on: a statement   *)
(* sees committed rows, FOR UPDATE / upsert / delete wait for the lock of   *)
(* the row they touch, a row that does not exist cannot be locked, an       *)
(* upsert waits for an uncommitted insert of the same key, the lock is kept *)
(* to the end of the transaction, and a deadlock aborts one of its members. *)
(* Row values are those of StorageContract.  Rows are per tenant and        *)
(* collection, so one collection of one tenant is modelled.                 *)
(***************************************************************************)
EXTENDS StorageContract

CONSTANT
    Stable      \* the keys whose rows exist at first and are never deleted

ASSUME PostgresAssumption ==
    /\ Stable \subseteq Keys
    /\ Seed \notin Callers

VARIABLES
    holds,      \* the row locks of the call's transaction
    read,       \* what SELECT ... FOR UPDATE returned to the call
    todo        \* the keys the transaction has still to write

\* outcome and op are the contract's; outcome says how far the call has come.
pvars == <<row, op, outcome, holds, read, todo>>

Outcomes == {"idle", "begun", "selected", "applied", "failed"}

PTypeOK ==
    /\ row \in [Keys -> Rows]
    /\ op \in [Callers -> Ops]
    /\ outcome \in [Callers -> Outcomes]
    /\ holds \in [Callers -> SUBSET Keys]
    /\ read \in [Callers -> Rows]
    /\ todo \in [Callers -> SUBSET Keys]
    /\ \A c \in Callers : todo[c] \subseteq op[c].keys /\ holds[c] \subseteq op[c].keys

PInit ==
    /\ row = [k \in Keys |-> IF k \in Stable THEN {Seed} ELSE Absent]
    /\ op = [c \in Callers |-> [kind |-> "set", keys |-> {}]]
    /\ outcome = [c \in Callers |-> "idle"]
    /\ holds = [c \in Callers |-> {}]
    /\ read = [c \in Callers |-> Absent]
    /\ todo = [c \in Callers |-> {}]

----------------------------------------------------------------------------
Active(c) == outcome[c] \in {"begun", "selected"}

Unlocked(c, k) == \A d \in Callers \ {c} : k \notin holds[d]

\* atomicUpdate and delete name one key; set, batchSet and transaction any.
PBegin(c, kind, K) ==
    /\ outcome[c] = "idle"
    /\ K # {}
    /\ kind # "set" => \E k \in K : K = {k}
    /\ kind = "remove" => K \cap Stable = {}
    /\ op' = [op EXCEPT ![c] = [kind |-> kind, keys |-> K]]
    /\ todo' = [todo EXCEPT ![c] = K]
    /\ outcome' = [outcome EXCEPT ![c] = "begun"]
    /\ UNCHANGED <<row, holds, read>>

\* Mutant: SELECT without FOR UPDATE.
SelectPlain(c, k) ==
    /\ outcome[c] = "begun" /\ op[c].kind = "update" /\ k \in todo[c]
    /\ holds' = holds
    /\ read' = [read EXCEPT ![c] = row[k]]
    /\ outcome' = [outcome EXCEPT ![c] = "selected"]
    /\ UNCHANGED <<row, op, todo>>

\* The first statement of atomicUpdate.
SelectForUpdate(c, k) ==
    /\ outcome[c] = "begun" /\ op[c].kind = "update" /\ k \in todo[c]
    /\ \/ row[k] = Absent /\ holds' = holds
       \/ /\ row[k] # Absent /\ Unlocked(c, k)
          /\ holds' = [holds EXCEPT ![c] = @ \cup {k}]
    /\ read' = [read EXCEPT ![c] = row[k]]
    /\ outcome' = [outcome EXCEPT ![c] = "selected"]
    /\ UNCHANGED <<row, op, todo>>

\* The statements left are those that write.
Writing(c) == outcome[c] = IF op[c].kind = "update" THEN "selected" ELSE "begun"

\* INSERT ... ON CONFLICT DO UPDATE of one key.
Upsert(c, k) ==
    /\ Writing(c) /\ op[c].kind # "remove" /\ k \in todo[c]
    /\ Unlocked(c, k)
    /\ holds' = [holds EXCEPT ![c] = @ \cup {k}]
    /\ todo' = [todo EXCEPT ![c] = @ \ {k}]
    /\ UNCHANGED <<row, op, outcome, read>>

\* DELETE: an uncommitted insert is invisible, so an absent row is no wait.
Delete(c, k) ==
    /\ Writing(c) /\ op[c].kind = "remove" /\ k \in todo[c]
    /\ \/ row[k] = Absent /\ holds' = holds
       \/ /\ row[k] # Absent /\ Unlocked(c, k)
          /\ holds' = [holds EXCEPT ![c] = @ \cup {k}]
    /\ todo' = [todo EXCEPT ![c] = @ \ {k}]
    /\ UNCHANGED <<row, op, outcome, read>>

\* The rows the transaction wrote become visible together.
Commit(c) ==
    /\ Writing(c) /\ todo[c] = {}
    /\ row' = [k \in Keys |-> IF k \in holds[c] THEN Result(op[c].kind, c, read[c])
                                                ELSE row[k]]
    /\ holds' = [holds EXCEPT ![c] = {}]
    /\ outcome' = [outcome EXCEPT ![c] = "applied"]
    /\ UNCHANGED <<op, read, todo>>

\* The updater or fn throws, the connection breaks, or Postgres picks the
\* transaction to end a deadlock: Kysely rolls back and the call rejects.
Abort(c) ==
    /\ Active(c)
    /\ holds' = [holds EXCEPT ![c] = {}]
    /\ outcome' = [outcome EXCEPT ![c] = "failed"]
    /\ UNCHANGED <<row, op, read, todo>>

\* Everything c could do next waits for a lock.
Stuck(c) ==
    /\ Active(c) /\ todo[c] # {}
    /\ \A k \in todo[c] :
          /\ ~Unlocked(c, k)
          /\ row[k] = Absent => Writing(c) /\ op[c].kind # "remove"

\* c waits in a cycle: it is in a set of calls that wait only for each other.
Deadlocked(c) ==
    \E S \in SUBSET Callers :
        /\ c \in S
        /\ \A d \in S :
              Stuck(d) /\ \A k \in todo[d] : \E e \in S \ {d} : k \in holds[e]

----------------------------------------------------------------------------
Statement(c) ==
    \/ \E k \in Keys : SelectForUpdate(c, k) \/ Upsert(c, k) \/ Delete(c, k)
    \/ Commit(c)

PNext ==
    \E c \in Callers :
        \/ \E kind \in Kinds, K \in SUBSET Keys : PBegin(c, kind, K)
        \/ Statement(c)
        \/ Abort(c)

PSpec == PInit /\ [][PNext]_pvars

\* Postgres executes a statement that need not wait, and ends deadlocks.
PFairness ==
    \A c \in Callers :
        /\ WF_pvars(Statement(c))
        /\ WF_pvars(Deadlocked(c) /\ Abort(c))

PLiveSpec == PSpec /\ PFairness

----------------------------------------------------------------------------
\* Two open transactions never hold the same row.
LockExclusive == \A c, d \in Callers : c # d => holds[c] \cap holds[d] = {}

\* A call that rejected left no trace on any key, however far it had come.
AllOrNothing == \A c \in Callers, k \in Keys : outcome[c] = "failed" => c \notin row[k]

Commits(c) == outcome[c] # "applied" /\ outcome'[c] = "applied"

\* atomicUpdate computes the new value from the very value it replaces
\* (PRD:335, "atomic operation"), also when it creates the row.
UpdateAppliesToLatest ==
    [][\A c \in Callers : Commits(c) /\ op[c].kind = "update"
           => \A k \in op[c].keys : row'[k] = row[k] \cup {c}]_pvars

\* It does so whenever its SELECT found the row: updates are lost only by
\* racing to create it.
LossOnlyOnCreation ==
    [][\A c \in Callers : Commits(c) /\ op[c].kind = "update" /\ read[c] # Absent
           => \A k \in op[c].keys : row'[k] = row[k] \cup {c}]_pvars

\* What a call does to a row that exists is done under its lock, or not at all.
UpdatesAtomic == []LockExclusive /\ []AllOrNothing /\ LossOnlyOnCreation

\* Every call is answered: a lock queue or a deadlock between batchSet calls
\* that lock the same keys in different orders does not last.
CallsSettle == \A c \in Callers : []<>~Active(c)

\* On the rows that exist and are not deleted the backend keeps the contract.
Contract == INSTANCE StorageContract
    WITH Keys    <- Stable,
         row     <- [k \in Stable |-> row[k]],
         op      <- [c \in Callers |-> [kind |-> op[c].kind, keys |-> op[c].keys \cap Stable]],
         outcome <- [c \in Callers |-> IF Active(c) THEN "open" ELSE outcome[c]]

ImplementsContract == Contract!ContractSpec
=============================================================================
