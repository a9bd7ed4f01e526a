--------------------------- MODULE MemoryStorage ---------------------------
(***************************************************************************)
(* MemoryStorageBackend (src/kernel-impl/memory/storage.ts) under           *)
(* concurrent callers of one process.  A call runs up to its next await     *)
(* without interruption; the calls interleave at the awaits: between the    *)
(* get and the set of atomicUpdate, between the entries of batchSet, and    *)
(* between the operations of a transaction, which runs inline.  Row values  *)
(* are those of StorageContract.                                            *)
(***************************************************************************)
EXTENDS StorageContract

VARIABLES
    read,       \* what the get of atomicUpdate returned to the call
    todo,       \* the keys the call has still to write
    overlap     \* auxiliary: calls open, on a common key, while this one was

\* outcome and op are the contract's; outcome says how far the call has come.
mvars == <<row, op, outcome, read, todo, overlap>>

Outcomes == {"idle", "begun", "selected", "applied", "failed"}

MTypeOK ==
    /\ row \in [Keys -> Rows]
    /\ op \in [Callers -> Ops]
    /\ outcome \in [Callers -> Outcomes]
    /\ read \in [Callers -> Rows]
    /\ todo \in [Callers -> SUBSET Keys]
    /\ overlap \in [Callers -> SUBSET Callers]
    /\ \A c \in Callers : todo[c] \subseteq op[c].keys /\ c \notin overlap[c]

MInit ==
    /\ row \in [Keys -> {Absent, {Seed}}]
    /\ op = [c \in Callers |-> [kind |-> "set", keys |-> {}]]
    /\ outcome = [c \in Callers |-> "idle"]
    /\ read = [c \in Callers |-> Absent]
    /\ todo = [c \in Callers |-> {}]
    /\ overlap = [c \in Callers |-> {}]

----------------------------------------------------------------------------
Active(c) == outcome[c] \in {"begun", "selected"}

Contenders(K) == {d \in Callers : Active(d) /\ op[d].keys \cap K # {}}

\* The caller makes the call; atomicUpdate and delete name one key.
MBegin(c, kind, K) ==
    /\ outcome[c] = "idle"
    /\ K # {}
    /\ kind # "set" => \E k \in K : K = {k}
    /\ op' = [op EXCEPT ![c] = [kind |-> kind, keys |-> K]]
    /\ todo' = [todo EXCEPT ![c] = K]
    /\ outcome' = [outcome EXCEPT ![c] = "begun"]
    /\ overlap' = [d \in Callers |-> IF d = c THEN Contenders(K)
                                   ELSE IF d \in Contenders(K) THEN overlap[d] \cup {c}
                                   ELSE overlap[d]]
    /\ UNCHANGED <<row, read>>

\* atomicUpdate up to its first await: get.
ReadCurrent(c, k) ==
    /\ outcome[c] = "begun" /\ op[c].kind = "update" /\ k \in todo[c]
    /\ read' = [read EXCEPT ![c] = row[k]]
    /\ outcome' = [outcome EXCEPT ![c] = "selected"]
    /\ UNCHANGED <<row, op, todo, overlap>>

\* Mutant: the updater is given nothing.
WriteFromNothing(c, k) ==
    /\ outcome[c] = "selected" /\ k \in todo[c]
    /\ row' = [row EXCEPT ![k] = Result("update", c, Absent)]
    /\ todo' = [todo EXCEPT ![c] = {}]
    /\ outcome' = [outcome EXCEPT ![c] = "applied"]
    /\ UNCHANGED <<op, read, overlap>>

\* atomicUpdate after it: the updater and set, on whatever the row is by now.
WriteUpdated(c, k) ==
    /\ outcome[c] = "selected" /\ k \in todo[c]
    /\ row' = [row EXCEPT ![k] = Result("update", c, read[c])]
    /\ todo' = [todo EXCEPT ![c] = {}]
    /\ outcome' = [outcome EXCEPT ![c] = "applied"]
    /\ UNCHANGED <<op, read, overlap>>

\* One set: the only one of set, one of batchSet or of a transaction.
SetOne(c, k) ==
    /\ outcome[c] = "begun" /\ op[c].kind = "set" /\ k \in todo[c]
    /\ row' = [row EXCEPT ![k] = Result("set", c, row[k])]
    /\ todo' = [todo EXCEPT ![c] = @ \ {k}]
    /\ outcome' = [outcome EXCEPT ![c] = IF todo[c] = {k} THEN "applied" ELSE "begun"]
    /\ UNCHANGED <<op, read, overlap>>

DeleteOne(c, k) ==
    /\ outcome[c] = "begun" /\ op[c].kind = "remove" /\ k \in todo[c]
    /\ row' = [row EXCEPT ![k] = Absent]
    /\ todo' = [todo EXCEPT ![c] = {}]
    /\ outcome' = [outcome EXCEPT ![c] = "applied"]
    /\ UNCHANGED <<op, read, overlap>>

\* The updater throws, or the fn of a transaction does: nothing is undone.
UpdaterThrows(c) ==
    /\ \/ outcome[c] = "selected"
       \/ outcome[c] = "begun" /\ op[c].kind = "set"
    /\ outcome' = [outcome EXCEPT ![c] = "failed"]
    /\ UNCHANGED <<row, op, read, todo, overlap>>

MNext ==
    \E c \in Callers :
        \/ \E kind \in Kinds, K \in SUBSET Keys : MBegin(c, kind, K)
        \/ \E k \in Keys :
              ReadCurrent(c, k) \/ WriteUpdated(c, k) \/ SetOne(c, k) \/ DeleteOne(c, k)
        \/ UpdaterThrows(c)

MSpec == MInit /\ [][MNext]_mvars

----------------------------------------------------------------------------
Commits(c) == outcome[c] # "applied" /\ outcome'[c] = "applied"

Exact(c) == \A k \in op[c].keys : row'[k] = row[k] \cup {c}

\* What callers may rely on: an update during which no other call on the key
\* was open is computed from the value it replaces.
LossOnlyUnderOverlap ==
    [][\A c \in Callers : Commits(c) /\ op[c].kind = "update" /\ overlap[c] = {}
           => Exact(c)]_mvars
=============================================================================
