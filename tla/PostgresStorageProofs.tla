----------------------- MODULE PostgresStorageProofs -----------------------
(***************************************************************************)
(* Proofs about PostgresStorage for any sets of keys and calls.             *)
(*                                                                          *)
(* IInv says what row locks buy: the holder of a row's lock is alone, a     *)
(* call that selected an existing row holds its lock and has read exactly   *)
(* what is still there, and only answered calls are part of any value.      *)
(* From it follow the invariants, the action property, and, for rows that   *)
(* exist and are not deleted, that the backend implements its contract.     *)
(***************************************************************************)
EXTENDS PostgresStorage, TLAPS

\* Only calls that committed are part of a value, stored or read.
Traces ==
    \A c \in Callers :
        /\ \A k \in Keys : c \in row[k] => outcome[c] = "applied"
        /\ \A d \in Callers : c \in read[d] => outcome[c] = "applied"

\* Shapes of the calls and of their transactions.
Shapes ==
    \A c \in Callers :
        /\ op[c].kind # "set" => op[c].keys = {} \/ \E k \in Keys : op[c].keys = {k}
        /\ outcome[c] = "selected" => op[c].kind = "update"
        /\ ~Active(c) => holds[c] = {}
        /\ Active(c) /\ op[c].kind # "remove" => op[c].keys \ todo[c] \subseteq holds[c]

\* What SELECT ... FOR UPDATE read of an existing row is still its value.
FreshRead ==
    \A c \in Callers :
        outcome[c] = "selected" /\ read[c] # Absent
            => \A k \in op[c].keys : k \in holds[c] /\ row[k] = read[c]

IInv == PTypeOK /\ LockExclusive /\ Traces /\ Shapes /\ FreshRead

\* The initial states satisfy the invariant: no call has begun.
LEMMA InitInv == PInit => IInv
  <1> SUFFICES ASSUME PInit PROVE IInv  OBVIOUS
  <1> USE PostgresAssumption
  <1>1. PTypeOK
    BY DEF PInit, PTypeOK, Rows, Ops, Kinds, Outcomes, Absent
  <1>2. LockExclusive
    BY DEF PInit, LockExclusive
  <1>3. Traces
    BY DEF PInit, Traces, Absent
  <1>4. Shapes
    BY DEF PInit, Shapes, Active
  <1>5. FreshRead
    BY DEF PInit, FreshRead
  <1> QED  BY <1>1, <1>2, <1>3, <1>4, <1>5 DEF IInv

\* A value computed by a call is a row.
LEMMA ResultType ==
  ASSUME NEW kind \in Kinds, NEW c \in Callers, NEW r \in Rows
  PROVE  Result(kind, c, r) \in Rows
  BY DEF Result, Rows, Absent

\* What a call's value incorporates: the call and what it read.
LEMMA ResultTraces ==
  ASSUME NEW kind \in Kinds, NEW c \in Callers, NEW r \in Rows, NEW d \in Result(kind, c, r)
  PROVE  d = c \/ d \in r
  BY DEF Result, Absent

\* Every step preserves the invariant; one step per action of PNext.
LEMMA StepInv == IInv /\ [PNext]_pvars => IInv'
  <1> SUFFICES ASSUME IInv, [PNext]_pvars PROVE IInv'  OBVIOUS
  <1> USE PostgresAssumption
  <1>0. PTypeOK /\ LockExclusive /\ Traces /\ Shapes /\ FreshRead
    BY DEF IInv
  <1>1. ASSUME NEW c \in Callers, NEW kind \in Kinds, NEW K \in SUBSET Keys, PBegin(c, kind, K)
       PROVE  IInv'
    <2>1. PTypeOK'
      <3>1. [kind |-> kind, keys |-> K] \in Ops
        BY <1>1 DEF Ops
      <3>2. op' \in [Callers -> Ops]
        BY <1>0, <1>1, <3>1 DEF PTypeOK, PBegin
      <3>3. outcome' \in [Callers -> Outcomes] /\ todo' \in [Callers -> SUBSET Keys]
        BY <1>0, <1>1 DEF PTypeOK, PBegin, Outcomes
      <3>4. holds[c] = {}
        BY <1>0, <1>1 DEF PBegin, Shapes, Active
      <3>5. \A d \in Callers : todo'[d] \subseteq op'[d].keys /\ holds'[d] \subseteq op'[d].keys
        BY <1>0, <1>1, <3>4 DEF PTypeOK, PBegin
      <3> QED  BY <1>0, <1>1, <3>2, <3>3, <3>5 DEF PTypeOK, PBegin
    <2>2. LockExclusive'
      BY <1>0, <1>1 DEF PTypeOK, LockExclusive, PBegin, Unlocked
    <2>3. Traces'
      BY <1>0, <1>1 DEF PTypeOK, Traces, PBegin, Active, Writing, Absent
    <2>4. Shapes'
      BY <1>0, <1>1 DEF PTypeOK, Shapes, PBegin, Active, Writing, Ops
    <2>5. FreshRead'
      BY <1>0, <1>1 DEF PTypeOK, FreshRead, LockExclusive, Shapes, PBegin, Unlocked, Active, Writing, Absent
    <2> QED  BY <2>1, <2>2, <2>3, <2>4, <2>5 DEF IInv
  <1>2. ASSUME NEW c \in Callers, NEW k \in Keys, SelectForUpdate(c, k)
       PROVE  IInv'
    <2>1. PTypeOK'
      <3>1. row[k] \in Rows /\ todo[c] \subseteq op[c].keys
        BY <1>0, <1>2 DEF PTypeOK
      <3>2. outcome' \in [Callers -> Outcomes] /\ read' \in [Callers -> Rows]
        BY <1>0, <1>2, <3>1 DEF PTypeOK, SelectForUpdate, Outcomes
      <3>3. /\ holds' \in [Callers -> SUBSET Keys]
            /\ \A d \in Callers : holds'[d] \subseteq op[d].keys
        BY <1>0, <1>2, <3>1 DEF PTypeOK, SelectForUpdate
      <3> QED  BY <1>0, <1>2, <3>2, <3>3 DEF PTypeOK, SelectForUpdate
    <2>2. LockExclusive'
      BY <1>0, <1>2 DEF PTypeOK, LockExclusive, SelectForUpdate, Unlocked
    <2>3. Traces'
      BY <1>0, <1>2 DEF PTypeOK, Traces, SelectForUpdate, Active, Writing, Absent
    <2>4. Shapes'
      BY <1>0, <1>2 DEF PTypeOK, Shapes, SelectForUpdate, Active, Writing, Ops
    <2>5. FreshRead'
      BY <1>0, <1>2 DEF PTypeOK, FreshRead, LockExclusive, Shapes, SelectForUpdate, Unlocked, Active, Writing, Absent
    <2> QED  BY <2>1, <2>2, <2>3, <2>4, <2>5 DEF IInv
  <1>3. ASSUME NEW c \in Callers, NEW k \in Keys, Upsert(c, k)
       PROVE  IInv'
    <2>1. PTypeOK'
      BY <1>0, <1>3 DEF PTypeOK, Upsert, Ops, Rows, Kinds, Outcomes, Active, Writing, Absent
    <2>2. LockExclusive'
      BY <1>0, <1>3 DEF PTypeOK, LockExclusive, Upsert, Unlocked
    <2>3. Traces'
      BY <1>0, <1>3 DEF PTypeOK, Traces, Upsert, Active, Writing, Absent
    <2>4. Shapes'
      BY <1>0, <1>3 DEF PTypeOK, Shapes, Upsert, Active, Writing, Ops
    <2>5. FreshRead'
      BY <1>0, <1>3 DEF PTypeOK, FreshRead, LockExclusive, Shapes, Upsert, Unlocked, Active, Writing, Absent
    <2> QED  BY <2>1, <2>2, <2>3, <2>4, <2>5 DEF IInv
  <1>4. ASSUME NEW c \in Callers, NEW k \in Keys, Delete(c, k)
       PROVE  IInv'
    <2>1. PTypeOK'
      BY <1>0, <1>4 DEF PTypeOK, Delete, Ops, Rows, Kinds, Outcomes, Active, Writing, Absent
    <2>2. LockExclusive'
      BY <1>0, <1>4 DEF PTypeOK, LockExclusive, Delete, Unlocked
    <2>3. Traces'
      BY <1>0, <1>4 DEF PTypeOK, Traces, Delete, Active, Writing, Absent
    <2>4. Shapes'
      BY <1>0, <1>4 DEF PTypeOK, Shapes, Delete, Active, Writing, Ops
    <2>5. FreshRead'
      BY <1>0, <1>4 DEF PTypeOK, FreshRead, LockExclusive, Shapes, Delete, Unlocked, Active, Writing, Absent
    <2> QED  BY <2>1, <2>2, <2>3, <2>4, <2>5 DEF IInv
  <1>5. ASSUME NEW c \in Callers, Commit(c)
       PROVE  IInv'
    <2>1. PTypeOK'
      BY <1>0, <1>5, ResultType DEF PTypeOK, Commit, Ops, Rows, Kinds, Outcomes, Active, Writing, Absent
    <2>2. LockExclusive'
      BY <1>0, <1>5 DEF PTypeOK, LockExclusive, Commit, Unlocked
    <2>3. Traces'
      <3>1. op[c].kind \in Kinds /\ read[c] \in Rows
        BY <1>0, <1>5 DEF PTypeOK, Ops
      <3>2. ASSUME NEW d \in Callers, NEW k \in Keys, d \in row'[k]
            PROVE  outcome'[d] = "applied"
        <4>1. outcome'[d] = IF d = c THEN "applied" ELSE outcome[d]
          BY <1>0, <1>5 DEF PTypeOK, Commit
        <4>2. d = c \/ d \in read[c] \/ d \in row[k]
          BY <1>5, <3>1, <3>2, ResultTraces DEF Commit
        <4> QED  BY <1>0, <4>1, <4>2 DEF Traces
      <3>3. ASSUME NEW d \in Callers, NEW e \in Callers, d \in read'[e]
            PROVE  outcome'[d] = "applied"
        BY <1>0, <1>5, <3>3 DEF PTypeOK, Traces, Commit
      <3> QED  BY <3>2, <3>3 DEF Traces
    <2>4. Shapes'
      BY <1>0, <1>5 DEF PTypeOK, Shapes, Commit, Active, Writing, Ops
    <2>5. FreshRead'
      BY <1>0, <1>5 DEF PTypeOK, FreshRead, LockExclusive, Shapes, Commit, Unlocked, Active, Writing, Absent
    <2> QED  BY <2>1, <2>2, <2>3, <2>4, <2>5 DEF IInv
  <1>6. ASSUME NEW c \in Callers, Abort(c)
       PROVE  IInv'
    <2>1. PTypeOK'
      BY <1>0, <1>6 DEF PTypeOK, Abort, Ops, Rows, Kinds, Outcomes, Active, Writing, Absent
    <2>2. LockExclusive'
      BY <1>0, <1>6 DEF PTypeOK, LockExclusive, Abort, Unlocked
    <2>3. Traces'
      BY <1>0, <1>6 DEF PTypeOK, Traces, Abort, Active, Writing, Absent
    <2>4. Shapes'
      BY <1>0, <1>6 DEF PTypeOK, Shapes, Abort, Active, Writing, Ops
    <2>5. FreshRead'
      BY <1>0, <1>6 DEF PTypeOK, FreshRead, LockExclusive, Shapes, Abort, Unlocked, Active, Writing, Absent
    <2> QED  BY <2>1, <2>2, <2>3, <2>4, <2>5 DEF IInv
  <1>7. CASE UNCHANGED pvars
    BY <1>0, <1>7 DEF pvars, IInv, PTypeOK, LockExclusive, Traces, Shapes, FreshRead, Active
  <1> QED  BY <1>1, <1>2, <1>3, <1>4, <1>5, <1>6, <1>7 DEF PNext, Statement

----------------------------------------------------------------------------
\* The invariant holds in every reachable state.
THEOREM Invariance == PSpec => []IInv
  <1> QED  BY InitInv, StepInv, PTL DEF PSpec

\* storage.ts: rows, locks and the pending writes of a transaction keep their
\* types, and a transaction only touches the keys of its call.
THEOREM TypeCorrect == PSpec => []PTypeOK
  <1>1. IInv => PTypeOK  BY DEF IInv
  <1> QED  BY Invariance, <1>1, PTL

\* Two open transactions never hold the same row.
THEOREM LockExclusiveHolds == PSpec => []LockExclusive
  <1>1. IInv => LockExclusive  BY DEF IInv
  <1> QED  BY Invariance, <1>1, PTL

\* A call that rejected (updater or fn threw, deadlock, lost connection) left
\* no trace on any row.
THEOREM AllOrNothingHolds == PSpec => []AllOrNothing
  <1>1. IInv => AllOrNothing  BY DEF IInv, Traces, AllOrNothing
  <1> QED  BY Invariance, <1>1, PTL

\* A committing update that found its row replaces exactly what it read.
LEMMA CommitExact ==
  ASSUME IInv, NEW c \in Callers, Commit(c), op[c].kind = "update", read[c] # Absent,
         NEW k \in op[c].keys
  PROVE  row'[k] = row[k] \cup {c}
  <1>1. outcome[c] = "selected" /\ k \in Keys
    BY DEF IInv, PTypeOK, Ops, Commit, Writing
  <1>2. k \in holds[c] /\ row[k] = read[c]
    BY <1>1 DEF IInv, FreshRead
  <1> QED  BY <1>1, <1>2 DEF Commit, Result

\* atomicUpdate loses no update once its SELECT found the row.
THEOREM LossOnlyOnCreationHolds == PSpec => LossOnlyOnCreation
  <1>1. ASSUME IInv, [PNext]_pvars, NEW c \in Callers, Commits(c),
               op[c].kind = "update", read[c] # Absent, NEW k \in op[c].keys
        PROVE  row'[k] = row[k] \cup {c}
    <2>1. Commit(c)
      BY <1>1 DEF PNext, pvars, Commits, Statement, PBegin, SelectForUpdate, Upsert,
                  Delete, Commit, Abort, IInv, PTypeOK
    <2> QED  BY <1>1, <2>1, CommitExact
  <1>2. IInv /\ [PNext]_pvars
          => [\A c \in Callers : Commits(c) /\ op[c].kind = "update" /\ read[c] # Absent
                => \A k \in op[c].keys : row'[k] = row[k] \cup {c}]_pvars
    BY <1>1
  <1> QED  BY Invariance, <1>2, PTL DEF PSpec, LossOnlyOnCreation

----------------------------------------------------------------------------
\* The rows of stable keys go on existing: no call deletes them, and every
\* SELECT of one finds it.
Populated ==
    /\ \A k \in Stable : row[k] # Absent
    /\ \A c \in Callers, k \in Stable : k \in op[c].keys => op[c].kind # "remove"
    /\ \A c \in Callers, k \in Stable :
          k \in op[c].keys /\ outcome[c] = "selected" => read[c] # Absent

LEMMA PopulatedInit == PInit => Populated
  <1> SUFFICES ASSUME PInit PROVE Populated  OBVIOUS
  <1>1. ASSUME NEW k \in Stable PROVE row[k] # Absent
    BY PostgresAssumption, <1>1 DEF PInit, Absent
  <1>2. \A c \in Callers : op[c].keys = {}
    BY DEF PInit
  <1> QED  BY <1>1, <1>2 DEF Populated

LEMMA PopulatedStep ==
  ASSUME IInv, Populated, [PNext]_pvars
  PROVE  Populated'
  <1> USE PostgresAssumption DEF Populated
  <1>0. PTypeOK
    BY DEF IInv
  <1>1. ASSUME NEW c \in Callers, NEW kind \in Kinds, NEW K \in SUBSET Keys, PBegin(c, kind, K)
        PROVE  Populated'
    BY <1>0, <1>1 DEF PTypeOK, PBegin
  <1>2. ASSUME NEW c \in Callers, NEW k \in Keys, SelectForUpdate(c, k)
        PROVE  Populated'
    <2>1. op[c].keys = {k}
      BY <1>0, <1>2 DEF PTypeOK, SelectForUpdate, IInv, Shapes
    <2> QED  BY <1>0, <1>2, <2>1 DEF PTypeOK, SelectForUpdate
  <1>3. ASSUME NEW c \in Callers, NEW k \in Keys, Upsert(c, k) \/ Delete(c, k)
        PROVE  Populated'
    BY <1>0, <1>3 DEF PTypeOK, Upsert, Delete
  <1>4. ASSUME NEW c \in Callers, Commit(c)
        PROVE  Populated'
    <2>1. ASSUME NEW k \in Stable, k \in holds[c]
          PROVE  Result(op[c].kind, c, read[c]) # Absent
      BY <1>0, <1>4, <2>1 DEF PTypeOK, Ops, Kinds, Result, Absent
    <2> QED  BY <1>0, <1>4, <2>1 DEF PTypeOK, Commit
  <1>5. ASSUME NEW c \in Callers, Abort(c)
        PROVE  Populated'
    BY <1>0, <1>5 DEF PTypeOK, Abort
  <1>6. CASE UNCHANGED pvars
    BY <1>6 DEF pvars
  <1> QED  BY <1>1, <1>2, <1>3, <1>4, <1>5, <1>6 DEF PNext, Statement

\* A committing transaction holds the locks of all its stable keys, and gives
\* each the value the contract asks for.
LEMMA CommitApplies ==
  ASSUME IInv, Populated, NEW c \in Callers, Commit(c), NEW k \in Stable
  PROVE  row'[k] = IF k \in op[c].keys THEN Result(op[c].kind, c, row[k]) ELSE row[k]
  <1>1. op[c] \in Ops /\ holds[c] \subseteq op[c].keys /\ k \in Keys
    BY PostgresAssumption DEF IInv, PTypeOK
  <1>2. k \in holds[c] <=> k \in op[c].keys
    BY <1>1 DEF IInv, Shapes, Commit, Writing, Active, Populated
  <1>3. ASSUME k \in op[c].keys
        PROVE  Result(op[c].kind, c, read[c]) = Result(op[c].kind, c, row[k])
    BY <1>1, <1>3 DEF IInv, FreshRead, Populated, Commit, Writing, Result
  <1> QED  BY <1>1, <1>2, <1>3 DEF Commit

\* PostgresStorage's steps are, on the stable keys, steps of StorageContract.
LEMMA RefinementStep ==
  ASSUME IInv, Populated, [PNext]_pvars
  PROVE  [Contract!ContractNext]_(Contract!cvars)
  <1> DEFINE srow == [k \in Stable |-> row[k]]
             sop  == [c \in Callers |-> [kind |-> op[c].kind, keys |-> op[c].keys \cap Stable]]
             oc   == [c \in Callers |-> IF Active(c) THEN "open" ELSE outcome[c]]
  <1>0. PTypeOK
    BY DEF IInv
  <1>1. ASSUME NEW c \in Callers, NEW kind \in Kinds, NEW K \in SUBSET Keys, PBegin(c, kind, K)
        PROVE  Contract!ContractBegin(c)
    <2>1. [kind |-> kind, keys |-> K \cap Stable] \in Contract!Ops
      BY DEF Contract!Ops, Contract!Kinds, Kinds
    <2>2. oc[c] = "idle" /\ oc' = [oc EXCEPT ![c] = "open"]
      BY <1>0, <1>1 DEF PTypeOK, PBegin, Active
    <2>3. srow' = srow
      BY <1>1 DEF PBegin
    <2>4. sop' = [sop EXCEPT ![c] = [kind |-> kind, keys |-> K \cap Stable]]
      BY <1>0, <1>1 DEF PTypeOK, PBegin
    <2> QED  BY <2>1, <2>2, <2>3, <2>4 DEF Contract!ContractBegin
  <1>2. ASSUME NEW c \in Callers, NEW k \in Keys, SelectForUpdate(c, k) \/ Upsert(c, k) \/ Delete(c, k)
        PROVE  UNCHANGED Contract!cvars
    <2>1. oc' = oc /\ row' = row /\ op' = op
      BY <1>0, <1>2 DEF PTypeOK, SelectForUpdate, Upsert, Delete, Active
    <2> QED  BY <2>1 DEF Contract!cvars
  <1>3. ASSUME NEW c \in Callers, Commit(c)
        PROVE  Contract!ContractApply(c)
    <2>1. oc[c] = "open" /\ oc' = [oc EXCEPT ![c] = "applied"]
      BY <1>0, <1>3 DEF PTypeOK, Commit, Writing, Active
    <2>2. srow' = [k \in Stable |-> IF k \in sop[c].keys
                                    THEN Contract!Result(sop[c].kind, c, srow[k]) ELSE srow[k]]
      BY <1>3, CommitApplies DEF Contract!Result, Result, Contract!Absent, Absent
    <2>3. sop' = sop
      BY <1>3 DEF Commit
    <2> QED  BY <2>1, <2>2, <2>3 DEF Contract!ContractApply
  <1>4. ASSUME NEW c \in Callers, Abort(c)
        PROVE  Contract!ContractFail(c)
    <2>1. oc[c] = "open" /\ oc' = [oc EXCEPT ![c] = "failed"]
      BY <1>0, <1>4 DEF PTypeOK, Abort, Active
    <2>2. srow' = srow /\ sop' = sop
      BY <1>4 DEF Abort
    <2> QED  BY <2>1, <2>2 DEF Contract!ContractFail
  <1>5. CASE UNCHANGED pvars
    BY <1>5 DEF pvars, Contract!cvars, Active
  <1> QED  BY <1>1, <1>2, <1>3, <1>4, <1>5 DEF PNext, Statement, Contract!ContractNext

LEMMA RefinementInit == PInit => Contract!ContractInit
  <1> SUFFICES ASSUME PInit PROVE Contract!ContractInit  OBVIOUS
  <1>1. PTypeOK
    BY InitInv DEF IInv
  <1>2. [k \in Stable |-> row[k]] \in [Stable -> Contract!Rows]
    BY <1>1, PostgresAssumption DEF PTypeOK, Contract!Rows, Rows
  <1>3. [c \in Callers |-> [kind |-> op[c].kind, keys |-> op[c].keys \cap Stable]]
           \in [Callers -> Contract!Ops]
    BY DEF PInit, Contract!Ops, Contract!Kinds
  <1>4. [c \in Callers |-> IF Active(c) THEN "open" ELSE outcome[c]] = [c \in Callers |-> "idle"]
    BY DEF PInit, Active
  <1> QED  BY <1>2, <1>3, <1>4 DEF Contract!ContractInit

\* On rows that exist and are not deleted the Postgres backend implements
\* StorageContract: atomicUpdate, set, batchSet and transaction are atomic.
THEOREM Refinement == PSpec => ImplementsContract
  <1>1. IInv /\ Populated /\ [PNext]_pvars => Populated'
    BY PopulatedStep
  <1>2. IInv /\ Populated /\ [PNext]_pvars => [Contract!ContractNext]_(Contract!cvars)
    BY RefinementStep
  <1> QED  BY Invariance, RefinementInit, PopulatedInit, <1>1, <1>2, PTL
           DEF PSpec, ImplementsContract, Contract!ContractSpec

\* Locks exclude, rejected calls leave nothing, and updates of a row that exists
\* lose nothing.
THEOREM UpdatesAtomicHolds == PSpec => UpdatesAtomic
  BY LockExclusiveHolds, AllOrNothingHolds, LossOnlyOnCreationHolds, PTL DEF UpdatesAtomic
=============================================================================
