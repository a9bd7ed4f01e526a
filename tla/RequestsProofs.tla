--------------------------- MODULE RequestsProofs ---------------------------
(***************************************************************************)
(* Proofs about what serves a request: ApiKeys, RbacPolicies, Caches,       *)
(* MemoryStorage and RequestPipeline, each for any calls, keys, policies,   *)
(* requests and bounds, about the books of TokenQuota, whose other proofs   *)
(* are in TokenQuotaProofs, and about the suite of them all.  What a stack  *)
(* must be for the pipeline's theorems is StacksFit.                        *)
(***************************************************************************)
EXTENDS MCRequests, TokenQuotaProofs, FiniteSetTheorems

----------------------------------------------------------------------------
(* Finite sets.                                                             *)

\* A family of subsets of a finite set has a smallest one: the induction on finite
\* sets, as the existence of a least counterexample.
LEMMA LeastSubset ==
  ASSUME NEW S, IsFiniteSet(S), NEW F, \A X \in F : X \subseteq S, F # {}
  PROVE  \E X \in F : \A Y \in F : Y \subseteq X => Y = X
  <1>1. FiniteSubsetsOf(S) = SUBSET S
    BY FS_FiniteSubsetsOfFinite
  <1>2. IsWellFoundedOn(StrictSubsetOrdering(S), SUBSET S)
    BY <1>1, FS_StrictSubsetOrderingWellFounded
  <1>3. \E X \in F : \A Y \in F : <<Y, X>> \notin StrictSubsetOrdering(S)
    <2> HIDE DEF StrictSubsetOrdering, IsWellFoundedOn
    <2> QED  BY <1>2, WFMin
  <1> QED  BY <1>3 DEF StrictSubsetOrdering

LEMMA FiniteMax ==
  ASSUME NEW S, S \subseteq Int, IsFiniteSet(S), S # {}
  PROVE  Max(S) \in S /\ \A x \in S : x <= Max(S)
  <1> DEFINE Bounded(X) == \E m \in X : \A x \in X : x <= m
             F == {X \in SUBSET S : X # {} /\ ~Bounded(X)}
  <1>1. CASE F = {}
    <2>1. Bounded(S)
      BY <1>1
    <2> QED  BY <2>1 DEF Max
  <1>2. CASE F # {}
    <2>1. PICK X \in F : \A Y \in F : Y \subseteq X => Y = X
      <3>1. \A X \in F : X \subseteq S
        OBVIOUS
      <3> HIDE DEF F
      <3> QED  BY <1>2, <3>1, LeastSubset
    <2>2. PICK x \in X : TRUE
      BY <2>1
    <2>3. X \subseteq Int /\ ~Bounded(X)
      BY <2>1
    <2>4. CASE X \ {x} = {}
      BY <2>2, <2>3, <2>4
    <2>5. CASE X \ {x} # {}
      <3>1. X \ {x} \notin F
        BY <2>1, <2>2
      <3>2. Bounded(X \ {x})
        BY <2>1, <2>5, <3>1
      <3>3. PICK m \in X \ {x} : \A y \in X \ {x} : y <= m
        BY <3>2
      <3>4. CASE x <= m
        BY <2>3, <3>3, <3>4
      <3>5. CASE ~(x <= m)
        <4>1. \A y \in X : y <= x
          BY <2>2, <2>3, <3>3, <3>5
        <4> QED  BY <2>2, <2>3, <4>1
      <3> QED  BY <3>4, <3>5
    <2> QED  BY <2>4, <2>5
  <1> QED  BY <1>1, <1>2

----------------------------------------------------------------------------
(* API keys.                                                                *)

\* A key that was reported revoked is, and is going to be: only a touch that was
\* under way when it was revoked writes over it.
RevokedStays ==
    /\ \A k \in told \ collided : keyRow[k] = "revoked"
    /\ \A c \in KeyCalls : keyCall[c].at = "write" =>
          ~atomic /\ (keyRow[Key(c)] = "revoked" => Key(c) \in collided)

\* How far a call has come tells what it may rely on.
CallsFit ==
    \A c \in KeyCalls :
        /\ keyCall[c].at \in {"row", "touch", "write", "valid"} => keyCall[c].op = "validate"
        /\ keyCall[c].at = "index" => keyRow[Key(c)] \in {"live", "revoked"}
        /\ keyCall[c].at = "create" => keyCall[c].op = "rotate" /\ Key(c) \in told
        /\ keyCall[c].late =>
              /\ keyCall[c].op = "validate" /\ Key(c) \in told \ collided
              /\ keyCall[c].at \in {"row", "unknown", "refused", "threw"}

ReplacedTold == \A k \in KeyIds : predecessor[k] # NoKeyId => predecessor[k] \in told

KeysInv == KeysTypeOK /\ RevokedStays /\ CallsFit /\ ReplacedTold

LEMMA KeysInitInv == KeysInit => KeysInv
  <1> SUFFICES ASSUME KeysInit PROVE KeysInv
    OBVIOUS
  <1>1. (CHOOSE k \in KeyIds : TRUE) \in KeyIds
    BY KeysAssumption
  <1>2. \A c \in KeyCalls : keyCall[c].at = "idle" /\ ~keyCall[c].late
    BY DEF KeysInit
  <1>3. keyCall \in [KeyCalls -> KeyCall]
    <2>1. PICK k \in KeyIds :
             keyCall \in [KeyCalls -> {[op |-> "create", id |-> k, at |-> "idle", late |-> FALSE]}]
      BY <1>1 DEF KeysInit
    <2>2. [op |-> "create", id |-> k, at |-> "idle", late |-> FALSE] \in KeyCall
      BY DEF KeyCall, KeyPlaces
    <2> QED  BY <2>1, <2>2
  <1> QED  BY <1>2, <1>3 DEF KeysInit, KeysInv, KeysTypeOK, RevokedStays, CallsFit, ReplacedTold

\* A call that goes to its next place, and the rows stay.
LEMMA KeyCallGoes ==
  ASSUME KeysInv, NEW c \in KeyCalls, NEW at \in KeyPlaces \cup Answers, Goes(c, at),
         told \subseteq told', told' \subseteq KeyIds,
         \A k \in told' \ told : keyRow[k] = "revoked",
         UNCHANGED <<atomic, keyRow, expired, predecessor, collided>>,
         indexed' \in SUBSET {k \in KeyIds : keyRow[k] \in {"live", "revoked"}},
         at \in {"row", "touch", "write", "valid"} => keyCall[c].op = "validate",
         at = "index" => keyRow[Key(c)] \in {"live", "revoked"},
         at = "create" => keyCall[c].op = "rotate" /\ Key(c) \in told',
         at = "write" => ~atomic /\ (keyRow[Key(c)] = "revoked" => Key(c) \in collided),
         keyCall[c].late => at \in {"row", "unknown", "refused", "threw"}
  PROVE  KeysInv'
  <1> USE DEF KeysInv
  <1>1. /\ keyCall' \in [KeyCalls -> KeyCall] /\ keyCall'[c].at = at
        /\ keyCall'[c].op = keyCall[c].op /\ keyCall'[c].id = keyCall[c].id
        /\ keyCall'[c].late = keyCall[c].late
        /\ \A d \in KeyCalls : d # c => keyCall'[d] = keyCall[d]
    BY DEF Goes, KeysTypeOK, KeyCall
  <1>2. KeysTypeOK'
    BY <1>1 DEF KeysTypeOK
  <1>3. RevokedStays'
    BY <1>1 DEF RevokedStays, Key
  <1>4. CallsFit'
    BY <1>1 DEF CallsFit, Key
  <1>5. ReplacedTold'
    BY DEF ReplacedTold
  <1> QED  BY <1>2, <1>3, <1>4, <1>5

\* A call that begins.
LEMMA KeyCallBegins ==
  ASSUME KeysInv, NEW c \in KeyCalls, NEW what \in {"create", "validate", "revoke", "rotate"},
         NEW k \in KeyIds, NEW at \in {"index", "row", "unknown", "revoke", "threw"},
         AtStorage(c, what, k, at), UNCHANGED <<atomic, indexed, expired, predecessor, told, collided>>,
         at = "row" => what = "validate", what = "validate" => at \in {"row", "unknown"},
         at = "index" => keyRow'[k] \in {"live", "revoked"},
         keyRow' \in [KeyIds -> {"none", "live", "revoked", "route", "routeRevoked"}],
         \A j \in KeyIds : keyRow'[j] = keyRow[j] \/ (keyRow[j] = "none" /\ keyRow'[j] = "live")
  PROVE  KeysInv'
  <1> USE DEF KeysInv
  <1>1. /\ keyCall' \in [KeyCalls -> KeyCall]
        /\ keyCall'[c] = [op |-> what, id |-> k, at |-> at,
                          late |-> what = "validate" /\ k \in told \ collided]
        /\ \A d \in KeyCalls : d # c => keyCall'[d] = keyCall[d]
    BY DEF AtStorage, KeysTypeOK, KeyCall, KeyPlaces, Answers
  <1>2. KeysTypeOK'
    BY <1>1 DEF KeysTypeOK
  <1>3. RevokedStays'
    BY <1>1 DEF RevokedStays, Key, KeysTypeOK, KeyCall
  <1>4. CallsFit'
    BY <1>1 DEF CallsFit, Key, KeysTypeOK, KeyCall
  <1>5. ReplacedTold'
    BY DEF ReplacedTold
  <1> QED  BY <1>2, <1>3, <1>4, <1>5

LEMMA KeysStepInv == KeysInv /\ [KeysNext]_keyvars => KeysInv'
  <1> SUFFICES ASSUME KeysInv, [KeysNext]_keyvars PROVE KeysInv'
    OBVIOUS
  <1> USE DEF KeysInv
  <1>0. /\ keyCall \in [KeyCalls -> KeyCall] /\ told \subseteq KeyIds
        /\ indexed \subseteq {k \in KeyIds : keyRow[k] \in {"live", "revoked"}}
        /\ keyRow \in [KeyIds -> {"none", "live", "revoked", "route", "routeRevoked"}]
        /\ \A c \in KeyCalls : Key(c) \in KeyIds
    BY DEF KeysTypeOK, KeyCall, Key
  <1>1. CASE UNCHANGED keyvars
    BY <1>1 DEF keyvars, KeysTypeOK, RevokedStays, CallsFit, ReplacedTold, Key
  <1>2. ASSUME NEW c \in KeyCalls, NEW k \in KeyIds,
               Create(c, k) \/ Validate(c, k) \/ Revoke(c, k) \/ Rotate(c, k)
        PROVE  KeysInv'
    <2>1. CASE Create(c, k)
      <3>1. /\ keyRow'[k] = "live" /\ keyRow' = [keyRow EXCEPT ![k] = "live"] /\ keyRow[k] = "none"
            /\ AtStorage(c, "create", k, "index")
            /\ UNCHANGED <<atomic, indexed, expired, predecessor, told, collided>>
        BY <1>0, <2>1 DEF Create, AddRow
      <3> QED  BY <1>0, <3>1, KeyCallBegins
    <2>2. CASE Validate(c, k)
      <3>1. PICK at \in {"row", "unknown"} : AtStorage(c, "validate", k, at)
        BY <2>2 DEF Validate
      <3> QED  BY <1>0, <2>2, <3>1, KeyCallBegins DEF Validate
    <2>3. CASE Revoke(c, k)
      BY <1>0, <2>3, KeyCallBegins DEF Revoke
    <2>4. CASE Rotate(c, k)
      <3>1. PICK at \in {"revoke", "threw"} : AtStorage(c, "rotate", k, at)
        BY <2>4 DEF Rotate
      <3> QED  BY <1>0, <2>4, <3>1, KeyCallBegins DEF Rotate
    <2> QED  BY <1>2, <2>1, <2>2, <2>3, <2>4
  <1>3. ASSUME NEW c \in KeyCalls, AddIndex(c) PROVE KeysInv'
    <2>1. keyRow[Key(c)] \in {"live", "revoked"} /\ ~keyCall[c].late
      BY <1>3 DEF AddIndex, CallsFit
    <2> QED  BY <1>0, <1>3, <2>1, KeyCallGoes DEF AddIndex, Answers
  <1>4. ASSUME NEW c \in KeyCalls, CheckRow(c) PROVE KeysInv'
    <2>1. PICK at \in {"refused", "touch"} :
             Goes(c, at) /\ (at = "touch" => keyRow[Key(c)] # "revoked")
      BY <1>4 DEF CheckRow
    <2>2. keyCall[c].op = "validate" /\ (keyCall[c].late => keyRow[Key(c)] = "revoked")
      BY <1>4 DEF CheckRow, CallsFit, RevokedStays
    <2> QED  BY <1>0, <1>4, <2>1, <2>2, KeyCallGoes DEF CheckRow, Answers, KeyPlaces
  <1>5. ASSUME NEW c \in KeyCalls, Touch(c) PROVE KeysInv'
    <2>1. PICK at \in {"valid", "write"} :
             Goes(c, at) /\ (at = "write" => keyRow[Key(c)] # "revoked" /\ ~atomic)
      BY <1>5 DEF Touch
    <2>2. keyCall[c].op = "validate" /\ ~keyCall[c].late
      BY <1>5 DEF Touch, CallsFit
    <2> QED  BY <1>0, <1>5, <2>1, <2>2, KeyCallGoes DEF Touch, Answers, KeyPlaces
  <1>6. ASSUME NEW c \in KeyCalls, WriteTouched(c) PROVE KeysInv'
    <2>1. /\ keyCall' \in [KeyCalls -> KeyCall] /\ keyCall'[c].at = "valid"
          /\ keyCall'[c].op = keyCall[c].op /\ keyCall'[c].id = keyCall[c].id
          /\ keyCall'[c].late = keyCall[c].late
          /\ \A d \in KeyCalls : d # c => keyCall'[d] = keyCall[d]
      BY <1>0, <1>6 DEF WriteTouched, Goes, KeyCall, Answers
    <2>2. /\ keyRow' = [keyRow EXCEPT ![Key(c)] = "live"]
          /\ keyRow[Key(c)] = "revoked" => Key(c) \in collided
          /\ keyCall[c].op = "validate" /\ ~keyCall[c].late
          /\ UNCHANGED <<atomic, indexed, expired, predecessor, told, collided>>
      BY <1>6 DEF WriteTouched, RevokedStays, CallsFit
    <2>3. KeysTypeOK'
      BY <1>0, <2>1, <2>2 DEF KeysTypeOK
    <2>4. RevokedStays'
      BY <1>0, <2>1, <2>2 DEF RevokedStays, Key
    <2>5. CallsFit'
      BY <1>0, <2>1, <2>2 DEF CallsFit, Key
    <2>6. ReplacedTold'
      BY <2>2 DEF ReplacedTold
    <2> QED  BY <2>3, <2>4, <2>5, <2>6
  <1>7. ASSUME NEW c \in KeyCalls, FindToRevoke(c) PROVE KeysInv'
    <2>1. ~keyCall[c].late
      BY <1>7 DEF FindToRevoke, CallsFit
    <2>2. CASE keyRow[Key(c)] = "revoked"
      <3>1. PICK at \in {"create", "true"} :
               Goes(c, at) /\ (at = "create" => keyCall[c].op = "rotate")
        BY <1>7, <2>2 DEF FindToRevoke, Revoked
      <3>2. told' = told \cup {Key(c)}
        BY <1>7, <2>2 DEF FindToRevoke, Revoked
      <3> QED  BY <1>0, <1>7, <2>1, <2>2, <3>1, <3>2, KeyCallGoes
               DEF FindToRevoke, Answers, KeyPlaces
    <2>3. CASE keyRow[Key(c)] # "revoked"
      <3>1. PICK at \in {"revoking", "false"} : Goes(c, at)
        BY <1>7, <2>3 DEF FindToRevoke
      <3>2. told' = told
        BY <1>7, <2>3 DEF FindToRevoke
      <3> QED  BY <1>0, <1>7, <2>1, <3>1, <3>2, KeyCallGoes DEF FindToRevoke, Answers, KeyPlaces
    <2> QED  BY <2>2, <2>3
  <1>8. ASSUME NEW c \in KeyCalls, SetRevoked(c) PROVE KeysInv'
    <2>1. PICK at \in {"create", "true"} :
             Goes(c, at) /\ (at = "create" => keyCall[c].op = "rotate")
      BY <1>8 DEF SetRevoked, Revoked
    <2>2. /\ keyCall' \in [KeyCalls -> KeyCall] /\ keyCall'[c].at = at
          /\ keyCall'[c].op = keyCall[c].op /\ keyCall'[c].id = keyCall[c].id
          /\ keyCall'[c].late = keyCall[c].late
          /\ \A d \in KeyCalls : d # c => keyCall'[d] = keyCall[d]
      BY <1>0, <2>1 DEF Goes, KeyCall, Answers, KeyPlaces
    <2>3. /\ keyRow' = [keyRow EXCEPT ![Key(c)] = "revoked"] /\ told' = told \cup {Key(c)}
          /\ ~keyCall[c].late
          /\ UNCHANGED <<atomic, indexed, expired, predecessor>>
      BY <1>8 DEF SetRevoked, Revoked, CallsFit
    <2>4. /\ collided' \subseteq KeyIds /\ collided \subseteq collided'
          /\ \A d \in KeyCalls : keyCall[d].at = "write" /\ Key(d) = Key(c) => Key(c) \in collided'
          /\ \A k \in collided' : k # Key(c) => k \in collided
      BY <1>0, <1>8 DEF SetRevoked, KeysTypeOK
    <2>5. Key(c) \in told \ collided => Key(c) \notin collided'
      BY <1>0, <1>8 DEF SetRevoked, RevokedStays
    <2>6. KeysTypeOK'
      BY <1>0, <2>2, <2>3, <2>4 DEF KeysTypeOK
    <2>7. RevokedStays'
      BY <1>0, <2>2, <2>3, <2>4 DEF RevokedStays, Key
    <2>8. CallsFit'
      BY <1>0, <2>1, <2>2, <2>3, <2>4, <2>5 DEF CallsFit, Key
    <2>9. ReplacedTold'
      BY <2>3 DEF ReplacedTold
    <2> QED  BY <2>6, <2>7, <2>8, <2>9
  <1>9. ASSUME NEW c \in KeyCalls, NEW k \in KeyIds, Reissue(c, k) PROVE KeysInv'
    <2>1. /\ keyCall' \in [KeyCalls -> KeyCall] /\ keyCall'[c].at = "index"
          /\ keyCall'[c].op = keyCall[c].op /\ keyCall'[c].id = k
          /\ keyCall'[c].late = keyCall[c].late
          /\ \A d \in KeyCalls : d # c => keyCall'[d] = keyCall[d]
      BY <1>0, <1>9 DEF Reissue, KeyCall, KeyPlaces
    <2>2. /\ keyRow' = [keyRow EXCEPT ![k] = "live"] /\ keyRow[k] = "none"
          /\ UNCHANGED <<atomic, indexed, told, collided>>
          /\ predecessor' = [predecessor EXCEPT ![k] = Key(c)] /\ Key(c) \in told
          /\ ~keyCall[c].late /\ expired' \subseteq KeyIds
      BY <1>9 DEF Reissue, AddRow, CallsFit, KeysTypeOK
    <2>3. KeysTypeOK'
      BY <1>0, <2>1, <2>2 DEF KeysTypeOK
    <2>4. RevokedStays'
      BY <1>0, <2>1, <2>2 DEF RevokedStays, Key
    <2>5. CallsFit'
      BY <1>0, <2>1, <2>2 DEF CallsFit, Key
    <2>6. ReplacedTold'
      BY <1>0, <2>2 DEF ReplacedTold, KeysTypeOK
    <2> QED  BY <2>3, <2>4, <2>5, <2>6
  <1>10. ASSUME NEW c \in KeyCalls, StorageThrows(c) PROVE KeysInv'
    BY <1>0, <1>10, KeyCallGoes DEF StorageThrows, Answers
  <1>11. ASSUME NEW k \in KeyIds, PostKey(k) \/ DeleteKey(k) \/ Expire(k) PROVE KeysInv'
    <2>1. /\ \A j \in KeyIds : keyRow'[j] = keyRow[j]
                               \/ {keyRow[j], keyRow'[j]} \cap {"live", "revoked"} = {}
          /\ keyRow' \in [KeyIds -> {"none", "live", "revoked", "route", "routeRevoked"}]
          /\ expired' \subseteq KeyIds
          /\ UNCHANGED <<atomic, indexed, keyCall, predecessor, told, collided>>
      BY <1>0, <1>11 DEF PostKey, DeleteKey, Expire, KeysTypeOK
    <2> QED  BY <1>0, <2>1 DEF KeysTypeOK, RevokedStays, CallsFit, ReplacedTold, Key
  <1> QED  BY <1>1, <1>2, <1>3, <1>4, <1>5, <1>6, <1>7, <1>8, <1>9, <1>10, <1>11 DEF KeysNext

LEMMA KeysInvariance == KeysSpec => []KeysInv
  BY KeysInitInv, KeysStepInv, PTL DEF KeysSpec

\* A validation that begins once a revoke or rotate of its key has returned is refused,
\* unless an update had overlapped the revocation.
THEOREM RevokedRefusedHolds == KeysSpec => []RevokedRefused
  <1>1. KeysInv => RevokedRefused
    BY DEF KeysInv, CallsFit, RevokedRefused
  <1> QED  BY <1>1, KeysInvariance, PTL

\* A rotated key and the key it replaces are not valid at a time.
THEOREM OldOutBeforeNewHolds == KeysSpec => []OldOutBeforeNew
  <1>1. KeysInv => OldOutBeforeNew
    BY DEF KeysInv, RevokedStays, ReplacedTold, OldOutBeforeNew
  <1> QED  BY <1>1, KeysInvariance, PTL

\* A revocation is undone only by an update of the memory backend that had read the row
\* before; on Postgres never.
THEOREM RevocationFinalHolds == KeysSpec => RevocationFinal
  <1>1. ASSUME KeysInv, KeysNext, NEW k \in KeyIds, keyRow[k] = "revoked", keyRow'[k] # "revoked"
        PROVE  ~atomic /\ k \in collided
    <2> USE <1>1 DEF KeysInv, KeysTypeOK
    <2>1. PICK c \in KeyCalls : WriteTouched(c)
      BY DEF KeysNext, AddIndex, CheckRow, Touch, FindToRevoke, SetRevoked, StorageThrows,
         Create, AddRow, Validate, Revoke, Rotate, Reissue, PostKey, DeleteKey, Expire
    <2> QED  BY <2>1 DEF WriteTouched, RevokedStays
  <1>2. KeysInv /\ [KeysNext]_keyvars =>
          [\A k \in KeyIds : keyRow[k] = "revoked" /\ keyRow'[k] # "revoked" =>
             ~atomic /\ k \in collided]_keyvars
    BY <1>1
  <1> QED  BY <1>2, KeysInvariance, PTL DEF KeysSpec, RevocationFinal

\* A key that has been revoked or replaced is out.
LEMMA RevocationHoldsAlways == KeysSpec => RevocationHolds
  BY RevokedRefusedHolds, OldOutBeforeNewHolds, RevocationFinalHolds, PTL DEF RevocationHolds

----------------------------------------------------------------------------
(* RBAC policies.                                                           *)

\* The policies of a list that are about a user.
About(ps, u) == {i \in DOMAIN ps : u \in AppliesTo[ps[i].id]}

LEMMA BuiltDecides ==
  ASSUME NEW ps \in Seq(Policy), NEW u \in Users
  PROVE  /\ About(ps, u) = {} => Built(ps, u) = "deny"
         /\ About(ps, u) # {} => \E i \in About(ps, u) : Built(ps, u) = ps[i].effect
         /\ Built(ps, u) \in Effects
  <1> DEFINE for == About(ps, u)
  <1>1. /\ Built(ps, u) = IF for = {} THEN "deny" ELSE ps[Max(for)].effect
        /\ for \subseteq 1 .. Len(ps)
    BY DEF Built, About
  <1>2. \A i \in for : ps[i] \in Policy /\ ps[i].effect \in Effects
    <2>1. \A i \in 1 .. Len(ps) : ps[i] \in Policy
      OBVIOUS
    <2> QED  BY <1>1, <2>1 DEF Policy
  <1>3. IsFiniteSet(for) /\ for \in SUBSET Int
    <2>1. IsFiniteSet(1 .. Len(ps))
      BY FS_Interval
    <2>2. for \in SUBSET (1 .. Len(ps)) /\ for \in SUBSET Int
      BY <1>1
    <2> HIDE DEF for
    <2> QED  BY <2>1, <2>2, FS_Subset
  <1> HIDE DEF for
  <1>4. for # {} => Max(for) \in for
    BY <1>3, FiniteMax
  <1> QED  BY <1>1, <1>2, <1>4 DEF Effects, for

\* Every stored policy has its own id.
LEMMA StoredFinite == ASSUME PolicyTypeOK PROVE IsFiniteSet(StoredPolicies)
  <1> DEFINE g == [p \in StoredPolicies |-> p.id]
  <1>1. \A p \in StoredPolicies : p \in Policy /\ p.effect = stored[p.id]
    BY DEF StoredPolicies
  <1>2. \A p, q \in StoredPolicies : p.id = q.id => p = q
    BY <1>1 DEF Policy
  <1>3. g \in Injection(StoredPolicies, PolicyIds)
    BY <1>1, <1>2 DEF Policy, Injection, IsInjective
  <1> QED  BY <1>3, PolicyAssumption, FS_Injection

\* The list that a new process starts with: the whole of what is stored, in some order,
\* if that fits on a page.
LEMMA InitializedList ==
  ASSUME PolicyTypeOK, Initialize
  PROVE  /\ policies' \in Seq(Policy)
         /\ Cardinality(StoredPolicies) <= PageLimit => ToSet(policies') = StoredPolicies
  <1>1. PICK page \in SUBSET StoredPolicies :
           /\ \/ page = StoredPolicies /\ Cardinality(page) <= PageLimit
              \/ Cardinality(page) = PageLimit
           /\ policies' \in SetToSeqs(page)
    BY DEF Initialize
  <1>2. /\ IsFiniteSet(StoredPolicies) /\ IsFiniteSet(page)
        /\ Cardinality(page) \in Nat /\ Cardinality(StoredPolicies) \in Nat
        /\ Cardinality(page) <= Cardinality(StoredPolicies)
        /\ Cardinality(page) = Cardinality(StoredPolicies) => page = StoredPolicies
    BY StoredFinite, FS_Subset, FS_CardinalityType
  <1>3. page \subseteq Policy
    BY DEF StoredPolicies
  <1> DEFINE n == Cardinality(page)
  <1>4. /\ policies' \in [1 .. n -> page]
        /\ \A i, j \in 1 .. n : i # j => policies'[i] # policies'[j]
    BY <1>1 DEF SetToSeqs
  <1>5. policies' \in Seq(Policy)
    <2> HIDE DEF n
    <2> QED  BY <1>2, <1>3, <1>4 DEF n
  <1>6. policies' \in Surjection(1 .. n, page)
    <2>1. IsFiniteSet(1 .. n) /\ Cardinality(1 .. n) = n
      BY <1>2, FS_Interval
    <2>2. policies' \in Injection(1 .. n, page)
      BY <1>4 DEF Injection, IsInjective
    <2> QED  BY <1>2, <2>1, <2>2, FS_Injection
  <1>7. ToSet(policies') = page
    BY <1>4, <1>6 DEF Surjection, ToSet
  <1>8. Cardinality(StoredPolicies) <= PageLimit => page = StoredPolicies
    BY <1>1, <1>2
  <1> QED  BY <1>5, <1>7, <1>8

LEMMA PolicyInvariance == PolicySpec => [](PolicyTypeOK /\ CacheAgrees)
  <1>1. PolicyInit => PolicyTypeOK /\ CacheAgrees
    BY PolicyAssumption DEF PolicyInit, PolicyTypeOK, CacheAgrees
  <1>2. ASSUME PolicyTypeOK, CacheAgrees, [PolicyNext]_policyvars
        PROVE  PolicyTypeOK' /\ CacheAgrees'
    <2>1. CASE UNCHANGED policyvars
      BY <1>2, <2>1 DEF policyvars, PolicyTypeOK, CacheAgrees
    <2>2. ASSUME NEW l \in Loaders, NEW ps \in Lists, LoadPolicies(l, ps)
          PROVE  PolicyTypeOK' /\ CacheAgrees'
      <3>1. ps \in Seq(Policy)
        <4>1. CASE ps = <<>>
          BY <4>1
        <4>2. ASSUME NEW p \in Policy, ps = <<p>> PROVE ps \in Seq(Policy)
          BY <4>2
        <4>3. ASSUME NEW p \in Policy, NEW q \in Policy, ps = <<p, q>> PROVE ps \in Seq(Policy)
          BY <4>3
        <4> QED  BY <4>1, <4>2, <4>3 DEF Lists
      <3>2. PolicyTypeOK'
        BY <1>2, <2>2, <3>1 DEF LoadPolicies, PolicyTypeOK
      <3>3. CacheAgrees'
        BY <2>2 DEF LoadPolicies, CacheAgrees
      <3> QED  BY <3>2, <3>3
    <2>3. ASSUME NEW l \in Loaders, StorePolicy(l) PROVE PolicyTypeOK' /\ CacheAgrees'
      <3>1. loading[l] \in Seq(Policy) /\ loading[l] # <<>>
        BY <1>2, <2>3 DEF StorePolicy, PolicyTypeOK
      <3>2. Head(loading[l]) \in Policy /\ Tail(loading[l]) \in Seq(Policy)
        BY <3>1
      <3>3. PolicyTypeOK'
        BY <1>2, <2>3, <3>2 DEF StorePolicy, PolicyTypeOK, Policy
      <3> QED  BY <1>2, <2>3, <3>3 DEF StorePolicy, CacheAgrees
    <2>4. ASSUME NEW l \in Loaders, StoreThrows(l) PROVE PolicyTypeOK' /\ CacheAgrees'
      BY <1>2, <2>4 DEF StoreThrows, PolicyTypeOK, CacheAgrees
    <2>5. ASSUME NEW u \in Users, Authorize(u) PROVE PolicyTypeOK' /\ CacheAgrees'
      <3>1. Built(policies, u) \in Effects
        BY <1>2, BuiltDecides DEF PolicyTypeOK
      <3> QED  BY <1>2, <2>5, <3>1 DEF Authorize, PolicyTypeOK, CacheAgrees
    <2>6. CASE Initialize
      <3>1. policies' \in Seq(Policy)
        BY <1>2, <2>6, InitializedList
      <3>2. PolicyTypeOK'
        BY <1>2, <2>6, <3>1, PolicyAssumption DEF Initialize, PolicyTypeOK
      <3>3. CacheAgrees'
        BY <2>6 DEF Initialize, CacheAgrees
      <3> QED  BY <3>2, <3>3
    <2> QED  BY <1>2, <2>1, <2>2, <2>3, <2>4, <2>5, <2>6 DEF PolicyNext
  <1> QED  BY <1>1, <1>2, PTL DEF PolicySpec

\* A cached ability is the one that the policies in memory give now.
THEOREM CacheAgreesHolds == PolicySpec => []CacheAgrees
  BY PolicyInvariance, PTL

\* A restart changes no decision if what is stored is what was loaded last, it fits on a
\* page, and no user has both allowing and denying rules.
THEOREM RestartKeepsDecisionsHolds == PolicySpec => RestartKeepsDecisions
  <1> DEFINE Kept == /\ StoredPolicies = ToSet(policies)
                     /\ Cardinality(StoredPolicies) <= PageLimit
                     /\ \A u \in Users : \A p, q \in ToSet(policies) :
                           u \in AppliesTo[p.id] \cap AppliesTo[q.id] => p.effect = q.effect
  <1>1. ASSUME PolicyTypeOK, PolicyNext, starts' # starts, Kept, NEW u \in Users
        PROVE  Built(policies', u) = Built(policies, u)
    <2>1. Initialize
      BY <1>1 DEF PolicyNext, LoadPolicies, StorePolicy, StoreThrows, Authorize
    <2>2. /\ policies \in Seq(Policy) /\ policies' \in Seq(Policy)
          /\ ToSet(policies') = ToSet(policies)
      BY <1>1, <2>1, InitializedList DEF PolicyTypeOK
    <2>3. \A i \in DOMAIN policies : \E j \in DOMAIN policies' : policies'[j] = policies[i]
      BY <2>2 DEF ToSet
    <2>4. \A j \in DOMAIN policies' : \E i \in DOMAIN policies : policies'[j] = policies[i]
      BY <2>2 DEF ToSet
    <2>5. About(policies, u) = {} <=> About(policies', u) = {}
      BY <2>3, <2>4 DEF About
    <2>6. ASSUME NEW i \in About(policies, u), NEW j \in About(policies', u)
          PROVE  policies[i].effect = policies'[j].effect
      <3>1. policies[i] \in ToSet(policies) /\ policies'[j] \in ToSet(policies)
        BY <2>2, <2>4 DEF About, ToSet
      <3>2. u \in AppliesTo[policies[i].id] \cap AppliesTo[policies'[j].id]
        BY DEF About
      <3> QED  BY <1>1, <3>1, <3>2
    <2> QED  BY <2>2, <2>5, <2>6, BuiltDecides
  <1>2. PolicyTypeOK /\ [PolicyNext]_policyvars =>
          [starts' # starts /\ Kept => \A u \in Users : Built(policies', u) = Built(policies, u)]_policyvars
    BY <1>1
  <1> QED  BY <1>2, PolicyInvariance, PTL DEF PolicySpec, RestartKeepsDecisions

\* Decisions agree with the policies in memory, and with those in storage.
LEMMA DecisionsStandAlways == PolicySpec => DecisionsStand
  BY CacheAgreesHolds, RestartKeepsDecisionsHolds, PTL DEF DecisionsStand

----------------------------------------------------------------------------
(* Counters in a cache.                                                     *)

\* Unless a call has set over a value it had not read, the key counts at least as far
\* as it has been told in this life, and no two calls have been told the same.
CountsFit ==
    /\ \A c \in CacheCalls : cacheCall[c].at # "new" => cacheCall[c].in <= life
    /\ ~torn => \A c \in CacheCalls :
          Told(c) /\ cacheCall[c].in = life => cacheCall[c].n <= value
    /\ TicketsDiffer

\* On Redis nobody sets over anything, and a call on its way to the ttl is counted.
RedisFits ==
    cacheBackend = "redis" =>
        /\ ~torn
        /\ \A c \in CacheCalls :
              cacheCall[c].at \in {"pttl", "pexpire"} =>
                 cacheCall[c].kind = "increment" /\ cacheCall[c].n > 0

CacheInv == CacheTypeOK /\ CountsFit /\ RedisFits /\ CounterExpires

\* Nothing happens but that one call comes to its next place.
LEMMA CacheCallMoves ==
  ASSUME CacheInv, NEW c \in CacheCalls, NEW at, Turns(c, at),
         at \in {"pexpire", "told", "failed"},
         cacheCall[c].at \in {"pttl", "pexpire"},
         UNCHANGED <<cacheBackend, value, elapsed, life, torn>>, ttl' \in BOOLEAN,
         ttl => ttl', value = 0 => ~ttl',
         at = "told" /\ cacheCall[c].ttl /\ cacheCall[c].in = life => ttl'
  PROVE  CacheInv'
  <1> USE DEF CacheInv
  <1>1. /\ cacheCall' \in [CacheCalls -> Progress] /\ cacheCall'[c].at = at
        /\ cacheCall'[c].kind = cacheCall[c].kind /\ cacheCall'[c].ttl = cacheCall[c].ttl
        /\ cacheCall'[c].n = cacheCall[c].n /\ cacheCall'[c].in = cacheCall[c].in
        /\ \A d \in CacheCalls : d # c => cacheCall'[d] = cacheCall[d]
    BY DEF Turns, CacheTypeOK, Progress
  <1>2. cacheBackend = "redis" /\ cacheCall[c].kind = "increment" /\ cacheCall[c].n > 0
    BY DEF CacheTypeOK, RedisFits
  <1>3. CacheTypeOK'
    BY <1>1, <1>2 DEF CacheTypeOK
  <1>4. \A d \in CacheCalls : /\ Told(d)' <=> Told(d)
                              /\ cacheCall'[d].in = cacheCall[d].in /\ cacheCall'[d].n = cacheCall[d].n
    BY <1>1, <1>2 DEF Told
  <1>5. CountsFit'
    BY <1>1, <1>2, <1>4 DEF CountsFit, TicketsDiffer
  <1>6. RedisFits'
    BY <1>1, <1>2 DEF RedisFits
  <1>7. CounterExpires'
    BY <1>1, <1>2 DEF CounterExpires
  <1> QED  BY <1>3, <1>5, <1>6, <1>7

\* A new life of the key begins, or nothing happens to it.
LEMMA NewLife ==
  ASSUME CacheInv, life' = life + 1, UNCHANGED <<cacheBackend, cacheCall, torn>>,
         value' \in Nat, ttl' \in BOOLEAN, elapsed' = FALSE, value' = 0 => ~ttl'
  PROVE  CacheInv'
  <1> USE DEF CacheInv
  <1>1. CacheTypeOK'
    <2>1. /\ cacheBackend \in {"memory", "redis"} /\ cacheCall \in [CacheCalls -> Progress]
          /\ life' \in Nat /\ torn \in BOOLEAN
          /\ \A c \in CacheCalls :
                /\ cacheCall[c].at = "read" => cacheBackend = "memory"
                /\ cacheCall[c].at \in {"pttl", "pexpire", "failed"} => cacheBackend = "redis"
      BY DEF CacheTypeOK
    <2> QED  BY <2>1 DEF CacheTypeOK
  <1>2. \A d \in CacheCalls : /\ Told(d)' <=> Told(d)
                              /\ cacheCall[d].at # "new" => cacheCall[d].in < life'
    BY DEF Told, CountsFit, CacheTypeOK, Progress
  <1>3. CountsFit'
    BY <1>2 DEF CountsFit, TicketsDiffer, CacheTypeOK, Progress, Told
  <1>4. RedisFits'
    BY DEF RedisFits
  <1>5. CounterExpires'
    BY <1>2 DEF CounterExpires
  <1> QED  BY <1>1, <1>3, <1>4, <1>5

LEMMA CacheInvariance == CacheSpec => []CacheInv
  <1>1. ASSUME CacheInit PROVE CacheInv
    <2>1. /\ cacheCall \in [CacheCalls -> Progress]
          /\ \A c \in CacheCalls : cacheCall[c].at = "new" /\ cacheCall[c].kind = "none"
      BY <1>1 DEF CacheInit, Progress
    <2> QED  BY <1>1, <2>1 DEF CacheInit, CacheInv, CacheTypeOK, CountsFit, TicketsDiffer, Told,
                               RedisFits, CounterExpires
  <1>2. ASSUME CacheInv, [CacheNext]_cachevars PROVE CacheInv'
    <2> USE <1>2 DEF CacheInv
    <2>0. /\ cacheCall \in [CacheCalls -> Progress] /\ value \in Nat /\ life \in Nat
          /\ cacheBackend \in {"memory", "redis"}
          /\ ttl \in BOOLEAN /\ elapsed \in BOOLEAN /\ torn \in BOOLEAN
      BY DEF CacheTypeOK
    <2>1. CASE UNCHANGED cachevars
      BY <2>1 DEF cachevars, CacheTypeOK, CountsFit, TicketsDiffer, Told, RedisFits, CounterExpires
    <2>2. ASSUME NEW c \in CacheCalls, NEW t \in BOOLEAN, NEW kind \in {"increment", "setIfAbsent"},
                 MemoryCall(c, kind, t)
          PROVE  CacheInv'
      <3>1. PICK at \in {"told", "read"}, n \in Nat :
               /\ cacheCall' = [cacheCall EXCEPT ![c] =
                                  [kind |-> kind, ttl |-> t, at |-> at, n |-> n, in |-> life']]
               /\ at = "told" => n = 0
        <4>1. value' \in Nat
          BY <2>0, <2>2 DEF MemoryCall, Looks, Removed
        <4>2. CASE kind = "setIfAbsent" /\ value' # 0
          BY <2>2, <4>2 DEF MemoryCall, Made
        <4>3. CASE kind = "setIfAbsent" /\ value' = 0
          BY <2>2, <4>3 DEF MemoryCall, Made
        <4>4. CASE kind = "increment"
          BY <2>2, <4>1, <4>4 DEF MemoryCall, Made
        <4> QED  BY <4>2, <4>3, <4>4
      <3>2. /\ life' \in Nat /\ value' \in Nat /\ life <= life' /\ ttl' \in BOOLEAN
            /\ elapsed' = FALSE /\ (value' = 0 => ~ttl') /\ (life' = life => value' = value)
            /\ cacheBackend = "memory" /\ cacheCall[c].at = "new" /\ UNCHANGED <<cacheBackend, torn>>
        <4>0. /\ cacheBackend = "memory" /\ cacheCall[c].at = "new" /\ UNCHANGED <<cacheBackend, torn>>
              /\ value = 0 => ~ttl
          BY <2>2 DEF MemoryCall, CacheTypeOK
        <4>1. CASE elapsed
          <5>1. Looks
            BY <2>2 DEF MemoryCall
          <5>2. life' = life + 1 /\ value' = 0 /\ ttl' = FALSE /\ elapsed' = FALSE
            BY <4>1, <5>1 DEF Looks, Removed
          <5>3. life' \in Nat /\ life' # life /\ life <= life' /\ value' \in Nat
            BY <2>0, <5>2
          <5> QED  BY <4>0, <5>2, <5>3
        <4>2. CASE ~elapsed
          BY <2>0, <2>2, <4>0, <4>2 DEF MemoryCall, Looks
        <4> QED  BY <4>1, <4>2
      <3>3. /\ cacheCall' \in [CacheCalls -> Progress]
            /\ cacheCall'[c] = [kind |-> kind, ttl |-> t, at |-> at, n |-> n, in |-> life']
            /\ \A d \in CacheCalls : d # c => cacheCall'[d] = cacheCall[d]
        BY <2>0, <3>1, <3>2 DEF Progress
      <3>4. CacheTypeOK'
        BY <3>1, <3>2, <3>3 DEF CacheTypeOK
      <3>5. ~Told(c)' /\ \A d \in CacheCalls : d # c => (Told(d)' <=> Told(d))
        BY <3>1, <3>3 DEF Told
      <3>6. \A d \in CacheCalls : Told(d) => cacheCall[d].in <= life /\ cacheCall[d].in \in Nat
        BY <2>0 DEF Told, CountsFit, Progress
      <3>7. CountsFit'
        BY <2>0, <3>2, <3>3, <3>5, <3>6 DEF CountsFit, TicketsDiffer, Progress
      <3> QED  BY <3>2, <3>4, <3>7 DEF RedisFits, CounterExpires
    <2>3. ASSUME NEW c \in CacheCalls, MemorySet(c) PROVE CacheInv'
      <3>1. /\ cacheCall' \in [CacheCalls -> Progress] /\ cacheCall'[c].at = "told"
            /\ cacheCall'[c].n = cacheCall[c].n + 1 /\ cacheCall'[c].in = cacheCall[c].in
            /\ \A d \in CacheCalls : d # c => cacheCall'[d] = cacheCall[d]
        BY <2>0, <2>3 DEF MemorySet, Progress
      <3>2. /\ value' = cacheCall[c].n + 1 /\ ttl' \in BOOLEAN /\ elapsed' = FALSE
            /\ UNCHANGED <<cacheBackend, life>> /\ cacheCall[c].at = "read" /\ cacheCall[c].n \in Nat
            /\ cacheCall[c].in \in Nat /\ torn' \in BOOLEAN /\ cacheBackend = "memory"
            /\ ~torn' => ~torn /\ life = cacheCall[c].in /\ value = cacheCall[c].n
        BY <2>0, <2>3 DEF MemorySet, Progress, CacheTypeOK
      <3>3. CacheTypeOK'
        <4>1. value' \in Nat /\ value' # 0
          BY <3>2
        <4> QED  BY <2>0, <3>1, <3>2, <4>1 DEF CacheTypeOK
      <3>4. Told(c)' /\ \A d \in CacheCalls : d # c => (Told(d)' <=> Told(d))
        BY <3>1, <3>2 DEF Told
      <3>5. \A d \in CacheCalls : cacheCall'[d].at # "new" => cacheCall'[d].in <= life'
        BY <3>1, <3>2 DEF CountsFit
      <3>6. ASSUME ~torn', NEW d \in CacheCalls, Told(d)', cacheCall'[d].in = life'
            PROVE  cacheCall'[d].n <= value' /\ (d # c => cacheCall'[d].n < value')
        BY <2>0, <3>1, <3>2, <3>4, <3>6 DEF CountsFit, Progress
      <3>7. TicketsDiffer'
        <4> SUFFICES ASSUME ~torn', NEW d \in CacheCalls, NEW e \in CacheCalls, d # e,
                            Told(d)', Told(e)', cacheCall'[d].in = cacheCall'[e].in
                     PROVE  cacheCall'[d].n # cacheCall'[e].n
          BY DEF TicketsDiffer
        <4>1. CASE d # c /\ e # c
          BY <3>1, <3>2, <3>4, <4>1 DEF CountsFit, TicketsDiffer
        <4>2. CASE d = c
          BY <2>0, <3>1, <3>2, <3>6, <4>2 DEF Progress
        <4>3. CASE e = c
          BY <2>0, <3>1, <3>2, <3>6, <4>3 DEF Progress
        <4> QED  BY <4>1, <4>2, <4>3
      <3> QED  BY <3>2, <3>3, <3>5, <3>6, <3>7 DEF CountsFit, RedisFits, CounterExpires
    <2>4. ASSUME NEW c \in CacheCalls, NEW t \in BOOLEAN, Incr(c, t) PROVE CacheInv'
      <3>1. PICK at \in {"pttl", "told"} :
               /\ cacheCall' = [cacheCall EXCEPT ![c] =
                       [kind |-> "increment", ttl |-> t, at |-> at, n |-> value + 1, in |-> life]]
               /\ at = "told" => ~t
        BY <2>4 DEF Incr, Made
      <3>2. /\ cacheCall' \in [CacheCalls -> Progress]
            /\ cacheCall'[c] = [kind |-> "increment", ttl |-> t, at |-> at, n |-> value + 1, in |-> life]
            /\ \A d \in CacheCalls : d # c => cacheCall'[d] = cacheCall[d]
        BY <2>0, <3>1 DEF Progress
      <3>3. /\ value' = value + 1 /\ cacheBackend = "redis" /\ cacheCall[c].at = "new" /\ ~torn
            /\ UNCHANGED <<cacheBackend, ttl, elapsed, life, torn>>
        BY <2>4 DEF Incr, RedisFits
      <3>4. CacheTypeOK'
        BY <2>0, <3>1, <3>2, <3>3 DEF CacheTypeOK
      <3>5. Told(c)' /\ \A d \in CacheCalls : d # c => (Told(d)' <=> Told(d))
        BY <2>0, <3>1, <3>2 DEF Told
      <3>6. CountsFit'
        <4>1. \A d \in CacheCalls : cacheCall'[d].at # "new" => cacheCall'[d].in <= life'
          BY <2>0, <3>2, <3>3 DEF CountsFit
        <4>2. ASSUME NEW d \in CacheCalls, Told(d)', cacheCall'[d].in = life'
              PROVE  cacheCall'[d].n <= value' /\ (d # c => cacheCall'[d].n < value')
          BY <2>0, <3>2, <3>3, <3>5, <4>2 DEF CountsFit, Progress
        <4>3. ASSUME NEW d \in CacheCalls, NEW e \in CacheCalls, d # e,
                     Told(d)', Told(e)', cacheCall'[d].in = cacheCall'[e].in
              PROVE  cacheCall'[d].n # cacheCall'[e].n
          <5>1. CASE d # c /\ e # c
            BY <3>2, <3>3, <3>5, <4>3, <5>1 DEF CountsFit, TicketsDiffer
          <5>2. CASE d = c
            BY <2>0, <3>2, <3>3, <4>2, <4>3, <5>2 DEF Progress
          <5>3. CASE e = c
            BY <2>0, <3>2, <3>3, <4>2, <4>3, <5>3 DEF Progress
          <5> QED  BY <5>1, <5>2, <5>3
        <4> QED  BY <4>1, <4>2, <4>3 DEF CountsFit, TicketsDiffer
      <3>7. RedisFits'
        BY <2>0, <3>2, <3>3 DEF RedisFits
      <3>8. CounterExpires'
        BY <3>1, <3>2, <3>3 DEF CounterExpires
      <3> QED  BY <3>4, <3>6, <3>7, <3>8
    <2>5. ASSUME NEW c \in CacheCalls, Pttl(c) \/ Pexpire(c) \/ CacheFails(c) PROVE CacheInv'
      <3>1. cacheBackend = "redis"
        BY <2>5 DEF Pttl, Pexpire, CacheFails, CacheTypeOK
      <3>2. CASE Pttl(c)
        <4>1. PICK at \in {"told", "pexpire"} : Turns(c, at) /\ (at = "told" => ttl)
          BY <3>2 DEF Pttl
        <4> QED  BY <2>0, <3>1, <3>2, <4>1, CacheCallMoves DEF Pttl, CacheTypeOK
      <3>3. CASE Pexpire(c)
        <4>1. cacheCall[c].in = life => value # 0
          BY <2>0, <3>1, <3>3 DEF Pexpire, RedisFits, CountsFit, Told, Progress
        <4>2. ttl => value # 0
          BY DEF CacheTypeOK
        <4> QED  BY <2>0, <3>1, <3>3, <4>1, <4>2, CacheCallMoves DEF Pexpire
      <3>4. CASE CacheFails(c)
        BY <2>0, <3>1, <3>4, CacheCallMoves DEF CacheFails, CacheTypeOK
      <3> QED  BY <2>5, <3>2, <3>3, <3>4
    <2>6. ASSUME NEW c \in CacheCalls, SetNX(c) PROVE CacheInv'
      <3> DEFINE n == IF value = 0 THEN 1 ELSE 0
      <3>1. /\ cacheCall' \in [CacheCalls -> Progress]
            /\ cacheCall'[c] = [kind |-> "setIfAbsent", ttl |-> TRUE, at |-> "told", n |-> n, in |-> life]
            /\ \A d \in CacheCalls : d # c => cacheCall'[d] = cacheCall[d]
        BY <2>0, <2>6 DEF SetNX, Made, Progress
      <3>2. /\ value' = IF value = 0 THEN 1 ELSE value
            /\ ttl' \in BOOLEAN /\ (ttl => ttl')
            /\ cacheBackend = "redis" /\ cacheCall[c].at = "new" /\ ~torn
            /\ UNCHANGED <<cacheBackend, elapsed, life, torn>>
        BY <2>0, <2>6 DEF SetNX, RedisFits
      <3>3. CacheTypeOK'
        BY <2>0, <2>6, <3>1, <3>2 DEF CacheTypeOK
      <3>4. /\ Told(c)' <=> value = 0
            /\ \A d \in CacheCalls : d # c => (Told(d)' <=> Told(d))
        BY <3>1 DEF Told
      <3>5. CountsFit'
        <4>1. \A d \in CacheCalls : cacheCall'[d].at # "new" => cacheCall'[d].in <= life'
          BY <2>0, <3>1, <3>2 DEF CountsFit
        <4>2. ASSUME NEW d \in CacheCalls, Told(d)', cacheCall'[d].in = life'
              PROVE  cacheCall'[d].n <= value' /\ (d # c => value # 0)
          BY <2>0, <3>1, <3>2, <3>4, <4>2 DEF CountsFit, Progress, Told
        <4>3. ASSUME NEW d \in CacheCalls, NEW e \in CacheCalls, d # e,
                     Told(d)', Told(e)', cacheCall'[d].in = cacheCall'[e].in
              PROVE  cacheCall'[d].n # cacheCall'[e].n
          <5>1. CASE d # c /\ e # c
            BY <3>1, <3>2, <3>4, <4>3, <5>1 DEF CountsFit, TicketsDiffer
          <5>2. CASE d = c \/ e = c
            BY <2>0, <3>1, <3>2, <3>4, <4>2, <4>3, <5>2
          <5> QED  BY <5>1, <5>2
        <4> QED  BY <4>1, <4>2, <4>3 DEF CountsFit, TicketsDiffer
      <3>6. RedisFits' /\ CounterExpires'
        BY <3>1, <3>2 DEF RedisFits, CounterExpires
      <3> QED  BY <3>3, <3>5, <3>6
    <2>7. CASE DeleteEntry \/ EvictCache
      <3>1. /\ life' = life + 1 /\ UNCHANGED <<cacheBackend, cacheCall, torn>>
            /\ value' = 0 /\ ttl' = FALSE /\ elapsed' = FALSE
        BY <2>7 DEF DeleteEntry, EvictCache, Removed
      <3> QED  BY <3>1, NewLife
    <2>8. ASSUME NEW t \in BOOLEAN, SetKey(t) PROVE CacheInv'
      <3>1. /\ life' = life + 1 /\ UNCHANGED <<cacheBackend, cacheCall, torn>>
            /\ value' \in Nat /\ value' # 0 /\ ttl' \in BOOLEAN /\ elapsed' = FALSE
        BY <2>8 DEF SetKey
      <3> QED  BY <3>1, NewLife
    <2>9. CASE TtlPasses
      <3>1. CASE cacheBackend = "redis"
        <4>1. /\ life' = life + 1 /\ UNCHANGED <<cacheBackend, cacheCall, torn>>
              /\ value' = 0 /\ ttl' = FALSE /\ elapsed' = FALSE
          BY <2>9, <3>1 DEF TtlPasses, Removed
        <4> QED  BY <4>1, NewLife
      <3>2. CASE cacheBackend = "memory"
        <4>1. /\ UNCHANGED <<cacheBackend, cacheCall, torn, value, ttl, life>> /\ elapsed' = TRUE /\ ttl
          BY <2>9, <3>2 DEF TtlPasses
        <4>2. CacheTypeOK'
          BY <3>2, <4>1 DEF CacheTypeOK
        <4> QED  BY <4>1, <4>2 DEF CountsFit, TicketsDiffer, Told, RedisFits, CounterExpires
      <3> QED  BY <2>0, <3>1, <3>2
    <2> QED  BY <2>1, <2>2, <2>3, <2>4, <2>5, <2>6, <2>7, <2>8, <2>9 DEF CacheNext
  <1> QED  BY <1>1, <1>2, PTL DEF CacheSpec

\* What rate limiting by a counter rests on: no two calls are told the same count of one
\* life of the key, unless a call of the memory backend has set over a value it had not
\* read, and on Redis a counter that was given a ttl has one.
THEOREM CountersHoldAlways == CacheSpec => []CountersHold
  <1>1. CacheInv => CountersHold
    BY DEF CacheInv, CountsFit, CountersHold
  <1> QED  BY <1>1, CacheInvariance, PTL

----------------------------------------------------------------------------
(* Updates of the memory storage backend.                                   *)

\* A call under way has all its keys before it, unless it sets them; calls of one key
\* know each other; and what a lonely update has read is still in the row.
Fresh ==
    /\ \A c \in Callers : op[c].kind # "set" =>
          \A i, j \in op[c].keys : i = j
    /\ \A c \in Callers : outcome[c] = "selected" =>
          op[c].kind = "update" /\ todo[c] = op[c].keys /\ todo[c] # {}
    /\ \A c \in Callers : outcome[c] \in {"begun", "selected"} /\ op[c].kind # "set" =>
          todo[c] = op[c].keys
    /\ \A c, d \in Callers :
          c # d /\ Active(c) /\ Active(d) /\ op[c].keys \cap op[d].keys # {} =>
              d \in overlap[c]
    /\ \A c \in Callers : outcome[c] = "selected" /\ overlap[c] = {} =>
          \A k \in op[c].keys : row[k] = read[c]

StorageInv == MTypeOK /\ Fresh

\* A write: the row of a key changes, and no other caller has read it while alone.
LEMMA WriteStep ==
  ASSUME StorageInv, NEW c \in Callers, NEW k \in Keys, k \in todo[c], Active(c),
         NEW r \in Rows, row' = [row EXCEPT ![k] = r],
         NEW left \in SUBSET todo[c], todo' = [todo EXCEPT ![c] = left],
         NEW to \in {"begun", "applied"}, outcome' = [outcome EXCEPT ![c] = to],
         to = "begun" => op[c].kind = "set",
         UNCHANGED <<op, read, overlap>>
  PROVE  StorageInv'
  <1> USE DEF StorageInv
  <1>1. /\ outcome' \in [Callers -> Outcomes] /\ outcome'[c] = to
        /\ \A d \in Callers : d # c => outcome'[d] = outcome[d]
        /\ todo' \in [Callers -> SUBSET Keys] /\ todo'[c] = left
        /\ \A d \in Callers : d # c => todo'[d] = todo[d]
        /\ row' \in [Keys -> Rows] /\ \A j \in Keys : j # k => row'[j] = row[j]
    BY DEF MTypeOK, Outcomes
  <1>2. MTypeOK'
    BY <1>1 DEF MTypeOK
  <1>3. ASSUME NEW d \in Callers, outcome'[d] = "selected", overlap[d] = {}, NEW j \in op[d].keys
        PROVE  row'[j] = read[d]
    <2>1. d # c /\ outcome[d] = "selected"
      BY <1>1, <1>3
    <2>2. k \notin op[d].keys
      BY <1>3, <2>1 DEF Fresh, Active, MTypeOK
    <2>3. j \in Keys
      BY <1>3 DEF MTypeOK, Ops
    <2> QED  BY <1>1, <1>3, <2>1, <2>2, <2>3 DEF Fresh
  <1>4. \A d \in Callers : Active(d)' => Active(d)
    BY <1>1 DEF Active
  <1>5. Fresh'
    BY <1>1, <1>3, <1>4 DEF Fresh
  <1> QED  BY <1>2, <1>5

LEMMA StorageInvariance == MSpec => []StorageInv
  <1>1. ASSUME MInit PROVE StorageInv
    <2>1. row \in [Keys -> Rows]
      BY <1>1 DEF MInit, Rows, Absent
    <2>2. op \in [Callers -> Ops] /\ read \in [Callers -> Rows] /\ outcome \in [Callers -> Outcomes]
      BY <1>1 DEF MInit, Ops, Kinds, Rows, Absent, Outcomes
    <2>3. \A c \in Callers : outcome[c] = "idle" /\ op[c] = [kind |-> "set", keys |-> {}]
                             /\ todo[c] = {} /\ overlap[c] = {}
      BY <1>1 DEF MInit
    <2> QED  BY <1>1, <2>1, <2>2, <2>3 DEF MInit, StorageInv, MTypeOK, Fresh, Active
  <1>2. ASSUME StorageInv, [MNext]_mvars PROVE StorageInv'
    <2> USE <1>2 DEF StorageInv
    <2>1. CASE UNCHANGED mvars
      BY <2>1 DEF mvars, MTypeOK, Fresh, Active
    <2>2. ASSUME NEW c \in Callers, NEW kind \in Kinds, NEW K \in SUBSET Keys, MBegin(c, kind, K)
          PROVE  StorageInv'
      <3>1. /\ op' \in [Callers -> Ops] /\ op'[c] = [kind |-> kind, keys |-> K]
            /\ \A d \in Callers : d # c => op'[d] = op[d]
            /\ todo' \in [Callers -> SUBSET Keys] /\ todo'[c] = K
            /\ \A d \in Callers : d # c => todo'[d] = todo[d]
            /\ outcome' \in [Callers -> Outcomes] /\ outcome'[c] = "begun"
            /\ \A d \in Callers : d # c => outcome'[d] = outcome[d]
        BY <2>2 DEF MBegin, MTypeOK, Ops, Outcomes
      <3>2. outcome[c] = "idle" /\ K # {} /\ UNCHANGED <<row, read>>
            /\ (kind # "set" => \A i, j \in K : i = j)
        BY <2>2 DEF MBegin
      <3>3. c \notin Contenders(K) /\ Contenders(K) \subseteq Callers
        BY <3>2 DEF Contenders, Active
      <3>4. /\ overlap' \in [Callers -> SUBSET Callers] /\ overlap'[c] = Contenders(K)
            /\ \A d \in Callers : d # c => overlap'[d] = IF d \in Contenders(K)
                                                         THEN overlap[d] \cup {c} ELSE overlap[d]
        BY <2>2, <3>3 DEF MBegin, MTypeOK
      <3>5. MTypeOK'
        BY <3>1, <3>2, <3>3, <3>4 DEF MTypeOK
      <3>6. ASSUME NEW d \in Callers, NEW e \in Callers, d # e, Active(d)', Active(e)',
                   op'[d].keys \cap op'[e].keys # {}
            PROVE  e \in overlap'[d]
        <4>1. CASE d = c
          BY <3>1, <3>4, <3>6, <4>1 DEF Contenders, Active
        <4>2. CASE e = c
          BY <3>1, <3>4, <3>6, <4>2 DEF Contenders, Active
        <4>3. CASE d # c /\ e # c
          BY <3>1, <3>4, <3>6, <4>3 DEF Fresh, Active
        <4> QED  BY <4>1, <4>2, <4>3
      <3>7. ASSUME NEW d \in Callers, outcome'[d] = "selected", overlap'[d] = {}
            PROVE  \A k \in op'[d].keys : row'[k] = read'[d]
        <4>1. d # c /\ outcome[d] = "selected"
          BY <3>1, <3>7
        <4>2. overlap[d] = {}
          BY <3>4, <3>7, <4>1
        <4> QED  BY <3>1, <3>2, <4>1, <4>2 DEF Fresh
      <3>8. Fresh'
        BY <3>1, <3>2, <3>6, <3>7 DEF Fresh
      <3> QED  BY <3>5, <3>8
    <2>3. ASSUME NEW c \in Callers, NEW k \in Keys, ReadCurrent(c, k) PROVE StorageInv'
      <3>1. /\ read' \in [Callers -> Rows] /\ read'[c] = row[k]
            /\ \A d \in Callers : d # c => read'[d] = read[d]
            /\ outcome' \in [Callers -> Outcomes] /\ outcome'[c] = "selected"
            /\ \A d \in Callers : d # c => outcome'[d] = outcome[d]
            /\ UNCHANGED <<row, op, todo, overlap>>
            /\ outcome[c] = "begun" /\ op[c].kind = "update" /\ k \in todo[c]
        BY <2>3 DEF ReadCurrent, MTypeOK, Outcomes
      <3>2. todo[c] = op[c].keys /\ \A j \in op[c].keys : j = k
        BY <3>1 DEF Fresh
      <3>3. \A d \in Callers : Active(d)' <=> Active(d)
        BY <3>1 DEF Active
      <3>4. MTypeOK'
        BY <3>1 DEF MTypeOK
      <3>5. Fresh'
        BY <3>1, <3>2, <3>3 DEF Fresh
      <3> QED  BY <3>4, <3>5
    <2>4. ASSUME NEW c \in Callers, NEW k \in Keys, WriteUpdated(c, k) PROVE StorageInv'
      <3>1. Result("update", c, read[c]) \in Rows
        BY DEF Result, Rows, MTypeOK
      <3>2. Active(c) /\ k \in todo[c] /\ row' = [row EXCEPT ![k] = Result("update", c, read[c])]
            /\ todo' = [todo EXCEPT ![c] = {}] /\ outcome' = [outcome EXCEPT ![c] = "applied"]
            /\ UNCHANGED <<op, read, overlap>>
        BY <2>4 DEF WriteUpdated, Active
      <3> QED  BY <3>1, <3>2, WriteStep
    <2>5. ASSUME NEW c \in Callers, NEW k \in Keys, SetOne(c, k) PROVE StorageInv'
      <3>1. Result("set", c, row[k]) \in Rows
        BY DEF Result, Rows
      <3>2. PICK to \in {"begun", "applied"} : outcome' = [outcome EXCEPT ![c] = to]
        BY <2>5 DEF SetOne
      <3>3. Active(c) /\ k \in todo[c] /\ row' = [row EXCEPT ![k] = Result("set", c, row[k])]
            /\ todo' = [todo EXCEPT ![c] = todo[c] \ {k}] /\ op[c].kind = "set"
            /\ UNCHANGED <<op, read, overlap>>
        BY <2>5 DEF SetOne, Active, MTypeOK
      <3> QED  BY <3>1, <3>2, <3>3, WriteStep
    <2>6. ASSUME NEW c \in Callers, NEW k \in Keys, DeleteOne(c, k) PROVE StorageInv'
      <3>1. Absent \in Rows
        BY DEF Absent, Rows
      <3>2. Active(c) /\ k \in todo[c] /\ row' = [row EXCEPT ![k] = Absent]
            /\ todo' = [todo EXCEPT ![c] = {}] /\ outcome' = [outcome EXCEPT ![c] = "applied"]
            /\ UNCHANGED <<op, read, overlap>>
        BY <2>6 DEF DeleteOne, Active
      <3> QED  BY <3>1, <3>2, WriteStep
    <2>7. ASSUME NEW c \in Callers, UpdaterThrows(c) PROVE StorageInv'
      <3>1. /\ outcome' \in [Callers -> Outcomes] /\ outcome'[c] = "failed"
            /\ \A d \in Callers : d # c => outcome'[d] = outcome[d]
            /\ UNCHANGED <<row, op, read, todo, overlap>>
        BY <2>7 DEF UpdaterThrows, MTypeOK, Outcomes
      <3>2. \A d \in Callers : Active(d)' => Active(d)
        BY <3>1 DEF Active
      <3> QED  BY <3>1, <3>2 DEF MTypeOK, Fresh
    <2> QED  BY <2>1, <2>2, <2>3, <2>4, <2>5, <2>6, <2>7 DEF MNext
  <1> QED  BY <1>1, <1>2, PTL DEF MSpec

\* The memory backend loses an update only where another call on the key was open
\* while it ran: a lonely one is computed from the value it replaces.
THEOREM LossOnlyUnderOverlapHolds == MSpec => LossOnlyUnderOverlap
  <1>1. ASSUME StorageInv, MNext, NEW c \in Callers, Commits(c), op[c].kind = "update", overlap[c] = {}
        PROVE  Exact(c)
    <2>1. outcome \in [Callers -> Outcomes] /\ row \in [Keys -> Rows]
      BY <1>1 DEF StorageInv, MTypeOK
    <2>2. PICK k \in Keys : WriteUpdated(c, k)
      BY <1>1, <2>1 DEF MNext, MBegin, ReadCurrent, WriteUpdated, SetOne, DeleteOne, UpdaterThrows,
         Commits, Outcomes
    <2>3. \A j \in op[c].keys : j = k
      BY <1>1, <2>2 DEF StorageInv, Fresh, WriteUpdated
    <2>4. k \in op[c].keys /\ row[k] = read[c]
      BY <1>1, <2>2 DEF StorageInv, Fresh, MTypeOK, WriteUpdated
    <2> QED  BY <2>1, <2>2, <2>3, <2>4 DEF Exact, WriteUpdated, Result
  <1>2. StorageInv /\ [MNext]_mvars =>
          [\A c \in Callers : Commits(c) /\ op[c].kind = "update" /\ overlap[c] = {} => Exact(c)]_mvars
    BY <1>1
  <1> QED  BY <1>2, StorageInvariance, PTL DEF MSpec, LossOnlyUnderOverlap

----------------------------------------------------------------------------
(* The limiter of the pipeline.                                             *)

\* Whom it let by from the tick s to the tick t.
LetBy(s, t) == {x \in admitted : x[3] \in s .. t}

Atmost(S, n) == IsFiniteSet(S) /\ Cardinality(S) <= n

\* The window that is open has let by no more than it counts, and so has the stretch
\* before it that may lie in one window with it; when no window is open, nobody was
\* let by at this tick, and no more than the limit in the stretch that ends with it.
LimiterFits ==
    /\ counted.start = -Window \/ counted.start \in 0 .. now
    /\ IsFiniteSet(admitted)
    /\ counted.start # -Window =>
          /\ Atmost(LetBy(counted.start, now), counted.count)
          /\ Atmost(LetBy(counted.start - Window + 1, counted.start - 1), Limit)
    /\ counted.start = -Window => Atmost(LetBy(now - Window + 1, now), Limit)
    /\ now - counted.start >= Window => \A x \in admitted : x[3] < now

LimiterTypeOK ==
    /\ now \in 0 .. MaxNow /\ counted \in [count : 0 .. Limit, start : -Window .. now]
    /\ \A x \in admitted : x[3] \in 0 .. now

LimiterInv == LimiterTypeOK /\ LimiterFits /\ AtMostTwice

LEMMA AtmostSubset ==
  ASSUME NEW S, NEW n \in Nat, Atmost(S, n), NEW T \in SUBSET S PROVE Atmost(T, n)
  <1>1. IsFiniteSet(T) /\ Cardinality(T) <= Cardinality(S)
    BY FS_Subset DEF Atmost
  <1>2. Cardinality(T) \in Nat /\ Cardinality(S) \in Nat
    BY <1>1, FS_CardinalityType DEF Atmost
  <1> QED  BY <1>1, <1>2 DEF Atmost

LEMMA AtmostAdd ==
  ASSUME NEW S, NEW n \in Nat, Atmost(S, n), NEW x PROVE Atmost(S \cup {x}, n + 1)
  <1>1. IsFiniteSet(S \cup {x}) /\ Cardinality(S) \in Nat /\ Cardinality(S \cup {x}) <= Cardinality(S) + 1
    <2>1. Cardinality(S) \in Nat /\ IsFiniteSet(S)
      BY FS_CardinalityType DEF Atmost
    <2>2. IsFiniteSet(S \cup {x}) /\ (x \notin S => Cardinality(S \cup {x}) = Cardinality(S) + 1)
      BY <2>1, FS_AddElement
    <2>3. x \in S => S \cup {x} = S
      OBVIOUS
    <2>4. CASE x \in S
      <3>1. Cardinality(S \cup {x}) = Cardinality(S)
        BY <2>3, <2>4
      <3> QED  BY <2>1, <2>2, <3>1
    <2>5. CASE x \notin S
      BY <2>1, <2>2, <2>5
    <2> QED  BY <2>1, <2>2, <2>4, <2>5
  <1>2. Cardinality(S \cup {x}) \in Nat
    BY <1>1, FS_CardinalityType
  <1> QED  BY <1>1, <1>2 DEF Atmost

LEMMA AtmostUnion ==
  ASSUME NEW S, NEW T, NEW m \in Nat, NEW n \in Nat, Atmost(S, m), Atmost(T, n)
  PROVE  Atmost(S \cup T, m + n)
  <1>1. IsFiniteSet(S) /\ IsFiniteSet(T) /\ IsFiniteSet(S \cup T) /\ IsFiniteSet(S \cap T)
    BY FS_Union, FS_Intersection DEF Atmost
  <1>2. /\ Cardinality(S) \in Nat /\ Cardinality(T) \in Nat /\ Cardinality(S \cap T) \in Nat
        /\ Cardinality(S \cup T) = Cardinality(S) + Cardinality(T) - Cardinality(S \cap T)
    BY <1>1, FS_CardinalityType, FS_Union
  <1> QED  BY <1>1, <1>2 DEF Atmost

LEMMA AtmostNone == ASSUME NEW n \in Nat PROVE Atmost({}, n)
  BY FS_EmptySet DEF Atmost

\* Two stretches of one window's length cover what any such stretch has.
LEMMA AdmitTwice ==
  ASSUME LimiterInv, NEW x, x[3] = now, admitted' = admitted \cup {x}, now' = now,
         Evaluate(1).count <= Limit, counted' = Evaluate(1)
  PROVE  LimiterInv'
  <1>1. /\ now \in Nat /\ now \in 0 .. MaxNow /\ Window \in Nat \ {0} /\ Limit \in Nat /\ MaxNow \in Nat
        /\ counted.count \in 0 .. Limit /\ counted.start \in -Window .. now
        /\ counted.start = -Window \/ counted.start \in 0 .. now
        /\ \A y \in admitted : y[3] \in 0 .. now
    BY PipelineAssumption DEF LimiterInv, LimiterTypeOK, LimiterFits
  <1>0. PICK s \in Int, n \in Nat : s = counted.start /\ n = counted.count
    BY <1>1
  <1> DEFINE late == now - s >= Window
  <1>2. PICK start \in 0 .. now, count \in 0 .. Limit :
           /\ counted' = [count |-> count, start |-> start] /\ now - start < Window
           /\ start = IF late THEN now ELSE s
           /\ count = IF late THEN 1 ELSE n + 1
    <2>1. CASE late
      <3>1. counted' = [count |-> 1, start |-> now] /\ 1 <= Limit
        BY <1>0, <2>1 DEF Evaluate
      <3> QED  BY <1>0, <1>1, <2>1, <3>1
    <2>2. CASE ~late
      <3>1. counted' = [counted EXCEPT !.count = @ + 1] /\ counted.count + 1 <= Limit
        BY <1>0, <2>2 DEF Evaluate, LimiterInv, LimiterTypeOK
      <3>2. counted' = [count |-> n + 1, start |-> s]
        BY <1>0, <3>1 DEF LimiterInv, LimiterTypeOK
      <3>3. s \in 0 .. now
        BY <1>0, <1>1, <2>2
      <3> QED  BY <1>0, <1>1, <2>2, <3>1, <3>2, <3>3
    <2> QED  BY <2>1, <2>2
  <1>3. \A v, t \in Int : /\ v <= now /\ now <= t => LetBy(v, t)' = LetBy(v, t) \cup {x}
                          /\ ~(v <= now /\ now <= t) => LetBy(v, t)' = LetBy(v, t)
    BY <1>1 DEF LetBy
  <1>4. Atmost(LetBy(start, now)', count)
    <2>1. PICK k \in Nat : k + 1 = count /\ Atmost(LetBy(start, now), k)
      <3>1. CASE late
        <4>1. LetBy(start, now) = {}
          BY <1>0, <1>1, <1>2, <3>1 DEF LetBy, LimiterInv, LimiterFits
        <4>2. Atmost(LetBy(start, now), 0) /\ 0 + 1 = count
          BY <1>2, <3>1, <4>1, AtmostNone
        <4> QED  BY <4>2
      <3>2. CASE ~late
        <4>1. s # -Window /\ start = s
          BY <1>0, <1>1, <1>2, <3>2
        <4>2. Atmost(LetBy(start, now), n)
          BY <1>0, <4>1 DEF LimiterInv, LimiterFits
        <4> QED  BY <1>0, <1>2, <3>2, <4>2
      <3> QED  BY <3>1, <3>2
    <2>2. LetBy(start, now)' = LetBy(start, now) \cup {x}
      BY <1>1, <1>2, <1>3
    <2>3. Atmost(LetBy(start, now) \cup {x}, k + 1)
      BY <2>1, AtmostAdd
    <2> QED  BY <2>1, <2>2, <2>3
  <1>5. Atmost(LetBy(start - Window + 1, start - 1)', Limit)
    <2>1. LetBy(start - Window + 1, start - 1)' = LetBy(start - Window + 1, start - 1)
      BY <1>1, <1>2, <1>3
    <2>2. CASE late /\ s = -Window
      <3>1. Atmost(LetBy(now - Window + 1, now), Limit)
        BY <1>0, <2>2 DEF LimiterInv, LimiterFits
      <3>2. LetBy(start - Window + 1, start - 1) \in SUBSET LetBy(now - Window + 1, now)
        BY <1>1, <1>2, <2>2 DEF LetBy
      <3>3. Atmost(LetBy(start - Window + 1, start - 1), Limit)
        BY <1>1, <3>1, <3>2, AtmostSubset
      <3> QED  BY <2>1, <3>3
    <2>3. CASE late /\ s # -Window
      <3>1. Atmost(LetBy(s, now), n)
        BY <1>0, <2>3 DEF LimiterInv, LimiterFits
      <3>2. LetBy(start - Window + 1, start - 1) \in SUBSET LetBy(s, now)
        BY <1>0, <1>1, <1>2, <2>3 DEF LetBy
      <3>3. Atmost(LetBy(start - Window + 1, start - 1), n)
        BY <3>1, <3>2, AtmostSubset
      <3>4. Cardinality(LetBy(start - Window + 1, start - 1)) \in Nat /\ n <= Limit
        BY <1>0, <1>1, <3>3, FS_CardinalityType DEF Atmost
      <3>5. Atmost(LetBy(start - Window + 1, start - 1), Limit)
        BY <1>1, <3>3, <3>4 DEF Atmost
      <3> QED  BY <2>1, <3>5
    <2>4. CASE ~late
      <3>1. s # -Window /\ start = s
        BY <1>0, <1>1, <1>2, <2>4
      <3>2. Atmost(LetBy(start - Window + 1, start - 1), Limit)
        BY <1>0, <3>1 DEF LimiterInv, LimiterFits
      <3> QED  BY <2>1, <3>2
    <2> QED  BY <2>2, <2>3, <2>4
  <1>6. LimiterTypeOK'
    <2>1. counted' \in [count : 0 .. Limit, start : -Window .. now']
      BY <1>0, <1>1, <1>2
    <2> QED  BY <1>0, <1>1, <2>1 DEF LimiterTypeOK
  <1>7. LimiterFits'
    <2>1. IsFiniteSet(admitted')
      BY FS_AddElement DEF LimiterInv, LimiterFits
    <2>2. counted'.start = start /\ counted'.count = count /\ start # -Window /\ ~(now - start >= Window)
      BY <1>0, <1>1, <1>2
    <2>3. /\ Atmost(LetBy(start, now), count)' 
          /\ Atmost(LetBy(start - Window + 1, start - 1), Limit)'
      BY <1>4, <1>5
    <2> QED  BY <1>0, <1>1, <1>2, <2>1, <2>2, <2>3 DEF LimiterFits
  <1>8. AtMostTwice'
    <2> SUFFICES ASSUME NEW t \in 0 .. MaxNow
                 PROVE  Cardinality(LetBy(t, t + Window - 1)') <= 2 * Limit
      BY DEF AtMostTwice, LetBy
    <2>1. CASE t <= now /\ now <= t + Window - 1
      <3> DEFINE early == LetBy(start - Window + 1, start - 1)'
                 open == LetBy(start, now)'
      <3>1. LetBy(t, t + Window - 1)' \in SUBSET (early \cup open)
        BY <1>0, <1>1, <1>2, <2>1 DEF LetBy
      <3>2. Atmost(early \cup open, Limit + count)
        BY <1>0, <1>1, <1>2, <1>4, <1>5, AtmostUnion
      <3> HIDE DEF early, open
      <3>3. Atmost(LetBy(t, t + Window - 1)', Limit + count)
        BY <1>0, <1>1, <1>2, <3>1, <3>2, AtmostSubset
      <3>4. Cardinality(LetBy(t, t + Window - 1)') \in Nat
        BY <3>3, FS_CardinalityType DEF Atmost
      <3> QED  BY <1>0, <1>1, <1>2, <3>3, <3>4 DEF Atmost
    <2>2. CASE ~(t <= now /\ now <= t + Window - 1)
      <3>1. LetBy(t, t + Window - 1)' = LetBy(t, t + Window - 1)
        BY <1>0, <1>1, <1>3, <2>2
      <3> QED  BY <3>1 DEF LimiterInv, AtMostTwice, LetBy
    <2> QED  BY <2>1, <2>2
  <1> QED  BY <1>6, <1>7, <1>8 DEF LimiterInv

LEMMA LimiterStep ==
  ASSUME LimiterInv,
         \/ UNCHANGED <<counted, now, admitted>>
         \/ Tick \/ CleanupExpired \/ ResetLimit
         \/ \E x : /\ x[3] = now /\ admitted' = admitted \cup {x} /\ now' = now
                   /\ Evaluate(1).count <= Limit /\ counted' = Evaluate(1)
  PROVE  LimiterInv'
  <1>1. /\ now \in Nat /\ now \in 0 .. MaxNow /\ Window \in Nat \ {0} /\ Limit \in Nat /\ MaxNow \in Nat
        /\ counted \in [count : 0 .. Limit, start : -Window .. now]
        /\ counted.count \in 0 .. Limit /\ counted.start \in -Window .. now
        /\ counted.start = -Window \/ counted.start \in 0 .. now
        /\ \A y \in admitted : y[3] \in 0 .. now
    BY PipelineAssumption DEF LimiterInv, LimiterTypeOK, LimiterFits
  <1>2. CASE UNCHANGED <<counted, now, admitted>>
    BY <1>2 DEF LimiterInv, LimiterTypeOK, LimiterFits, AtMostTwice, LetBy
  <1>3. CASE Tick
    <2>1. /\ now' = now + 1 /\ now' \in 0 .. MaxNow /\ UNCHANGED <<counted, admitted>>
      BY <1>1, <1>3 DEF Tick
    <2>2. LimiterTypeOK' /\ AtMostTwice'
      BY <1>1, <2>1 DEF LimiterInv, LimiterTypeOK, AtMostTwice
    <2>3. LetBy(now - Window + 1, now)' \in SUBSET LetBy(now - Window + 1, now)
      BY <1>1, <2>1 DEF LetBy
    <2>4. ASSUME counted.start # -Window
          PROVE  /\ Atmost(LetBy(counted.start, now), counted.count)'
                 /\ Atmost(LetBy(counted.start - Window + 1, counted.start - 1), Limit)'
      <3>1. LetBy(counted.start, now)' = LetBy(counted.start, now)
        BY <1>1, <2>1, <2>4 DEF LetBy
      <3>2. LetBy(counted.start - Window + 1, counted.start - 1)' = LetBy(counted.start - Window + 1, counted.start - 1)
        BY <2>1 DEF LetBy
      <3> QED  BY <2>1, <2>4, <3>1, <3>2 DEF LimiterInv, LimiterFits
    <2>5. counted.start = -Window => Atmost(LetBy(now - Window + 1, now), Limit)'
      <3>1. ASSUME counted.start = -Window PROVE Atmost(LetBy(now - Window + 1, now), Limit)
        BY <3>1 DEF LimiterInv, LimiterFits
      <3> QED  BY <1>1, <2>3, <3>1, AtmostSubset
    <2>6. \A x \in admitted' : x[3] < now'
      BY <1>1, <2>1
    <2>7. counted'.start = -Window \/ counted'.start \in 0 .. now'
      BY <1>1, <2>1
    <2>8. LimiterFits'
      BY <2>1, <2>4, <2>5, <2>6, <2>7 DEF LimiterInv, LimiterFits
    <2> QED  BY <2>2, <2>8 DEF LimiterInv
  <1>4. CASE CleanupExpired
    <2>1. /\ counted' = [count |-> 0, start |-> -Window] /\ UNCHANGED <<now, admitted>>
          /\ now - counted.start >= Window
      BY <1>4 DEF CleanupExpired, NoWindow
    <2>2. LimiterTypeOK' /\ AtMostTwice'
      <3>1. counted' \in [count : 0 .. Limit, start : -Window .. now]
        BY <1>1, <2>1
      <3> QED  BY <2>1, <3>1 DEF LimiterInv, LimiterTypeOK, AtMostTwice
    <2>3. Atmost(LetBy(now - Window + 1, now), Limit)
      <3>1. CASE counted.start = -Window
        BY <3>1 DEF LimiterInv, LimiterFits
      <3>2. CASE counted.start # -Window
        <4>1. Atmost(LetBy(counted.start, now), counted.count)
          BY <3>2 DEF LimiterInv, LimiterFits
        <4>2. LetBy(now - Window + 1, now) \in SUBSET LetBy(counted.start, now)
          BY <1>1, <2>1 DEF LetBy
        <4>3. Atmost(LetBy(now - Window + 1, now), counted.count)
          BY <1>1, <4>1, <4>2, AtmostSubset
        <4>4. Cardinality(LetBy(now - Window + 1, now)) \in Nat
          BY <4>3, FS_CardinalityType DEF Atmost
        <4> QED  BY <1>1, <4>3, <4>4 DEF Atmost
      <3> QED  BY <3>1, <3>2
    <2>4. LetBy(now - Window + 1, now)' = LetBy(now - Window + 1, now)
      BY <2>1 DEF LetBy
    <2>5. Atmost(LetBy(now - Window + 1, now), Limit)'
      BY <2>3, <2>4
    <2>6. \A x \in admitted' : x[3] < now'
      BY <2>1 DEF LimiterInv, LimiterFits
    <2>7. counted'.start = -Window
      BY <2>1
    <2>8. LimiterFits'
      BY <2>1, <2>5, <2>6, <2>7 DEF LimiterInv, LimiterFits
    <2> QED  BY <2>2, <2>8 DEF LimiterInv
  <1>5. CASE ResetLimit
    <2>1. counted' = [count |-> 0, start |-> -Window] /\ admitted' = {} /\ now' = now
      BY <1>5 DEF ResetLimit, NoWindow
    <2>2. LimiterTypeOK'
      <3>1. counted' \in [count : 0 .. Limit, start : -Window .. now]
        BY <1>1, <2>1
      <3> QED  BY <1>1, <2>1, <3>1 DEF LimiterTypeOK
    <2>3. \A s, t : LetBy(s, t)' = {}
      BY <2>1 DEF LetBy
    <2>4. Atmost({}, Limit) /\ Cardinality({}) = 0
      BY <1>1, AtmostNone, FS_EmptySet
    <2>5. AtMostTwice'
      <3> SUFFICES ASSUME NEW t \in 0 .. MaxNow
                   PROVE  Cardinality({x \in admitted' : x[3] \in t .. t + Window - 1}) <= 2 * Limit
        BY DEF AtMostTwice
      <3>1. {x \in admitted' : x[3] \in t .. t + Window - 1} = {}
        BY <2>1
      <3>2. Cardinality({x \in admitted' : x[3] \in t .. t + Window - 1}) = 0
        BY <2>4, <3>1
      <3>3. 0 <= 2 * Limit
        BY <1>1
      <3> QED  BY <3>2, <3>3
    <2>6. Atmost(LetBy(now - Window + 1, now), Limit)'
      BY <2>3, <2>4
    <2>7. LimiterFits'
      <3>1. IsFiniteSet(admitted') /\ counted'.start = -Window /\ \A x \in admitted' : x[3] < now'
        BY <2>1, FS_EmptySet
      <3> QED  BY <2>6, <3>1 DEF LimiterFits
    <2> QED  BY <2>2, <2>5, <2>7 DEF LimiterInv
  <1>6. CASE \E x : /\ x[3] = now /\ admitted' = admitted \cup {x} /\ now' = now
                    /\ Evaluate(1).count <= Limit /\ counted' = Evaluate(1)
    BY <1>6, AdmitTwice
  <1> QED  BY <1>2, <1>3, <1>4, <1>5, <1>6

LEMMA LimiterBegins == PipelineInit => LimiterInv
  <1> SUFFICES ASSUME PipelineInit PROVE LimiterInv
    OBVIOUS
  <1>1. /\ now = 0 /\ counted = [count |-> 0, start |-> -Window] /\ admitted = {}
        /\ Window \in Nat \ {0} /\ Limit \in Nat /\ MaxNow \in Nat
    BY PipelineAssumption DEF PipelineInit, NoWindow
  <1>2. Atmost({}, Limit) /\ Cardinality({}) = 0 /\ IsFiniteSet({})
    BY <1>1, AtmostNone, FS_EmptySet
  <1>3. LetBy(now - Window + 1, now) = {} /\ \A t : {x \in admitted : x[3] \in t .. t + Window - 1} = {}
    BY <1>1 DEF LetBy
  <1>4. LimiterTypeOK
    <2>1. counted \in [count : 0 .. Limit, start : -Window .. now]
      BY <1>1
    <2> QED  BY <1>1, <2>1 DEF LimiterTypeOK
  <1>5. AtMostTwice
    BY <1>1, <1>2, <1>3 DEF AtMostTwice
  <1>6. LimiterFits
    <2>1. counted.start = -Window
      BY <1>1
    <2> QED  BY <1>1, <1>2, <1>3, <2>1 DEF LimiterFits
  <1> QED  BY <1>4, <1>5, <1>6 DEF LimiterInv

LEMMA LimiterInvariance == PipelineSpec => []LimiterInv
  <1>1. ASSUME LimiterInv, [PipelineNext]_pipelinevars PROVE LimiterInv'
    <2>1. CASE UNCHANGED <<counted, now, admitted>>
      BY <1>1, <2>1, LimiterStep
    <2>2. CASE Tick \/ CleanupExpired \/ ResetLimit
      BY <1>1, <2>2, LimiterStep
    <2>3. ASSUME NEW r \in Requests, RateLimit(r), UNCHANGED <<stack, now, events>> PROVE LimiterInv'
      <3>1. CASE UNCHANGED <<counted, admitted>>
        BY <1>1, <2>3, <3>1, LimiterStep
      <3>2. CASE ~UNCHANGED <<counted, admitted>>
        <4>1. /\ Evaluate(1).count <= Limit /\ counted' = Evaluate(1)
              /\ admitted' = admitted \cup {<<r, req[r].at, now>>}
          BY <2>3, <3>2 DEF RateLimit
        <4> DEFINE x == <<r, req[r].at, now>>
        <4>2. x[3] = now /\ admitted' = admitted \cup {x} /\ now' = now
          BY <2>3, <4>1
        <4> HIDE DEF x
        <4> QED  BY <1>1, <4>1, <4>2, LimiterStep
      <3> QED  BY <3>1, <3>2
    <2> QED  BY <1>1, <2>1, <2>2, <2>3 DEF PipelineNext, pipelinevars
  <1> QED  BY <1>1, LimiterBegins, PTL DEF PipelineSpec

\* No stretch of a window's length has more than twice the limit.
THEOREM AtMostTwiceHolds == PipelineSpec => []AtMostTwice
  BY LimiterInvariance, PTL DEF LimiterInv

----------------------------------------------------------------------------
(* The way up through the middleware.                                       *)

\* What holds at the bottom, and above whatever it holds at, holds at the top.
LEMMA Upwards ==
  ASSUME NEW n \in Nat, NEW Q, n \in Q, \A i \in 1 .. n : i \in Q => i - 1 \in Q
  PROVE  \A i \in 0 .. n : i \in Q
  <1> DEFINE bad == {i \in 0 .. n : i \notin Q}
  <1>1. CASE bad = {}
    BY <1>1
  <1>2. CASE bad # {}
    <2>1. bad \subseteq 0 .. n /\ IsFiniteSet(0 .. n)
      BY FS_Interval
    <2>2. IsFiniteSet(bad) /\ bad \subseteq Int
      BY <2>1, FS_Subset
    <2> HIDE DEF bad
    <2>3. PICK m \in bad : \A x \in bad : x <= m
      BY <1>2, <2>2, FiniteMax
    <2>4. m \in 0 .. n /\ m \notin Q
      BY <2>3 DEF bad
    <2>5. m + 1 \in 1 .. n /\ (m + 1) - 1 = m
      BY <2>4
    <2>6. m + 1 \notin Q
      BY <2>4, <2>5
    <2>7. m + 1 \in bad
      BY <2>5, <2>6 DEF bad
    <2> QED  BY <2>3, <2>4, <2>7
  <1> QED  BY <1>1, <1>2

\* The recursion of Unwind has a solution.
Unwound(A, n, S, G, x) ==
    A \in [0 .. n -> S] /\ A[n] = x /\ \A i \in 0 .. n - 1 : A[i] = G[i + 1][A[i + 1]]

LEMMA AnswersExist ==
  ASSUME NEW n \in Nat, NEW S, NEW G \in [1 .. n -> [S -> S]], NEW x \in S
  PROVE  \E A : Unwound(A, n, S, G, x)
  <1> DEFINE Solves(A, k) == A[n] = x /\ \A i \in k .. n - 1 : A[i] = G[i + 1][A[i + 1]]
             Q == {k \in 0 .. n : \E A \in [0 .. n -> S] : Solves(A, k)}
  <1>1. n \in Q
    <2> DEFINE A == [i \in 0 .. n |-> x]
    <2>1. A \in [0 .. n -> S] /\ A[n] = x /\ n .. n - 1 = {}
      OBVIOUS
    <2> HIDE DEF A
    <2> QED  BY <2>1
  <1>2. ASSUME NEW k \in 1 .. n, k \in Q PROVE k - 1 \in Q
    <2>1. PICK A \in [0 .. n -> S] : Solves(A, k)
      BY <1>2
    <2> DEFINE B == [A EXCEPT ![k - 1] = G[k][A[k]]]
    <2>2. k - 1 \in 0 .. n /\ k \in 0 .. n /\ k \in 1 .. n /\ k - 1 # k /\ k - 1 # n /\ n \in 0 .. n
      OBVIOUS
    <2>3. G[k] \in [S -> S] /\ G[k][A[k]] \in S
      BY <2>1, <2>2
    <2>4. /\ B \in [0 .. n -> S] /\ B[k - 1] = G[k][A[k]]
          /\ \A i \in 0 .. n : i # k - 1 => B[i] = A[i]
      BY <2>1, <2>2, <2>3
    <2> HIDE DEF B
    <2>5. ASSUME NEW i \in (k - 1) .. n - 1 PROVE B[i] = G[i + 1][B[i + 1]]
      <3>1. i \in 0 .. n /\ i + 1 \in 0 .. n /\ i + 1 # k - 1 /\ (i = k - 1 \/ i \in k .. n - 1)
        BY <2>2
      <3>2. CASE i = k - 1
        <4>1. i + 1 = k
          BY <3>2
        <4> QED  BY <2>2, <2>4, <3>2, <4>1
      <3>3. CASE i \in k .. n - 1
        <4>1. i # k - 1
          BY <3>3
        <4> QED  BY <2>1, <2>4, <3>1, <3>3, <4>1
      <3> QED  BY <3>1, <3>2, <3>3
    <2>6. Solves(B, k - 1)
      BY <2>1, <2>2, <2>4, <2>5
    <2> HIDE DEF Solves
    <2> QED  BY <2>2, <2>4, <2>6
  <1>3. 0 \in Q
    <2> HIDE DEF Q
    <2>1. \A i \in 0 .. n : i \in Q
      BY <1>1, <1>2, Upwards
    <2> QED  BY <2>1
  <1>4. PICK A \in [0 .. n -> S] : Solves(A, 0)
    BY <1>3
  <1> QED  BY <1>4 DEF Unwound

\* Every stack uses each middleware at most once, and authz and audit.
StacksFit ==
    \A s \in Stacks :
        /\ \A i, j \in DOMAIN s : s[i] = s[j] => i = j
        /\ \E i \in DOMAIN s : s[i] = "authz"
        /\ \E i \in DOMAIN s : s[i] = "audit"

Codes == {200, 400, 401, 403, 404, 429, 500}
Events == Seq({"success", "failure", "denied"})
Answered == [thrown : BOOLEAN, status : Codes, events : Events]

\* The event of an answer agrees with it.
Agrees(ans) ==
    ans.events # <<>> =>
        /\ ans.events[1] = "success" <=> ~ans.thrown /\ ans.status < 400
        /\ ans.events[1] = "denied" <=> ~ans.thrown /\ ans.status = 403

\* There is an event when audit is among the middleware from i to n, and one only.
AuditedOnce(r, ans, i, n) ==
    Len(ans.events) = IF ~req[r].kind.excluded /\ \E j \in i .. n : stack[j] = "audit" THEN 1 ELSE 0

Changed(res, ans, f, c) == res \in Answered /\ res.thrown = f /\ res.status = c /\ res.events = ans.events

LEMMA AnswersChange ==
  ASSUME NEW ans \in Answered, NEW f \in BOOLEAN, NEW c \in Codes
  PROVE  Changed([ans EXCEPT !.thrown = f, !.status = c], ans, f, c)
  BY DEF Answered, Changed

\* What authn, audit and the others answer for the middleware below them.
Caught(res, ans, excluded) ==
    /\ res \in Answered /\ res.events = ans.events
    /\ ~ans.thrown => res = ans
    /\ ans.thrown => res = ans \/ res.status = 500
    /\ ans.thrown /\ ~excluded => res.thrown = FALSE

LEMMA AuthnAnswered ==
  ASSUME NEW r, NEW ans \in Answered
  PROVE  Caught(MiddlewareAnswers("authn", r, ans), ans, req[r].kind.excluded)
  <1>1. MiddlewareAnswers("authn", r, ans) = AuthnAnswers(r, ans)
    BY DEF MiddlewareAnswers
  <1>2. CASE ans.thrown /\ ~req[r].kind.excluded
    <2>1. PICK f \in BOOLEAN, c \in Codes : f = FALSE /\ c = 500
      <3>1. 500 \in Codes /\ FALSE \in BOOLEAN
        BY DEF Codes
      <3> QED  BY <3>1
    <2>2. MiddlewareAnswers("authn", r, ans) = [ans EXCEPT !.thrown = f, !.status = c]
      BY <1>1, <1>2, <2>1 DEF AuthnAnswers
    <2>3. Changed(MiddlewareAnswers("authn", r, ans), ans, f, c)
      BY <2>2, AnswersChange
    <2> QED  BY <1>2, <2>1, <2>3 DEF Changed, Caught
  <1>3. CASE ~(ans.thrown /\ ~req[r].kind.excluded)
    <2>1. MiddlewareAnswers("authn", r, ans) = ans
      BY <1>1, <1>3 DEF AuthnAnswers
    <2> QED  BY <1>3, <2>1 DEF Caught
  <1> QED  BY <1>2, <1>3

LEMMA AuditAnswered ==
  ASSUME NEW r, NEW ans \in Answered
  PROVE  LET res == MiddlewareAnswers("audit", r, ans)
         IN  /\ res \in Answered /\ res.thrown = ans.thrown /\ res.status = ans.status
             /\ res.events = IF req[r].kind.excluded THEN ans.events ELSE Append(ans.events, Outcome(ans))
  <1>1. MiddlewareAnswers("audit", r, ans) = AuditAnswers(r, ans)
    BY DEF MiddlewareAnswers
  <1>2. CASE req[r].kind.excluded
    BY <1>1, <1>2 DEF AuditAnswers
  <1>3. CASE ~req[r].kind.excluded
    <2>1. PICK o \in {"success", "failure", "denied"} : o = Outcome(ans)
      BY DEF Outcome
    <2>2. PICK e \in Events : e = Append(ans.events, o)
      <3>1. ans.events \in Events
        BY DEF Answered
      <3>2. Append(ans.events, o) \in Events
        BY <3>1 DEF Events
      <3> QED  BY <3>2
    <2>3. MiddlewareAnswers("audit", r, ans) = [ans EXCEPT !.events = e]
      BY <1>1, <1>3, <2>1, <2>2 DEF AuditAnswers
    <2>4. /\ MiddlewareAnswers("audit", r, ans) \in Answered
          /\ MiddlewareAnswers("audit", r, ans).thrown = ans.thrown
          /\ MiddlewareAnswers("audit", r, ans).status = ans.status
          /\ MiddlewareAnswers("audit", r, ans).events = e
      BY <2>3 DEF Answered
    <2> QED  BY <1>3, <2>1, <2>2, <2>4
  <1> QED  BY <1>2, <1>3

LEMMA OthersAnswered ==
  ASSUME NEW r, NEW ans, NEW name, name # "authn", name # "audit"
  PROVE  MiddlewareAnswers(name, r, ans) = ans
  BY DEF MiddlewareAnswers

LEMMA AnswersAreFit ==
  ASSUME NEW r, NEW name, NEW ans \in Answered
  PROVE  MiddlewareAnswers(name, r, ans) \in Answered
  <1>1. CASE name = "authn"
    BY <1>1, AuthnAnswered DEF Caught
  <1>2. CASE name = "audit"
    BY <1>2, AuditAnswered
  <1>3. CASE name # "authn" /\ name # "audit"
    <2>1. MiddlewareAnswers(name, r, ans) = ans
      BY <1>3, OthersAnswered
    <2> QED  BY <2>1
  <1> QED  BY <1>1, <1>2, <1>3

\* The answers that a request gets on its way up.
LEMMA UnwindIs ==
  ASSUME NEW r \in Requests, req[r].at \in Nat, req[r].thrown \in BOOLEAN, req[r].status \in Codes,
         events[r] \in Events, Unwind(r)
  PROVE  \E A \in [0 .. req[r].at -> Answered] :
            /\ A[req[r].at] = [thrown |-> req[r].thrown, status |-> req[r].status, events |-> events[r]]
            /\ \A i \in 1 .. req[r].at : A[i - 1] = MiddlewareAnswers(stack[i], r, A[i])
            /\ req' = [req EXCEPT ![r].way = "done", ![r].at = 0, ![r].thrown = A[0].thrown,
                                  ![r].status = IF A[0].thrown THEN 500 ELSE A[0].status]
            /\ events' = [events EXCEPT ![r] = A[0].events]
  <1> DEFINE n == req[r].at
             x == [thrown |-> req[r].thrown, status |-> req[r].status, events |-> events[r]]
             Given[i \in 0 .. n] == IF i = n THEN x ELSE MiddlewareAnswers(stack[i + 1], r, Given[i + 1])
  <1>1. /\ req' = [req EXCEPT ![r].way = "done", ![r].at = 0, ![r].thrown = Given[0].thrown,
                              ![r].status = IF Given[0].thrown THEN 500 ELSE Given[0].status]
        /\ events' = [events EXCEPT ![r] = Given[0].events]
    BY DEF Unwind
  <1>2. n \in Nat /\ x \in Answered
    BY DEF Answered, Codes
  <1>3. \E A \in [0 .. n -> Answered] :
           A = [i \in 0 .. n |-> IF i = n THEN x ELSE MiddlewareAnswers(stack[i + 1], r, A[i + 1])]
    <2> DEFINE G == [i \in 1 .. n |-> [ans \in Answered |-> MiddlewareAnswers(stack[i], r, ans)]]
    <2>1. \A i \in 1 .. n : [ans \in Answered |-> MiddlewareAnswers(stack[i], r, ans)] \in [Answered -> Answered]
      BY AnswersAreFit
    <2>2. G \in [1 .. n -> [Answered -> Answered]]
      BY <2>1
    <2>3. \A i \in 1 .. n : \A ans \in Answered : G[i][ans] = MiddlewareAnswers(stack[i], r, ans)
      OBVIOUS
    <2> HIDE DEF n, x, G, Given
    <2>4. PICK A \in [0 .. n -> Answered] : A[n] = x /\ \A i \in 0 .. n - 1 : A[i] = G[i + 1][A[i + 1]]
      <3>1. n \in Nat /\ x \in Answered
        BY <1>2
      <3>2. \E A : Unwound(A, n, Answered, G, x)
        BY <3>1, <2>2, AnswersExist
      <3> QED  BY <3>2 DEF Unwound
    <2>5. ASSUME NEW i \in 0 .. n
          PROVE  A[i] = IF i = n THEN x ELSE MiddlewareAnswers(stack[i + 1], r, A[i + 1])
      <3>1. CASE i = n
        BY <2>4, <3>1
      <3>2. CASE i # n
        <4>1. i + 1 \in 1 .. n /\ i + 1 \in 0 .. n /\ i \in 0 .. n - 1
          BY <1>2, <3>2
        <4>2. A[i + 1] \in Answered
          BY <2>4, <4>1
        <4>3. A[i] = G[i + 1][A[i + 1]]
          BY <2>4, <4>1
        <4> QED  BY <2>3, <3>2, <4>1, <4>2, <4>3
      <3> QED  BY <3>1, <3>2
    <2>6. A = [i \in 0 .. n |-> IF i = n THEN x ELSE MiddlewareAnswers(stack[i + 1], r, A[i + 1])]
      BY <2>4, <2>5
    <2> QED  BY <2>4, <2>6
  <1>4. Given = [i \in 0 .. n |-> IF i = n THEN x ELSE MiddlewareAnswers(stack[i + 1], r, Given[i + 1])]
    <2> HIDE DEF n, x
    <2> QED  BY <1>3 DEF Given
  <1> HIDE DEF n, x, Given
  <1>5. Given \in [0 .. n -> Answered]
    <2>1. PICK A \in [0 .. n -> Answered] :
             A = [i \in 0 .. n |-> IF i = n THEN x ELSE MiddlewareAnswers(stack[i + 1], r, A[i + 1])]
      BY <1>3
    <2> DEFINE Q == {i \in 0 .. n : Given[i] = A[i]}
    <2>2. n \in Q /\ \A i \in 1 .. n : i \in Q => i - 1 \in Q
      <3>1. Given[n] = x /\ A[n] = x /\ n \in 0 .. n
        BY <1>2, <1>4, <2>1
      <3>2. \A i \in 1 .. n : /\ i - 1 \in 0 .. n /\ i - 1 # n /\ (i - 1) + 1 = i
        BY <1>2
      <3>3. ASSUME NEW i \in 0 .. n, i # n
            PROVE  /\ Given[i] = MiddlewareAnswers(stack[i + 1], r, Given[i + 1])
                   /\ A[i] = MiddlewareAnswers(stack[i + 1], r, A[i + 1])
        BY <1>4, <2>1, <3>3
      <3> QED  BY <3>1, <3>2, <3>3
    <2>3. \A i \in 0 .. n : i \in Q
      <3> HIDE DEF Q
      <3> QED  BY <1>2, <2>2, Upwards
    <2>4. \A i \in 0 .. n : Given[i] \in Answered
      BY <2>1, <2>3
    <2>5. Given = [i \in 0 .. n |-> Given[i]]
      BY <1>4
    <2> QED  BY <2>4, <2>5
  <1>6. Given[n] = x
    BY <1>2, <1>4
  <1>7. \A i \in 1 .. n : Given[i - 1] = MiddlewareAnswers(stack[i], r, Given[i])
    <2>1. \A i \in 1 .. n : /\ i - 1 \in 0 .. n /\ i - 1 # n /\ (i - 1) + 1 = i
      BY <1>2
    <2> QED  BY <1>4, <2>1
  <1>8. \E A \in [0 .. n -> Answered] :
            /\ A[n] = x /\ \A i \in 1 .. n : A[i - 1] = MiddlewareAnswers(stack[i], r, A[i])
            /\ req' = [req EXCEPT ![r].way = "done", ![r].at = 0, ![r].thrown = A[0].thrown,
                                  ![r].status = IF A[0].thrown THEN 500 ELSE A[0].status]
            /\ events' = [events EXCEPT ![r] = A[0].events]
    BY <1>1, <1>5, <1>6, <1>7
  <1> QED  BY <1>8 DEF n, x

----------------------------------------------------------------------------
(* A request on its way down the stack and up again.                        *)

PermittedAs(q) == q.identified /\ (q.kind.role = "admin" \/ q.kind.read)

\* The answer to a request q with the events e that has gone through the stack s.
SettledWell(s, q, e) ==
    /\ Len(e) <= 1
    /\ e # <<>> => /\ e[1] = "success" <=> q.status < 400
                   /\ e[1] = "denied" <=> q.status = 403
    /\ q.ran => Len(e) = 1
    /\ s[1] = "authn" /\ ~q.kind.excluded => q.thrown = FALSE

\* Where a request may be: below authz only with the permission, at the bottom of the
\* stack after the handler, above the outermost authn without a throw.
Fits(s, q, e) ==
    /\ q.at <= Len(s) + 1
    /\ q.way = "new" => q.at = 0
    /\ q.way = "down" =>
          /\ q.at >= 1
          /\ \A i \in 1 .. q.at - 1 : s[i] = "authz" => PermittedAs(q)
    /\ q.way = "up" =>
          /\ q.at <= Len(s)
          /\ q.ran => q.at = Len(s)
          /\ q.at = 0 /\ s[1] = "authn" => q.thrown = FALSE
    /\ q.way \in {"new", "down"} => q.thrown = FALSE /\ q.ran = FALSE
    /\ q.way # "done" => e = <<>>
    /\ q.way = "done" => SettledWell(s, q, e)
    /\ q.identified => ~q.kind.excluded
    /\ q.ran => PermittedAs(q)

Journey == \A r \in Requests : Fits(stack, req[r], events[r])

Moves(r, q) == q \in Req /\ q.kind = req[r].kind /\ req' = [req EXCEPT ![r] = q]

Ways == {"new", "down", "up", "done"}

LEMMA ReqIs == Req = [kind : Kind, at : Nat, way : Ways, thrown : BOOLEAN, identified : BOOLEAN,
                      ctx : BOOLEAN, ran : BOOLEAN, status : Codes]
  BY DEF Req, Ways, Codes

LEMMA Consts == /\ \E w \in Ways : w = "down"
                /\ \E w \in Ways : w = "up"
                /\ \E f \in BOOLEAN : f = TRUE
  BY DEF Ways

\* What the middleware may do to a request on the way down.
LEMMA GoingOn ==
  ASSUME NEW r \in Requests, req \in [Requests -> Req], GoesOn(r)
  PROVE  \E q : /\ Moves(r, q) /\ q.at = req[r].at + 1 /\ q.way = req[r].way
                /\ q.thrown = req[r].thrown /\ q.identified = req[r].identified /\ q.ran = req[r].ran
  <1>1. PICK n \in Nat : n = req[r].at + 1
    BY ReqIs
  <1> DEFINE q == [req[r] EXCEPT !.at = n]
  <1>2. req' = [req EXCEPT ![r] = q]
    BY <1>1 DEF GoesOn
  <1>3. /\ q \in Req /\ q.at = n /\ q.way = req[r].way /\ q.kind = req[r].kind
        /\ q.thrown = req[r].thrown /\ q.identified = req[r].identified /\ q.ran = req[r].ran
    BY ReqIs
  <1> HIDE DEF q
  <1> QED  BY <1>1, <1>2, <1>3 DEF Moves

LEMMA Replying ==
  ASSUME NEW r \in Requests, req \in [Requests -> Req], req[r].at >= 1,
         NEW code \in Codes, Replies(r, code)
  PROVE  \E q : /\ Moves(r, q) /\ q.at = req[r].at - 1 /\ q.way = "up"
                /\ q.thrown = req[r].thrown /\ q.identified = req[r].identified /\ q.ran = req[r].ran
  <1>1. PICK n \in Nat, w \in Ways, c \in Codes :
           n = req[r].at - 1 /\ w = "up" /\ c = code
    <2>1. req[r].at - 1 \in Nat
      BY ReqIs
    <2> QED  BY <2>1, Consts
  <1> DEFINE q == [req[r] EXCEPT !.way = w, !.at = n, !.status = c]
  <1>2. req' = [req EXCEPT ![r] = q]
    BY <1>1 DEF Replies
  <1>3. /\ q \in Req /\ q.at = n /\ q.way = w /\ q.kind = req[r].kind
        /\ q.thrown = req[r].thrown /\ q.identified = req[r].identified /\ q.ran = req[r].ran
    BY ReqIs
  <1> HIDE DEF q
  <1> QED  BY <1>1, <1>2, <1>3 DEF Moves

LEMMA Throwing ==
  ASSUME NEW r \in Requests, req \in [Requests -> Req], req[r].at >= 1, Throws(r)
  PROVE  \E q : /\ Moves(r, q) /\ q.at = req[r].at - 1 /\ q.way = "up"
                /\ q.identified = req[r].identified /\ q.ran = req[r].ran
  <1>1. PICK n \in Nat, w \in Ways, f \in BOOLEAN :
           n = req[r].at - 1 /\ w = "up" /\ f = TRUE
    <2>1. req[r].at - 1 \in Nat
      BY ReqIs
    <2> QED  BY <2>1, Consts
  <1> DEFINE q == [req[r] EXCEPT !.at = n, !.way = w, !.thrown = f]
  <1>2. req' = [req EXCEPT ![r] = q]
    BY <1>1 DEF Throws
  <1>3. /\ q \in Req /\ q.at = n /\ q.way = w /\ q.kind = req[r].kind
        /\ q.identified = req[r].identified /\ q.ran = req[r].ran
    BY ReqIs
  <1> HIDE DEF q
  <1> QED  BY <1>1, <1>2, <1>3 DEF Moves

LEMMA Arriving ==
  ASSUME NEW r \in Requests, req \in [Requests -> Req], Arrive(r)
  PROVE  \E q : /\ Moves(r, q) /\ q.at = 1 /\ q.way = "down"
                /\ q.thrown = req[r].thrown /\ q.identified = req[r].identified /\ q.ran = req[r].ran
  <1>1. PICK n \in Nat, w \in Ways : n = 1 /\ w = "down"
    BY Consts
  <1> DEFINE q == [req[r] EXCEPT !.at = n, !.way = w]
  <1>2. req' = [req EXCEPT ![r] = q]
    BY <1>1 DEF Arrive
  <1>3. /\ q \in Req /\ q.at = n /\ q.way = w /\ q.kind = req[r].kind
        /\ q.thrown = req[r].thrown /\ q.identified = req[r].identified /\ q.ran = req[r].ran
    BY ReqIs
  <1> HIDE DEF q
  <1> QED  BY <1>1, <1>2, <1>3 DEF Moves

LEMMA Identifying ==
  ASSUME NEW r \in Requests, req \in [Requests -> Req],
         req' = [req EXCEPT ![r].at = @ + 1, ![r].identified = TRUE]
  PROVE  \E q : /\ Moves(r, q) /\ q.at = req[r].at + 1 /\ q.way = req[r].way
                /\ q.thrown = req[r].thrown /\ q.ran = req[r].ran
                /\ (PermittedAs(req[r]) => PermittedAs(q))
  <1>1. PICK n \in Nat, f \in BOOLEAN : n = req[r].at + 1 /\ f = TRUE
    BY ReqIs, Consts
  <1> DEFINE q == [req[r] EXCEPT !.at = n, !.identified = f]
  <1>2. req' = [req EXCEPT ![r] = q]
    BY <1>1
  <1>3. /\ q \in Req /\ q.at = n /\ q.way = req[r].way /\ q.kind = req[r].kind
        /\ q.thrown = req[r].thrown /\ q.ran = req[r].ran /\ q.identified = f
    BY ReqIs
  <1> HIDE DEF q
  <1>4. Moves(r, q) /\ q.at = req[r].at + 1
    BY <1>1, <1>2, <1>3 DEF Moves
  <1>5. PermittedAs(req[r]) => PermittedAs(q)
    BY <1>1, <1>3 DEF PermittedAs
  <1> QED  BY <1>3, <1>4, <1>5

LEMMA Entering ==
  ASSUME NEW r \in Requests, req \in [Requests -> Req],
         req' = [req EXCEPT ![r].at = @ + 1, ![r].ctx = TRUE]
  PROVE  \E q : /\ Moves(r, q) /\ q.at = req[r].at + 1 /\ q.way = req[r].way
                /\ q.thrown = req[r].thrown /\ q.identified = req[r].identified /\ q.ran = req[r].ran
  <1>1. PICK n \in Nat, f \in BOOLEAN : n = req[r].at + 1 /\ f = TRUE
    BY ReqIs, Consts
  <1> DEFINE q == [req[r] EXCEPT !.at = n, !.ctx = f]
  <1>2. req' = [req EXCEPT ![r] = q]
    BY <1>1
  <1>3. /\ q \in Req /\ q.at = n /\ q.way = req[r].way /\ q.kind = req[r].kind
        /\ q.thrown = req[r].thrown /\ q.identified = req[r].identified /\ q.ran = req[r].ran
    BY ReqIs
  <1> HIDE DEF q
  <1> QED  BY <1>1, <1>2, <1>3 DEF Moves

LEMMA Handling ==
  ASSUME NEW r \in Requests, req \in [Requests -> Req], req[r].at >= 1, Handler(r)
  PROVE  \E q : /\ Moves(r, q) /\ q.at = req[r].at - 1 /\ q.way = "up"
                /\ q.identified = req[r].identified
  <1>1. PICK code \in Codes, thrown \in BOOLEAN :
           req' = [req EXCEPT ![r].way = "up", ![r].at = @ - 1, ![r].ran = TRUE,
                              ![r].status = code, ![r].thrown = thrown]
    <2> DEFINE Runs(code, thrown) ==
                 req' = [req EXCEPT ![r].way = "up", ![r].at = @ - 1, ![r].ran = TRUE,
                                    ![r].status = code, ![r].thrown = thrown]
    <2>1. \E code \in {200, 404}, thrown \in BOOLEAN : Runs(code, thrown)
      BY DEF Handler
    <2> HIDE DEF Runs
    <2>2. {200, 404} \subseteq Codes
      BY DEF Codes
    <2>3. \E code \in Codes, thrown \in BOOLEAN : Runs(code, thrown)
      BY <2>1, <2>2
    <2> QED  BY <2>3 DEF Runs
  <1>2. PICK n \in Nat, w \in Ways, f \in BOOLEAN : n = req[r].at - 1 /\ w = "up" /\ f = TRUE
    <2>1. req[r].at - 1 \in Nat
      BY ReqIs
    <2> QED  BY <2>1, Consts
  <1> DEFINE q == [req[r] EXCEPT !.way = w, !.at = n, !.ran = f, !.status = code, !.thrown = thrown]
  <1>3. req' = [req EXCEPT ![r] = q]
    BY <1>1, <1>2
  <1>4. /\ q \in Req /\ q.at = n /\ q.way = w /\ q.kind = req[r].kind /\ q.identified = req[r].identified
    BY ReqIs
  <1> HIDE DEF q
  <1> QED  BY <1>2, <1>3, <1>4 DEF Moves

\* What is known of a request on its way down, at the middleware it has reached.
LEMMA WayDown ==
  ASSUME NEW r \in Requests, req \in [Requests -> Req], stack \in Seq(Names),
         Fits(stack, req[r], events[r]), req[r].way = "down"
  PROVE  /\ req[r].at \in Nat /\ req[r].at >= 1 /\ req[r].at <= Len(stack) + 1 /\ Len(stack) \in Nat
         /\ \A i \in 1 .. req[r].at - 1 : stack[i] = "authz" => PermittedAs(req[r])
         /\ req[r].thrown = FALSE /\ req[r].ran = FALSE /\ events[r] = <<>>
         /\ req[r].identified => ~req[r].kind.excluded
  <1>1. req[r].at \in Nat
    BY ReqIs
  <1>2. Len(stack) \in Nat
    OBVIOUS
  <1> QED  BY <1>1, <1>2 DEF Fits

\* A step down, past anything but authz or with the permission.
LEMMA FitsBelow ==
  ASSUME NEW r \in Requests, req \in [Requests -> Req], stack \in Seq(Names),
         Fits(stack, req[r], events[r]), req[r].way = "down", req[r].at <= Len(stack), NEW q,
         q.kind = req[r].kind, q.at = req[r].at + 1, q.way = "down", q.thrown = req[r].thrown, q.ran = req[r].ran,
         q.identified => ~q.kind.excluded, PermittedAs(req[r]) => PermittedAs(q),
         stack[req[r].at] = "authz" => PermittedAs(q)
  PROVE  Fits(stack, q, events[r])
  <1>1. /\ req[r].at \in Nat /\ req[r].at >= 1 /\ Len(stack) \in Nat
        /\ \A i \in 1 .. req[r].at - 1 : stack[i] = "authz" => PermittedAs(req[r])
        /\ req[r].thrown = FALSE /\ req[r].ran = FALSE /\ events[r] = <<>>
    BY WayDown
  <1>2. q.at <= Len(stack) + 1 /\ q.at >= 1
    BY <1>1
  <1>3. ASSUME NEW i \in 1 .. q.at - 1, stack[i] = "authz" PROVE PermittedAs(q)
    <2>1. i = req[r].at \/ i \in 1 .. req[r].at - 1
      BY <1>1
    <2> QED  BY <1>1, <1>3, <2>1
  <1> QED  BY <1>1, <1>2, <1>3 DEF Fits

\* A turn: the answer of a middleware that does not call next, or a throw.
LEMMA FitsTurned ==
  ASSUME NEW r \in Requests, req \in [Requests -> Req], stack \in Seq(Names),
         Fits(stack, req[r], events[r]), req[r].way = "down", req[r].at <= Len(stack), NEW q,
         q.kind = req[r].kind, q.at = req[r].at - 1, q.way = "up", q.identified = req[r].identified,
         q.ran = req[r].ran, stack[req[r].at] = "authn" => q.thrown = FALSE
  PROVE  Fits(stack, q, events[r])
  <1>1. /\ req[r].at \in Nat /\ req[r].at >= 1 /\ Len(stack) \in Nat
        /\ req[r].ran = FALSE /\ events[r] = <<>> /\ (req[r].identified => ~req[r].kind.excluded)
    BY WayDown
  <1>2. q.at <= Len(stack) /\ q.at <= Len(stack) + 1 /\ (q.at = 0 => req[r].at = 1)
    BY <1>1
  <1>3. q.way \notin {"new", "down", "done"} /\ q.way # "done" /\ q.way # "new" /\ q.way # "down"
    OBVIOUS
  <1> QED  BY <1>1, <1>2, <1>3 DEF Fits

\* The handler ran at the bottom of a stack with authz.
LEMMA FitsRun ==
  ASSUME NEW r \in Requests, req \in [Requests -> Req], stack \in Seq(Names),
         \E i \in DOMAIN stack : stack[i] = "authz",
         Fits(stack, req[r], events[r]), req[r].way = "down", req[r].at = Len(stack) + 1, NEW q,
         q.kind = req[r].kind, q.at = req[r].at - 1, q.way = "up", q.identified = req[r].identified
  PROVE  Fits(stack, q, events[r])
  <1>1. /\ Len(stack) \in Nat /\ events[r] = <<>> /\ (req[r].identified => ~req[r].kind.excluded)
        /\ \A i \in 1 .. req[r].at - 1 : stack[i] = "authz" => PermittedAs(req[r])
    BY WayDown
  <1>2. PICK i \in 1 .. Len(stack) : stack[i] = "authz"
    OBVIOUS
  <1>3. i \in 1 .. req[r].at - 1 /\ q.at = Len(stack) /\ q.at # 0
    BY <1>1, <1>2
  <1>4. PermittedAs(q)
    BY <1>1, <1>2, <1>3 DEF PermittedAs
  <1>5. q.way # "done" /\ q.way # "new" /\ q.way # "down" /\ q.at <= Len(stack) + 1
    BY <1>1, <1>3
  <1> QED  BY <1>1, <1>3, <1>4, <1>5 DEF Fits

\* Every step of a request but the way up leaves it fit.
LEMMA StepFits ==
  ASSUME NEW r \in Requests, req \in [Requests -> Req], stack \in Seq(Names),
         \E i \in DOMAIN stack : stack[i] = "authz", Fits(stack, req[r], events[r]),
         Arrive(r) \/ Authn(r) \/ Tenant(r) \/ Authz(r) \/ AuditBegins(r) \/ Handler(r) \/ RateLimit(r)
  PROVE  \E q : Moves(r, q) /\ Fits(stack, q, events[r])
  <1>1. req[r].at \in Nat /\ Len(stack) \in Nat /\ (req[r].identified => ~req[r].kind.excluded)
    BY ReqIs DEF Fits
  <1>2. ASSUME req[r].way = "down", req[r].at <= Len(stack), GoesOn(r),
               stack[req[r].at] = "authz" => PermittedAs(req[r])
        PROVE  \E q : Moves(r, q) /\ Fits(stack, q, events[r])
    <2>1. PICK q : /\ Moves(r, q) /\ q.at = req[r].at + 1 /\ q.way = req[r].way
                   /\ q.thrown = req[r].thrown /\ q.identified = req[r].identified /\ q.ran = req[r].ran
      BY <1>2, GoingOn
    <2>2. q.kind = req[r].kind /\ (PermittedAs(req[r]) => PermittedAs(q)) /\ (q.identified => ~q.kind.excluded)
      BY <1>1, <2>1 DEF Moves, PermittedAs
    <2>3. Fits(stack, q, events[r])
      BY <1>2, <2>1, <2>2, FitsBelow
    <2> QED  BY <2>1, <2>3
  <1>3. ASSUME req[r].way = "down", req[r].at <= Len(stack), NEW code \in Codes, Replies(r, code)
        PROVE  \E q : Moves(r, q) /\ Fits(stack, q, events[r])
    <2>1. req[r].at >= 1 /\ req[r].thrown = FALSE
      BY <1>3, WayDown
    <2>2. PICK q : /\ Moves(r, q) /\ q.at = req[r].at - 1 /\ q.way = "up"
                   /\ q.thrown = req[r].thrown /\ q.identified = req[r].identified /\ q.ran = req[r].ran
      BY <1>3, <2>1, Replying
    <2>3. q.kind = req[r].kind /\ q.thrown = FALSE
      BY <2>1, <2>2 DEF Moves
    <2>4. Fits(stack, q, events[r])
      BY <1>3, <2>2, <2>3, FitsTurned
    <2> QED  BY <2>2, <2>4
  <1>4. CASE Arrive(r)
    <2>1. req[r].way = "new"
      BY <1>4 DEF Arrive
    <2>2. PICK q : /\ Moves(r, q) /\ q.at = 1 /\ q.way = "down"
                   /\ q.thrown = req[r].thrown /\ q.identified = req[r].identified /\ q.ran = req[r].ran
      BY <1>4, Arriving
    <2>3. 1 <= Len(stack) + 1 /\ 1 .. q.at - 1 = {}
      BY <1>1, <2>2
    <2>4. q.thrown = FALSE /\ q.ran = FALSE /\ events[r] = <<>> /\ q.kind = req[r].kind
      BY <2>1, <2>2 DEF Fits, Moves
    <2>5. Fits(stack, q, events[r])
      BY <1>1, <2>2, <2>3, <2>4 DEF Fits
    <2> QED  BY <2>2, <2>5
  <1>5. CASE Authn(r)
    <2>1. req[r].way = "down" /\ req[r].at <= Len(stack) /\ stack[req[r].at] = "authn"
      BY <1>5 DEF Authn, Down
    <2>2. CASE GoesOn(r)
      BY <1>2, <2>1, <2>2
    <2>3. CASE Replies(r, 401)
      BY <1>3, <2>1, <2>3 DEF Codes
    <2>4. CASE ~req[r].kind.excluded /\ req' = [req EXCEPT ![r].at = @ + 1, ![r].identified = TRUE]
      <3>1. PICK q : /\ Moves(r, q) /\ q.at = req[r].at + 1 /\ q.way = req[r].way
                     /\ q.thrown = req[r].thrown /\ q.ran = req[r].ran
                     /\ (PermittedAs(req[r]) => PermittedAs(q))
        BY <2>4, Identifying
      <3>2. q.kind = req[r].kind /\ ~q.kind.excluded
        BY <2>4, <3>1 DEF Moves
      <3>3. Fits(stack, q, events[r])
        BY <2>1, <3>1, <3>2, FitsBelow
      <3> QED  BY <3>1, <3>3
    <2> QED  BY <1>5, <2>2, <2>3, <2>4 DEF Authn
  <1>6. CASE Tenant(r)
    <2>1. req[r].way = "down" /\ req[r].at <= Len(stack) /\ stack[req[r].at] = "tenant"
      BY <1>6 DEF Tenant, Down
    <2>2. CASE Replies(r, 400)
      BY <1>3, <2>1, <2>2 DEF Codes
    <2>3. CASE req' = [req EXCEPT ![r].at = @ + 1, ![r].ctx = TRUE]
      <3>1. PICK q : /\ Moves(r, q) /\ q.at = req[r].at + 1 /\ q.way = req[r].way
                     /\ q.thrown = req[r].thrown /\ q.identified = req[r].identified /\ q.ran = req[r].ran
        BY <2>3, Entering
      <3>2. q.kind = req[r].kind /\ (PermittedAs(req[r]) => PermittedAs(q)) /\ (q.identified => ~q.kind.excluded)
        BY <1>1, <3>1 DEF Moves, PermittedAs
      <3>3. Fits(stack, q, events[r])
        BY <2>1, <3>1, <3>2, FitsBelow
      <3> QED  BY <3>1, <3>3
    <2> QED  BY <1>6, <2>2, <2>3 DEF Tenant
  <1>7. CASE Authz(r)
    <2>1. req[r].way = "down" /\ req[r].at <= Len(stack) /\ stack[req[r].at] = "authz"
      BY <1>7 DEF Authz, Down
    <2>2. CASE Permitted(r) /\ GoesOn(r)
      BY <1>2, <2>1, <2>2 DEF Permitted, PermittedAs
    <2>3. CASE Replies(r, 500) \/ Replies(r, 403)
      BY <1>3, <2>1, <2>3 DEF Codes
    <2>4. CASE Throws(r)
      <3>1. req[r].at >= 1
        BY <2>1, WayDown
      <3>2. PICK q : /\ Moves(r, q) /\ q.at = req[r].at - 1 /\ q.way = "up"
                     /\ q.identified = req[r].identified /\ q.ran = req[r].ran
        BY <2>4, <3>1, Throwing
      <3>3. q.kind = req[r].kind /\ stack[req[r].at] # "authn"
        BY <2>1, <3>2 DEF Moves
      <3>4. Fits(stack, q, events[r])
        BY <2>1, <3>2, <3>3, FitsTurned
      <3> QED  BY <3>2, <3>4
    <2> QED  BY <1>7, <2>2, <2>3, <2>4 DEF Authz
  <1>8. CASE AuditBegins(r)
    <2>1. req[r].way = "down" /\ req[r].at <= Len(stack) /\ stack[req[r].at] = "audit" /\ GoesOn(r)
      BY <1>8 DEF AuditBegins, Down
    <2> QED  BY <1>2, <2>1
  <1>9. CASE RateLimit(r)
    <2>1. req[r].way = "down" /\ req[r].at <= Len(stack) /\ stack[req[r].at] = "rateLimit"
      BY <1>9 DEF RateLimit, Down
    <2>2. GoesOn(r) \/ Replies(r, 429)
      BY <1>9 DEF RateLimit
    <2> QED  BY <1>2, <1>3, <2>1, <2>2 DEF Codes
  <1>10. CASE Handler(r)
    <2>1. req[r].way = "down" /\ req[r].at = Len(stack) + 1
      BY <1>10 DEF Handler
    <2>2. req[r].at >= 1
      BY <1>1, <2>1
    <2>3. PICK q : /\ Moves(r, q) /\ q.at = req[r].at - 1 /\ q.way = "up" /\ q.identified = req[r].identified
      BY <1>10, <2>2, Handling
    <2>4. q.kind = req[r].kind
      BY <2>3 DEF Moves
    <2>5. Fits(stack, q, events[r])
      BY <2>1, <2>3, <2>4, FitsRun
    <2> QED  BY <2>3, <2>5
  <1> QED  BY <1>4, <1>5, <1>6, <1>7, <1>8, <1>9, <1>10

\* The outcome that audit writes is that of the answer.
LEMMA OutcomeAgrees ==
  ASSUME NEW ans \in Answered
  PROVE  /\ Outcome(ans) \in {"success", "failure", "denied"}
         /\ Outcome(ans) = "success" <=> ~ans.thrown /\ ans.status < 400
         /\ Outcome(ans) = "denied" <=> ~ans.thrown /\ ans.status = 403
  <1>1. ans.thrown \in BOOLEAN /\ ans.status \in {200, 400, 401, 403, 404, 429, 500}
    BY DEF Answered, Codes
  <1>2. CASE ans.thrown
    BY <1>2 DEF Outcome
  <1>3. CASE ~ans.thrown
    BY <1>1, <1>3 DEF Outcome
  <1> QED  BY <1>2, <1>3

\* A middleware keeps the event true to the answer, and audit adds the only one.
LEMMA AnswersAgree ==
  ASSUME NEW r, NEW n \in Nat, NEW i \in 1 .. n, NEW ans \in Answered, Agrees(ans), AuditedOnce(r, ans, i + 1, n),
         \A j, k \in 1 .. n : stack[j] = "audit" /\ stack[k] = "audit" => j = k
  PROVE  /\ Agrees(MiddlewareAnswers(stack[i], r, ans))
         /\ AuditedOnce(r, MiddlewareAnswers(stack[i], r, ans), i, n)
  <1> DEFINE res == MiddlewareAnswers(stack[i], r, ans)
             seen(k) == \E j \in k .. n : stack[j] = "audit"
  <1>1. \A j : j \in i .. n <=> j = i \/ j \in i + 1 .. n
    OBVIOUS
  <1>2. ans.events \in Seq({"success", "failure", "denied"})
    BY DEF Answered, Events
  <1>3. Len(ans.events) = IF ~req[r].kind.excluded /\ seen(i + 1) THEN 1 ELSE 0
    BY DEF AuditedOnce
  <1>4. CASE stack[i] # "audit"
    <2>1. seen(i) <=> seen(i + 1)
      BY <1>1, <1>4
    <2>2. Agrees(res) /\ res.events = ans.events
      <3>1. CASE stack[i] # "authn"
        <4>1. res = ans
          BY <1>4, <3>1, OthersAnswered
        <4> QED  BY <4>1
      <3>2. CASE stack[i] = "authn"
        <4>1. res = MiddlewareAnswers("authn", r, ans)
          BY <3>2
        <4> HIDE DEF res
        <4>2. res.events = ans.events /\ (res = ans \/ (ans.thrown /\ res.status = 500))
          <5>1. Caught(res, ans, req[r].kind.excluded)
            BY <4>1, AuthnAnswered
          <5> QED  BY <5>1 DEF Caught
        <4>4. CASE res = ans
          BY <4>2, <4>4
        <4>3. CASE ans.thrown /\ res.status = 500
          <5>1. ~(500 < 400) /\ 500 # 403
            OBVIOUS
          <5> QED  BY <4>2, <4>3, <5>1 DEF Agrees
        <4> QED  BY <4>2, <4>3, <4>4
      <3> QED  BY <3>1, <3>2
    <2> HIDE DEF res
    <2>3. Len(res.events) = IF ~req[r].kind.excluded /\ seen(i) THEN 1 ELSE 0
      BY <1>3, <2>1, <2>2
    <2>4. AuditedOnce(r, res, i, n)
      BY <2>3 DEF AuditedOnce
    <2> QED  BY <2>2, <2>4 DEF res
  <1>5. CASE stack[i] = "audit"
    <2>1. seen(i) /\ ~seen(i + 1)
      <3>1. i \in i .. n /\ \A j \in i + 1 .. n : j \in 1 .. n /\ j # i
        OBVIOUS
      <3> QED  BY <1>5, <3>1
    <2>2. Len(ans.events) = 0 /\ ans.events = <<>>
      <3>1. Len(ans.events) = 0
        BY <1>3, <2>1
      <3> QED  BY <1>2, <3>1
    <2>3. /\ res.thrown = ans.thrown /\ res.status = ans.status
          /\ res.events = IF req[r].kind.excluded THEN ans.events ELSE Append(ans.events, Outcome(ans))
      <3>1. res = MiddlewareAnswers("audit", r, ans)
        BY <1>5
      <3> HIDE DEF res
      <3> QED  BY <3>1, AuditAnswered
    <2> HIDE DEF res, seen
    <2>4. CASE req[r].kind.excluded
      <3>1. res.events = <<>> /\ Len(res.events) = 0
        BY <2>2, <2>3, <2>4
      <3>2. Agrees(res)
        BY <3>1 DEF Agrees
      <3>3. AuditedOnce(r, res, i, n)
        BY <2>4, <3>1 DEF AuditedOnce
      <3> QED  BY <3>2, <3>3 DEF res
    <2>5. CASE ~req[r].kind.excluded
      <3>1. PICK o \in {"success", "failure", "denied"} : o = Outcome(ans)
        BY OutcomeAgrees
      <3>2. res.events = <<o>> /\ Len(res.events) = 1 /\ res.events[1] = o
        BY <1>2, <2>2, <2>3, <2>5, <3>1
      <3>3. /\ o = "success" <=> ~ans.thrown /\ ans.status < 400
            /\ o = "denied" <=> ~ans.thrown /\ ans.status = 403
        BY <3>1, OutcomeAgrees
      <3>4. Agrees(res)
        BY <2>3, <3>2, <3>3 DEF Agrees
      <3>5. AuditedOnce(r, res, i, n)
        BY <2>1, <2>5, <3>2 DEF AuditedOnce, seen
      <3> QED  BY <3>4, <3>5 DEF res
    <2> QED  BY <2>4, <2>5
  <1> QED  BY <1>4, <1>5

\* The way up ends with an answer that the event agrees with.
LEMMA UnwindFits ==
  ASSUME NEW r \in Requests, req \in [Requests -> Req], stack \in Seq(Names), events[r] \in Events,
         \A j, k \in DOMAIN stack : stack[j] = stack[k] => j = k,
         \E j \in DOMAIN stack : stack[j] = "audit",
         Fits(stack, req[r], events[r]), Unwind(r)
  PROVE  \E q, e : /\ Moves(r, q) /\ q.at = 0 /\ Fits(stack, q, e)
                   /\ e \in Events /\ events' = [events EXCEPT ![r] = e]
  <1> DEFINE p == req[r]
             n == p.at
  <1>1. /\ n \in Nat /\ Len(stack) \in Nat /\ p \in Req /\ p.way = "up"
        /\ p.thrown \in BOOLEAN /\ p.status \in Codes /\ p.identified \in BOOLEAN /\ p.ran \in BOOLEAN
    <2>1. p \in Req /\ Len(stack) \in Nat
      OBVIOUS
    <2>2. p.way = "up"
      BY DEF Unwind
    <2> QED  BY <2>1, <2>2, ReqIs
  <1>2. /\ n <= Len(stack) /\ events[r] = <<>> /\ (p.ran => n = Len(stack)) /\ (p.ran => PermittedAs(p))
        /\ (p.identified => ~p.kind.excluded) /\ (n = 0 /\ stack[1] = "authn" => p.thrown = FALSE)
    BY <1>1 DEF Fits
  <1>3. PICK A \in [0 .. n -> Answered] :
           /\ A[n] = [thrown |-> p.thrown, status |-> p.status, events |-> events[r]]
           /\ \A i \in 1 .. n : A[i - 1] = MiddlewareAnswers(stack[i], r, A[i])
           /\ req' = [req EXCEPT ![r].way = "done", ![r].at = 0, ![r].thrown = A[0].thrown,
                                 ![r].status = IF A[0].thrown THEN 500 ELSE A[0].status]
           /\ events' = [events EXCEPT ![r] = A[0].events]
    BY <1>1, UnwindIs
  <1>4. \A j, k \in 1 .. n : stack[j] = "audit" /\ stack[k] = "audit" => j = k
    <2>1. \A j \in 1 .. n : j \in DOMAIN stack
      BY <1>1, <1>2
    <2> QED  BY <2>1
  <1> DEFINE Q == {i \in 0 .. n : Agrees(A[i]) /\ AuditedOnce(r, A[i], i + 1, n)}
  <1>5. n \in Q
    <2>1. A[n].events = <<>> /\ Len(A[n].events) = 0 /\ n + 1 .. n = {} /\ n \in 0 .. n
      BY <1>1, <1>2, <1>3
    <2> QED  BY <2>1 DEF Agrees, AuditedOnce
  <1>6. ASSUME NEW i \in 1 .. n, i \in Q PROVE i - 1 \in Q
    <2>1. i \in 0 .. n /\ i - 1 \in 0 .. n /\ (i - 1) + 1 = i
      BY <1>1
    <2>2. A[i] \in Answered /\ Agrees(A[i]) /\ AuditedOnce(r, A[i], i + 1, n)
      BY <1>3, <1>6, <2>1
    <2>3. A[i - 1] = MiddlewareAnswers(stack[i], r, A[i])
      BY <1>3
    <2>4. Agrees(A[i - 1]) /\ AuditedOnce(r, A[i - 1], i, n)
      <3> HIDE DEF n
      <3> QED  BY <1>1, <1>4, <2>2, <2>3, AnswersAgree
    <2> QED  BY <2>1, <2>4
  <1>7. 0 \in Q /\ 0 \in 0 .. n
    <2> HIDE DEF Q, n
    <2>1. \A i \in 0 .. n : i \in Q
      BY <1>1, <1>5, <1>6, Upwards
    <2> QED  BY <1>1, <2>1
  <1>8. PICK ans \in Answered : ans = A[0]
    BY <1>3, <1>7
  <1>9. Agrees(ans) /\ Len(ans.events) = IF ~p.kind.excluded /\ \E j \in 1 .. n : stack[j] = "audit" THEN 1 ELSE 0
    <2>1. Agrees(ans) /\ AuditedOnce(r, ans, 1, n)
      BY <1>7, <1>8
    <2> QED  BY <2>1 DEF AuditedOnce
  <1>10. ans.thrown \in BOOLEAN /\ ans.status \in Codes /\ ans.events \in Events
    BY DEF Answered
  <1>11. stack[1] = "authn" /\ ~p.kind.excluded => ans.thrown = FALSE
    <2> SUFFICES ASSUME stack[1] = "authn", ~p.kind.excluded PROVE ans.thrown = FALSE
      OBVIOUS
    <2>1. CASE n = 0
      <3>1. ans = [thrown |-> p.thrown, status |-> p.status, events |-> events[r]]
        BY <1>3, <1>8, <2>1
      <3> QED  BY <1>2, <2>1, <3>1
    <2>2. CASE n # 0
      <3>1. 1 \in 1 .. n /\ 1 \in 0 .. n /\ 1 - 1 = 0
        BY <1>1, <2>2
      <3>2. A[1] \in Answered /\ ans = MiddlewareAnswers("authn", r, A[1])
        BY <1>3, <1>8, <3>1
      <3>5. Caught(ans, A[1], p.kind.excluded)
        BY <3>2, AuthnAnswered
      <3>3. CASE A[1].thrown
        BY <3>3, <3>5 DEF Caught
      <3>4. CASE ~A[1].thrown
        <4>1. ans = A[1]
          BY <3>4, <3>5 DEF Caught
        <4> QED  BY <1>10, <3>4, <4>1
      <3> QED  BY <3>3, <3>4
    <2> QED  BY <2>1, <2>2
  <1>12. PICK w \in Ways, m \in Nat, f \in BOOLEAN, c \in Codes :
            w = "done" /\ m = 0 /\ f = ans.thrown /\ c = IF ans.thrown THEN 500 ELSE ans.status
    <2>1. "done" \in Ways /\ 0 \in Nat /\ (IF ans.thrown THEN 500 ELSE ans.status) \in Codes
      BY <1>10 DEF Ways, Codes
    <2> QED  BY <1>10, <2>1
  <1> DEFINE q == [req[r] EXCEPT !.way = w, !.at = m, !.thrown = f, !.status = c]
  <1>13. req' = [req EXCEPT ![r] = q]
    <2>1. req' = [req EXCEPT ![r].way = "done", ![r].at = 0, ![r].thrown = A[0].thrown,
                             ![r].status = IF A[0].thrown THEN 500 ELSE A[0].status]
      BY <1>3
    <2>2. A[0].thrown = f /\ (IF A[0].thrown THEN 500 ELSE A[0].status) = c /\ w = "done" /\ m = 0
      BY <1>8, <1>12
    <2>3. req' = [req EXCEPT ![r].way = w, ![r].at = m, ![r].thrown = f, ![r].status = c]
      BY <2>1, <2>2
    <2> QED  BY <2>3
  <1>14. /\ q \in Req /\ q.way = w /\ q.at = m /\ q.kind = p.kind /\ q.identified = p.identified
         /\ q.ran = p.ran /\ q.thrown = f /\ q.status = c
    <2>1. q \in Req
      BY <1>1, ReqIs
    <2>2. q.way = w /\ q.at = m /\ q.thrown = f /\ q.status = c
      BY <1>1, ReqIs
    <2>3. q.kind = p.kind /\ q.identified = p.identified /\ q.ran = p.ran
      BY <1>1, ReqIs
    <2> QED  BY <2>1, <2>2, <2>3
  <1> HIDE DEF q
  <1>15. SettledWell(stack, q, ans.events)
    <2>1. Len(ans.events) <= 1
      BY <1>9
    <2>2. ASSUME ans.events # <<>>
          PROVE  /\ ans.events[1] = "success" <=> q.status < 400
                 /\ ans.events[1] = "denied" <=> q.status = 403
      <3>1. /\ ans.events[1] = "success" <=> ~ans.thrown /\ ans.status < 400
            /\ ans.events[1] = "denied" <=> ~ans.thrown /\ ans.status = 403
        BY <1>9, <2>2 DEF Agrees
      <3>2. CASE ans.thrown
        <4>1. q.status = 500 /\ ~(500 < 400) /\ 500 # 403
          BY <1>12, <1>14, <3>2
        <4> QED  BY <3>1, <3>2, <4>1
      <3>3. CASE ~ans.thrown
        <4>1. q.status = ans.status
          BY <1>12, <1>14, <3>3
        <4> QED  BY <3>1, <3>3, <4>1
      <3> QED  BY <3>2, <3>3
    <2>3. q.ran => Len(ans.events) = 1
      <3>1. ASSUME p.ran PROVE Len(ans.events) = 1
        <4>1. ~p.kind.excluded /\ n = Len(stack)
          BY <1>2, <3>1 DEF PermittedAs
        <4>2. \E j \in 1 .. n : stack[j] = "audit"
          <5>1. DOMAIN stack = 1 .. Len(stack)
            OBVIOUS
          <5> QED  BY <4>1, <5>1
        <4> QED  BY <1>9, <4>1, <4>2
      <3> QED  BY <1>14, <3>1
    <2>4. stack[1] = "authn" /\ ~q.kind.excluded => q.thrown = FALSE
      BY <1>11, <1>12, <1>14
    <2> QED  BY <2>1, <2>2, <2>3, <2>4 DEF SettledWell
  <1>16. Fits(stack, q, ans.events)
    <2>1. q.at <= Len(stack) + 1 /\ q.way = "done" /\ q.way \notin {"new", "down", "up"}
      BY <1>1, <1>12, <1>14
    <2>2. (q.identified => ~q.kind.excluded) /\ (q.ran => PermittedAs(q))
      BY <1>2, <1>14 DEF PermittedAs
    <2> QED  BY <1>15, <2>1, <2>2 DEF Fits
  <1>17. Moves(r, q) /\ q.at = 0 /\ events' = [events EXCEPT ![r] = ans.events]
    BY <1>3, <1>8, <1>12, <1>13, <1>14 DEF Moves
  <1> QED  BY <1>10, <1>16, <1>17

JourneyInv == PipelineTypeOK /\ Journey

LEMMA StackFits ==
  ASSUME StacksFit, PipelineTypeOK
  PROVE  /\ stack \in Seq(Names) /\ Len(stack) \in Nat
         /\ \A i, j \in DOMAIN stack : stack[i] = stack[j] => i = j
         /\ \E i \in DOMAIN stack : stack[i] = "authz"
         /\ \E i \in DOMAIN stack : stack[i] = "audit"
  <1>1. stack \in Stacks
    BY DEF PipelineTypeOK
  <1>2. stack \in Seq(Names)
    BY <1>1, PipelineAssumption
  <1>3. Len(stack) \in Nat
    BY <1>2
  <1> QED  BY <1>1, <1>2, <1>3 DEF StacksFit

\* A step of one request, with what it does to its events.
LEMMA MoveKeeps ==
  ASSUME JourneyInv, NEW r \in Requests, NEW q, NEW e \in Events, Moves(r, q), Fits(stack, q, e),
         events' = [events EXCEPT ![r] = e] \/ (events' = events /\ e = events[r]), stack' = stack
  PROVE  /\ Journey' /\ req' \in [Requests -> Req] /\ events' \in [Requests -> Events]
         /\ \A s \in Requests : req'[s].at <= Len(stack') + 1
  <1>1. req \in [Requests -> Req] /\ events \in [Requests -> Events]
    BY DEF JourneyInv, PipelineTypeOK, Events
  <1>2. q \in Req /\ req' = [req EXCEPT ![r] = q]
    BY DEF Moves
  <1>3. /\ req' \in [Requests -> Req] /\ req'[r] = q
        /\ \A s \in Requests : s # r => req'[s] = req[s]
    BY <1>1, <1>2
  <1>4. /\ events' \in [Requests -> Events] /\ events'[r] = e
        /\ \A s \in Requests : s # r => events'[s] = events[s]
    BY <1>1
  <1>5. ASSUME NEW s \in Requests PROVE Fits(stack, req'[s], events'[s])
    <2>1. CASE s = r
      BY <1>3, <1>4, <2>1
    <2>2. CASE s # r
      BY <1>3, <1>4, <2>2 DEF JourneyInv, Journey
    <2> QED  BY <2>1, <2>2
  <1>6. Journey'
    BY <1>5 DEF Journey
  <1>7. \A s \in Requests : req'[s].at <= Len(stack') + 1
    BY <1>5 DEF Fits
  <1> QED  BY <1>3, <1>4, <1>6, <1>7

LEMMA JourneyBegins == PipelineInit => JourneyInv
  <1> SUFFICES ASSUME PipelineInit PROVE JourneyInv
    OBVIOUS
  <1>1. /\ stack \in Stacks /\ now = 0 /\ counted = [count |-> 0, start |-> -Window] /\ admitted = {}
        /\ events = [r \in Requests |-> <<>>]
        /\ Window \in Nat \ {0} /\ Limit \in Nat /\ MaxNow \in Nat /\ stack \in Seq(Names)
    BY PipelineAssumption DEF PipelineInit, NoWindow
  <1>2. /\ req \in [Requests -> Req]
        /\ \A r \in Requests : /\ req[r].at = 0 /\ req[r].way = "new" /\ req[r].thrown = FALSE
                               /\ req[r].identified = FALSE /\ req[r].ran = FALSE
    <2> DEFINE R == [kind : Kind, at : {0}, way : {"new"}, thrown : {FALSE}, identified : {FALSE},
                     ctx : {FALSE}, ran : {FALSE}, status : {200}]
    <2>1. req \in [Requests -> R]
      BY DEF PipelineInit
    <2>2. R \subseteq Req
      <3>1. {"new"} \subseteq Ways /\ {200} \subseteq Codes /\ {0} \subseteq Nat /\ {FALSE} \subseteq BOOLEAN
        BY DEF Ways, Codes
      <3>2. PICK zeros \in SUBSET Nat : zeros = {0}
        BY <3>1
      <3>3. PICK news \in SUBSET Ways : news = {"new"}
        BY <3>1
      <3>4. PICK oks \in SUBSET Codes : oks = {200}
        BY <3>1
      <3>5. PICK offs \in SUBSET BOOLEAN : offs = {FALSE}
        BY <3>1
      <3>6. R = [kind : Kind, at : zeros, way : news, thrown : offs, identified : offs,
                 ctx : offs, ran : offs, status : oks]
        BY <3>2, <3>3, <3>4, <3>5
      <3> HIDE DEF R
      <3>7. zeros \subseteq Nat /\ news \subseteq Ways /\ offs \subseteq BOOLEAN /\ oks \subseteq Codes
        BY <3>2, <3>3, <3>4, <3>5
      <3>8. ASSUME NEW p \in R PROVE p \in Req
        BY <3>6, <3>7, ReqIs
      <3> QED  BY <3>8
    <2>3. \A p \in R : p.at = 0 /\ p.way = "new" /\ p.thrown = FALSE /\ p.identified = FALSE /\ p.ran = FALSE
      OBVIOUS
    <2> HIDE DEF R
    <2> QED  BY <2>1, <2>2, <2>3
  <1>3. events \in [Requests -> Seq({"success", "failure", "denied"})] /\ \A r \in Requests : events[r] = <<>>
    BY <1>1
  <1>4. Len(stack) \in Nat
    BY <1>1
  <1>5. PipelineTypeOK
    <2>1. counted \in [count : 0 .. Limit, start : -Window .. now] /\ now \in 0 .. MaxNow
      BY <1>1
    <2>2. \A r \in Requests : req[r].at <= Len(stack) + 1
      BY <1>2, <1>4
    <2>3. admitted \in SUBSET (Requests \X (1 .. Len(stack)) \X (0 .. now))
      BY <1>1
    <2> QED  BY <1>1, <1>2, <1>3, <2>1, <2>2, <2>3 DEF PipelineTypeOK
  <1>6. ASSUME NEW r \in Requests PROVE Fits(stack, req[r], events[r])
    <2>1. req[r].way # "down" /\ req[r].way # "up" /\ req[r].way # "done"
      BY <1>2
    <2>2. req[r].at <= Len(stack) + 1
      BY <1>2, <1>4
    <2> QED  BY <1>2, <1>3, <2>1, <2>2 DEF Fits
  <1> QED  BY <1>5, <1>6 DEF JourneyInv, Journey

LEMMA JourneyStep ==
  ASSUME StacksFit, JourneyInv, LimiterInv, LimiterInv', [PipelineNext]_pipelinevars
  PROVE  JourneyInv'
  <1>1. /\ PipelineTypeOK /\ Journey /\ req \in [Requests -> Req] /\ events \in [Requests -> Events]
        /\ stack \in Seq(Names) /\ Len(stack) \in Nat /\ stack \in Stacks
        /\ admitted \in SUBSET (Requests \X (1 .. Len(stack)) \X (0 .. now))
        /\ \A r \in Requests : req[r].at <= Len(stack) + 1
    BY StackFits DEF JourneyInv, PipelineTypeOK, Events
  <1>2. now' \in 0 .. MaxNow /\ counted' \in [count : 0 .. Limit, start : -Window .. now']
    BY DEF LimiterInv, LimiterTypeOK
  <1>3. now \in Nat
    BY DEF JourneyInv, PipelineTypeOK
  <1>4. ASSUME NEW r \in Requests, NEW q, NEW e \in Events, Moves(r, q), Fits(stack, q, e),
               events' = [events EXCEPT ![r] = e] \/ (events' = events /\ e = events[r]), stack' = stack,
               admitted' \in SUBSET (Requests \X (1 .. Len(stack)) \X (0 .. now'))
        PROVE  JourneyInv'
    <2>1. /\ Journey' /\ req' \in [Requests -> Req] /\ events' \in [Requests -> Events]
          /\ \A s \in Requests : req'[s].at <= Len(stack') + 1
      BY <1>4, MoveKeeps
    <2>2. PipelineTypeOK'
      BY <1>1, <1>2, <1>4, <2>1 DEF PipelineTypeOK, Events
    <2> QED  BY <2>1, <2>2 DEF JourneyInv
  <1>5. ASSUME NEW r \in Requests,
               Arrive(r) \/ Authn(r) \/ Tenant(r) \/ Authz(r) \/ AuditBegins(r) \/ Handler(r) \/ RateLimit(r),
               UNCHANGED <<stack, now, events>>,
               admitted' \in SUBSET (Requests \X (1 .. Len(stack)) \X (0 .. now'))
        PROVE  JourneyInv'
    <2>1. Fits(stack, req[r], events[r]) /\ events[r] \in Events
      BY <1>1 DEF Journey
    <2>2. \E i \in DOMAIN stack : stack[i] = "authz"
      BY <1>1, StackFits
    <2>3. PICK q : Moves(r, q) /\ Fits(stack, q, events[r])
      BY <1>1, <1>5, <2>1, <2>2, StepFits
    <2> QED  BY <1>4, <1>5, <2>1, <2>3
  <1>6. ASSUME NEW r \in Requests, Unwind(r), UNCHANGED <<stack, counted, now, admitted>>
        PROVE  JourneyInv'
    <2>1. Fits(stack, req[r], events[r]) /\ events[r] \in Events
      BY <1>1 DEF Journey
    <2>2. PICK q, e : /\ Moves(r, q) /\ q.at = 0 /\ Fits(stack, q, e)
                      /\ e \in Events /\ events' = [events EXCEPT ![r] = e]
      <3>1. /\ \A i, j \in DOMAIN stack : stack[i] = stack[j] => i = j
            /\ \E i \in DOMAIN stack : stack[i] = "audit"
        BY <1>1, StackFits
      <3> QED  BY <1>1, <1>6, <2>1, <3>1, UnwindFits
    <2>3. admitted' \in SUBSET (Requests \X (1 .. Len(stack)) \X (0 .. now'))
      BY <1>1, <1>6
    <2> QED  BY <1>4, <1>6, <2>2, <2>3
  <1>7. ASSUME NEW r \in Requests, RateLimit(r), UNCHANGED <<stack, now, events>> PROVE JourneyInv'
    <2>1. admitted' \in SUBSET (Requests \X (1 .. Len(stack)) \X (0 .. now'))
      <3>1. CASE admitted' = admitted
        BY <1>1, <1>7, <3>1
      <3>2. CASE admitted' = admitted \cup {<<r, req[r].at, now>>}
        <4>1. req[r].way = "down" /\ req[r].at <= Len(stack)
          BY <1>7 DEF RateLimit, Down
        <4>2. req[r].at \in 1 .. Len(stack)
          <5>1. Fits(stack, req[r], events[r])
            BY <1>1 DEF Journey
          <5>2. req[r].at \in Nat /\ req[r].at >= 1
            BY <1>1, <4>1, <5>1, WayDown
          <5> QED  BY <1>1, <4>1, <5>2
        <4>3. now \in 0 .. now
          BY <1>3
        <4> QED  BY <1>1, <1>7, <3>2, <4>2, <4>3
      <3> QED  BY <1>7, <3>1, <3>2 DEF RateLimit
    <2> QED  BY <1>5, <1>7, <2>1
  <1>8. ASSUME UNCHANGED <<stack, req, events>>, now' = now \/ now' = now + 1, admitted' = admitted \/ admitted' = {}
        PROVE  JourneyInv'
    <2>1. admitted' \in SUBSET (Requests \X (1 .. Len(stack)) \X (0 .. now'))
      <3>1. 0 .. now \subseteq 0 .. now'
        BY <1>3, <1>8
      <3> QED  BY <1>1, <1>8, <3>1
    <2>2. PipelineTypeOK'
      BY <1>1, <1>2, <1>8, <2>1 DEF PipelineTypeOK, Events
    <2>3. Journey'
      BY <1>1, <1>8 DEF Journey
    <2> QED  BY <2>2, <2>3 DEF JourneyInv
  <1>9. CASE Tick \/ CleanupExpired \/ ResetLimit \/ UNCHANGED pipelinevars
    BY <1>8, <1>9 DEF Tick, CleanupExpired, ResetLimit, pipelinevars
  <1>10. ASSUME NEW r \in Requests,
                Arrive(r) \/ Authn(r) \/ Tenant(r) \/ Authz(r) \/ AuditBegins(r) \/ Handler(r),
                UNCHANGED <<stack, counted, now, admitted, events>>
         PROVE  JourneyInv'
    BY <1>1, <1>5, <1>10
  <1> QED  BY <1>6, <1>7, <1>9, <1>10 DEF PipelineNext

LEMMA JourneyInvariance == ASSUME StacksFit PROVE PipelineSpec => []JourneyInv
  <1>1. ASSUME JourneyInv, LimiterInv, LimiterInv', [PipelineNext]_pipelinevars PROVE JourneyInv'
    BY <1>1, JourneyStep
  <1> QED  BY <1>1, JourneyBegins, LimiterInvariance, PTL DEF PipelineSpec

\* What the fitness of the requests says of them.
LEMMA JourneyGuards == ASSUME StacksFit, JourneyInv PROVE HandlerGuarded /\ AuditAgrees /\ NothingEscapes
  <1> SUFFICES ASSUME NEW r \in Requests
               PROVE  /\ req[r].ran => req[r].identified /\ Permitted(r)
                      /\ Len(events[r]) <= 1
                      /\ req[r].way = "done" /\ events[r] # <<>> =>
                            (events[r][1] = "success" <=> req[r].status < 400)
                            /\ (events[r][1] = "denied" <=> req[r].status = 403)
                      /\ req[r].ran /\ req[r].way = "done" => Len(events[r]) = 1
                      /\ req[r].way = "done" /\ stack[1] = "authn" /\ ~req[r].kind.excluded => ~req[r].thrown
    BY DEF HandlerGuarded, AuditAgrees, NothingEscapes
  <1>1. Fits(stack, req[r], events[r])
    BY DEF JourneyInv, Journey
  <1>2. req[r].ran => req[r].identified /\ Permitted(r)
    BY <1>1 DEF Fits, PermittedAs, Permitted
  <1>3. CASE req[r].way # "done"
    <2>1. events[r] = <<>> /\ Len(<<>>) = 0
      BY <1>1, <1>3 DEF Fits
    <2>2. Len(events[r]) <= 1
      BY <2>1
    <2> QED  BY <1>2, <1>3, <2>2
  <1>4. CASE req[r].way = "done"
    <2>1. SettledWell(stack, req[r], events[r])
      BY <1>1, <1>4 DEF Fits
    <2> QED  BY <1>2, <2>1 DEF SettledWell
  <1> QED  BY <1>3, <1>4

\* However requests interleave at the middleware: the handler runs only with the
\* permission, the audit event agrees with the answer, an outermost authn lets nothing
\* escape that was thrown below it, and the limiter lets by at most twice its limit.
THEOREM RequestsGuardedHolds == ASSUME StacksFit PROVE PipelineSpec => []RequestsGuarded
  <1>1. JourneyInv /\ LimiterInv => RequestsGuarded
    BY JourneyGuards DEF RequestsGuarded, LimiterInv
  <1> QED  BY <1>1, JourneyInvariance, LimiterInvariance, PTL

----------------------------------------------------------------------------
(* The sum of the amounts of a set of calls, which the community modules compute by *)
(* a fold that takes one element after the other.                           *)

Total(f, S) == MapThenSumSet(LAMBDA c : f[c].amount, S)

Chosen(S) == CHOOSE x \in S : TRUE

\* g is what the fold computes for each subset of S.
IsFold(g, f, S) ==
    g = [s \in SUBSET S |-> IF s = {} THEN 0 ELSE f[Chosen(s)].amount + g[s \ {Chosen(s)}]]

LEMMA TotalIsFold ==
  ASSUME NEW f, NEW S
  PROVE  Total(f, S) = (CHOOSE g : IsFold(g, f, S))[S]
  BY Zenon DEF Total, MapThenSumSet, MapThenFoldSet, IsFold, Chosen

LEMMA ChosenIn == ASSUME NEW S, S # {} PROVE Chosen(S) \in S
  BY DEF Chosen

LEMMA FoldOfSome ==
  ASSUME NEW f, NEW S, NEW g, IsFold(g, f, S), NEW X \in SUBSET S, X # {}
  PROVE  g[X] = f[Chosen(X)].amount + g[X \ {Chosen(X)}]
  <1> DEFINE h(s) == IF s = {} THEN 0 ELSE f[Chosen(s)].amount + g[s \ {Chosen(s)}]
  <1>1. g = [s \in SUBSET S |-> h(s)]
    BY DEF IsFold
  <1> HIDE DEF h
  <1>2. g[X] = h(X)
    BY <1>1
  <1> QED  BY <1>2 DEF h

LEMMA FoldOfNone ==
  ASSUME NEW f, NEW S, NEW g, IsFold(g, f, S)
  PROVE  g[{}] = 0
  <1> DEFINE h(s) == IF s = {} THEN 0 ELSE f[Chosen(s)].amount + g[s \ {Chosen(s)}]
  <1>1. g = [s \in SUBSET S |-> h(s)]
    BY DEF IsFold
  <1>2. h({}) = 0
    OBVIOUS
  <1> HIDE DEF h
  <1> QED  BY <1>1, <1>2

\* Folds of two sets agree on what is in both.
LEMMA FoldsAgree ==
  ASSUME NEW f, NEW S, NEW T, NEW g, NEW h, IsFold(g, f, S), IsFold(h, f, T),
         NEW X, IsFiniteSet(X), X \subseteq S, X \subseteq T
  PROVE  g[X] = h[X]
  <1> DEFINE F == {Y \in SUBSET X : g[Y] # h[Y]}
  <1>1. CASE F = {}
    BY <1>1
  <1>2. CASE F # {}
    <2>1. PICK Y \in F : \A Z \in F : Z \subseteq Y => Z = Y
      <3>1. \A Y \in F : Y \subseteq X
        OBVIOUS
      <3> HIDE DEF F
      <3> QED  BY <1>2, <3>1, LeastSubset
    <2>2. Y \subseteq S /\ Y \subseteq T /\ g[Y] # h[Y]
      OBVIOUS
    <2>3. Y # {}
      <3> SUFFICES ASSUME Y = {} PROVE FALSE
        OBVIOUS
      <3>1. g[Y] = 0
        BY <2>2, FoldOfNone
      <3>2. h[Y] = 0
        BY <2>2, FoldOfNone
      <3> QED  BY <2>2, <3>1, <3>2
    <2>4. Chosen(Y) \in Y
      BY <2>3, ChosenIn
    <2>5. Y \ {Chosen(Y)} \notin F
      BY <2>1, <2>4
    <2>6. g[Y \ {Chosen(Y)}] = h[Y \ {Chosen(Y)}]
      BY <2>5
    <2> HIDE DEF F
    <2>7. g[Y] = f[Chosen(Y)].amount + g[Y \ {Chosen(Y)}]
      <3>1. IsFold(g, f, S) /\ Y \in SUBSET S /\ Y # {}
        BY <2>2, <2>3
      <3> QED  BY <3>1, FoldOfSome
    <2>8. h[Y] = f[Chosen(Y)].amount + h[Y \ {Chosen(Y)}]
      <3>1. IsFold(h, f, T) /\ Y \in SUBSET T /\ Y # {}
        BY <2>2, <2>3
      <3> QED  BY <3>1, FoldOfSome
    <2> QED  BY <2>2, <2>6, <2>7, <2>8
  <1> QED  BY <1>1, <1>2

\* A finite set has a fold.
LEMMA FoldExists == ASSUME NEW f, NEW S, IsFiniteSet(S) PROVE \E g : IsFold(g, f, S)
  <1> DEFINE F == {X \in SUBSET S : ~\E g : IsFold(g, f, X)}
  <1>1. CASE F = {}
    BY <1>1
  <1>2. CASE F # {}
    <2>1. PICK X \in F : \A Z \in F : Z \subseteq X => Z = X
      <3>1. \A X \in F : X \subseteq S
        OBVIOUS
      <3> HIDE DEF F
      <3> QED  BY <1>2, <3>1, LeastSubset
    <2>2. X \subseteq S /\ IsFiniteSet(X) /\ ~\E g : IsFold(g, f, X)
      BY FS_Subset
    <2> DEFINE fold(Y) == CHOOSE g : IsFold(g, f, Y)
               sum(Y) == IF Y = {} THEN 0 ELSE f[Chosen(Y)].amount + fold(Y \ {Chosen(Y)})[Y \ {Chosen(Y)}]
               g == [Y \in SUBSET X |-> sum(Y)]
    <2>3. \A Y \in SUBSET X : Y # X => IsFold(fold(Y), f, Y)
      <3> SUFFICES ASSUME NEW Y \in SUBSET X, Y # X PROVE IsFold(fold(Y), f, Y)
        OBVIOUS
      <3>1. Y \notin F
        BY <2>1
      <3>2. \E e : IsFold(e, f, Y)
        BY <2>2, <3>1
      <3> QED  BY <3>2
    <2> HIDE DEF fold
    \* A subset but X itself has the sum that its own fold gives.
    <2>4. ASSUME NEW Y \in SUBSET X, Y # X PROVE sum(Y) = fold(Y)[Y]
      <3>1. IsFold(fold(Y), f, Y)
        BY <2>3, <2>4
      <3>2. CASE Y = {}
        BY <3>1, <3>2, FoldOfNone
      <3>3. CASE Y # {}
        <4> DEFINE Z == Y \ {Chosen(Y)}
        <4>1. Chosen(Y) \in Y /\ Z \subseteq Y /\ Z \subseteq X /\ Z # X /\ IsFiniteSet(Z)
          BY <2>2, <2>4, <3>3, ChosenIn, FS_Subset
        <4>2. IsFold(fold(Z), f, Z)
          BY <2>3, <4>1
        <4>3. fold(Y)[Z] = fold(Z)[Z]
          BY <3>1, <4>1, <4>2, FoldsAgree
        <4>4. fold(Y)[Y] = f[Chosen(Y)].amount + fold(Y)[Z]
          BY <3>1, <3>3, FoldOfSome
        <4> QED  BY <3>3, <4>3, <4>4
      <3> QED  BY <3>2, <3>3
    <2>5. ASSUME NEW Y \in SUBSET X, Y # {} PROVE sum(Y) = f[Chosen(Y)].amount + g[Y \ {Chosen(Y)}]
      <3> DEFINE Z == Y \ {Chosen(Y)}
      <3>1. Chosen(Y) \in Y /\ Z \in SUBSET X /\ Z # X
        BY <2>5, ChosenIn
      <3>2. sum(Z) = fold(Z)[Z]
        BY <2>4, <3>1
      <3>3. g[Z] = sum(Z)
        BY <3>1
      <3> HIDE DEF g
      <3>4. sum(Y) = f[Chosen(Y)].amount + fold(Z)[Z]
        BY <2>5
      <3> QED  BY <3>2, <3>3, <3>4
    <2>6. \A Y \in SUBSET X : sum(Y) = IF Y = {} THEN 0 ELSE f[Chosen(Y)].amount + g[Y \ {Chosen(Y)}]
      <3> SUFFICES ASSUME NEW Y \in SUBSET X
                   PROVE  sum(Y) = IF Y = {} THEN 0 ELSE f[Chosen(Y)].amount + g[Y \ {Chosen(Y)}]
        OBVIOUS
      <3>1. CASE Y = {}
        BY <3>1
      <3>2. CASE Y # {}
        <4> HIDE DEF sum, g
        <4> QED  BY <2>5, <3>2
      <3> QED  BY <3>1, <3>2
    <2>7. g = [Y \in SUBSET X |-> IF Y = {} THEN 0 ELSE f[Chosen(Y)].amount + g[Y \ {Chosen(Y)}]]
      <3>1. g = [Y \in SUBSET X |-> sum(Y)]
        OBVIOUS
      <3> HIDE DEF g, sum
      <3> QED  BY <2>6, <3>1
    <2>8. IsFold(g, f, X)
      <3> HIDE DEF g
      <3> QED  BY <2>7 DEF IsFold
    <2> QED  BY <2>2, <2>8
  <1> QED  BY <1>1, <1>2

\* What the sum is, one element after the other.
LEMMA TotalStep ==
  ASSUME NEW f, NEW S, IsFiniteSet(S)
  PROVE  /\ S = {} => Total(f, S) = 0
         /\ S # {} => Total(f, S) = f[Chosen(S)].amount + Total(f, S \ {Chosen(S)})
  <1> DEFINE T == S \ {Chosen(S)}
             g == CHOOSE e : IsFold(e, f, S)
             h == CHOOSE e : IsFold(e, f, T)
  <1>1. IsFold(g, f, S)
    BY FoldExists
  <1>2. IsFiniteSet(T) /\ T \subseteq S
    BY FS_Subset
  <1> HIDE DEF T
  <1>3. IsFold(h, f, T)
    BY <1>2, FoldExists
  <1>4. Total(f, S) = g[S]
    BY TotalIsFold
  <1>5. Total(f, T) = h[T]
    BY TotalIsFold
  <1> HIDE DEF g, h
  <1>6. g[T] = h[T]
    BY <1>1, <1>2, <1>3, FoldsAgree
  <1>7. S = {} => g[S] = 0
    BY <1>1, FoldOfNone
  <1>8. S # {} => g[S] = f[Chosen(S)].amount + g[S \ {Chosen(S)}]
    BY <1>1, FoldOfSome
  <1>9. g[S \ {Chosen(S)}] = Total(f, S \ {Chosen(S)})
    BY <1>5, <1>6 DEF T
  <1> QED  BY <1>4, <1>7, <1>8, <1>9

LEMMA TotalNat ==
  ASSUME NEW f, NEW S, IsFiniteSet(S), \A c \in S : f[c].amount \in Nat
  PROVE  Total(f, S) \in Nat
  <1> DEFINE F == {Y \in SUBSET S : Total(f, Y) \notin Nat}
  <1>1. CASE F = {}
    BY <1>1
  <1>2. CASE F # {}
    <2>1. PICK Y \in F : \A Z \in F : Z \subseteq Y => Z = Y
      <3>1. \A Y \in F : Y \subseteq S
        OBVIOUS
      <3> HIDE DEF F
      <3> QED  BY <1>2, <3>1, LeastSubset
    <2>2. Y \subseteq S /\ IsFiniteSet(Y) /\ Total(f, Y) \notin Nat
      BY FS_Subset
    <2>3. Y # {}
      <3>1. Y = {} => Total(f, Y) = 0
        BY <2>2, TotalStep
      <3> QED  BY <2>2, <3>1
    <2>4. Total(f, Y) = f[Chosen(Y)].amount + Total(f, Y \ {Chosen(Y)})
      BY <2>2, <2>3, TotalStep
    <2>5. Chosen(Y) \in Y
      BY <2>3, ChosenIn
    <2>6. Y \ {Chosen(Y)} \notin F
      BY <2>1, <2>5
    <2>7. Total(f, Y \ {Chosen(Y)}) \in Nat
      BY <2>6
    <2>8. f[Chosen(Y)].amount \in Nat
      BY <2>2, <2>5
    <2> QED  BY <2>2, <2>4, <2>7, <2>8
  <1> QED  BY <1>1, <1>2

LEMMA TotalSame ==
  ASSUME NEW f, NEW g, NEW S, IsFiniteSet(S), \A c \in S : f[c].amount = g[c].amount
  PROVE  Total(f, S) = Total(g, S)
  <1> DEFINE F == {Y \in SUBSET S : Total(f, Y) # Total(g, Y)}
  <1>1. CASE F = {}
    BY <1>1
  <1>2. CASE F # {}
    <2>1. PICK Y \in F : \A Z \in F : Z \subseteq Y => Z = Y
      <3>1. \A Y \in F : Y \subseteq S
        OBVIOUS
      <3> HIDE DEF F
      <3> QED  BY <1>2, <3>1, LeastSubset
    <2>2. Y \subseteq S /\ IsFiniteSet(Y) /\ Total(f, Y) # Total(g, Y)
      BY FS_Subset
    <2>3. Y # {}
      <3>1. Y = {} => Total(f, Y) = 0
        BY <2>2, TotalStep
      <3>2. Y = {} => Total(g, Y) = 0
        BY <2>2, TotalStep
      <3> QED  BY <2>2, <3>1, <3>2
    <2>4. Total(f, Y) = f[Chosen(Y)].amount + Total(f, Y \ {Chosen(Y)})
      BY <2>2, <2>3, TotalStep
    <2>5. Total(g, Y) = g[Chosen(Y)].amount + Total(g, Y \ {Chosen(Y)})
      BY <2>2, <2>3, TotalStep
    <2>6. Chosen(Y) \in Y
      BY <2>3, ChosenIn
    <2>7. Y \ {Chosen(Y)} \notin F
      BY <2>1, <2>6
    <2>8. Total(f, Y \ {Chosen(Y)}) = Total(g, Y \ {Chosen(Y)})
      BY <2>7
    <2>9. f[Chosen(Y)].amount = g[Chosen(Y)].amount
      BY <2>2, <2>6
    <2> QED  BY <2>2, <2>4, <2>5, <2>8, <2>9
  <1> QED  BY <1>1, <1>2

\* Any element may be taken first.
LEMMA TotalWithout ==
  ASSUME NEW f, NEW S, IsFiniteSet(S), \A c \in S : f[c].amount \in Nat, NEW x \in S
  PROVE  Total(f, S) = f[x].amount + Total(f, S \ {x})
  <1> DEFINE F == {Y \in SUBSET S : \E c \in Y : Total(f, Y) # f[c].amount + Total(f, Y \ {c})}
  <1>1. CASE F = {}
    BY <1>1
  <1>2. CASE F # {}
    <2>1. PICK Y \in F : \A Z \in F : Z \subseteq Y => Z = Y
      <3>1. \A Y \in F : Y \subseteq S
        OBVIOUS
      <3> HIDE DEF F
      <3> QED  BY <1>2, <3>1, LeastSubset
    <2>2. Y \subseteq S /\ IsFiniteSet(Y)
      BY FS_Subset
    <2>3. PICK c \in Y : Total(f, Y) # f[c].amount + Total(f, Y \ {c})
      OBVIOUS
    <2> DEFINE d == Chosen(Y)
               Z == Y \ {c, d}
    <2>4. d \in Y /\ Total(f, Y) = f[d].amount + Total(f, Y \ {d})
      BY <2>2, TotalStep, ChosenIn
    <2>5. c # d
      BY <2>3, <2>4
    <2> HIDE DEF d
    <2>6. Y \ {d} \notin F /\ Y \ {c} \notin F
      BY <2>1, <2>4
    <2>7. (Y \ {d}) \ {c} = Z /\ (Y \ {c}) \ {d} = Z /\ Z \subseteq S
      BY <2>2
    <2>8. Total(f, Y \ {d}) = f[c].amount + Total(f, (Y \ {d}) \ {c})
      BY <2>2, <2>5, <2>6
    <2>9. Total(f, Y \ {c}) = f[d].amount + Total(f, (Y \ {c}) \ {d})
      BY <2>2, <2>4, <2>5, <2>6
    <2>10. IsFiniteSet(Z) /\ \A e \in Z : f[e].amount \in Nat
      BY <2>2, FS_Subset
    <2> HIDE DEF Z, F
    <2>11. Total(f, Z) \in Nat
      BY <2>10, TotalNat
    <2>12. f[c].amount \in Nat /\ f[d].amount \in Nat
      BY <2>2, <2>4
    <2>13. Total(f, Y) = f[d].amount + (f[c].amount + Total(f, Z))
      BY <2>4, <2>7, <2>8
    <2>14. Total(f, Y \ {c}) = f[d].amount + Total(f, Z)
      BY <2>7, <2>9
    <2>15. f[d].amount + (f[c].amount + Total(f, Z)) = f[c].amount + (f[d].amount + Total(f, Z))
      BY <2>11, <2>12
    <2> QED  BY <2>3, <2>13, <2>14, <2>15
  <1> QED  BY <1>1, <1>2

LEMMA TotalWith ==
  ASSUME NEW f, NEW S, IsFiniteSet(S), NEW x, x \notin S, \A c \in S \cup {x} : f[c].amount \in Nat
  PROVE  Total(f, S \cup {x}) = f[x].amount + Total(f, S)
  <1> DEFINE T == S \cup {x}
  <1>1. IsFiniteSet(T) /\ x \in T /\ T \ {x} = S /\ \A c \in T : f[c].amount \in Nat
    BY FS_AddElement
  <1> HIDE DEF T
  <1>2. Total(f, T) = f[x].amount + Total(f, T \ {x})
    BY <1>1, TotalWithout
  <1> QED  BY <1>1, <1>2 DEF T

----------------------------------------------------------------------------
(* The books of the quota.                                                  *)

ChargedTo(w) == {c \in charged : call[c].win = w}

\* What has been charged, a finite number of times, adds up.
ChargesInv == IsFiniteSet(charged) /\ \A w \in Windows \ raced : used[w] = Total(call, ChargedTo(w))

LEMMA ChargesAddUpIsTotal == ChargesInv => ChargesAddUp
  BY DEF ChargesInv, ChargesAddUp, Total, ChargedTo

LEMMA ChargesInit == Init => ChargesInv
  <1> SUFFICES ASSUME Init PROVE ChargesInv
    OBVIOUS
  <1>1. charged = {} /\ used = [w \in Windows |-> 0]
    BY DEF Init
  <1>2. IsFiniteSet({})
    BY FS_EmptySet
  <1>3. Total(call, {}) = 0
    BY <1>2, TotalStep
  <1>4. \A w \in Windows : ChargedTo(w) = {}
    BY <1>1 DEF ChargedTo
  <1> QED  BY <1>1, <1>2, <1>3, <1>4 DEF ChargesInv

\* A charged call keeps its window and its amount, and only Charge charges.
LEMMA ChargedStays ==
  ASSUME IInv, [Next]_vars
  PROVE  /\ \A c \in charged : call'[c].amount = call[c].amount /\ call'[c].win = call[c].win
         /\ raced \subseteq raced'
         /\ (used' = used /\ charged' = charged) \/ \E c \in Calls : Charge(c)
  <1>1. call \in [Calls -> Call] /\ charged \subseteq Calls
    BY DEF IInv, TypeOK
  <1>2. \A c \in charged : call[c].at \in {"store", "allowed", "thrown"}
    BY DEF IInv, Charges
  <1> DEFINE Keeps(c) == call'[c].amount = call[c].amount /\ call'[c].win = call[c].win
  <1>3. ASSUME NEW c \in Calls, NEW kind, NEW amount, Begin(c, kind, amount)
        PROVE  (\A d \in charged : Keeps(d)) /\ raced' = raced /\ used' = used /\ charged' = charged
    BY <1>1, <1>2, <1>3 DEF Begin
  <1>4. ASSUME NEW c \in Calls, NEW limit, Resolve(c, limit)
        PROVE  (\A d \in charged : Keeps(d)) /\ raced' = raced /\ used' = used /\ charged' = charged
    BY <1>1, <1>2, <1>4 DEF Resolve
  <1>5. ASSUME NEW c \in Calls, ReadUsage(c)
        PROVE  (\A d \in charged : Keeps(d)) /\ raced \subseteq raced' /\ used' = used /\ charged' = charged
    BY <1>1, <1>2, <1>5 DEF ReadUsage
  <1>6. ASSUME NEW c \in Calls, Charge(c) PROVE (\A d \in charged : Keeps(d)) /\ raced' = raced
    BY <1>1, <1>2, <1>6 DEF Charge
  <1>7. ASSUME NEW c \in Calls, Exceeded(c) \/ Store(c) \/ MissCache(c) \/ Load(c) \/ Throw(c)
        PROVE  (\A d \in charged : Keeps(d)) /\ raced' = raced /\ used' = used /\ charged' = charged
    <2>1. CASE Exceeded(c)
      BY <1>1, <2>1 DEF Exceeded, Go, Call
    <2>2. CASE Store(c)
      BY <1>1, <2>2 DEF Store, Go, Call
    <2>3. CASE MissCache(c)
      BY <1>1, <2>3 DEF MissCache, Go, Call
    <2>4. CASE Load(c)
      BY <1>1, <2>4 DEF Load, Call
    <2>5. CASE Throw(c)
      BY <1>1, <2>5 DEF Throw, Go, Call
    <2> QED  BY <1>7, <2>1, <2>2, <2>3, <2>4, <2>5
  <1>8. ASSUME NEW c \in Calls, Hit(c) \/ Fill(c)
         PROVE  (\A d \in charged : Keeps(d)) /\ raced' = raced /\ used' = used /\ charged' = charged
    <2>1. CASE Hit(c)
      BY <1>1, <2>1 DEF Hit, Answer, Call
    <2>2. CASE Fill(c)
      BY <1>1, <2>2 DEF Fill, Answer, Call
    <2> QED  BY <1>8, <2>1, <2>2
  <1>9. CASE UNCHANGED vars
    BY <1>9 DEF vars
  <1>10. CASE NextWindow \/ \E w \in Windows : Evict(w)
    BY <1>10 DEF NextWindow, Evict
  <1> QED  BY <1>3, <1>4, <1>5, <1>6, <1>7, <1>8, <1>9, <1>10 DEF Next

LEMMA ChargesStep == ASSUME IInv, ChargesInv, [Next]_vars PROVE ChargesInv'
  <1>1. call \in [Calls -> Call] /\ charged \subseteq Calls /\ used \in [Windows -> Nat]
    BY DEF IInv, TypeOK
  <1>2. /\ \A c \in charged : call'[c].amount = call[c].amount /\ call'[c].win = call[c].win
        /\ raced \subseteq raced'
    BY ChargedStays
  <1>3. IsFiniteSet(charged)
    BY DEF ChargesInv
  \* The charges made so far add up to what they did before.
  <1>4. ASSUME NEW w \in Windows
        PROVE  /\ ChargedTo(w) = {c \in charged : call'[c].win = w} /\ IsFiniteSet(ChargedTo(w))
               /\ Total(call', ChargedTo(w)) = Total(call, ChargedTo(w))
    <2>1. ChargedTo(w) \subseteq charged
      BY DEF ChargedTo
    <2>2. IsFiniteSet(ChargedTo(w))
      BY <1>3, <2>1, FS_Subset
    <2>3. \A c \in ChargedTo(w) : call'[c].amount = call[c].amount
      BY <1>2, <2>1
    <2>4. Total(call', ChargedTo(w)) = Total(call, ChargedTo(w))
      BY <2>2, <2>3, TotalSame
    <2> QED  BY <1>2, <2>2, <2>4 DEF ChargedTo
  <1>5. CASE used' = used /\ charged' = charged
    <2>1. ASSUME NEW w \in Windows \ raced' PROVE used'[w] = Total(call', ChargedTo(w)')
      <3>1. ChargedTo(w)' = ChargedTo(w)
        BY <1>4, <1>5 DEF ChargedTo
      <3> QED  BY <1>2, <1>4, <1>5, <3>1 DEF ChargesInv
    <2> QED  BY <1>3, <1>5, <2>1 DEF ChargesInv, Windows
  <1>6. ASSUME NEW c \in Calls, Charge(c) PROVE ChargesInv'
    <2> DEFINE next == call[c].value + call[c].amount
               v == call[c].win
    <2>1. /\ used' = [used EXCEPT ![v] = next] /\ charged' = charged \cup {c} /\ raced' = raced
          /\ call' = [call EXCEPT ![c].at = "store", ![c].value = next] /\ call[c].at = "write"
      BY <1>6 DEF Charge
    <2>2. c \notin charged
      BY <2>1 DEF IInv, Charges
    <2>3. call[c] \in Call /\ v \in Windows /\ call[c].amount \in Nat
      BY <1>1 DEF Call
    <2>4. call'[c].win = v /\ call'[c].amount = call[c].amount
      BY <1>1, <2>1 DEF Call
    <2>5. v \notin raced => call[c].value = used[v]
      BY <2>1 DEF IInv, Current
    <2> HIDE DEF v
    <2>6. ASSUME NEW w \in Windows \ raced PROVE used'[w] = Total(call', ChargedTo(w)')
      <3> DEFINE S == ChargedTo(w)
      <3>1. S = {d \in charged : call'[d].win = w} /\ IsFiniteSet(S) /\ Total(call', S) = Total(call, S)
        BY <1>4
      <3>2. used[w] = Total(call, S)
        BY DEF ChargesInv
      <3>3. CASE w = v
        <4>1. ChargedTo(w)' = S \cup {c} /\ c \notin S
          BY <2>1, <2>2, <2>4, <3>1, <3>3 DEF ChargedTo
        <4>2. \A d \in S \cup {c} : call'[d].amount \in Nat
          <5>1. \A d \in charged : call'[d].amount = call[d].amount /\ call[d] \in Call
            BY <1>1, <1>2
          <5>2. \A d \in S : d \in charged
            BY <3>1
          <5> QED  BY <2>3, <2>4, <5>1, <5>2 DEF Call
        <4> HIDE DEF S
        <4>3. Total(call', S \cup {c}) = call'[c].amount + Total(call', S)
          BY <3>1, <4>1, <4>2, TotalWith
        <4>4. used'[w] = used[w] + call[c].amount
          BY <1>1, <2>1, <2>5, <3>3
        <4>5. used[w] \in Nat
          BY <1>1
        <4> QED  BY <2>3, <2>4, <3>1, <3>2, <4>1, <4>3, <4>4, <4>5
      <3>4. CASE w # v
        <4>1. ChargedTo(w)' = S
          BY <2>1, <2>4, <3>1, <3>4 DEF ChargedTo
        <4>2. used'[w] = used[w]
          BY <1>1, <2>1, <2>3, <3>4
        <4> QED  BY <3>1, <3>2, <4>1, <4>2
      <3> QED  BY <3>3, <3>4
    <2>7. IsFiniteSet(charged')
      BY <1>3, <2>1, FS_AddElement
    <2> QED  BY <2>1, <2>6, <2>7 DEF ChargesInv, Windows
  <1> QED  BY <1>5, <1>6, ChargedStays

\* Where nothing was disturbed one call at a time is under way, and the cache has what
\* the row has, or nothing, but while that call has charged and not yet told the cache.
ExactIn(w) ==
    /\ \A c, d \in OpenIn(w) : c = d
    /\ \A c \in OpenIn(w) : call[c].at \in {"store", "fill"} => call[c].value = used[w]
    /\ cached[w] \in {Miss, used[w]} \/ \E c \in OpenIn(w) : call[c].at = "store"

ExactInv == \A w \in Windows \ disturbed : ExactIn(w)

LEMMA CacheExactFromInv == ExactInv => CacheExact
  BY DEF ExactInv, ExactIn, CacheExact

LEMMA ExactInit == Init => ExactInv
  BY DEF Init, Idle, ExactInv, ExactIn, OpenIn, Open

\* A step of an open call leaves the other windows alone.
LEMMA ExactGoesOn ==
  ASSUME TypeOK, ExactInv, NEW c \in Calls, Open(c), NEW r, call' = [call EXCEPT ![c] = r],
         r.win = call[c].win, disturbed \subseteq disturbed',
         \A w \in Windows : w # call[c].win => used'[w] = used[w] /\ cached'[w] = cached[w],
         call[c].win \notin disturbed' =>
            /\ r.at \in {"store", "fill"} => r.value = used'[call[c].win]
            /\ cached'[call[c].win] \in {Miss, used'[call[c].win]} \/ r.at = "store"
  PROVE  ExactInv'
  <1>1. call'[c] = r /\ \A d \in Calls : d # c => call'[d] = call[d]
    BY DEF TypeOK
  <1> SUFFICES ASSUME NEW w \in Windows \ disturbed' PROVE ExactIn(w)'
    BY DEF ExactInv, Windows
  <1>2. ExactIn(w)
    BY DEF ExactInv
  <1>3. CASE w = call[c].win
    <2>1. \A d \in OpenIn(w) : d = c
      BY <1>2, <1>3 DEF ExactIn, OpenIn
    <2>2. \A d \in OpenIn(w)' : d = c
      BY <1>1, <2>1 DEF OpenIn, Open
    <2>3. \A d \in OpenIn(w)' : call'[d].at \in {"store", "fill"} => call'[d].value = used'[w]
      BY <1>1, <1>3, <2>2
    <2>4. r.at = "store" => c \in OpenIn(w)' /\ call'[c].at = "store"
      BY <1>1, <1>3 DEF OpenIn, Open
    <2> QED  BY <1>3, <2>2, <2>3, <2>4 DEF ExactIn
  <1>4. CASE w # call[c].win
    <2>1. OpenIn(w)' = OpenIn(w) /\ \A d \in OpenIn(w) : call'[d] = call[d]
      BY <1>1, <1>4 DEF OpenIn, Open
    <2>2. used'[w] = used[w] /\ cached'[w] = cached[w]
      BY <1>4
    <2> QED  BY <1>2, <2>1, <2>2 DEF ExactIn
  <1> QED  BY <1>3, <1>4

LEMMA ExactOf ==
  ASSUME ExactInv, NEW c \in Calls, Open(c), call[c].win \in Windows \ disturbed
  PROVE  /\ call[c].at \in {"store", "fill"} => call[c].value = used[call[c].win]
         /\ cached[call[c].win] \in {Miss, used[call[c].win]} \/ call[c].at = "store"
  <1>1. c \in OpenIn(call[c].win) /\ ExactIn(call[c].win)
    BY DEF OpenIn, ExactInv
  <1> QED  BY <1>1 DEF ExactIn

LEMMA ExactStep == ASSUME TypeOK, ExactInv, [Next]_vars PROVE ExactInv'
  <1>1. /\ call \in [Calls -> Call] /\ used \in [Windows -> Nat] /\ cached \in [Windows -> Nat \cup {Miss}]
        /\ window \in Windows /\ \A c \in Calls : call[c].win \in Windows /\ call[c] \in Call
    BY DEF TypeOK, Call
  <1>2. ASSUME NEW c \in Calls, NEW kind, NEW amount, Begin(c, kind, amount) PROVE ExactInv'
    <2>1. call'[c].at = "limit" /\ call'[c].win = window /\ \A d \in Calls : d # c => call'[d] = call[d]
      BY <1>1, <1>2 DEF Begin, Idle
    <2>2. ~Open(c) /\ UNCHANGED <<used, cached>> /\ disturbed \subseteq disturbed'
          /\ (OpenIn(window) # {} => window \in disturbed')
      BY <1>2 DEF Begin, Open
    <2> SUFFICES ASSUME NEW w \in Windows \ disturbed' PROVE ExactIn(w)'
      BY DEF ExactInv, Windows
    <2>3. ExactIn(w)
      BY <2>2 DEF ExactInv
    <2>4. CASE w = window
      <3>1. OpenIn(w) = {}
        BY <2>2, <2>4
      <3>2. \A d \in OpenIn(w)' : d = c
        BY <2>1, <3>1 DEF OpenIn, Open
      <3> QED  BY <2>1, <2>2, <2>3, <3>1, <3>2 DEF ExactIn
    <2>5. CASE w # window
      <3>1. OpenIn(w)' = OpenIn(w) /\ \A d \in OpenIn(w) : call'[d] = call[d]
        BY <2>1, <2>2, <2>5 DEF OpenIn, Open
      <3> QED  BY <2>2, <2>3, <3>1 DEF ExactIn
    <2> QED  BY <2>4, <2>5
  <1>3. ASSUME NEW c \in Calls, NEW limit, Resolve(c, limit) PROVE ExactInv'
    <2> DEFINE at == IF call[c].amount > 0 /\ limit > 0 THEN "update" ELSE "lookup"
               r == [[call[c] EXCEPT !.limit = limit] EXCEPT !.at = at]
    <2>1. call' = [call EXCEPT ![c] = r] /\ r.win = call[c].win /\ r.at \in {"update", "lookup"}
      BY <1>1, <1>3 DEF Resolve, Call
    <2>2. Open(c) /\ call[c].at = "limit" /\ UNCHANGED <<used, cached, disturbed>>
      BY <1>3 DEF Resolve, Open
    <2> HIDE DEF r
    <2> QED  BY <1>1, <2>1, <2>2, ExactOf, ExactGoesOn
  <1>4. ASSUME NEW c \in Calls, ReadUsage(c) \/ Exceeded(c) \/ MissCache(c) PROVE ExactInv'
    <2>1. PICK at \in {"write", "lookup", "load"}, v \in Nat : call' = [call EXCEPT ![c] = Moved(c, at, v)]
      <3>1. CASE ReadUsage(c)
        BY <1>1, <3>1 DEF ReadUsage, Moved, Call
      <3>2. CASE Exceeded(c)
        BY <1>1, <3>2 DEF Exceeded, Go, Moved, Call
      <3>3. CASE MissCache(c)
        <4>1. Go(c, "load") /\ "load" \in Places
          BY <3>3 DEF MissCache, Places
        <4>2. call[c].value \in Nat /\ call' = [call EXCEPT ![c] = Moved(c, "load", call[c].value)]
          BY <4>1, GoMoves
        <4> QED  BY <4>2
      <3> QED  BY <1>4, <3>1, <3>2, <3>3
    <2>2. Moved(c, at, v).win = call[c].win /\ Moved(c, at, v).at = at
      BY <1>1 DEF Moved, Call
    <2>3. Open(c) /\ call[c].at # "store" /\ UNCHANGED <<used, cached, disturbed>>
      BY <1>4 DEF ReadUsage, Exceeded, MissCache, Open
    <2> QED  BY <1>1, <2>1, <2>2, <2>3, ExactOf, ExactGoesOn
  <1>5. ASSUME NEW c \in Calls, Charge(c) PROVE ExactInv'
    <2> DEFINE next == call[c].value + call[c].amount
               r == Moved(c, "store", next)
    <2>1. /\ call' = [call EXCEPT ![c] = r] /\ r.win = call[c].win /\ r.at = "store" /\ r.value = next
      BY <1>1, <1>5 DEF Charge, Moved, Call
    <2>2. /\ Open(c) /\ used' = [used EXCEPT ![call[c].win] = next] /\ UNCHANGED <<cached, disturbed>>
      BY <1>5 DEF Charge, Open
    <2> HIDE DEF r, next
    <2>3. used'[call[c].win] = next /\ \A w \in Windows : w # call[c].win => used'[w] = used[w]
      BY <1>1, <2>2
    <2> QED  BY <1>1, <2>1, <2>2, <2>3, ExactGoesOn
  <1>6. ASSUME NEW c \in Calls, Load(c) PROVE ExactInv'
    <2> DEFINE r == Moved(c, "fill", used[call[c].win])
    <2>1. /\ call' = [call EXCEPT ![c] = r] /\ r.win = call[c].win /\ r.at = "fill"
          /\ r.value = used[call[c].win]
      BY <1>1, <1>6 DEF Load, Moved, Call
    <2>2. Open(c) /\ call[c].at = "load" /\ UNCHANGED <<used, cached, disturbed>>
      BY <1>6 DEF Load, Open
    <2> HIDE DEF r
    <2> QED  BY <1>1, <2>1, <2>2, ExactOf, ExactGoesOn
  \* An answer ends the call, and what it tells the cache is in the row.
  <1>7. ASSUME NEW c \in Calls, Store(c) \/ Fill(c) \/ Hit(c) PROVE ExactInv'
    <2>1. PICK at \in {"allowed", "denied"}, v \in Nat : call' = [call EXCEPT ![c] = Moved(c, at, v)]
      <3>1. CASE Store(c)
        BY <1>1, <3>1 DEF Store, Go, Moved, Call
      <3>2. CASE Fill(c)
        <4> DEFINE u == call[c].value
        <4>1. Answer(c, u) /\ u \in Nat
          BY <1>1, <3>2 DEF Fill, Call
        <4> HIDE DEF u
        <4> QED  BY <4>1, AnswerMoves
      <3>3. CASE Hit(c)
        <4> DEFINE u == cached[call[c].win]
        <4>1. Answer(c, u) /\ u \in Nat
          BY <1>1, <3>3 DEF Hit, Call
        <4> HIDE DEF u
        <4> QED  BY <4>1, AnswerMoves
      <3> QED  BY <1>7, <3>1, <3>2, <3>3
    <2>2. Moved(c, at, v).win = call[c].win /\ Moved(c, at, v).at = at
      BY <1>1 DEF Moved, Call
    <2>3. Open(c) /\ UNCHANGED <<used, disturbed>>
      BY <1>7 DEF Store, Fill, Hit, Open
    <2>4. \/ call[c].at \in {"store", "fill"} /\ cached' = [cached EXCEPT ![call[c].win] = call[c].value]
          \/ call[c].at = "lookup" /\ cached' = cached
      BY <1>7 DEF Store, Fill, Hit
    <2>5. /\ \A w \in Windows : w # call[c].win => cached'[w] = cached[w]
          /\ call[c].win \notin disturbed => cached'[call[c].win] \in {Miss, used[call[c].win]}
      BY <1>1, <2>3, <2>4, ExactOf
    <2> QED  BY <1>1, <2>1, <2>2, <2>3, <2>5, ExactGoesOn
  <1>8. ASSUME NEW c \in Calls, Throw(c) PROVE ExactInv'
    <2> DEFINE r == Moved(c, "thrown", call[c].value)
    <2>1. call' = [call EXCEPT ![c] = r] /\ r.win = call[c].win
      BY <1>1, <1>8 DEF Throw, Go, Moved, Call
    <2>2. Open(c) /\ UNCHANGED <<used, cached>> /\ disturbed' = disturbed \cup {call[c].win}
      BY <1>8 DEF Throw
    <2> HIDE DEF r
    <2> QED  BY <1>1, <2>1, <2>2, ExactGoesOn
  <1>9. ASSUME NEW v \in Windows, Evict(v) PROVE ExactInv'
    <2>1. UNCHANGED <<used, call, disturbed>> /\ \A w \in Windows : cached'[w] \in {cached[w], Miss}
      BY <1>1, <1>9 DEF Evict
    <2> QED  BY <2>1 DEF ExactInv, ExactIn, OpenIn, Open, Windows
  <1>10. CASE NextWindow \/ UNCHANGED vars
    <2>1. UNCHANGED <<used, call, disturbed, cached>>
      BY <1>10 DEF NextWindow, vars
    <2> QED  BY <2>1 DEF ExactInv, ExactIn, OpenIn, Open, Windows
  <1> QED  BY <1>2, <1>3, <1>4, <1>5, <1>6, <1>7, <1>8, <1>9, <1>10 DEF Next

\* The books of the quota: unless updates raced, the usage of a window is the sum of
\* what was charged to it, whatever limits, throws and the cache did; where calls
\* neither overlapped nor threw, the cache agrees with the row.
THEOREM BooksTrueHolds == Spec => []BooksTrue
  <1>1. ChargesInv /\ ExactInv => BooksTrue
    BY ChargesAddUpIsTotal, CacheExactFromInv DEF BooksTrue
  <1>2. Init => ChargesInv /\ ExactInv
    BY ChargesInit, ExactInit
  <1>3. IInv /\ ChargesInv /\ ExactInv /\ [Next]_vars => (ChargesInv /\ ExactInv)'
    BY ChargesStep, ExactStep DEF IInv
  <1> QED  BY <1>1, <1>2, <1>3, Invariance, PTL DEF Spec

----------------------------------------------------------------------------
(* A behaviour of the suite is a behaviour of each of its components.       *)

LEMMA SuiteOfParts == SuiteSpec =>
          Spec /\ PipelineSpec /\ KeysSpec /\ PolicySpec /\ MSpec /\ CacheSpec
  <1>1. SuiteInit => Init /\ PipelineInit /\ KeysInit /\ PolicyInit /\ MInit /\ CacheInit
    BY DEF SuiteInit
  <1>2. [SuiteNext]_suitevars =>
           /\ [Next]_vars /\ [PipelineNext]_pipelinevars /\ [KeysNext]_keyvars
           /\ [PolicyNext]_policyvars /\ [MNext]_mvars /\ [CacheNext]_cachevars
    BY DEF SuiteNext, suitevars
  <1> QED  BY <1>1, <1>2, PTL
           DEF SuiteSpec, Spec, PipelineSpec, KeysSpec, PolicySpec, MSpec, CacheSpec

\* The stacks that are checked are fit for the theorems about the pipeline.
LEMMA CheckedStacksFit == Stacks = MCStacks => StacksFit
  <1> SUFFICES ASSUME Stacks = MCStacks, NEW s \in MCStacks
               PROVE  /\ \A i, j \in DOMAIN s : s[i] = s[j] => i = j
                      /\ \E i \in DOMAIN s : s[i] = "authz"
                      /\ \E i \in DOMAIN s : s[i] = "audit"
    BY DEF StacksFit
  <1>1. CASE s = <<"authn", "tenant", "authz", "rateLimit", "audit">>
    <2>1. /\ DOMAIN s = 1 .. 5
          /\ s[1] = "authn" /\ s[2] = "tenant" /\ s[3] = "authz" /\ s[4] = "rateLimit" /\ s[5] = "audit"
      BY <1>1
    <2>2. 3 \in DOMAIN s /\ 5 \in DOMAIN s
      BY <2>1
    <2>3. \A i \in DOMAIN s : i = 1 \/ i = 2 \/ i = 3 \/ i = 4 \/ i = 5
      BY <2>1
    <2>4. \A i, j \in DOMAIN s : s[i] = s[j] => i = j
      BY <2>1, <2>3
    <2> QED  BY <2>1, <2>2, <2>4
  <1>2. CASE s = <<"audit", "authn", "tenant", "authz", "rateLimit">>
    <2>1. /\ DOMAIN s = 1 .. 5
          /\ s[1] = "audit" /\ s[2] = "authn" /\ s[3] = "tenant" /\ s[4] = "authz" /\ s[5] = "rateLimit"
      BY <1>2
    <2>2. 4 \in DOMAIN s /\ 1 \in DOMAIN s
      BY <2>1
    <2>3. \A i \in DOMAIN s : i = 1 \/ i = 2 \/ i = 3 \/ i = 4 \/ i = 5
      BY <2>1
    <2>4. \A i, j \in DOMAIN s : s[i] = s[j] => i = j
      BY <2>1, <2>3
    <2> QED  BY <2>1, <2>2, <2>4
  <1> QED  BY <1>1, <1>2 DEF MCStacks

\* In the suite nothing that was revoked or not permitted is let in: no key after its
\* revocation is reported, no decision but those of the stored policies.
THEOREM AccessHoldsAlways == SuiteSpec => AccessHolds
  BY SuiteOfParts, RevocationHoldsAlways, DecisionsStandAlways DEF AccessHolds

\* Every variable of the six components keeps its type.
THEOREM SuiteTypeCorrect == ASSUME StacksFit PROVE SuiteSpec => []SuiteTypeOK
  <1>1. /\ IInv => TypeOK
        /\ KeysInv => KeysTypeOK
        /\ JourneyInv => PipelineTypeOK
        /\ StorageInv => MTypeOK
        /\ CacheInv => CacheTypeOK
    BY DEF IInv, KeysInv, JourneyInv, StorageInv, CacheInv
  <1>2. TypeOK /\ KeysTypeOK /\ PipelineTypeOK /\ MTypeOK /\ CacheTypeOK /\ PolicyTypeOK => SuiteTypeOK
    BY DEF SuiteTypeOK
  <1> QED  BY <1>1, <1>2, SuiteOfParts, Invariance, KeysInvariance, JourneyInvariance, StorageInvariance,
           CacheInvariance, PolicyInvariance, PTL
=============================================================================
