---------------------------- MODULE RbacPolicies ----------------------------
(***************************************************************************)
(* RbacPolicyEngine (src/governance/authorization/impl/rbac-policy.ts) and  *)
(* the /policies and /authz routes.  The engine decides from the policies   *)
(* in memory and caches what it has built from them for each user and       *)
(* roles; loadPolicies replaces them and then stores them one by one, and   *)
(* a new process initializes from one page of what is stored.               *)
(*                                                                          *)
(* All rules are about one action on one resource.  CASL (external) lets    *)
(* the last rule that applies decide, and denies without one.               *)
(***************************************************************************)
EXTENDS Naturals, Sequences, FiniteSets, SequencesExt

CONSTANTS
    PolicyIds,
    AppliesTo,      \* the users whose roles the rules of a policy name
    Users,          \* the subjects: a user and sorted roles
    Loaders,        \* concurrent calls of loadPolicies
    PageLimit,      \* the default limit of storage.list
    MaxStarts       \* bound: processes

ASSUME PolicyAssumption ==
    /\ AppliesTo \in [PolicyIds -> SUBSET Users] /\ IsFiniteSet(PolicyIds)
    /\ MaxStarts \in Nat \ {0}

VARIABLES
    policies,       \* this.policies
    ability,        \* abilityCache: what it allows each user, or "none"
    stored,         \* the stored policies, by id
    loading,        \* what each call of loadPolicies has still to store
    starts          \* processes so far

policyvars == <<policies, ability, stored, loading, starts>>

Effects == {"allow", "deny"}
Policy == [id : PolicyIds, effect : Effects]
Lists == {<<>>} \cup {<<p>> : p \in Policy} \cup {<<p, q>> : p \in Policy, q \in Policy}

PolicyTypeOK ==
    /\ policies \in Seq(Policy)
    /\ ability \in [Users -> Effects \cup {"none"}]
    /\ stored \in [PolicyIds -> Effects \cup {"none"}]
    /\ loading \in [Loaders -> Seq(Policy)]
    /\ starts \in 1 .. MaxStarts

PolicyInit ==
    /\ policies = <<>> /\ starts = 1
    /\ ability = [u \in Users |-> "none"]
    /\ stored = [i \in PolicyIds |-> "none"]
    /\ loading = [l \in Loaders |-> <<>>]

----------------------------------------------------------------------------
\* The ability built from the policies: the last of them that applies decides.
Built(ps, u) ==
    LET for == {i \in DOMAIN ps : u \in AppliesTo[ps[i].id]}
    IN  IF for = {} THEN "deny" ELSE ps[Max(for)].effect

\* loadPolicies up to its first await; POST /policies loads a list of one.
LoadPolicies(l, ps) ==
    /\ loading[l] = <<>> /\ ps # <<>>
    /\ policies' = ps
    /\ ability' = [u \in Users |-> "none"]
    /\ loading' = [loading EXCEPT ![l] = ps]
    /\ UNCHANGED <<stored, starts>>

StorePolicy(l) ==
    /\ loading[l] # <<>>
    /\ LET p == Head(loading[l]) IN stored' = [stored EXCEPT ![p.id] = p.effect]
    /\ loading' = [loading EXCEPT ![l] = Tail(@)]
    /\ UNCHANGED <<policies, ability, starts>>

\* The set throws, and the rest is not stored.
StoreThrows(l) ==
    /\ loading[l] # <<>>
    /\ loading' = [loading EXCEPT ![l] = <<>>]
    /\ UNCHANGED <<policies, ability, stored, starts>>

\* authorize, batchAuthorize and the /authz routes: getOrBuildAbility.
Authorize(u) ==
    /\ ability[u] = "none"
    /\ ability' = [ability EXCEPT ![u] = Built(policies, u)]
    /\ UNCHANGED <<policies, stored, loading, starts>>

StoredPolicies == {p \in Policy : stored[p.id] = p.effect}

\* The process ends; the next one initializes from the first page, in an order
\* that list does not promise.
Initialize ==
    /\ starts < MaxStarts /\ starts' = starts + 1
    /\ \E page \in {S \in SUBSET StoredPolicies :
                      \/ S = StoredPolicies /\ Cardinality(S) <= PageLimit
                      \/ Cardinality(S) = PageLimit} :
          policies' \in SetToSeqs(page)
    /\ ability' = [u \in Users |-> "none"]
    /\ loading' = [l \in Loaders |-> <<>>]
    /\ UNCHANGED stored

PolicyNext ==
    \/ \E l \in Loaders : StorePolicy(l) \/ StoreThrows(l) \/ \E ps \in Lists : LoadPolicies(l, ps)
    \/ \E u \in Users : Authorize(u)
    \/ Initialize

PolicySpec == PolicyInit /\ [][PolicyNext]_policyvars

----------------------------------------------------------------------------
\* A cached ability is the one that the policies in memory give now, whatever
\* was loaded between two checks.
CacheAgrees == \A u \in Users : ability[u] \in {"none", Built(policies, u)}

\* A restart changes no decision if what is stored is what was loaded last, it
\* fits on a page, and no user has both allowing and denying rules.  Otherwise it
\* may: policies that were replaced come back, those of a failed or interrupted
\* load and those of the next page are missing, and the order is another.
RestartKeepsDecisions ==
    [][LET kept == /\ StoredPolicies = ToSet(policies)
                   /\ Cardinality(StoredPolicies) <= PageLimit
                   /\ \A u \in Users : \A p, q \in ToSet(policies) :
                         u \in AppliesTo[p.id] \cap AppliesTo[q.id] => p.effect = q.effect
       IN  starts' # starts /\ kept => \A u \in Users : Built(policies', u) = Built(policies, u)
      ]_policyvars

\* Decisions agree with the policies in memory, and with those in storage.
DecisionsStand == []CacheAgrees /\ RestartKeepsDecisions
=============================================================================
