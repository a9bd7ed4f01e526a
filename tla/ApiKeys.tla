------------------------------ MODULE ApiKeys ------------------------------
(***************************************************************************)
(* StorageApiKeyManager (src/embedding/api-key/impl/storage-api-key.ts) and *)
(* the /api-keys routes over one storage backend.  The manager keeps a row  *)
(* k:<id> and an index h:<hash> that leads from a raw key to it; the routes *)
(* keep rows of their own, <id>, and no index.  Every storage call is one   *)
(* step, and other calls run in between.  On Postgres atomicUpdate is one   *)
(* step too, on the memory backend it is a get and a set.                   *)
(***************************************************************************)
EXTENDS Naturals

CONSTANTS
    KeyIds,         \* the ids of keys ever made
    KeyCalls,       \* the calls ever made to the manager, each once
    NoKeyId         \* no predecessor: the key was not made by rotate

ASSUME KeysAssumption == KeyIds # {}

VARIABLES
    atomic,         \* storage.atomicUpdate is one step
    keyRow,         \* the row of each id
    indexed,        \* the ids whose index row is there
    expired,        \* the ids whose expiresAt has passed
    keyCall,        \* the calls
    predecessor,    \* auxiliary: the key that a rotated key replaces
    told,           \* auxiliary: keys some revoke or rotate has reported revoked
    collided        \* auxiliary: keys revoked between the get and the set of an update

keyvars == <<atomic, keyRow, indexed, expired, keyCall, predecessor, told, collided>>

Answers == {"valid", "refused", "unknown", "true", "false", "created", "threw"}
KeyPlaces == {"idle", "row", "touch", "write", "revoke", "revoking", "create", "index"}

\* late: the validation began when its key had been reported revoked.
KeyCall == [op : {"create", "validate", "revoke", "rotate"}, id : KeyIds,
            at : KeyPlaces \cup Answers, late : BOOLEAN]

KeysTypeOK ==
    /\ atomic \in BOOLEAN
    /\ keyRow \in [KeyIds -> {"none", "live", "revoked", "route", "routeRevoked"}]
    /\ indexed \in SUBSET {k \in KeyIds : keyRow[k] \in {"live", "revoked"}}
    /\ expired \in SUBSET KeyIds
    /\ keyCall \in [KeyCalls -> KeyCall]
    /\ predecessor \in [KeyIds -> KeyIds \cup {NoKeyId}]
    /\ told \in SUBSET KeyIds
    /\ collided \in SUBSET KeyIds

KeysInit ==
    /\ atomic \in BOOLEAN
    /\ keyRow \in [KeyIds -> {"none", "live"}]
    /\ indexed = {k \in KeyIds : keyRow[k] = "live"}
    /\ expired = {} /\ told = {} /\ collided = {}
    /\ keyCall \in [KeyCalls -> {[op |-> "create", id |-> CHOOSE k \in KeyIds : TRUE,
                                  at |-> "idle", late |-> FALSE]}]
    /\ predecessor = [k \in KeyIds |-> NoKeyId]

----------------------------------------------------------------------------
\* The call is suspended at its next storage call, or answers.
Goes(c, at) == keyCall' = [keyCall EXCEPT ![c].at = at]

AtStorage(c, op, k, at) ==
    /\ keyCall[c].at = "idle"
    /\ keyCall' = [keyCall EXCEPT ![c] =
                     [op |-> op, id |-> k, at |-> at,
                      late |-> op = "validate" /\ k \in told \ collided]]

Key(c) == keyCall[c].id

\* create: set of the row, under an id nobody has.
AddRow(c, k) ==
    /\ keyRow[k] = "none"
    /\ keyRow' = [keyRow EXCEPT ![k] = "live"]
    /\ UNCHANGED <<atomic, indexed, told, collided>>

Create(c, k) ==
    /\ AtStorage(c, "create", k, "index")
    /\ AddRow(c, k)
    /\ UNCHANGED <<expired, predecessor>>

\* create: set of the index row; then the raw key is returned.
AddIndex(c) ==
    /\ keyCall[c].at = "index"
    /\ indexed' = indexed \cup {Key(c)}
    /\ Goes(c, "created")
    /\ UNCHANGED <<atomic, keyRow, expired, predecessor, told, collided>>

\* validate: the get of the index row of the raw key.
Validate(c, k) ==
    /\ AtStorage(c, "validate", k, IF k \in indexed THEN "row" ELSE "unknown")
    /\ UNCHANGED <<atomic, keyRow, indexed, expired, predecessor, told, collided>>

\* validate: the get of the row, and the checks.
CheckRow(c) ==
    /\ keyCall[c].at = "row"
    /\ Goes(c, IF keyRow[Key(c)] = "revoked" \/ Key(c) \in expired THEN "refused" ELSE "touch")
    /\ UNCHANGED <<atomic, keyRow, indexed, expired, predecessor, told, collided>>

\* Mutant: the updater spreads the row that validate read, not the current one.
TouchStale(c) ==
    /\ keyCall[c].at = "touch"
    /\ keyRow' = [keyRow EXCEPT ![Key(c)] = "live"]
    /\ Goes(c, "valid")
    /\ UNCHANGED <<atomic, indexed, expired, predecessor, told, collided>>

\* validate: atomicUpdate sets lastUsedAt on the current row, which on the memory
\* backend is the row that its get returns if that is not revoked.
Touch(c) ==
    /\ keyCall[c].at = "touch"
    /\ Goes(c, IF atomic \/ keyRow[Key(c)] = "revoked" THEN "valid" ELSE "write")
    /\ UNCHANGED <<atomic, keyRow, indexed, expired, predecessor, told, collided>>

WriteTouched(c) ==
    /\ keyCall[c].at = "write"
    /\ keyRow' = [keyRow EXCEPT ![Key(c)] = "live"]
    /\ Goes(c, "valid")
    /\ UNCHANGED <<atomic, indexed, expired, predecessor, told, collided>>

----------------------------------------------------------------------------
\* What follows when the key is revoked: revoke returns true, rotate creates.
Revoked(c) ==
    /\ Goes(c, IF keyCall[c].op = "rotate" THEN "create" ELSE "true")
    /\ told' = told \cup {Key(c)}

Revoke(c, k) ==
    /\ AtStorage(c, "revoke", k, "revoke")
    /\ UNCHANGED <<atomic, keyRow, indexed, expired, predecessor, told, collided>>

\* rotate: its own get; a key that is revoked already is rotated all the same.
Rotate(c, k) ==
    /\ AtStorage(c, "rotate", k, IF keyRow[k] \in {"live", "revoked"} THEN "revoke" ELSE "threw")
    /\ UNCHANGED <<atomic, keyRow, indexed, expired, predecessor, told, collided>>

\* revoke: the get, and its early returns.
FindToRevoke(c) ==
    /\ keyCall[c].at = "revoke"
    /\ CASE keyRow[Key(c)] = "live" -> Goes(c, "revoking") /\ UNCHANGED told
         [] keyRow[Key(c)] = "revoked" -> Revoked(c)
         [] OTHER -> Goes(c, "false") /\ UNCHANGED told
    /\ UNCHANGED <<atomic, keyRow, indexed, expired, predecessor, collided>>

\* revoke: the set of what the get returned, with revokedAt.
SetRevoked(c) ==
    /\ keyCall[c].at = "revoking"
    /\ keyRow' = [keyRow EXCEPT ![Key(c)] = "revoked"]
    /\ Revoked(c)
    /\ collided' = IF \E d \in KeyCalls : keyCall[d].at = "write" /\ Key(d) = Key(c)
                THEN collided \cup {Key(c)} ELSE collided
    /\ UNCHANGED <<atomic, indexed, expired, predecessor>>

\* rotate: create with the name, the scopes and the expiry of the old key.
Reissue(c, k) ==
    /\ keyCall[c].at = "create"
    /\ AddRow(c, k)
    /\ keyCall' = [keyCall EXCEPT ![c].at = "index", ![c].id = k]
    /\ predecessor' = [predecessor EXCEPT ![k] = Key(c)]
    /\ expired' = IF Key(c) \in expired THEN expired \cup {k} ELSE expired

StorageThrows(c) ==
    /\ keyCall[c].at \in KeyPlaces \ {"idle"}
    /\ Goes(c, "threw")
    /\ UNCHANGED <<atomic, keyRow, indexed, expired, predecessor, told, collided>>

----------------------------------------------------------------------------
\* POST /api-keys writes a row under the plain id, and no index row.
PostKey(k) ==
    /\ keyRow[k] = "none"
    /\ keyRow' = [keyRow EXCEPT ![k] = "route"]
    /\ UNCHANGED <<atomic, indexed, expired, keyCall, predecessor, told, collided>>

\* DELETE /api-keys/:id finds the rows of the routes and no others.
DeleteKey(k) ==
    /\ keyRow[k] = "route"
    /\ keyRow' = [keyRow EXCEPT ![k] = "routeRevoked"]
    /\ UNCHANGED <<atomic, indexed, expired, keyCall, predecessor, told, collided>>

Expire(k) ==
    /\ keyRow[k] # "none" /\ k \notin expired
    /\ expired' = expired \cup {k}
    /\ UNCHANGED <<atomic, keyRow, indexed, keyCall, predecessor, told, collided>>

KeysNext ==
    \/ \E c \in KeyCalls :
          \/ AddIndex(c) \/ CheckRow(c) \/ Touch(c) \/ WriteTouched(c)
          \/ FindToRevoke(c) \/ SetRevoked(c) \/ StorageThrows(c)
          \/ \E k \in KeyIds : Create(c, k) \/ Validate(c, k) \/ Revoke(c, k)
                               \/ Rotate(c, k) \/ Reissue(c, k)
    \/ \E k \in KeyIds : PostKey(k) \/ DeleteKey(k) \/ Expire(k)

KeysSpec == KeysInit /\ [][KeysNext]_keyvars

----------------------------------------------------------------------------
\* A revocation is undone only by an update of the memory backend that had read
\* the row before; on Postgres never.
RevocationFinal ==
    [][\A k \in KeyIds : keyRow[k] = "revoked" /\ keyRow'[k] # "revoked" =>
          ~atomic /\ k \in collided]_keyvars

\* A validation that begins once a revoke or rotate of its key has returned is
\* refused, unless an update had overlapped the revocation.
RevokedRefused == \A c \in KeyCalls : keyCall[c].at = "valid" => ~keyCall[c].late

\* A rotated key exists only when the key it replaces has been revoked, so the
\* two are not valid at a time.
OldOutBeforeNew ==
    \A k \in KeyIds : predecessor[k] # NoKeyId =>
        keyRow[predecessor[k]] = "revoked" \/ predecessor[k] \in collided

\* A key that has been revoked or replaced is out.
RevocationHolds == []RevokedRefused /\ []OldOutBeforeNew /\ RevocationFinal
=============================================================================
