-------------------------- MODULE MCRequestPipeline --------------------------
(* The requests and the stacks of middleware for TLC.                        *)
EXTENDS RequestPipeline

CONSTANT q1         \* the request that may be of most kinds

\* Requests by an admin, by a viewer to what a viewer may not do, with a bad
\* token, to an excluded path without one, and without a tenant header.
MCKind == {[token |-> "good", role |-> "admin", read |-> FALSE, excluded |-> FALSE, header |-> TRUE],
           [token |-> "good", role |-> "viewer", read |-> FALSE, excluded |-> FALSE, header |-> TRUE],
           [token |-> "bad", role |-> "viewer", read |-> TRUE, excluded |-> FALSE, header |-> TRUE],
           [token |-> "missing", role |-> "viewer", read |-> TRUE, excluded |-> TRUE, header |-> TRUE],
           [token |-> "good", role |-> "viewer", read |-> TRUE, excluded |-> FALSE, header |-> FALSE]}

MCAdmin == {k \in MCKind : k.role = "admin"}
MCBad   == {k \in MCKind : k.token = "bad"}

\* One request of any kind but the bad token, the others by admins or with one.
MCKindsOf == [r \in Requests |-> IF r = q1 THEN MCKind \ MCBad ELSE MCAdmin \cup MCBad]

\* The order the examples use, and one with audit outermost and the limiter before
\* authn, where bad tokens count as well.
MCStacks == {<<"authn", "tenant", "authz", "rateLimit", "audit">>,
             <<"audit", "tenant", "rateLimit", "authn", "authz">>}

\* Three requests reach the limiter in the one order, four in the other.
MCAdmins ==
    Cardinality({r \in Requests \ {q1} : req[r].kind \in MCAdmin}) = (IF stack[1] = "authn" THEN 2 ELSE 0)
=============================================================================
