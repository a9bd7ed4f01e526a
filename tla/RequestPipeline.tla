-------------------------- MODULE RequestPipeline --------------------------
(***************************************************************************)
(* The middleware of src/middleware over MiddlewarePipeline (types.ts):     *)
(* authentication by an identity provider (token-provider.ts,               *)
(* oidc-provider.ts), the tenant context, authorization by                  *)
(* ScopePolicyEngine, MemoryRateLimiter and the audit event, around a       *)
(* handler of the host (external).  A middleware calls next and awaits it,  *)
(* so a request goes down the stack and, whatever happens there, up again;  *)
(* requests interleave at the awaits.                                       *)
(***************************************************************************)
EXTENDS Integers, Sequences, FiniteSets

CONSTANTS
    Requests,       \* the requests ever sent
    KindsOf,          \* what each request may be like: a set of Kind
    Stacks,         \* the orders in which a host may use the middleware
    Limit,          \* defaultLimit
    Window,         \* defaultWindowMs, in ticks of the clock
    MaxNow          \* bound: ticks

Names == {"authn", "tenant", "authz", "rateLimit", "audit"}
Kind == [token : {"good", "bad", "missing"}, role : {"admin", "viewer"}, read : BOOLEAN,
         excluded : BOOLEAN, header : BOOLEAN]

ASSUME PipelineAssumption ==
    /\ KindsOf \in [Requests -> SUBSET Kind] /\ Stacks \subseteq Seq(Names)
    /\ Window \in Nat \ {0} /\ Limit \in Nat /\ MaxNow \in Nat

VARIABLES
    stack,      \* the middleware in the order of use
    req,        \* the requests
    counted,    \* the state of the limiter for their tenant and path
    now,        \* Date.now()
    admitted,   \* auxiliary: whom the limiter let by, where in the stack, and when
    events      \* the outcomes of the audit events of each request

pipelinevars == <<stack, req, counted, now, admitted, events>>

Req == [kind : Kind, at : Nat, way : {"new", "down", "up", "done"}, thrown : BOOLEAN,
        identified : BOOLEAN, ctx : BOOLEAN, ran : BOOLEAN,
        status : {200, 400, 401, 403, 404, 429, 500}]

PipelineTypeOK ==
    /\ stack \in Stacks /\ now \in 0 .. MaxNow
    /\ req \in [Requests -> Req] /\ \A r \in Requests : req[r].at <= Len(stack) + 1
    /\ counted \in [count : 0 .. Limit, start : -Window .. now]
    /\ admitted \in SUBSET (Requests \X (1 .. Len(stack)) \X (0 .. now))
    /\ events \in [Requests -> Seq({"success", "failure", "denied"})]

\* No entry in the limiter's map: as good as an entry that has expired.
NoWindow == [count |-> 0, start |-> -Window]

PipelineInit ==
    /\ stack \in Stacks /\ now = 0 /\ counted = NoWindow
    /\ req \in [Requests ->
                  [kind : Kind, at : {0}, way : {"new"}, thrown : {FALSE}, identified : {FALSE},
                   ctx : {FALSE}, ran : {FALSE}, status : {200}]]
    /\ \A r \in Requests : req[r].kind \in KindsOf[r]
    /\ admitted = {}
    /\ events = [r \in Requests |-> <<>>]

----------------------------------------------------------------------------
Down(r, name) == req[r].way = "down" /\ req[r].at <= Len(stack) /\ stack[req[r].at] = name

\* execute: the stack begins.
Arrive(r) ==
    /\ req[r].way = "new"
    /\ req' = [req EXCEPT ![r].way = "down", ![r].at = 1]

\* next(), a return without it after answering, and a throw.
GoesOn(r)        == req' = [req EXCEPT ![r].at = @ + 1]
Replies(r, code) == req' = [req EXCEPT ![r].way = "up", ![r].at = @ - 1, ![r].status = code]
Throws(r)        == req' = [req EXCEPT ![r].way = "up", ![r].at = @ - 1, ![r].thrown = TRUE]

\* authenticate of TokenIdentityProvider and of OidcIdentityProvider, which also
\* says no when introspection fails: that is a bad token too.  Neither throws.
Authenticates(token) == token = "good"

\* authn: without a bearer token it does not ask.
Authn(r) ==
    /\ Down(r, "authn")
    /\ IF req[r].kind.excluded THEN GoesOn(r)
       ELSE IF Authenticates(req[r].kind.token)
       THEN req' = [req EXCEPT ![r].at = @ + 1, ![r].identified = TRUE]
       ELSE Replies(r, 401)

Tenant(r) ==
    /\ Down(r, "tenant")
    /\ IF req[r].kind.header THEN req' = [req EXCEPT ![r].at = @ + 1, ![r].ctx = TRUE]
       ELSE Replies(r, 400)

\* ScopePolicyEngine on the roles of the identity: admins may do all, viewers
\* read, and a request without an identity has no roles.
Permitted(r) ==
    req[r].identified /\ (req[r].kind.role = "admin" \/ req[r].kind.read)

\* Mutant: what authn lets by, authz lets by.
AuthzExcluding(r) ==
    /\ Down(r, "authz")
    /\ IF ~req[r].ctx THEN Replies(r, 500)
       ELSE IF Permitted(r) \/ req[r].kind.excluded THEN GoesOn(r) \/ Throws(r)
       ELSE Replies(r, 403)

\* The policy engine may throw.
Authz(r) ==
    /\ Down(r, "authz")
    /\ IF ~req[r].ctx THEN Replies(r, 500)
       ELSE IF Permitted(r) THEN GoesOn(r) \/ Throws(r)
       ELSE Replies(r, 403)

\* evaluate: the window after need tokens, in the current window or a new one.
Evaluate(need) ==
    IF now - counted.start >= Window THEN [count |-> need, start |-> now]
    ELSE [counted EXCEPT !.count = @ + need]

\* Without a tenant context the limiter is passed by.
RateLimit(r) ==
    /\ Down(r, "rateLimit")
    /\ IF ~req[r].ctx THEN GoesOn(r) /\ UNCHANGED <<counted, admitted>>
       ELSE IF Evaluate(1).count <= Limit
       THEN GoesOn(r) /\ counted' = Evaluate(1) /\ admitted' = admitted \cup {<<r, req[r].at, now>>}
       ELSE Replies(r, 429) /\ UNCHANGED <<counted, admitted>>

AuditBegins(r) ==
    /\ Down(r, "audit")
    /\ GoesOn(r)

\* External: the handler answers, finds nothing or throws.
Handler(r) ==
    /\ req[r].way = "down" /\ req[r].at = Len(stack) + 1
    /\ \E code \in {200, 404}, thrown \in BOOLEAN :
          /\ thrown => code = 200
          /\ req' = [req EXCEPT ![r].way = "up", ![r].at = @ - 1, ![r].ran = TRUE,
                                ![r].status = code, ![r].thrown = thrown]

----------------------------------------------------------------------------
\* authn catches all that next threw and answers 500, unless the path was
\* excluded.
AuthnAnswers(r, a) ==
    IF a.thrown /\ ~req[r].kind.excluded THEN [a EXCEPT !.thrown = FALSE, !.status = 500] ELSE a

\* audit: the outcome, of what was thrown or of the status so far.
Outcome(a) ==
    IF a.thrown THEN "failure" ELSE IF a.status < 400 THEN "success"
    ELSE IF a.status = 403 THEN "denied" ELSE "failure"

\* audit: its finally emits one event, but for excluded paths.
AuditAnswers(r, a) ==
    IF req[r].kind.excluded THEN a ELSE [a EXCEPT !.events = Append(@, Outcome(a))]

MiddlewareAnswers(name, r, a) ==
    CASE name = "authn" -> AuthnAnswers(r, a)
      [] name = "audit" -> AuditAnswers(r, a)
      [] OTHER          -> a

\* The request goes up the stack: each middleware that had called next gets the
\* answer a of the one below.  The promise of execute settles, and the host
\* answers 500 to what reaches it.
Unwind(r) ==
    /\ req[r].way = "up"
    /\ LET A[i \in 0 .. req[r].at] ==
              IF i = req[r].at
              THEN [thrown |-> req[r].thrown, status |-> req[r].status, events |-> events[r]]
              ELSE MiddlewareAnswers(stack[i + 1], r, A[i + 1])
       IN  /\ req' = [req EXCEPT ![r].way = "done", ![r].at = 0, ![r].thrown = A[0].thrown,
                                ![r].status = IF A[0].thrown THEN 500 ELSE A[0].status]
           /\ events' = [events EXCEPT ![r] = A[0].events]

Tick ==
    /\ now < MaxNow
    /\ now' = now + 1
    /\ UNCHANGED <<stack, req, counted, admitted, events>>

\* cleanupExpired; reset, which also forgets what was admitted.
CleanupExpired ==
    /\ now - counted.start >= Window /\ counted' = NoWindow
    /\ UNCHANGED <<stack, req, now, admitted, events>>

ResetLimit ==
    /\ counted' = NoWindow /\ admitted' = {}
    /\ UNCHANGED <<stack, req, now, events>>

PipelineNext ==
    \/ \E r \in Requests :
          \/ /\ Arrive(r) \/ Authn(r) \/ Tenant(r) \/ Authz(r) \/ AuditBegins(r) \/ Handler(r)
             /\ UNCHANGED <<stack, counted, now, admitted, events>>
          \/ RateLimit(r) /\ UNCHANGED <<stack, now, events>>
          \/ Unwind(r) /\ UNCHANGED <<stack, counted, now, admitted>>
    \/ Tick \/ CleanupExpired \/ ResetLimit

PipelineSpec == PipelineInit /\ [][PipelineNext]_pipelinevars

----------------------------------------------------------------------------
\* Behind authn and authz the handler runs for identified requests with the
\* permission only: excluded paths, which authn lets by, end at authz.
HandlerGuarded == \A r \in Requests : req[r].ran => req[r].identified /\ Permitted(r)

\* A request that audit has seen leaves one event, and the event agrees with the
\* answer, although other middleware answers for what was thrown.
AuditAgrees ==
    \A r \in Requests :
        /\ Len(events[r]) <= 1
        /\ req[r].way = "done" /\ events[r] # <<>> =>
              (events[r][1] = "success" <=> req[r].status < 400)
              /\ (events[r][1] = "denied" <=> req[r].status = 403)
        /\ req[r].ran /\ req[r].way = "done" => Len(events[r]) = 1

\* README.md:37 and :318 of the repository say of MemoryRateLimiter that its window
\* slides, so that no stretch of the length of a window has more than the limit.  The
\* code does not keep that, as its window is a fixed one that begins with its first
\* request; it keeps that no stretch has more than twice the limit, which is what it
\* may have where two windows meet.
AtMostTwice ==
    \A t \in 0 .. MaxNow :
        Cardinality({x \in admitted : x[3] \in t .. t + Window - 1}) <= 2 * Limit

\* Where authn is outermost and the path is not excluded, nothing that a handler
\* or a middleware throws reaches the host.
NothingEscapes ==
    \A r \in Requests :
        req[r].way = "done" /\ stack[1] = "authn" /\ ~req[r].kind.excluded => ~req[r].thrown

\* What the chain promises of a request, whichever middleware ends it.
RequestsGuarded == HandlerGuarded /\ AuditAgrees /\ AtMostTwice /\ NothingEscapes
=============================================================================
