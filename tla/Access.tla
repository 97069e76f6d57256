------------------------------- MODULE Access -------------------------------
(***************************************************************************)
(* Authentication and authorisation of a request with AUTH_ENABLED: the    *)
(* chain that cmd/server/server.go assembles of internal/auth/middleware.go*)
(* validator.go, authz_middleware.go, authz_mapping.go and rbac.go, on top *)
(* of the key cache (JWKSCache), whose calls are made by Verify.           *)
(*                                                                         *)
(* A request is answered at once (Front), or its token's key is looked up, *)
(* which may take several fetches, and it is answered then (Behind).       *)
(*                                                                         *)
(* Abstraction: a token is what Verify looks at.  A kid stands for one key *)
(* pair.  The black list is the one that is wired, which is empty, as is   *)
(* the set of ABAC policies; bodies and headers of answers are left out.   *)
(***************************************************************************)
EXTENDS JWKSCache

CONSTANTS Incoming,  \* the requests clients may send
          KeyType,   \* [Kids -> {"RSA", "EC", "OKP"}]
          Skew,      \* the tolerance for clocks: 30 s
          Warmup,    \* the call of GetKey New makes
          None       \* no request, no claim

Roles == {"admin", "analyst", "viewer"}

\* nbf: the later of nbf and iat, which are checked alike.
Token == [alg : {"RS256", "ES256", "EdDSA", "other"}, kid : Kids \cup {Probe, None},
          signed : BOOLEAN, exp : Int \cup {None}, nbf : Int \cup {None},
          aud : BOOLEAN, iss : BOOLEAN, roles : SUBSET Roles]

\* The classes of REST requests and gRPC methods the chain tells apart.  What OPTIONS
\* /health reaches is a router without such a route.
Probes == {"GET /health", "GET /ready", "Health/Check", "OPTIONS /health"}

\* HEAD of a path that has a GET of its own outside the chain counts as that GET.
Bypassed == {"HEAD", "OPTIONS"}

GrpcMethods == {"CreateWorkflow", "GetWorkflow", "ListWorkflows", "other method"}

Route == Probes \cup Bypassed \cup GrpcMethods \cup
         {"POST /health", "GET /metrics", "POST /workflows", "GET /workflows",
          "DELETE /workflows/{id}", "GET /workflows/{id}",
          "POST /recommendations/{id}/feedback", "POST /documents/upload", "other path"}

Request == [route : Route, header : {"absent", "other", "bearer"}, token : Token]

ASSUME AccessAssumption ==
  /\ Incoming \subseteq Request
  /\ KeyType \in [Kids -> {"RSA", "EC", "OKP"}]
  /\ \A k \in Kids : KeyType[k] = "OKP" => k \in Unusable
  /\ Skew \in Nat /\ Warmup \in Calls /\ None \notin Request \cup Int \cup Kids \cup {Probe}

VARIABLES
  req,    \* [Calls -> Incoming \cup {None}]
  reply   \* [Calls -> Reply]

accessVars == <<now, published, changed, cache, refreshing, fetchMu, fetch,
                pc, kid, began, answer, req, reply>>

\* "handler": the request reaches its handler.  The others are 401, 503, 500 and 403
\* or their gRPC equivalents.
Reply == {"none", "handler", "unauthenticated", "unmapped", "usermissing", "forbidden"}

AccessInit ==
  /\ CacheInit
  /\ req = [r \in Calls |-> None]
  /\ reply = [r \in Calls |-> "none"]

-----------------------------------------------------------------------------
(* Permissions.                                                            *)

\* permissionMatrix.
Permissions(role) ==
  CASE role = "admin"   -> {"read:workflow", "write:workflow", "delete:workflow",
                            "read:recommendation", "write:recommendation",
                            "read:audit", "audit:read"}
    [] role = "analyst" -> {"read:workflow", "write:workflow", "read:recommendation",
                            "write:recommendation", "read:audit"}
    [] role = "viewer"  -> {"read:workflow", "read:recommendation"}

EffectivePermissions(roles) == UNION {Permissions(role) : role \in roles}

\* restPermissionTable and grpcPermissionTable; no other route has a permission.
Permission(route) ==
  CASE route \in {"POST /workflows", "POST /documents/upload", "CreateWorkflow"}
         -> "write:workflow"
    [] route \in {"GET /workflows", "GET /workflows/{id}", "GetWorkflow", "ListWorkflows"}
         -> "read:workflow"
    [] route = "DELETE /workflows/{id}" -> "delete:workflow"
    [] route = "POST /recommendations/{id}/feedback" -> "write:recommendation"
    [] OTHER -> "unmapped"

\* Authorize: the user's roles come from the scopes of his token alone.
Authorize(q) == Permission(q.route) \in EffectivePermissions(q.token.roles)

\* RESTAuthzMiddleware and UnaryAuthzInterceptor: what is not mapped is denied.
Authz(q, authenticated) ==
  IF q.route \in Bypassed THEN "handler"
  ELSE IF Permission(q.route) = "unmapped" THEN "unmapped"
  ELSE IF ~authenticated THEN IF q.route \in GrpcMethods THEN "forbidden" ELSE "usermissing"
  ELSE IF Authorize(q) THEN "handler" ELSE "forbidden"

-----------------------------------------------------------------------------
(* Verify.                                                                 *)

AllowedAlgorithms == {"RS256", "ES256", "EdDSA"}

\* checkAlgKTYConsistency.
ExpectedType(alg) == CASE alg = "RS256" -> "RSA" [] alg = "ES256" -> "EC" [] OTHER -> "OKP"

\* A claim that is missing is not checked.
Expired(t, time) == t.exp # None /\ t.exp + Skew < time

Early(t, time) == t.nbf # None /\ t.nbf - Skew > time

\* Mutant: the time is taken when the request arrives.
Valid_AtArrival(r) ==
  LET t == req[r].token IN
  /\ answer[r] = "key" /\ KeyType[t.kid] = ExpectedType(t.alg) /\ t.signed
  /\ ~Expired(t, began[r]) /\ ~Early(t, began[r])
  /\ t.aud /\ t.iss

\* The checks that follow GetKey: key type, signature, times, audience, issuer.
Valid(r) ==
  LET t == req[r].token IN
  /\ answer[r] = "key" /\ KeyType[t.kid] = ExpectedType(t.alg) /\ t.signed
  /\ ~Expired(t, now) /\ ~Early(t, now)
  /\ t.aud /\ t.iss

-----------------------------------------------------------------------------
(* The chain.                                                              *)

\* What is answered before a key is looked up ("none": nothing).  The middleware
\* lets any method on the path /health pass, the mapping only GET.
Front(q) ==
  IF q.route \in Probes THEN "handler"
  ELSE IF q.route = "POST /health" THEN Authz(q, FALSE)
  ELSE IF \/ q.header # "bearer"
          \/ q.token.alg \notin AllowedAlgorithms
          \/ q.token.kid = None THEN "unauthenticated"
  ELSE "none"

IsMetricsAuthorized(q) == "admin" \in q.token.roles

\* What is answered after it.  /metrics has a middleware of its own.
Behind(r) ==
  IF ~Valid(r) THEN "unauthenticated"
  ELSE IF req[r].route = "GET /metrics"
       THEN IF IsMetricsAuthorized(req[r]) THEN "handler" ELSE "forbidden"
  ELSE Authz(req[r], TRUE)

\* New forces the first fetch; the server starts only if it succeeds.
WarmUp == Begin(Warmup, Probe) /\ UNCHANGED <<req, reply>>

Started == answer[Warmup] = "unknown"

Receive(r) ==
  /\ Started /\ req[r] = None /\ r # Warmup
  /\ \E q \in Incoming :
       /\ req' = [req EXCEPT ![r] = q]
       /\ reply' = [reply EXCEPT ![r] = Front(q)]
       /\ IF Front(q) = "none" THEN Begin(r, q.token.kid) ELSE UNCHANGED cacheVars

Ready(r) == req[r] # None /\ answer[r] # "none" /\ reply[r] = "none"

Conclude(r) ==
  /\ Ready(r)
  /\ reply' = [reply EXCEPT ![r] = Behind(r)]
  /\ UNCHANGED <<cacheVars, req>>

\* Time passes when no request can be answered.
Pass == Tick /\ (\A r \in Calls : ~Ready(r)) /\ UNCHANGED <<req, reply>>

Next ==
  \/ WarmUp
  \/ \E r \in Calls : Receive(r) \/ Conclude(r)
  \/ CacheStep /\ UNCHANGED <<req, reply>>
  \/ Pass

Spec == AccessInit /\ [][Next]_accessVars

-----------------------------------------------------------------------------
(* Properties.                                                             *)

TypeOK ==
  /\ CacheTypeOK
  /\ req \in [Calls -> Incoming \cup {None}]
  /\ reply \in [Calls -> Reply]

\* Nobody but the probes reaches a handler without a token that is good at that
\* moment, however long its key took to find: its key was published within the last
\* MaxAge + Timeout, it has not expired, and its roles permit the route.  And the
\* chain never finds itself without a user (the 500 of a wiring error).
Entitled ==
  [][\A r \in Calls : reply'[r] # reply[r] =>
       LET q == req'[r]
           t == q.token IN
       /\ reply'[r] # "usermissing"
       /\ reply'[r] = "handler" /\ q.route \notin Probes =>
            /\ t.signed /\ now - LastIn(t.kid) <= MaxAge + Timeout
            /\ t.exp # None => now <= t.exp + Skew
            /\ \/ q.route \in Bypassed
               \/ q.route = "GET /metrics" /\ "admin" \in t.roles
               \/ \E role \in t.roles : Permission(q.route) \in Permissions(role)]_accessVars
=============================================================================
