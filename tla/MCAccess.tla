------------------------------ MODULE MCAccess ------------------------------
(* Instances of Access for TLC. *)
EXTENDS Access, TLC

CONSTANTS k1, k2

KeyTypes == k1 :> "RSA" @@ k2 :> "OKP"

Good == [alg |-> "RS256", kid |-> k1, signed |-> TRUE, exp |-> 3, nbf |-> None,
         aud |-> TRUE, iss |-> TRUE, roles |-> {"analyst"}]

Bearer(route, token) == [route |-> route, header |-> "bearer", token |-> token]

\* A token that expires, one of an unsupported key, a route nobody may take, a route
\* without a permission and one outside the chain.
Requests == {Bearer("POST /workflows", Good),
             Bearer("GetWorkflow", [Good EXCEPT !.alg = "EdDSA", !.kid = k2]),
             Bearer("DELETE /workflows/{id}", [Good EXCEPT !.exp = None]),
             Bearer("POST /health", Good),
             Bearer("GET /health", Good)}

Symmetric == Permutations(Calls \ {Warmup})
=============================================================================
