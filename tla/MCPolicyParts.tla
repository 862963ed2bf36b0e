--------------------------- MODULE MCPolicyParts ----------------------------
(***************************************************************************)
(* The parts of pact that decide who may do what, side by side: the policy *)
(* service with its replicated approvals, the RBAC decision on its own,    *)
(* the engine of pact-policy, the validation of tokens, and the rate       *)
(* limiter.  They share no state, so a behaviour takes the steps of one of *)
(* them.                                                                   *)
(***************************************************************************)
EXTENDS PolicyService, PolicyEngine, TokenKeys, RateLimiter

VARIABLE part

partVars == <<policyVars, request, engineVars, tokenVars, limiterVars, part>>

PartsInit ==
    /\ part \in {"service", "rbac", "engine", "tokens", "limiter"}
    /\ PolicyInit
    /\ IF part = "rbac" THEN RbacInit ELSE request = CHOOSE r \in Request : TRUE
    /\ EngineInit /\ LimiterInit
    /\ IF part = "tokens" THEN TokenInit ELSE TokenInit /\ published = Jwk /\ process = "agent"

\* Each part's steps leave the others alone.
Service(A) == part = "service" /\ A /\ UNCHANGED <<request, engineVars, tokenVars, limiterVars, part>>
RbacStep == part = "rbac" /\ RbacNext /\ UNCHANGED <<policyVars, engineVars, tokenVars, limiterVars, part>>
EngineStep == part = "engine" /\ EngineNext /\ UNCHANGED <<policyVars, request, tokenVars, limiterVars, part>>
TokenStep == part = "tokens" /\ TokenNext /\ UNCHANGED <<policyVars, request, engineVars, limiterVars, part>>
LimiterStep ==
    part = "limiter" /\ LimiterNext
        /\ UNCHANGED <<policyVars, request, engineVars, tokenVars, part>>

PartsNext == Service(PolicyNext) \/ RbacStep \/ EngineStep \/ TokenStep \/ LimiterStep

PartsSpec == PartsInit /\ [][PartsNext]_partVars

-----------------------------------------------------------------------------
(* The constants of the run.                                               *)
MCPolicies == { DefaultPolicy, [DefaultPolicy EXCEPT !.two_person_approval = TRUE] }

MCBindings ==
    [role : { [kind |-> "custom", vc |-> None] }, principals : { {"alice"} },
     allowed_actions : { {"*"}, {"emergency_start"} }]

\* A key with a kid and one without, and tokens signed with the first and with the
\* shared secret.
MCJwk == { [kid |-> "a", key |-> "ka"], [kid |-> "", key |-> "kb"] }
MCToken ==
    { [alg |-> "HS256", kid |-> "", key |-> "ka", exp |-> 3, claims_ok |-> TRUE],
      [alg |-> "RS256", kid |-> "a", key |-> "ka", exp |-> 3, claims_ok |-> TRUE] }
=============================================================================
