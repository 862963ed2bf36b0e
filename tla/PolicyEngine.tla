---------------------------- MODULE PolicyEngine ----------------------------
(***************************************************************************)
(* DefaultPolicyEngine of pact-policy (rules/mod.rs) with its OPA client   *)
(* (rules/opa.rs): policies and approvals kept in the process, without the *)
(* replicated journal.  Its methods take the engine exclusively, so each   *)
(* is one step; the clock runs between them.  The second half is about the *)
(* decision alone (rbac/mod.rs and the two evaluators on top of it): what  *)
(* it guarantees over every request a service can put to it.               *)
(***************************************************************************)
EXTENDS Rbac

CONSTANTS
    EngineApproval,     \* approval ids: UUIDs
    approval_timeout_seconds,
    EnginePolicies,     \* the policies set_policy is given
    EngineVCluster,     \* the vClusters it is given them for
    EngineHorizon       \* bound on the clock

ASSUME EngineAssumption ==
    /\ approval_timeout_seconds \in Nat /\ EngineHorizon \in Nat
    /\ EnginePolicies \subseteq RbacPolicy /\ EngineVCluster \subseteq VClusterId

VARIABLES
    engine,         \* [policies, approvals]
    engineNow,
    grants,         \* EngineApproval -> the number of Allow answers approve gave
    request         \* one request after another, as a service sees them

engineVars == <<engine, engineNow, grants>>

EngineApprovalRecord ==
    [requester : Principal, scope : Scope, expires_at : Nat,
     status : {"Pending", "Approved", "Rejected", "Expired"}]

\* An id whose record cleanup_resolved removed is not drawn again.
Gone == [status |-> "Gone"]

ASSUME EngineNoneAssumption == None \notin EngineApprovalRecord \cup {Gone}

EngineTypeOK ==
    /\ engine \in [policies : [VClusterId -> EnginePolicies \cup {None}],
                   approvals : [EngineApproval -> EngineApprovalRecord \cup {None, Gone}]]
    /\ engineNow \in 0..EngineHorizon
    /\ grants \in [EngineApproval -> Nat]

EngineInit ==
    /\ engine = [policies |-> [v \in VClusterId |-> None],
                 approvals |-> [a \in EngineApproval |-> None]]
    /\ engineNow = 0
    /\ grants = [a \in EngineApproval |-> 0]

-----------------------------------------------------------------------------
\* A node scope's id is looked up as if it were a vCluster's.
PolicyFor(policies, scope) ==
    IF scope.id \in VClusterId /\ policies[scope.id] # None
    THEN policies[scope.id] ELSE DefaultPolicy

set_policy(v, policy) ==
    /\ engine' = [engine EXCEPT !.policies[v] = policy]
    /\ UNCHANGED <<engineNow, grants>>

\* evaluate_sync decides by RBAC and, on Defer, by the two-person switch.
SyncDecision(identity, action, scope, policy) ==
    LET rbac == evaluate(identity, action, scope, policy)
    IN  IF rbac # "Defer" THEN rbac
        ELSE IF policy.two_person_approval THEN "RequireApproval" ELSE "Allow"

\* HttpOpaClient::evaluate: the allow query, and on a refusal the one for its reason.
OpaDecision(allow, reason) ==
    CASE allow = "error" -> "Err"
      [] allow = "true" -> "Allow"
      [] reason = "error" -> "Err"
      [] OTHER -> "Deny"

\* The trait's evaluate asks OPA where evaluate_sync allows; an OPA error allows.
AsyncDecision(identity, action, scope, policy, opa) ==
    LET rbac == evaluate(identity, action, scope, policy)
    IN  IF rbac # "Defer" THEN rbac
        ELSE IF policy.two_person_approval THEN "RequireApproval"
        ELSE IF opa = "Deny" THEN "Deny" ELSE "Allow"

Known(a) == engine.approvals[a] \notin {None, Gone}

WithStatus(a, status) == [engine.approvals[a] EXCEPT !.status = status]
SetStatus(a, status) == engine' = [engine EXCEPT !.approvals[a] = WithStatus(a, status)]

\* create_approval
EngineRecord(identity, scope) ==
    [requester |-> identity.principal, scope |-> scope, status |-> "Pending",
     expires_at |-> engineNow + approval_timeout_seconds]

\* evaluate_sync with RequireApproval; Allow and Deny change nothing.
evaluate_sync(a, identity, action, scope) ==
    /\ SyncDecision(identity, action, scope, PolicyFor(engine.policies, scope)) = "RequireApproval"
    /\ engine.approvals[a] = None
    /\ engine' = [engine EXCEPT !.approvals[a] = EngineRecord(identity, scope)]
    /\ UNCHANGED <<engineNow, grants>>

\* The roles that may approve for a vCluster.
ApproverRole(role, scope) ==
    role.kind = "platform-admin" \/ (role.kind \in {"ops", "regulated"} /\ role.vc = scope.id)

\* Variant for sensitivity checks: the status is not looked at.
approve_Again(a, approver) ==
    /\ Known(a)
    /\ engineNow <= engine.approvals[a].expires_at
    /\ engine.approvals[a].requester # approver.principal
    /\ ApproverRole(approver.role, engine.approvals[a].scope)
    /\ SetStatus(a, "Approved")
    /\ grants' = [grants EXCEPT ![a] = @ + 1]
    /\ UNCHANGED engineNow

\* approve answers Allow.
approve(a, approver) ==
    /\ Known(a)
    /\ engineNow <= engine.approvals[a].expires_at
    /\ engine.approvals[a].status = "Pending"
    /\ engine.approvals[a].requester # approver.principal
    /\ ApproverRole(approver.role, engine.approvals[a].scope)
    /\ SetStatus(a, "Approved")
    /\ grants' = [grants EXCEPT ![a] = @ + 1]
    /\ UNCHANGED engineNow

\* approve after the deadline: the record becomes Expired, whatever was decided.
ApproveLate(a) ==
    /\ Known(a)
    /\ engineNow > engine.approvals[a].expires_at
    /\ SetStatus(a, "Expired")
    /\ UNCHANGED <<engineNow, grants>>

\* reject looks neither at the deadline nor at who rejects.
reject(a) ==
    /\ Known(a) /\ engine.approvals[a].status = "Pending"
    /\ SetStatus(a, "Rejected")
    /\ UNCHANGED <<engineNow, grants>>

Overdue(a) ==
    /\ Known(a) /\ engine.approvals[a].status = "Pending"
    /\ engineNow > engine.approvals[a].expires_at

expire_approvals ==
    /\ engine' = [engine EXCEPT !.approvals = [a \in EngineApproval |->
                     IF Overdue(a) THEN WithStatus(a, "Expired") ELSE engine.approvals[a]]]
    /\ UNCHANGED <<engineNow, grants>>

cleanup_resolved ==
    /\ engine' = [engine EXCEPT !.approvals = [a \in EngineApproval |->
                     IF Known(a) /\ engine.approvals[a].status # "Pending" THEN Gone
                     ELSE engine.approvals[a]]]
    /\ UNCHANGED <<engineNow, grants>>

EngineTick ==
    /\ engineNow < EngineHorizon
    /\ engineNow' = engineNow + 1
    /\ UNCHANGED <<engine, grants>>

EngineNext ==
    \/ \E v \in EngineVCluster, p \in EnginePolicies : set_policy(v, p)
    \/ \E a \in EngineApproval, i \in RbacIdentity, act \in Action, s \in Scope :
          evaluate_sync(a, i, act, s)
    \/ \E a \in EngineApproval, i \in RbacIdentity : approve(a, i)
    \/ \E a \in EngineApproval : ApproveLate(a) \/ reject(a)
    \/ expire_approvals
    \/ cleanup_resolved
    \/ EngineTick

EngineSpec == EngineInit /\ [][EngineNext]_engineVars

-----------------------------------------------------------------------------
\* P4: a two-person request is granted at most once, whatever approvals, rejections,
\* expiries and clean-ups of other callers come in between, although approve looks at
\* the deadline before it looks at the status and rewrites decided records.
GrantedOnce ==
    \A a \in EngineApproval : grants[a] <= 1

-----------------------------------------------------------------------------
Request == [identity : RbacIdentity, action : Action, scope : Scope, policy : RbacPolicy]

Decide(r) == evaluate(r.identity, r.action, r.scope, r.policy)

RbacTypeOK == request \in Request

\* policy_service and the engine of rules/mod.rs ask about one request at a time.
RbacInit == request \in Request
RbacNext == request' \in { [request EXCEPT !.action = a] : a \in Action }
RbacSpec == RbacInit /\ [][RbacNext]_request

WithRole(r, role) == [r EXCEPT !.identity.role = role]

\* The role model in the head comment of rbac/mod.rs orders the roles of a vCluster:
\* what a viewer may do a regulated operator may do, what a regulated operator may
\* do or ask for an operator may do, and the platform admin may do everything.
\* No branch of evaluate may give the lower role more.
RolesOrdered ==
    \A v \in VClusterId :
        LET as(kind) == Decide(WithRole(request, [kind |-> kind, vc |-> v]))
        IN  /\ as("viewer") = "Allow" => as("regulated") = "Allow"
            /\ as("regulated") # "Deny" => as("ops") = "Allow"
            /\ Decide(WithRole(request, [kind |-> "platform-admin", vc |-> None])) = "Allow"

\* P3: a scoped role is worth nothing outside its vCluster, whatever the policy's
\* switches and bindings say; and nobody but the platform admin acts globally or
\* updates a policy.
ScopeConfines ==
    Decide(request) # "Deny" =>
        \/ request.identity.role.kind = "platform-admin"
        \/ /\ request.scope.kind # "Global"
           /\ request.action # "policy_update"
           /\ request.identity.role.vc \in {None, request.scope.id}

\* P8 and F20: the AI service never gets emergency mode, and neither does a custom
\* role through a wildcard alone.
EmergencyExplicit ==
    (request.action \in EMERGENCY /\ Decide(request) = "Allow") =>
        \/ request.identity.role.kind \in {"platform-admin", "ops"}
        \/ \E i \in DOMAIN request.policy.role_bindings :
              /\ request.policy.role_bindings[i].role = request.identity.role
              /\ request.action \in request.policy.role_bindings[i].allowed_actions

\* The role model at the head of rbac/mod.rs as a whole: roles are ordered, scopes
\* confine them, and emergency mode is granted explicitly, whatever the policy.
RoleModel == RolesOrdered /\ ScopeConfines /\ EmergencyExplicit

\* The three evaluators answer a request alike: the policy service, evaluate_sync and
\* the asynchronous evaluate, each with its own look-up among the same stored policies,
\* and whether OPA is absent, allows, refuses or fails in either of its two queries.
\* They treat Defer without the two-person switch differently (OPA, allow, OPA), so
\* they agree only because RBAC defers to nothing but the switch; the rules kept in OPA
\* are never asked.  The engine takes the id of a node for a vCluster's, the service does
\* not: a node named like a vCluster is left out.
EvaluatorsAgree ==
    LET r == request
        stored == [v \in VClusterId |-> r.policy]
        policy == PolicyFor(stored, r.scope)
        sync == SyncDecision(r.identity, r.action, r.scope, policy)
    IN  (r.scope.kind = "Node" => r.scope.id \notin VClusterId) =>
            \A allow \in {"true", "false", "error"}, reason \in {"text", "error"} :
                LET answer == OpaDecision(allow, reason)
                IN  /\ AsyncDecision(r.identity, r.action, r.scope, policy, answer) = sync
                    /\ \A opa \in {answer, "none"} :
                          ServiceDecision(r.identity, r.action, r.scope, stored, opa) = sync
=============================================================================
