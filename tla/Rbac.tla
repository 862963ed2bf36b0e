-------------------------------- MODULE Rbac --------------------------------
(***************************************************************************)
(* The role-based access decision of pact-policy (rbac/mod.rs,             *)
(* RbacEngine::evaluate): a pure function of the caller's identity, the    *)
(* action, its scope and the vCluster policy in force.                     *)
(***************************************************************************)
EXTENDS JournalTypes, Sequences

CONSTANTS
    RoleBinding,    \* records [role, principals, allowed_actions] a policy may hold
    MaxBindings     \* bound on the bindings of a policy

ASSUME RbacAssumption == MaxBindings \in Nat

\* A role string is "pact-" and one of these, with a vCluster suffix for three of
\* them; "custom" is any other string, known only through role bindings.
ScopedKind == {"ops", "viewer", "regulated"}
PlainKind == {"platform-admin", "service-agent", "service-ai", "custom"}
RbacRole == [kind : ScopedKind, vc : VClusterId] \cup [kind : PlainKind, vc : {None}]
RbacIdentity == [principal : Principal, role : RbacRole]

READ_ACTIONS == {"status", "diff", "log"}
WRITE_ACTIONS == {"commit", "rollback", "exec", "shell",
                  "service_start", "service_stop", "service_restart"}
EMERGENCY == {"emergency_start", "emergency_end"}
Action == READ_ACTIONS \cup WRITE_ACTIONS \cup EMERGENCY \cup {"approve", "policy_update"}

\* The fields of VClusterPolicy the decision reads.
RbacPolicy == [two_person_approval : BOOLEAN, ai_exec_allowed : BOOLEAN,
               role_bindings : UNION {[1..n -> RoleBinding] : n \in 0..MaxBindings}]

DefaultPolicy ==
    [two_person_approval |-> FALSE, ai_exec_allowed |-> FALSE, role_bindings |-> <<>>]

-----------------------------------------------------------------------------
\* A binding that names the caller and lists the action or the wildcard.
Matches(binding, identity, action) ==
    /\ binding.role = identity.role
    /\ identity.principal \in binding.principals
    /\ {action, "*"} \cap binding.allowed_actions # {}

\* The loop over role_bindings returns at the first match.
FirstMatch(i, identity, action, bindings) ==
    /\ Matches(bindings[i], identity, action)
    /\ \A j \in 1..(i - 1) : ~Matches(bindings[j], identity, action)

\* That binding decides: emergency actions must be listed, a wildcard is not enough.
BoundDecision(identity, action, bindings) ==
    IF \E i \in DOMAIN bindings :
          /\ FirstMatch(i, identity, action, bindings)
          /\ action \in EMERGENCY => action \in bindings[i].allowed_actions
    THEN "Allow" ELSE "Deny"

\* Variant for sensitivity checks: viewers may follow a shell session.
KindDecision_Viewer(identity, action, policy) ==
    IF identity.role.kind = "viewer" /\ action \in READ_ACTIONS \cup EMERGENCY THEN "Allow"
    ELSE IF identity.role.kind = "regulated" /\ action \in READ_ACTIONS THEN "Allow"
    ELSE IF identity.role.kind \in ScopedKind THEN "Deny"
    ELSE BoundDecision(identity, action, policy.role_bindings)

\* Variant for sensitivity checks: a regulated write is deferred under any policy.
KindDecision_AllDefer(identity, action, policy) ==
    IF identity.role.kind = "regulated" /\ action \in WRITE_ACTIONS THEN "Defer"
    ELSE IF action \in READ_ACTIONS \/ identity.role.kind = "ops" THEN "Allow" ELSE "Deny"

\* What each kind of role gets once the scope checks have passed.
KindDecision(identity, action, policy) ==
    LET allow(actions) == IF action \in actions THEN "Allow" ELSE "Deny"
    IN  CASE identity.role.kind = "viewer" -> allow(READ_ACTIONS)
          [] identity.role.kind = "regulated" ->
                IF policy.two_person_approval /\ action \in WRITE_ACTIONS
                THEN "Defer"
                ELSE allow(READ_ACTIONS \cup WRITE_ACTIONS \cup {"approve"})
          [] identity.role.kind = "ops" ->
                allow(READ_ACTIONS \cup WRITE_ACTIONS \cup EMERGENCY \cup {"approve"})
          [] identity.role.kind = "service-agent" -> allow({"status", "log"})
          [] identity.role.kind = "service-ai" ->
                allow(READ_ACTIONS \cup IF policy.ai_exec_allowed THEN {"exec"} ELSE {})
          [] OTHER -> BoundDecision(identity, action, policy.role_bindings)

\* RbacEngine::evaluate.  A node scope's id is compared with the role's vCluster
\* as if it were one.
evaluate(identity, action, scope, policy) ==
    IF identity.role.kind = "platform-admin" THEN "Allow"
    ELSE IF \/ identity.role.kind = "service-ai" /\ action \in EMERGENCY
            \/ scope.kind = "Global"
            \/ identity.role.kind \in ScopedKind /\ identity.role.vc # scope.id
            \/ action = "policy_update"
         THEN "Deny"
         ELSE KindDecision(identity, action, policy)

-----------------------------------------------------------------------------
(* PolicyService::evaluate of the journal, on top of it.                   *)

\* The policy it looks up among those stored: only a vCluster scope has one.
ServicePolicy(stored, scope) ==
    IF scope.kind = "VCluster" /\ stored[scope.id] # None
    THEN stored[scope.id] ELSE DefaultPolicy

\* A refusal of OPA refuses; an error, or no OPA client at all ("none"), allows.
evaluate_opa(opa) == IF opa = "Deny" THEN "Deny" ELSE "Allow"

\* The answer of the service: a deferred request waits for a second person under the
\* two-person switch, and is put to OPA otherwise.
ServiceDecision(identity, action, scope, stored, opa) ==
    LET policy == ServicePolicy(stored, scope)
        rbac == evaluate(identity, action, scope, policy)
    IN  IF rbac # "Defer" THEN rbac
        ELSE IF policy.two_person_approval THEN "RequireApproval"
        ELSE evaluate_opa(opa)
=============================================================================
