--------------------------- MODULE PolicyService ---------------------------
(***************************************************************************)
(* The policy RPCs of pact-journal (policy_service.rs) and the expiry loop *)
(* of the heartbeat monitor (heartbeat.rs), over the replicated approvals. *)
(* evaluate reads the policy and awaits before it writes CreateApproval;   *)
(* expire_approvals collects ids and awaits before it writes each          *)
(* DecideApproval; decisions and policy updates interleave.                *)
(***************************************************************************)
EXTENDS Approvals, Rbac

CONSTANTS
    Call,               \* evaluate calls in flight
    ApprovalLifetime,   \* 24 hours
    SetPolicies,        \* the policies update_policy is sent
    ManagedVCluster     \* the vClusters it is sent them for

ASSUME PolicyAssumption ==
    /\ ApprovalLifetime \in Nat
    /\ SetPolicies \subseteq RbacPolicy /\ ManagedVCluster \subseteq VClusterId
    /\ {"system", "anonymous"} \subseteq Principal

VARIABLES
    policies,       \* VClusterId -> policy or None
    now,            \* the wall clock
    pending,        \* Call -> the approval about to be created, or None
    expiring,       \* ids expire_approvals has collected and not yet written
    history         \* ApprovalId -> what the properties compare with, or None

policyVars == <<pending_approvals, policies, now, pending, expiring, history>>

\* Who asked evaluate, and when; when the decision was applied.
HistoryRecord ==
    [asker : Principal, askedAt : Time, decidedAt : Time \cup {None}]

PolicyTypeOK ==
    /\ ApprovalsTypeOK
    /\ policies \in [VClusterId -> SetPolicies \cup {None}]
    /\ now \in Time
    /\ pending \in [Call -> [id : ApprovalId, requester : Principal, expires_at : Nat] \cup {None}]
    /\ expiring \subseteq ApprovalId
    /\ history \in [ApprovalId -> HistoryRecord \cup {None}]

PolicyInit ==
    /\ ApprovalsInit
    /\ policies = [v \in VClusterId |-> None]
    /\ now = 0
    /\ pending = [c \in Call |-> None]
    /\ expiring = {}
    /\ history = [a \in ApprovalId |-> None]

-----------------------------------------------------------------------------
\* uuid::Uuid::new_v4
Unused(a) ==
    /\ pending_approvals[a] = None /\ history[a] = None
    /\ \A c \in Call : pending[c] # None => pending[c].id # a

\* evaluate, Defer with two_person_approval: the approval is built from the clock
\* and the policy of this moment.  Allow and Deny are answers that write nothing,
\* and a request that was approved is evaluated like any other.
EvaluateDeferred(c, a, identity, action, scope) ==
    /\ pending[c] = None /\ Unused(a)
    /\ ServiceDecision(identity, action, scope, policies, "none") = "RequireApproval"
    /\ pending' = [pending EXCEPT ![c] = [id |-> a, requester |-> identity.principal,
                                          expires_at |-> now + ApprovalLifetime]]
    /\ history' = [history EXCEPT ![a] = [asker |-> identity.principal, askedAt |-> now,
                                          decidedAt |-> None]]
    /\ UNCHANGED <<pending_approvals, policies, now, expiring>>

\* The CreateApproval write; a failed write is an error answer.
EvaluateWrite(c) ==
    /\ pending[c] # None
    /\ \/ CreateApproval(pending[c].id, NewApproval(pending[c].requester, pending[c].expires_at))
       \/ UNCHANGED pending_approvals
    /\ pending' = [pending EXCEPT ![c] = None]
    /\ UNCHANGED <<policies, now, expiring, history>>

UpdatePolicy(v, policy) ==
    /\ policies' = [policies EXCEPT ![v] = policy]
    /\ UNCHANGED <<pending_approvals, now, pending, expiring, history>>

\* A decision that is applied, with the time it is.
Decided(a, approver, decision) ==
    /\ DecideApproval(a, approver, decision)
    /\ history' = [history EXCEPT ![a].decidedAt = now]

\* decide_approval: "approved" or "rejected"; everything is checked by apply.
DecideApprovalRpc(a, approver, decision) ==
    /\ Decided(a, approver, decision)
    /\ UNCHANGED <<policies, now, pending, expiring>>

-----------------------------------------------------------------------------
\* Variant for sensitivity checks: the deadline itself is late already.
PastDeadline_Early(a) ==
    /\ pending_approvals[a] # None
    /\ pending_approvals[a].status = "Pending"
    /\ now >= pending_approvals[a].expires_at

\* expire_approvals, the collection.
PastDeadline(a) ==
    /\ pending_approvals[a] # None
    /\ pending_approvals[a].status = "Pending"
    /\ now > pending_approvals[a].expires_at

ExpireScan ==
    /\ expiring = {}
    /\ expiring' = { a \in ApprovalId : PastDeadline(a) }
    /\ UNCHANGED <<pending_approvals, policies, now, pending, history>>

\* One DecideApproval of the loop, applied, or refused because somebody decided
\* meanwhile, or lost.
ExpireWrite(a) ==
    /\ a \in expiring
    /\ expiring' = expiring \ {a}
    /\ Decided(a, "system", "Expired")
    /\ UNCHANGED <<policies, now, pending>>

ExpireWriteFails(a) ==
    /\ a \in expiring
    /\ expiring' = expiring \ {a}
    /\ UNCHANGED <<pending_approvals, policies, now, pending, history>>

Tick ==
    /\ now < MaxTime
    /\ now' = now + 1
    /\ UNCHANGED <<pending_approvals, policies, pending, expiring, history>>

\* An author that the request leaves out is "anonymous", with no role.
Asker == { i \in RbacIdentity : i.principal = "anonymous" => i.role.kind = "custom" }

PolicyNext ==
    \/ \E c \in Call, a \in ApprovalId, i \in Asker, act \in Action, s \in Scope :
          EvaluateDeferred(c, a, i, act, s)
    \/ \E c \in Call : EvaluateWrite(c)
    \/ \E v \in ManagedVCluster, p \in SetPolicies : UpdatePolicy(v, p)
    \/ \E a \in ApprovalId, p \in Principal, d \in {"Approved", "Rejected"} :
          DecideApprovalRpc(a, p, d)
    \/ ExpireScan
    \/ \E a \in ApprovalId : ExpireWrite(a) \/ ExpireWriteFails(a)
    \/ Tick

PolicySpec == PolicyInit /\ [][PolicyNext]_policyVars

-----------------------------------------------------------------------------
\* P5: a request on file is its asker's, and is expired only after the whole lifetime
\* that began when it was asked, by the system.  evaluate fixes the deadline before an
\* await and writes it after; expire_approvals writes what it collected some time
\* earlier, and decisions race with it.
NoEarlyExpiry ==
    \A a \in ApprovalId :
        pending_approvals[a] # None =>
            /\ pending_approvals[a].requester = history[a].asker
            /\ pending_approvals[a].status = "Expired" =>
                  /\ history[a].decidedAt > history[a].askedAt + ApprovalLifetime
                  /\ pending_approvals[a].approver = "system"
=============================================================================
