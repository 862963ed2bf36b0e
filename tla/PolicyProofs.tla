---------------------------- MODULE PolicyProofs ----------------------------
(***************************************************************************)
(* Proofs about the parts that decide who may do what: the RBAC decision   *)
(* and the evaluators on top of it, the approvals of the policy service    *)
(* and of the engine, and the keys that validate the tokens of callers,    *)
(* for every set of principals, requests, calls and validations.           *)
(***************************************************************************)
EXTENDS PolicyService, PolicyEngine, TokenKeys, TLAPS

-----------------------------------------------------------------------------
(* The RBAC decision.                                                      *)

\* The bindings of a policy allow or refuse.
LEMMA BindingsDecide ==
    \A identity, action, bindings :
        BoundDecision(identity, action, bindings) \in {"Allow", "Deny"}
  BY DEF BoundDecision

\* A request stays one when its action is replaced.
LEMMA RequestStep == RbacTypeOK /\ [RbacNext]_request => RbacTypeOK'
  BY DEF RbacTypeOK, RbacNext, Request

\* The request under another role.
LEMMA RoleChanged ==
    ASSUME NEW r \in Request, NEW role \in RbacRole
    PROVE  /\ Decide(WithRole(r, role)) =
                 evaluate([principal |-> r.identity.principal, role |-> role],
                          r.action, r.scope, r.policy)
<1>1. r.identity \in RbacIdentity
  BY DEF Request
<1>2. WithRole(r, role) = [r EXCEPT !.identity = [r.identity EXCEPT !.role = role]]
  BY DEF WithRole, Request
<1>3. [r.identity EXCEPT !.role = role] = [principal |-> r.identity.principal, role |-> role]
  BY <1>1 DEF RbacIdentity
<1>. QED BY <1>2, <1>3 DEF Decide, Request

\* The role model at the head of rbac/mod.rs, for every policy and every request: no
\* branch of evaluate gives the lower role more, a scope confines its roles, and
\* emergency mode is granted explicitly.
THEOREM RoleModelHolds == RbacSpec => []RoleModel
<1>1. ASSUME request \in Request PROVE RolesOrdered
  <2>. SUFFICES ASSUME NEW v \in VClusterId
                PROVE  LET as(kind) == Decide(WithRole(request, [kind |-> kind, vc |-> v]))
                       IN  /\ as("viewer") = "Allow" => as("regulated") = "Allow"
                           /\ as("regulated") # "Deny" => as("ops") = "Allow"
                           /\ Decide(WithRole(request, [kind |-> "platform-admin", vc |-> None]))
                                  = "Allow"
    BY Zenon DEF RolesOrdered
  <2>1. [kind |-> "platform-admin", vc |-> None] \in RbacRole
    BY DEF RbacRole, PlainKind
  <2>2. \A kind \in ScopedKind : [kind |-> kind, vc |-> v] \in RbacRole
    BY DEF RbacRole
  <2>3. Decide(WithRole(request, [kind |-> "platform-admin", vc |-> None])) = "Allow"
    BY <1>1, <2>1, RoleChanged, Zenon DEF evaluate
  <2>. DEFINE id(kind) == [principal |-> request.identity.principal,
                           role |-> [kind |-> kind, vc |-> v]]
              says(kind) == evaluate(id(kind), request.action, request.scope, request.policy)
  <2>4. \A kind \in ScopedKind :
            Decide(WithRole(request, [kind |-> kind, vc |-> v])) = says(kind)
    BY <1>1, <2>2, RoleChanged, Zenon
  <2>5. /\ says("viewer") = "Allow" => says("regulated") = "Allow" \/ request.action \in WRITE_ACTIONS
        /\ says("viewer") = "Allow" => request.action \in READ_ACTIONS
    BY Zenon DEF evaluate, KindDecision, ScopedKind
  <2>6. \A x \in READ_ACTIONS : x \notin WRITE_ACTIONS
    BY DEF READ_ACTIONS, WRITE_ACTIONS
  <2>7. says("regulated") # "Deny" => says("ops") = "Allow"
    BY Zenon DEF evaluate, KindDecision, ScopedKind
  <2>. QED BY <2>3, <2>4, <2>5, <2>6, <2>7, Zenon DEF ScopedKind
<1>2. ASSUME request \in Request PROVE ScopeConfines
  <2>1. request.identity.role \in RbacRole
    BY <1>2 DEF Request, RbacIdentity
  <2>2. \/ request.identity.role.kind \in ScopedKind
        \/ request.identity.role.vc = None
    BY <2>1 DEF RbacRole
  <2>. QED BY <2>2, Zenon DEF ScopeConfines, Decide, evaluate
<1>3. ASSUME request \in Request PROVE EmergencyExplicit
  <2>. SUFFICES ASSUME request.action \in EMERGENCY, Decide(request) = "Allow",
                       request.identity.role.kind \notin {"platform-admin", "ops"}
                PROVE  \E i \in DOMAIN request.policy.role_bindings :
                          /\ request.policy.role_bindings[i].role = request.identity.role
                          /\ request.action \in request.policy.role_bindings[i].allowed_actions
    BY DEF EmergencyExplicit
  <2>1. request.action \notin READ_ACTIONS \cup WRITE_ACTIONS \cup {"approve", "status", "log", "exec"}
    BY DEF EMERGENCY, READ_ACTIONS, WRITE_ACTIONS
  <2>2. BoundDecision(request.identity, request.action, request.policy.role_bindings) = "Allow"
    BY <2>1, Zenon DEF Decide, evaluate, KindDecision, ScopedKind
  <2>. QED BY <2>2, Zenon DEF BoundDecision, FirstMatch, Matches
<1>4. RbacTypeOK => RoleModel
  BY <1>1, <1>2, <1>3 DEF RbacTypeOK, RoleModel
<1>5. RbacInit => RbacTypeOK
  BY DEF RbacInit, RbacTypeOK
<1>. QED BY <1>4, <1>5, RequestStep, PTL DEF RbacSpec

\* RBAC defers to the two-person switch alone, under any policy.
LEMMA DeferNeedsSwitch ==
    ASSUME NEW identity, NEW action, NEW scope, NEW policy,
           evaluate(identity, action, scope, policy) = "Defer"
    PROVE  policy.two_person_approval
  BY BindingsDecide, Zenon DEF evaluate, KindDecision

\* The policy service, evaluate_sync and the asynchronous evaluate, each with its own
\* look-up, answer one request alike, for every policy and whatever OPA says: RBAC defers
\* only under the two-person switch, so the branches in which they differ are not reached.
THEOREM EvaluatorsAnswerAlike == RbacSpec => []EvaluatorsAgree
<1>1. ASSUME request \in Request PROVE EvaluatorsAgree
  <2>. DEFINE stored == [v \in VClusterId |-> request.policy]
              policy == PolicyFor(stored, request.scope)
              mine == ServicePolicy(stored, request.scope)
              says(p) == evaluate(request.identity, request.action, request.scope, p)
  <2>. SUFFICES ASSUME request.scope.kind = "Node" => request.scope.id \notin VClusterId,
                       NEW answer
                PROVE  /\ AsyncDecision(request.identity, request.action, request.scope,
                                        policy, answer)
                             = SyncDecision(request.identity, request.action, request.scope, policy)
                       /\ \A opa : ServiceDecision(request.identity, request.action,
                                                   request.scope, stored, opa)
                             = SyncDecision(request.identity, request.action, request.scope, policy)
    BY Zenon DEF EvaluatorsAgree
  <2>1. says(policy) = "Defer" => policy.two_person_approval
    BY DeferNeedsSwitch, Zenon
  <2>2. says(mine) = "Defer" => mine.two_person_approval
    BY DeferNeedsSwitch, Zenon
  <2>3. request.scope \in Scope
    BY <1>1 DEF Request
  <2>4. CASE request.scope.kind = "Global"
    <3>1. says(mine) = says(policy) /\ says(policy) # "Defer"
      BY <2>4, Zenon DEF evaluate
    <3>. QED BY <3>1, Zenon DEF SyncDecision, AsyncDecision, ServiceDecision
  <2>5. CASE request.scope.kind # "Global"
    <3>1. mine = policy
      BY <2>3, <2>5 DEF Scope, ServicePolicy, PolicyFor
    <3>. QED BY <2>1, <3>1, Zenon DEF SyncDecision, AsyncDecision, ServiceDecision
  <2>. QED BY <2>3, <2>4, <2>5, Zenon
<1>2. RbacTypeOK => EvaluatorsAgree
  BY <1>1 DEF RbacTypeOK
<1>3. RbacInit => RbacTypeOK
  BY DEF RbacInit, RbacTypeOK
<1>. QED BY <1>2, <1>3, RequestStep, PTL DEF RbacSpec

-----------------------------------------------------------------------------
(* The policy service.                                                     *)

\* Every request is one of two persons': what the service keeps of its approvals.
ApprovalsInv == ApprovalsTypeOK /\ TwoPersons

\* A new request is a PendingApproval.
LEMMA NewApprovalType ==
    ASSUME NEW p \in Principal, NEW t \in Nat
    PROVE  NewApproval(p, t) \in PendingApproval
  BY DEF NewApproval, PendingApproval

\* Creating a request keeps the invariant: it is pending and has no approver.
LEMMA CreatePreserves ==
    ASSUME ApprovalsInv, NEW a \in ApprovalId, NEW p \in Principal, NEW t \in Nat,
           CreateApproval(a, NewApproval(p, t))
    PROVE  ApprovalsInv'
<1>1. NewApproval(p, t) \in PendingApproval
  BY NewApprovalType
<1>2. ApprovalsTypeOK'
  BY <1>1 DEF ApprovalsInv, ApprovalsTypeOK, CreateApproval
<1>3. TwoPersons'
  <2>. SUFFICES ASSUME NEW b \in ApprovalId, pending_approvals'[b] # None
                PROVE  /\ pending_approvals'[b].status = "Pending"
                            <=> pending_approvals'[b].approver = None
                       /\ pending_approvals'[b].approver # pending_approvals'[b].requester
    BY DEF TwoPersons
  <2>1. CASE b = a
    <3>1. pending_approvals'[b] = NewApproval(p, t)
      BY <2>1 DEF CreateApproval, ApprovalsInv, ApprovalsTypeOK
    <3>2. None # p
      BY NoneAssumption
    <3>. QED BY <3>1, <3>2 DEF NewApproval
  <2>2. CASE b # a
    <3>1. pending_approvals'[b] = pending_approvals[b]
      BY <2>2 DEF CreateApproval, ApprovalsInv, ApprovalsTypeOK
    <3>. QED BY <3>1 DEF ApprovalsInv, TwoPersons
  <2>. QED BY <2>1, <2>2
<1>. QED BY <1>2, <1>3 DEF ApprovalsInv

\* Deciding keeps the invariant: the approver is not the requester.
LEMMA DecidePreserves ==
    ASSUME ApprovalsInv, NEW a \in ApprovalId, NEW p \in Principal, NEW d \in Decision,
           DecideApproval(a, p, d)
    PROVE  ApprovalsInv'
<1>1. /\ pending_approvals[a] \in PendingApproval
      /\ pending_approvals[a].requester # p
  BY DEF ApprovalsInv, ApprovalsTypeOK, DecideApproval, Decidable
<1>2. pending_approvals' =
        [pending_approvals EXCEPT ![a] = [pending_approvals[a] EXCEPT !.status = d, !.approver = p]]
  BY Zenon DEF DecideApproval, ApprovalsInv, ApprovalsTypeOK
<1>3. [pending_approvals[a] EXCEPT !.status = d, !.approver = p] \in PendingApproval
  BY <1>1, Zenon DEF PendingApproval
<1>4. ApprovalsTypeOK'
  BY <1>2, <1>3 DEF ApprovalsInv, ApprovalsTypeOK
<1>5. TwoPersons'
  <2>. SUFFICES ASSUME NEW b \in ApprovalId, pending_approvals'[b] # None
                PROVE  /\ pending_approvals'[b].status = "Pending"
                            <=> pending_approvals'[b].approver = None
                       /\ pending_approvals'[b].approver # pending_approvals'[b].requester
    BY Zenon DEF TwoPersons
  <2>1. CASE b = a
    <3>1. pending_approvals'[b] = [pending_approvals[a] EXCEPT !.status = d, !.approver = p]
      BY <2>1, <1>2 DEF ApprovalsInv, ApprovalsTypeOK
    <3>2. /\ pending_approvals'[b].status = d
          /\ pending_approvals'[b].approver = p
          /\ pending_approvals'[b].requester = pending_approvals[a].requester
      BY <3>1, <1>1 DEF PendingApproval
    <3>3. p # None /\ d # "Pending"
      BY NoneAssumption DEF Decision
    <3>. QED BY <3>2, <3>3, <1>1, Zenon
  <2>2. CASE b # a
    <3>1. pending_approvals'[b] = pending_approvals[b]
      BY <2>2, <1>2 DEF ApprovalsInv, ApprovalsTypeOK
    <3>. QED BY <3>1, Zenon DEF ApprovalsInv, TwoPersons
  <2>. QED BY <2>1, <2>2, Zenon
<1>. QED BY <1>4, <1>5 DEF ApprovalsInv

\* What an approval that is being written, or is written, has behind it: somebody who
\* asked, a lifetime before its deadline.
AskedBefore(a, requester, expires_at) ==
    /\ history[a] \in HistoryRecord
    /\ requester = history[a].asker
    /\ expires_at = history[a].askedAt + ApprovalLifetime

\* evaluate holds the id of a request that nobody else holds or has written, from
\* the read of the policy to its write.
CallHolds(c) ==
    pending[c] # None =>
        /\ AskedBefore(pending[c].id, pending[c].requester, pending[c].expires_at)
        /\ pending_approvals[pending[c].id] = None
        /\ \A d \in Call \ {c} : pending[d] # None => pending[d].id # pending[c].id

\* expire_approvals holds only requests whose deadline has passed.
ExpiringDue ==
    \A a \in expiring :
        pending_approvals[a] # None /\ now > pending_approvals[a].expires_at

\* The inductive invariant of the policy service.
PolicyInv ==
    /\ PolicyTypeOK /\ TwoPersons /\ NoEarlyExpiry /\ ExpiringDue
    /\ \A c \in Call : CallHolds(c)
    /\ \A a \in ApprovalId :
          pending_approvals[a] # None => AskedBefore(a, pending_approvals[a].requester, pending_approvals[a].expires_at)

\* Steps that write no approval and start no evaluation.
LEMMA PolicyFrame ==
    ASSUME PolicyInv, PolicyTypeOK', ExpiringDue',
           UNCHANGED <<pending_approvals, pending, history>>
    PROVE  PolicyInv'
<1>1. \A a \in ApprovalId : \A q, e : AskedBefore(a, q, e) => AskedBefore(a, q, e)'
  BY Zenon DEF AskedBefore
<1>2. ASSUME NEW c \in Call PROVE CallHolds(c)'
  <2>1. CallHolds(c)
    BY DEF PolicyInv
  <2>. QED BY <2>1, Zenon DEF CallHolds, AskedBefore
<1>3. TwoPersons' /\ NoEarlyExpiry'
  BY Zenon DEF PolicyInv, TwoPersons, NoEarlyExpiry
<1>4. \A a \in ApprovalId :
          pending_approvals'[a] # None => AskedBefore(a, pending_approvals[a].requester, pending_approvals[a].expires_at)'
  BY Zenon DEF PolicyInv, AskedBefore
<1>. QED BY <1>2, <1>3, <1>4, Zenon DEF PolicyInv

\* A decision that is applied, by an approver or by the expiry loop: the deadline has
\* passed when it is an expiry.
LEMMA DecidedInv ==
    ASSUME PolicyInv, NEW b \in ApprovalId, NEW p \in Principal, NEW d \in Decision,
           Decided(b, p, d),
           d = "Expired" => p = "system" /\ now > pending_approvals[b].expires_at,
           expiring' \subseteq expiring, UNCHANGED <<policies, now, pending>>
    PROVE  PolicyInv'
<1>1. /\ pending_approvals \in [ApprovalId -> PendingApproval \cup {None}]
      /\ history \in [ApprovalId -> HistoryRecord \cup {None}]
      /\ now \in Time
      /\ pending_approvals[b] \in PendingApproval /\ pending_approvals[b] # None
      /\ pending_approvals[b].status = "Pending"
      /\ history[b] \in HistoryRecord
  BY Zenon DEF PolicyInv, PolicyTypeOK, ApprovalsTypeOK, Decided, DecideApproval, Decidable,
         AskedBefore
<1>2. ApprovalsInv'
  BY DecidePreserves DEF PolicyInv, PolicyTypeOK, ApprovalsInv, Decided
<1>. DEFINE r == [pending_approvals[b] EXCEPT !.status = d, !.approver = p]
            h == [history[b] EXCEPT !.decidedAt = now]
<1>3. /\ pending_approvals' = [pending_approvals EXCEPT ![b] = r]
      /\ history' = [history EXCEPT ![b] = h]
  BY <1>1, Zenon DEF Decided, DecideApproval
<1>4. /\ r.requester = pending_approvals[b].requester /\ r.status = d /\ r.approver = p
      /\ r.expires_at = pending_approvals[b].expires_at /\ r \in PendingApproval
  BY <1>1, Zenon DEF PendingApproval
<1>5. /\ h.asker = history[b].asker /\ h.askedAt = history[b].askedAt /\ h.decidedAt = now
      /\ h \in HistoryRecord
  BY <1>1 DEF HistoryRecord
<1>6. r # None
  BY <1>4, ApprovalNoneAssumption
<1>. HIDE DEF r, h
<1>7. PolicyTypeOK'
  BY <1>1, <1>2, <1>3, <1>5, Zenon DEF PolicyInv, PolicyTypeOK, ApprovalsInv
<1>8. ASSUME NEW a \in ApprovalId, NEW q, NEW e, AskedBefore(a, q, e) PROVE AskedBefore(a, q, e)'
  <2>1. CASE a = b
    BY <1>1, <1>3, <1>5, <1>8, <2>1, Zenon DEF AskedBefore
  <2>2. CASE a # b
    BY <1>1, <1>3, <1>8, <2>2, Zenon DEF AskedBefore
  <2>. QED BY <2>1, <2>2, Zenon
<1>9. \A a \in ApprovalId : /\ pending_approvals'[a] # None <=> pending_approvals[a] # None
                            /\ pending_approvals[a] # None =>
                                 /\ pending_approvals'[a].requester = pending_approvals[a].requester
                                 /\ pending_approvals'[a].expires_at = pending_approvals[a].expires_at
  BY <1>1, <1>3, <1>4, <1>6
<1>13. ASSUME NEW a \in ApprovalId, pending_approvals'[a] # None
       PROVE  AskedBefore(a, pending_approvals[a].requester, pending_approvals[a].expires_at)'
  BY <1>8, <1>9, <1>13, ZenonT(30) DEF PolicyInv, AskedBefore
<1>10. NoEarlyExpiry'
  <2>. SUFFICES ASSUME NEW a \in ApprovalId, pending_approvals'[a] # None,
                       pending_approvals'[a].status = "Expired"
                PROVE  /\ history'[a].decidedAt > history'[a].askedAt + ApprovalLifetime
                       /\ pending_approvals'[a].approver = "system"
    BY <1>13, Zenon DEF NoEarlyExpiry, AskedBefore
  <2>1. CASE a = b
    <3>1. pending_approvals[b].expires_at = history[b].askedAt + ApprovalLifetime
      BY <1>1, Zenon DEF PolicyInv, AskedBefore
    <3>. QED BY <1>1, <1>3, <1>4, <1>5, <2>1, <3>1, Zenon
  <2>2. CASE a # b
    BY <1>1, <1>3, <2>2, Zenon DEF PolicyInv, NoEarlyExpiry
  <2>. QED BY <2>1, <2>2, Zenon
<1>11. ExpiringDue'
  BY <1>9, Zenon DEF PolicyInv, PolicyTypeOK, ExpiringDue
<1>12. ASSUME NEW c \in Call PROVE CallHolds(c)'
  <2>1. CASE pending[c] = None
    BY <2>1 DEF CallHolds
  <2>2. CASE pending[c] # None
    <3>1. pending[c].id \in ApprovalId /\ CallHolds(c)
      BY <2>2, Zenon DEF PolicyInv, PolicyTypeOK
    <3>2. AskedBefore(pending[c].id, pending[c].requester, pending[c].expires_at)'
      BY <1>8, <2>2, <3>1, Zenon DEF CallHolds, AskedBefore
    <3>. QED BY <1>9, <2>2, <3>1, <3>2, Zenon DEF CallHolds
  <2>. QED BY <2>1, <2>2
<1>. QED BY <1>2, <1>7, <1>10, <1>11, <1>12, <1>13, Zenon DEF PolicyInv, ApprovalsInv

\* The part of evaluate up to the write: the id it draws is new.
LEMMA DeferredInv ==
    ASSUME PolicyInv, NEW c \in Call, NEW a \in ApprovalId, NEW i \in RbacIdentity,
           NEW act, NEW s \in Scope, EvaluateDeferred(c, a, i, act, s)
    PROVE  PolicyInv'
<1>. DEFINE r == [id |-> a, requester |-> i.principal, expires_at |-> now + ApprovalLifetime]
            h == [asker |-> i.principal, askedAt |-> now, decidedAt |-> None]
<1>1. /\ pending' = [pending EXCEPT ![c] = r] /\ history' = [history EXCEPT ![a] = h]
      /\ pending[c] = None /\ pending_approvals[a] = None
      /\ \A d \in Call : pending[d] # None => pending[d].id # a
      /\ UNCHANGED <<pending_approvals, policies, now, expiring>>
  BY Zenon DEF EvaluateDeferred, Unused
<1>3. now \in Time /\ now \in Nat /\ now + ApprovalLifetime \in Nat
  BY MaxTimeAssumption, PolicyAssumption DEF PolicyInv, PolicyTypeOK, Time
<1>4. /\ r \in [id : ApprovalId, requester : Principal, expires_at : Nat]
      /\ h \in HistoryRecord
  BY <1>3, Zenon DEF HistoryRecord, RbacIdentity
<1>5. /\ h.asker = i.principal /\ h.askedAt = now
      /\ r.id = a /\ r.requester = i.principal /\ r.expires_at = now + ApprovalLifetime
  BY Zenon
<1>. HIDE DEF r, h
<1>6. /\ pending \in [Call -> [id : ApprovalId, requester : Principal, expires_at : Nat] \cup {None}]
      /\ history \in [ApprovalId -> HistoryRecord \cup {None}]
  BY Zenon DEF PolicyInv, PolicyTypeOK
<1>7. PolicyTypeOK'
  BY <1>1, <1>4, <1>6, Zenon DEF PolicyInv, PolicyTypeOK, ApprovalsTypeOK
<1>8. history'[a] = h /\ \A b \in ApprovalId \ {a} : history'[b] = history[b]
  BY <1>1, <1>6, Zenon
<1>9. AskedBefore(a, i.principal, now + ApprovalLifetime)'
  BY <1>1, <1>4, <1>5, <1>8, Zenon DEF AskedBefore
<1>10. \A b \in ApprovalId \ {a} : \A q, e : AskedBefore(b, q, e) => AskedBefore(b, q, e)'
  BY <1>8, Zenon DEF AskedBefore
<1>11. TwoPersons' /\ ExpiringDue'
  BY <1>1, Zenon DEF PolicyInv, TwoPersons, ExpiringDue
<1>12. NoEarlyExpiry'
  BY <1>1, <1>8, Zenon DEF PolicyInv, NoEarlyExpiry
<1>13. ASSUME NEW b \in ApprovalId, pending_approvals'[b] # None
       PROVE  AskedBefore(b, pending_approvals[b].requester, pending_approvals[b].expires_at)'
  BY <1>1, <1>10, <1>13, Zenon DEF PolicyInv, AskedBefore
<1>14. ASSUME NEW d \in Call, pending'[d] # None
       PROVE  /\ AskedBefore(pending[d].id, pending[d].requester, pending[d].expires_at)'
              /\ pending_approvals'[pending'[d].id] = None
              /\ \A e \in Call \ {d} : pending'[e] # None => pending'[e].id # pending'[d].id
  <2>1. pending'[c] = r /\ \A e \in Call \ {c} : pending'[e] = pending[e]
    BY <1>1, <1>6, Zenon
  <2>2. CASE d = c
    BY <1>1, <1>5, <1>9, <2>1, <2>2, ZenonT(30) DEF AskedBefore
  <2>3. CASE d # c
    <3>1. /\ pending'[d] = pending[d] /\ pending[d] # None
          /\ pending[d].id \in ApprovalId \ {a} /\ CallHolds(d)
      BY <1>1, <1>6, <1>14, <2>1, <2>3, Zenon DEF PolicyInv
    <3>2. AskedBefore(pending[d].id, pending[d].requester, pending[d].expires_at)'
      BY <1>10, <3>1, ZenonT(30) DEF CallHolds, AskedBefore
    <3>3. \A e \in Call \ {d} : pending'[e] # None => pending'[e].id # pending'[d].id
      BY <1>5, <2>1, <3>1, Zenon DEF CallHolds
    <3>. QED BY <1>1, <3>1, <3>2, <3>3, Zenon DEF CallHolds
  <2>. QED BY <2>2, <2>3, Zenon
<1>. QED BY <1>7, <1>11, <1>12, <1>13, <1>14, Zenon DEF PolicyInv, CallHolds

\* The write of evaluate, applied or lost: nobody has written under its id.
LEMMA WriteInv ==
    ASSUME PolicyInv, NEW c \in Call, EvaluateWrite(c)
    PROVE  PolicyInv'
<1>1. PICK r \in [id : ApprovalId, requester : Principal, expires_at : Nat] : r = pending[c]
  BY Zenon DEF EvaluateWrite, PolicyInv, PolicyTypeOK
<1>2. /\ pending' = [pending EXCEPT ![c] = None] /\ pending[c] # None
      /\ UNCHANGED <<policies, now, expiring, history>>
  BY Zenon DEF EvaluateWrite
<1>3. /\ AskedBefore(r.id, r.requester, r.expires_at) /\ pending_approvals[r.id] = None
      /\ \A d \in Call \ {c} : pending[d] # None => pending[d].id # r.id
  BY <1>1, <1>2, Zenon DEF PolicyInv, CallHolds
<1>4. /\ pending \in [Call -> [id : ApprovalId, requester : Principal, expires_at : Nat] \cup {None}]
      /\ pending_approvals \in [ApprovalId -> PendingApproval \cup {None}]
  BY Zenon DEF PolicyInv, PolicyTypeOK, ApprovalsTypeOK
<1>5. \A b \in ApprovalId : \A q, e : AskedBefore(b, q, e) <=> AskedBefore(b, q, e)'
  BY <1>2, Zenon DEF AskedBefore
<1>6. pending'[c] = None /\ \A d \in Call \ {c} : pending'[d] = pending[d]
  BY <1>2, <1>4, Zenon
<1>7. CASE CreateApproval(r.id, NewApproval(r.requester, r.expires_at))
  <2>1. ApprovalsInv'
    BY <1>7, CreatePreserves, Zenon DEF PolicyInv, PolicyTypeOK, ApprovalsInv
  <2>2. /\ pending_approvals'[r.id] = NewApproval(r.requester, r.expires_at)
        /\ \A b \in ApprovalId \ {r.id} : pending_approvals'[b] = pending_approvals[b]
    BY <1>4, <1>7, Zenon DEF CreateApproval
  <2>3. PolicyTypeOK'
    BY <1>2, <1>4, <2>1, Zenon DEF PolicyInv, PolicyTypeOK, ApprovalsInv
  <2>4. NoEarlyExpiry'
    <3>1. NoEarlyExpiry /\ r.requester = history[r.id].asker
      BY <1>3, Zenon DEF PolicyInv, AskedBefore
    <3>2. /\ pending_approvals'[r.id].requester = r.requester
          /\ pending_approvals'[r.id].status # "Expired"
      BY <2>2 DEF NewApproval
    <3>. QED BY <1>2, <2>2, <3>1, <3>2, Zenon DEF NoEarlyExpiry
  <2>5. ExpiringDue'
    BY <1>2, <1>3, <2>2, Zenon DEF PolicyInv, PolicyTypeOK, ExpiringDue
  <2>6. ASSUME NEW b \in ApprovalId, pending_approvals'[b] # None
        PROVE  AskedBefore(b, pending_approvals[b].requester, pending_approvals[b].expires_at)'
    <3>1. CASE b = r.id
      BY <1>2, <1>3, <2>2, <3>1 DEF AskedBefore, NewApproval
    <3>2. CASE b # r.id
      BY <1>2, <2>2, <2>6, <3>2, Zenon DEF PolicyInv, AskedBefore
    <3>. QED BY <3>1, <3>2, Zenon
  <2>7. ASSUME NEW d \in Call PROVE CallHolds(d)'
    <3>1. CASE d = c
      BY <1>6, <3>1, Zenon DEF CallHolds
    <3>2. CASE d # c /\ pending[d] # None
      <4>1. pending[d].id \in ApprovalId \ {r.id} /\ CallHolds(d) /\ pending'[d] = pending[d]
        BY <1>3, <1>4, <1>6, <3>2, Zenon DEF PolicyInv
      <4>. QED BY <1>2, <1>6, <2>2, <3>2, <4>1, ZenonT(30) DEF CallHolds, AskedBefore
    <3>. QED BY <1>6, <3>1, <3>2, Zenon DEF CallHolds
  <2>. QED BY <2>1, <2>3, <2>4, <2>5, <2>6, <2>7, Zenon DEF PolicyInv, ApprovalsInv
<1>8. CASE UNCHANGED pending_approvals
  <2>1. PolicyTypeOK'
    BY <1>2, <1>4, <1>8, Zenon DEF PolicyInv, PolicyTypeOK, ApprovalsTypeOK
  <2>2. TwoPersons' /\ NoEarlyExpiry' /\ ExpiringDue'
    <3>1. TwoPersons /\ NoEarlyExpiry /\ ExpiringDue
      BY Zenon DEF PolicyInv
    <3>. QED BY <1>2, <1>8, <3>1, Zenon DEF TwoPersons, NoEarlyExpiry, ExpiringDue
  <2>3. ASSUME NEW d \in Call PROVE CallHolds(d)'
    <3>1. CallHolds(d)
      BY Zenon DEF PolicyInv
    <3>. QED BY <1>2, <1>6, <1>8, <3>1, Zenon DEF CallHolds, AskedBefore
  <2>4. ASSUME NEW b \in ApprovalId, pending_approvals'[b] # None
        PROVE  AskedBefore(b, pending_approvals[b].requester, pending_approvals[b].expires_at)'
    <3>1. AskedBefore(b, pending_approvals[b].requester, pending_approvals[b].expires_at)
      BY <1>8, <2>4, Zenon DEF PolicyInv
    <3>. QED BY <1>2, <1>8, <3>1, Zenon DEF AskedBefore
  <2>. QED BY <2>1, <2>2, <2>3, <2>4, Zenon DEF PolicyInv
<1>. QED BY <1>1, <1>7, <1>8, Zenon DEF EvaluateWrite

\* One case per RPC, per step of the expiry loop, and for the clock.
LEMMA PolicyStepInv == PolicyInv /\ [PolicyNext]_policyVars => PolicyInv'
<1>. SUFFICES ASSUME PolicyInv, [PolicyNext]_policyVars PROVE PolicyInv'
  OBVIOUS
<1>0. now \in Nat /\ \A a \in ApprovalId :
         pending_approvals[a] # None => pending_approvals[a].expires_at \in Nat
  BY MaxTimeAssumption DEF PolicyInv, PolicyTypeOK, ApprovalsTypeOK, PendingApproval, Time
<1>1. ASSUME NEW c \in Call, NEW a \in ApprovalId, NEW i \in Asker, NEW act \in Action,
             NEW s \in Scope, EvaluateDeferred(c, a, i, act, s)
      PROVE  PolicyInv'
  BY <1>1, DeferredInv, Zenon DEF Asker
<1>2. ASSUME NEW v \in ManagedVCluster, NEW p \in SetPolicies, UpdatePolicy(v, p)
      PROVE  PolicyInv'
  <2>1. policies' \in [VClusterId -> SetPolicies \cup {None}]
    BY <1>2, PolicyAssumption, Zenon DEF UpdatePolicy, PolicyInv, PolicyTypeOK
  <2>2. PolicyTypeOK' /\ ExpiringDue'
    BY <1>2, <2>1, Zenon DEF UpdatePolicy, PolicyInv, PolicyTypeOK, ApprovalsTypeOK, ExpiringDue
  <2>. QED BY <1>2, <2>2, PolicyFrame, Zenon DEF UpdatePolicy
<1>3. ASSUME NEW a \in ApprovalId, NEW p \in Principal, NEW d \in {"Approved", "Rejected"},
             DecideApprovalRpc(a, p, d)
      PROVE  PolicyInv'
  BY <1>3, DecidedInv, Zenon DEF DecideApprovalRpc, Decision
<1>4. CASE ExpireScan
  <2>1. PolicyTypeOK' /\ ExpiringDue'
    BY <1>4, Zenon DEF ExpireScan, PastDeadline, PolicyInv, PolicyTypeOK, ApprovalsTypeOK, ExpiringDue
  <2>. QED BY <1>4, <2>1, PolicyFrame, Zenon DEF ExpireScan
<1>5. ASSUME NEW a \in ApprovalId, ExpireWrite(a) PROVE PolicyInv'
  <2>1. now > pending_approvals[a].expires_at
    BY <1>5, Zenon DEF ExpireWrite, PolicyInv, ExpiringDue
  <2>. QED BY <1>5, <2>1, DecidedInv, PolicyAssumption, Zenon DEF ExpireWrite, Decision
<1>6. ASSUME NEW a \in ApprovalId, ExpireWriteFails(a) PROVE PolicyInv'
  <2>1. PolicyTypeOK' /\ ExpiringDue'
    BY <1>6, Zenon DEF ExpireWriteFails, PolicyInv, PolicyTypeOK, ApprovalsTypeOK, ExpiringDue
  <2>. QED BY <1>6, <2>1, PolicyFrame, Zenon DEF ExpireWriteFails
<1>7. CASE Tick
  <2>1. PolicyTypeOK'
    BY <1>7, MaxTimeAssumption DEF Tick, PolicyInv, PolicyTypeOK, ApprovalsTypeOK, Time
  <2>2. ExpiringDue'
    BY <1>0, <1>7 DEF Tick, PolicyInv, PolicyTypeOK, ExpiringDue
  <2>. QED BY <1>7, <2>1, <2>2, PolicyFrame, Zenon DEF Tick
<1>8. CASE UNCHANGED policyVars
  <2>1. PolicyTypeOK' /\ ExpiringDue'
    BY <1>8, Zenon DEF policyVars, PolicyInv, PolicyTypeOK, ApprovalsTypeOK, ExpiringDue
  <2>. QED BY <1>8, <2>1, PolicyFrame, Zenon DEF policyVars
<1>. QED BY <1>1, <1>2, <1>3, <1>4, <1>5, <1>6, <1>7, <1>8, WriteInv, Zenon DEF PolicyNext

\* The invariant of the policy service, for any number of calls, requests and principals.
THEOREM PolicyInvariant == PolicySpec => []PolicyInv
<1>1. PolicyInit => PolicyInv
  <2>. SUFFICES ASSUME PolicyInit PROVE PolicyInv
    OBVIOUS
  <2>1. PolicyTypeOK
    BY MaxTimeAssumption DEF PolicyInit, ApprovalsInit, PolicyTypeOK, ApprovalsTypeOK, Time
  <2>2. \A a \in ApprovalId : pending_approvals[a] = None
    BY Zenon DEF PolicyInit, ApprovalsInit
  <2>3. \A c \in Call : CallHolds(c)
    BY Zenon DEF PolicyInit, CallHolds
  <2>. QED BY <2>1, <2>2, <2>3, Zenon DEF PolicyInit, PolicyInv, TwoPersons, NoEarlyExpiry, ExpiringDue
<1>. QED BY <1>1, PolicyStepInv, PTL DEF PolicySpec

\* P4 for the policy service: two people, although the checks are left to apply.
THEOREM ServiceTwoPersons == PolicySpec => []TwoPersons
<1>1. PolicyInv => TwoPersons
  BY DEF PolicyInv
<1>. QED BY <1>1, PolicyInvariant, PTL

\* P5: the expiry loop, which writes what it collected some time ago, expires nothing
\* before a whole lifetime has passed since it was asked, however late evaluate wrote it.
THEOREM ExpiriesAreDue == PolicySpec => []NoEarlyExpiry
<1>1. PolicyInv => NoEarlyExpiry
  BY DEF PolicyInv
<1>. QED BY <1>1, PolicyInvariant, PTL

\* Of the decisions that race at the policy service, an expiry among them, the first one
\* applied stands; CreateApproval, an unconditional insert, never meets an old record.
THEOREM ServiceDecisionsFinal == PolicySpec => DecisionsFinal
<1>. DEFINE Final(a) ==
       pending_approvals[a] # None =>
          /\ pending_approvals'[a] # None
          /\ pending_approvals[a].status # "Pending" =>
                 pending_approvals'[a] = pending_approvals[a]
          /\ pending_approvals'[a].requester = pending_approvals[a].requester
          /\ pending_approvals'[a].expires_at = pending_approvals[a].expires_at
<1>1. ASSUME PolicyInv, NEW b \in ApprovalId, NEW p \in Principal, NEW d \in Decision,
             DecideApproval(b, p, d), NEW a \in ApprovalId
      PROVE  Final(a)
  <2>1. /\ pending_approvals[b] \in PendingApproval /\ pending_approvals[b].status = "Pending"
        /\ pending_approvals \in [ApprovalId -> PendingApproval \cup {None}]
    BY <1>1 DEF DecideApproval, Decidable, PolicyInv, PolicyTypeOK, ApprovalsTypeOK
  <2>. DEFINE r == [pending_approvals[b] EXCEPT !.status = d, !.approver = p]
  <2>2. pending_approvals' = [pending_approvals EXCEPT ![b] = r]
    BY <1>1, <2>1, Zenon DEF DecideApproval
  <2>3. /\ r \in PendingApproval /\ r.requester = pending_approvals[b].requester
        /\ r.expires_at = pending_approvals[b].expires_at
    BY <2>1, Zenon DEF PendingApproval
  <2>. HIDE DEF r
  <2>. QED BY <2>1, <2>2, <2>3, ApprovalNoneAssumption, Zenon
<1>2. ASSUME PolicyInv, NEW c \in Call, EvaluateWrite(c), NEW a \in ApprovalId
      PROVE  Final(a)
  <2>1. pending_approvals[pending[c].id] = None
    BY <1>2, Zenon DEF EvaluateWrite, PolicyInv, CallHolds
  <2>. QED BY <1>2, <2>1, Zenon DEF EvaluateWrite, CreateApproval, PolicyInv, PolicyTypeOK, ApprovalsTypeOK
<1>3. ASSUME PolicyInv, [PolicyNext]_policyVars
      PROVE  [\A a \in ApprovalId : Final(a)]_pending_approvals
  <2>. SUFFICES ASSUME pending_approvals' # pending_approvals, NEW a \in ApprovalId
                PROVE  Final(a)
    BY Zenon
  <2>1. \/ \E c \in Call : EvaluateWrite(c)
        \/ \E b \in ApprovalId, p \in Principal, d \in {"Approved", "Rejected"} :
              DecideApprovalRpc(b, p, d)
        \/ \E b \in ApprovalId : ExpireWrite(b)
    BY <1>3, Zenon DEF PolicyNext, policyVars, EvaluateDeferred, UpdatePolicy, ExpireScan,
                ExpireWriteFails, Tick
  <2>2. ASSUME NEW b \in ApprovalId, NEW p \in Principal, NEW d \in {"Approved", "Rejected"},
               DecideApprovalRpc(b, p, d)
        PROVE  Final(a)
    BY <1>1, <1>3, <2>2 DEF DecideApprovalRpc, Decided, Decision
  <2>3. ASSUME NEW b \in ApprovalId, ExpireWrite(b) PROVE Final(a)
    BY <1>1, <1>3, <2>3, PolicyAssumption DEF ExpireWrite, Decided, Decision
  <2>. QED BY <1>2, <1>3, <2>1, <2>2, <2>3, Zenon
<1>. QED BY <1>3, PolicyInvariant, PTL DEF PolicySpec, DecisionsFinal

-----------------------------------------------------------------------------
(* The engine of pact-policy.                                              *)

\* The inductive invariant of the engine: what has not been decided was not granted.
EngineInv ==
    /\ EngineTypeOK /\ GrantedOnce
    /\ \A a \in EngineApproval :
          (engine.approvals[a] = None \/ (Known(a) /\ engine.approvals[a].status = "Pending"))
              => grants[a] = 0

\* One record gets another status, or is created; its grants follow.
LEMMA OneRecordMoves ==
    ASSUME EngineInv, NEW b \in EngineApproval, NEW r \in EngineApprovalRecord,
           NEW n \in {0, 1},
           engine' = [engine EXCEPT !.approvals[b] = r],
           grants' = [grants EXCEPT ![b] = n], UNCHANGED engineNow,
           r.status = "Pending" => n = 0
    PROVE  EngineInv'
<1>1. /\ engine.approvals \in [EngineApproval -> EngineApprovalRecord \cup {None, Gone}]
      /\ engine.policies \in [VClusterId -> EnginePolicies \cup {None}]
      /\ grants \in [EngineApproval -> Nat]
      /\ engine = [policies |-> engine.policies, approvals |-> engine.approvals]
  BY DEF EngineInv, EngineTypeOK
<1>2. engine' = [engine EXCEPT !.approvals = [engine.approvals EXCEPT ![b] = r]]
  BY <1>1
<1>3. /\ engine'.approvals = [engine.approvals EXCEPT ![b] = r]
      /\ engine'.policies = engine.policies
      /\ engine' = [policies |-> engine'.policies, approvals |-> engine'.approvals]
  BY <1>1, <1>2
<1>4. /\ engine'.approvals \in [EngineApproval -> EngineApprovalRecord \cup {None, Gone}]
      /\ grants' \in [EngineApproval -> Nat]
  BY <1>1, <1>3
<1>5. EngineTypeOK'
  BY <1>1, <1>3, <1>4 DEF EngineInv, EngineTypeOK
<1>6. GrantedOnce'
  BY <1>1 DEF EngineInv, GrantedOnce
<1>7. r # None
  BY EngineNoneAssumption
<1>8. ASSUME NEW a \in EngineApproval,
             \/ engine'.approvals[a] = None
             \/ Known(a)' /\ engine'.approvals[a].status = "Pending"
      PROVE  grants'[a] = 0
  <2>1. CASE a = b
    BY <1>1, <1>3, <1>7, <1>8, <2>1
  <2>2. CASE a # b
    BY <1>1, <1>3, <1>8, <2>2 DEF EngineInv, Known
  <2>. QED BY <2>1, <2>2
<1>. QED BY <1>5, <1>6, <1>8 DEF EngineInv

\* A pass over all records resolves some of them, or forgets resolved ones.
LEMMA RecordsResolved ==
    ASSUME EngineInv, NEW f \in [EngineApproval -> EngineApprovalRecord \cup {None, Gone}],
           engine' = [engine EXCEPT !.approvals = f], UNCHANGED <<engineNow, grants>>,
           \A a \in EngineApproval :
               f[a] = engine.approvals[a] \/ (f[a] # None /\ f[a].status # "Pending")
    PROVE  EngineInv'
<1>1. /\ engine.policies \in [VClusterId -> EnginePolicies \cup {None}]
      /\ engine = [policies |-> engine.policies, approvals |-> engine.approvals]
  BY DEF EngineInv, EngineTypeOK
<1>2. engine' = [policies |-> engine.policies, approvals |-> f]
  BY <1>1
<1>3. EngineTypeOK' /\ GrantedOnce'
  BY <1>1, <1>2 DEF EngineInv, EngineTypeOK, GrantedOnce
<1>4. engine'.approvals = f
  BY <1>2
<1>. QED BY <1>3, <1>4 DEF EngineInv, Known

\* A record with another status.
LEMMA StatusType ==
    ASSUME EngineInv, NEW a \in EngineApproval, Known(a),
           NEW st \in {"Approved", "Rejected", "Expired"}
    PROVE  /\ WithStatus(a, st) \in EngineApprovalRecord /\ WithStatus(a, st).status = st
<1>1. engine.approvals[a] \in EngineApprovalRecord
  BY Zenon DEF EngineInv, EngineTypeOK, Known
<1>. QED BY <1>1 DEF WithStatus, EngineApprovalRecord

\* One case per method of the engine.
LEMMA EngineStepInv == EngineInv /\ [EngineNext]_engineVars => EngineInv'
<1>. SUFFICES ASSUME EngineInv, [EngineNext]_engineVars PROVE EngineInv'
  OBVIOUS
<1>0. /\ engine.approvals \in [EngineApproval -> EngineApprovalRecord \cup {None, Gone}]
      /\ engine.policies \in [VClusterId -> EnginePolicies \cup {None}]
      /\ engine = [policies |-> engine.policies, approvals |-> engine.approvals]
      /\ grants \in [EngineApproval -> Nat] /\ engineNow \in Nat
      /\ \A a \in EngineApproval : grants[a] <= 1
  BY EngineAssumption DEF EngineInv, EngineTypeOK, GrantedOnce
<1>1. ASSUME NEW v \in EngineVCluster, NEW p \in EnginePolicies, set_policy(v, p)
      PROVE  EngineInv'
  <2>1. engine' = [engine EXCEPT !.policies = [engine.policies EXCEPT ![v] = p]]
    BY <1>0, <1>1 DEF set_policy
  <2>2. /\ engine' = [policies |-> engine'.policies, approvals |-> engine'.approvals]
        /\ engine'.approvals = engine.approvals
        /\ engine'.policies = [engine.policies EXCEPT ![v] = p]
    BY <1>0, <2>1
  <2>3. engine'.policies \in [VClusterId -> EnginePolicies \cup {None}]
    BY <1>0, <2>2, EngineAssumption, Zenon
  <2>4. EngineTypeOK'
    BY <1>0, <1>1, <2>2, <2>3, Zenon DEF set_policy, EngineInv, EngineTypeOK
  <2>. QED BY <1>1, <2>2, <2>4, Zenon DEF set_policy, EngineInv, GrantedOnce, Known
<1>2. ASSUME NEW a \in EngineApproval, NEW i \in RbacIdentity, NEW act \in Action, NEW s \in Scope,
             evaluate_sync(a, i, act, s)
      PROVE  EngineInv'
  <2>1. EngineRecord(i, s) \in EngineApprovalRecord
    BY <1>0, EngineAssumption DEF EngineRecord, EngineApprovalRecord, RbacIdentity
  <2>2. grants[a] = 0 /\ grants' = [grants EXCEPT ![a] = 0]
    BY <1>0, <1>2 DEF evaluate_sync, EngineInv
  <2>3. /\ engine' = [engine EXCEPT !.approvals[a] = EngineRecord(i, s)]
        /\ UNCHANGED engineNow
    BY <1>2, <2>2 DEF evaluate_sync
  <2>. QED BY <2>1, <2>2, <2>3, OneRecordMoves, Zenon
<1>3. ASSUME NEW a \in EngineApproval, NEW i \in RbacIdentity, approve(a, i)
      PROVE  EngineInv'
  <2>0. grants[a] = 0
    BY <1>3, Zenon DEF approve, EngineInv
  <2>1. grants' = [grants EXCEPT ![a] = 1]
    BY <1>3, <2>0 DEF approve
  <2>2. /\ WithStatus(a, "Approved") \in EngineApprovalRecord
        /\ WithStatus(a, "Approved").status = "Approved"
    BY <1>3, StatusType, Zenon DEF approve
  <2>. QED BY <1>0, <1>3, <2>1, <2>2, OneRecordMoves, Zenon DEF approve, SetStatus
<1>4. ASSUME NEW a \in EngineApproval, ApproveLate(a) \/ reject(a)
      PROVE  EngineInv'
  <2>1. PICK st \in {"Expired", "Rejected"} : SetStatus(a, st)
    BY <1>4, Zenon DEF ApproveLate, reject
  <2>2. Known(a) /\ UNCHANGED <<engineNow, grants>>
    BY <1>4, Zenon DEF ApproveLate, reject
  <2>3. WithStatus(a, st) \in EngineApprovalRecord /\ WithStatus(a, st).status = st
    BY <2>2, StatusType, Zenon
  <2>4. grants[a] \in {0, 1} /\ grants' = [grants EXCEPT ![a] = grants[a]]
    BY <1>0, <2>2
  <2>. QED BY <1>0, <2>1, <2>2, <2>3, <2>4, OneRecordMoves, Zenon DEF SetStatus
<1>5. CASE expire_approvals
  <2>. DEFINE f == [a \in EngineApproval |->
                      IF Overdue(a) THEN WithStatus(a, "Expired") ELSE engine.approvals[a]]
  <2>1. ASSUME NEW a \in EngineApproval
        PROVE  /\ f[a] \in EngineApprovalRecord \cup {None, Gone}
               /\ f[a] = engine.approvals[a] \/ (f[a] # None /\ f[a].status # "Pending")
    <3>1. CASE Overdue(a)
      BY <3>1, StatusType, EngineNoneAssumption, Zenon DEF Overdue
    <3>. QED BY <1>0, <3>1, Zenon
  <2>2. f \in [EngineApproval -> EngineApprovalRecord \cup {None, Gone}]
    BY <2>1, Zenon
  <2>3. engine' = [engine EXCEPT !.approvals = f] /\ UNCHANGED <<engineNow, grants>>
    BY <1>5 DEF expire_approvals
  <2>. HIDE DEF f
  <2>. QED BY <2>1, <2>2, <2>3, RecordsResolved
<1>6. CASE cleanup_resolved
  <2>. DEFINE f == [a \in EngineApproval |->
                      IF Known(a) /\ engine.approvals[a].status # "Pending" THEN Gone
                      ELSE engine.approvals[a]]
  <2>1. ASSUME NEW a \in EngineApproval
        PROVE  /\ f[a] \in EngineApprovalRecord \cup {None, Gone}
               /\ f[a] = engine.approvals[a] \/ (f[a] # None /\ f[a].status # "Pending")
    BY <1>0, EngineNoneAssumption, Zenon DEF Gone
  <2>2. f \in [EngineApproval -> EngineApprovalRecord \cup {None, Gone}]
    BY <2>1, Zenon
  <2>3. engine' = [engine EXCEPT !.approvals = f] /\ UNCHANGED <<engineNow, grants>>
    BY <1>6 DEF cleanup_resolved
  <2>. HIDE DEF f
  <2>. QED BY <2>1, <2>2, <2>3, RecordsResolved
<1>7. CASE EngineTick \/ UNCHANGED engineVars
  <2>1. UNCHANGED <<engine, grants>> /\ engineNow' \in 0..EngineHorizon
    BY <1>7, EngineAssumption DEF EngineTick, engineVars, EngineInv, EngineTypeOK
  <2>. QED BY <2>1, Zenon DEF EngineInv, EngineTypeOK, GrantedOnce, Known
<1>. QED BY <1>1, <1>2, <1>3, <1>4, <1>5, <1>6, <1>7, Zenon DEF EngineNext

\* P4 for the engine: one grant at most, for any number of requests and callers,
\* although approve looks at the deadline before the status.
THEOREM GrantsAreSingle == EngineSpec => []GrantedOnce
<1>1. EngineInit => EngineInv
  BY EngineAssumption DEF EngineInit, EngineInv, EngineTypeOK, GrantedOnce
<1>2. EngineInv => GrantedOnce
  BY Zenon DEF EngineInv
<1>. QED BY <1>1, <1>2, EngineStepInv, PTL DEF EngineSpec

-----------------------------------------------------------------------------
(* The validation of tokens.                                              *)

\* The time of a request is within the HTTP timeout, and the keys of an answer were
\* published after the request was made.
CallFresh(v) ==
    /\ validations[v].since <= clock
    /\ validations[v].pc # "idle" => clock <= validations[v].since + RequestTimeout
    /\ \A j \in validations[v].keys :
          withdrawn[j] = -1 \/ withdrawn[j] >= validations[v].since

\* What the calls and the cache know of the keys.
KeysFresh ==
    /\ \A j \in published : withdrawn[j] = -1
    /\ jwks.fetched_at <= clock
    /\ \A v \in Validation : CallFresh(v)
    /\ \A j \in jwks.keys :
          withdrawn[j] = -1 \/ jwks.fetched_at <= withdrawn[j] + RequestTimeout

\* The inductive invariant of the validator: a key in the cache was published no
\* longer than one request before the cache was filled.
TokenInv == TokenTypeOK /\ WithdrawnKeysExpire /\ KeysFresh

\* The types of the parts, as the steps below use them.
LEMMA TokenParts ==
    ASSUME TokenTypeOK
    PROVE  /\ withdrawn \in [Jwk -> Int] /\ clock \in Nat /\ published \subseteq Jwk
           /\ jwks.keys \subseteq Jwk /\ jwks.fetched_at \in Int
           /\ jwks = [keys |-> jwks.keys, fetched_at |-> jwks.fetched_at]
           /\ \A v \in Validation :
                 /\ validations[v] \in [pc : {"idle", "fetching", "answered"}, since : Nat,
                                        token : {{}} \cup {{t} : t \in Token}, keys : SUBSET Jwk]
                 /\ validations[v].since \in Nat /\ validations[v].keys \subseteq Jwk
           /\ RequestTimeout \in Nat /\ TTL \in Nat \ {0} /\ Horizon \in Nat
<1>1. withdrawn \in [Jwk -> Int]
  <2>1. withdrawn \in [Jwk -> Nat \cup {-1}] /\ Nat \cup {-1} \subseteq Int
    BY DEF TokenTypeOK
  <2>. QED BY <2>1
<1>2. clock \in Nat
  BY KeysAssumption DEF TokenTypeOK
<1>3. \A v \in Validation :
         validations[v] \in [pc : {"idle", "fetching", "answered"}, since : Nat,
                             token : {{}} \cup {{t} : t \in Token}, keys : SUBSET Jwk]
  BY DEF TokenTypeOK
<1>4. \A v \in Validation : validations[v].since \in Nat /\ validations[v].keys \subseteq Jwk
  BY <1>3, Zenon
<1>. QED BY <1>1, <1>2, <1>3, <1>4, KeysAssumption DEF TokenTypeOK

\* A validation that ends leaves nothing behind, and accepts no more than the keys allow.
LEMMA ConcludeInv ==
    ASSUME TokenInv, NEW v \in Validation, NEW t \in Token,
           NEW how \in {"cached", "fetched", "stale"}, NEW keys \in SUBSET Jwk,
           Conclude(v, t, how, keys), UNCHANGED <<published, withdrawn, process, clock>>,
           jwks' \in [keys : SUBSET Jwk, fetched_at : Nat \cup {-1}], jwks'.fetched_at <= clock,
           \A j \in jwks'.keys :
               withdrawn[j] = -1 \/ jwks'.fetched_at <= withdrawn[j] + RequestTimeout,
           how # "stale" => \A j \in keys :
               withdrawn[j] = -1 \/ clock < withdrawn[j] + TTL + RequestTimeout
    PROVE  TokenInv'
<1>0. TokenTypeOK /\ KeysFresh
  BY DEF TokenInv
<1>1. validations' = [validations EXCEPT ![v] = IdleCall]
  BY Zenon DEF Conclude
<1>2. IdleCall \in [pc : {"idle", "fetching", "answered"}, since : Nat,
                    token : {{}} \cup {{u} : u \in Token}, keys : SUBSET Jwk]
  BY Zenon DEF IdleCall
<1>3. PICK js \in SUBSET keys : accepted' = NoOutcome \/ accepted' = [how |-> how, jwk |-> js, at |-> clock]
  <2>1. ASSUME NEW j \in matching_keys(t, keys), accepted' = [how |-> how, jwk |-> {j}, at |-> clock]
        PROVE  {j} \in SUBSET keys
    BY <2>1, Zenon DEF matching_keys
  <2>2. {} \in SUBSET keys
    OBVIOUS
  <2>. QED BY <2>1, <2>2, Zenon DEF Conclude
<1>4. accepted' \in [how : {"none", "hmac", "cached", "fetched", "stale"}, jwk : SUBSET Jwk, at : Nat]
  BY <1>0, <1>3, TokenParts DEF NoOutcome
<1>5. validations' \in [Validation -> [pc : {"idle", "fetching", "answered"}, since : Nat,
                                       token : {{}} \cup {{u} : u \in Token}, keys : SUBSET Jwk]]
  BY <1>0, <1>1, <1>2, Zenon DEF TokenTypeOK
<1>6. TokenTypeOK'
  BY <1>0, <1>4, <1>5, Zenon DEF TokenTypeOK
<1>7. WithdrawnKeysExpire'
  <2>1. CASE accepted' = NoOutcome
    BY <2>1, Zenon DEF WithdrawnKeysExpire, NoOutcome
  <2>2. CASE accepted' = [how |-> how, jwk |-> js, at |-> clock]
    BY <1>3, <2>2, Zenon DEF WithdrawnKeysExpire
  <2>. QED BY <1>3, <2>1, <2>2, Zenon
<1>8. ASSUME NEW u \in Validation PROVE CallFresh(u)'
  <2>1. CASE u = v
    <3>1. validations'[v] = IdleCall
      BY <1>0, <1>1, Zenon DEF TokenTypeOK
    <3>2. clock' \in Nat
      BY <1>0, TokenParts, Zenon
    <3>. QED BY <2>1, <3>1, <3>2 DEF CallFresh, IdleCall
  <2>2. CASE u # v
    BY <1>0, <1>1, <2>2, Zenon DEF TokenTypeOK, KeysFresh, CallFresh
  <2>. QED BY <2>1, <2>2
<1>9. KeysFresh'
  BY <1>0, <1>8, Zenon DEF KeysFresh
<1>. QED BY <1>6, <1>7, <1>9 DEF TokenInv

\* JwksCache::fetch from the read lock: a cache that is valid is not too old for the
\* keys in it.
LEMMA FetchInv ==
    ASSUME TokenInv, NEW v \in Validation, NEW t \in Token, validations[v].pc = "idle",
           Fetch(v, t), UNCHANGED <<published, withdrawn, process, jwks, clock>>
    PROVE  TokenInv'
<1>0. TokenTypeOK /\ KeysFresh
  BY DEF TokenInv
<1>1. CASE CacheValid(jwks) /\ Conclude(v, t, "cached", jwks.keys)
  <2>1. \A j \in jwks.keys : withdrawn[j] = -1 \/ clock < withdrawn[j] + TTL + RequestTimeout
    BY <1>0, <1>1, TokenParts DEF CacheValid, KeysFresh
  <2>2. /\ jwks' \in [keys : SUBSET Jwk, fetched_at : Nat \cup {-1}] /\ jwks'.fetched_at <= clock
        /\ \A j \in jwks'.keys :
              withdrawn[j] = -1 \/ jwks'.fetched_at <= withdrawn[j] + RequestTimeout
    BY <1>0, Zenon DEF TokenTypeOK, KeysFresh
  <2>. QED BY <1>0, <1>1, <2>1, <2>2, TokenParts, ConcludeInv, Zenon
<1>2. ASSUME validations' = [validations EXCEPT ![v] = [pc |-> "fetching", token |-> {t},
                                                        since |-> clock, keys |-> {}]],
             accepted' = NoOutcome
      PROVE  TokenInv'
  <2>1. [pc |-> "fetching", token |-> {t}, since |-> clock, keys |-> {}]
            \in [pc : {"idle", "fetching", "answered"}, since : Nat,
                 token : {{}} \cup {{u} : u \in Token}, keys : SUBSET Jwk]
    BY <1>0, TokenParts, Zenon
  <2>2. validations' \in [Validation -> [pc : {"idle", "fetching", "answered"}, since : Nat,
                                         token : {{}} \cup {{u} : u \in Token}, keys : SUBSET Jwk]]
    BY <1>0, <1>2, <2>1, Zenon DEF TokenTypeOK
  <2>3. TokenTypeOK' /\ WithdrawnKeysExpire'
    BY <1>0, <1>2, <2>2, Zenon DEF TokenTypeOK, WithdrawnKeysExpire, NoOutcome
  <2>4. ASSUME NEW u \in Validation PROVE CallFresh(u)'
    <3>1. CASE u = v
      <4>1. validations'[v] = [pc |-> "fetching", token |-> {t}, since |-> clock, keys |-> {}]
        BY <1>0, <1>2, Zenon DEF TokenTypeOK
      <4>. QED BY <1>0, <3>1, <4>1, TokenParts DEF CallFresh
    <3>2. CASE u # v
      BY <1>0, <1>2, <3>2, Zenon DEF TokenTypeOK, KeysFresh, CallFresh
    <3>. QED BY <3>1, <3>2
  <2>. QED BY <1>0, <2>3, <2>4, Zenon DEF TokenInv, KeysFresh
<1>. QED BY <1>1, <1>2 DEF Fetch

\* One case per step of a validation, for a rotation and for the clock.
LEMMA TokenStepInv == TokenInv /\ [TokenNext]_tokenVars => TokenInv'
<1>. SUFFICES ASSUME TokenInv, [TokenNext]_tokenVars PROVE TokenInv'
  OBVIOUS
<1>0. TokenTypeOK /\ KeysFresh
  BY DEF TokenInv
<1>1. ASSUME NEW v \in Validation, NEW t \in Token,
             validate_impl(v, t) \/ validate_token_with_jwks(v, t)
      PROVE  TokenInv'
  <2>1. /\ validations[v].pc = "idle" /\ UNCHANGED <<published, withdrawn, process, jwks, clock>>
        /\ \/ Fetch(v, t)
           \/ accepted' = [NoOutcome EXCEPT !.how = "hmac"] /\ UNCHANGED validations
    BY <1>1 DEF validate_impl, validate_token_with_jwks
  <2>2. CASE Fetch(v, t)
    BY <2>1, <2>2, FetchInv
  <2>3. CASE accepted' = [NoOutcome EXCEPT !.how = "hmac"] /\ UNCHANGED validations
    <3>1. accepted' = [how |-> "hmac", jwk |-> {}, at |-> 0]
      BY <2>3 DEF NoOutcome
    <3>2. accepted' \in [how : {"none", "hmac", "cached", "fetched", "stale"},
                         jwk : SUBSET Jwk, at : Nat]
      BY <3>1, Zenon
    <3>3. TokenTypeOK' /\ WithdrawnKeysExpire'
      BY <1>0, <2>1, <2>3, <3>1, <3>2, Zenon DEF TokenTypeOK, WithdrawnKeysExpire
    <3>4. KeysFresh'
      BY <1>0, <2>1, <2>3, Zenon DEF KeysFresh, CallFresh
    <3>. QED BY <3>3, <3>4 DEF TokenInv
  <2>. QED BY <2>1, <2>2, <2>3
<1>2. ASSUME NEW v \in Validation, fetch_remote(v) PROVE TokenInv'
  <2>. DEFINE r == [validations[v] EXCEPT !.pc = "answered", !.keys = published]
  <2>1. /\ validations' = [validations EXCEPT ![v] = r] /\ validations[v].pc = "fetching"
        /\ accepted' = NoOutcome /\ UNCHANGED <<published, withdrawn, process, jwks, clock>>
    BY <1>0, <1>2, Zenon DEF fetch_remote, TokenTypeOK
  <2>2. /\ r \in [pc : {"idle", "fetching", "answered"}, since : Nat,
                  token : {{}} \cup {{u} : u \in Token}, keys : SUBSET Jwk]
        /\ r.pc = "answered" /\ r.since = validations[v].since /\ r.keys = published
    BY <1>0, TokenParts, Zenon
  <2>. HIDE DEF r
  <2>3. TokenTypeOK' /\ WithdrawnKeysExpire'
    BY <1>0, <2>1, <2>2, Zenon DEF TokenTypeOK, WithdrawnKeysExpire, NoOutcome
  <2>4. ASSUME NEW u \in Validation PROVE CallFresh(u)'
    <3>1. CASE u = v
      <4>1. validations'[u] = r
        BY <1>0, <2>1, <3>1, Zenon DEF TokenTypeOK
      <4>. QED BY <1>0, <2>1, <2>2, <3>1, <4>1, Zenon DEF KeysFresh, CallFresh
    <3>2. CASE u # v
      BY <1>0, <2>1, <3>2, Zenon DEF TokenTypeOK, KeysFresh, CallFresh
    <3>. QED BY <3>1, <3>2
  <2>. QED BY <1>0, <2>1, <2>3, <2>4, Zenon DEF TokenInv, KeysFresh
<1>3. ASSUME NEW v \in Validation, FetchOk(v) PROVE TokenInv'
  <2>1. PICK t \in Token : Conclude(v, t, "fetched", validations[v].keys)
    BY <1>0, <1>3, TokenParts DEF FetchOk
  <2>2. /\ jwks' = [keys |-> validations[v].keys, fetched_at |-> clock]
        /\ validations[v].pc = "answered" /\ UNCHANGED <<published, withdrawn, process, clock>>
    BY <1>3, Zenon DEF FetchOk
  <2>3. \A j \in validations[v].keys : withdrawn[j] = -1 \/ clock <= withdrawn[j] + RequestTimeout
    BY <1>0, <2>2, TokenParts DEF KeysFresh, CallFresh
  <2>4. \A j \in validations[v].keys :
            withdrawn[j] = -1 \/ clock < withdrawn[j] + TTL + RequestTimeout
    BY <1>0, <2>3, TokenParts
  <2>5. /\ jwks' \in [keys : SUBSET Jwk, fetched_at : Nat \cup {-1}] /\ jwks'.fetched_at <= clock
        /\ jwks'.keys = validations[v].keys /\ jwks'.fetched_at = clock
    BY <1>0, <2>2, TokenParts
  <2>. QED BY <1>0, <2>1, <2>2, <2>3, <2>4, <2>5, TokenParts, ConcludeInv, Zenon
<1>4. ASSUME NEW v \in Validation, FetchFails(v) PROVE TokenInv'
  <2>1. PICK t \in Token : Conclude(v, t, "stale", jwks.keys)
    BY <1>0, <1>4, TokenParts DEF FetchFails
  <2>2. UNCHANGED <<published, withdrawn, process, jwks, clock>>
    BY <1>4, Zenon DEF FetchFails
  <2>3. /\ jwks' \in [keys : SUBSET Jwk, fetched_at : Nat \cup {-1}] /\ jwks'.fetched_at <= clock
        /\ \A j \in jwks'.keys :
              withdrawn[j] = -1 \/ jwks'.fetched_at <= withdrawn[j] + RequestTimeout
    BY <1>0, <2>2, Zenon DEF TokenTypeOK, KeysFresh
  <2>. QED BY <1>0, <2>1, <2>2, <2>3, TokenParts, ConcludeInv, Zenon
<1>5. ASSUME NEW keys \in SUBSET Jwk, Rotate(keys) PROVE TokenInv'
  <2>1. /\ published' = keys /\ \A j \in keys : withdrawn[j] = -1
        /\ withdrawn' = [j \in Jwk |-> IF j \in published \ keys THEN clock ELSE withdrawn[j]]
        /\ accepted' = NoOutcome /\ UNCHANGED <<process, jwks, validations, clock>>
    BY <1>5, Zenon DEF Rotate
  <2>2. withdrawn' \in [Jwk -> Nat \cup {-1}]
    BY <1>0, <2>1, TokenParts, Zenon DEF TokenTypeOK
  <2>3. TokenTypeOK' /\ WithdrawnKeysExpire'
    BY <1>0, <2>1, <2>2, Zenon DEF TokenTypeOK, WithdrawnKeysExpire, NoOutcome
  <2>4. \A j \in Jwk : withdrawn'[j] = clock \/ withdrawn'[j] = withdrawn[j]
    BY <2>1, Zenon
  <2>5. ASSUME NEW u \in Validation PROVE CallFresh(u)'
    <3>1. \A j \in validations[u].keys :
              withdrawn'[j] = -1 \/ withdrawn'[j] >= validations[u].since
      BY <1>0, <2>4, TokenParts, Zenon DEF KeysFresh, CallFresh
    <3>. QED BY <1>0, <2>1, <3>1, Zenon DEF KeysFresh, CallFresh
  <2>6. \A j \in jwks.keys :
            withdrawn'[j] = -1 \/ jwks.fetched_at <= withdrawn'[j] + RequestTimeout
    BY <1>0, <2>4, TokenParts DEF KeysFresh
  <2>. QED BY <1>0, <2>1, <2>3, <2>5, <2>6, Zenon DEF TokenInv, KeysFresh
<1>6. CASE TokenTick
  <2>1. /\ clock' = clock + 1 /\ clock < Horizon /\ accepted' = NoOutcome
        /\ \A v \in Validation : validations[v].pc \in {"fetching", "answered"} =>
                                    clock < validations[v].since + RequestTimeout
        /\ UNCHANGED <<published, withdrawn, process, jwks, validations>>
    BY <1>6, Zenon DEF TokenTick
  <2>2. TokenTypeOK' /\ WithdrawnKeysExpire'
    BY <1>0, <2>1, TokenParts DEF TokenTypeOK, WithdrawnKeysExpire, NoOutcome
  <2>3. ASSUME NEW v \in Validation PROVE CallFresh(v)'
    BY <1>0, <2>1, TokenParts DEF KeysFresh, CallFresh
  <2>. QED BY <1>0, <2>1, <2>2, <2>3, TokenParts DEF TokenInv, KeysFresh
<1>7. CASE UNCHANGED tokenVars
  BY <1>0, <1>7, Zenon DEF tokenVars, TokenInv, TokenTypeOK, WithdrawnKeysExpire, KeysFresh, CallFresh
<1>. QED BY <1>1, <1>2, <1>3, <1>4, <1>5, <1>6, <1>7, Zenon DEF TokenNext

\* P7 for any number of overlapping validations: a withdrawn key is refused once the
\* life of a cached answer and the time of a request are over, unless the fetch failed.
THEOREM WithdrawnKeysGo == TokenSpec => []WithdrawnKeysExpire
<1>1. TokenInit => TokenInv
  <2>. SUFFICES ASSUME TokenInit PROVE TokenInv
    OBVIOUS
  <2>1. TokenTypeOK
    BY KeysAssumption DEF TokenInit, TokenTypeOK, IdleCall, NoOutcome
  <2>2. WithdrawnKeysExpire
    BY Zenon DEF TokenInit, WithdrawnKeysExpire, NoOutcome
  <2>3. \A v \in Validation : CallFresh(v)
    BY DEF TokenInit, CallFresh, IdleCall
  <2>4. KeysFresh
    BY <2>3 DEF TokenInit, KeysFresh
  <2>. QED BY <2>1, <2>2, <2>4 DEF TokenInv
<1>2. TokenInv => WithdrawnKeysExpire
  BY DEF TokenInv
<1>. QED BY <1>1, <1>2, TokenStepInv, PTL DEF TokenSpec
=============================================================================
