------------------------------ MODULE Approvals ------------------------------
(***************************************************************************)
(* The two-person approvals of JournalState (raft/state.rs, commands       *)
(* CreateApproval and DecideApproval).                                     *)
(***************************************************************************)
EXTENDS JournalTypes

CONSTANTS
    ApprovalId,     \* UUIDs; the policy service never reuses one
    MaxTime         \* bound on the clock

ASSUME MaxTimeAssumption == MaxTime \in Nat

VARIABLE pending_approvals      \* ApprovalId -> PendingApproval or None

Time == 0..MaxTime

\* ApprovalStatus without Pending, the values DecideApproval is sent with
Decision == {"Approved", "Rejected", "Expired"}

PendingApproval ==
    [requester : Principal, approver : Principal \cup {None},
     status : {"Pending"} \cup Decision, expires_at : Nat]

ASSUME ApprovalNoneAssumption == None \notin PendingApproval

ApprovalsTypeOK == pending_approvals \in [ApprovalId -> PendingApproval \cup {None}]

ApprovalsInit == pending_approvals = [a \in ApprovalId |-> None]

-----------------------------------------------------------------------------
\* The record policy_service::evaluate builds.
NewApproval(requester, expires_at) ==
    [requester |-> requester, approver |-> None, status |-> "Pending",
     expires_at |-> expires_at]

\* JournalCommand::CreateApproval: an unconditional insert.
CreateApproval(a, approval) ==
    pending_approvals' = [pending_approvals EXCEPT ![a] = approval]

\* Variant for sensitivity checks: requester and approver are not compared.
Decidable_Self(a, approver) ==
    pending_approvals[a] # None /\ pending_approvals[a].status = "Pending"

\* Variant for sensitivity checks: the status is not looked at.
Decidable_Again(a, approver) ==
    pending_approvals[a] # None /\ pending_approvals[a].requester # approver

\* The checks of DecideApproval; the clock is not consulted.
Decidable(a, approver) ==
    /\ pending_approvals[a] # None
    /\ pending_approvals[a].status = "Pending"
    /\ pending_approvals[a].requester # approver

DecideApproval(a, approver, decision) ==
    /\ Decidable(a, approver)
    /\ pending_approvals' = [pending_approvals EXCEPT ![a].status = decision,
                                                      ![a].approver = approver]

DecideApprovalRefused(a, approver) ==
    /\ ~Decidable(a, approver)
    /\ UNCHANGED pending_approvals

\* The senders use a fresh UUID, so an approval is created once.
ApprovalsNext ==
    \/ \E a \in ApprovalId, p \in Principal, t \in Time :
          /\ pending_approvals[a] = None
          /\ CreateApproval(a, NewApproval(p, t))
    \/ \E a \in ApprovalId, p \in Principal, d \in Decision : DecideApproval(a, p, d)
    \/ \E a \in ApprovalId, p \in Principal : DecideApprovalRefused(a, p)

ApprovalsSpec == ApprovalsInit /\ [][ApprovalsNext]_pending_approvals

-----------------------------------------------------------------------------
\* P4: no request is decided by the principal who made it, and every decision
\* (approval, rejection or expiry) names its approver.  DecideApproval compares
\* the principals when the command is applied, whatever the caller checked.
TwoPersons ==
    \A a \in ApprovalId :
        pending_approvals[a] # None =>
            /\ pending_approvals[a].status = "Pending" <=> pending_approvals[a].approver = None
            /\ pending_approvals[a].approver # pending_approvals[a].requester

\* A decided approval never changes again: of an approver's decision racing
\* another one, or racing the heartbeat's expiry, the first applied stands, and
\* who asked and the deadline are never rewritten.
DecisionsFinal ==
    [][\A a \in ApprovalId :
          pending_approvals[a] # None =>
             /\ pending_approvals'[a] # None
             /\ pending_approvals[a].status # "Pending" =>
                    pending_approvals'[a] = pending_approvals[a]
             /\ pending_approvals'[a].requester = pending_approvals[a].requester
             /\ pending_approvals'[a].expires_at = pending_approvals[a].expires_at]_pending_approvals
=============================================================================
