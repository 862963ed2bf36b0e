-------------------------- MODULE EnrollmentService --------------------------
(***************************************************************************)
(* The enrollment RPCs and the heartbeat monitor of pact-journal           *)
(* (enrollment_service.rs, heartbeat.rs, ca.rs) over the replicated        *)
(* enrollment state.  An RPC is a handler that awaits between its read of  *)
(* the local state, its Raft writes and its answer, so handlers interleave *)
(* there; a write is one command of Enrollments or an error, and tonic may *)
(* drop a handler at any await when its client goes away.                  *)
(***************************************************************************)
EXTENDS Enrollments, AuditLog, Integers

CONSTANTS
    Call,               \* enroll, renew and decommission calls in flight
    MaxCerts,           \* bound on the serials drawn
    timeout_seconds,    \* heartbeat timeout
    HeartbeatRuns       \* is HeartbeatMonitor::run spawned?

ASSUME ServiceAssumption ==
    /\ MaxCerts \in Nat /\ CertSerial = 1..MaxCerts
    /\ IsFiniteSet(Call)
    /\ timeout_seconds \in Nat
    /\ HeartbeatRuns \in BOOLEAN
    /\ AdminOperation = [node : NodeId \cup {None}, outcome : {"SUCCESS", "REJECTED"}]

VARIABLES
    now,        \* the wall clock
    drawn,      \* serials drawn so far: uuids, so each is new
    calls,      \* Call -> the handler's local state
    scan,       \* nodes check_timeouts has collected and not yet written
    agentCert,  \* NodeId -> serial of the certificate its agent last received
    history     \* what the properties compare with; no action reads it

serviceVars == <<enrollVars, audit_log, now, drawn, calls, scan, agentCert, history>>

Idle == [pc |-> "idle", node |-> None, serial |-> None]

CallRecord ==
    [pc : {"idle", "activate", "sign", "update", "audit_ok", "audit_rejected",
           "renew_write", "renew_answer", "revoke"},
     node : NodeId \cup {None}, serial : CertSerial \cup {None}]

\* owner: the node each serial was signed for.  grants: per node, ActivateNode
\* commands accepted less certificates enroll signed.
HistoryRecord == [owner : [CertSerial -> NodeId \cup {None}], grants : [NodeId -> Int]]

ServiceTypeOK ==
    /\ EnrollmentsTypeOK /\ AuditTypeOK
    /\ now \in Clock
    /\ drawn \in 0..MaxCerts
    /\ calls \in [Call -> CallRecord]
    /\ scan \subseteq NodeId
    /\ agentCert \in [NodeId -> CertSerial \cup {None}]
    /\ history \in HistoryRecord

ServiceInit ==
    /\ EnrollmentsInit /\ AuditInit
    /\ now = 0 /\ drawn = 0
    /\ calls = [c \in Call |-> Idle]
    /\ scan = {}
    /\ agentCert = [n \in NodeId |-> None]
    /\ history = [owner |-> [s \in CertSerial |-> None], grants |-> [n \in NodeId |-> 0]]

-----------------------------------------------------------------------------
Goto(c, pc) == calls' = [calls EXCEPT ![c].pc = pc]
Return(c) == calls' = [calls EXCEPT ![c] = Idle]

\* Variant for sensitivity checks: serials come from the clock.
FreshSerial_Clock == now + 1

\* uuid::Uuid::new_v4
FreshSerial == drawn + 1
Draw == drawn < MaxCerts /\ drawn' = FreshSerial

\* RPCs that are one Raft write: what apply decides is the answer.
\* register_node; batch_register_nodes is a sequence of these.
RegisterNodeRpc(n, hw) ==
    /\ RegisterNode(n, hw)
    /\ UNCHANGED <<audit_log, now, drawn, calls, scan, agentCert, history>>

\* assign_node, unassign_node, and move_node, whose earlier read of the current
\* vCluster only fills the answer.
AssignmentRpc(n) ==
    /\ \/ \E v \in VClusterId : AssignNodeToVCluster(n, v) \/ MoveNodeVCluster(n, "", v)
       \/ UnassignNode(n)
    /\ UNCHANGED <<audit_log, now, drawn, calls, scan, agentCert, history>>

-----------------------------------------------------------------------------
\* enroll: the read of hw_index and of the record, and the pre-flight check.
EnrollLookup(c, hw) ==
    LET n == hw_index[hw_canonical_key(hw)]
    IN  /\ calls[c].pc = "idle"
        /\ calls' = [calls EXCEPT ![c] =
                        [pc |-> IF n = None \/ enrollments[n].state \in {"Revoked", "Active"}
                                THEN "audit_rejected" ELSE "activate",
                         node |-> n, serial |-> None]]
        /\ UNCHANGED <<enrollVars, audit_log, now, drawn, scan, agentCert, history>>

\* Variant for sensitivity checks: the handler relies on its own earlier check.
EnrollActivate_Unchecked(c) ==
    /\ calls[c].pc = "activate"
    /\ Draw
    /\ enrollments' = [enrollments EXCEPT ![calls[c].node].state = "Active",
                                          ![calls[c].node].cert_serial = FreshSerial,
                                          ![calls[c].node].last_seen = now]
    /\ Goto(c, "sign")
    /\ history' = [history EXCEPT !.grants[calls[c].node] = @ + 1]
    /\ UNCHANGED <<hw_index, node_assignments, revoked_serials, audit_log, now, scan, agentCert>>

\* The ActivateNode write, with a placeholder serial.
EnrollActivate(c) ==
    /\ calls[c].pc = "activate"
    /\ Draw
    /\ ActivateNode(calls[c].node, FreshSerial, now)
    /\ Goto(c, "sign")
    /\ history' = [history EXCEPT !.grants[calls[c].node] = @ + 1]
    /\ UNCHANGED <<audit_log, now, scan, agentCert>>

\* Variant for sensitivity checks: a refusal by apply is taken for an acceptance.
EnrollRefused_Ignored(c) ==
    /\ calls[c].pc = "activate"
    /\ ~Activatable(calls[c].node)
    /\ Goto(c, "sign")
    /\ UNCHANGED <<enrollVars, audit_log, now, drawn, scan, agentCert, history>>

\* apply refuses: another call was first, or the node was revoked meanwhile.
EnrollRefused(c) ==
    /\ calls[c].pc = "activate"
    /\ ~Activatable(calls[c].node)
    /\ Return(c)
    /\ UNCHANGED <<enrollVars, audit_log, now, drawn, scan, agentCert, history>>

\* ca.sign_csr succeeds.
EnrollSign(c) ==
    /\ calls[c].pc = "sign"
    /\ Draw
    /\ calls' = [calls EXCEPT ![c].pc = "update", ![c].serial = FreshSerial]
    /\ history' = [history EXCEPT !.owner[FreshSerial] = calls[c].node,
                                  !.grants[calls[c].node] = @ - 1]
    /\ UNCHANGED <<enrollVars, audit_log, now, scan, agentCert>>

\* The UpdateNodeCert write.
EnrollUpdateCert(c) ==
    /\ calls[c].pc = "update"
    /\ UpdateNodeCert(calls[c].node, calls[c].serial, now)
    /\ Goto(c, "audit_ok")
    /\ UNCHANGED <<audit_log, now, drawn, scan, agentCert, history>>

\* The UpdateNodeCert write fails; its error is discarded.
EnrollUpdateLost(c) ==
    /\ calls[c].pc = "update"
    /\ Goto(c, "audit_ok")
    /\ UNCHANGED <<enrollVars, audit_log, now, drawn, scan, agentCert, history>>

\* audit_enrollment, whose write may fail unnoticed, then the answer.
AuditWrite(op) == RecordOperation(op) \/ UNCHANGED audit_log

EnrollSuccess(c) ==
    /\ calls[c].pc = "audit_ok"
    /\ AuditWrite([node |-> calls[c].node, outcome |-> "SUCCESS"])
    /\ agentCert' = [agentCert EXCEPT ![calls[c].node] = calls[c].serial]
    /\ Return(c)
    /\ UNCHANGED <<enrollVars, now, drawn, scan, history>>

EnrollRejected(c) ==
    /\ calls[c].pc = "audit_rejected"
    /\ AuditWrite([node |-> calls[c].node, outcome |-> "REJECTED"])
    /\ Return(c)
    /\ UNCHANGED <<enrollVars, now, drawn, scan, agentCert, history>>

-----------------------------------------------------------------------------
\* renew_cert: the agent of n sends its current serial; the node is found by it
\* and the new certificate is signed before the write.
RenewSign(c, n) ==
    \E m \in NodeId :
        /\ calls[c].pc = "idle"
        /\ agentCert[n] # None
        /\ Enrolled(m) /\ enrollments[m].cert_serial = agentCert[n]
        /\ Draw
        /\ calls' = [calls EXCEPT ![c] = [pc |-> "renew_write", node |-> m, serial |-> FreshSerial]]
        /\ history' = [history EXCEPT !.owner[FreshSerial] = m]
        /\ UNCHANGED <<enrollVars, audit_log, now, scan, agentCert>>

RenewWrite(c) ==
    /\ calls[c].pc = "renew_write"
    /\ UpdateNodeCert(calls[c].node, calls[c].serial, now)
    /\ Goto(c, "renew_answer")
    /\ UNCHANGED <<audit_log, now, drawn, scan, agentCert, history>>

\* The answer arrives, the agent's passive channel connects and it swaps its
\* credentials (DualChannelManager::renew).  The call is taken to carry a token the
\* journal accepts; the fixed one the agent sends today is not a JWT.
RenewSwap(c) ==
    /\ calls[c].pc = "renew_answer"
    /\ agentCert' = [agentCert EXCEPT ![calls[c].node] = calls[c].serial]
    /\ Return(c)
    /\ UNCHANGED <<enrollVars, audit_log, now, drawn, scan, history>>

\* decommission_node: the read (active_sessions is always 0, the serial goes into
\* the answer), then RevokeNode.
DecommissionRead(c, n) ==
    /\ calls[c].pc = "idle"
    /\ calls' = [calls EXCEPT ![c] = [pc |-> "revoke", node |-> n, serial |-> None]]
    /\ UNCHANGED <<enrollVars, audit_log, now, drawn, scan, agentCert, history>>

DecommissionWrite(c) ==
    /\ calls[c].pc = "revoke"
    /\ RevokeNode(calls[c].node)
    /\ Return(c)
    /\ UNCHANGED <<audit_log, now, drawn, scan, agentCert, history>>

\* A Raft write error, a CSR that does not parse, a validation error, a client
\* that goes away, an answer that is lost or a passive channel that does not
\* connect: the call ends where it is, with what it has written.
CallEnds(c) ==
    /\ calls[c].pc # "idle"
    /\ Return(c)
    /\ UNCHANGED <<enrollVars, audit_log, now, drawn, scan, agentCert, history>>

-----------------------------------------------------------------------------
\* check_timeouts, the collection.
TimedOut(n) ==
    /\ Enrolled(n) /\ enrollments[n].state = "Active"
    /\ enrollments[n].last_seen # None
    /\ now > enrollments[n].last_seen + timeout_seconds

HeartbeatScan ==
    /\ HeartbeatRuns /\ scan = {}
    /\ scan' = { n \in NodeId : TimedOut(n) }
    /\ UNCHANGED <<enrollVars, audit_log, now, drawn, calls, agentCert, history>>

\* One DeactivateNode of the loop; a failed write is logged and passed over.
HeartbeatDeactivate(n) ==
    /\ n \in scan
    /\ scan' = scan \ {n}
    /\ DeactivateNode(n)
    /\ UNCHANGED <<audit_log, now, drawn, calls, agentCert, history>>

HeartbeatWriteFails(n) ==
    /\ n \in scan
    /\ scan' = scan \ {n}
    /\ UNCHANGED <<enrollVars, audit_log, now, drawn, calls, agentCert, history>>

Tick ==
    /\ now < MaxClock
    /\ now' = now + 1
    /\ UNCHANGED <<enrollVars, audit_log, drawn, calls, scan, agentCert, history>>

ServiceNext ==
    \/ \E n \in NodeId, hw \in HardwareIdentity : RegisterNodeRpc(n, hw)
    \/ \E n \in NodeId : AssignmentRpc(n)
    \/ \E c \in Call, hw \in HardwareIdentity : EnrollLookup(c, hw)
    \/ \E c \in Call :
          \/ EnrollActivate(c) \/ EnrollRefused(c) \/ EnrollSign(c)
          \/ EnrollUpdateCert(c) \/ EnrollUpdateLost(c)
          \/ EnrollSuccess(c) \/ EnrollRejected(c)
          \/ RenewWrite(c) \/ RenewSwap(c) \/ DecommissionWrite(c) \/ CallEnds(c)
    \/ \E c \in Call, n \in NodeId : RenewSign(c, n) \/ DecommissionRead(c, n)
    \/ HeartbeatScan
    \/ \E n \in NodeId : HeartbeatDeactivate(n) \/ HeartbeatWriteFails(n)
    \/ Tick

ServiceSpec == ServiceInit /\ [][ServiceNext]_serviceVars

-----------------------------------------------------------------------------
\* enrollment_service.rs writes ActivateNode first so that "only the Raft winner
\* gets a signed cert": enroll never signs more certificates for a node than
\* ActivateNode commands were accepted for it, however the calls interleave.
OneCertPerActivation ==
    \A n \in NodeId : history.grants[n] >= 0

\* renew_cert finds the node by the serial the agent presents: no two records share
\* a serial, and a record's signed serial was signed for that node.
SerialIdentifiesNode ==
    /\ \A m, n \in NodeId :
          (m # n /\ Enrolled(m) /\ Enrolled(n) /\ enrollments[m].cert_serial # None)
              => enrollments[m].cert_serial # enrollments[n].cert_serial
    /\ \A n \in NodeId : Enrolled(n) =>
          \A s \in CertSerial : enrollments[n].cert_serial = s => history.owner[s] \in {n, None}

\* Decommissioning is permanent: a revoked node stays revoked, although an enroll
\* handler may have passed its pre-flight check before the revocation and activates the
\* node after it, and renewals and registrations race with both.  The exception is the
\* monitor: DeactivateNode does not look at the state it replaces, so a node collected
\* by check_timeouts before it was revoked becomes Inactive, and can enroll again.
RevocationHolds ==
    [][\A n \in NodeId :
          (Enrolled(n) /\ enrollments[n].state = "Revoked" /\ n \notin scan) =>
              Enrolled(n)' /\ enrollments'[n].state = "Revoked"]_serviceVars

\* Whatever the handlers do, the replicated state moves by commands of the state
\* machine: the service implements Enrollments.
ImplementsEnrollments == EnrollmentsSpec

=============================================================================
