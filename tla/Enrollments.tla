----------------------------- MODULE Enrollments -----------------------------
(***************************************************************************)
(* The enrollment part of JournalState (raft/state.rs): enrollment records,*)
(* the hardware index, the node-to-vCluster assignment and the registry of *)
(* revoked serials.  One action per command; a command the validation      *)
(* refuses changes nothing.                                                *)
(***************************************************************************)
EXTENDS JournalTypes, FiniteSets

CONSTANTS
    Mac,            \* MAC address spellings
    Bmc,            \* BMC serial spellings; may contain ""
    Lower,          \* to_lowercase on those spellings, a function
    CertSerial,     \* certificate serials
    MaxClock        \* bound on the clock

ASSUME LowerAssumption == Lower \in [Mac \cup Bmc -> Mac \cup Bmc]
ASSUME MaxClockAssumption == MaxClock \in Nat

VARIABLES
    enrollments,        \* NodeId -> NodeEnrollment or None
    hw_index,           \* canonical hardware key -> NodeId or None
    node_assignments,   \* NodeId -> VClusterId or None (the legacy map)
    revoked_serials     \* the revocation registry

enrollVars == <<enrollments, hw_index, node_assignments, revoked_serials>>

HardwareIdentity == [mac_address : Mac, bmc_serial : Bmc \cup {None}]

\* A serial of Some("") and no serial give the same key, from the MAC alone.
hw_canonical_key(hw) ==
    IF hw.bmc_serial \in {None, ""}
    THEN [mac |-> Lower[hw.mac_address], bmc |-> None]
    ELSE [mac |-> Lower[hw.mac_address], bmc |-> Lower[hw.bmc_serial]]

HwKey == [mac : Mac \cup Bmc, bmc : Mac \cup Bmc \cup {None}]

EnrollmentState == {"Registered", "Active", "Inactive", "Revoked"}

\* cert_expires_at is derived from the serial's certificate and left out.
NodeEnrollment ==
    [state : EnrollmentState, hardware_identity : HardwareIdentity,
     vcluster_id : VClusterId \cup {None}, cert_serial : CertSerial \cup {None},
     last_seen : Nat \cup {None}]

ASSUME EnrollmentNoneAssumption == None \notin NodeEnrollment

EnrollmentsTypeOK ==
    /\ enrollments \in [NodeId -> NodeEnrollment \cup {None}]
    /\ hw_index \in [HwKey -> NodeId \cup {None}]
    /\ node_assignments \in [NodeId -> VClusterId \cup {None}]
    /\ revoked_serials \subseteq CertSerial

EnrollmentsInit ==
    /\ enrollments = [n \in NodeId |-> None]
    /\ hw_index = [k \in HwKey |-> None]
    /\ node_assignments = [n \in NodeId |-> None]
    /\ revoked_serials = {}

-----------------------------------------------------------------------------
Enrolled(n) == enrollments[n] # None

\* The record register_node and batch_register_nodes build.
NewEnrollment(hw) ==
    [state |-> "Registered", hardware_identity |-> hw, vcluster_id |-> None,
     cert_serial |-> None, last_seen |-> None]

\* E1, E2
Registrable(n, hw) == ~Enrolled(n) /\ hw_index[hw_canonical_key(hw)] = None

RegisterNode(n, hw) ==
    /\ Registrable(n, hw)
    /\ hw_index' = [hw_index EXCEPT ![hw_canonical_key(hw)] = n]
    /\ enrollments' = [enrollments EXCEPT ![n] = NewEnrollment(hw)]
    /\ UNCHANGED <<node_assignments, revoked_serials>>

\* Variant for sensitivity checks: a revoked node may be activated.
Activatable_Revoked(n) == Enrolled(n) /\ enrollments[n].state # "Active"

\* E7: a revoked or an active node is refused.
Activatable(n) == Enrolled(n) /\ enrollments[n].state \notin {"Revoked", "Active"}

\* now is Utc::now() read inside apply.
ActivateNode(n, serial, now) ==
    /\ Activatable(n)
    /\ enrollments' = [enrollments EXCEPT ![n].state = "Active",
                                          ![n].cert_serial = serial,
                                          ![n].last_seen = now]
    /\ UNCHANGED <<hw_index, node_assignments, revoked_serials>>

\* The remaining commands only require the node to be enrolled.
DeactivateNode(n) ==
    /\ Enrolled(n)
    /\ enrollments' = [enrollments EXCEPT ![n].state = "Inactive"]
    /\ UNCHANGED <<hw_index, node_assignments, revoked_serials>>

\* Variant for sensitivity checks: revoking frees the hardware key.
RevokeNode_FreesKey(n) ==
    /\ Enrolled(n)
    /\ enrollments' = [enrollments EXCEPT ![n].state = "Revoked"]
    /\ hw_index' = [hw_index EXCEPT
                       ![hw_canonical_key(enrollments[n].hardware_identity)] = None]
    /\ UNCHANGED <<node_assignments, revoked_serials>>

RevokeNode(n) ==
    /\ Enrolled(n)
    /\ enrollments' = [enrollments EXCEPT ![n].state = "Revoked"]
    /\ UNCHANGED <<hw_index, node_assignments, revoked_serials>>

AssignNodeToVCluster(n, v) ==
    /\ Enrolled(n)
    /\ enrollments' = [enrollments EXCEPT ![n].vcluster_id = v]
    /\ node_assignments' = [node_assignments EXCEPT ![n] = v]
    /\ UNCHANGED <<hw_index, revoked_serials>>

\* Variant for sensitivity checks: the empty string stands for no vCluster.
UnassignNode_Empty(n) ==
    /\ Enrolled(n)
    /\ enrollments' = [enrollments EXCEPT ![n].vcluster_id = ""]
    /\ node_assignments' = [node_assignments EXCEPT ![n] = None]
    /\ UNCHANGED <<hw_index, revoked_serials>>

UnassignNode(n) ==
    /\ Enrolled(n)
    /\ enrollments' = [enrollments EXCEPT ![n].vcluster_id = None]
    /\ node_assignments' = [node_assignments EXCEPT ![n] = None]
    /\ UNCHANGED <<hw_index, revoked_serials>>

\* from_vcluster_id is ignored by apply.
MoveNodeVCluster(n, from, to) ==
    /\ Enrolled(n)
    /\ enrollments' = [enrollments EXCEPT ![n].vcluster_id = to]
    /\ node_assignments' = [node_assignments EXCEPT ![n] = to]
    /\ UNCHANGED <<hw_index, revoked_serials>>

\* timestamp is None when it does not parse.
UpdateNodeLastSeen(n, timestamp) ==
    /\ Enrolled(n)
    /\ enrollments' = [enrollments EXCEPT ![n].last_seen = timestamp]
    /\ UNCHANGED <<hw_index, node_assignments, revoked_serials>>

UpdateNodeCert(n, serial, now) ==
    /\ Enrolled(n)
    /\ enrollments' = [enrollments EXCEPT ![n].cert_serial = serial, ![n].last_seen = now]
    /\ UNCHANGED <<hw_index, node_assignments, revoked_serials>>

\* The older command; nothing but tests sends it.
AssignNode(n, v) ==
    /\ node_assignments' = [node_assignments EXCEPT ![n] = v]
    /\ UNCHANGED <<enrollments, hw_index, revoked_serials>>

\* ValidationError: any command on a node that is not enrolled, a second
\* registration of a node or of a hardware key, an activation E7 forbids.
EnrollmentRefused(n) ==
    /\ \/ ~Enrolled(n)
       \/ \E hw \in HardwareIdentity : ~Registrable(n, hw)
       \/ ~Activatable(n)
    /\ UNCHANGED enrollVars

Clock == 0..MaxClock

EnrollmentsNext ==
    \E n \in NodeId :
        \/ \E hw \in HardwareIdentity : RegisterNode(n, hw)
        \/ \E s \in CertSerial, t \in Clock : ActivateNode(n, s, t) \/ UpdateNodeCert(n, s, t)
        \/ DeactivateNode(n)
        \/ RevokeNode(n)
        \/ \E v \in VClusterId : AssignNodeToVCluster(n, v)
        \/ UnassignNode(n)
        \/ \E from \in VClusterId \cup {""}, to \in VClusterId : MoveNodeVCluster(n, from, to)
        \/ \E t \in Clock \cup {None} : UpdateNodeLastSeen(n, t)
        \/ \E v \in VClusterId : AssignNode(n, v)
        \/ EnrollmentRefused(n)

EnrollmentsSpec == EnrollmentsInit /\ [][EnrollmentsNext]_enrollVars

-----------------------------------------------------------------------------
\* E2: the index and the records agree in both directions, so two nodes never
\* share a canonical hardware key whatever sequence of registrations,
\* revocations and re-registrations was applied.
HardwareUnique ==
    /\ \A n \in NodeId :
          Enrolled(n) => hw_index[hw_canonical_key(enrollments[n].hardware_identity)] = n
    /\ \A k \in HwKey :
          hw_index[k] # None =>
             /\ Enrolled(hw_index[k])
             /\ hw_canonical_key(enrollments[hw_index[k]].hardware_identity) = k

=============================================================================
