------------------------ MODULE MCEnrollmentService ------------------------
(***************************************************************************)
(* The enrollment service on two nodes.  Once both are registered time     *)
(* stands still, nodes are not assigned and audit writes are lost: what    *)
(* depends on the clock, the monitor, the vClusters and the audit log is   *)
(* explored with one node.                                                 *)
(***************************************************************************)
EXTENDS EnrollmentService, TLC

MCSerials == 1..MaxCerts
MCOperations == [node : NodeId \cup {None}, outcome : {"SUCCESS", "REJECTED"}]
MCLower == [s \in Mac \cup Bmc |-> IF s = "AA" THEN "aa" ELSE s]
MCSymmetry == Permutations(Call) \cup Permutations(NodeId)

Both == \A n \in NodeId : Enrolled(n)
Still == now = 0 /\ audit_log = <<>> /\ \A n \in NodeId : node_assignments[n] = None

MCNext == ServiceNext /\ (Both' => Still')
MCSpec == ServiceInit /\ [][MCNext]_serviceVars
=============================================================================
