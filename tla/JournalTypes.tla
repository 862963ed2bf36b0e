---------------------------- MODULE JournalTypes ----------------------------
(***************************************************************************)
(* Vocabulary shared by the parts of the replicated journal state          *)
(* (pact-common/src/types.rs).  An absent Option or a missing map key is   *)
(* None; the empty string, which the code's validation tells apart from    *)
(* other strings, is "".                                                   *)
(***************************************************************************)
EXTENDS Naturals

CONSTANTS
    NodeId,         \* node identifiers
    VClusterId,     \* vCluster identifiers
    Principal,      \* Identity.principal; may contain ""
    Role,           \* Identity.role; may contain ""
    None            \* Option::None, a missing key

ASSUME NoneAssumption ==
    None \notin NodeId \cup VClusterId \cup Principal \cup Role \cup Nat

Identity == [principal : Principal, role : Role]

Scope == [kind : {"Global"}, id : {None}]
           \cup [kind : {"VCluster"}, id : VClusterId]
           \cup [kind : {"Node"}, id : NodeId]
=============================================================================
