----------------------------- MODULE MCClients -----------------------------
(***************************************************************************)
(* Two client processes: one may be started with any command or asked for  *)
(* any tool, the other with the commands that race with it.                *)
(***************************************************************************)
EXTENDS Clients

CONSTANTS c1, c2, n1, n2

MCClient == {c1, c2}
MCNode == <<n1, n2>>
MCSpecVClusters == <<"vc1", "vc2">>

Bare ==
    [token |-> "opaque", default_vcluster |-> "default", lattice_endpoint |-> FALSE,
     node_mgmt_backend |-> None, node_mgmt_base_url |-> FALSE, openchami_smd_url |-> FALSE,
     mcp_journal |-> TRUE, mcp_agent |-> TRUE]

\* A site with nothing but pact, one with lattice and OpenCHAMI by its old
\* variable, one with CSM, one whose CSM address is missing, one not logged in.
MCSite ==
    {Bare,
     [Bare EXCEPT !.token = "jwt", !.lattice_endpoint = TRUE, !.openchami_smd_url = TRUE],
     [Bare EXCEPT !.lattice_endpoint = TRUE, !.node_mgmt_backend = "Csm", !.node_mgmt_base_url = TRUE],
     [Bare EXCEPT !.node_mgmt_backend = "Csm", !.openchami_smd_url = TRUE, !.mcp_journal = FALSE,
                  !.mcp_agent = FALSE],
     [Bare EXCEPT !.token = None]}

MCCliMenu == (c1 :> Commands) @@ (c2 :> {"commit", "node import"})
MCToolMenu ==
    (c1 :> DOMAIN all_tools \cup DOMAIN MethodReply \cup {"no_such_tool"})
    @@ (c2 :> {"pact_apply"})

=============================================================================
