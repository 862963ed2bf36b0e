---------------------------- MODULE CliCommands -----------------------------
(***************************************************************************)
(* The scripts of the commands (pact-cli/src/commands): those that talk to *)
(* the journal and to the agents (execute.rs, diag.rs), those that         *)
(* delegate to the lattice scheduler and to the node management backend    *)
(* (delegate.rs, lattice.rs, csm.rs, openchami.rs), and `pact node`        *)
(* (node.rs), with the import of the OpenCHAMI inventory, whose script is  *)
(* only known once the inventory has answered.  cfg is the site's          *)
(* configuration, author the identity written into an entry.               *)
(***************************************************************************)
EXTENDS ClientCalls

CONSTANT SpecVClusters      \* the vClusters of the spec file of apply, in its order

\* An entry is appended through the authenticated channel; an error ends the command.
append_entry(e) == Step("journal", "append", e, "stop", "stop")

vcluster_scope(cfg) == cfg.default_vcluster

\* The principal a token stands for: its claims when it decodes, else a fixed one.
resolve_identity_from_token(cfg) ==
    IF cfg.token = "jwt" THEN "token-subject" ELSE "cli-user"

connect_with_tls == <<Ask("journal", "connect")>>

\* Token resolution of main: argument, environment, file, login cache.
connect_authenticated ==
    <<Step("config", "token", None, "login", "login")>> \o connect_with_tls

-----------------------------------------------------------------------------
(* Queries of the journal.                                                   *)

status == <<Ask("journal", "get_node_state")>>

log == <<Ask("journal", "list_entries"), Ask("journal", "entries")>>

promote_node == <<Ask("journal", "list_entries"), Ask("journal", "entries")>>

group_list ==
    <<Ask("journal", "list_entries"), Ask("journal", "entries"),
      Glance("journal", "get_effective_policy")>>

group_show == <<Ask("journal", "get_effective_policy")>>

approve_list == <<Ask("journal", "list_pending_approvals")>>

watch == <<Ask("journal", "subscribe"), Glance("journal", "updates")>>

-----------------------------------------------------------------------------
(* Writes to the journal.                                                    *)

commit(cfg, author) ==
    <<append_entry(Entry("Commit", vcluster_scope(cfg), author, "message", None))>>

rollback(cfg, author, target_seq) ==
    <<append_entry(Entry("Rollback", vcluster_scope(cfg), author, "", target_seq))>>

\* Variant for sensitivity checks: a vCluster that fails is skipped.
apply_Skips(cfg, author) ==
    <<Need("input"), Step("config", "nonempty", None, "leave", "leave")>>
    \o [i \in 1..Len(SpecVClusters) |->
           Step("journal", "append", Entry("Commit", SpecVClusters[i], author, "apply", None), "go", "go")]

\* One entry per vCluster of the spec, in order; the first error stops.
apply(cfg, author) ==
    <<Need("input"), Step("config", "nonempty", None, "leave", "leave")>>
    \o [i \in 1..Len(SpecVClusters) |->
           append_entry(Entry("Commit", SpecVClusters[i], author, "apply", None))]

emergency_start(cfg, author) ==
    <<append_entry(Entry("EmergencyStart", vcluster_scope(cfg), author, "", None))>>

emergency_end(cfg, author) ==
    <<append_entry(Entry("EmergencyEnd", vcluster_scope(cfg), author, "", None))>>

blacklist_add(cfg, author) ==
    <<append_entry(Entry("Commit", vcluster_scope(cfg), author, "blacklist:add", None))>>

blacklist_remove(cfg, author) ==
    <<append_entry(Entry("Commit", vcluster_scope(cfg), author, "blacklist:remove", None))>>

approve_decide == <<Ask("journal", "decide_approval")>>

group_set_policy == <<Need("input"), Ask("journal", "update_policy")>>

-----------------------------------------------------------------------------
(* The agent of a node.                                                      *)

\* The journal is asked whether it knows the node; an unknown node is tried by name.
resolve_agent_address(local) ==
    IF local THEN <<>> ELSE <<Step("journal", "find_node", None, "stop", "go")>>

connect_agent == <<Ask("agent", "open")>>

\* A remote exit code other than zero is only printed.
exec_remote == <<Ask("agent", "exec"), Step("agent", "output", None, "stop", "stop")>>

list_agent_commands == <<Ask("agent", "list_commands")>>

extend == <<Ask("agent", "extend_window")>>

\* A broken stream ends the session without an error, an error message does not.
shell_interactive == <<Ask("agent", "shell"), Step("agent", "output", None, "go", "stop")>>

diag_node == <<Ask("agent", "collect_diag"), Ask("agent", "chunks")>>

diag_fleet == <<Need("never")>>

OnAgent(local, script) == resolve_agent_address(local) \o connect_agent \o script

-----------------------------------------------------------------------------
(* Delegation.                                                               *)

\* The audit entry of a delegation: its result is only used in a message.
audit_delegation(author, command) ==
    <<Step("journal", "append",
           Entry("ServiceLifecycle", "node", author, command, None), "go", "go")>>

-----------------------------------------------------------------------------
(* Node management backends.                                                 *)

\* Which backend the configuration yields, or None when it is not configured.
create_node_mgmt_backend(cfg) ==
    IF cfg.node_mgmt_backend = None
    THEN IF cfg.openchami_smd_url THEN "Ochami" ELSE None
    ELSE IF \/ cfg.node_mgmt_base_url
            \/ cfg.node_mgmt_backend = "Ochami" /\ cfg.openchami_smd_url
         THEN cfg.node_mgmt_backend ELSE None

\* CSM reboots through CAPMC and reimages through a BOS session.
csm_reboot == "xname_reinit"
csm_reimage == "bos_session"

\* OpenCHAMI power cycles for both: its boot service hands out the new image.
ochami_power_cycle == "power_cycle"

NodeMgmtDispatch(cfg, csm_op) ==
    <<Need("backend"),
      Ask("node_mgmt", IF create_node_mgmt_backend(cfg) = "Csm"
                       THEN csm_op ELSE ochami_power_cycle)>>

reboot_node(cfg, author) ==
    audit_delegation(author, "reboot") \o NodeMgmtDispatch(cfg, csm_reboot)

reimage_node(cfg, author) ==
    audit_delegation(author, "reimage") \o NodeMgmtDispatch(cfg, csm_reimage)

-----------------------------------------------------------------------------
(* The lattice scheduler.                                                    *)

connect_lattice == <<Need("lattice"), Ask("lattice", "open")>>

\* The same where a failure is only reported.
try_lattice ==
    <<Step("config", "lattice", None, "leave", "leave"),
      Step("lattice", "open", None, "leave", "leave")>>

drain_node(author) ==
    audit_delegation(author, "drain") \o connect_lattice \o <<Ask("lattice", "drain_node")>>

cordon_node(author) ==
    audit_delegation(author, "cordon") \o connect_lattice \o <<Ask("lattice", "disable_node")>>

uncordon_node(author) ==
    audit_delegation(author, "uncordon") \o connect_lattice \o <<Ask("lattice", "enable_node")>>

\* Variant for sensitivity checks: success = false is only reported.
undrain_node_Reported(author) ==
    audit_delegation(author, "undrain") \o connect_lattice
    \o <<Step("lattice", "undrain_node", None, "stop", "go")>>

undrain_node(author) ==
    audit_delegation(author, "undrain") \o connect_lattice \o <<Ask("lattice", "undrain_node")>>

list_jobs == connect_lattice \o <<Ask("lattice", "list_allocations")>>
inspect_job == connect_lattice \o <<Ask("lattice", "get_allocation")>>
queue_status == connect_lattice \o <<Ask("lattice", "vcluster_queue")>>
accounting == connect_lattice \o <<Ask("lattice", "accounting_usage")>>
list_services == connect_lattice \o <<Ask("lattice", "list_services")>>
lookup_service == connect_lattice \o <<Ask("lattice", "lookup_service")>>
list_dags == connect_lattice \o <<Ask("lattice", "list_dags")>>
inspect_dag == connect_lattice \o <<Ask("lattice", "get_dag")>>
tenant_budget == connect_lattice \o <<Ask("lattice", "tenant_usage")>>
user_budget == connect_lattice \o <<Ask("lattice", "user_usage")>>
backup_verify == connect_lattice \o <<Ask("lattice", "verify_backup")>>
list_lattice_nodes == connect_lattice \o <<Ask("lattice", "list_nodes")>>
inspect_lattice_node == connect_lattice \o <<Ask("lattice", "get_node")>>

\* success = false is reported, and the command still succeeds.
cancel_job == connect_lattice \o <<Step("lattice", "cancel", None, "stop", "go")>>
cancel_dag == connect_lattice \o <<Step("lattice", "cancel_dag", None, "stop", "go")>>

\* Both halves are reported whatever the other one does.
cluster_status ==
    <<Glance("journal", "get_node_state")>> \o try_lattice \o <<Glance("lattice", "raft_status")>>

audit_combined(pact, lattice) ==
    (IF pact THEN <<Glance("journal", "list_entries")>> ELSE <<>>)
    \o (IF lattice THEN try_lattice \o <<Glance("lattice", "query_audit")>> ELSE <<>>)

health_check ==
    <<Glance("journal", "get_node_state")>> \o try_lattice
    \o <<Step("lattice", "health", None, "leave", "leave"),
         Step("lattice", "list_services", None, "leave", "leave"),
         Glance("lattice", "lookup_service")>>

\* The audit entry of a backup is written, or the backup is not attempted.
audited_backup(author, command) ==
    <<append_entry(Entry("ServiceLifecycle", "global", author, command, None))>>

backup_create(author) ==
    audited_backup(author, "backup_create") \o connect_lattice
    \o <<Ask("lattice", "create_backup")>>

backup_restore(author) ==
    audited_backup(author, "backup_restore") \o connect_lattice
    \o <<Ask("lattice", "restore_backup")>>

-----------------------------------------------------------------------------
(* The node commands.                                                        *)

Registration(n, mac, err) ==
    Step("journal", "register", [node |-> n, mac |-> mac], err, err)

enroll == <<Registration(Node[1], Node[1], "stop")>>
decommission == <<Ask("journal", "decommission")>>
assign == <<Ask("journal", "assign")>>
unassign == <<Ask("journal", "unassign")>>
move_node == <<Ask("journal", "move")>>
list_nodes == <<Ask("journal", "list_nodes")>>
inspect_node == <<Ask("journal", "inspect_node")>>

-----------------------------------------------------------------------------
(* The journal's answer to RegisterNode (pact-journal/src/raft/state.rs).   *)

RegisterReply(n, hw) ==
    IF enrolled[n] # None THEN "NODE_ALREADY_ENROLLED"
    ELSE IF \E m \in NodeId : enrolled[m] = hw
         THEN "HARDWARE_IDENTITY_CONFLICT: hardware already registered"
    ELSE "Registered"

\* The phrases import_from_smd looks for in an error message.
already_phrase(msg) == msg = "HARDWARE_IDENTITY_CONFLICT: hardware already registered"

-----------------------------------------------------------------------------
(* import_from_smd.                                                          *)

import_from_smd == <<Need("smd"), Ask("smd", "components")>>

\* The nodes SMD lists, in its order; an empty list ends the command.
QuerySmdComponents(c) ==
    /\ Calling(c)
    /\ Now(c).op = "components"
    /\ \E found \in SUBSET NodeId :
          LET order == SelectSeq(Node, LAMBDA n : n \in found)
              ethernet == [i \in 1..Len(order) |-> Step("smd", "ethernet", order[i], "stop", "stop")]
              register == [i \in 1..Len(order) |-> Registration(order[i], None, "count")]
          IN client' = [client EXCEPT ![c].rest = ethernet \o register]
    /\ UNCHANGED others

\* The address of a node; without one in SMD the node keeps the empty address.
QuerySmdEthernet(c) ==
    /\ Calling(c)
    /\ Now(c).op = "ethernet"
    /\ \E mac \in {Now(c).arg, ""} :
          client' = [client EXCEPT ![c].rest = Tail(@), ![c].mac[Now(c).arg] = mac]
    /\ UNCHANGED others

\* The address a node is registered with: the one SMD gave, or the argument of enroll.
parse_smd_enrollment_data(c, arg) ==
    IF arg.mac = None THEN client[c].mac[arg.node] ELSE arg.mac

\* What a register call leaves in the client: enroll stops at an error,
\* import_from_smd sorts the answer into its three counts.
Counted(c, count) ==
    IF Now(c).err = "count"
    THEN client' = [client EXCEPT ![c].rest = Tail(@), ![c].tally[count] = @ \cup {Now(c).arg.node}]
    ELSE After(c, IF count = "enrolled" THEN "go" ELSE "stop")

RegisterAtJournal(c, lost) ==
    LET n == Now(c).arg.node
        hw == parse_smd_enrollment_data(c, Now(c).arg)
        reply == RegisterReply(n, hw)
    IN
    /\ enrolled' = IF reply = "Registered" THEN [enrolled EXCEPT ![n] = hw] ELSE enrolled
    /\ Counted(c, IF lost THEN "failed"
                  ELSE IF reply = "Registered" THEN "enrolled"
                  ELSE IF already_phrase(reply) THEN "already" ELSE "failed")
    /\ UNCHANGED <<journal_log, effects, site>>

RegisterNode(c) ==
    /\ Calling(c)
    /\ Now(c).op = "register"
    /\ \E lost \in BOOLEAN : RegisterAtJournal(c, lost)

\* The call does not reach the journal.
RegisterFails(c) ==
    /\ Calling(c)
    /\ Now(c).op = "register"
    /\ Counted(c, "failed")
    /\ UNCHANGED others
=============================================================================
