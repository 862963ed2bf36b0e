-------------------------------- MODULE Cli --------------------------------
(***************************************************************************)
(* main of the command line (pact-cli/src/main.rs): which commands open a  *)
(* journal channel, the dispatch of each command to its script, and what   *)
(* the process exits with.                                                 *)
(***************************************************************************)
EXTENDS CliCommands, TLC

\* The commands, in the order of main's enumerations.
ConfigCommands ==
    {"status", "diff", "log", "commit", "rollback", "exec", "shell", "cap", "watch", "apply",
     "promote", "drain", "cordon", "uncordon", "undrain", "reboot", "reimage"}

SystemCommands ==
    {"diag node", "diag fleet", "queue", "cluster-status", "audit", "accounting", "health",
     "extend", "login", "logout"}

EmergencySubcommands == {"emergency start", "emergency end"}
ApproveSubcommands == {"approve list", "approve accept", "approve deny"}
ServiceSubcommands == {"service status", "service restart", "service logs"}

NodeSubcommands ==
    {"node enroll", "node decommission", "node assign", "node unassign", "node move",
     "node list", "node inspect", "node import"}

LatticeSubcommands ==
    {"group list", "group show", "group set-policy", "jobs list", "jobs cancel", "jobs inspect",
     "services list", "services lookup", "blacklist list", "blacklist add", "blacklist remove",
     "dag list", "dag inspect", "dag cancel"}

AdminSubcommands ==
    {"budget tenant", "budget user", "backup create", "backup verify", "backup restore",
     "nodes list", "nodes inspect"}

Commands ==
    ConfigCommands \cup SystemCommands \cup EmergencySubcommands \cup ApproveSubcommands
    \cup ServiceSubcommands \cup NodeSubcommands \cup LatticeSubcommands \cup AdminSubcommands

\* Commands for which main resolves a token and opens the journal channel.
needs_journal ==
    Commands \ {"shell", "jobs list", "jobs cancel", "jobs inspect", "queue", "accounting",
                "dag list", "dag inspect", "dag cancel", "budget tenant", "budget user",
                "nodes list", "nodes inspect", "login", "logout"}

-----------------------------------------------------------------------------
(* Dispatch.  principal is what the token stands for; emergencies and       *)
(* approvals use a fixed identity instead.                                  *)

DispatchConfig(cfg, principal) ==
    ("status" :> status) @@ ("log" :> log) @@ ("diff" :> log)
    @@ ("commit" :> commit(cfg, principal))
    @@ ("rollback" :> rollback(cfg, principal, 0))
    @@ ("exec" :> <<Need("input")>> \o OnAgent(FALSE, exec_remote))
    @@ ("shell" :> OnAgent(FALSE, shell_interactive))
    @@ ("emergency start" :> emergency_start(cfg, "cli-user"))
    @@ ("emergency end" :> emergency_end(cfg, "cli-user"))

DispatchAgent(cfg, principal) ==
    ("approve list" :> approve_list)
    @@ ("approve accept" :> approve_decide) @@ ("approve deny" :> approve_decide)
    @@ [cmd \in ServiceSubcommands |-> OnAgent(TRUE, exec_remote)]
    @@ ("cap" :> OnAgent(FALSE, list_agent_commands))
    @@ ("watch" :> watch)
    @@ ("apply" :> apply(cfg, principal))
    @@ ("extend" :> OnAgent(TRUE, extend))

DispatchNode(cfg, principal) ==
    ("node enroll" :> enroll) @@ ("node decommission" :> decommission)
    @@ ("node assign" :> assign) @@ ("node unassign" :> unassign)
    @@ ("node move" :> move_node) @@ ("node list" :> list_nodes)
    @@ ("node inspect" :> inspect_node)
    @@ ("node import" :> import_from_smd)
    @@ ("promote" :> promote_node)

DispatchDelegation(cfg, principal) ==
    ("drain" :> drain_node(principal)) @@ ("cordon" :> cordon_node(principal))
    @@ ("uncordon" :> uncordon_node(principal)) @@ ("undrain" :> undrain_node(principal))
    @@ ("reboot" :> reboot_node(cfg, principal)) @@ ("reimage" :> reimage_node(cfg, principal))

DispatchGroup(cfg, principal) ==
    ("group list" :> group_list) @@ ("group show" :> group_show)
    @@ ("group set-policy" :> group_set_policy)
    @@ ("diag node" :> OnAgent(FALSE, diag_node)) @@ ("diag fleet" :> diag_fleet)
    @@ ("blacklist list" :> <<>>)
    @@ ("blacklist add" :> blacklist_add(cfg, principal))
    @@ ("blacklist remove" :> blacklist_remove(cfg, principal))

DispatchLattice(cfg, principal) ==
    ("jobs list" :> list_jobs) @@ ("jobs cancel" :> cancel_job) @@ ("jobs inspect" :> inspect_job)
    @@ ("queue" :> queue_status) @@ ("cluster-status" :> cluster_status)
    @@ ("audit" :> audit_combined(TRUE, TRUE)) @@ ("accounting" :> accounting)
    @@ ("dag list" :> list_dags) @@ ("dag inspect" :> inspect_dag) @@ ("dag cancel" :> cancel_dag)
    @@ ("budget tenant" :> tenant_budget) @@ ("budget user" :> user_budget)

DispatchBackup(cfg, principal) ==
    ("backup create" :> backup_create(principal)) @@ ("backup verify" :> backup_verify)
    @@ ("backup restore" :> <<Need("input")>> \o backup_restore(principal))
    @@ ("nodes list" :> list_lattice_nodes) @@ ("nodes inspect" :> inspect_lattice_node)
    @@ ("health" :> health_check)
    @@ ("services list" :> list_services) @@ ("services lookup" :> lookup_service)

DispatchLogin(cfg, principal) ==
    ("login" :> <<Ask("idp", "login")>>) @@ ("logout" :> <<Ask("idp", "logout")>>)

Dispatch(cfg) ==
    LET principal == resolve_identity_from_token(cfg) IN
    DispatchConfig(cfg, principal) @@ DispatchAgent(cfg, principal)
    @@ DispatchNode(cfg, principal) @@ DispatchDelegation(cfg, principal)
    @@ DispatchGroup(cfg, principal) @@ DispatchLattice(cfg, principal)
    @@ DispatchBackup(cfg, principal) @@ DispatchLogin(cfg, principal)

-----------------------------------------------------------------------------
(* The process.                                                              *)

\* A command starts: token and channel first, where the command needs them.
CliStart(c, cmd) ==
    /\ client[c].out = "idle"
    /\ client' = [client EXCEPT
           ![c].cmd = cmd,
           ![c].out = "running",
           ![c].rest = (IF cmd \in needs_journal THEN connect_authenticated ELSE <<>>)
                       \o Dispatch(site)[cmd]]
    /\ UNCHANGED others

\* What a check of the configuration or of an input answers.
Satisfied(what) ==
    CASE what = "token" -> {site.token # None}
      [] what = "lattice" -> {site.lattice_endpoint}
      [] what = "backend" -> {create_node_mgmt_backend(site) # None}
      [] what = "smd" -> {site.openchami_smd_url}
      [] what = "mcp journal" -> {site.mcp_journal}
      [] what = "mcp agent" -> {site.mcp_agent}
      [] what = "never" -> {FALSE}
      [] OTHER -> BOOLEAN

CheckConfig(c) ==
    /\ Running(c)
    /\ Now(c).at = "config"
    /\ \E ok \in Satisfied(Now(c).op) : After(c, IF ok THEN "go" ELSE Now(c).err)
    /\ UNCHANGED others

\* The script is done: the output is printed and the process exits 0.
CliDone(c) ==
    /\ client[c].out = "running"
    /\ client[c].rest = <<>>
    /\ client' = Ended(c, "ok", 0)
    /\ UNCHANGED others
=============================================================================
