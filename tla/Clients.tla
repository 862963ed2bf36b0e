------------------------------ MODULE Clients -------------------------------
(***************************************************************************)
(* The MCP server for AI agents (pact-mcp): the JSON-RPC requests it reads *)
(* from stdin one at a time, the tools it offers with the arguments their  *)
(* schemas require, and the handlers, which make the same calls as the     *)
(* command line under the identity "mcp-agent".  Then command lines and    *)
(* MCP servers working at the same time against one journal, and what      *)
(* their users may rely on.                                                *)
(***************************************************************************)
EXTENDS Cli

CONSTANTS
    CliMenu,        \* Client -> the commands the process may be started with
    ToolMenu        \* Client -> the tools and methods it may be asked for

mcp_agent == "mcp-agent"

-----------------------------------------------------------------------------
(* tools.rs: the required arguments of each tool's input schema.            *)

JournalSchemas ==
    ("pact_status" :> {}) @@ ("pact_diff" :> {}) @@ ("pact_log" :> {})
    @@ ("pact_commit" :> {"message"}) @@ ("pact_rollback" :> {"sequence"})
    @@ ("pact_exec" :> {"node", "command"})

ApplySchemas ==
    ("pact_apply" :> {"scope", "config", "message"}) @@ ("pact_cap" :> {})
    @@ ("pact_service_status" :> {}) @@ ("pact_query_fleet" :> {})
    @@ ("pact_emergency" :> {"action"})

LatticeSchemas ==
    ("pact_jobs_list" :> {}) @@ ("pact_queue_status" :> {}) @@ ("pact_cluster_health" :> {})
    @@ ("pact_system_health" :> {}) @@ ("pact_accounting" :> {})
    @@ ("pact_services_list" :> {}) @@ ("pact_services_lookup" :> {"name"})

DelegationSchemas ==
    ("pact_undrain" :> {"node"}) @@ ("pact_dag_list" :> {}) @@ ("pact_dag_inspect" :> {"dag_id"})
    @@ ("pact_budget" :> {}) @@ ("pact_backup_create" :> {"path"})
    @@ ("pact_backup_verify" :> {"path"}) @@ ("pact_nodes_list" :> {})
    @@ ("pact_node_inspect" :> {"node_id"})

all_tools == JournalSchemas @@ ApplySchemas @@ LatticeSchemas @@ DelegationSchemas

-----------------------------------------------------------------------------
(* connected.rs: the handlers.  given is the set of arguments of the call.  *)

\* A handler that finds a required argument missing answers with an error.
Given(given, names) == IF names \subseteq given THEN <<>> ELSE <<Need("never")>>

handle_status == status
handle_log == <<Ask("journal", "list_entries"), Glance("journal", "entries")>>
handle_diff == handle_log
handle_query_fleet == <<Ask("journal", "list_entries"), Glance("journal", "entries")>>

handle_commit(given, cfg) == Given(given, {"message"}) \o commit(cfg, mcp_agent)
handle_rollback(given, cfg) == Given(given, {"sequence"}) \o rollback(cfg, mcp_agent, 0)

handle_apply(given, cfg) ==
    Given(given, {"scope", "config"})
    \o <<append_entry(Entry("Commit", "scope", mcp_agent, "apply", None))>>

\* Starting an emergency is refused; every other action ends it.
handle_emergency(given, action, cfg) ==
    Given(given, {"action"})
    \o IF action = "start" THEN <<Need("never")>> ELSE emergency_end(cfg, mcp_agent)

\* A stream that breaks leaves the exit code 0: the call counts as a success.
handle_exec(given) ==
    Given(given, {"node", "command"})
    \o <<Ask("agent", "exec"), Step("agent", "output", None, "go", "stop")>>
handle_cap == list_agent_commands
handle_service_status == <<Ask("agent", "exec"), Step("agent", "output", None, "go", "stop")>>

handle_jobs_list == list_jobs
handle_queue_status == queue_status
handle_cluster_health == cluster_status
handle_system_health == health_check
handle_accounting == accounting
handle_services_list == list_services
handle_services_lookup == lookup_service
handle_undrain(given) == Given(given, {"node"}) \o undrain_node(mcp_agent)
handle_dag_list == list_dags
handle_dag_inspect(given) == Given(given, {"dag_id"}) \o inspect_dag

handle_budget(given) ==
    IF "tenant" \in given THEN tenant_budget
    ELSE IF "user" \in given THEN user_budget ELSE <<Need("never")>>

handle_backup_create(given) == Given(given, {"path"}) \o backup_create(mcp_agent)
handle_backup_verify(given) == Given(given, {"path"}) \o backup_verify
handle_nodes_list == list_lattice_nodes
handle_node_inspect(given) == Given(given, {"node_id"}) \o inspect_lattice_node

OverJournal(script) == <<Need("mcp journal")>> \o script
OverAgent(script) == <<Need("mcp agent")>> \o script

dispatch_connected(given, action, cfg) ==
    ("pact_status" :> OverJournal(handle_status)) @@ ("pact_log" :> OverJournal(handle_log))
    @@ ("pact_commit" :> OverJournal(handle_commit(given, cfg)))
    @@ ("pact_rollback" :> OverJournal(handle_rollback(given, cfg)))
    @@ ("pact_diff" :> OverJournal(handle_diff))
    @@ ("pact_emergency" :> OverJournal(handle_emergency(given, action, cfg)))
    @@ ("pact_apply" :> OverJournal(handle_apply(given, cfg)))
    @@ ("pact_query_fleet" :> OverJournal(handle_query_fleet))
    @@ ("pact_exec" :> OverAgent(handle_exec(given))) @@ ("pact_cap" :> OverAgent(handle_cap))
    @@ ("pact_service_status" :> OverAgent(handle_service_status))
    @@ ("pact_jobs_list" :> handle_jobs_list) @@ ("pact_queue_status" :> handle_queue_status)
    @@ ("pact_cluster_health" :> OverJournal(handle_cluster_health))
    @@ ("pact_system_health" :> OverJournal(handle_system_health))
    @@ ("pact_accounting" :> handle_accounting) @@ ("pact_services_list" :> handle_services_list)
    @@ ("pact_services_lookup" :> handle_services_lookup)
    @@ ("pact_undrain" :> OverJournal(handle_undrain(given)))
    @@ ("pact_dag_list" :> handle_dag_list) @@ ("pact_dag_inspect" :> handle_dag_inspect(given))
    @@ ("pact_budget" :> handle_budget(given))
    @@ ("pact_backup_create" :> OverJournal(handle_backup_create(given)))
    @@ ("pact_backup_verify" :> handle_backup_verify(given))
    @@ ("pact_nodes_list" :> handle_nodes_list)
    @@ ("pact_node_inspect" :> handle_node_inspect(given))

\* An unknown tool is answered by the stub dispatch with an error.
dispatch_tool == <<Need("never")>>

-----------------------------------------------------------------------------
(* main.rs: one request per line, answered before the next line is read.    *)

error_codes == [parse |-> "PARSE_ERROR", method |-> "METHOD_NOT_FOUND", params |-> "INVALID_PARAMS"]

\* Requests that are answered without a call.
MethodReply ==
    ("initialize" :> "result") @@ ("tools/list" :> "result")
    @@ ("notifications/initialized" :> "result")
    @@ ("not json" :> error_codes.parse) @@ ("other method" :> error_codes.method)
    @@ ("tools/call without params" :> error_codes.params)

handle_request(c, request) ==
    /\ client[c].out = "idle"
    /\ client' = [client EXCEPT ![c].cmd = request, ![c].out = "answered",
                                ![c].code = MethodReply[request]]
    /\ UNCHANGED others

\* A tools/call: the journal channel is the one main opened, if it did.
tools_call(c, tool, given, action) ==
    /\ client[c].out = "idle"
    /\ client' = [client EXCEPT
           ![c].cmd = tool, ![c].out = "running", ![c].channel = site.mcp_journal,
           ![c].rest = IF tool \in DOMAIN all_tools
                       THEN dispatch_connected(given, action, site)[tool] ELSE dispatch_tool]
    /\ UNCHANGED others

-----------------------------------------------------------------------------
(* The clients together.                                                    *)

StartCommand(c) == \E cmd \in CliMenu[c] : CliStart(c, cmd)

Request(c) ==
    \E request \in ToolMenu[c] :
       IF request \in DOMAIN MethodReply THEN handle_request(c, request)
       ELSE \E action \in (IF request = "pact_emergency" THEN {"start", "end", "other"} ELSE {None}) :
            \E given \in {{}, IF request = "pact_budget" THEN {"user"}
                              ELSE IF request \in DOMAIN all_tools THEN all_tools[request] ELSE {}} :
               tools_call(c, request, given, action)

ClientStep(c) ==
    \/ StartCommand(c) \/ Request(c)
    \/ CheckConfig(c) \/ UnwrapNone(c)
    \/ CallDone(c) \/ CallFails(c) \/ CallLost(c) \/ CallRefused(c)
    \/ QuerySmdComponents(c) \/ QuerySmdEthernet(c) \/ RegisterNode(c) \/ RegisterFails(c)
    \/ CliDone(c) \/ Interrupt(c)

ClientsNext == \E c \in Client : ClientStep(c)

ClientsSpec == ClientsInit /\ [][ClientsNext]_clientVars

-----------------------------------------------------------------------------
(* What the users of the clients rely on.                                    *)

EntriesOf(c) == SelectSeq(journal_log, LAMBDA e : e.by = c)
EffectsOf(c) == {e \in effects : e.by = c}
Succeeded(c) == client[c].out = "ok" /\ client[c].code = 0

\* Commands and tools that print that the operation failed and succeed all the same:
\* cancel_job and cancel_dag with success = false (lattice.rs), a remote command with an
\* exit code other than zero (exec_remote, which the service commands use too), an MCP
\* exec or a shell whose stream breaks (connected.rs, execute.rs), and an import some of
\* whose registrations fail (node.rs).
OnlyPrinted ==
    {"jobs cancel", "dag cancel", "exec", "pact_exec", "pact_service_status", "shell",
     "node import"} \cup ServiceSubcommands

\* The other writing commands: what must have happened when they exit 0.
PromisedOp ==
    ("drain" :> {"drain_node"}) @@ ("cordon" :> {"disable_node"}) @@ ("uncordon" :> {"enable_node"})
    @@ ("undrain" :> {"undrain_node"}) @@ ("pact_undrain" :> {"undrain_node"})
    @@ ("reboot" :> {"xname_reinit", "power_cycle"}) @@ ("reimage" :> {"bos_session", "power_cycle"})
    @@ ("backup create" :> {"create_backup"}) @@ ("pact_backup_create" :> {"create_backup"})
    @@ ("backup restore" :> {"restore_backup"}) @@ ("approve accept" :> {"decide_approval"})
    @@ ("approve deny" :> {"decide_approval"}) @@ ("group set-policy" :> {"update_policy"})
    @@ ("extend" :> {"extend_window"}) @@ ("node decommission" :> {"decommission"})
    @@ ("node assign" :> {"assign"}) @@ ("node unassign" :> {"unassign"})
    @@ ("node move" :> {"move"})

PromisedEntries ==
    [cmd \in {"commit", "rollback", "emergency start", "emergency end", "blacklist add",
              "blacklist remove", "pact_commit", "pact_rollback", "pact_apply", "pact_emergency"} |-> 1]

\* A writing command that exits 0, or a tool call that is not flagged as an error, has
\* done what it was asked for, unless it is one of OnlyPrinted, which promise nothing
\* (apply promises a prefix: PartialWorkRecorded).  Of concurrent imports at most one
\* counts a node as newly enrolled, and that node is enrolled under the address this
\* import read.
SuccessMeansDone ==
    \A c \in Client :
       /\ Succeeded(c) /\ client[c].cmd \notin OnlyPrinted =>
             /\ client[c].cmd = "node enroll" => enrolled[Node[1]] = Node[1]
             /\ client[c].cmd \in DOMAIN PromisedOp =>
                   \E e \in EffectsOf(c) : e.op \in PromisedOp[client[c].cmd]
             /\ client[c].cmd \in DOMAIN PromisedEntries =>
                   Len(EntriesOf(c)) = PromisedEntries[client[c].cmd]
       /\ \A n \in client[c].tally.enrolled :
             /\ enrolled[n] = client[c].mac[n]
             /\ \A d \in Client \ {c} : n \notin client[d].tally.enrolled

\* A backup that was created or restored left its audit entry in the journal.
BackupAudited(c) ==
    (\E e \in EffectsOf(c) : e.op \in {"create_backup", "restore_backup"}) =>
       \E i \in 1..Len(journal_log) :
          journal_log[i].by = c /\ journal_log[i].entry.ref \in {"backup_create", "backup_restore"}

\* apply leaves the entries of a prefix of the spec's vClusters, in the order of
\* the spec, each once, and the whole spec or nothing (empty spec) when it succeeds.
ApplyIsPrefix(c) ==
    LET done == [i \in 1..Len(EntriesOf(c)) |-> EntriesOf(c)[i].entry.scope] IN
    /\ IsPrefix(done, SpecVClusters)
    /\ Succeeded(c) => done \in {<<>>, SpecVClusters}

\* A command of several calls may fail, lose an answer or be interrupted between any
\* two of them: no backup is then without its audit entry, and an apply has written
\* the first vClusters of the spec and nothing else.
PartialWorkRecorded ==
    \A c \in Client : BackupAudited(c) /\ (client[c].cmd = "apply" => ApplyIsPrefix(c))
=============================================================================
