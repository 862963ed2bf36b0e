---------------------------- MODULE ClientCalls ----------------------------
(***************************************************************************)
(* How the command line (pact-cli) and the MCP server (pact-mcp) talk to   *)
(* the journal, the agents, the lattice scheduler, the node management     *)
(* backend and the OpenCHAMI inventory (SMD).  A command is a script: the  *)
(* calls its function makes, in order, each with what the function does    *)
(* when the call fails.  A call may fail before it is carried out, and the *)
(* answer of a call that was carried out may be lost.                      *)
(***************************************************************************)
EXTENDS Naturals, Sequences, FiniteSets, SequencesExt

CONSTANTS
    Client,         \* client processes
    Node,           \* nodes of the inventory, as a sequence (SMD's order)
    Site,           \* the configurations a site may have
    None

VARIABLES
    journal_log,    \* the journal's entries, in order
    enrolled,       \* node -> hardware key, or None: the journal's enrollments
    effects,        \* what agents, scheduler and backends carried out
    site,           \* the configuration the clients run with
    client          \* Client -> the running command

clientVars == <<journal_log, enrolled, effects, site, client>>
others == <<journal_log, enrolled, effects, site>>

-----------------------------------------------------------------------------
(* Steps of a script.  err is what a failed call does to the command:       *)
(* "stop" ends it with an error, "go" goes on, "leave" ends it without an   *)
(* error, "count" is import's tally.  no is the same for a reply that says  *)
(* the operation was not done.                                              *)

Step(at, op, arg, err, no) == [at |-> at, op |-> op, arg |-> arg, err |-> err, no |-> no]

Ask(at, op) == Step(at, op, None, "stop", "stop")
Glance(at, op) == Step(at, op, None, "go", "go")
Need(what) == Step("config", what, None, "stop", "stop")

\* A ConfigEntry as a client submits it; author is where the principal comes from.
Entry(type, scope, author, ref, parent) ==
    [type |-> type, scope |-> scope, author |-> author, ref |-> ref, parent |-> parent]

\* Operations that change something where they are carried out.
WriteOps ==
    {"append", "register", "decommission", "assign", "unassign", "move",
     "decide_approval", "update_policy", "exec", "shell", "extend_window",
     "drain_node", "disable_node", "enable_node", "undrain_node", "xname_reinit", "bos_session", "power_cycle",
     "cancel", "cancel_dag", "create_backup", "restore_backup"}

\* Operations whose reply can say, without a transport error, that it was not done.
FlaggedOps ==
    {"decide_approval", "update_policy", "extend_window", "drain_node", "disable_node",
     "enable_node", "undrain_node", "cancel", "cancel_dag", "create_backup",
     "restore_backup", "output", "find_node"}

-----------------------------------------------------------------------------
(* A client process.  mac holds the addresses import read, tally import's   *)
(* three counts, as sets of nodes.                                          *)

NodeId == Range(Node)

Idle ==
    [cmd |-> None, rest |-> <<>>, out |-> "idle", code |-> None,
     channel |-> FALSE, mac |-> [n \in NodeId |-> ""],
     tally |-> [enrolled |-> {}, already |-> {}, failed |-> {}]]

ClientsInit ==
    /\ journal_log = <<>>
    /\ enrolled = [n \in NodeId |-> None]
    /\ effects = {}
    /\ site \in Site
    /\ client = [c \in Client |-> Idle]

Running(c) == client[c].out = "running" /\ client[c].rest # <<>>
Now(c) == Head(client[c].rest)

\* A call is made; the journal's clients unwrap the channel (None: panic).
Calling(c) ==
    /\ Running(c)
    /\ Now(c).at # "config"
    /\ Now(c).at = "journal" => client[c].channel \/ Now(c).op = "connect"

Ended(c, out, code) ==
    [client EXCEPT ![c].rest = <<>>, ![c].out = out, ![c].code = code]

\* The command after a step ended with the given disposition.
After(c, disposition) ==
    client' = CASE disposition = "stop" -> Ended(c, "err", 1)
                [] disposition = "login" -> Ended(c, "err", 2)
                [] disposition = "leave" -> Ended(c, "ok", 0)
                [] OTHER -> [client EXCEPT ![c].rest = Tail(@)]

-----------------------------------------------------------------------------
(* What a call may do.                                                       *)

\* The journal refuses an entry whose parent does not precede it.
Acceptable(st) ==
    st.op = "append" /\ st.arg.parent # None => st.arg.parent < Len(journal_log)

\* Carrying out the call changes the other side.
Carried(c) ==
    LET st == Now(c) IN
    /\ st.op \notin {"register", "components", "ethernet"}
    /\ Acceptable(st)
    /\ journal_log' = IF st.op = "append"
                      THEN Append(journal_log, [by |-> c, entry |-> st.arg]) ELSE journal_log
    /\ effects' = IF st.op \in WriteOps \ {"append"}
                  THEN effects \cup {[by |-> c, at |-> st.at, op |-> st.op]} ELSE effects
    /\ UNCHANGED <<enrolled, site>>

\* The call is carried out and answered.
CallDone(c) ==
    /\ Calling(c)
    /\ Carried(c)
    /\ client' = [client EXCEPT
           ![c].rest = Tail(@),
           ![c].channel = @ \/ Now(c).op = "connect"]

\* The call is not carried out: no connection, a denial, a failed Raft write.
CallFails(c) ==
    /\ Calling(c)
    /\ Now(c).op # "register"
    /\ After(c, Now(c).err)
    /\ UNCHANGED others

\* The call is carried out, but the answer is lost (timeout, reset connection).
CallLost(c) ==
    /\ Calling(c)
    /\ Now(c).op \in WriteOps
    /\ Carried(c)
    /\ After(c, Now(c).err)

\* The reply says that the operation was not done.
CallRefused(c) ==
    /\ Calling(c)
    /\ Now(c).op \in FlaggedOps
    /\ After(c, Now(c).no)
    /\ UNCHANGED others

\* Unwrapping a channel that was never opened.
UnwrapNone(c) ==
    /\ Running(c)
    /\ Now(c).at = "journal"
    /\ Now(c).op # "connect"
    /\ ~client[c].channel
    /\ client' = Ended(c, "panic", 101)
    /\ UNCHANGED others

\* The process is interrupted or killed between two calls.
Interrupt(c) ==
    /\ Running(c)
    /\ client' = Ended(c, "killed", 130)
    /\ UNCHANGED others
=============================================================================
