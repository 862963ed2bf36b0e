---------------------------- MODULE ShellSessions ----------------------------
(***************************************************************************)
(* Interactive sessions of the agent: the shell handler of                 *)
(* pact-agent/src/shell/grpc_service.rs with the SessionManager and the    *)
(* PTY of shell/session.rs.  A session has a handler that sets it up, then *)
(* a task that copies the client's input to the PTY and cleans up, and a   *)
(* reader task that copies the PTY's output through a blocking read on a   *)
(* thread of its own.  The three share the PTY through an Arc.             *)
(* Data, terminal sizes and the order of output bytes are left out.        *)
(***************************************************************************)
EXTENDS Integers, FiniteSets

CONSTANTS
    Session,            \* session ids, each used once: UUIDs
    max_sessions,       \* 10
    AllowDrop           \* may tonic drop a handler whose client left?

ASSUME SessionsAssumption == max_sessions \in Nat /\ AllowDrop \in BOOLEAN

VARIABLES
    sessions,   \* SessionManager: ids in the map -> "Initializing" or "Active"
    task,       \* Session -> where the handler, then the spawned task, is
    reader,     \* Session -> where the reader task is
    blocking,   \* sessions with a blocking read in progress
    child,      \* Session -> the rbash process
    input,      \* Session -> the client's side of the stream
    output      \* Session -> what the client has been told

sessionVars == <<sessions, task, reader, blocking, child, input, output>>

SessionsTypeOK ==
    /\ \E S \in SUBSET Session : sessions \in [S -> {"Initializing", "Active"}]
    /\ task \in [Session -> {"new", "setup", "allocated", "activated", "streaming", "cleanup",
                             "unwrap", "report", "remove", "done", "dropped"}]
    /\ reader \in [Session -> {"none", "read", "send", "ended"}]
    /\ blocking \subseteq Session
    /\ child \in [Session -> {"none", "running", "exited", "reaped"}]
    /\ input \in [Session -> {"open", "closed"}]
    /\ output \in [Session -> {"none", "session_id", "exit_code"}]

SessionsInit ==
    /\ sessions = [s \in {} |-> "Active"]
    /\ task = [s \in Session |-> "new"]
    /\ reader = [s \in Session |-> "none"]
    /\ blocking = {}
    /\ child = [s \in Session |-> "none"]
    /\ input = [s \in Session |-> "open"]
    /\ output = [s \in Session |-> "none"]

TaskAt(s, pc) == task' = [task EXCEPT ![s] = pc]

-----------------------------------------------------------------------------
create_session(s) ==
    /\ Cardinality(DOMAIN sessions) < max_sessions
    /\ sessions' = [t \in DOMAIN sessions \cup {s} |->
                       IF t = s THEN "Initializing" ELSE sessions[t]]

remove(s) == sessions' = [t \in DOMAIN sessions \ {s} |-> sessions[t]]

\* shell: authenticated with the ops role, ShellOpen received, session created.
ShellOpen(s) ==
    /\ task[s] = "new"
    /\ create_session(s)
    /\ TaskAt(s, "setup")
    /\ UNCHANGED <<reader, blocking, child, input, output>>

\* Wrong role, no ShellOpen, or RESOURCE_EXHAUSTED.
ShellRefused(s) ==
    /\ task[s] = "new"
    /\ TaskAt(s, "done")
    /\ UNCHANGED <<sessions, reader, blocking, child, input, output>>

\* allocate_pty fails: the session is removed again.
PtyFails(s) ==
    /\ task[s] = "setup"
    /\ remove(s)
    /\ TaskAt(s, "done")
    /\ UNCHANGED <<reader, blocking, child, input, output>>

\* allocate_pty has started the shell; the handler waits for the sessions lock ...
PtyAllocated(s) ==
    /\ task[s] = "setup"
    /\ child' = [child EXCEPT ![s] = "running"]
    /\ TaskAt(s, "allocated")
    /\ UNCHANGED <<sessions, reader, blocking, input, output>>

\* ... to activate the session, and sends the session id ...
SessionActivated(s) ==
    /\ task[s] = "allocated"
    /\ sessions' = [sessions EXCEPT ![s] = "Active"]
    /\ TaskAt(s, "activated")
    /\ UNCHANGED <<reader, blocking, child, input, output>>

\* ... which the client gets with the response, once the two tasks are spawned.
TasksSpawned(s) ==
    /\ task[s] = "activated"
    /\ output' = [output EXCEPT ![s] = "session_id"]
    /\ reader' = [reader EXCEPT ![s] = "read"]
    /\ TaskAt(s, "streaming")
    /\ UNCHANGED <<sessions, blocking, child, input>>

\* The client goes away while the handler waits: for the sessions lock, before or after
\* the PTY is allocated, or to send.  The handle goes too, which kills no process.
HandlerDropped(s) ==
    /\ AllowDrop
    /\ task[s] \in {"setup", "allocated", "activated"}
    /\ TaskAt(s, "dropped")
    /\ UNCHANGED <<sessions, reader, blocking, child, input, output>>

-----------------------------------------------------------------------------
\* The reader task starts a blocking read, which holds its own reference.
ReadStarts(s) ==
    /\ reader[s] = "read" /\ s \notin blocking
    /\ blocking' = blocking \cup {s}
    /\ UNCHANGED <<sessions, task, reader, child, input, output>>

\* The shell wrote something; if the reader is still there, it goes to the client.
ReadReturns(s) ==
    /\ s \in blocking /\ child[s] = "running"
    /\ blocking' = blocking \ {s}
    /\ reader' = [reader EXCEPT ![s] = IF @ = "read" THEN "send" ELSE @]
    /\ UNCHANGED <<sessions, task, child, input, output>>

\* No process holds the slave side any more: the read fails.
ReadFails(s) ==
    /\ s \in blocking /\ child[s] # "running"
    /\ blocking' = blocking \ {s}
    /\ reader' = [reader EXCEPT ![s] = "ended"]
    /\ UNCHANGED <<sessions, task, child, input, output>>

\* The output channel takes the data, or is closed because the client left.
ReaderSends(s) ==
    /\ reader[s] = "send"
    /\ reader' = [reader EXCEPT ![s] = "read"]
    /\ UNCHANGED <<sessions, task, blocking, child, input, output>>

ReaderStops(s) ==
    /\ reader[s] = "send" /\ input[s] = "closed"
    /\ reader' = [reader EXCEPT ![s] = "ended"]
    /\ UNCHANGED <<sessions, task, blocking, child, input, output>>

\* The shell exits by itself.
ShellExits(s) ==
    /\ child[s] = "running"
    /\ child' = [child EXCEPT ![s] = "exited"]
    /\ UNCHANGED <<sessions, task, reader, blocking, input, output>>

\* The client closes the session, ends its stream or disconnects.
ClientCloses(s) ==
    /\ input[s] = "open" /\ task[s] = "streaming"
    /\ input' = [input EXCEPT ![s] = "closed"]
    /\ UNCHANGED <<sessions, task, reader, blocking, child, output>>

\* The writer loop ends with the client's stream ...
WriterEnds(s) ==
    /\ task[s] = "streaming" /\ input[s] = "closed"
    /\ TaskAt(s, "cleanup")
    /\ UNCHANGED <<sessions, reader, blocking, child, input, output>>

\* ... or when input arrives after the shell has gone and the write fails.
WriteFails(s) ==
    /\ task[s] = "streaming" /\ child[s] # "running"
    /\ TaskAt(s, "cleanup")
    /\ UNCHANGED <<sessions, reader, blocking, child, input, output>>

\* reader_handle.abort() and await: the task goes, a blocking read does not.
ReaderAborted(s) ==
    /\ task[s] = "cleanup"
    /\ reader' = [reader EXCEPT ![s] = "ended"]
    /\ TaskAt(s, "unwrap")
    /\ UNCHANGED <<sessions, blocking, child, input, output>>

\* Arc::try_unwrap succeeds: close() kills the shell and waits for it.
PtyClosed(s) ==
    /\ task[s] = "unwrap" /\ s \notin blocking
    /\ child' = [child EXCEPT ![s] = "reaped"]
    /\ TaskAt(s, "report")
    /\ UNCHANGED <<sessions, reader, blocking, input, output>>

\* Variant for sensitivity checks: the task waits for the other reference to go.
PtyShared_Waits(s) ==
    /\ task[s] = "unwrap" /\ s \in blocking
    /\ UNCHANGED sessionVars

\* Another reference exists: the PTY is left to it.
PtyShared(s) ==
    /\ task[s] = "unwrap" /\ s \in blocking
    /\ TaskAt(s, "report")
    /\ UNCHANGED <<sessions, reader, blocking, child, input, output>>

ExitReported(s) ==
    /\ task[s] = "report"
    /\ output' = [output EXCEPT ![s] = "exit_code"]
    /\ TaskAt(s, "remove")
    /\ UNCHANGED <<sessions, reader, blocking, child, input>>

\* close, finalize and remove under one lock, and the session's bin directory.
SessionRemoved(s) ==
    /\ task[s] = "remove"
    /\ remove(s)
    /\ TaskAt(s, "done")
    /\ UNCHANGED <<reader, blocking, child, input, output>>

-----------------------------------------------------------------------------
Cleanup(s) ==
    \/ WriterEnds(s) \/ ReaderAborted(s) \/ PtyClosed(s) \/ PtyShared(s)
    \/ ExitReported(s) \/ SessionRemoved(s)

SetupStep(s) ==
    \/ PtyFails(s) \/ PtyAllocated(s) \/ SessionActivated(s) \/ TasksSpawned(s)
    \/ HandlerDropped(s)

SessionsNext ==
    \E s \in Session :
        \/ ShellOpen(s) \/ ShellRefused(s) \/ SetupStep(s) \/ WriteFails(s) \/ Cleanup(s)
        \/ ReadStarts(s) \/ ReadReturns(s) \/ ReadFails(s) \/ ReaderSends(s) \/ ReaderStops(s)
        \/ ShellExits(s) \/ ClientCloses(s)

SessionsSpec == SessionsInit /\ [][SessionsNext]_sessionVars

-----------------------------------------------------------------------------
\* The map holds exactly the sessions that are being set up, used or cleaned up,
\* never more than max_sessions, so the limit counts real sessions; a handler
\* dropped during the set-up is the one that leaves its entry behind.
SlotsAccounted ==
    /\ DOMAIN sessions = { s \in Session : task[s] \notin {"new", "done"} }
    /\ Cardinality(DOMAIN sessions) <= max_sessions

\* The limit counts real sessions, and a session whose client has closed gives its slot
\* back, whatever the shell and the blocking read do; the client has been sent the exit
\* code by then.  (A client closes its side for good, so "again and again" is "from
\* some time on".)
SlotsReturned ==
    /\ []SlotsAccounted
    /\ \A s \in Session :
          []<>(input[s] = "closed" => s \notin DOMAIN sessions /\ output[s] = "exit_code")

-----------------------------------------------------------------------------
\* grpc_service.rs: "PtyHandle::close() kills the child": once a session has ended,
\* its shell has.
ShellKilledOnClose ==
    \A s \in Session : task[s] = "done" => child[s] # "running"
=============================================================================
