---------------------------- MODULE ConfigStream ----------------------------
(***************************************************************************)
(* From AppendEntry on a journal server to the agent that subscribed:      *)
(*   ConfigService.append_entry and the update notifier                    *)
(*       (pact-journal/src/service.rs, boot_service.rs),                   *)
(*   BootConfigService.subscribe_config_updates (boot_service.rs),         *)
(*   ConfigSubscription.run on the agent (pact-agent/src/subscription).    *)
(* Streams of different agents share nothing but the broadcast sender,     *)
(* which keeps a position per receiver, so one agent is modelled.          *)
(***************************************************************************)
EXTENDS ConfigLog, Sequences, Functions

CONSTANTS
    Server,                     \* journal servers
    Leader,                     \* the one whose client_write succeeds
    Client,                     \* concurrent append_entry calls
    Submission,                 \* the entries they submit
    AllowDrop,                  \* may tonic drop a handler whose client left?
    BroadcastCapacity,          \* ConfigUpdateNotifier::default: 1024
    StreamCapacity,             \* per-stream channel: 64
    max_reconnect_attempts      \* 100

ASSUME StreamAssumption ==
    /\ Leader \in Server
    /\ Submission \subseteq EntryInput
    /\ AllowDrop \in BOOLEAN
    /\ BroadcastCapacity \in Nat \ {0} /\ StreamCapacity \in Nat \ {0}
    /\ max_reconnect_attempts \in Nat

VARIABLES
    applied,    \* Server -> number of entries its local state has applied
    appends,    \* Client -> sequence applied and not yet notified, or None
    stream,     \* the server's side of the agent's stream
    wire,       \* sequences sent and not yet processed by the agent
    agent,      \* ConfigSubscription's SubscriptionState
    history     \* what the properties compare with; no action reads it

streamVars == <<configVars, applied, appends, stream, wire, agent, history>>

\* last_sent is last_sent_seq; queue is what the broadcast receiver holds.
NoStream == [pc |-> "off", server |-> Leader, catchup |-> <<>>, last_sent |-> 0,
             queue |-> <<>>, lagged |-> FALSE]

StreamRecord ==
    [pc : {"off", "read", "live", "closing"}, server : Server, catchup : Seq(Nat),
     last_sent : Nat, queue : Seq(Nat), lagged : BOOLEAN]

\* read_at, sub_at: length of the server's log when this stream read its catch-up
\* and when it subscribed.  sent: what this stream sent.  covered: entries some
\* catch-up ever contained.  processed: what the agent handed to its main loop.
\* missed: entries whose append_entry was dropped before notify, or overtaken on its
\* way there by the call of a later entry.
HistoryRecord ==
    [read_at : Nat, sub_at : Nat, sent : SUBSET Nat, covered : SUBSET Nat,
     processed : SUBSET Nat, missed : SUBSET Nat]

StreamTypeOK ==
    /\ ConfigLogTypeOK
    /\ applied \in [Server -> 0..next_sequence] /\ applied[Leader] = next_sequence
    /\ appends \in [Client -> Nat \cup {None}]
    /\ stream \in StreamRecord
    /\ wire \in Seq(Nat)
    /\ agent \in [last_sequence : Nat, reconnect_attempts : 0..(max_reconnect_attempts + 1),
                  state : {"disconnected", "connected", "abandoned"}]
    /\ history \in HistoryRecord

StreamInit ==
    /\ ConfigLogInit
    /\ applied = [s \in Server |-> 0]
    /\ appends = [c \in Client |-> None]
    /\ stream = NoStream
    /\ wire = <<>>
    /\ agent = [last_sequence |-> 0, reconnect_attempts |-> 0, state |-> "disconnected"]
    /\ history = [read_at |-> 0, sub_at |-> 0, sent |-> {}, covered |-> {}, processed |-> {},
                  missed |-> {}]

-----------------------------------------------------------------------------
\* append_entry, up to the return of client_write: the leader has applied it.  A
\* call that is refused, or that reaches a follower, returns and changes nothing.
AppendApply(c, e) ==
    /\ appends[c] = None
    /\ next_sequence < MaxEntries
    /\ AppendEntry(e)
    /\ applied' = [applied EXCEPT ![Leader] = next_sequence']
    /\ appends' = [appends EXCEPT ![c] = next_sequence]
    /\ UNCHANGED <<stream, wire, agent, history>>

\* tokio broadcast: a receiver more than the capacity behind loses the oldest
\* and reads Lagged next.
Received(str, seq) ==
    IF str.pc # "live" \/ str.server # Leader THEN str
    ELSE IF Len(str.queue) < BroadcastCapacity
         THEN [str EXCEPT !.queue = Append(@, seq)]
         ELSE [str EXCEPT !.lagged = TRUE]

\* The rest of append_entry: notifier.notify and the response.
AppendNotify(c) ==
    /\ appends[c] # None
    /\ stream' = Received(stream, appends[c])
    /\ appends' = [appends EXCEPT ![c] = None]
    /\ history' = [history EXCEPT !.missed =
                      @ \cup { s \in Range(appends) \ {None} : s < appends[c] }]
    /\ UNCHANGED <<configVars, applied, wire, agent>>

\* The client went away while the handler waited: entry applied, nobody notified.
AppendDropped(c) ==
    /\ AllowDrop
    /\ appends[c] # None
    /\ appends' = [appends EXCEPT ![c] = None]
    /\ history' = [history EXCEPT !.missed = @ \cup {appends[c]}]
    /\ UNCHANGED <<configVars, applied, stream, wire, agent>>

Replicate(s) ==
    /\ applied[s] < next_sequence
    /\ applied' = [applied EXCEPT ![s] = @ + 1]
    /\ UNCHANGED <<configVars, appends, stream, wire, agent, history>>

-----------------------------------------------------------------------------
\* entries.range(from..) on the server's local state
Catchup(s, from) == [i \in 1..(IF applied[s] > from THEN applied[s] - from ELSE 0) |-> from + i - 1]

SaturatingPred(n) == IF n = 0 THEN 0 ELSE n - 1

\* Variant for sensitivity checks: last_sent_seq is the server's newest entry.
SubscribeRead_FromHead(s) ==
    /\ agent.state = "disconnected" /\ stream.pc = "off"
    /\ stream' = [NoStream EXCEPT !.pc = "read", !.server = s,
                     !.last_sent = SaturatingPred(applied[s])]
    /\ history' = [history EXCEPT !.read_at = applied[s], !.sent = {},
                      !.covered = @ \cup Range(Catchup(s, agent.last_sequence))]
    /\ UNCHANGED <<configVars, applied, appends, wire, agent>>

\* subscribe_config_updates up to drop(state)
SubscribeRead(s) ==
    /\ agent.state = "disconnected" /\ stream.pc = "off"
    /\ LET from == agent.last_sequence
           catchup == Catchup(s, from)
       IN  /\ stream' = [NoStream EXCEPT !.pc = "read", !.server = s, !.catchup = catchup,
                            !.last_sent = IF catchup = <<>> THEN SaturatingPred(from)
                                          ELSE catchup[Len(catchup)]]
           /\ history' = [history EXCEPT !.read_at = applied[s], !.sent = {},
                                         !.covered = @ \cup Range(catchup)]
    /\ UNCHANGED <<configVars, applied, appends, wire, agent>>

\* notifier.subscribe(), the spawned task's catch-up phase (the channel has room
\* for it) and, on the agent, on_connected.
SubscribeLive ==
    /\ stream.pc = "read"
    /\ stream' = [stream EXCEPT !.pc = "live", !.catchup = <<>>]
    /\ wire' = stream.catchup
    /\ agent' = [agent EXCEPT !.state = "connected", !.reconnect_attempts = 0]
    /\ history' = [history EXCEPT !.sub_at = applied[stream.server],
                                  !.sent = Range(stream.catchup)]
    /\ UNCHANGED <<configVars, applied, appends>>

\* Variant for sensitivity checks: an entry the receiver holds is skipped whatever its number.
LiveSkip_Any ==
    /\ stream.pc = "live" /\ ~stream.lagged /\ stream.queue # <<>>
    /\ stream' = [stream EXCEPT !.queue = Tail(@)]
    /\ UNCHANGED <<configVars, applied, appends, wire, agent, history>>

\* Phase 2, one live_rx.recv()
LiveSkip ==
    /\ stream.pc = "live" /\ ~stream.lagged /\ stream.queue # <<>>
    /\ Head(stream.queue) <= stream.last_sent
    /\ stream' = [stream EXCEPT !.queue = Tail(@)]
    /\ UNCHANGED <<configVars, applied, appends, wire, agent, history>>

LiveSend ==
    /\ stream.pc = "live" /\ ~stream.lagged /\ stream.queue # <<>>
    /\ Head(stream.queue) > stream.last_sent
    /\ Len(wire) < StreamCapacity
    /\ wire' = Append(wire, Head(stream.queue))
    /\ stream' = [stream EXCEPT !.queue = Tail(@), !.last_sent = Head(stream.queue)]
    /\ history' = [history EXCEPT !.sent = @ \cup {Head(stream.queue)}]
    /\ UNCHANGED <<configVars, applied, appends, agent>>

\* Variant for sensitivity checks: a lagging receiver is left waiting.
LiveLagged_Hangs ==
    /\ stream.pc = "live" /\ stream.lagged
    /\ UNCHANGED streamVars

\* Lagged: the task ends; the channel still delivers what it holds.
LiveLagged ==
    /\ stream.pc = "live" /\ stream.lagged
    /\ stream' = [stream EXCEPT !.pc = "closing", !.queue = <<>>]
    /\ UNCHANGED <<configVars, applied, appends, wire, agent, history>>

-----------------------------------------------------------------------------
\* process_update: the journal only sends VclusterChange, which always decodes.
ProcessUpdate ==
    /\ agent.state = "connected" /\ wire # <<>>
    /\ wire' = Tail(wire)
    /\ agent' = [agent EXCEPT !.last_sequence = Head(wire)]
    /\ history' = [history EXCEPT !.processed = @ \cup {Head(wire)}]
    /\ UNCHANGED <<configVars, applied, appends, stream>>

\* on_disconnected
OnDisconnected(a) ==
    [a EXCEPT !.reconnect_attempts = @ + 1,
              !.state = IF a.reconnect_attempts + 1 > max_reconnect_attempts
                        THEN "abandoned" ELSE "disconnected"]

\* The subscribe call fails, before or after the server read its catch-up.
SubscribeFails ==
    /\ agent.state = "disconnected"
    /\ stream' = NoStream
    /\ agent' = OnDisconnected(agent)
    /\ UNCHANGED <<configVars, applied, appends, wire, history>>

\* The server closed the stream and the agent has read all of it.
StreamEnds ==
    /\ agent.state = "connected" /\ stream.pc = "closing" /\ wire = <<>>
    /\ stream' = NoStream
    /\ agent' = OnDisconnected(agent)
    /\ UNCHANGED <<configVars, applied, appends, wire, history>>

\* The connection breaks, or the journal server restarts.
ConnectionLost ==
    /\ agent.state = "connected"
    /\ stream' = NoStream
    /\ wire' = <<>>
    /\ agent' = OnDisconnected(agent)
    /\ UNCHANGED <<configVars, applied, appends, history>>

-----------------------------------------------------------------------------
LiveLoop == LiveSkip \/ LiveSend \/ LiveLagged

StreamNext ==
    \/ \E c \in Client, e \in Submission : AppendApply(c, e)
    \/ \E c \in Client : AppendNotify(c) \/ AppendDropped(c)
    \/ \E s \in Server : Replicate(s) \/ SubscribeRead(s)
    \/ SubscribeLive \/ LiveLoop
    \/ ProcessUpdate \/ SubscribeFails \/ StreamEnds \/ ConnectionLost

StreamSpec == StreamInit /\ [][StreamNext]_streamVars

\* Tokio keeps polling a task that can make progress and Raft replicates to every
\* server; nothing obliges a client to append or a connection to break.
StreamFairSpec ==
    /\ StreamSpec
    /\ \A c \in Client : WF_streamVars(AppendNotify(c))
    /\ \A s \in Server : WF_streamVars(Replicate(s))
    /\ WF_streamVars(SubscribeLive) /\ WF_streamVars(LiveLoop)
    /\ WF_streamVars(ProcessUpdate) /\ WF_streamVars(StreamEnds)

-----------------------------------------------------------------------------
\* Everything between the live loop and the agent is in order: what is on the wire
\* is strictly increasing, is not behind what the agent has processed, ends at
\* last_sent_seq while the stream is live, and consists of entries that exist.
WireOrdered ==
    /\ \A i, j \in 1..Len(wire) : i < j => wire[i] < wire[j]
    /\ \A i \in 1..Len(wire) : wire[i] >= agent.last_sequence /\ wire[i] \in DOMAIN entries
    /\ stream.pc = "live" /\ wire # <<>> => wire[Len(wire)] = stream.last_sent

\* The wire is in order, and an entry that a catch-up ever contained is processed
\* before the agent moves past it, however many connections broke with entries on the
\* wire: reconnecting with from_sequence = last_sequence repeats the last entry and
\* misses none of these.
CaughtUpInOrder ==
    /\ WireOrdered
    /\ \A s \in history.covered : s < agent.last_sequence => s \in history.processed

\* boot_service.rs: after the catch-up the stream stays open for live updates.  A
\* live stream on the leader sends every entry appended after it subscribed before
\* it sends a later one.  The exceptions are exactly these: entry 0, which last_sent_seq = 0
\* makes a duplicate, and an entry whose append_entry was dropped or overtaken
\* between its Raft write and notify.
NoSkipAfterSubscribe ==
    (stream.pc = "live" /\ stream.server = Leader) =>
        \A s \in DOMAIN entries \ history.missed :
            (s >= history.sub_at /\ s > 0 /\ s <= stream.last_sent) => s \in history.sent

\* An entry appended while the agent's stream to the leader is live reaches the
\* agent, or the stream ends, with the exceptions of NoSkipAfterSubscribe.
LiveEntriesArrive ==
    \A s \in 1..(MaxEntries - 1) :
        (s \in DOMAIN entries /\ stream.pc = "live" /\ stream.server = Leader
             /\ s >= history.sub_at)
            ~> (s \in history.processed \cup history.missed \/ stream.pc # "live")

-----------------------------------------------------------------------------
\* boot_service.rs: "Subscribe to live updates before sending catch-up to avoid
\* race": an entry appended between the catch-up read and the subscription is sent
\* before any later one.
NoGapWhileSubscribing ==
    stream.pc = "live" =>
        \A s \in DOMAIN entries :
            (s >= history.read_at /\ s < history.sub_at /\ s <= stream.last_sent /\ s > 0)
                => s \in history.sent
=============================================================================
