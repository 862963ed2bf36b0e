----------------------------- MODULE BootOverlay -----------------------------
(***************************************************************************)
(* The boot configuration: the journal publishes a vCluster overlay and    *)
(* committed node entries, BootConfigService.stream_boot_config cuts one   *)
(* snapshot of them into chunks (pact-journal/src/boot_service.rs), and    *)
(* the booting agent reassembles, decodes and applies them                 *)
(* (stream_boot_config and apply_state_delta, pact-agent/src/boot/mod.rs). *)
(* Compressed bytes are the list of the chunks they were cut into; they    *)
(* decode only when every chunk of one overlay is there, in order.         *)
(***************************************************************************)
EXTENDS Integers, Sequences

CONSTANTS
    None,
    Overlay,        \* overlay payloads: a StateDelta, or bytes that are not one
    Chunks,         \* Overlay -> number of chunks its compressed form fills
    Setting,        \* sysctl keys
    MountPoint,     \* mount paths
    Value,          \* values of either
    Version,        \* versions that the callers of SetOverlay give their overlays
    MaxPublished,   \* bound on the overlays published
    MaxNodeEntries  \* bound on the committed entries of this node

\* A DeltaItem of the kernel or of the mounts category.
DeltaItem == [key : Setting \cup MountPoint, action : {"Add", "Modify", "Remove"},
              value : Value \cup {None}]

\* delta: what serde_json reads the payload as, or None.
ASSUME OverlayAssumption ==
    /\ \A o \in Overlay :
        o = [id |-> o.id, delta |-> o.delta]
        /\ o.delta # None =>
            /\ o.delta.kernel \in Seq([key : Setting, action : {"Add", "Modify", "Remove"},
                                       value : Value \cup {None}])
            /\ o.delta.mounts \in Seq([key : MountPoint, action : {"Add", "Modify", "Remove"},
                                       value : Value \cup {None}])
    /\ Chunks \in [Overlay -> Nat \ {0}]
    /\ Version \subseteq Nat
    /\ MaxPublished \in Nat /\ MaxNodeEntries \in Nat
    /\ None \notin {"complete", "ended", "failed"}

VARIABLES
    published,      \* the overlays this vCluster has had, the stored one last
    node_entries,   \* entries of the log scoped to this node
    wire,           \* ConfigChunks sent and not yet received
    boot_config,    \* what stream_boot_config has assembled
    todo,           \* DeltaItems not yet applied
    sysctl,         \* Setting -> Value or None
    mounted         \* MountPoint -> stack of what is mounted there

overlayVars == <<published, node_entries, wire, boot_config, todo, sysctl, mounted>>

\* outcome: Complete was received; the stream ended without it; the call failed.
NoConfig == [data |-> <<>>, node_delta |-> 0, base_version |-> 0, outcome |-> None]

OverlayChunk(o, v, i) == [kind |-> "BaseOverlay", of |-> o, version |-> v, index |-> i]
NodeDelta(n) == [kind |-> "NodeDelta", entries |-> n]
Complete(v) == [kind |-> "Complete", version |-> v]

\* What SetOverlay stores: the bytes, and the version the caller gave them.
BootOverlayRecord == [overlay : Overlay, version : Version]

ConfigChunk ==
    [kind : {"BaseOverlay"}, of : Overlay, version : Nat, index : Nat]
        \cup [kind : {"NodeDelta"}, entries : Nat] \cup [kind : {"Complete"}, version : Nat]

OverlayTypeOK ==
    /\ published \in Seq(BootOverlayRecord) /\ Len(published) <= MaxPublished
    /\ node_entries \in 0..MaxNodeEntries
    /\ wire \in Seq(ConfigChunk)
    /\ boot_config \in [data : Seq(ConfigChunk), node_delta : Nat, base_version : Nat,
                        outcome : {None, "complete", "ended", "failed"}]
    /\ \A i \in DOMAIN todo : todo[i] \in DeltaItem
    /\ sysctl \in [Setting -> Value \cup {None}]
    /\ mounted \in [MountPoint -> Seq(Value)]

MachineReset ==
    /\ sysctl' = [k \in Setting |-> None]
    /\ mounted' = [p \in MountPoint |-> <<>>]

OverlayInit ==
    /\ published = <<>> /\ node_entries = 0
    /\ wire = <<>> /\ boot_config = NoConfig /\ todo = <<>>
    /\ sysctl = [k \in Setting |-> None]
    /\ mounted = [p \in MountPoint |-> <<>>]

-----------------------------------------------------------------------------
\* The journal: SetOverlay, which replaces the overlay by one with any version, and
\* the commit of an entry scoped to the node.
PublishOverlay(o, v) ==
    /\ Len(published) < MaxPublished
    /\ published' = Append(published, [overlay |-> o, version |-> v])
    /\ UNCHANGED <<node_entries, wire, boot_config, todo, sysctl, mounted>>

CommitNodeEntry ==
    /\ node_entries < MaxNodeEntries
    /\ node_entries' = node_entries + 1
    /\ UNCHANGED <<published, wire, boot_config, todo, sysctl, mounted>>

build_node_delta == IF node_entries = 0 THEN <<>> ELSE <<NodeDelta(node_entries)>>

\* A client that has the version already is told so and nothing else; the agent
\* always sends None.
boot_chunks(last_known_version) ==
    LET o == published[Len(published)].overlay
        v == published[Len(published)].version
    IN  IF last_known_version # None /\ last_known_version >= v
        THEN <<Complete(v)>>
        ELSE [i \in 1..Chunks[o] |-> OverlayChunk(o, v, i)] \o build_node_delta \o <<Complete(v)>>

\* The call, answered from one read of the journal's local state.
StreamOpened ==
    /\ published # <<>>
    /\ wire' = boot_chunks(None)
    /\ boot_config' = NoConfig
    /\ UNCHANGED <<published, node_entries, todo, sysctl, mounted>>

\* There is no overlay for the vCluster, or the call fails.
StreamRefused ==
    /\ boot_config' = [NoConfig EXCEPT !.outcome = "failed"]
    /\ UNCHANGED <<published, node_entries, wire, todo, sysctl, mounted>>

-----------------------------------------------------------------------------
\* zstd::decode_all, falling back to the bytes as they came, which are not JSON.
decode(data) ==
    IF /\ data # <<>>
       /\ Len(data) = Chunks[data[1].of]
       /\ \A i \in DOMAIN data : data[i].of = data[1].of /\ data[i].index = i
    THEN data[1].of.delta ELSE None

DeltaItems(delta) == IF delta = None THEN <<>> ELSE delta.kernel \o delta.mounts

\* Variant for sensitivity checks: a chunk is cut when it is sent, not when the call is answered.
ReceiveChunk_Live ==
    /\ wire # <<>> /\ boot_config.outcome = None
    /\ wire' = Tail(wire)
    /\ LET chunk == Head(wire)
           o == published[Len(published)].overlay
           v == published[Len(published)].version
       IN  IF chunk.kind = "BaseOverlay" /\ chunk.index <= Chunks[o]
           THEN /\ boot_config' = [boot_config EXCEPT !.base_version = v,
                        !.data = Append(@, OverlayChunk(o, v, chunk.index))]
                /\ UNCHANGED todo
           ELSE /\ boot_config' = [boot_config EXCEPT
                        !.outcome = IF chunk.kind = "Complete" THEN "complete" ELSE @]
                /\ todo' = IF chunk.kind = "Complete" THEN DeltaItems(decode(boot_config.data)) ELSE todo
    /\ UNCHANGED <<published, node_entries, sysctl, mounted>>

\* One turn of the agent's loop over the stream, and what boot does after the last.
ReceiveChunk ==
    /\ wire # <<>> /\ boot_config.outcome = None
    /\ wire' = Tail(wire)
    /\ LET chunk == Head(wire)
       IN  CASE chunk.kind = "BaseOverlay" ->
                    /\ boot_config' = [boot_config EXCEPT !.data = Append(@, chunk),
                                                          !.base_version = chunk.version]
                    /\ UNCHANGED todo
             [] chunk.kind = "NodeDelta" ->
                    /\ boot_config' = [boot_config EXCEPT !.node_delta = chunk.entries]
                    /\ UNCHANGED todo
             [] chunk.kind = "Complete" ->
                    /\ boot_config' = [boot_config EXCEPT !.outcome = "complete"]
                    /\ todo' = DeltaItems(decode(boot_config.data))
    /\ UNCHANGED <<published, node_entries, sysctl, mounted>>

\* The stream ends with no error and no Complete: what came is taken as received.
StreamEnds ==
    /\ wire # <<>> /\ boot_config.outcome = None
    /\ wire' = <<>>
    /\ boot_config' = [boot_config EXCEPT !.outcome = "ended"]
    /\ todo' = DeltaItems(decode(boot_config.data))
    /\ UNCHANGED <<published, node_entries, sysctl, mounted>>

\* The stream breaks with an error: boot goes on with defaults.
StreamBroken ==
    /\ wire # <<>> /\ boot_config.outcome = None
    /\ wire' = <<>>
    /\ boot_config' = [boot_config EXCEPT !.outcome = "failed"]
    /\ UNCHANGED <<published, node_entries, todo, sysctl, mounted>>

-----------------------------------------------------------------------------
\* apply_sysctl on one entry: a removal and an entry without value are skipped.
apply_sysctl(item) ==
    /\ sysctl' = IF item.action = "Remove" \/ item.value = None THEN sysctl
                 ELSE [sysctl EXCEPT ![item.key] = item.value]
    /\ UNCHANGED mounted

\* apply_mounts on one entry: a second mount on a path covers the first, and umount
\* takes the top one away or fails when there is none.
apply_mounts(item) ==
    /\ mounted' = CASE item.action = "Remove" /\ mounted[item.key] # <<>> ->
                            [mounted EXCEPT ![item.key] = SubSeq(@, 1, Len(@) - 1)]
                    [] item.action # "Remove" /\ item.value # None ->
                            [mounted EXCEPT ![item.key] = Append(@, item.value)]
                    [] OTHER -> mounted
    /\ UNCHANGED sysctl

\* One item of apply_state_delta; one that fails is skipped.
ApplyItem ==
    /\ todo # <<>>
    /\ todo' = Tail(todo)
    /\ \/ Head(todo).key \in Setting /\ apply_sysctl(Head(todo))
       \/ Head(todo).key \in MountPoint /\ apply_mounts(Head(todo))
       \/ UNCHANGED <<sysctl, mounted>>
    /\ UNCHANGED <<published, node_entries, wire, boot_config>>

\* The agent's process is gone: what it held goes with it, what it applied stays.
StreamLost ==
    /\ wire' = <<>> /\ boot_config' = NoConfig /\ todo' = <<>>
    /\ UNCHANGED <<published, node_entries>>

-----------------------------------------------------------------------------
\* A boot configuration that is kept comes from one published overlay: whatever is
\* published while the chunks travel, with whatever version, and wherever the stream
\* ends, its data are the first chunks of that overlay, in order and all of them when
\* Complete was received, and base_version is that overlay's (stream_boot_config on both
\* ends).  A stream that ends early with no error leaves a prefix, which decodes to nothing.
StreamIsSnapshot ==
    (boot_config.outcome \in {"complete", "ended"} /\ boot_config.data # <<>>) =>
        \E p \in DOMAIN published :
            /\ boot_config.base_version = published[p].version
            /\ Len(boot_config.data) <= Chunks[published[p].overlay]
            /\ boot_config.outcome = "complete" =>
                    Len(boot_config.data) = Chunks[published[p].overlay]
            /\ \A i \in DOMAIN boot_config.data :
                    boot_config.data[i] = OverlayChunk(published[p].overlay, published[p].version, i)
=============================================================================
