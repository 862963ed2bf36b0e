------------------------------ MODULE ConfigLog ------------------------------
(***************************************************************************)
(* The configuration part of JournalState: the entry log, the per-node     *)
(* states, the policies and the overlays (pact-journal/src/raft/state.rs). *)
(* Raft applies one command at a time, so each command is one action.  A   *)
(* command that fails validation leaves the state as it is.                *)
(***************************************************************************)
EXTENDS JournalTypes, Integers, FiniteSets

CONSTANTS
    TTL_MIN_SECONDS, TTL_MAX_SECONDS,   \* ND1, ND2
    Ttl,            \* ttl_seconds values submitted
    DeltaItem,      \* kernel delta items, records [key, value]
    ConfigState,    \* node config states
    Policy,         \* VClusterPolicy values
    OverlayData,    \* overlay payloads
    Checksum,       \* values of an overlay's checksum field
    ByteLen, Hash,      \* size and DefaultHasher digest of each payload
    OVERLAY_MAX_BYTES,
    MaxEntries      \* bound on the length of the log

ASSUME TtlAssumption ==
    /\ TTL_MIN_SECONDS \in Nat /\ TTL_MAX_SECONDS \in Nat
    /\ Ttl \subseteq Nat
    /\ MaxEntries \in Nat

ASSUME OverlayAssumption ==
    /\ ByteLen \in [OverlayData -> Nat]
    /\ Hash \in [OverlayData -> Checksum]
    /\ OVERLAY_MAX_BYTES \in Nat

VARIABLES
    entries,        \* BTreeMap<EntrySeq, ConfigEntry>: a function on the sequences present
    next_sequence,  \* next EntrySeq to assign
    node_states,    \* NodeId -> ConfigState or None
    policies,       \* VClusterId -> VClusterPolicy or None
    overlays        \* VClusterId -> BootOverlay or None

configVars == <<entries, next_sequence, node_states, policies, overlays>>

\* What a client submits in AppendEntry.  The kernel items of state_delta are
\* a set; {} is a missing delta or one with no kernel item.
EntryInput ==
    [author : Identity, parent : 0..MaxEntries \cup {None}, ttl_seconds : Ttl \cup {None},
     scope : Scope, state_delta : SUBSET DeltaItem]

ConfigEntry ==
    [sequence : Nat, author : Identity, parent : Nat \cup {None},
     ttl_seconds : Ttl \cup {None}, scope : Scope, state_delta : SUBSET DeltaItem]

\* The version and the vCluster of an overlay are not looked at when it is stored.
BootOverlay == [data : OverlayData, checksum : Checksum]

ConfigLogTypeOK ==
    /\ next_sequence \in Nat
    /\ DOMAIN entries \subseteq Nat
    /\ \A s \in DOMAIN entries : entries[s] \in ConfigEntry
    /\ node_states \in [NodeId -> ConfigState \cup {None}]
    /\ policies \in [VClusterId -> Policy \cup {None}]
    /\ overlays \in [VClusterId -> BootOverlay \cup {None}]

ConfigLogInit ==
    /\ entries = [s \in {} |-> None]
    /\ next_sequence = 0
    /\ node_states = [n \in NodeId |-> None]
    /\ policies = [v \in VClusterId |-> None]
    /\ overlays = [v \in VClusterId |-> None]

-----------------------------------------------------------------------------
\* Variant for sensitivity checks: a parent may be the entry itself.
EntryValid_SelfParent(e) ==
    /\ e.author.principal # "" /\ e.author.role # ""
    /\ e.parent # None => e.parent <= next_sequence
    /\ e.ttl_seconds # None =>
           e.ttl_seconds <= TTL_MAX_SECONDS /\ ~(e.ttl_seconds \in 1..(TTL_MIN_SECONDS - 1))

\* J3, J4, ND1/ND2: the checks of AppendEntry, in the code's terms.
EntryValid(e) ==
    /\ e.author.principal # ""
    /\ e.author.role # ""
    /\ e.parent # None => e.parent < next_sequence
    /\ e.ttl_seconds # None =>
           /\ ~(e.ttl_seconds > 0 /\ e.ttl_seconds < TTL_MIN_SECONDS)
           /\ e.ttl_seconds <= TTL_MAX_SECONDS

\* Variant for sensitivity checks: the entry is numbered after the increment.
Sequenced_Late(e, seq) ==
    [sequence |-> seq + 1, author |-> e.author, parent |-> e.parent,
     ttl_seconds |-> e.ttl_seconds, scope |-> e.scope, state_delta |-> e.state_delta]

Sequenced(e, seq) ==
    [sequence |-> seq, author |-> e.author, parent |-> e.parent,
     ttl_seconds |-> e.ttl_seconds, scope |-> e.scope, state_delta |-> e.state_delta]

\* Variant for sensitivity checks: the entry is stored twice.
AppendEntry_Twice(e) ==
    /\ EntryValid(e)
    /\ entries' = [s \in DOMAIN entries \cup {next_sequence, next_sequence + 1} |->
                      IF s >= next_sequence THEN Sequenced(e, s) ELSE entries[s]]
    /\ next_sequence' = next_sequence + 2
    /\ UNCHANGED <<node_states, policies, overlays>>

\* JournalCommand::AppendEntry, accepted; the response is the old next_sequence.
AppendEntry(e) ==
    /\ EntryValid(e)
    /\ entries' = [s \in DOMAIN entries \cup {next_sequence} |->
                      IF s = next_sequence THEN Sequenced(e, next_sequence) ELSE entries[s]]
    /\ next_sequence' = next_sequence + 1
    /\ UNCHANGED <<node_states, policies, overlays>>

\* JournalCommand::AppendEntry, refused with a ValidationError.
AppendEntryRefused(e) ==
    /\ ~EntryValid(e)
    /\ UNCHANGED configVars

UpdateNodeState(n, st) ==
    /\ node_states' = [node_states EXCEPT ![n] = st]
    /\ UNCHANGED <<entries, next_sequence, policies, overlays>>

SetPolicy(v, p) ==
    /\ policies' = [policies EXCEPT ![v] = p]
    /\ UNCHANGED <<entries, next_sequence, node_states, overlays>>

compute_overlay_checksum(data) == Hash[data]

OverlayValid(o) ==
    /\ ByteLen[o.data] <= OVERLAY_MAX_BYTES
    /\ o.checksum = compute_overlay_checksum(o.data)

SetOverlay(v, o) ==
    /\ OverlayValid(o)
    /\ overlays' = [overlays EXCEPT ![v] = o]
    /\ UNCHANGED <<entries, next_sequence, node_states, policies>>

SetOverlayRefused(o) ==
    /\ ~OverlayValid(o)
    /\ UNCHANGED configVars

ConfigLogNext ==
    \/ /\ next_sequence < MaxEntries
       /\ \E e \in EntryInput : AppendEntry(e) \/ AppendEntryRefused(e)
    \/ \E n \in NodeId, st \in ConfigState : UpdateNodeState(n, st)
    \/ \E v \in VClusterId, p \in Policy : SetPolicy(v, p)
    \/ \E v \in VClusterId, o \in BootOverlay : SetOverlay(v, o)
    \/ \E o \in BootOverlay : SetOverlayRefused(o)

ConfigLogSpec == ConfigLogInit /\ [][ConfigLogNext]_configVars
-----------------------------------------------------------------------------
\* J1: sequence numbers start at 0, have no gap, and every stored entry carries
\* the number it is stored under; AppendEntry overwrites what the client sent.
EntriesContiguous ==
    /\ DOMAIN entries = 0..(next_sequence - 1)
    /\ \A s \in DOMAIN entries : entries[s].sequence = s

\* J4: a parent is an entry of the log older than its child, so following parents
\* ends at a root.  AppendEntry only compares with next_sequence: that the parent
\* exists needs the absence of gaps.
ParentsPrecede ==
    \A s \in DOMAIN entries :
        entries[s].parent # None =>
            entries[s].parent \in DOMAIN entries /\ entries[s].parent < s

\* J3, ND2: an entry that got into the log has an author and a role, and a TTL
\* that is 0 or within the bounds.
EntriesValid ==
    \A s \in DOMAIN entries :
        /\ entries[s].author.principal # "" /\ entries[s].author.role # ""
        /\ entries[s].ttl_seconds # None =>
              entries[s].ttl_seconds = 0
                \/ entries[s].ttl_seconds \in TTL_MIN_SECONDS..TTL_MAX_SECONDS

\* J2: no command changes or removes an entry once it is in the log.
EntriesImmutable ==
    [][\A s \in DOMAIN entries : s \in DOMAIN entries' /\ entries'[s] = entries[s]]_configVars

\* The log as its readers see it, oldest entry first: BTreeMap iteration.
EntryLog == [i \in 1..next_sequence |-> entries[i - 1]]

Log == INSTANCE AppendOnlyLog WITH Record <- ConfigEntry, log <- EntryLog

\* The configuration part of the journal implements an append-only log: a step
\* adds one entry at the end or leaves every entry where it is.
ImplementsLog == Log!Spec

=============================================================================
