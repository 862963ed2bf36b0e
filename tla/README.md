# Formal verification of pact

pact manages the configuration of HPC nodes by promises. A replicated journal
holds every configuration change, an agent on each node applies what the journal
streams to it, and operators act through a policy check. This directory holds
TLA+ models of what changes state in the journal, the agent, the policy library,
the command line and the MCP server, TLC configurations for small instances, and
TLAPS proofs of the safety properties of the journal, the policy library and the
agent for instances of any size.

    tlc -workers 2 -config MCJournal.cfg MCJournal      # any run of the table below
    tlapm JournalProofs.tla                             # any *Proofs module

Source paths are relative to the repository; `J` is `crates/pact-journal/src`,
`A` is `crates/pact-agent/src`, `P` is `crates/pact-policy/src`, `C` is
`crates/pact-cli/src`, `M` is `crates/pact-mcp/src`. Names such as J1 or P4 are
the invariants of `specs/invariants.md`. Definitions keep the names of the code;
`PROJECT.json` maps each of them to its lines.

## The system and its parts

| part | state | operations | interacts with |
|---|---|---|---|
| replicated state, `J/raft/state.rs` | entries, node states, policies, overlays; audit log; approvals; enrollments, hardware index, assignments | the 17 commands of `J/raft/types.rs` | written by the services through Raft, read locally by all |
| config service and streams, `J/service.rs`, `J/boot_service.rs` | broadcast channel, one task per stream | `append_entry`, `subscribe_config_updates`, `stream_boot_config`, queries | agent boot and subscription |
| enrollment service, `J/enrollment_service.rs`, `J/ca.rs`, `J/rate_limiter.rs` | calls in flight, CA key, token buckets | enroll, renew, decommission, register, assign, move | certificate rotation, `pact node` |
| heartbeat monitor, `J/heartbeat.rs` | the ids it has collected | deactivate silent nodes, expire approvals | enrollments, approvals |
| policy service and RBAC, `J/policy_service.rs`, `P/rbac` | calls in flight | evaluate, update policy, decide and list approvals | approvals, policies |
| rule engine, OPA, IAM, `P/rules`, `P/iam`, `A/shell/auth.rs` | approvals of its own, key caches | evaluate, approve, reject, validate a token | the binaries use token validation only |
| agent boot and subscription, `A/main.rs`, `A/boot`, `A/subscription`, `A/identity_cascade` | phase, overlay applied, watchdog, resume point | boot phases, config handler, auto-rollback timer | streams, commit window, supervisor |
| commit window, emergency mode, `A/commit`, `A/emergency` | window, deadline, emergency flag; who declared it | open, extend, expire, commit, roll back, start, end | exec, timer, policy changes |
| exec and shell, `A/shell` | whitelist, denied commands, sessions, PTYs | exec, shell, extend window | commit window, journal |
| supervisor, `A/supervisor`, reaper in `A/boot/init.rs` | processes, declarations | start, stop, restart, status, supervision loop | watchdog, operators |
| drift and observers, `A/drift`, `A/observer` | tasks, channel, drift vector | events, blacklist changes | commit window |
| conflicts, `A/conflict`, `detect_conflicts` | pending conflicts, paused keys | register, resolve, grace periods | journal entries |
| handoff, isolation, network, `A/handoff`, `A/isolation`, `A/network` | allocations, mounts, cgroup scopes, interfaces | namespaces, mounts, scopes, `ip` commands | kernel |
| identities, `UidMap` in pact-common, `A/identity.rs`, pact-nss | uid map, two files, cache of a process | assign, write, look up | federation, kernel |
| command line and MCP server, `C`, `M` | the command under way | one script of calls per command or tool | every service, lattice, CSM, OpenCHAMI |

What makes it hard: a gRPC handler reads local state, awaits a Raft write and
acts on what it read; tonic drops a handler whose client leaves, at any await;
background loops collect ids under a lock and write later; streams break and
resume; two locks guard what one decision needs; a key cache is refreshed with
its lock given up; processes exit, fork and are killed at any time, and several
tasks want to collect them; an agent dies in any boot phase and starts again on a
node it has half configured; a command makes several calls and may stop between
any two.

What has to hold: the log is contiguous, immutable and parented (J1–J4); an
approval needs two persons and is decided once (P4, P5); hardware identifies one
node (E2) and a serial one certificate's owner; an agent processes what a catch-up
promised; a booting node gets one version of its overlay (ADR-009) and the
watchdog its pets; an automatic rollback comes neither early nor in observe mode
(D5); a revoked node stays revoked; a state-changing exec has its window (S5); a
crash leads to what the restart policy says; a mount is counted as often as it is
used (WI2, WI3, WI6); exactly the keys in conflict are paused (CR2, CR3); an id
has one owner; a writing command that reports success has done its work, with the
exceptions named below.

## Modules

| module | models | state and actions |
|---|---|---|
| `JournalTypes` | shared types of `pact-common` | identities and scopes |
| `ConfigLog` | configuration commands of `raft/state.rs` | `entries` is a function on the sequences in use; each command has an action, and a refused command an action of its own that changes nothing |
| `AppendOnlyLog` | what readers of the log may rely on | abstract specification refined by `ConfigLog` |
| `AuditLog`, `Approvals`, `Enrollments` | the other commands | one action per command |
| `Journal` | the whole replicated state | a step is one command of one part |
| `ConfigStream` | `append_entry`, the subscription stream, the agent's subscription | `AppendApply` then `AppendNotify` are two steps of a handler that may be dropped between; `SubscribeRead` and `SubscribeLive` are the two reads of a new stream; a broadcast queue that may lag, a bounded wire, disconnects and resumption |
| `EnrollmentService` | enrollment RPCs, heartbeat monitor, agent certificate rotation | a call is a record with a program counter; each Raft write is a command of `Enrollments` or a failure; a handler may be dropped at each await |
| `Rbac` | `RbacEngine::evaluate`, and the decision the policy service makes of it | operators; `PolicyEngine` puts every request to them |
| `PolicyService` | policy RPCs and the expiry loop | the policy is read, the approval written later; the expiry loop collects, then writes |
| `PolicyEngine` | `DefaultPolicyEngine` with its OPA client, and what RBAC promises | methods take `&mut self`, so each is one step; the clock runs between; `request` is any request after any other |
| `TokenKeys` | both token validators and their key caches | a validation finds the cache valid or gives the lock up and fetches; answers come in late, in any order, or not at all |
| `RateLimiter` | the enrollment endpoint's token buckets | fixed-point tokens, refills, the clean-up of stale sources; an observer starts counting at any time |
| `CommitWindow` | the two managers | operators on a window record |
| `ShellExec` | exec, extension, policy handler, timer and emergency mode around the window | each await is a step boundary; the timer looks at the emergency manager in one step and takes the window in the next |
| `ShellSessions` | the shell handler, its two tasks, the blocking read and the PTY | a handler may be dropped at each await of its set-up; `blocking` is who still shares the PTY after an abort |
| `Handoff` | namespaces, reference-counted mounts, hold timers | allocations, kernel mounts and the agent's maps are separate, so a restart forgets the maps only and `reconstruct` rebuilds them |
| `Cgroups` | the cgroup hierarchy and the scopes | destroy reads a list and kills one by one while processes fork |
| `Conflicts` | `detect_conflicts` and the conflict manager | conflicts come from comparing entries with the journal's |
| `IdentityMap` | `UidMap`, `IdentityManager`, NSS cache | the files are written one after the other; a process reads once |
| `Supervisor` | ServiceManager operations, supervision loop, zombie reaper | `stop` holds the lock over the grace period (two steps); `do_restart` gives the lock up between the delay, the spawn and the insertion |
| `BootOverlay` | the boot stream | the journal cuts a snapshot into chunks; the agent reassembles, decodes and applies |
| `AgentBoot` | `main` of the agent to its end | a phase is a step; the watchdog counts half seconds and a turn of the supervision loop may wait (`TurnWait`); the process dies anywhere and starts again, as PID 1 with a reboot |
| `NetworkSetup` | `configure` | one `ip` command per step, any of which may fail |
| `DriftPipeline` | observers, channel, evaluator | each start spawns a task with its own descriptor; a full channel blocks a task in the middle of a read |
| `ClientCalls` | how a script of calls runs | a call fails before it is carried out, is carried out, or is carried out with its answer lost; the process may be killed |
| `CliCommands`, `Cli` | every command of `pact` | a command is the list of calls its function makes and what it does when each fails |
| `Clients` | the MCP server's request loop and tools, and clients at work on one journal | required arguments, scripts, how failures are answered; two processes, the journal's entries and enrollments |

`MC…` modules give the constants of the runs their values. Three of them also put
modules that share no state side by side, so that one run checks them:
`MCPolicyParts` (`PolicyService`, `PolicyEngine` with `Rbac`, `TokenKeys`,
`RateLimiter`), `MCAgentParts` (`ShellExec` with `CommitWindow`, `ShellSessions`,
`Handoff`, `Cgroups`, `Conflicts`, `IdentityMap`) and `MCAgentBoot` (`AgentBoot`
with `BootOverlay`, `NetworkSetup`, `DriftPipeline`). A variable chosen in Init
says whose steps a behaviour takes: each part is checked by itself, and nothing is
claimed of their interaction, since there is none. Modules whose parts do share
state (`Journal`, `ConfigStream`, `EnrollmentService`, `PolicyService`,
`ShellExec`, `AgentBoot`, `Clients`) interleave them.

Definitions marked "Variant for sensitivity checks" are deliberate faults in a
definition of the code; with one of them in place of the original the property it
is listed with fails, which shows that the property depends on that code. The runs
do not use them.

### What stands in for code outside the repository

openraft and `raft_hpc_core` apply committed commands one at a time, in one
order; a write either is applied or fails without effect. Only the leader accepts
writes, other servers apply later (`Replicate`). `to_lowercase`, the overlay hash
and payload sizes are constant functions. UUIDs are fresh values. tokio's
broadcast channel keeps a bounded number of messages and reports a lag. The
identity provider publishes and withdraws keys when it likes; a compressed
overlay decodes only when all its chunks are there, in order; the kernel removes
only an empty cgroup and unmounts what it is told; lattice, CSM and OpenCHAMI
answer, fail, or answer what is lost.

## Runs

| run | instance | states | what it shows |
|---|---|---|---|
| `journal` | 3 entries, TTLs beyond both bounds, one of everything else; any two parts together | 78,411 | log contiguous and parented, and refines `AppendOnlyLog` while other commands run |
| `config_stream` | 2 servers, 2 appending clients, 3 entries, broadcast capacity 1, stream capacity 2, 2 reconnects, dropped handlers | 164,117 | the wire is ordered; what a catch-up contained is never lost; live entries are pushed and arrive, with named exceptions |
| `config_stream_gap` (violated) | 1 server, 1 client | — | an entry appended between the catch-up read and the subscription is never sent on that stream |
| `enrollment_service` | 2 nodes, 2 spellings of one MAC, 2 calls, 4 serials, symmetric; the monitor, the clock, assignments and the audit log with one node registered | 675,406 | no more certificates than accepted activations; a serial and a hardware key identify one node; a revocation holds; the capped audit log keeps the newest operations; the service refines `Enrollments` |
| `policy` | service: 2 approvals, 3 principals, 2 calls, the expiry loop; RBAC: 2 vClusters, all roles, actions, scopes, wildcard and explicit bindings; engine: 2 approvals; tokens: 2 keys, 2 overlapping validations; limiter: 1 source, 5 ticks | 186,513 | approvals need two persons, are decided once, and expire no earlier than a lifetime after the request; roles are ordered, scopes confine, emergencies are explicit; the three evaluators decide alike whatever OPA answers; an engine approval is granted once; a withdrawn key is not accepted beyond the age a cache may reach; admissions of any stretch of time are bounded |
| `agent` | exec: 3 commands, 2 window configurations, clock of 3, one administrator; sessions: 3 for 2 slots, dropped handlers; handoff: 2 allocations, 1 image, restarts, emergencies; cgroups: 1 scope, 3 processes; conflicts: 2 keys, 2 values; identities: 2 organisations, 3 subjects, ranges of 1 id | 295,128 | no early rollback, none in observe mode or of a window in emergency mode; outside observe mode answered changes have windows, due windows close; slots are counted exactly and given back; mounts are counted through restarts; a destroyed scope has no process left; exactly the pending keys are paused; ids are unique and files agree |
| `emergency_rollback` (violated) | the exec part of `agent` | — | an emergency declared between the timer's look at the emergency manager and its rollback does not stop the rollback |
| `shell_sessions_kill` (violated) | 1 session | — | a session ends and its shell runs on |
| `supervisor` | 2 services, 2 processes, 1 caller, PID 1 | 245,865 | Running entries have a handle of their own; restarts follow the declarations in force; the loop comes back to the watchdog; exits are collected |
| `supervisor_reaper` (violated) | 1 service, PID 1 | — | a crash collected by the reaper is never noticed |
| `clients` | 2 processes, one with any of the commands and tools and one with those that race with it; 2 nodes, 2 vClusters in a spec, 5 sites | 331,018 | a writing command that reports success has done its work, except those of `OnlyPrinted`; a node is newly enrolled by one import; a command stopped half-way leaves a prefix of its apply, and no backup without its audit entry |
| `agent_boot` | boot: 2 starts, 2 overlays (one does not decode), 2 published meanwhile with any of 2 versions, watchdogs of 2 and 3 seconds, loop turns of half a second and of two, 3 configurations; network: 2 interfaces, 2 calls; drift: 2 starts per observer, channel of 1, 3 changes | 1,849,276 | a streamed configuration is one overlay; the watchdog is petted within half its time or one turn of the loop; an interface reported up has what it declares; no change is lost or counted twice between kernel and evaluator |

Each module with records in its state has a `…TypeOK` that says what the state is
made of. `JournalTypeOK` is proved and checked in `journal`; the others hold in
the instances of the table and are kept out of the configurations, since the
properties listed are the ones a change of the code could break unnoticed.

### Bounds, and why they are enough

Three entries give chains of parents and a late notification that a later one
overtakes. Capacity 1 makes the broadcast lag at the second entry. Two calls
suffice for every race of a check with a write, since each handler is one check
and at most two writes; a third would repeat the role of the second. In
`enrollment_service` the two-node states keep the clock, the assignments and the
audit log as they were at the start (`MCNext`): races over serials and hardware keys
need two nodes, everything else is explored on one. Two
approvals and three principals include the requester, another person and
"system". Two slots and three sessions reach the limit with one waiting. Two
services show the order of `start_all` and a crash of one while the other is
restarted; one caller together with the loop and `status` gives three concurrent
users of the lock. In `agent` a minute is one second, `U32` is 4 so that the
product of 5 minutes wraps, and the minimum window is 2. Ranges of one id make
the first assignment the last and the second the exhausted case, and the last
range ends where the type ends (`UID_WIDTH`). Three processes
are a parent, a fork the list of `destroy_scope` has missed, and a fork of that.
A restart with both allocations, one or none alive is reached with two
allocations on one image. Two overlapping fetches are enough for a late answer to
replace a newer one; a third only lengthens the chain. Two starts of the agent
give a boot on an untouched node and one on a node left half configured; chunks
are two, so a stream can break between them and an overlay can be published
between them. A channel of one blocks an observer in the middle of a read of two
changes. A limiter of three a minute with a share of two per source reaches both
limits, and its horizon is longer than the time after which a source is stale; the
observer may begin to count after any idle time. In `agent_boot` an agent that is
PID 1, the only one with a watchdog, meets one overlay and no update, and one that
is not meets the rest (`BootStep`): neither touches the other's state. A turn of two
seconds is longer than half of either timeout.
Two client processes race as pairs of commands do; every command is tried against
the ones that write what others read (`commit`, `node import`, `pact_apply`).
`MaxEntries`, `MaxTime`, `MaxClock`, `MaxCerts`, `MaxStarts`, `MaxVersion`,
`MaxConfigures`, `MaxChanges` and the horizons bound counters; `MCTwoParts`
bounds how many parts of the journal move in one run, which loses nothing the
proofs below do not cover (`JournalImplementsParts`).

Deadlock is checked in `journal`, `supervisor` and `supervisor_reaper`. In the
others a state without a successor is an end the code has: entries, serials or
the clock of the instance are used up, the agent has given up reconnecting, every
session is over, every client has exited, or the last start has died.

### Fairness

- `ConfigStream`: weak fairness of the handler between apply and notify, of
  replication, of the stream task and of the agent's reader: tokio polls a task
  that can go on, Raft replicates. Clients need not append, nothing has to break.
- `ShellExec`: time and the timer task.
- `ShellSessions`: setup and clean-up of the tasks; neither shell nor client.
- `Supervisor`: strong fairness of the loop and of each call, because tokio's
  locks are first come, first served, so nobody is overtaken for ever.

The other modules state safety only. `EnrollmentService` and `PolicyService` have
the steps of the heartbeat monitor, but no fairness: the journal binary does not
spawn it, so that a silent node is deactivated or an approval expires is not
guaranteed and not claimed. Boot, network set-up and the clients have no
retry that would promise an end, and a mount held or a conflict pending ends when
somebody calls, which nothing in the code promises.

## Proofs

Eight modules hold the proofs. Each theorem is about the specification of a
module, with the constants left open: any number of nodes, callers, calls,
processes, entries and values, any capacity and any limit.

| module | theorems | what is proved |
|---|---|---|
| `JournalProofs` | `Contiguity`, `ParentChain`, `Immutability`, `Refinement` | J1, J4, J2, and `ConfigLog` implements `AppendOnlyLog` |
| | `TwoPersonRule`, `FirstDecisionStands`, `OneNodePerHardware`, `AuditCap`, `AuditKeepsOrder` | P4 and the finality of decisions; E2, index and records agree both ways; the cap and order of the audit log |
| | `JournalImplementsParts`, `JournalTypeCorrect`, `JournalSafety` | a behaviour of the state machine is one of each part, so all of this holds of the whole |
| `EnrollmentProofs` | `OnlyWinnersSign`, `SerialsFindTheirNode` | racing handlers: a certificate per accepted activation, a serial in one record |
| | `RevocationsHold` | a revoked node stays revoked, except one the monitor had collected |
| | `ServiceRefinement`, `ServiceHardwareUnique` | the handlers implement `Enrollments` and the audit log; so E2 holds of the service |
| `PolicyProofs` | `RoleModelHolds`, `EvaluatorsAnswerAlike` | every policy, identity, action and scope; the second for the service and both evaluators of the engine, whatever OPA answers |
| | `ServiceTwoPersons`, `ServiceDecisionsFinal`, `ExpiriesAreDue` | P4 and P5 of the policy service, with policies changing between read and write |
| | `GrantsAreSingle` | the engine's approvals |
| | `WithdrawnKeysGo` | `TokenKeys`: a withdrawn key is refused once cache and request are too old |
| `WorkloadProofs` | `ChildrenTracked`, `RestartsFollowPolicy` | the supervisor, its loop and its callers |
| | `MountsAreAccounted` | WI2, WI3, WI6 over restarts, holds and emergencies |
| `StreamProofs` | `CatchupsAreComplete`, `LiveStreamsSkipNothing` | what the agent processes and what a live stream sends |
| `BootProofs` | `PetsInTime`, `StreamsAreSnapshots`, `ReportsAreTrue` | watchdog, boot stream, network set-up |
| | `PausesFollowConflicts` | CR2 and CR3 |
| `DriftProofs` | `ChangesAreConserved` | observers, channel and evaluator |
| | `SlotsCountSessions`, `AdmissionsAreBounded` | the limit of shell sessions; the rate limiter |
| `AgentProofs` | `ChangesOpenWindows`, `RollbacksAreJustified` | S5 outside observe mode; D5 and the minimum window |
| | `IdentitiesDistinct`, `OkMeansDestroyed` | IM1 and IM2; PS3 |

### Assumptions

They are the named ASSUMEs of the modules, which TLC evaluates in the runs.
Bounds, timeouts and capacities are natural numbers, and capacities, the audit
cap and rates are not 0. Constant functions (hash, lower case, chunks of an
overlay, whitelist, organisation of a subject) have the right domain and range.
`None` is no value of the types it stands beside. Sets that are counted are
finite: the calls of `EnrollmentService`, the allocations of `Handoff`, the
services of `Supervisor`, of which there is one at least. Four say something about
values:

- a watchdog's timeout is at least 2 seconds (`BootAssumption`); with one second
  the interval would not be half of it (see below);
- the ranges of all organisation indexes fit the width of an id
  (`IdentityAssumption`), without which `assign_uid` would wrap;
- "system" and "anonymous" are names of principals (`PolicyAssumption`);
- a client appends what `append_entry` accepts as input (`StreamAssumption`).

### The inductive invariants

Few of the properties are inductive alone. What had to be added says why the code
works:

- `LogInv`: `AppendEntry` only compares a parent with `next_sequence`, so that a
  parent exists needs the absence of gaps; a new entry overwrites none because its
  number is not in use. `HardwareUnique` states both directions: from records to
  index alone, a registration could take over a key another record owns. Commands
  other than `RegisterNode` keep the hardware identity (`RewritePreserves`).
- `TokenInv`: `fetched_at` is the time of the answer, so a key in the cache
  (`KeysFresh`) may have been withdrawn while the request was under way, and no
  longer ago than one request takes.
- `ServiceInv`: a handler at its write knows which node it works on
  (`CallsBound`); a serial in use was drawn before (`SerialsDrawn`), so a drawn one
  is new; activations of a node granted and not yet signed for are at least as many
  as handlers about to sign (`GrantsCover`), which is counting finite sets.
  A revocation holds although handlers that checked the node before it are still to
  write: the commands they write look at the state again (`RevokedKept`).
- `PolicyInv`: what a call is about to write, and what is written, was asked by its
  requester a lifetime before its deadline (`AskedBefore`), no two calls hold one id
  (`CallHolds`), and what the expiry loop has collected is past its deadline
  (`ExpiringDue`) because deadlines do not move.
- `EngineInv`: what is undecided was not granted. `LimiterInv`: the calls let
  through since the counting began and the tokens that are left are covered by a
  full bucket and the refills of the time since (`Covered`); a bucket not looked at
  since then has let nothing through.
- `SupInv`: a child handle belongs to one entry or to the loop and its process id is
  not free (`HandlesOwned`); entries that a stop or a noticed crash refers to are
  there (`EntriesKept`); the loop keeps the declarations' read lock over the delay.
- `HandoffInv`: the counts of the images no emergency has touched, with hold timers
  that started no earlier than the last release.
- `StreamInv` of `StreamProofs`: the log's shape, the phases of the two ends
  (`StreamPhases`), numbers that exist (`NumbersExist`), an increasing wire that
  ends at `last_sent_seq` (`WireIncreases`), a catch-up that is the run of numbers
  from the agent's last one (`CatchupReady`), no covered number jumped over
  (`CoveredInOrder`), and appended entries sent, queued or waiting, in order
  (`LiveInOrder`).
- `WatchdogInv`: while the process lives exactly one of the two petters is due, within
  half the timeout or at the end of the loop's turn, unless a pet has failed.
  `StreamInv` of `BootProofs`: what has arrived and what is on the wire are the
  beginning and the rest of one published overlay. `NetworkInv`: names are
  distinct, so setting up one interface takes nothing from those reported before.
- `DriftInv`: a task holds a batch only while it sends it, and the next change has a
  number none has had.
- `ExecInv`: a call that has changed something is on its way to opening a window
  (`CallSound`), and an open window's deadline is past the grace of the last change
  (`WindowGraced`). `IdentityInv`: ids are offsets already given out, in disjoint
  ranges. `CgroupInv`: a process is in a scope only while its directory is there.
  `ConflictInv`: the paused keys are the pending ones. `SessionsInv`: the map is
  finite, so one session more is one slot more.

The two refinements (`Refinement`, `ServiceRefinement`) show that initial states
map to initial states and each step to a step or a stutter; what is proved of
`ConfigLog`, `Approvals`, `Enrollments` and `AuditLog` reaches `Journal` through
`JournalImplementsParts`, and `EnrollmentService` through `ServiceRefinement`.

### Only model-checked

- Liveness: `LiveEntriesArrive`, `WatchdogPetted`, `ExitCollected`, `WindowCloses`
  and the eventual part of `SlotsReturned`, since liveness under fairness is out of
  the prover's reach. The safety part of the last is `SlotsCountSessions`.
- The clients (`SuccessMeansDone`, `PartialWorkRecorded`): a command is a sequence
  of calls put together from the sequences of its helpers, and what it has done
  is a selection from the journal's log; both need induction over sequences, which
  the prover does not do.
- The four violated properties, which are refuted and not proved.

Proved and in no run of its own: `EntriesValid` (as part of `LogInv`),
`EntriesImmutable`, which the refinement checked in `journal` covers, and
`AuditBounded`, which `AuditKeepsNewest` implies.

## Disagreements between code and documentation

Four have a run: the subscription gap (`config_stream_gap`), the shell that
outlives its session (`shell_sessions_kill`), the crash the reaper hides
(`supervisor_reaper`) and the rollback in an emergency (`emergency_rollback`: the
emergency is declared after the timer has looked and before the window is told;
the two calls are those of `crates/pact-agent/tests/drift_pipeline.rs:117`, and no
code of the agent binary makes them yet); `PROJECT.json` quotes the lines. The
others were met while modelling. The models follow the code:

- Journal: a TTL of 0 is accepted (`J/raft/state.rs:192`, ND1). `detect_conflicts`
  compares with every entry that has the key, although its comment says "the most
  recent" (`:82`), and looks at kernel items only. `DeactivateNode` turns a
  Revoked node Inactive, so it can be activated again (`:353`, E7, "permanent
  removal" in `specs/ubiquitous-language.md:216`): a node the monitor collects
  before it is decommissioned is revived, which is the one exception of
  `RevocationHolds`. `revoked_serials` is never written (`:363`, E9).
  `DecideApproval` does not look at `expires_at`, so a late approval is accepted
  before the expiry loop comes (`:263`,
  `docs/decisions/ADR-013-two-person-approval-state-machine.md:30`). `last_seen`
  is read from the clock inside `apply`, so it differs between replicas (`:337`).
- Streams: entry 0 is not pushed to an agent that subscribed to an empty log
  (`J/boot_service.rs:231`); a notification overtaken by a later one is taken for
  a duplicate (`:252`); a stream on a follower gets no live entries
  (`J/service.rs:81`); a handler dropped between write and notification tells
  nobody; no server sends a policy change, which the agent handles
  (`A/subscription/mod.rs:117`).
- Heartbeat: nothing spawns the monitor (`J/heartbeat.rs:34`; P5 and
  `specs/failure-modes.md:564` rely on it), so no approval expires and no silent node
  is deactivated; an agent that restarts is refused as already active.
- Enrollment: a failed serial update leaves a certificate whose serial is not in
  the record (`J/enrollment_service.rs:207`); a renewal whose answer is lost
  cannot be retried, its serial is gone (`:546`). `enroll` takes from the global
  bucket only (`:115`), although the limiter is "per-IP" (`J/rate_limiter.rs:1`)
  and `try_acquire` is said to check both (`:61`, and
  `docs/architecture/security.md:664`), so `AdmissionBounded` is about all sources
  together; in `try_acquire_for_ip`, which only tests call, a refused source spends a
  global token. The "atomic swap" of credentials is four awaits
  (`A/cert_rotation.rs:136`). A renewal carries the fixed token `renewal-token`
  (`:123`), which the journal's validators do not accept; the model takes the
  call to carry one they do.
- Policy: only requests of a regulated role wait for an approval (`P/rbac/mod.rs`,
  as in `docs/architecture/security.md:732`), although P4
  (`specs/invariants.md:106`, `specs/architecture/enforcement-map.md:59`,
  `docs/architecture/cli-design.md:164`, ADR-013:44) asks one for every
  state-changing operation on a vCluster with the switch, and ADR-013 names
  emergencies too. RBAC defers in that case only, so the rules in OPA are never
  asked (`J/policy_service.rs:211`). The engine takes a node's id for a vCluster's
  when it looks a policy up, the service does not. A wildcard binding refuses an
  emergency a later binding lists (`P/rbac/mod.rs:199`); an approved request is
  deferred again when it is retried (`J/policy_service.rs:182`). In the engine,
  `approve` after the deadline turns an approval that is already decided into
  Expired (`P/rules/mod.rs:174`) and `reject` checks neither deadline nor rejector
  (`:217`). A key added at the provider is unknown until the cache is stale.
- Boot: a failing phase does not block the next ones and nothing is retried
  (`A/boot/mod.rs:284`; PB3 and F33 of `specs`); readiness is signalled whatever
  happened (`:324`); no services are started (`:10` says phase 4 does); the node
  delta is received and not applied; a stream that ends without `Complete` is
  accepted; live overlay and node updates are only logged; the self-signed
  provider has never an enrollment to offer; mounts are stacked when an overlay is
  applied again after a restart; a watchdog of one second, or whose timeout could not
  be read, is petted every second (`A/boot/watchdog.rs:90`, `:198`). The loop waits
  between two pets for the process lock and for restart delays, so PB2 ("at least
  every T/2") holds but for one turn (`PetWithinHalf`); as long as no services are
  started, none of these waits occurs.
- Exec and window: in observe mode exec opens windows (`A/shell/mod.rs:244`, D5), so
  `ChangesWindowed` is about the other modes;
  a command killed by the timeout opens none (`A/shell/exec.rs:152`, S5); minutes
  times 60 wraps (`A/shell/grpc_service.rs:365`); `open` after `extend` drops the
  extension; extending when no window is open answers success.
- Sessions: a handler dropped between `create_session` and its task keeps a slot
  (`A/shell/grpc_service.rs:160`), which `SlotsReturned` excepts, and, once the
  PTY is allocated, a shell nobody kills or waits for (`:205`, `:216`); the exit
  of a shell is reported only when the client sends or closes (`:258`).
- Supervisor: the entry of a service may be overwritten while its process lives
  (`A/supervisor/pact_supervisor.rs:287`, `:199`, `:511`), so a service can have
  two processes, although `start` promises to do nothing for a running one; a
  stop during the restart delay is undone; a crash that `status` sees first is
  not restarted (`:541`); a failed restart is not tried again (`:284`);
  `depends_on` does not order anything (`:335`, A6); processes are not placed in
  their cgroup scopes, nothing writes `cgroup.procs`; the agent's shutdown stops
  an empty list (`A/main.rs:191`).
- Handoff and isolation: an allocation whose tracking is skipped is not "tracked
  on next poll" (`A/handoff/mod.rs:141`), there is no poll; after an emergency
  unmount the counts of surviving users are too low; a failed limit leaves the
  scope's directory behind.
- Drift: stopping an observer takes effect at its next event, and a stop followed
  by a start leaves two tasks reporting; one read and then `clear_ready` leaves a
  backlog asleep until the next change (`A/observer/mod.rs:141`, `:273`); a new
  blacklist replaces the evaluator and so resets drift and weights
  (`A/boot/mod.rs:494`); a pattern ending in `/**` matches by string prefix, and
  one ending in `/*` panics on a path that equals its prefix
  (`A/drift/mod.rs:88`).
- Network: a failed flush keeps the old addresses; of two declarations with one
  name the second flushes the first.
- Identity: the NSS module never re-reads (`crates/pact-nss/src/lib.rs:12` says on
  modification); so a process may know a departed organisation's subject by an id
  that is another's by now, which `IdentitiesSound` excepts; `gc_org` does not
  remove members from groups (`crates/pact-common/src/types.rs:1088`).
- Command line: exit codes other than 0, 1 and 2 are documented
  (`docs/usage/troubleshooting.md:5`, `:161`) and never used; `pact shell` finds
  no channel (`C/main.rs:635`); a cancellation of a job or a DAG answered with
  `success: false` (`C/commands/lattice.rs:90`), a remote command that fails
  (`C/commands/execute.rs:452`), a shell whose stream breaks and an import some of
  whose registrations fail (`C/commands/node.rs:372`) exit 0: `SuccessMeansDone`
  excepts them by name (`OnlyPrinted`); a delegation goes on when its audit entry
  fails, although "each delegation is audit-logged in the journal before attempting
  the external call" (`C/commands/delegate.rs:5`); an import looks for "already
  enrolled" (`C/commands/node.rs:362`), which the journal does not say
  (`J/raft/state.rs:293`), so it counts enrolled nodes as failures.
- MCP: the stubs the server "falls back to" (`M/main.rs:4`) cannot be reached; an
  emergency with any action but "start" ends it (`M/connected.rs:346`); an exec
  whose stream breaks is a success (`:404`, excepted likewise); `pact_budget`
  needs arguments its schema does not require; notifications are answered.

## Not modelled

Left out for good, because they change no state or are a library's or a kernel's
work: key generation and signing (`J/ca.rs`), authentication headers, telemetry
and metrics, diagnostics and log reading, the capability report (parsers of
hardware inventories), the systemd backend (calls `systemctl`, keeps nothing),
federation's bookkeeping (three fields nothing reads), process start and cluster
bootstrap through openraft, default values and parsing of configuration files,
argument parsing and printing of the clients, protocol buffers, test support.

Within modelled parts: replicas that diverge because `apply` reads the clock;
token claims other than the expiry; the schedule of certificate rotation; output
limits and argument validation of exec; terminal data; restart counters and
health probes of services; the weighted magnitude of a drift vector, and
`matches_glob`, in whose place a blacklist is the set of paths it matches; the
`f64` of the limiter, in whose place tokens are fixed-point.
