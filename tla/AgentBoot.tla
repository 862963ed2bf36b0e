------------------------------ MODULE AgentBoot ------------------------------
(***************************************************************************)
(* pact-agent from main to the end of its process: the boot phases         *)
(* (pact-agent/src/main.rs, boot/mod.rs, boot/init.rs), the identity       *)
(* cascade (identity_cascade/), the hardware watchdog (boot/watchdog.rs)   *)
(* handed from the boot petter to the supervision loop, and the handler of *)
(* live configuration updates.  The process may die at any step and is     *)
(* started again; as PID 1 that means a reboot.  The clock counts half     *)
(* seconds, the idle interval of the supervision loop; timer tasks run     *)
(* when they are due.  What a turn of the supervision loop does for its    *)
(* services is module Supervisor; here it is the time it takes.            *)
(***************************************************************************)
EXTENDS BootOverlay

CONSTANTS
    AgentConfig,    \* [pid1, backend, enrollment, certs]: see ConfigRecord
    Timeout,        \* watchdog timeouts a device may report, in seconds
    TurnWait,       \* half seconds a turn of the loop may wait: for the process lock,
                    \* which stop holds for its grace period, and for restart delays
    Policy,         \* VClusterPolicy values
    ActionCapacity, \* of the action channel: 64
    MaxStarts       \* bound on the starts of the process

\* pid1: is the agent PID 1?  enrollment: is [agent.enrollment] configured?
\* certs: are cert.pem, key.pem and the CA certificate on disk?
ConfigRecord ==
    [pid1 : BOOLEAN, backend : {"Pact", "Systemd"}, enrollment : BOOLEAN, certs : BOOLEAN]

\* A one-second timeout is left out: the petter's interval is then the timeout.
ASSUME BootAssumption ==
    /\ AgentConfig \subseteq ConfigRecord
    /\ Timeout \subseteq Nat \ {0, 1}
    /\ TurnWait \subseteq Nat
    /\ None \notin Policy \cup Nat
    /\ ActionCapacity \in Nat \ {0} /\ MaxStarts \in Nat

VARIABLES
    config,         \* this node's configuration
    starts,         \* times the process was started
    phase,          \* where main is
    connected,      \* did try_connect return a client?
    cascade,        \* the providers of the identity cascade
    identity,       \* source of the workload identity, or None
    watchdog,       \* see WatchdogRecord
    petter,         \* half seconds until the boot petter pets, or None
    loop,           \* half seconds until the supervision loop pets, or None
    turn,           \* half seconds the current turn of the loop takes
    actions,        \* the action channel
    handling,       \* the PolicyChanged whose window update is done, or None
    window_policy,  \* policy the commit window's configuration came from, or None
    cached_policy   \* BootResult.cached_policy

journalSide == <<published, node_entries>>
policyVars == <<actions, handling, window_policy, cached_policy>>
timers == <<watchdog, petter, loop, turn>>

bootVars == <<overlayVars, config, starts, phase, connected, cascade, identity,
              timers, actions, handling, window_policy, cached_policy>>

Booting == {"early", "hardware", "build_cascade", "get_identity", "report", "stream",
            "streaming", "ready"}
Phase == Booting \cup {"off", "loop", "subscribe", "shell", "steady"}
Alive == phase # "off"

\* The device: closed; armed, its handle held; or unowned, armed with its handle gone.
\* since: half seconds since the last pet that reached it; missed: has one failed since?
WatchdogRecord == [state : {"closed", "armed", "unowned"}, timeout : Timeout \cup {0},
                   since : Nat, missed : BOOLEAN]

Closed == [state |-> "closed", timeout |-> 0, since |-> 0, missed |-> FALSE]
Opened(t, s) == [state |-> s, timeout |-> t, since |-> 0, missed |-> FALSE]

BootTypeOK ==
    /\ OverlayTypeOK
    /\ config \in AgentConfig /\ starts \in 0..MaxStarts /\ phase \in Phase
    /\ connected \in BOOLEAN
    /\ cascade \in Seq({"Spire", "SelfSigned", "Bootstrap"})
    /\ identity \in {None, "Spire", "SelfSigned", "Bootstrap"}
    /\ watchdog \in WatchdogRecord
    /\ petter \in Nat \cup {None} /\ loop \in Nat \cup {None} /\ turn \in Nat
    /\ Len(actions) <= ActionCapacity
    /\ {handling, window_policy, cached_policy} \subseteq Policy \cup {None}

BootInit ==
    /\ OverlayInit
    /\ config \in AgentConfig /\ starts = 0 /\ phase = "off" /\ connected = FALSE
    /\ cascade = <<>> /\ identity = None
    /\ watchdog = Closed /\ petter = None /\ loop = None /\ turn = 0
    /\ actions = <<>> /\ handling = None /\ window_policy = None /\ cached_policy = None

-----------------------------------------------------------------------------
\* The endpoints are tried in order, once the TLS files are read; failing is no error.
load_tls_config == {"off", "loaded", "unreadable"}
try_connect(tls, reachable) == tls # "unreadable" /\ reachable

\* main: the configuration is read and the journal is tried once.  A node whose init
\* has died has been rebooted: its kernel state is new.
Start ==
    /\ phase = "off" /\ starts < MaxStarts
    /\ watchdog.state = "closed"
    /\ starts' = starts + 1
    /\ phase' = "early"
    /\ \E tls \in load_tls_config, reachable \in BOOLEAN : connected' = try_connect(tls, reachable)
    /\ IF config.pid1 THEN MachineReset ELSE UNCHANGED <<sysctl, mounted>>
    /\ UNCHANGED <<journalSide, wire, boot_config, todo, config, cascade, identity, timers,
                   policyVars>>

\* The process ends.
ProcessGone ==
    /\ phase' = "off"
    /\ connected' = FALSE
    /\ StreamLost
    /\ cascade' = <<>> /\ identity' = None
    /\ petter' = None /\ loop' = None /\ turn' = 0
    /\ actions' = <<>> /\ handling' = None /\ window_policy' = None /\ cached_policy' = None
    /\ UNCHANGED <<config, starts>>

\* The last WatchdogHandle is dropped and writes the magic close, which may fail.
DropHandle ==
    \/ watchdog.state = "armed" /\ watchdog' = Closed
    \/ UNCHANGED watchdog

\* An error that main returns, from boot or from its own steps.
Exit == ProcessGone /\ DropHandle /\ UNCHANGED <<sysctl, mounted>>

\* A killed process drops nothing.
Crash == Alive /\ ProcessGone /\ UNCHANGED <<watchdog, sysctl, mounted>>

Goto(p) == phase' = p

\* Step from p to q that changes only the phase and what the action itself says.
Quiet == <<overlayVars, config, starts, connected, policyVars>>

-----------------------------------------------------------------------------
\* mount_pseudofs, setup_console and spawn_zombie_reaper, as PID 1.  A mount that fails
\* ends the boot; the other two may fail.
EarlyInit ==
    /\ phase = "early"
    /\ Goto("hardware")
    /\ UNCHANGED <<Quiet, cascade, identity, timers>>

EarlyInitFails ==
    /\ phase = "early" /\ config.pid1
    /\ ProcessGone /\ DropHandle
    /\ UNCHANGED <<sysctl, mounted>>

interval(timeout) == 2 * (IF timeout \div 2 > 1 THEN timeout \div 2 ELSE 1)

\* WatchdogHandle::open starts the countdown; spawn_boot_petter's first tick is at once.
OpenWatchdog ==
    /\ phase = "hardware" /\ config.backend = "Pact" /\ config.pid1
    /\ \E t \in Timeout : watchdog' = Opened(t, "armed")
    /\ petter' = 0
    /\ Goto("build_cascade")
    /\ UNCHANGED <<Quiet, cascade, identity, loop, turn>>

\* The device opens, which arms it, but does not tell its timeout: open fails, the
\* descriptor is closed without the magic close and boot goes on without a handle.
TimeoutUnknown ==
    /\ phase = "hardware" /\ config.backend = "Pact" /\ config.pid1
    /\ \E t \in Timeout : watchdog' = Opened(t, "unowned")
    /\ Goto("build_cascade")
    /\ UNCHANGED <<Quiet, cascade, identity, petter, loop, turn>>

\* No device, a device that does not open, not PID 1, or the systemd backend.
NoWatchdog ==
    /\ phase = "hardware"
    /\ Goto("build_cascade")
    /\ UNCHANGED <<Quiet, cascade, identity, timers>>

-----------------------------------------------------------------------------
build_cascade(spire_socket, journal_endpoint, bootstrap_cert) ==
    (IF spire_socket THEN <<"Spire">> ELSE <<>>)
    \o (IF journal_endpoint THEN <<"SelfSigned">> ELSE <<>>)
    \o (IF bootstrap_cert THEN <<"Bootstrap">> ELSE <<>>)

\* The socket of the SPIRE agent is looked for here and used in the next step.
BuildCascade ==
    /\ phase = "build_cascade"
    /\ \E spire_socket \in BOOLEAN :
        cascade' = build_cascade(spire_socket, config.enrollment, config.enrollment)
    /\ Goto("get_identity")
    /\ UNCHANGED <<Quiet, identity, timers>>

\* What the providers answer: an SVID when the workload API serves one, a cached
\* enrollment result, the files on disk.
SpireProvider(serves) == serves
SelfSignedProvider(cached_result) == cached_result # None
BootstrapProvider == config.certs

\* No code sets the cached enrollment result.
Provides(p, spire_serves) ==
    CASE p = "Spire" -> SpireProvider(spire_serves)
      [] p = "SelfSigned" -> SelfSignedProvider(None)
      [] p = "Bootstrap" -> BootstrapProvider

\* IdentityCascade::get_identity: the first provider that answers.
get_identity(spire_serves) ==
    LET Answers(p) == Provides(p, spire_serves)
        answers == SelectSeq(cascade, Answers)
    IN  IF answers = <<>> THEN None ELSE Head(answers)

\* Failing is not fatal.
GetIdentity ==
    /\ phase = "get_identity"
    /\ \E spire_serves \in BOOLEAN : identity' = get_identity(spire_serves)
    /\ cascade' = <<>>
    /\ Goto("report")
    /\ UNCHANGED <<Quiet, timers>>

-----------------------------------------------------------------------------
\* Phases 1 to 6: the subsystems are created and the capability report is made,
\* whose failure ends the boot.
Report ==
    /\ phase = "report"
    /\ Goto("stream")
    /\ UNCHANGED <<Quiet, cascade, identity, timers>>

ReportFails == phase = "report" /\ Exit

\* Phase 7.
OpenStream ==
    /\ phase = "stream" /\ connected
    /\ \/ StreamOpened /\ Goto("streaming")
       \/ StreamRefused /\ Goto("ready")
    /\ UNCHANGED <<config, starts, connected, cascade, identity, timers,
                   policyVars>>

NoStream ==
    /\ phase = "stream" /\ ~connected
    /\ Goto("ready")
    /\ UNCHANGED <<Quiet, cascade, identity, timers>>

StreamStep ==
    /\ phase = "streaming"
    /\ \/ ReceiveChunk \/ ApplyItem
       \/ StreamEnds \/ StreamBroken
    /\ UNCHANGED <<config, starts, phase, connected, cascade, identity, timers,
                   policyVars>>

StreamDone ==
    /\ phase = "streaming" /\ boot_config.outcome # None /\ todo = <<>>
    /\ Goto("ready")
    /\ UNCHANGED <<Quiet, cascade, identity, timers>>

\* The readiness file, which nothing here reads; a failed write is logged.
SignalReady ==
    /\ phase = "ready"
    /\ Goto("loop")
    /\ UNCHANGED <<Quiet, cascade, identity, timers>>

-----------------------------------------------------------------------------
\* Variant for sensitivity checks: the loop sleeps before its first pet.
StartLoop_SleepFirst ==
    /\ phase = "loop"
    /\ IF config.backend = "Pact" THEN loop' = 1 /\ petter' = None ELSE UNCHANGED <<loop, petter>>
    /\ Goto("subscribe")
    /\ UNCHANGED <<Quiet, cascade, identity, watchdog, turn>>

\* main: the supervision loop starts with a pet, then the boot petter is aborted.
\* There is no loop in systemd mode.
StartLoop ==
    /\ phase = "loop"
    /\ IF config.backend = "Pact" THEN loop' = 0 /\ petter' = None ELSE UNCHANGED <<loop, petter>>
    /\ Goto("subscribe")
    /\ UNCHANGED <<Quiet, cascade, identity, watchdog, turn>>

\* start_subscription, and the task that handles its actions.
Subscribe ==
    /\ phase = "subscribe"
    /\ Goto("shell")
    /\ UNCHANGED <<Quiet, cascade, identity, timers>>

ServeShell ==
    /\ phase = "shell"
    /\ Goto("steady")
    /\ UNCHANGED <<Quiet, cascade, identity, timers>>

BindFails == phase = "shell" /\ Exit

\* ctrl_c: stop_all, the aborts, and the drop of the watchdog handle.
Shutdown == phase = "steady" /\ Exit

-----------------------------------------------------------------------------
\* The subscription hands an update over; it waits when the channel is full.
UpdateArrives(a) ==
    /\ phase \in {"shell", "steady"} /\ connected
    /\ Len(actions) < ActionCapacity
    /\ actions' = Append(actions, a)
    /\ UNCHANGED <<overlayVars, config, starts, phase, connected, cascade, identity,
                   timers, handling, window_policy, cached_policy>>

\* handle_config_action.  Overlay and node deltas are logged, a blacklist makes a new
\* drift evaluator; a policy goes into the commit window and then into the cache,
\* each under its own lock.
HandleAction ==
    /\ actions # <<>> /\ handling = None
    /\ actions' = Tail(actions)
    /\ IF Head(actions) \in Policy
       THEN handling' = Head(actions) /\ window_policy' = Head(actions)
       ELSE UNCHANGED <<handling, window_policy>>
    /\ UNCHANGED <<overlayVars, config, starts, phase, connected, cascade, identity,
                   timers, cached_policy>>

CachePolicy ==
    /\ handling # None
    /\ cached_policy' = handling /\ handling' = None
    /\ UNCHANGED <<overlayVars, config, starts, phase, connected, cascade, identity,
                   timers, actions, window_policy>>

-----------------------------------------------------------------------------
\* WatchdogHandle::pet, when there is a handle; a failure is logged.
Pet ==
    \/ watchdog.state = "armed" /\ watchdog' = [watchdog EXCEPT !.since = 0, !.missed = FALSE]
    \/ watchdog.state = "armed" /\ watchdog' = [watchdog EXCEPT !.missed = TRUE]
    \/ watchdog.state # "armed" /\ UNCHANGED watchdog

\* A due petter pets and waits for its interval.
BootPet ==
    /\ petter = 0
    /\ petter' = interval(watchdog.timeout)
    /\ Pet
    /\ UNCHANGED <<Quiet, phase, cascade, identity, loop, turn>>

\* A turn of the supervision loop: it pets, then looks after its services, which may
\* make it wait, and sleeps for the idle interval.
LoopPet ==
    /\ loop = 0
    /\ \E wait \in TurnWait : turn' = wait + 1
    /\ loop' = turn'
    /\ Pet
    /\ UNCHANGED <<Quiet, phase, cascade, identity, petter>>

Due(t) == t = 0
After(t) == IF t = None THEN None ELSE t - 1

Tick ==
    /\ watchdog.state # "closed" /\ watchdog.since < 2 * watchdog.timeout
    /\ ~Due(petter) /\ ~Due(loop)
    /\ watchdog' = [watchdog EXCEPT !.since = @ + 1]
    /\ petter' = After(petter) /\ loop' = After(loop)
    /\ UNCHANGED <<Quiet, phase, cascade, identity, turn>>

\* The BMC resets a node whose watchdog was not petted in time.
BmcReboot ==
    /\ watchdog.state # "closed" /\ watchdog.since = 2 * watchdog.timeout
    /\ ProcessGone /\ watchdog' = Closed
    /\ UNCHANGED <<sysctl, mounted>>

BootNext ==
    \/ Start \/ Crash
    \/ EarlyInit \/ EarlyInitFails \/ OpenWatchdog \/ TimeoutUnknown \/ NoWatchdog
    \/ BuildCascade \/ GetIdentity
    \/ Report \/ ReportFails
    \/ OpenStream \/ NoStream \/ StreamStep \/ StreamDone
    \/ SignalReady \/ StartLoop \/ Subscribe \/ ServeShell \/ BindFails \/ Shutdown
    \/ \E a \in Policy \cup {"OverlayChanged", "NodeDeltaChanged", "BlacklistChanged"} :
            UpdateArrives(a)
    \/ HandleAction \/ CachePolicy
    \/ BootPet \/ LoopPet \/ Tick \/ BmcReboot
    \/ /\ (\E o \in Overlay, v \in Version : PublishOverlay(o, v)) \/ CommitNodeEntry
       /\ UNCHANGED <<config, starts, phase, connected, cascade, identity, timers,
                      policyVars>>

BootSpec == BootInit /\ [][BootNext]_bootVars

-----------------------------------------------------------------------------
\* While the agent's process lives, in every phase and across the handover from the boot
\* petter to the supervision loop, a watchdog whose handle is held and whose last pet
\* did not fail has been petted within half its timeout, or, when the current turn of the
\* loop takes longer than that, within that turn (spawn_boot_petter,
\* start_supervision_loop, the abort in main).  What delays a pet is one turn alone: the
\* handover adds nothing, nor does an earlier turn or a pet that failed before.
PetWithinHalf ==
    (Alive /\ watchdog.state = "armed" /\ ~watchdog.missed) =>
        watchdog.since <= watchdog.timeout \/ watchdog.since <= turn
=============================================================================
