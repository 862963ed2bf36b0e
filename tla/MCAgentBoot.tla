---------------------------- MODULE MCAgentBoot -----------------------------
(***************************************************************************)
(* What starts a node, side by side: the boot of the agent, and what is    *)
(* there for it but not called yet, the set-up of the network interfaces   *)
(* and the observers that feed the drift evaluator.  A behaviour takes the *)
(* steps of one of them.  An agent that is PID 1, and so has the watchdog, *)
(* meets one published overlay and no update; one that is not meets        *)
(* everything but the watchdog.                                            *)
(***************************************************************************)
EXTENDS AgentBoot, NetworkSetup, DriftPipeline

VARIABLE startPart

startVars == <<bootVars, networkVars, driftVars, startPart>>

StartInit ==
    /\ startPart \in {"boot", "network", "drift"}
    /\ BootInit /\ NetworkInit /\ DriftInit
    /\ startPart # "network" => \A i \in Interface : links[i].addrs = {}
    /\ startPart # "boot" => config = CHOOSE c \in AgentConfig : TRUE

\* Each part's steps leave the other alone.
BootStep ==
    /\ startPart = "boot" /\ BootNext
    /\ config.pid1 => Len(published') <= 1 /\ node_entries' = 0 /\ actions' = <<>>
    /\ UNCHANGED <<networkVars, driftVars, startPart>>
NetworkStep == startPart = "network" /\ NetworkNext /\ UNCHANGED <<bootVars, driftVars, startPart>>
DriftStep == startPart = "drift" /\ DriftNext /\ UNCHANGED <<bootVars, networkVars, startPart>>

StartNext == BootStep \/ NetworkStep \/ DriftStep

StartSpec == StartInit /\ [][StartNext]_startVars

-----------------------------------------------------------------------------
(* The constants of the run.                                               *)
(* An overlay of two chunks that sets, changes and removes, and one of a   *)
(* single chunk that is not a StateDelta.                                   *)
CONSTANTS k1, p1, v1, v2

Item(k, a, v) == [key |-> k, action |-> a, value |-> v]

MCDelta == [id |-> 1, delta |-> [kernel |-> <<Item(k1, "Remove", None), Item(k1, "Modify", v2)>>,
                                 mounts |-> <<Item(p1, "Add", v1), Item(p1, "Remove", None)>>]]
MCOpaque == [id |-> 2, delta |-> None]
MCOverlay == {MCDelta, MCOpaque}
MCChunks == [o \in MCOverlay |-> IF o = MCOpaque THEN 1 ELSE 2]

MCConfigs == {[pid1 |-> TRUE, backend |-> "Pact", enrollment |-> TRUE, certs |-> TRUE],
              [pid1 |-> FALSE, backend |-> "Pact", enrollment |-> TRUE, certs |-> FALSE],
              [pid1 |-> FALSE, backend |-> "Systemd", enrollment |-> FALSE, certs |-> FALSE]}

\* With everything declared, with an MTU only, and a second interface.
MCInterfaceConfig == {[name |-> "e0", address |-> TRUE, gateway |-> TRUE, mtu |-> TRUE],
                      [name |-> "e0", address |-> FALSE, gateway |-> FALSE, mtu |-> TRUE],
                      [name |-> "e1", address |-> TRUE, gateway |-> TRUE, mtu |-> FALSE]}

\* A buffer of inotify events, and one netlink datagram.
MCReadLimit == [file |-> 2, network |-> 1]
=============================================================================
