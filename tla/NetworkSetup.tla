---------------------------- MODULE NetworkSetup ----------------------------
(***************************************************************************)
(* LinuxNetworkManager::configure (pact-agent/src/network/linux.rs): the   *)
(* declared interfaces are set up one after the other with ip commands,    *)
(* any of which may fail, and what became of each is reported.  Addresses, *)
(* gateways and MTUs are declared or not; an interface declares its own.   *)
(***************************************************************************)
EXTENDS Integers, Sequences

CONSTANTS
    Interface,
    InterfaceConfig,    \* possible declarations: [name, address, gateway, mtu], the last three Boolean
    MaxInterfaces,      \* bound on the declarations of a call
    MaxConfigures       \* bound on the calls

ASSUME NetworkAssumption ==
    /\ InterfaceConfig \subseteq
          [name : Interface, address : BOOLEAN, gateway : BOOLEAN, mtu : BOOLEAN]
    /\ MaxInterfaces \in Nat /\ MaxConfigures \in Nat
    /\ "none" \notin Interface

VARIABLES
    interfaces,     \* declarations of the call that runs
    at,             \* [idx, cmd]: the declaration and the ip command next
    states,         \* what has been reported: [name, up, address, mtu]
    links,          \* Interface -> [addrs, up, mtu]: the kernel's side
    default_route,  \* the interface of the gateway last set, or "none"
    configures      \* calls so far

networkVars == <<interfaces, at, states, links, default_route, configures>>

NoCall == [idx |-> 0, cmd |-> "idle"]

\* An address is written as the interface that declares it, or "old".
NetworkTypeOK ==
    /\ interfaces \in Seq(InterfaceConfig)
    /\ at \in [idx : Nat, cmd : {"idle", "mtu", "flush", "addr", "up", "route"}]
    /\ states \in Seq([name : Interface, up : BOOLEAN, address : BOOLEAN, mtu : BOOLEAN])
    /\ links \in [Interface -> [addrs : SUBSET (Interface \cup {"old"}), up : BOOLEAN, mtu : BOOLEAN]]
    /\ default_route \in Interface \cup {"none"}
    /\ configures \in 0..MaxConfigures

\* An interface may have an address from before, of another system or another overlay.
NetworkInit ==
    /\ interfaces = <<>> /\ at = NoCall /\ states = <<>>
    /\ links \in [Interface -> [addrs : {{}, {"old"}}, up : {FALSE}, mtu : {FALSE}]]
    /\ default_route = "none" /\ configures = 0

Iface == interfaces[at.idx]
StateOf(up, address, mtu) == [name |-> Iface.name, up |-> up, address |-> address, mtu |-> mtu]

\* Names are distinct: a second declaration of a name would flush the first's address.
Declarations ==
    {d \in UNION {[1..n -> InterfaceConfig] : n \in 0..MaxInterfaces} :
        \A i, j \in DOMAIN d : d[i].name = d[j].name => i = j}

configure(d) ==
    /\ at = NoCall /\ configures < MaxConfigures
    /\ interfaces' = d /\ states' = <<>> /\ configures' = configures + 1
    /\ at' = IF d = <<>> THEN NoCall ELSE [idx |-> 1, cmd |-> "mtu"]
    /\ UNCHANGED <<links, default_route>>

\* The declaration is done with, and reported.
Reported(report) ==
    /\ states' = Append(states, report)
    /\ at' = IF at.idx = Len(interfaces) THEN NoCall ELSE [idx |-> at.idx + 1, cmd |-> "mtu"]

Then(cmd) == at' = [at EXCEPT !.cmd = cmd] /\ UNCHANGED states

-----------------------------------------------------------------------------
set_mtu(ok) ==
    /\ at.cmd = "mtu"
    /\ IF ~Iface.mtu THEN Then("flush") /\ UNCHANGED links
       ELSE IF ok THEN Then("flush") /\ links' = [links EXCEPT ![Iface.name].mtu = TRUE]
       ELSE Reported(StateOf(FALSE, FALSE, FALSE)) /\ UNCHANGED links
    /\ UNCHANGED <<interfaces, default_route, configures>>

\* A flush that fails is only logged.
flush(ok) ==
    /\ at.cmd = "flush"
    /\ Then(IF Iface.address THEN "addr" ELSE "up")
    /\ links' = IF Iface.address /\ ok THEN [links EXCEPT ![Iface.name].addrs = {}] ELSE links
    /\ UNCHANGED <<interfaces, default_route, configures>>

\* Variant for sensitivity checks: the failure is only logged.
add_address_Logged(ok) ==
    /\ at.cmd = "addr"
    /\ Then("up")
    /\ links' = IF ok THEN [links EXCEPT ![Iface.name].addrs = @ \cup {Iface.name}] ELSE links
    /\ UNCHANGED <<interfaces, default_route, configures>>

\* ip refuses an address the interface has.
add_address(ok) ==
    /\ at.cmd = "addr"
    /\ ok => Iface.name \notin links[Iface.name].addrs
    /\ IF ok THEN Then("up") /\ links' = [links EXCEPT ![Iface.name].addrs = @ \cup {Iface.name}]
       ELSE Reported(StateOf(FALSE, FALSE, Iface.mtu)) /\ UNCHANGED links
    /\ UNCHANGED <<interfaces, default_route, configures>>

link_up(ok) ==
    /\ at.cmd = "up"
    /\ IF ok THEN Then("route") /\ links' = [links EXCEPT ![Iface.name].up = TRUE]
       ELSE Reported(StateOf(FALSE, Iface.address, Iface.mtu)) /\ UNCHANGED links
    /\ UNCHANGED <<interfaces, default_route, configures>>

\* A route that fails is not fatal.
add_default_route(ok) ==
    /\ at.cmd = "route"
    /\ default_route' = IF Iface.gateway /\ ok THEN Iface.name ELSE default_route
    /\ Reported(StateOf(TRUE, Iface.address, Iface.mtu))
    /\ UNCHANGED <<interfaces, links, configures>>

\* The agent is killed; the kernel keeps what was set.
AgentKilled ==
    /\ at # NoCall
    /\ at' = NoCall /\ interfaces' = <<>> /\ states' = <<>>
    /\ UNCHANGED <<links, default_route, configures>>

NetworkNext ==
    \/ \E d \in Declarations : configure(d)
    \/ \E ok \in BOOLEAN : set_mtu(ok) \/ flush(ok) \/ add_address(ok) \/ link_up(ok) \/ add_default_route(ok)
    \/ AgentKilled

NetworkSpec == NetworkInit /\ [][NetworkNext]_networkVars

-----------------------------------------------------------------------------
\* A call reports every declaration once and in order, whichever fail; an interface
\* reported up is up with the declared address and MTU; and the default route goes
\* through an interface that is up, over any number of repeated and killed calls.
InterfacesReported ==
    /\ \A i \in 1..Len(states) : LET r == states[i]  l == links[r.name] IN
          /\ r.name = interfaces[i].name
          /\ r.up => l.up /\ (interfaces[i].address => r.name \in l.addrs) /\ (interfaces[i].mtu => l.mtu)
    /\ at = NoCall => Len(states) = Len(interfaces)
    /\ default_route # "none" => links[default_route].up
=============================================================================
