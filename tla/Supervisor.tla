----------------------------- MODULE Supervisor -----------------------------
(***************************************************************************)
(* PactSupervisor of pact-agent/src/supervisor/pact_supervisor.rs: the     *)
(* ServiceManager operations, called concurrently, the supervision loop    *)
(* that restarts what crashed and pets the watchdog, and the zombie reaper *)
(* of boot/init.rs that runs beside them when the agent is PID 1.          *)
(*                                                                         *)
(* `processes` is behind one lock.  start holds it across the spawn and is *)
(* one step; stop holds it across the grace period and is two; restart     *)
(* gives it up between its parts, and the loop between the parts of        *)
(* do_restart.  The loop reads service_decls under a lock it keeps until   *)
(* it has handled every crash.  Restart counters, exit codes shown to the  *)
(* operator, resource limits and cgroup scopes are left out: no child is   *)
(* ever placed in its scope, so a scope has no effect on a process.        *)
(***************************************************************************)
EXTENDS Integers, FiniteSets, Sequences

CONSTANTS
    Service,
    Process,        \* process ids, reused once reaped
    Caller,         \* tasks that use the ServiceManager
    order(_),       \* ServiceDecl.order
    Decls,          \* what start_all may be given: Service -> RestartPolicy
    Pid1,           \* does the zombie reaper run?
    None

RestartPolicy == {"Always", "OnFailure", "Never"}
Exit == {"ok", "fail"}

\* Starting is declared too, and never set.
ServiceState == {"Running", "Stopping", "Stopped", "Failed", "Restarting"}
SupervisedProcess == [state : ServiceState, child : Process \cup {None}]

ASSUME SupervisorAssumption ==
    /\ Cardinality(Service) \in Nat \ {0}
    /\ Decls \subseteq [Service -> RestartPolicy \cup {None}]
    /\ None \notin Process \cup SupervisedProcess

VARIABLES
    processes,      \* Service -> None or [state, child]
    service_decls,  \* Service -> RestartPolicy or None
    proc,           \* Process -> "free", "alive", how it exited, or "reaped"
    loop,           \* the supervision loop
    call            \* Caller -> None or the operation in progress

supVars == <<processes, service_decls, proc, loop, call>>

CallRecord == [op : {"start", "stop", "restart", "start_all", "stop_all"},
               pc : {"start", "stop", "stopping", "bump"},
               todo : Seq(Service) \ {<<>>}]

LoopRecord == [pc : {"tick", "decls", "next", "spawn", "insert"},
               crashed : SUBSET (Service \X Exit),
               at : (Service \X Exit) \cup {None},
               child : Process \cup {None}]

SupervisorTypeOK ==
    /\ processes \in [Service -> SupervisedProcess \cup {None}]
    /\ service_decls \in [Service -> RestartPolicy \cup {None}]
    /\ proc \in [Process -> {"free", "alive", "reaped"} \cup Exit]
    /\ loop \in LoopRecord
    /\ call \in [Caller -> CallRecord \cup {None}]

SupervisorInit ==
    /\ processes = [s \in Service |-> None]
    /\ service_decls = [s \in Service |-> None]
    /\ proc = [p \in Process |-> "free"]
    /\ loop = [pc |-> "tick", crashed |-> {}, at |-> None, child |-> None]
    /\ call = [c \in Caller |-> None]

-----------------------------------------------------------------------------
Running(s) == processes[s] # None /\ processes[s].state = "Running"

\* Everyone else waits while a stop sits out its grace period.
LockFree == \A c \in Caller : call[c] # None => call[c].pc # "stopping"

Tracked(p) == p = loop.child \/ \E s \in Service : processes[s] # None /\ processes[s].child = p

\* Variant for sensitivity checks: only an unsuccessful exit counts.
try_wait_Failure(s) ==
    Running(s) /\ processes[s].child # None /\ proc[processes[s].child] = "fail"

\* What try_wait() reports; it fails for a child that something else has reaped.
try_wait(s) == Running(s) /\ processes[s].child # None /\ proc[processes[s].child] \in Exit

\* The handles of the children of S are dropped: nothing kills a live one.
Dropped(S) ==
    LET children == {processes[s].child : s \in {t \in S : processes[t] # None}} \ {None}
    IN [p \in Process |-> IF p \in children /\ proc[p] # "alive" THEN "free" ELSE proc[p]]

\* spawn: which free id the process gets does not matter.
CanSpawn == \E p \in Process : proc[p] = "free"
NewProcess == CHOOSE p \in Process : proc[p] = "free"

\* sort_by_key is stable: equal orders stay as the caller listed them.
sorted_services(S) ==
    {q \in [1..Cardinality(S) -> S] :
        /\ \A s \in S : \E i \in DOMAIN q : q[i] = s
        /\ \A i, j \in DOMAIN q : i < j => order(q[i]) <= order(q[j])}

reversed(q) == [i \in 1..Len(q) |-> q[Len(q) - i + 1]]

should_restart(policy, code) ==
    policy = "Always" \/ (policy = "OnFailure" /\ code # "ok")

-----------------------------------------------------------------------------
\* Operations of the ServiceManager.
Begin(c, op, pc, todo) ==
    /\ call[c] = None
    /\ call' = [call EXCEPT ![c] = [op |-> op, pc |-> pc, todo |-> todo]]

CallOne(c, s) ==
    /\ \E op \in {"start", "stop", "restart"} :
          Begin(c, op, IF op = "start" THEN "start" ELSE "stop", <<s>>)
    /\ UNCHANGED <<processes, service_decls, proc, loop>>

\* Variant for sensitivity checks: the loop does not keep the declarations.
DeclsFree_Always == TRUE

DeclsFree == loop.pc \in {"tick", "decls"}

\* start_all stores the declarations, once the loop does not read them.
start_all(c, decls) ==
    /\ DeclsFree
    /\ service_decls' = decls
    /\ \E todo \in sorted_services(Service) : Begin(c, "start_all", "start", todo)
    /\ UNCHANGED <<processes, proc, loop>>

stop_all(c, S) ==
    /\ \E todo \in sorted_services(S) : Begin(c, "stop_all", "stop", reversed(todo))
    /\ UNCHANGED <<processes, service_decls, proc, loop>>

Current(c) == Head(call[c].todo)
At(c, pc) == call[c] # None /\ call[c].pc = pc
Rest(c) == Tail(call[c].todo)
Advance(c) ==
    call' = [call EXCEPT ![c] = IF Rest(c) = <<>> THEN None ELSE [@ EXCEPT !.todo = Rest(c)]]

\* start: already running.
StartNoop(c) ==
    /\ At(c, "start") /\ LockFree /\ Running(Current(c))
    /\ Advance(c)
    /\ UNCHANGED <<processes, service_decls, proc, loop>>

\* start: the new entry replaces the old one, and a child it may still hold.
StartSpawns(c) ==
    /\ At(c, "start") /\ LockFree /\ ~Running(Current(c))
    /\ CanSpawn
    /\ proc' = [Dropped({Current(c)}) EXCEPT ![NewProcess] = "alive"]
    /\ processes' = [processes EXCEPT ![Current(c)] = [state |-> "Running", child |-> NewProcess]]
    /\ Advance(c)
    /\ UNCHANGED <<service_decls, loop>>

\* start: spawn fails; start_all gives up with it.
StartFails(c) ==
    /\ At(c, "start") /\ LockFree /\ ~Running(Current(c))
    /\ call' = [call EXCEPT ![c] = None]
    /\ UNCHANGED <<processes, service_decls, proc, loop>>

\* stop returned: restart goes on, stop_all takes the next service.
Stopped(c) ==
    IF call[c].op = "restart" THEN call' = [call EXCEPT ![c].pc = "bump"]
    ELSE call' = [call EXCEPT ![c] =
                     IF Rest(c) = <<>> THEN None ELSE [@ EXCEPT !.todo = Rest(c), !.pc = "stop"]]

StopNoop(c) ==
    /\ At(c, "stop") /\ LockFree /\ ~Running(Current(c))
    /\ Stopped(c)
    /\ UNCHANGED <<processes, service_decls, proc, loop>>

\* stop: SIGTERM, and the lock kept for the grace period.
StopSignals(c) ==
    /\ At(c, "stop") /\ LockFree /\ Running(Current(c))
    /\ processes' = [processes EXCEPT ![Current(c)].state = "Stopping"]
    /\ call' = [call EXCEPT ![c].pc = "stopping"]
    /\ UNCHANGED <<service_decls, proc, loop>>

\* Variant for sensitivity checks: no SIGKILL after the grace period.
StopEnds_Waits(c) ==
    /\ At(c, "stopping")
    /\ proc[processes[Current(c)].child] # "alive"
    /\ proc' = [proc EXCEPT ![processes[Current(c)].child] = "free"]
    /\ processes' = [processes EXCEPT ![Current(c)] = [state |-> "Stopped", child |-> None]]
    /\ Stopped(c)
    /\ UNCHANGED <<service_decls, loop>>

\* stop: the child has exited, or is killed after the grace period.
StopEnds(c) ==
    /\ At(c, "stopping")
    /\ proc' = [proc EXCEPT ![processes[Current(c)].child] = "free"]
    /\ processes' = [processes EXCEPT ![Current(c)] = [state |-> "Stopped", child |-> None]]
    /\ Stopped(c)
    /\ UNCHANGED <<service_decls, loop>>

\* restart, after its stop: whatever the entry holds by now is Restarting.
RestartMarks(c) ==
    /\ At(c, "bump") /\ LockFree
    /\ processes' = [processes EXCEPT ![Current(c)] =
                        IF @ = None THEN None ELSE [@ EXCEPT !.state = "Restarting"]]
    /\ call' = [call EXCEPT ![c].pc = "start"]
    /\ UNCHANGED <<service_decls, proc, loop>>

\* Variant for sensitivity checks: the child is cleared, the state is not.
status_StillRunning(s) ==
    /\ LockFree /\ try_wait(s)
    /\ processes' = [processes EXCEPT ![s].child = None]
    /\ proc' = Dropped({s})
    /\ UNCHANGED <<service_decls, loop, call>>

\* status, and health through it: an exited child is reaped here, too.
status(s) ==
    /\ LockFree /\ try_wait(s)
    /\ processes' = [processes EXCEPT ![s] = [state |-> "Failed", child |-> None]]
    /\ proc' = Dropped({s})
    /\ UNCHANGED <<service_decls, loop, call>>

-----------------------------------------------------------------------------
\* The supervision loop: the watchdog is petted, then exited children are reaped.
detect_crashed_services ==
    LET crashed == {s \in Service : try_wait(s)}
    IN /\ loop.pc = "tick" /\ LockFree
       /\ processes' = [s \in Service |-> IF s \in crashed
                           THEN [state |-> "Failed", child |-> None] ELSE processes[s]]
       /\ proc' = Dropped(crashed)
       /\ loop' = [loop EXCEPT !.pc = "decls",
                               !.crashed = {<<s, proc[processes[s].child]>> : s \in crashed}]
       /\ UNCHANGED <<service_decls, call>>

LoopReadsDecls ==
    /\ loop.pc = "decls"
    /\ loop' = [loop EXCEPT !.pc = "next"]
    /\ UNCHANGED <<processes, service_decls, proc, call>>

\* No restart by policy.  Never marks the entry Stopped, whatever it holds by now.
LoopSkips(s, code) ==
    /\ loop.pc = "next" /\ <<s, code>> \in loop.crashed
    /\ ~should_restart(service_decls[s], code)
    /\ service_decls[s] # None => LockFree
    /\ processes' = [processes EXCEPT ![s] =
                        IF service_decls[s] = "Never" THEN [@ EXCEPT !.state = "Stopped"] ELSE @]
    /\ loop' = [loop EXCEPT !.crashed = @ \ {<<s, code>>}]
    /\ UNCHANGED <<service_decls, proc, call>>

\* After the delay, do_restart takes the lock once for the old scope.
LoopRestarts(s, code) ==
    /\ loop.pc = "next" /\ <<s, code>> \in loop.crashed
    /\ should_restart(service_decls[s], code)
    /\ LockFree
    /\ loop' = [loop EXCEPT !.pc = "spawn", !.at = <<s, code>>, !.crashed = @ \ {<<s, code>>}]
    /\ UNCHANGED <<processes, service_decls, proc, call>>

LoopSpawns ==
    /\ loop.pc = "spawn" /\ CanSpawn
    /\ proc' = [proc EXCEPT ![NewProcess] = "alive"]
    /\ loop' = [loop EXCEPT !.pc = "insert", !.child = NewProcess]
    /\ UNCHANGED <<processes, service_decls, call>>

\* The error is logged; nothing tries again.
LoopSpawnFails ==
    /\ loop.pc = "spawn"
    /\ loop' = [loop EXCEPT !.pc = "next", !.at = None]
    /\ UNCHANGED <<processes, service_decls, proc, call>>

\* The entry is overwritten, whatever it holds by now.
LoopInserts ==
    /\ loop.pc = "insert" /\ LockFree
    /\ proc' = Dropped({loop.at[1]})
    /\ processes' = [processes EXCEPT ![loop.at[1]] = [state |-> "Running", child |-> loop.child]]
    /\ loop' = [loop EXCEPT !.pc = "next", !.at = None, !.child = None]
    /\ UNCHANGED <<service_decls, call>>

\* Every crash handled: the declarations are released, then the loop sleeps.
LoopSleeps ==
    /\ loop.pc = "next" /\ loop.crashed = {}
    /\ loop' = [loop EXCEPT !.pc = "tick"]
    /\ UNCHANGED <<processes, service_decls, proc, call>>

-----------------------------------------------------------------------------
\* A process exits; tokio reaps the ones whose handle was dropped.
ProcessExits(p, code) ==
    /\ proc[p] = "alive"
    /\ proc' = [proc EXCEPT ![p] = IF Tracked(p) THEN code ELSE "free"]
    /\ UNCHANGED <<processes, service_decls, loop, call>>

\* spawn_zombie_reaper: waitpid(-1) takes any exited child, supervised or not.
ZombieReaped(p) ==
    /\ Pid1 /\ proc[p] \in Exit
    /\ proc' = [proc EXCEPT ![p] = "reaped"]
    /\ UNCHANGED <<processes, service_decls, loop, call>>

CallStep(c) ==
    \/ StartNoop(c) \/ StartFails(c) \/ StartSpawns(c)
    \/ StopNoop(c) \/ StopSignals(c) \/ StopEnds(c)
    \/ RestartMarks(c)

LoopStep ==
    \/ detect_crashed_services
    \/ LoopReadsDecls
    \/ \E s \in Service, code \in Exit : LoopSkips(s, code) \/ LoopRestarts(s, code)
    \/ LoopSpawnFails \/ LoopSpawns
    \/ LoopInserts
    \/ LoopSleeps

SupervisorNext ==
    \/ \E c \in Caller :
          \/ \E s \in Service : CallOne(c, s)
          \/ \E decls \in Decls : start_all(c, decls)
          \/ stop_all(c, Service)
          \/ CallStep(c)
    \/ \E s \in Service : status(s)
    \/ LoopStep
    \/ \E p \in Process : ZombieReaped(p) \/ \E code \in Exit : ProcessExits(p, code)

SupervisorSpec == SupervisorInit /\ [][SupervisorNext]_supVars

\* tokio schedules every task and its locks are first come, first served.
SupervisorFairSpec ==
    /\ SupervisorSpec
    /\ SF_supVars(LoopStep)
    /\ \A c \in Caller : SF_supVars(CallStep(c))

-----------------------------------------------------------------------------
\* A service reported as Running, which health calls "process alive", has a
\* child handle, and no two entries share one, although start, restart, the
\* loop's restart and its policy marks overwrite one another's entries.
RunningTracked ==
    /\ \A s \in Service : Running(s) => processes[s].child # None
    /\ \A s, t \in Service :
          s # t /\ processes[s] # None /\ processes[t] # None /\ processes[s].child # None
          => processes[s].child # processes[t].child

\* The loop spawns only what the declarations in force at that moment tell it
\* to restart: start_all cannot replace them between the decision and the
\* spawn, because the loop keeps the read lock over the restart delay.
PolicyHonoured ==
    loop.pc \in {"spawn", "insert"} => should_restart(service_decls[loop.at[1]], loop.at[2])

\* The loop keeps coming back to pet the watchdog: neither a stop in its grace
\* period nor a start_all waiting for the declarations holds it up for ever.
WatchdogPetted == []<>(loop.pc = "tick")

\* An exited child is collected, by the loop or a status call that finds its
\* service Running, by the stop that waits for it, or by the zombie reaper.
Exited(s) == Running(s) /\ proc[processes[s].child] # "alive"
ExitCollected ==
    \A s \in Service :
        (Running(s) /\ proc[processes[s].child] \in Exit)
            ~> (~Exited(s) \/ proc[processes[s].child] = "reaped")

\* A service whose process has exited does not stay Running.  The comment on
\* spawn_zombie_reaper promises that it does not break try_wait() in the
\* supervision loop; the code lets the reaper collect supervised children.
CrashNoticed == \A s \in Service : Exited(s) ~> ~Exited(s)
=============================================================================
