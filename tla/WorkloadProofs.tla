--------------------------- MODULE WorkloadProofs ---------------------------
(***************************************************************************)
(* Proofs about what runs on a node: the services the supervisor starts,   *)
(* watches and stops, and the mounts and namespaces handed to workloads,   *)
(* for every set of services, callers, processes, allocations and images.  *)
(***************************************************************************)
EXTENDS Supervisor, Handoff, TLAPS

-----------------------------------------------------------------------------
(* The supervisor: entries own their children, and restarts follow the     *)
(* policy in force.                                                        *)

\* The child handle of an entry, if it has one.
Owns(s, p) == processes[s] # None /\ processes[s].child = p

\* Why RunningTracked is kept: a handle belongs to one entry or to the loop, and the
\* id of a child somebody holds is not free, so spawn never hands it out again.
HandlesOwned ==
    /\ \A s \in Service, p \in Process : Owns(s, p) => proc[p] # "free" /\ p # loop.child
    /\ \A s, t \in Service, p \in Process : Owns(s, p) /\ Owns(t, p) => s = t
    /\ \A p \in Process : p = loop.child => proc[p] # "free"
    /\ loop.pc = "insert" => loop.child # None

\* An entry that a stop waits on, or that the loop found crashed, is there: entries are
\* overwritten, never removed.
EntriesKept ==
    /\ \A c \in Caller : At(c, "stopping") => processes[Current(c)] # None
    /\ \A s \in Service, code \in Exit : <<s, code>> \in loop.crashed => processes[s] # None

SupInv ==
    /\ SupervisorTypeOK
    /\ HandlesOwned
    /\ EntriesKept
    /\ \A s \in Service : Running(s) => processes[s].child # None
    /\ loop.pc \in {"spawn", "insert"} => loop.at \in Service \X Exit
    /\ PolicyHonoured

\* The list start_all works through, and its reverse for stop_all, hold the services
\* and are not empty.
LEMMA SortedType ==
    ASSUME NEW todo \in sorted_services(Service)
    PROVE  /\ todo \in Seq(Service) \ {<<>>}
           /\ reversed(todo) \in Seq(Service) \ {<<>>}
  <1> DEFINE n == Cardinality(Service)
  <1>1. n \in Nat /\ n # 0
    BY SupervisorAssumption
  <1>2. todo \in [1..n -> Service]
    BY DEF sorted_services
  <1>3. todo \in Seq(Service) /\ Len(todo) = n
    BY <1>1, <1>2
  <1>4. reversed(todo) \in [1..n -> Service]
    BY <1>1, <1>2, <1>3 DEF reversed
  <1>5. reversed(todo) \in Seq(Service) /\ Len(reversed(todo)) = n
    BY <1>1, <1>4
  <1> QED
    BY <1>1, <1>3, <1>5

\* A call that goes on with its list, or ends, keeps its type, and it does not come to
\* wait in a grace period by going on.
LEMMA AdvanceType ==
    ASSUME SupervisorTypeOK, NEW c \in Caller, call[c] # None, Advance(c)
    PROVE  /\ call' \in [Caller -> CallRecord \cup {None}]
           /\ \A d \in Caller : d # c => call'[d] = call[d]
           /\ call'[c] # None /\ call[c].pc # "stopping" => call'[c].pc # "stopping"
  <1>1. call[c] \in CallRecord /\ Rest(c) \in Seq(Service)
    BY DEF SupervisorTypeOK, CallRecord, Rest
  <1>2. Rest(c) # <<>> => [call[c] EXCEPT !.todo = Rest(c)] \in CallRecord
    BY <1>1 DEF CallRecord
  <1> QED
    BY <1>1, <1>2 DEF Advance, SupervisorTypeOK, CallRecord

\* A caller whose stop is done goes on to its next service; no other caller moves.
LEMMA StoppedType ==
    ASSUME SupervisorTypeOK, NEW c \in Caller, call[c] # None, Stopped(c)
    PROVE  /\ call' \in [Caller -> CallRecord \cup {None}]
           /\ \A d \in Caller : d # c => call'[d] = call[d]
           /\ call'[c] # None => call'[c].pc # "stopping"
  <1>1. call[c] \in CallRecord /\ Rest(c) \in Seq(Service)
    BY DEF SupervisorTypeOK, CallRecord, Rest
  <1>2. Rest(c) # <<>> => [call[c] EXCEPT !.todo = Rest(c), !.pc = "stop"] \in CallRecord
    BY <1>1, Zenon DEF CallRecord
  <1>3. [call[c] EXCEPT !.pc = "bump"] \in CallRecord
    BY <1>1 DEF CallRecord
  <1>4. PICK r \in CallRecord \cup {None} :
            (r # None => r.pc # "stopping") /\ call' = [call EXCEPT ![c] = r]
    <2>1. CASE call[c].op = "restart"
      <3>1. call' = [call EXCEPT ![c] = [call[c] EXCEPT !.pc = "bump"]]
        BY <2>1 DEF Stopped
      <3> QED
        BY <1>1, <1>3, <3>1, Zenon DEF CallRecord
    <2>2. CASE call[c].op # "restart" /\ Rest(c) = <<>>
      BY <2>2 DEF Stopped
    <2>3. CASE call[c].op # "restart" /\ Rest(c) # <<>>
      <3>1. call' = [call EXCEPT ![c] = [call[c] EXCEPT !.todo = Rest(c), !.pc = "stop"]]
        BY <2>3 DEF Stopped
      <3> QED
        BY <1>1, <1>2, <2>3, <3>1, Zenon DEF CallRecord
    <2> QED
      BY <2>1, <2>2, <2>3
  <1> QED
    BY <1>4 DEF SupervisorTypeOK

\* A step of a caller that changes nothing but its own list keeps the invariant.
LEMMA CallChanges ==
    ASSUME SupInv, UNCHANGED <<processes, proc, loop>>,
           service_decls' \in [Service -> RestartPolicy \cup {None}],
           loop.pc \in {"spawn", "insert"} => UNCHANGED service_decls,
           call' \in [Caller -> CallRecord \cup {None}],
           \A c \in Caller : At(c, "stopping")' => call'[c] = call[c]
    PROVE  SupInv'
  <1>1. SupervisorTypeOK'
    BY DEF SupInv, SupervisorTypeOK
  <1>2. HandlesOwned'
    BY DEF SupInv, HandlesOwned, Owns
  <1>3. EntriesKept'
    BY Zenon DEF SupInv, EntriesKept, At, Current
  <1>4. PolicyHonoured'
    BY Zenon DEF SupInv, PolicyHonoured, should_restart
  <1> QED
    BY <1>1, <1>2, <1>3, <1>4 DEF SupInv, Running

\* What CHOOSE gives spawn is a free id.
LEMMA NewProcessFree == CanSpawn => NewProcess \in Process /\ proc[NewProcess] = "free"
  BY DEF CanSpawn, NewProcess

\* Dropping handles frees no process but the children of the entries that are dropped.
LEMMA DroppedFrees ==
    ASSUME SupervisorTypeOK, NEW S \in SUBSET Service
    PROVE  /\ Dropped(S) \in [Process -> {"free", "alive", "reaped"} \cup Exit]
           /\ \A p \in Process : (\A s \in S : ~Owns(s, p)) => Dropped(S)[p] = proc[p]
  BY SupervisorAssumption DEF Dropped, SupervisorTypeOK, Owns

\* The steps of the ServiceManager's callers.
LEMMA CallStepInv ==
    ASSUME SupInv, NEW c \in Caller, CallStep(c)
    PROVE  SupInv'
  <1> DEFINE s == Current(c)
  <1>1. SupervisorTypeOK /\ call[c] \in CallRecord /\ s \in Service
    <2>1. call[c] # None
      BY Zenon DEF CallStep, StartNoop, StartFails, StartSpawns, StopNoop, StopSignals,
          StopEnds, RestartMarks, At
    <2>2. SupervisorTypeOK
      BY Zenon DEF SupInv
    <2>. QED BY <2>1, <2>2 DEF SupervisorTypeOK, CallRecord, Current
  <1>2. CASE StartNoop(c)
    BY <1>1, <1>2, AdvanceType, CallChanges DEF StartNoop, At, SupervisorTypeOK
  <1>3. CASE StartFails(c)
    BY <1>1, <1>3, CallChanges DEF StartFails, At, SupervisorTypeOK
  <1>4. CASE StopNoop(c)
    BY <1>1, <1>4, StoppedType, CallChanges DEF StopNoop, At, SupervisorTypeOK
  <1>5. CASE StartSpawns(c)
    <2>1. NewProcess \in Process /\ proc[NewProcess] = "free"
      BY <1>5, NewProcessFree DEF StartSpawns
    <2>2. /\ call' \in [Caller -> CallRecord \cup {None}]
          /\ \A d \in Caller : At(d, "stopping")' => d # c /\ call'[d] = call[d]
      BY <1>1, <1>5, AdvanceType DEF StartSpawns, At
    <2>3. /\ [state |-> "Running", child |-> NewProcess] \in SupervisedProcess
          /\ [state |-> "Running", child |-> NewProcess] # None
      BY <2>1, SupervisorAssumption DEF SupervisedProcess, ServiceState
    <2>4. SupervisorTypeOK'
      BY <1>1, <1>5, <2>1, <2>2, <2>3, DroppedFrees, Zenon DEF StartSpawns, SupervisorTypeOK
    <2>5. HandlesOwned'
      <3>1. \A p \in Process : p # NewProcess /\ ~Owns(s, p) => proc'[p] = proc[p]
        BY <1>1, <1>5, <2>1, DroppedFrees DEF StartSpawns, SupervisorTypeOK
      <3>2. proc'[NewProcess] # "free"
        BY <1>1, <1>5, <2>1, DroppedFrees DEF StartSpawns
      <3>3. \A t \in Service, p \in Process :
               Owns(t, p)' <=> IF t = s THEN p = NewProcess ELSE Owns(t, p)
        BY <1>1, <1>5, <2>3, Zenon DEF StartSpawns, Owns, SupervisorTypeOK
      <3>4. loop' = loop /\ HandlesOwned
        BY <1>5 DEF StartSpawns, SupInv
      <3>5. \A t \in Service, p \in Process : Owns(t, p)' => proc'[p] # "free" /\ p # loop'.child
        BY <1>1, <2>1, <3>1, <3>2, <3>3, <3>4 DEF HandlesOwned
      <3>6. \A t, u \in Service, p \in Process : Owns(t, p)' /\ Owns(u, p)' => t = u
        BY <1>1, <2>1, <3>3, <3>4 DEF HandlesOwned
      <3>7. \A p \in Process : p = loop'.child => proc'[p] # "free"
        BY <1>1, <2>1, <3>1, <3>4 DEF HandlesOwned
      <3> QED
        BY <3>4, <3>5, <3>6, <3>7 DEF HandlesOwned
    <2>6. EntriesKept'
      BY <1>1, <1>5, <2>2, <2>3 DEF StartSpawns, SupInv, EntriesKept, At, Current, SupervisorTypeOK
    <2>7. PolicyHonoured'
      BY <1>5, Zenon DEF StartSpawns, SupInv, PolicyHonoured, should_restart
    <2>8. \A t \in Service : Running(t)' => processes'[t].child # None
      BY <1>1, <1>5, <2>1, SupervisorAssumption, Zenon DEF StartSpawns, SupInv, Running, SupervisorTypeOK
    <2> QED
      BY <1>5, <2>4, <2>5, <2>6, <2>7, <2>8 DEF StartSpawns, SupInv
  <1>6. CASE StopSignals(c)
    <2>1. processes[s] \in SupervisedProcess /\ processes[s] # None
      BY <1>1, <1>6 DEF StopSignals, Running, SupervisorTypeOK
    <2>2. processes' = [processes EXCEPT ![s] = [processes[s] EXCEPT !.state = "Stopping"]]
      BY <1>6 DEF StopSignals
    <2>3. /\ processes'[s] \in SupervisedProcess
          /\ processes'[s].child = processes[s].child /\ processes'[s].state = "Stopping"
          /\ \A t \in Service : t # s => processes'[t] = processes[t]
          /\ processes' \in [Service -> SupervisedProcess \cup {None}]
      BY <1>1, <2>1, <2>2 DEF SupervisorTypeOK, SupervisedProcess, ServiceState
    <2>4. call'[c] \in CallRecord /\ call'[c].todo = call[c].todo
          /\ call' \in [Caller -> CallRecord \cup {None}]
          /\ \A d \in Caller : d # c => call'[d] = call[d]
      <3>1. call' = [call EXCEPT ![c] = [call[c] EXCEPT !.pc = "stopping"]]
        BY <1>6 DEF StopSignals
      <3> QED
        BY <1>1, <3>1 DEF SupervisorTypeOK, CallRecord
    <2>5. SupervisorTypeOK'
      BY <1>1, <1>6, <2>3, <2>4 DEF StopSignals, SupervisorTypeOK
    <2>6. \A t \in Service, p \in Process : Owns(t, p)' <=> Owns(t, p)
      BY <2>1, <2>3, SupervisorAssumption DEF Owns
    <2>7. HandlesOwned'
      BY <1>6, <2>6 DEF StopSignals, SupInv, HandlesOwned
    <2>8. \A t \in Service : processes[t] # None => processes'[t] # None
      BY <2>3, SupervisorAssumption
    <2>9. EntriesKept'
      <3>1. processes'[s] # None /\ Current(c)' = s
        BY <2>3, <2>4, SupervisorAssumption, Zenon DEF Current
      <3>2. ASSUME NEW d \in Caller, d # c, At(d, "stopping")' PROVE processes'[Current(d)'] # None
        BY <1>6, <2>4, <3>2 DEF StopSignals, LockFree, At
      <3> QED
        BY <1>6, <2>8, <3>1, <3>2 DEF StopSignals, SupInv, EntriesKept
    <2> QED
      BY <1>6, <2>3, <2>5, <2>7, <2>9 DEF StopSignals, SupInv, PolicyHonoured, should_restart, Running
  <1>7. CASE StopEnds(c)
    <2> DEFINE p0 == processes[s].child
    <2>1. processes[s] \in SupervisedProcess /\ processes[s] # None
      BY <1>1, <1>7, Zenon DEF StopEnds, SupInv, EntriesKept, SupervisorTypeOK
    <2>2. /\ [state |-> "Stopped", child |-> None] \in SupervisedProcess
          /\ [state |-> "Stopped", child |-> None] # None
      BY SupervisorAssumption DEF SupervisedProcess, ServiceState
    <2>3. /\ call' \in [Caller -> CallRecord \cup {None}]
          /\ \A d \in Caller : At(d, "stopping")' => d # c /\ call'[d] = call[d]
      BY <1>1, <1>7, StoppedType, Zenon DEF StopEnds, At
    <2>4. SupervisorTypeOK'
      BY <1>1, <1>7, <2>2, <2>3, Zenon DEF StopEnds, SupervisorTypeOK
    <2>5. \A t \in Service, p \in Process : Owns(t, p)' <=> t # s /\ Owns(t, p)
      BY <1>1, <1>7, <2>2, SupervisorAssumption DEF StopEnds, Owns, SupervisorTypeOK
    <2>6. \A p \in Process : ~Owns(s, p) => proc'[p] = proc[p]
      BY <1>1, <1>7, <2>1 DEF StopEnds, Owns, SupervisorTypeOK
    <2>7. HandlesOwned'
      <3>1. loop' = loop /\ HandlesOwned
        BY <1>7, Zenon DEF StopEnds, SupInv
      <3> QED
        BY <1>1, <2>5, <2>6, <3>1, Zenon DEF HandlesOwned
    <2>8. EntriesKept'
      BY <1>1, <1>7, <2>2, <2>3 DEF StopEnds, SupInv, EntriesKept, At, Current, SupervisorTypeOK
    <2>9. \A t \in Service : Running(t)' => processes'[t].child # None
      BY <1>1, <1>7, Zenon DEF StopEnds, SupInv, Running, SupervisorTypeOK
    <2> QED
      BY <1>7, <2>4, <2>7, <2>8, <2>9, Zenon DEF StopEnds, SupInv, PolicyHonoured, should_restart
  <1>8. CASE RestartMarks(c)
    <2>1. processes[s] = None => processes' = processes
      BY <1>1, <1>8 DEF RestartMarks, SupervisorTypeOK
    <2>2. processes[s] # None =>
             processes' = [processes EXCEPT ![s] = [processes[s] EXCEPT !.state = "Restarting"]]
      BY <1>1, <1>8 DEF RestartMarks
    <2>3. /\ processes' \in [Service -> SupervisedProcess \cup {None}]
          /\ \A t \in Service : processes[t] = None <=> processes'[t] = None
          /\ \A t \in Service : processes[t] # None => processes'[t].child = processes[t].child
          /\ \A t \in Service : Running(t)' => Running(t)
      BY <1>1, <2>1, <2>2, SupervisorAssumption
      DEF SupervisorTypeOK, SupervisedProcess, ServiceState, Running
    <2>4. call'[c].pc = "start"
          /\ call' \in [Caller -> CallRecord \cup {None}]
          /\ \A d \in Caller : d # c => call'[d] = call[d]
      <3>1. call' = [call EXCEPT ![c] = [call[c] EXCEPT !.pc = "start"]]
        BY <1>8 DEF RestartMarks
      <3> QED
        BY <1>1, <3>1 DEF SupervisorTypeOK, CallRecord
    <2>5. SupervisorTypeOK'
      BY <1>1, <1>8, <2>3, <2>4 DEF RestartMarks, SupervisorTypeOK
    <2>6. \A t \in Service, p \in Process : Owns(t, p)' <=> Owns(t, p)
      BY <2>3 DEF Owns
    <2>7. HandlesOwned'
      BY <1>8, <2>6 DEF RestartMarks, SupInv, HandlesOwned
    <2>8. EntriesKept'
      BY <1>8, <2>3, <2>4, Zenon DEF RestartMarks, SupInv, EntriesKept, LockFree, At
    <2>9. \A t \in Service : Running(t)' => processes'[t].child # None
      BY <2>3, Zenon DEF SupInv, Running
    <2> QED
      BY <1>8, <2>5, <2>7, <2>8, <2>9 DEF RestartMarks, SupInv, PolicyHonoured, should_restart
  <1> QED
    BY <1>2, <1>3, <1>4, <1>5, <1>6, <1>7, <1>8 DEF CallStep

\* A step of the loop that only moves on, to a restart only where the policy says so.
LEMMA LoopMoves ==
    ASSUME SupInv, UNCHANGED <<processes, service_decls, proc, call>>,
           loop' \in LoopRecord, loop'.child = loop.child, loop'.crashed \subseteq loop.crashed,
           loop'.pc # "insert",
           loop'.pc = "spawn" =>
               loop'.at \in Service \X Exit /\ should_restart(service_decls[loop'.at[1]], loop'.at[2])
    PROVE  SupInv'
  <1>1. SupervisorTypeOK'
    BY Zenon DEF SupInv, SupervisorTypeOK
  <1>2. HandlesOwned'
    BY Zenon DEF SupInv, HandlesOwned, Owns
  <1>3. EntriesKept'
    BY Zenon DEF SupInv, EntriesKept, At, Current
  <1>4. PolicyHonoured'
    BY DEF PolicyHonoured, should_restart
  <1> QED
    BY <1>1, <1>2, <1>3, <1>4, Zenon DEF SupInv, Running

\* The steps of the supervision loop.
LEMMA LoopStepInv ==
    ASSUME SupInv, LoopStep
    PROVE  SupInv'
  <1>1. SupervisorTypeOK /\ HandlesOwned /\ EntriesKept /\ PolicyHonoured
    BY DEF SupInv
  <1>2. CASE detect_crashed_services
    <2> DEFINE crashed == {s \in Service : try_wait(s)}
               failed == [state |-> "Failed", child |-> None]
    <2>1. \A s \in crashed : processes[s] # None /\ processes[s].child \in Process
                             /\ proc[processes[s].child] \in Exit
      BY <1>1 DEF try_wait, Running, SupervisorTypeOK, SupervisedProcess
    <2>2. failed \in SupervisedProcess /\ failed # None
      BY SupervisorAssumption DEF SupervisedProcess, ServiceState
    <2>3. /\ processes' \in [Service -> SupervisedProcess \cup {None}]
          /\ \A s \in Service : processes'[s] = IF s \in crashed THEN failed ELSE processes[s]
      BY <1>1, <1>2, <2>2 DEF detect_crashed_services, SupervisorTypeOK
    <2>4. /\ loop'.pc = "decls" /\ loop'.at = loop.at /\ loop'.child = loop.child
          /\ loop'.crashed = {<<s, proc[processes[s].child]>> : s \in crashed}
          /\ loop' \in LoopRecord
      <3>1. {<<s, proc[processes[s].child]>> : s \in crashed} \subseteq Service \X Exit
        BY <2>1
      <3>2. loop' = [loop EXCEPT !.pc = "decls",
                                 !.crashed = {<<s, proc[processes[s].child]>> : s \in crashed}]
        BY <1>2 DEF detect_crashed_services
      <3> QED
        BY <1>1, <3>1, <3>2, Zenon DEF SupervisorTypeOK, LoopRecord
    <2>5. SupervisorTypeOK'
      BY <1>1, <1>2, <2>3, <2>4, DroppedFrees DEF detect_crashed_services, SupervisorTypeOK
    <2>6. \A s \in Service, p \in Process : Owns(s, p)' <=> s \notin crashed /\ Owns(s, p)
      BY <2>2, <2>3, SupervisorAssumption DEF Owns
    <2>7. \A p \in Process : (\A s \in crashed : ~Owns(s, p)) => proc'[p] = proc[p]
      BY <1>1, <1>2, DroppedFrees DEF detect_crashed_services
    <2>8. HandlesOwned'
      BY <1>1, <2>4, <2>6, <2>7, Zenon DEF HandlesOwned
    <2>9. EntriesKept'
      <3>1. \A c \in Caller : ~At(c, "stopping")'
        BY <1>2 DEF detect_crashed_services, LockFree, At
      <3>2. \A s \in Service, code \in Exit : <<s, code>> \in loop'.crashed => s \in crashed
        BY <2>4
      <3> QED
        BY <2>2, <2>3, <3>1, <3>2 DEF EntriesKept
    <2>10. \A s \in Service : Running(s)' => processes'[s].child # None
      BY <2>3 DEF SupInv, Running
    <2> QED
      BY <2>4, <2>5, <2>8, <2>9, <2>10, Zenon DEF SupInv, PolicyHonoured
  <1>3. CASE LoopReadsDecls
    BY <1>1, <1>3, LoopMoves DEF LoopReadsDecls, SupervisorTypeOK, LoopRecord
  <1>4. ASSUME NEW s \in Service, NEW code \in Exit, LoopSkips(s, code)
        PROVE  SupInv'
    <2>1. processes[s] \in SupervisedProcess /\ processes[s] # None
      BY <1>1, <1>4 DEF LoopSkips, EntriesKept, SupervisorTypeOK
    <2>2. \/ processes' = processes
          \/ processes' = [processes EXCEPT ![s] = [processes[s] EXCEPT !.state = "Stopped"]]
      <3>1. service_decls[s] = "Never" =>
                processes' = [processes EXCEPT ![s] = [processes[s] EXCEPT !.state = "Stopped"]]
        BY <1>4 DEF LoopSkips
      <3>2. service_decls[s] # "Never" => processes' = [processes EXCEPT ![s] = processes[s]]
        BY <1>4 DEF LoopSkips
      <3> QED
        BY <1>1, <3>1, <3>2 DEF SupervisorTypeOK
    <2>3. /\ processes' \in [Service -> SupervisedProcess \cup {None}]
          /\ \A t \in Service : processes[t] = None <=> processes'[t] = None
          /\ \A t \in Service : processes[t] # None => processes'[t].child = processes[t].child
          /\ \A t \in Service : Running(t)' => Running(t)
      BY <1>1, <2>1, <2>2, SupervisorAssumption
      DEF SupervisorTypeOK, SupervisedProcess, ServiceState, Running
    <2>4. /\ loop' \in LoopRecord /\ loop'.pc = "next" /\ loop'.child = loop.child
          /\ loop'.crashed \subseteq loop.crashed
      BY <1>1, <1>4 DEF LoopSkips, SupervisorTypeOK, LoopRecord
    <2>5. SupervisorTypeOK'
      BY <1>1, <1>4, <2>3, <2>4 DEF LoopSkips, SupervisorTypeOK
    <2>6. \A t \in Service, p \in Process : Owns(t, p)' <=> Owns(t, p)
      BY <2>3 DEF Owns
    <2>7. HandlesOwned'
      BY <1>1, <1>4, <2>4, <2>6 DEF LoopSkips, HandlesOwned
    <2>8. EntriesKept'
      <3>1. \A c \in Caller : At(c, "stopping")' => At(c, "stopping") /\ Current(c)' = Current(c)
                                                    /\ Current(c) \in Service
        BY <1>1, <1>4
        DEF LoopSkips, At, Current, SupervisorTypeOK, CallRecord
      <3> QED
        BY <1>1, <2>3, <2>4, <3>1, Zenon DEF EntriesKept
    <2>9. \A t \in Service : Running(t)' => processes'[t].child # None
      BY <2>3 DEF SupInv, Running
    <2> QED
      BY <2>4, <2>5, <2>7, <2>8, <2>9, Zenon DEF SupInv, PolicyHonoured
  <1>5. ASSUME NEW s \in Service, NEW code \in Exit, LoopRestarts(s, code)
        PROVE  SupInv'
    <2>1. loop' \in LoopRecord /\ loop'.pc = "spawn" /\ loop'.child = loop.child
          /\ loop'.at = <<s, code>> /\ loop'.crashed \subseteq loop.crashed
      BY <1>1, <1>5, Zenon DEF LoopRestarts, SupervisorTypeOK, LoopRecord
    <2>2. loop'.at \in Service \X Exit /\ should_restart(service_decls[loop'.at[1]], loop'.at[2])
      BY <1>5, <2>1 DEF LoopRestarts
    <2> QED
      BY <1>5, <2>1, <2>2, LoopMoves DEF LoopRestarts
  <1>6. CASE LoopSpawnFails
    BY <1>1, <1>6, LoopMoves, Zenon DEF LoopSpawnFails, SupervisorTypeOK, LoopRecord
  <1>7. CASE LoopSpawns
    <2>1. NewProcess \in Process /\ proc[NewProcess] = "free"
      BY <1>7, NewProcessFree DEF LoopSpawns
    <2>2. /\ loop' \in LoopRecord /\ loop'.pc = "insert" /\ loop'.child = NewProcess
          /\ loop'.at = loop.at /\ loop'.crashed = loop.crashed
      BY <1>1, <1>7, <2>1, Zenon DEF LoopSpawns, SupervisorTypeOK, LoopRecord
    <2>3. SupervisorTypeOK'
      BY <1>1, <1>7, <2>1, <2>2 DEF LoopSpawns, SupervisorTypeOK
    <2>4. HandlesOwned'
      BY <1>1, <1>7, <2>1, <2>2, SupervisorAssumption DEF LoopSpawns, HandlesOwned, Owns, SupervisorTypeOK
    <2>5. EntriesKept'
      BY <1>1, <1>7, <2>2 DEF LoopSpawns, EntriesKept, At, Current
    <2>6. PolicyHonoured'
      BY <1>1, <1>7, <2>2 DEF LoopSpawns, PolicyHonoured, should_restart
    <2> QED
      BY <1>7, <2>2, <2>3, <2>4, <2>5, <2>6 DEF LoopSpawns, SupInv, Running
  <1>8. CASE LoopInserts
    <2> DEFINE s == loop.at[1]
               entry == [state |-> "Running", child |-> loop.child]
    <2>1. s \in Service /\ loop.child \in Process /\ entry \in SupervisedProcess /\ entry # None
      BY <1>1, <1>8, SupervisorAssumption
      DEF LoopInserts, SupInv, HandlesOwned, SupervisorTypeOK, LoopRecord, SupervisedProcess, ServiceState
    <2>2. /\ loop' \in LoopRecord /\ loop'.pc = "next" /\ loop'.child = None
          /\ loop'.crashed = loop.crashed
      BY <1>1, <1>8, Zenon DEF LoopInserts, SupervisorTypeOK, LoopRecord
    <2>3. SupervisorTypeOK'
      BY <1>1, <1>8, <2>1, <2>2, DroppedFrees DEF LoopInserts, SupervisorTypeOK
    <2>4. \A t \in Service, p \in Process :
             Owns(t, p)' <=> IF t = s THEN p = loop.child ELSE Owns(t, p)
      BY <1>1, <1>8, <2>1 DEF LoopInserts, Owns, SupervisorTypeOK
    <2>5. \A p \in Process : ~Owns(s, p) => proc'[p] = proc[p]
      BY <1>1, <1>8, <2>1, DroppedFrees DEF LoopInserts
    <2>6. HandlesOwned'
      <3>1. \A t \in Service, p \in Process : Owns(t, p)' => proc'[p] # "free" /\ p # loop'.child
        BY <1>1, <2>1, <2>2, <2>4, <2>5, SupervisorAssumption DEF HandlesOwned
      <3>2. \A t, u \in Service, p \in Process : Owns(t, p)' /\ Owns(u, p)' => t = u
        BY <1>1, <2>1, <2>4, Zenon DEF HandlesOwned
      <3> QED
        BY <2>2, <3>1, <3>2, SupervisorAssumption DEF HandlesOwned
    <2>7. EntriesKept'
      BY <1>1, <1>8, <2>1, <2>2 DEF LoopInserts, EntriesKept, LockFree, At, SupervisorTypeOK
    <2>8. \A t \in Service : Running(t)' => processes'[t].child # None
      BY <1>1, <1>8, <2>1, SupervisorAssumption DEF LoopInserts, SupInv, Running, SupervisorTypeOK
    <2> QED
      BY <2>2, <2>3, <2>6, <2>7, <2>8 DEF SupInv, PolicyHonoured
  <1>9. CASE LoopSleeps
    BY <1>1, <1>9, LoopMoves DEF LoopSleeps, SupervisorTypeOK, LoopRecord
  <1> QED
    BY <1>2, <1>3, <1>4, <1>5, <1>6, <1>7, <1>8, <1>9 DEF LoopStep

-----------------------------------------------------------------------------
\* Nothing runs at first: the invariant of the supervisor holds.
LEMMA SupInvInit == SupervisorInit => SupInv
  BY SupervisorAssumption
  DEF SupervisorInit, SupInv, SupervisorTypeOK, LoopRecord, HandlesOwned, Owns, EntriesKept,
      At, Running, PolicyHonoured

\* Every step of the supervisor, its loop, its callers and the kernel keeps it.
LEMMA SupInvNext == SupInv /\ [SupervisorNext]_supVars => SupInv'
  <1> SUFFICES ASSUME SupInv, [SupervisorNext]_supVars PROVE SupInv'
    OBVIOUS
  <1>1. SupervisorTypeOK /\ HandlesOwned /\ EntriesKept /\ PolicyHonoured
    BY DEF SupInv
  <1>2. ASSUME NEW c \in Caller, NEW s \in Service, CallOne(c, s) PROVE SupInv'
    <2>1. <<s>> \in Seq(Service) \ {<<>>}
      OBVIOUS
    <2> QED
      BY <1>1, <1>2, <2>1, CallChanges DEF CallOne, Begin, SupervisorTypeOK, CallRecord, At
  <1>3. ASSUME NEW c \in Caller, NEW decls \in Decls, start_all(c, decls) PROVE SupInv'
    BY <1>1, <1>3, SortedType, CallChanges, SupervisorAssumption
    DEF start_all, DeclsFree, Begin, SupervisorTypeOK, CallRecord, At
  <1>4. ASSUME NEW c \in Caller, stop_all(c, Service) PROVE SupInv'
    BY <1>1, <1>4, SortedType, CallChanges DEF stop_all, Begin, SupervisorTypeOK, CallRecord, At
  <1>5. ASSUME NEW c \in Caller, CallStep(c) PROVE SupInv'
    BY <1>5, CallStepInv
  <1>6. ASSUME NEW s \in Service, status(s) PROVE SupInv'
    <2> DEFINE failed == [state |-> "Failed", child |-> None]
    <2>1. failed \in SupervisedProcess /\ failed # None
      BY SupervisorAssumption DEF SupervisedProcess, ServiceState
    <2>2. SupervisorTypeOK'
      BY <1>1, <1>6, <2>1, DroppedFrees, Zenon DEF status, SupervisorTypeOK
    <2>3. \A t \in Service, p \in Process : Owns(t, p)' <=> t # s /\ Owns(t, p)
      BY <1>1, <1>6, <2>1, SupervisorAssumption DEF status, Owns, SupervisorTypeOK
    <2>4. \A p \in Process : ~Owns(s, p) => proc'[p] = proc[p]
      BY <1>1, <1>6, DroppedFrees DEF status
    <2>5. HandlesOwned'
      BY <1>1, <1>6, <2>3, <2>4, Zenon DEF status, HandlesOwned
    <2>6. EntriesKept'
      BY <1>1, <1>6, <2>1, Zenon DEF status, EntriesKept, LockFree, At, SupervisorTypeOK
    <2> QED
      BY <1>1, <1>6, <2>2, <2>5, <2>6, Zenon
      DEF status, SupInv, Running, PolicyHonoured, should_restart, SupervisorTypeOK
  <1>7. CASE LoopStep
    BY <1>7, LoopStepInv
  <1>8. ASSUME NEW p \in Process, ZombieReaped(p) \/ \E code \in Exit : ProcessExits(p, code)
        PROVE  SupInv'
    <2>1. SupervisorTypeOK'
      BY <1>1, <1>8 DEF ZombieReaped, ProcessExits, SupervisorTypeOK, Exit
    <2>2. HandlesOwned'
      <3>1. \A q \in Process : (q = loop.child \/ \E s \in Service : Owns(s, q)) /\ proc[q] # "free"
                               => proc'[q] # "free"
        BY <1>1, <1>8, Zenon DEF ZombieReaped, ProcessExits, Tracked, Owns, SupervisorTypeOK, Exit
      <3> QED
        BY <1>1, <1>8, <3>1, Zenon DEF ZombieReaped, ProcessExits, HandlesOwned, Owns
    <2>3. EntriesKept'
      BY <1>1, <1>8, Zenon DEF ZombieReaped, ProcessExits, EntriesKept, At, Current
    <2> QED
      BY <1>8, <2>1, <2>2, <2>3, Zenon
      DEF ZombieReaped, ProcessExits, SupInv, Running, PolicyHonoured, should_restart
  <1>9. CASE UNCHANGED supVars
    BY <1>1, <1>9, CallChanges DEF supVars, SupervisorTypeOK
  <1> QED
    BY <1>2, <1>3, <1>4, <1>5, <1>6, <1>7, <1>8, <1>9 DEF SupervisorNext

\* The supervisor's state stays well formed: a restart in progress names a service, and
\* the entry a stop or a crash refers to is there.
THEOREM SupervisorInvariant == SupervisorSpec => []SupInv
  BY SupInvInit, SupInvNext, PTL DEF SupervisorSpec

\* For any number of services, callers and processes, a service reported as Running has
\* a child handle and no two entries share a child, whatever start, stop, restart, status
\* and the loop's do_restart overwrite.
THEOREM ChildrenTracked == SupervisorSpec => []RunningTracked
  <1>1. SupInv => RunningTracked
    BY SupervisorAssumption, Zenon
    DEF SupInv, HandlesOwned, Owns, RunningTracked, SupervisorTypeOK, SupervisedProcess
  <1> QED
    BY <1>1, SupervisorInvariant, PTL

\* Whatever start_all calls come in between, the loop restarts only what the
\* declarations in force at that moment tell it to.
THEOREM RestartsFollowPolicy == SupervisorSpec => []PolicyHonoured
  <1>1. SupInv => PolicyHonoured
    BY DEF SupInv
  <1> QED
    BY <1>1, SupervisorInvariant, PTL

-----------------------------------------------------------------------------
(* Workload handoff                                                        *)

INSTANCE FiniteSetTheorems

HandoffInv ==
    /\ HandoffTypeOK
    /\ \A i \in Image : idleSince[i] <= handoffNow
    /\ \A i \in Image \ forced : CountsExact(i)

\* The users of an image are finitely many, and none exactly when they count zero.
LEMMA UsersFinite ==
    ASSUME NEW i
    PROVE  /\ IsFiniteSet(Users(i)) /\ Cardinality(Users(i)) \in Nat
           /\ Cardinality(Users(i)) = 0 <=> Users(i) = {}
<1>1. IsFiniteSet(Users(i))
  BY HandoffAssumption, FS_Subset DEF Users
<1>. QED BY <1>1, FS_CardinalityType, FS_EmptySet

\* A step that touches neither mounts nor their users.
LEMMA MountsUntouched ==
    ASSUME HandoffInv, HandoffTypeOK', handoffNow' >= handoffNow,
           UNCHANGED <<mounts, mounted, forced, idleSince>>,
           \A i \in Image : Users(i)' = Users(i)
    PROVE  HandoffInv'
<1>1. \A i \in Image \ forced : CountsExact(i)'
  BY DEF HandoffInv, CountsExact
<1>2. \A i \in Image : idleSince'[i] <= handoffNow'
  BY HandoffAssumption DEF HandoffInv, HandoffTypeOK
<1>. QED BY <1>1, <1>2 DEF HandoffInv

\* The steps of the workload manager, the agent's map and its mounts, and a restart.
LEMMA HandoffStepInv == HandoffInv /\ [HandoffNext]_handoffVars => HandoffInv'
<1>. SUFFICES ASSUME HandoffInv, [HandoffNext]_handoffVars PROVE HandoffInv'
  OBVIOUS
<1>0. /\ handoffNow \in Nat /\ idleSince \in [Image -> Nat] /\ mounted \subseteq Image
      /\ mounts \in [Image -> [refcount : Nat \cup {-1}, hold_start : Nat \cup {-1}]]
      /\ uses \in [Allocation -> [pc : {"new", "created", "running", "released"},
                                  image : {{}} \cup {{i} : i \in Image}]]
      /\ forced \subseteq Image
      /\ \A i \in Image : idleSince[i] <= handoffNow
      /\ \A i \in Image \ forced : CountsExact(i)
  BY HandoffAssumption DEF HandoffInv, HandoffTypeOK
<1>1. ASSUME \/ set_ready \/ HandoffTick \/ UNCHANGED handoffVars
             \/ \E a \in Allocation :
                   AllocationEnds(a) \/ on_allocation_ended(a) \/ release_namespaces(a)
      PROVE  HandoffInv'
  <2>1. UNCHANGED <<mounts, mounted, forced, idleSince, uses>> /\ handoffNow' >= handoffNow
    BY <1>0, <1>1 DEF set_ready, HandoffTick, handoffVars, AllocationEnds, on_allocation_ended,
                      release_namespaces
  <2>2. HandoffTypeOK'
    <3>. DEFINE Typed == /\ ready' \in BOOLEAN /\ handoffNow' \in 0..HandoffHorizon
                         /\ allocations' \subseteq Allocation /\ writer' \subseteq Allocation
                         /\ ended' \subseteq Allocation
    <3>1. Typed
      <4>. USE HandoffAssumption DEF HandoffInv, HandoffTypeOK
      <4>1. CASE set_ready
        BY <4>1 DEF set_ready
      <4>2. CASE HandoffTick
        BY <4>2 DEF HandoffTick
      <4>3. CASE UNCHANGED handoffVars
        BY <4>3 DEF handoffVars
      <4>4. ASSUME NEW a \in Allocation, AllocationEnds(a) PROVE Typed
        BY <4>4 DEF AllocationEnds
      <4>5. ASSUME NEW a \in Allocation, on_allocation_ended(a) PROVE Typed
        BY <4>5 DEF on_allocation_ended
      <4>6. ASSUME NEW a \in Allocation, release_namespaces(a) PROVE Typed
        BY <4>6 DEF release_namespaces
      <4>. QED BY <1>1, <4>1, <4>2, <4>3, <4>4, <4>5, <4>6
    <3>. QED BY <1>0, <2>1, <3>1 DEF HandoffTypeOK
  <2>3. \A i \in Image : Users(i)' = Users(i)
    BY <2>1 DEF Users
  <2>. QED BY <2>1, <2>2, <2>3, MountsUntouched
<1>2. ASSUME NEW a \in Allocation, NEW i \in Image, create_namespaces(a, i)
      PROVE  HandoffInv'
  <2>1. /\ uses' = [uses EXCEPT ![a] = [pc |-> "created", image |-> {i}]]
        /\ uses[a].pc = "new"
        /\ UNCHANGED <<mounts, mounted, forced, idleSince, handoffNow>>
    BY <1>2, Zenon DEF create_namespaces
  <2>2. uses' \in [Allocation -> [pc : {"new", "created", "running", "released"},
                                 image : {{}} \cup {{j} : j \in Image}]]
    BY <1>0, <2>1
  <2>3. HandoffTypeOK'
    BY <1>2, <2>1, <2>2, Zenon DEF HandoffInv, HandoffTypeOK, create_namespaces
  <2>4. \A j \in Image : Users(j)' = Users(j)
    BY <1>0, <2>1 DEF Users
  <2>. QED BY <1>0, <2>1, <2>3, <2>4, MountsUntouched
<1>3. ASSUME NEW a \in Allocation, NEW i \in Image, acquire(a, i)
      PROVE  HandoffInv'
  <2>. DEFINE m == [refcount |-> IF mounts[i].refcount = -1 THEN 1 ELSE mounts[i].refcount + 1,
                    hold_start |-> -1]
  <2>1. /\ uses[a] = [pc |-> "created", image |-> {i}]
        /\ mounts' = [mounts EXCEPT ![i] = m]
        /\ mounted' = mounted \cup {i}
        /\ uses' = [uses EXCEPT ![a] = [pc |-> "running", image |-> {i}]]
        /\ UNCHANGED <<ready, allocations, writer, ended, forced, idleSince, handoffNow>>
    <3>1. /\ uses[a] = [pc |-> "created", image |-> {i}]
          /\ uses' = [uses EXCEPT ![a].pc = "running"]
      BY <1>3 DEF acquire, UseAt
    <3>2. uses' = [uses EXCEPT ![a] = [uses[a] EXCEPT !.pc = "running"]]
      BY <3>1
    <3>3. [uses[a] EXCEPT !.pc = "running"] = [pc |-> "running", image |-> {i}]
      BY <3>1
    <3>. QED BY <1>3, <3>1, <3>2, <3>3, Zenon DEF acquire
  <2>2. m \in [refcount : Nat \cup {-1}, hold_start : Nat \cup {-1}] /\ m.refcount \in Nat \ {0}
    BY <1>0
  <2>3. HandoffTypeOK'
    <3>1. uses' \in [Allocation -> [pc : {"new", "created", "running", "released"},
                                   image : {{}} \cup {{j} : j \in Image}]]
      BY <1>0, <2>1
    <3>2. mounts' \in [Image -> [refcount : Nat \cup {-1}, hold_start : Nat \cup {-1}]]
      BY <1>0, <2>1, <2>2, Zenon
    <3>. QED BY <1>0, <2>1, <3>1, <3>2, Zenon DEF HandoffInv, HandoffTypeOK
  <2>4. /\ a \notin Users(i) /\ Users(i)' = Users(i) \cup {a}
        /\ \A j \in Image \ {i} : Users(j)' = Users(j)
    <3>1. /\ uses'[a] = [pc |-> "running", image |-> {i}]
          /\ \A b \in Allocation \ {a} : uses'[b] = uses[b]
      BY <1>0, <2>1
    <3>2. \A j \in Image \ {i} : uses[a] # [pc |-> "running", image |-> {j}]
                               /\ uses'[a] # [pc |-> "running", image |-> {j}]
      BY <2>1, <3>1
    <3>3. ASSUME NEW j \in Image \ {i} PROVE Users(j)' = Users(j)
      BY <3>1, <3>2, <3>3 DEF Users
    <3>4. a \notin Users(i) /\ Users(i)' = Users(i) \cup {a}
      BY <2>1, <3>1 DEF Users
    <3>. QED BY <3>3, <3>4
  <2>5. Cardinality(Users(i)') = Cardinality(Users(i)) + 1
    BY <2>4, UsersFinite, FS_AddElement, Zenon
  <2>6. ASSUME i \notin forced PROVE CountsExact(i)'
    <3>1. m.refcount = Cardinality(Users(i)) + 1
      <4>1. CASE i \in mounted
        <5>1. mounts[i].refcount = Cardinality(Users(i))
          BY <1>0, <2>6, <4>1, Zenon DEF CountsExact
        <5>. QED BY <5>1, UsersFinite
      <4>2. CASE i \notin mounted
        <5>1. mounts[i].refcount = -1 /\ Users(i) = {}
          BY <1>0, <2>6, <4>2 DEF CountsExact, NoMount
        <5>2. Cardinality(Users(i)) = 0
          BY <5>1, UsersFinite
        <5>. QED BY <5>1, <5>2
      <4>. QED BY <4>1, <4>2
    <3>2. mounts'[i] = m /\ m # NoMount
      BY <1>0, <2>1, <2>2 DEF NoMount
    <3>3. ~(m.hold_start >= idleSince[i])
      BY <1>0
    <3>. HIDE DEF m
    <3>. QED BY <2>1, <2>2, <2>5, <3>1, <3>2, <3>3, Zenon DEF CountsExact
  <2>7. \A j \in Image \ {i} : CountsExact(j) => CountsExact(j)'
    BY <1>0, <2>1, <2>4, Zenon DEF CountsExact
  <2>. QED BY <1>0, <2>1, <2>3, <2>6, <2>7, Zenon DEF HandoffInv
<1>4. ASSUME NEW a \in Allocation, NEW i \in Image, release(a, i)
      PROVE  HandoffInv'
  <2>. DEFINE m == IF mounts[i].refcount <= 0 THEN mounts[i]
                   ELSE [refcount |-> mounts[i].refcount - 1,
                         hold_start |-> IF mounts[i].refcount = 1 THEN handoffNow
                                        ELSE mounts[i].hold_start]
  <2>1. /\ uses[a] = [pc |-> "running", image |-> {i}]
        /\ mounts' = [mounts EXCEPT ![i] = m]
        /\ idleSince' = [idleSince EXCEPT ![i] = handoffNow]
        /\ uses' = [uses EXCEPT ![a] = [pc |-> "released", image |-> {i}]]
        /\ UNCHANGED <<ready, allocations, writer, mounted, ended, forced, handoffNow>>
    <3>1. /\ uses[a] = [pc |-> "running", image |-> {i}]
          /\ uses' = [uses EXCEPT ![a].pc = "released"]
      BY <1>4 DEF release, UseAt
    <3>2. uses' = [uses EXCEPT ![a] = [uses[a] EXCEPT !.pc = "released"]]
      BY <3>1
    <3>3. [uses[a] EXCEPT !.pc = "released"] = [pc |-> "released", image |-> {i}]
      BY <3>1
    <3>. QED BY <1>4, <3>1, <3>2, <3>3, Zenon DEF release
  <2>2. m \in [refcount : Nat \cup {-1}, hold_start : Nat \cup {-1}]
    BY <1>0
  <2>. HIDE DEF m
  <2>3. HandoffTypeOK'
    <3>1. uses' \in [Allocation -> [pc : {"new", "created", "running", "released"},
                                   image : {{}} \cup {{j} : j \in Image}]]
      BY <1>0, <2>1, Zenon
    <3>2. mounts' \in [Image -> [refcount : Nat \cup {-1}, hold_start : Nat \cup {-1}]]
      BY <1>0, <2>1, <2>2
    <3>. QED BY <1>0, <2>1, <3>1, <3>2, Zenon DEF HandoffInv, HandoffTypeOK
  <2>4. /\ a \in Users(i) /\ Users(i)' = Users(i) \ {a}
        /\ \A j \in Image \ {i} : Users(j)' = Users(j)
    <3>1. /\ uses'[a] = [pc |-> "released", image |-> {i}]
          /\ \A b \in Allocation \ {a} : uses'[b] = uses[b]
      BY <1>0, <2>1, Zenon
    <3>2. \A j \in Image \ {i} : uses[a] # [pc |-> "running", image |-> {j}]
                               /\ uses'[a] # [pc |-> "running", image |-> {j}]
      BY <2>1, <3>1
    <3>3. ASSUME NEW j \in Image \ {i} PROVE Users(j)' = Users(j)
      BY <3>1, <3>2, <3>3 DEF Users
    <3>4. a \in Users(i) /\ Users(i)' = Users(i) \ {a}
      BY <2>1, <3>1 DEF Users
    <3>. QED BY <3>3, <3>4
  <2>5. Cardinality(Users(i)') = Cardinality(Users(i)) - 1
    BY <2>4, UsersFinite, FS_RemoveElement, ZenonT(30)
  <2>6. ASSUME i \notin forced PROVE CountsExact(i)'
    <3>1. /\ i \in mounted /\ mounts[i] # NoMount
          /\ mounts[i].refcount = Cardinality(Users(i)) /\ mounts[i].refcount \in Nat \ {0}
          /\ ~(mounts[i].hold_start >= idleSince[i])
      BY <1>0, <2>4, <2>6, UsersFinite, Zenon DEF CountsExact
    <3>2. /\ m.refcount = mounts[i].refcount - 1
          /\ m.hold_start = IF mounts[i].refcount = 1 THEN handoffNow ELSE mounts[i].hold_start
      BY <3>1 DEF m
    <3>3. mounts'[i] = m /\ idleSince'[i] = handoffNow
      BY <1>0, <2>1, Zenon
    <3>4. (m.refcount = 0) <=> (m.hold_start >= handoffNow)
      BY <1>0, <3>1, <3>2
    <3>5. m # NoMount
      BY <3>1, <3>2 DEF NoMount
    <3>. QED BY <2>1, <2>5, <3>1, <3>2, <3>3, <3>4, <3>5, Zenon DEF CountsExact
  <2>7. \A j \in Image \ {i} : CountsExact(j) => CountsExact(j)'
    BY <1>0, <2>1, <2>4, Zenon DEF CountsExact
  <2>. QED BY <1>0, <2>1, <2>3, <2>6, <2>7 DEF HandoffInv
<1>5. ASSUME NEW i \in Image, force_unmount(i)
      PROVE  HandoffInv'
  <2>1. /\ mounts' = [mounts EXCEPT ![i] = NoMount] /\ mounted' = mounted \ {i}
        /\ forced' = IF Users(i) # {} THEN forced \cup {i} ELSE forced
        /\ UNCHANGED <<ready, allocations, writer, uses, ended, idleSince, handoffNow>>
    BY <1>5 DEF force_unmount
  <2>2. HandoffTypeOK'
    BY <1>0, <2>1, Zenon DEF HandoffInv, HandoffTypeOK, NoMount
  <2>3. \A j \in Image : Users(j)' = Users(j)
    BY <2>1, Zenon DEF Users
  <2>4. ASSUME NEW j \in Image \ forced' PROVE CountsExact(j)'
    <3>1. CASE j = i
      BY <1>0, <2>1, <2>3, <2>4, <3>1, Zenon DEF CountsExact
    <3>2. CASE j # i
      BY <1>0, <2>1, <2>3, <2>4, <3>2, Zenon DEF CountsExact
    <3>. QED BY <3>1, <3>2
  <2>. QED BY <1>0, <2>1, <2>2, <2>4, Zenon DEF HandoffInv
<1>6. ASSUME check_expired_holds
      PROVE  HandoffInv'
  <2>. DEFINE expired == {i \in Image : HoldExpired(i)}
  <2>1. /\ mounts' = [i \in Image |-> IF i \in expired THEN NoMount ELSE mounts[i]]
        /\ mounted' = mounted \ expired
        /\ UNCHANGED <<ready, allocations, writer, uses, ended, forced, idleSince, handoffNow>>
    BY <1>6 DEF check_expired_holds
  <2>2. HandoffTypeOK'
    BY <1>0, <2>1, Zenon DEF HandoffInv, HandoffTypeOK, NoMount
  <2>3. \A j \in Image : Users(j)' = Users(j)
    BY <2>1 DEF Users
  <2>4. ASSUME NEW j \in Image \ forced PROVE CountsExact(j)'
    <3>1. CASE j \in expired
      <4>1. mounts[j].refcount = 0 /\ mounts[j] # NoMount
        BY <3>1 DEF HoldExpired, NoMount
      <4>2. Users(j) = {}
        BY <1>0, <4>1, UsersFinite DEF CountsExact
      <4>3. mounts'[j] = NoMount /\ j \notin mounted'
        BY <2>1, <3>1
      <4>. QED BY <2>3, <4>2, <4>3 DEF CountsExact
    <3>2. CASE j \notin expired
      <4>1. mounts'[j] = mounts[j] /\ (j \in mounted' <=> j \in mounted)
        BY <2>1, <3>2
      <4>. QED BY <1>0, <2>1, <2>3, <4>1, Zenon DEF CountsExact
    <3>. QED BY <3>1, <3>2
  <2>. QED BY <1>0, <2>1, <2>2, <2>4, Zenon DEF HandoffInv
<1>7. ASSUME reconstruct
      PROVE  HandoffInv'
  <2>1. /\ mounts' = [i \in Image |->
               IF i \notin mounted THEN NoMount
               ELSE [refcount |-> Cardinality(Users(i)),
                     hold_start |-> IF Users(i) = {} THEN handoffNow ELSE -1]]
        /\ ready' = FALSE /\ allocations' = {} /\ writer' = {}
        /\ UNCHANGED <<mounted, uses, ended, forced, idleSince, handoffNow>>
    BY <1>7 DEF reconstruct
  <2>2. mounts' \in [Image -> [refcount : Nat \cup {-1}, hold_start : Nat \cup {-1}]]
    BY <1>0, <2>1, UsersFinite, Zenon DEF NoMount
  <2>3. HandoffTypeOK'
    BY <1>0, <2>1, <2>2, Zenon DEF HandoffInv, HandoffTypeOK
  <2>4. \A j \in Image : Users(j)' = Users(j)
    BY <2>1, Zenon DEF Users
  <2>5. ASSUME NEW j \in Image \ forced PROVE CountsExact(j)'
    <3>1. CASE j \notin mounted
      BY <1>0, <2>1, <2>4, <3>1, Zenon DEF CountsExact
    <3>2. CASE j \in mounted
      <4>1. /\ mounts'[j].refcount = Cardinality(Users(j))
            /\ mounts'[j].hold_start = IF Users(j) = {} THEN handoffNow ELSE -1
        BY <2>1, <3>2
      <4>2. (mounts'[j].refcount = 0) <=> (mounts'[j].hold_start >= idleSince[j])
        BY <1>0, <4>1, UsersFinite
      <4>3. mounts'[j] # NoMount
        BY <4>1, UsersFinite DEF NoMount
      <4>. QED BY <2>1, <2>4, <3>2, <4>1, <4>2, <4>3, Zenon DEF CountsExact
    <3>. QED BY <3>1, <3>2
  <2>. QED BY <1>0, <2>1, <2>3, <2>5, Zenon DEF HandoffInv
<1>. QED BY <1>1, <1>2, <1>3, <1>4, <1>5, <1>6, <1>7 DEF HandoffNext

\* WI2, WI3 and WI6: acquire, release, the hold timer, force_unmount and reconstruct
\* keep the count of every image equal to its users, and only an emergency takes a
\* mount away before its hold is over.
THEOREM MountsAreAccounted == HandoffSpec => MountsAccounted
<1>1. HandoffInit => HandoffInv
  <2>. SUFFICES ASSUME HandoffInit PROVE HandoffInv
    OBVIOUS
  <2>1. HandoffTypeOK
    <3>1. NoMount \in [refcount : Nat \cup {-1}, hold_start : Nat \cup {-1}]
      BY DEF NoMount
    <3>2. [pc |-> "new", image |-> {}] \in [pc : {"new", "created", "running", "released"},
                                           image : {{}} \cup {{i} : i \in Image}]
      OBVIOUS
    <3>3. mounts \in [Image -> [refcount : Nat \cup {-1}, hold_start : Nat \cup {-1}]]
      BY <3>1, Zenon DEF HandoffInit
    <3>4. uses \in [Allocation -> [pc : {"new", "created", "running", "released"},
                                  image : {{}} \cup {{i} : i \in Image}]]
      BY <3>2, Zenon DEF HandoffInit
    <3>5. idleSince \in [Image -> Nat] /\ handoffNow \in 0..HandoffHorizon
      BY HandoffAssumption DEF HandoffInit
    <3>. QED BY <3>3, <3>4, <3>5, Zenon DEF HandoffInit, HandoffTypeOK
  <2>2. \A i \in Image : Users(i) = {}
    BY DEF HandoffInit, Users
  <2>. QED BY <2>1, <2>2 DEF HandoffInit, HandoffInv, CountsExact
<1>2. HandoffInv => \A i \in Image \ forced : CountsExact(i)
  BY DEF HandoffInv
<1>3. ASSUME HandoffInv, [HandoffNext]_handoffVars, NEW i \in (mounted \ mounted') \ forced
      PROVE  force_unmount(i) \/ handoffNow - idleSince[i] >= hold_duration
  <2>1. i \in Image /\ i \in mounted /\ CountsExact(i)
    BY <1>3 DEF HandoffInv, HandoffTypeOK
  <2>2. CASE check_expired_holds
    <3>1. HoldExpired(i)
      BY <1>3, <2>1, <2>2 DEF check_expired_holds
    <3>2. mounts[i].hold_start >= idleSince[i] /\ mounts[i].hold_start \in Int
      BY <1>3, <2>1, <3>1 DEF HoldExpired, CountsExact, HandoffInv, HandoffTypeOK
    <3>3. idleSince[i] \in Int /\ handoffNow \in Int /\ hold_duration \in Int
      BY <1>3, <2>1, HandoffAssumption DEF HandoffInv, HandoffTypeOK
    <3>. QED BY <3>1, <3>2, <3>3 DEF HoldExpired
  <2>3. ASSUME NEW j \in Image, force_unmount(j) PROVE force_unmount(i)
    BY <1>3, <2>1, <2>3, Zenon DEF force_unmount
  <2>4. ASSUME ~check_expired_holds, ~\E j \in Image : force_unmount(j) PROVE FALSE
    BY <1>3, <2>1, <2>4, Zenon
       DEF HandoffNext, handoffVars, set_ready, create_namespaces, acquire, release, AllocationEnds,
           on_allocation_ended, release_namespaces, reconstruct, HandoffTick
  <2>. QED BY <2>2, <2>3, <2>4
<1>4. HandoffInv /\ [HandoffNext]_handoffVars =>
         [\A i \in (mounted \ mounted') \ forced :
             force_unmount(i) \/ handoffNow - idleSince[i] >= hold_duration]_handoffVars
  BY <1>3
<1>. QED BY <1>1, <1>2, <1>4, HandoffStepInv, PTL DEF HandoffSpec, MountsAccounted

=============================================================================
