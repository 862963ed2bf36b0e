---------------------------- MODULE MCAgentParts ----------------------------
(***************************************************************************)
(* The parts of a running agent that share no state with one another, side *)
(* by side: exec with the commit window, interactive sessions, workload    *)
(* handoff with its mounts, cgroup scopes, conflicts after a partition,    *)
(* and POSIX identities.  A behaviour takes the steps of one of them.      *)
(***************************************************************************)
EXTENDS ShellExec, ShellSessions, Handoff, Cgroups, Conflicts, IdentityMap, TLC

VARIABLE agentPart

agentVars ==
    <<execVars, sessionVars, handoffVars, cgroupVars, conflictVars, identityVars, agentPart>>

AgentInit ==
    /\ agentPart \in {"exec", "sessions", "handoff", "cgroups", "conflicts", "identity"}
    /\ ExecInit /\ SessionsInit /\ HandoffInit /\ CgroupInit /\ ConflictInit
    /\ IdentityInit
    /\ agentPart # "exec" => enforcement = "enforce"
    /\ agentPart # "cgroups" => hasKill

\* Each part's steps leave the others alone.
ExecPart(A) ==
    agentPart = "exec" /\ A
        /\ UNCHANGED <<sessionVars, handoffVars, cgroupVars, conflictVars, identityVars, agentPart>>
SessionsPart(A) ==
    agentPart = "sessions" /\ A
        /\ UNCHANGED <<execVars, handoffVars, cgroupVars, conflictVars, identityVars, agentPart>>
HandoffStep ==
    agentPart = "handoff" /\ HandoffNext
        /\ UNCHANGED <<execVars, sessionVars, cgroupVars, conflictVars, identityVars, agentPart>>
CgroupStep ==
    agentPart = "cgroups" /\ CgroupNext
        /\ UNCHANGED <<execVars, sessionVars, handoffVars, conflictVars, identityVars, agentPart>>
ConflictStep ==
    agentPart = "conflicts" /\ ConflictNext
        /\ UNCHANGED <<execVars, sessionVars, handoffVars, cgroupVars, identityVars, agentPart>>
IdentityStep ==
    agentPart = "identity" /\ IdentityNext
        /\ UNCHANGED <<execVars, sessionVars, handoffVars, cgroupVars, conflictVars, agentPart>>

AgentNext ==
    \/ ExecPart(ExecNext) \/ SessionsPart(SessionsNext)
    \/ HandoffStep \/ CgroupStep \/ ConflictStep \/ IdentityStep

\* Time passes and tokio polls the timer's task; nothing else is promised of exec.
TimerFairness ==
    /\ WF_agentVars(ExecPart(Tick))
    /\ WF_agentVars(ExecPart(TimerTick)) /\ WF_agentVars(ExecPart(TimerExpire))

\* Tokio polls the tasks of a session; neither the client nor the shell has to do
\* anything, but a client that has closed its side reads what is left or disconnects,
\* so the last send does not wait for ever.
SessionFairness ==
    \A s \in Session :
        WF_agentVars(SessionsPart(SetupStep(s))) /\ WF_agentVars(SessionsPart(Cleanup(s)))

AgentSpec == AgentInit /\ [][AgentNext]_agentVars /\ TimerFairness /\ SessionFairness

-----------------------------------------------------------------------------
(* The constants of the run.                                               *)
Config(base, sensitivity, emergency) ==
    [base_window_seconds |-> base, drift_sensitivity |-> sensitivity,
     emergency_window_seconds |-> emergency]

\* A window that the clamp lengthens, one above it, and a short emergency window.
MCBootConfig == Config(2, 1, 3)
MCWindowConfig == {MCBootConfig, Config(3, 0, 0)}
\* Two subjects of one organisation and one of another.
MCOrgOf == [u1 |-> "oa", u2 |-> "oa", u3 |-> "ob"]
MCWhitelist == [ls |-> FALSE, mount |-> TRUE]
=============================================================================
