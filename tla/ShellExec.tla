------------------------------ MODULE ShellExec ------------------------------
(***************************************************************************)
(* What happens to the agent's commit window: pact exec                    *)
(* (pact-agent/src/shell/mod.rs, exec.rs, whitelist.rs, auth.rs),          *)
(* extend_commit_window (shell/grpc_service.rs), the handler of policy     *)
(* changes and the auto-rollback timer (boot/mod.rs), and emergency mode.  *)
(* The handlers await between their steps and interleave there; exec runs  *)
(* in a task of its own, so a client that leaves does not stop it.         *)
(***************************************************************************)
EXTENDS CommitWindow

CONSTANTS
    Exec,               \* exec calls in flight
    Command,            \* command names
    Whitelist,          \* exec_whitelist: command -> is it state changing?
    learning_mode,
    Minutes,            \* values of additional_minutes
    MINUTE_SECONDS,     \* 60
    U32                 \* 2^32: the product of minutes and 60 is a u32

ASSUME ExecAssumption ==
    /\ DOMAIN Whitelist \subseteq Command
    /\ \A c \in DOMAIN Whitelist : Whitelist[c] \in BOOLEAN
    /\ learning_mode \in BOOLEAN
    /\ Minutes \subseteq Nat /\ MINUTE_SECONDS \in Nat \ {0} /\ U32 \in Nat \ {0}

VARIABLES
    enforcement,        \* enforcement_mode, fixed at boot
    timer,              \* "tick", or "checked": past the emergency check
    execs,              \* Exec -> the call's local state
    denied_commands,
    policy,             \* the policy whose window is already in force, or None
    cached_policy,
    operators,          \* Admin -> which of its two emergency calls is next
    history             \* what the properties compare with; no action reads it

execVars == <<now, cw, em, enforcement, timer, execs, denied_commands, policy,
              cached_policy, operators, history>>

\* A role as this node's vCluster sees it; a role for another vCluster is "other".
Role == {"platform-admin", "ops", "viewer", "other"}

NoCall == [pc |-> "idle", command |-> None, changing |-> FALSE]
CallRecord == [pc : {"idle", "denied", "run", "append", "open", "answered"},
               command : Command \cup {None}, changing : BOOLEAN]

\* grace: no automatic rollback is due before this time.  changed, windowed: calls
\* whose state-changing command ended, and whose window was opened.
HistoryRecord == [grace : Nat, changed : SUBSET Exec, windowed : SUBSET Exec]

ExecTypeOK ==
    /\ WindowTypeOK
    /\ enforcement \in {"observe", "enforce"}
    /\ timer \in {"tick", "checked"}
    /\ execs \in [Exec -> CallRecord]
    /\ denied_commands \subseteq Command \ DOMAIN Whitelist
    /\ policy \in WindowConfig \cup {None}
    /\ cached_policy \in WindowConfig \cup {None}
    /\ operators \in [Admin -> {"idle", "enter", "exit"}]
    /\ history \in HistoryRecord

ExecInit ==
    /\ WindowInit
    /\ enforcement \in {"observe", "enforce"}
    /\ timer = "tick"
    /\ execs = [e \in Exec |-> NoCall]
    /\ denied_commands = {}
    /\ policy = None /\ cached_policy = None
    /\ operators = [a \in Admin |-> "idle"]
    /\ history = [grace |-> 0, changed |-> {}, windowed |-> {}]

-----------------------------------------------------------------------------
is_platform_admin(role) == role = "platform-admin"
has_ops_role(role) == role \in {"platform-admin", "ops"}
has_viewer_role(role) == has_ops_role(role) \/ role = "viewer"

is_exec_allowed(command) == command \in DOMAIN Whitelist
is_state_changing(command) == is_exec_allowed(command) /\ Whitelist[command]

\* authorize_exec returns Ok; what an administrator runs outside the whitelist
\* counts as state changing.
Authorized(role, command) ==
    IF ~is_exec_allowed(command) THEN is_platform_admin(role)
    ELSE has_ops_role(role) \/ (has_viewer_role(role) /\ ~is_state_changing(command))

Changing(command) == ~is_exec_allowed(command) \/ is_state_changing(command)

Goto(e, pc) == execs' = [execs EXCEPT ![e].pc = pc]

\* authenticate, authorize_exec and validate_args pass: the command is spawned.
ExecStart(e, role, command) ==
    /\ execs[e].pc = "idle"
    /\ Authorized(role, command)
    /\ execs' = [execs EXCEPT ![e] = [pc |-> "run", command |-> command,
                                       changing |-> Changing(command)]]
    /\ history' = [history EXCEPT !.changed = @ \ {e}, !.windowed = @ \ {e}]
    /\ UNCHANGED <<now, cw, em, enforcement, timer, denied_commands, policy, cached_policy,
                   operators>>

\* Not whitelisted: the read lock is given back before the write lock is taken.
ExecDenied(e, role, command) ==
    /\ execs[e].pc = "idle"
    /\ ~is_exec_allowed(command) /\ ~is_platform_admin(role)
    /\ execs' = [execs EXCEPT ![e] = [pc |-> "denied", command |-> command, changing |-> FALSE]]
    /\ UNCHANGED <<now, cw, em, enforcement, timer, denied_commands, policy, cached_policy,
                   operators, history>>

record_denied(e) ==
    /\ execs[e].pc = "denied"
    /\ denied_commands' = denied_commands \cup IF learning_mode THEN {execs[e].command} ELSE {}
    /\ execs' = [execs EXCEPT ![e] = NoCall]
    /\ UNCHANGED <<now, cw, em, enforcement, timer, policy, cached_policy, operators, history>>

\* execute_command returns an ExecResult, whatever the exit code.
ExecDone(e) ==
    /\ execs[e].pc = "run"
    /\ Goto(e, "append")
    /\ history' = [history EXCEPT !.changed = IF execs[e].changing THEN @ \cup {e} ELSE @]
    /\ UNCHANGED <<now, cw, em, enforcement, timer, denied_commands, policy, cached_policy,
                   operators>>

\* It does not start, or is killed after timeout_seconds: the call ends with the
\* error, without a journal entry and without a window.
ExecFails(e) ==
    /\ execs[e].pc = "run"
    /\ execs' = [execs EXCEPT ![e] = NoCall]
    /\ UNCHANGED <<now, cw, em, enforcement, timer, denied_commands, policy, cached_policy,
                   operators, history>>

\* Variant for sensitivity checks: an exec the journal did not log is answered at once.
ExecLogged_OrAnswered(e) ==
    /\ execs[e].pc = "append"
    /\ Goto(e, "open") \/ Goto(e, "answered")
    /\ UNCHANGED <<now, cw, em, enforcement, timer, denied_commands, policy, cached_policy,
                   operators, history>>

\* The ExecLog entry is appended, or the append fails and is only logged, or the
\* agent has no journal connection.
ExecLogged(e) ==
    /\ execs[e].pc = "append"
    /\ Goto(e, "open")
    /\ UNCHANGED <<now, cw, em, enforcement, timer, denied_commands, policy, cached_policy,
                   operators, history>>

\* A window opened in normal mode lasts MIN_SECONDS at least.
Grace(w) == IF w.emergency THEN 0 ELSE now + MIN_SECONDS

ExecOpen(e) ==
    /\ execs[e].pc = "open"
    /\ Goto(e, "answered")
    /\ IF execs[e].changing
       THEN /\ cw' = open(cw, 1)
            /\ history' = [history EXCEPT !.windowed = @ \cup {e}, !.grace = Grace(cw)]
       ELSE UNCHANGED <<cw, history>>
    /\ UNCHANGED <<now, em, enforcement, timer, denied_commands, policy, cached_policy, operators>>

ExecReturn(e) ==
    /\ execs[e].pc = "answered"
    /\ execs' = [execs EXCEPT ![e] = NoCall]
    /\ UNCHANGED <<now, cw, em, enforcement, timer, denied_commands, policy, cached_policy,
                   operators, history>>

-----------------------------------------------------------------------------
\* extend_commit_window: minutes of 0 are refused; the product wraps.
ExtendCommitWindow(mins) ==
    /\ mins > 0
    /\ cw' = extend(cw, (mins * MINUTE_SECONDS) % U32)
    /\ cw'.deadline <= MaxTime + 1
    /\ UNCHANGED <<now, em, enforcement, timer, execs, denied_commands, policy, cached_policy,
                   operators, history>>

\* handle_config_action(PolicyChanged), run by one task: the window's
\* configuration, then the cached policy.
PolicyChanged(p) ==
    /\ policy = None
    /\ cw' = update_config(cw, p)
    /\ policy' = p
    /\ UNCHANGED <<now, em, enforcement, timer, execs, denied_commands, cached_policy, operators,
                   history>>

PolicyCached ==
    /\ policy # None
    /\ cached_policy' = policy
    /\ policy' = None
    /\ UNCHANGED <<now, cw, em, enforcement, timer, execs, denied_commands, operators, history>>

-----------------------------------------------------------------------------
\* The auto-rollback loop: a tick, then the check of the emergency manager ...
TimerTick ==
    /\ timer = "tick"
    /\ enforcement # "observe"
    /\ ~is_active
    /\ timer' = "checked"
    /\ UNCHANGED <<now, cw, em, enforcement, execs, denied_commands, policy, cached_policy,
                   operators, history>>

\* ... and, under the window's lock, the expiry and the rollback.
TimerExpire ==
    /\ timer = "checked"
    /\ timer' = "tick"
    /\ LET w == check_expired(cw)
       IN  cw' = IF w.state = "Expired" THEN rollback_with_check(w, 0) ELSE w
    /\ UNCHANGED <<now, em, enforcement, execs, denied_commands, policy, cached_policy, operators,
                   history>>

-----------------------------------------------------------------------------
\* An administrator commits or rolls back.
Close ==
    /\ cw' = Closed(cw)
    /\ UNCHANGED <<now, em, enforcement, timer, execs, denied_commands, policy, cached_policy,
                   operators, history>>

\* Emergency mode is entered and left with a call of each manager, in this order.
EmergencyStart(a) ==
    /\ operators[a] = "idle"
    /\ start(a)
    /\ operators' = [operators EXCEPT ![a] = "enter"]
    /\ UNCHANGED <<now, cw, enforcement, timer, execs, denied_commands, policy, cached_policy,
                   history>>

EmergencyEnter(a) ==
    /\ operators[a] = "enter"
    /\ cw' = enter_emergency(cw)
    /\ operators' = [operators EXCEPT ![a] = "idle"]
    /\ history' = [history EXCEPT !.grace = 0]
    /\ UNCHANGED <<now, em, enforcement, timer, execs, denied_commands, policy, cached_policy>>

EmergencyEnd(a, force) ==
    /\ operators[a] = "idle"
    /\ end(a, force)
    /\ operators' = [operators EXCEPT ![a] = "exit"]
    /\ UNCHANGED <<now, cw, enforcement, timer, execs, denied_commands, policy, cached_policy,
                   history>>

EmergencyExit(a) ==
    /\ operators[a] = "exit"
    /\ cw' = exit_emergency(cw)
    /\ operators' = [operators EXCEPT ![a] = "idle"]
    /\ UNCHANGED <<now, em, enforcement, timer, execs, denied_commands, policy, cached_policy,
                   history>>

Tick ==
    /\ now < MaxTime
    /\ now' = now + 1
    /\ UNCHANGED <<cw, em, enforcement, timer, execs, denied_commands, policy, cached_policy,
                   operators, history>>

ExecNext ==
    \/ \E e \in Exec, r \in Role, c \in Command : ExecStart(e, r, c) \/ ExecDenied(e, r, c)
    \/ \E e \in Exec : \/ record_denied(e) \/ ExecDone(e) \/ ExecFails(e)
                       \/ ExecLogged(e) \/ ExecOpen(e) \/ ExecReturn(e)
    \/ \E m \in Minutes : ExtendCommitWindow(m)
    \/ \E p \in WindowConfig : PolicyChanged(p)
    \/ PolicyCached
    \/ TimerTick \/ TimerExpire
    \/ Close
    \/ \E a \in Admin : \/ EmergencyStart(a) \/ EmergencyEnter(a) \/ EmergencyExit(a)
                        \/ \E f \in BOOLEAN : EmergencyEnd(a, f)
    \/ Tick

ExecSpec == ExecInit /\ [][ExecNext]_execVars

-----------------------------------------------------------------------------
\* The timer closes the window in this step.
AutoRollback == timer = "checked" /\ timer' = "tick" /\ cw.state # "Idle" /\ cw'.state = "Idle"

\* D5 and commit/mod.rs: an automatic rollback never comes in observe mode, never while
\* the window is in emergency mode, and never less than the minimum window after the
\* last state-changing exec, whatever was extended or reconfigured in between.  Entering
\* emergency mode gives up that grace, because it replaces the deadline by the
\* emergency window, which has no minimum.  The window is in emergency mode from
\* enter_emergency on, not from the declaration: see SuspendedInEmergency.
RollbackJustified ==
    [][AutoRollback => /\ enforcement # "observe"
                       /\ now >= history.grace
                       /\ ~cw.emergency]_execVars

\* boot/mod.rs, of the auto-rollback loop: "Emergency mode suspends auto-rollback (A4
\* exception)": while an emergency is declared there is no automatic rollback.
SuspendedInEmergency == [][AutoRollback => ~is_active]_execVars

\* S5: outside observe mode, when a state-changing exec is answered with its result, its
\* window has been opened, whether or not the journal could be told of it.  In observe
\* mode the code opens one too, where D5 wants none: nothing is claimed of that mode.
ChangesWindowed ==
    enforcement # "observe" =>
        \A e \in Exec :
            execs[e].pc = "answered" /\ e \in history.changed => e \in history.windowed

\* A4: outside observe mode, a window whose deadline comes does not stay open unless
\* an emergency, or the flag one has left, holds it: again and again none is due.
WindowCloses ==
    LET Due == enforcement # "observe" /\ cw.state = "Open" /\ cw.deadline <= MaxTime
    IN  []<>(~Due \/ is_active \/ cw.emergency)
=============================================================================
