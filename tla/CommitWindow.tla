----------------------------- MODULE CommitWindow -----------------------------
(***************************************************************************)
(* The agent's CommitWindowManager and EmergencyManager                    *)
(* (pact-agent/src/commit, pact-agent/src/emergency).  Each is behind a    *)
(* lock of its own, so a method is one step and two methods are two.       *)
(* Durations are whole seconds in small numbers and a drift sensitivity is *)
(* a natural number.  Left out: the times at which a window was opened and *)
(* an emergency began and goes stale, which no code of the agent reads.    *)
(***************************************************************************)
EXTENDS Integers, FiniteSets

CONSTANTS
    None,
    WindowConfig,       \* CommitWindowConfig values: the boot one and policies'
    BootConfig,         \* the one the agent boots with
    MIN_SECONDS,        \* 60
    Admin,              \* principals
    MaxTime             \* bound on the clock

Seconds == Nat

ASSUME WindowAssumption ==
    /\ WindowConfig \subseteq [base_window_seconds : Seconds, drift_sensitivity : Nat,
                               emergency_window_seconds : Seconds]
    /\ BootConfig \in WindowConfig
    /\ MIN_SECONDS \in Nat \ {0}
    /\ MaxTime \in Nat
    /\ None \notin Admin

VARIABLES
    now,        \* Utc::now()
    cw,         \* CommitWindowManager
    em          \* EmergencyManager: started_by, or None when Inactive

WindowTypeOK ==
    /\ now \in 0..MaxTime
    /\ cw \in [config : WindowConfig, state : {"Idle", "Open", "Expired"},
               deadline : Nat, emergency : BOOLEAN]
    /\ em \in Admin \cup {None}

WindowInit ==
    /\ now = 0
    /\ cw = [config |-> BootConfig, state |-> "Idle", deadline |-> 0, emergency |-> FALSE]
    /\ em = None

-----------------------------------------------------------------------------
\* f64::max, i64::max
MaxOf(a, b) == IF a >= b THEN a ELSE b

\* Variant for sensitivity checks: the clamp is missing.
calculate_window_seconds_Unclamped(config, magnitude) ==
    config.base_window_seconds \div (1 + magnitude * config.drift_sensitivity)

calculate_window_seconds(config, magnitude) ==
    MaxOf(config.base_window_seconds \div (1 + magnitude * config.drift_sensitivity), MIN_SECONDS)

Closed(w) == [w EXCEPT !.state = "Idle", !.deadline = 0]

update_config(w, config) == [w EXCEPT !.config = config]

\* open on an open window moves the deadline, forward or back.
open(w, magnitude) ==
    [w EXCEPT !.state = "Open",
              !.deadline = now + IF w.emergency THEN w.config.emergency_window_seconds
                                 ELSE calculate_window_seconds(w.config, magnitude)]

\* Variant for sensitivity checks: the window expires after its deadline, not at it.
check_expired_Late(w) ==
    IF w.state = "Open" /\ now > w.deadline /\ ~w.emergency
    THEN [w EXCEPT !.state = "Expired"] ELSE w

check_expired(w) ==
    IF w.state = "Open" /\ now >= w.deadline /\ ~w.emergency
    THEN [w EXCEPT !.state = "Expired"] ELSE w

\* rollback_with_check; commit() and rollback() close without the check.
rollback_with_check(w, active_consumers) == IF active_consumers > 0 THEN w ELSE Closed(w)

extend(w, seconds) == IF w.state = "Open" THEN [w EXCEPT !.deadline = @ + seconds] ELSE w

seconds_remaining(w) == IF w.state = "Open" THEN MaxOf(w.deadline - now, 0) ELSE 0

enter_emergency(w) ==
    IF w.state = "Open"
    THEN [w EXCEPT !.emergency = TRUE,
                   !.deadline = now + w.config.emergency_window_seconds]
    ELSE [w EXCEPT !.emergency = TRUE]

exit_emergency(w) == [w EXCEPT !.emergency = FALSE]

-----------------------------------------------------------------------------
is_active == em # None

start(actor) == ~is_active /\ em' = actor

end(actor, force) ==
    /\ is_active
    /\ force \/ em = actor
    /\ em' = None
=============================================================================
