SPECIFICATION SessionsSpec
CONSTANTS
    Session = {"s1"}
    max_sessions = 1
    AllowDrop = FALSE
INVARIANTS
    ShellKilledOnClose
CHECK_DEADLOCK FALSE
