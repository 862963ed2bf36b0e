SPECIFICATION AgentSpec
CONSTANTS
    None = None
    WindowConfig <- MCWindowConfig
    BootConfig <- MCBootConfig
    MIN_SECONDS = 2
    Admin = {"a1"}
    MaxTime = 3
    Exec = {"e1"}
    Command = {"ls", "mount", "vi"}
    Whitelist <- MCWhitelist
    learning_mode = TRUE
    Minutes = {1, 5}
    MINUTE_SECONDS = 1
    U32 = 4
    Session = {"s1", "s2", "s3"}
    max_sessions = 2
    AllowDrop = TRUE
    Allocation = {"w1", "w2"}
    Image = {"i1"}
    hold_duration = 1
    HandoffHorizon = 3
    Scope = {"c1"}
    ForeignScope = {}
    Process = {"p1", "p2", "p3"}
    ConfigKey = {"k1", "k2"}
    ConfigValue = {1, 2}
    grace_period = 1
    ConflictHorizon = 2
    Org = {"oa", "ob"}
    Subject = {"u1", "u2", "u3"}
    OrgOf <- MCOrgOf
    OrgIndexes = {0, 1}
    base_uid = 10
    stride = 1
    UID_WIDTH = 12
PROPERTY SuspendedInEmergency
CHECK_DEADLOCK FALSE
