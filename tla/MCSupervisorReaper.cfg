SPECIFICATION SupervisorFairSpec
CONSTANTS
    Service = {"s1"}
    Process = {"p1", "p2"}
    Caller = {"c1"}
    order <- Order
    Decls <- DeclSets
    Pid1 = TRUE
    None = None
PROPERTIES
    CrashNoticed
