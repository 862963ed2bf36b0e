SPECIFICATION SupervisorFairSpec
CONSTANTS
    Service = {"s1", "s2"}
    Process = {"p1", "p2"}
    Caller = {"c1"}
    order <- Order
    Decls <- DeclSets
    Pid1 = TRUE
    None = None
INVARIANTS
    RunningTracked
    PolicyHonoured
PROPERTIES
    WatchdogPetted
    ExitCollected
