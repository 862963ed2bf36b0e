CONSTANTS
    c1 = c1
    c2 = c2
    n1 = n1
    n2 = n2
    None = None
    Client <- MCClient
    Node <- MCNode
    Site <- MCSite
    SpecVClusters <- MCSpecVClusters
    CliMenu <- MCCliMenu
    ToolMenu <- MCToolMenu
SPECIFICATION ClientsSpec
INVARIANTS
    SuccessMeansDone
    PartialWorkRecorded
CHECK_DEADLOCK FALSE
