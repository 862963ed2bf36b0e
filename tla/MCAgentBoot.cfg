SPECIFICATION StartSpec
CONSTANTS
    None = None
    k1 = k1
    p1 = p1
    v1 = v1
    v2 = v2
    Overlay <- MCOverlay
    Chunks <- MCChunks
    Setting = {k1}
    MountPoint = {p1}
    Value = {v1, v2}
    Version = {1, 2}
    MaxPublished = 2
    MaxNodeEntries = 1
    AgentConfig <- MCConfigs
    Timeout = {2, 3}
    TurnWait = {0, 3}
    Policy = {pol}
    ActionCapacity = 1
    MaxStarts = 2
    Interface = {"e0", "e1"}
    InterfaceConfig <- MCInterfaceConfig
    MaxInterfaces = 2
    MaxConfigures = 2
    WatchedPath = {"p"}
    Blacklist = {{"p"}}
    ReadLimit <- MCReadLimit
    ChannelCapacity = 1
    MaxObserverStarts = 2
    MaxChanges = 3
INVARIANTS
    ChangesConserved
    StreamIsSnapshot
    PetWithinHalf
    InterfacesReported
CHECK_DEADLOCK FALSE
