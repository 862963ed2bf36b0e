SPECIFICATION StreamFairSpec
CONSTANTS
    None = None
    NodeId = {}
    VClusterId = {}
    Principal = {"alice"}
    Role = {"ops"}
    TTL_MIN_SECONDS = 2
    TTL_MAX_SECONDS = 4
    Ttl = {}
    DeltaItem = {}
    ConfigState = {}
    Policy = {}
    OverlayData = {}
    Checksum = {}
    ByteLen <- MCByteLen
    Hash <- MCHash
    OVERLAY_MAX_BYTES = 2
    Server = {"s1", "s2"}
    Leader = "s1"
    Client = {"c1", "c2"}
    Submission <- MCSubmission
    AllowDrop = TRUE
    BroadcastCapacity = 1
    StreamCapacity = 2
    max_reconnect_attempts = 2
    MaxEntries = 3
INVARIANTS
    CaughtUpInOrder NoSkipAfterSubscribe
PROPERTIES
    LiveEntriesArrive
CHECK_DEADLOCK FALSE
