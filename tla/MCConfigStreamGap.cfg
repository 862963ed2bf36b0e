SPECIFICATION StreamSpec
CONSTANTS
    None = None
    NodeId = {}
    VClusterId = {}
    Principal = {"alice"}
    Role = {"ops"}
    TTL_MIN_SECONDS = 2
    TTL_MAX_SECONDS = 4
    Ttl = {}
    DeltaItem = {}
    ConfigState = {}
    Policy = {}
    OverlayData = {}
    Checksum = {}
    ByteLen <- MCByteLen
    Hash <- MCHash
    OVERLAY_MAX_BYTES = 2
    Server = {"s1"}
    Leader = "s1"
    Client = {"c1"}
    Submission <- MCSubmission
    AllowDrop = FALSE
    BroadcastCapacity = 2
    StreamCapacity = 2
    max_reconnect_attempts = 2
    MaxEntries = 4
INVARIANTS
    NoGapWhileSubscribing
CHECK_DEADLOCK FALSE
