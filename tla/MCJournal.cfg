SPECIFICATION JournalSpec
CONSTANTS
    None = None
    NodeId = {"n1"}
    VClusterId = {"v1"}
    Principal = {"alice", ""}
    Role = {"ops", ""}
    TTL_MIN_SECONDS = 2
    TTL_MAX_SECONDS = 4
    Ttl = {1, 5}
    DeltaItem = {}
    ConfigState = {"Drifted"}
    Policy = {"p1"}
    OverlayData = {"small", "big"}
    Checksum = {"hsmall", "hbig"}
    ByteLen <- MCByteLen
    Hash <- MCHash
    OVERLAY_MAX_BYTES = 2
    MaxEntries = 3
    AdminOperation = {o1}
    AUDIT_LOG_MAX = 1
    ApprovalId = {a1}
    MaxTime = 0
    Mac = {"aa"}
    Bmc = {}
    Lower <- MCLower
    CertSerial = {"s1"}
    MaxClock = 0
CONSTRAINT MCTwoParts
INVARIANTS
    JournalTypeOK
    EntriesContiguous
    ParentsPrecede
PROPERTIES
    ImplementsLog
