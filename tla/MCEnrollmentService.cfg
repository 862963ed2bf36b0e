SPECIFICATION MCSpec
CONSTANTS
    None = None
    NodeId = {n1, n2}
    VClusterId = {v1}
    Principal = {admin}
    Role = {admins}
    Mac = {"aa", "AA"}
    Bmc = {"b"}
    Lower <- MCLower
    CertSerial <- MCSerials
    AdminOperation <- MCOperations
    AUDIT_LOG_MAX = 2
    Call = {c1, c2}
    MaxCerts = 4
    MaxClock = 1
    timeout_seconds = 0
    HeartbeatRuns = TRUE
SYMMETRY MCSymmetry
CHECK_DEADLOCK FALSE
INVARIANTS
    OneCertPerActivation
    SerialIdentifiesNode
    HardwareUnique
PROPERTIES
    AuditKeepsNewest
    ImplementsEnrollments
    RevocationHolds
