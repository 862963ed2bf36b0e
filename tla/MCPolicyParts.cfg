SPECIFICATION PartsSpec
CONSTANTS
    None = None
    NodeId = {n1}
    VClusterId = {v1, v2}
    Principal = {"alice", "system", "anonymous"}
    Role = {}
    RoleBinding <- MCBindings
    MaxBindings = 2
    SetPolicies <- MCPolicies
    ApprovalId = {a1, a2}
    Call = {c1, c2}
    ApprovalLifetime = 1
    ManagedVCluster = {v1}
    MaxTime = 2
    EngineApproval = {e1, e2}
    EnginePolicies <- MCPolicies
    EngineVCluster = {v1}
    approval_timeout_seconds = 1
    EngineHorizon = 2
    Jwk <- MCJwk
    NoKid = ""
    Token <- MCToken
    Validation = {v1, v2}
    hmac_secret = TRUE
    TTL = 1
    RequestTimeout = 1
    Leeway = 0
    Horizon = 3
    IpAddr = {"i1"}
    global_per_minute = 3
    IP_SHARE = 10
    MIN_PER_IP = 2
    Minute = 2
    STALE_AFTER = 3
    LimiterHorizon = 5
CHECK_DEADLOCK FALSE
INVARIANTS
    NoEarlyExpiry
    AdmissionBounded
    TwoPersons
    EvaluatorsAgree
    RoleModel
    GrantedOnce
    WithdrawnKeysExpire
PROPERTIES
    DecisionsFinal
