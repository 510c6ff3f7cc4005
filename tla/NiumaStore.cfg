SPECIFICATION MCSpec
CONSTANTS
    Tools = {"codex", "claude"}
    SessionIds = {"s1"}
    ApprovalKeys = {"approval:1"}
    InputKeys = {"input:1"}
    OtherKeys = {}
    None = None
    Events <- MCEvents
    StaleTimeout = 1
    CompletedRetention = 1
    MaxPublicEventCacheSize = 1
    MaxTime = 2
INVARIANTS
    TypeOK
    AttentionReflected
    ActiveEventsCached
    NoDuplicatePublicEvent
    LatestActivityListed
PROPERTIES
    SweepKeepsBlockers
    SilentSessionsEnd
CHECK_DEADLOCK FALSE
