SPECIFICATION FairSpec
CONSTANTS
    Tools = {"codex"}
    SessionIds = {1, 2}
    ApprovalKeys = {"approval:1"}
    InputKeys = {"input:1"}
    OtherKeys = {}
    None = None
    CompletedRetention = 0
    StaleTimeout = 1
    Events <- MCEvents
    FirstSnapshot <- MCFirstSnapshot
    Snapshots <- MCSnapshots
    Mutators = {m1, m2}
    c1 = c1
    c2 = c2
    Conns = {c1, c2}
    Cases <- MCCases
    DetailSession <- MCDetailSession
    Capacity = 1
    MaxTime = 1
INVARIANTS
    VersionNamesContent
    GroupAndDetailAgree
    PendingActionIsBlocked
PROPERTIES
    VersionsIncrease
    StreamsFollow
CHECK_DEADLOCK FALSE
