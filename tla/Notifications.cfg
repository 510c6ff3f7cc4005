CONSTANTS
    Plugins = {"bark", "ntfy"}
    Running = {"bark"}
    Events = {"asked", "resolved", "helper"}
    Facts <- MCFacts
    Tests = {"t1"}
    CacheLimit = 1
    Capacity = 1
    Socket = 1
    MaxPublished = 3
    MaxFaults = 2
    MaxSaves = 1
SPECIFICATION FairSpec
INVARIANTS SentIsPushed RepeatsCostFaults
PROPERTIES WaitingIsPushed ReadsAgain
CHECK_DEADLOCK FALSE
