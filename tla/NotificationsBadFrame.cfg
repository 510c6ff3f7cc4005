CONSTANTS
    Plugins = {"bark"}
    Running = {"bark"}
    Events = {"asked", "resolved"}
    Facts <- MCFacts
    Tests = {}
    CacheLimit = 2
    Capacity = 2
    Socket = 1
    MaxPublished = 2
    MaxFaults = 0
    MaxSaves = 0
SPECIFICATION FairSpec
PROPERTIES BadFrameBlocksNothing
CHECK_DEADLOCK FALSE
