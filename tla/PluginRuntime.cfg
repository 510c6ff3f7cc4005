CONSTANTS
    Plugins = {"codex", "ext"}
    Providers = {"codex"}
    External = {"ext"}
    Versions = {"v1", "v2"}
    Handlers = {"h1"}
    Instances = {1, 2}
    MaxOps = 1
    MaxCrashes = 1
    MaxOthers = 1
SPECIFICATION FairSpec
INVARIANTS RunningIsServed
PROPERTIES OwnershipSurvivesOldThreads SwitchesTakeEffect
CHECK_DEADLOCK FALSE
