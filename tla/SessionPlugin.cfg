CONSTANTS
    Files = {"f1"}
    Scripts <- MCScripts
    Sessions = {"s1", "s2"}
    Limit = 1
    MaxLines = 3
    MaxRewrites = 1
    Starts <- MCStarts
SPECIFICATION FairSpec
INVARIANTS ScansAreOneParse DetailAnswersRequest
PROPERTIES WatchedLineIsReported
CHECK_DEADLOCK FALSE
