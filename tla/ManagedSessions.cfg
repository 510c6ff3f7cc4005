SPECIFICATION FairSpec
CONSTANTS
    Tools = {"codex"}
    SessionIds = {"w1", "w2", "w3", "t1", "t2", "t3"}
    ApprovalKeys = {}
    InputKeys = {"q1", "q2"}
    OtherKeys = {}
    None = None
    Wrappers = {"w1", "w2", "w3"}
    Threads = {"t1", "t2", "t3"}
    Args <- MCArgs
    Target <- MCTarget
    Message <- MCMessage
    Identified = {"w2", "w3"}
    Requests = {"q1", "q2"}
    AskedBy <- MCAskedBy
    Clients = {"c1", "c2"}
    Starts <- MCStarts
INVARIANTS BoundToOwnThread AnswersOnce AnsweredIsCleared
PROPERTIES OthersKeepWaiting IdentifiedIsBound
CHECK_DEADLOCK FALSE
