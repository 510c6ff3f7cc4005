SPECIFICATION Spec
CONSTANTS
    Servers = {"s1"}
    Connections = {"c1", "c2", "c3"}
    ClientOf <- MCClientOf
    Streams = {"r1"}
    Relays = {1, 2, 3}
    MaxFrames = 1
    Starts <- HeldStarts
    None = None
INVARIANTS BusyMeansInUse
CHECK_DEADLOCK FALSE
