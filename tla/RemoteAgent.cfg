SPECIFICATION FairSpec
CONSTANTS
    Servers = {"s1", "s2"}
    Connections = {"c1", "c2", "c3"}
    ClientOf <- MCClientOf
    Streams = {"r1", "r2"}
    Relays = {1, 2, 3}
    MaxFrames = 3
    Starts <- MCStarts
    None = None
INVARIANTS TypeOK RelaysServeSession DeviceOfServer WireInOrder
PROPERTIES NotTakenOver ComesOnline StreamsEnd
CHECK_DEADLOCK FALSE
