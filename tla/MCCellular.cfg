CONSTANTS
    NULL = NULL
    Starters = {main}
    Senders = {datapoint, poll_work, callback}
    RecvCallback = callback
    Packets = {p1, p2, p3}
    StarterYields = FALSE
    RestartWaits = TRUE
SPECIFICATION FairSpec
INVARIANTS
    TypeOK
    PacketOwnership
    RoomForEveryPacket
    StateMatchesThread
    StackNotReused
PROPERTIES
    StartResolves
    PacketsAreFreed
