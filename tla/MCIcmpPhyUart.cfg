CONSTANTS
    MAX_FRAME_SIZE = 3
    LOOP_PERIOD = 2
    RX_TIMEOUT = 5
    MaxFrames = 4
SPECIFICATION FairSpec
INVARIANTS
    TypeOK
    SpacedFramesArrive
PROPERTIES
    LossyChannel
    ReceiverRecovers
