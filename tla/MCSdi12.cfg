CONSTANTS
    EMPTY = EMPTY
    Shells = {usb}
    Commands = {c1, c2}
    SDI12_CMD_QUEUE_SIZE = 4
    SDI12_RSP_QUEUE_SIZE = 4
SPECIFICATION FairSpec
INVARIANTS
    TypeOK
    ReleaseWillCome
    AtRest
    ResponseIsCurrent
PROPERTIES
    CommandReturns
