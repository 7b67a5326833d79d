CONSTANTS
    MaxCommands = 4
    Invalid = {3}
    MaxPosts = 3
    UplinkSize = 2
    Promptly = TRUE
SPECIFICATION FairSpec
INVARIANT
    TypeOK
PROPERTIES
    ExecutedInOrder
    CommandsComplete
