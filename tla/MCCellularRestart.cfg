CONSTANTS
    NULL = NULL
    Starters = {main}
    Senders = {callback}
    RecvCallback = callback
    Packets = {p1}
    StarterYields = FALSE
    RestartWaits = FALSE
SPECIFICATION Spec
INVARIANT
    StackNotReused
