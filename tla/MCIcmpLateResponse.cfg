CONSTANTS
    NULL = NULL
    t1 = t1
    Callers = {c1, c2}
    Reqs = {r1, r2, r3}
    NullCallback = {r2}
    Blocks = {b1, b2}
    Targets = {t1}
    MAX_INFLIGHT = 2
    QUEUE_MAX_ITEMS = 2
    MAX_AGE = 0
    AppFrames = {}
    PeerFrames <- MCPeerFrames
    BlockingCallbacks = FALSE
SPECIFICATION Spec
SYMMETRY MCSymmetry
INVARIANT
    ResponseMatchesCommand
