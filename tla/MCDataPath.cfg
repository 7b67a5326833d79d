CONSTANTS
    NULL = NULL
    imu = imu
    adc = adc
    Pollers = {imu, adc}
    Readings <- MCReadings
    LineLength <- MCLineLength
    DATAPOINT_QUEUE_MAX_ITEMS = 1
    BUFFER_SIZE = 10
    MaxLines = 23
SPECIFICATION FairSpec
INVARIANTS
    TypeOK
    NoOverrun
    LogWhole
    PollersAlive
PROPERTIES
    LogOrdered
    PollersKeepPolling
