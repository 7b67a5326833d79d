CONSTANTS
    POLL = 2
    PVT = 4
    BUSY = 1
    MaxFixes = 2
    Rails = {"ls_sensors", "ls_5vh"}
    Configured = {"gnss", "adcs"}
SPECIFICATION FairSpec
INVARIANTS
    TypeOK
    FailuresAreIsolated
    ScheduledWasInitialised
PROPERTIES
    FixIsHeld
    FixIsSubmitted
