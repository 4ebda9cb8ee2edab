\* A connection may stall.
CONSTANTS
    MaxNotifications = 2
    MaxFaults = 1
    CanStall = TRUE
SPECIFICATION FairSpec
PROPERTY RecoversFromStall
CHECK_DEADLOCK FALSE
