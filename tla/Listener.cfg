\* Failures of every kind while notifications arrive.  Listen returns when its
\* context is done, and then nothing is left to do.
CONSTANTS
    MaxNotifications = 3
    MaxFaults = 1
    CanStall = TRUE
SPECIFICATION FairSpec
INVARIANTS
    TypeOK
    InOrderOnce
    NothingLostWhileListening
    ReadyMeansListening
PROPERTIES
    ListensAgain
    StopsWhenCanceled
CHECK_DEADLOCK FALSE
