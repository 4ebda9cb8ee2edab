\* The private server with three clients, the public one with four.
CONSTANTS
    w1 = w1
    w2 = w2
    w3 = w3
    w4 = w4
    Watchers = {w1, w2, w3, w4}
    Accepts <- MCAccepts
    MaxEvents = 3
    MaxCancels = 1
    NoWatcher = NoWatcher
    Logic = "default"
    NoNamespace = NoNamespace
    Creators <- MCCreators
    Subjects <- MCSubjects
    HubEvents <- MCHubEvents
SPECIFICATION BothSpec
CHECK_DEADLOCK FALSE
INVARIANTS
    TypeOK
    NoSendOnClosed
    PrivateNoGaps
    PublicOnlyWanted
    PublicMissedOnlyForOthers
PROPERTY
    PrivateEverythingDelivered
CONSTRAINT
    Bound
