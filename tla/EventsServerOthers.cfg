\* Users of different tenants.
CONSTANTS
    w1 = w1
    w2 = w2
    w3 = w3
    w4 = w4
    Watchers = {w1, w2}
    Accepts <- MCAccepts
    MaxEvents = 3
    MaxCancels = 0
    NoWatcher = NoWatcher
    Logic = "default"
    NoNamespace = NoNamespace
    Creators <- MCCreators
    Subjects <- MCSubjects
    HubEvents <- MCHubEvents
SPECIFICATION PublicSpec
CHECK_DEADLOCK FALSE
INVARIANT
    PublicNoGaps
