\* One of two clients goes away.
CONSTANTS
    w1 = w1
    w2 = w2
    w3 = w3
    Watchers = {w1, w2}
    Accepts <- MCAccepts
    MaxEvents = 2
    MaxCancels = 1
    NoWatcher = NoWatcher
SPECIFICATION FairSpec
CHECK_DEADLOCK FALSE
PROPERTY
    SubscriptionRemoved
