\* A cluster, a hub, and two changes of its user without any fault.
CONSTANTS
    Ids = {1}
    Others = {}
    Specs = {s1, s2}
    Hubs = {1}
    Namespaces = {0}
    Kinds <- OnlyClusters
    MaxChanges = 2
    MaxFaults = 0
    MaxPending = 4
    DefaultLimit = 1
    MaxLimit = 1
    NoObject = NoObject
    Archived = Archived
    NoHub = NoHub
    NoTask = NoTask
    NoEntry = NoEntry
    HubCreated = HubCreated
    InPool = InPool
SPECIFICATION FairSpec
PROPERTY ReconcilesCurrentState
