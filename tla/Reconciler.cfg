\* One object of each kind, next to another that the sync may list instead,
\* and two hubs.  Two changes and a fault can happen at any point.
CONSTANTS
    Ids = {1}
    Others = {0}
    Specs = {s1}
    Hubs = {1, 2}
    Namespaces = {0, 1}
    Kinds <- AllKinds
    MaxChanges = 2
    MaxFaults = 1
    MaxPending = 2
    DefaultLimit = 1
    MaxLimit = 1
    NoObject = NoObject
    Archived = Archived
    NoHub = NoHub
    NoTask = NoTask
    NoEntry = NoEntry
    HubCreated = HubCreated
    InPool = InPool
SPECIFICATION FairSpec
INVARIANTS
    TypeOK
    OneOrderPerNamespace
    SavedHubHasOrder
    PagesCoverCollection
PROPERTIES
    EveryObjectPlaced
    DeletionReachesHub
