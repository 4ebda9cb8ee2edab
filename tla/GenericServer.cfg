\* Two callers compete for one object through its whole life.
CONSTANTS
    id1 = id1
    id2 = id2
    f1 = f1
    r1 = r1
    r2 = r2
    r3 = r3
    n1 = n1
    n2 = n2
    Ids = {id1}
    Fields <- MCFields
    Values <- MCValues
    Secrets <- MCSecrets
    Unset = "unset"
    Finalizers = {f1}
    Tenants <- MCTenants
    Requests = {r1, r2}
    AssignedTenants <- MCAssignedTenants
    VisibleTenants <- MCVisibleTenants
    Calls <- MCCalls
    Notifications = {}
    MaxRequests = 4
    MaxConns = 2
    NoRow = NoRow
    NoEvent = NoEvent
    NoObject = NoObject
    NoCall = NoCall
    NoMask = NoMask
    NoRequest = NoRequest
SPECIFICATION Spec
INVARIANTS
    TypeOK
    NoZombie
    LogMatchesTable
    LifeCycle
    Conservation
    ReplyTellsOutcome
PROPERTY
    ImplementsStore
