\* Three callers, fewer connections than callers.
CONSTANTS
    id1 = id1
    id2 = id2
    f1 = f1
    r1 = r1
    r2 = r2
    r3 = r3
    n1 = n1
    n2 = n2
    Ids = {id1, id2}
    Fields <- MCFields
    Values <- MCValues
    Secrets <- MCSecrets
    Unset = "unset"
    Finalizers = {f1}
    Tenants <- MCTenants
    Requests = {r1, r2, r3}
    AssignedTenants <- MCAssignedTenants
    VisibleTenants <- MCVisibleTenants
    Calls <- MCFewCalls
    Notifications = {n1, n2}
    MaxRequests = 3
    MaxConns = 2
    NoRow = NoRow
    NoEvent = NoEvent
    NoObject = NoObject
    NoCall = NoCall
    NoMask = NoMask
    NoRequest = NoRequest
SPECIFICATION FairSpec
PROPERTY
    EveryCallEnds
