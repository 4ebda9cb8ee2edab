\* Each kind of object, and updates of users that nothing interferes with.
CONSTANTS
    Ids = {id1}
    Stamps = {1, 2}
    Fields <- MCPaths
    Contents <- MCValues
    Secrets = {}
    Unset = Absent
    Finalizers = {"f"}
    Tenants = {t1}
    NoRow = NoRow
    Names <- MCNames
    Paths <- MCPaths
    MapFields <- MCMapFields
    HiddenPaths <- MCHiddenPaths
    Values <- MCValues
    Absent = Absent
    Present = Present
    Kinds <- AllKinds
    Callers = {c1}
    PublicMessages <- MCPublicMessages
    Masks <- MCMasks
    TemplateId = "T"
    Templates <- MCTemplates
    TypeOf <- MCTypeOf
    PositiveSizes = {"one", "three"}
    Hub = "h"
    Ready = "ready"
    NoMask = NoMask
    NoCall = NoCall
    MaxEvents = 4
SPECIFICATION ServerSpec
PROPERTY PrivateDataPreserved
CONSTRAINT Bound
