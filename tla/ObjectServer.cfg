\* The servers of each kind with one object, that may be created again, and one
\* public update in flight.  Histories of three events.
CONSTANTS
    Ids = {id1}
    Stamps = {1, 2}
    Fields <- MCPaths
    Contents <- MCValues
    Secrets = {}
    Unset = Absent
    Finalizers = {"f"}
    Tenants = {t1}
    NoRow = NoRow
    Names <- MCNames
    Paths <- MCPaths
    MapFields <- MCMapFields
    HiddenPaths <- MCHiddenPaths
    Values <- MCValues
    Absent = Absent
    Present = Present
    Kinds <- AllKinds
    Callers = {c1}
    PublicMessages <- MCPublicMessages
    Masks <- MCMasks
    TemplateId = "T"
    Templates <- MCTemplates
    TypeOf <- MCTypeOf
    PositiveSizes = {"one", "three"}
    Hub = "h"
    Ready = "ready"
    NoMask = NoMask
    NoCall = NoCall
    MaxEvents = 3
SPECIFICATION ServerSpec
INVARIANT
    IInv
PROPERTIES
    UsersDontSetStatus
    CreatedFromTemplate
    PrivateDataKept
    EchoChangesNothing
CONSTRAINT Bound
