---------------------------- MODULE ObjectServer ----------------------------
(***************************************************************************)
(* The public and the private server of clusters, of virtual machines or   *)
(* of host pools, on top of what ObjectStore promises: the mapping between *)
(* the two forms of an object, masks, and templates.                       *)
(*                                                                         *)
(* `kind' says which of them these are, and never changes.  The servers of *)
(* hosts do as those of host pools.  The public Update gets the object,    *)
(* and calls the private Update later.  That reads it once more and then   *)
(* writes it; that these two statements interleave with others too is the  *)
(* subject of GenericServer, and here they are one step.                   *)
(*                                                                         *)
(* The finalizers field of a message is modelled by the only finalizer it  *)
(* has.                                                                    *)
(***************************************************************************)
EXTENDS ObjectStore, Messages

CONSTANTS
    Kinds,             \* kinds of objects to consider
    Callers,           \* slots for public updates in flight
    PublicMessages,    \* what users send
    Masks,             \* the masks of their updates: sequences of paths, or NoMask
    TemplateId,        \* identifier of the only template
    Templates,         \* what can be in it: its parameters, its node sets
    TypeOf,            \* types of the values of parameters
    PositiveSizes,     \* the sizes that are greater than zero
    Hub, Ready,        \* the hub and the state that the controller writes
    NoMask, NoCall

KindsOfObjects == {"cluster", "virtual machine", "host pool"}

MetadataPath == <<"metadata">>
FinalizersPath == <<"metadata", "finalizers">>
TemplatePath == <<"spec", "template">>
ParametersPath == <<"spec", "template_parameters">>
NodeSetsPath == <<"spec", "node_sets">>
StatusPath == <<"status">>
StatePath == <<"status", "state">>
HubPath == <<"status", "hub">>

ASSUME ServerAssumption ==
    /\ Kinds \subseteq KindsOfObjects
    /\ Fields = Paths /\ Contents = Values
    /\ Secrets = {} /\ Unset = Absent
    /\ HiddenPaths = {FinalizersPath, HubPath}
    /\ PublicMessages \subseteq AnyMessage
    /\ \A m \in PublicMessages : WellFormed(m) /\ \A p \in HiddenPaths : m[p] = Absent
    /\ Masks \subseteq Seq(Paths) \union {NoMask}
    /\ Finalizers \subseteq Values \ {Absent} /\ {Hub, Ready} \subseteq Values \ {Absent}
    /\ NoMask \notin Seq(Paths)

\* A path that goes through the entry of a map, after one that leads to the entry or to
\* what encloses it, would change the message of the request too: Path.Set doesn't copy.
ASSUME MasksAssumption ==
    \A mask \in Masks \ {NoMask} : \A i, j \in DOMAIN mask :
        i < j => \A e \in Through(mask[j]) : ~Under(mask[i], e)

\* The fields that the servers deal with by name, and what is inside of them.
ASSUME FieldsAssumption ==
    /\ {MetadataPath, TemplatePath, ParametersPath, NodeSetsPath, StatusPath, StatePath}
           \subseteq Paths
    /\ {ParametersPath, NodeSetsPath} \subseteq MapFields
    /\ {MetadataPath, FinalizersPath, <<"spec">>, TemplatePath, StatusPath, StatePath, HubPath}
           \intersect MapFields = {}
    /\ \A p \in Paths :
           /\ \A q \in {FinalizersPath, TemplatePath, StatePath, HubPath} : ~StrictlyUnder(q, p)
           /\ StrictlyUnder(MetadataPath, p) => p = FinalizersPath

\* The names and the values of a template: the types of the parameters that it declares,
\* those that are required, the default values of those that have one, and the host classes
\* and sizes of its node sets.
ASSUME TemplatesAssumption ==
    \A t \in Templates :
        /\ t.required \union DOMAIN t.defaults \subseteq DOMAIN t.parameters
        /\ \A n \in DOMAIN t.parameters :
               /\ n \in Names /\ Append(ParametersPath, n) \in Paths
               /\ \A p \in Paths : ~StrictlyUnder(Append(ParametersPath, n), p)
        /\ \A n \in DOMAIN t.defaults : t.defaults[n] \in Values \ {Absent}
        /\ \A n \in DOMAIN t.node_sets :
               LET e == Append(NodeSetsPath, n)
                   fields == {Append(e, "host_class"), Append(e, "size")}
               IN  /\ n \in Names /\ {e} \union fields \subseteq Paths
                   /\ fields \intersect MapFields = {}
                   /\ \A p \in Paths : StrictlyUnder(e, p) => p \in fields
                   /\ {t.node_sets[n].host_class, t.node_sets[n].size} \subseteq Values

ASSUME ValuesAssumption ==
    /\ {"host_class", "size"} \subseteq Names
    /\ Absent \notin PositiveSizes /\ TemplateId # Absent

VARIABLES
    kind,      \* the kind of object
    template,  \* "live", "deleted" if the template has finalizers, or "gone"
    contents,  \* what is in the template, or was
    calls      \* the public update of each caller, once it has read the object

store == <<table, archive, log>>
serverVars == <<store, kind, template, contents, calls>>

Parameters == contents.parameters
Required == contents.required
Defaults == contents.defaults
TemplateNodeSets == contents.node_sets

FinalizersOf(m) == {m[FinalizersPath]} \ {Absent}

\* What is in the data column.
DataOf(m) == [m EXCEPT ![MetadataPath] = Absent, ![FinalizersPath] = Absent]

\* The private message that Get returns.
MessageOf(row) ==
    [row.data EXCEPT
        ![MetadataPath] = Present,
        ![FinalizersPath] = IF row.finalizers = {} THEN Absent
                            ELSE CHOOSE f \in row.finalizers : TRUE]

----------------------------------------------------------------------------
(* Templates *)

\* The entries of a map in a message, and their names.
EntriesOf(m, field) == {e \in Entries : Front(e) = field /\ m[e] # Absent}

NamesOf(m, field) == {Last(e) : e \in EntriesOf(m, field)}

ParametersAccepted(m) ==
    /\ NamesOf(m, ParametersPath) \subseteq DOMAIN Parameters
    /\ Required \subseteq NamesOf(m, ParametersPath)
    /\ \A e \in EntriesOf(m, ParametersPath) : TypeOf[m[e]] = Parameters[Last(e)]

\* The values that are given, and the default values of the others.
WithDefaults(m) ==
    Normal([p \in Paths |->
        IF p \in Entries /\ Front(p) = ParametersPath /\ m[p] = Absent
           /\ Last(p) \in DOMAIN Defaults
        THEN Defaults[Last(p)] ELSE m[p]])

NodeSetsAccepted(m) ==
    /\ NamesOf(m, NodeSetsPath) \subseteq DOMAIN TemplateNodeSets
    /\ \A e \in EntriesOf(m, NodeSetsPath) :
           /\ m[Append(e, "host_class")] \in {Absent, TemplateNodeSets[Last(e)].host_class}
           /\ m[Append(e, "size")] \in PositiveSizes

\* Mutant of WithNodeSets: the node sets of the request are kept, and only those
\* that it doesn't have are taken from the template.
WithNodeSetsAdded(m) ==
    Normal([p \in Paths |->
        IF \E e \in Entries : Front(e) = NodeSetsPath /\ Under(e, p)
                              /\ m[e] = Absent /\ Last(e) \in DOMAIN TemplateNodeSets
        THEN LET set == TemplateNodeSets[p[3]]
             IN  IF Len(p) = 3 THEN Present
                 ELSE IF Last(p) = "host_class" THEN set.host_class
                 ELSE set.size
        ELSE m[p]])

\* The node sets of the template, with the sizes of the request.
WithNodeSets(m) ==
    Normal([p \in Paths |->
        IF \E e \in Entries : Front(e) = NodeSetsPath /\ Under(e, p)
                              /\ Last(e) \in DOMAIN TemplateNodeSets
        THEN LET set == TemplateNodeSets[p[3]]
             IN  IF Len(p) = 3 THEN Present
                 ELSE IF Last(p) = "host_class" THEN set.host_class
                 ELSE IF m[p] = Absent THEN set.size
                 ELSE m[p]
        ELSE m[p]])

\* What the private Create requires of an object, and makes of it.
CreateAccepted(m) ==
    CASE kind = "cluster" ->
             /\ m[TemplatePath] = TemplateId /\ template = "live"
             /\ NodeSetsAccepted(m) /\ ParametersAccepted(m)
      [] kind = "virtual machine" ->
             /\ m[TemplatePath] = TemplateId /\ template # "gone"
             /\ ParametersAccepted(m)
      [] kind = "host pool" -> TRUE

Created(m) ==
    CASE kind = "cluster"         -> WithDefaults(WithNodeSets(m))
      [] kind = "virtual machine" -> WithDefaults(m)
      [] kind = "host pool"       -> m

\* The same of the private Update, for the object of the request.
UpdateAccepted(m) == kind = "virtual machine" => CreateAccepted(m)

Updated(m) == IF kind = "virtual machine" THEN WithDefaults(m) ELSE m

----------------------------------------------------------------------------

ServerInit ==
    /\ Init
    /\ kind \in Kinds
    /\ template = IF kind = "host pool" THEN "gone" ELSE "live"
    /\ contents \in Templates
    /\ calls = [c \in Callers |-> NoCall]

\* Mutant of Ignored: the mapper of the requests copies the status too.
IgnoredNothing == {}

\* The fields that a user can't change.
Ignored == IF kind = "virtual machine" THEN {} ELSE {StatusPath}

\* A user creates an object, or others do, with a finalizer and without status.
ServerCreate(id, stamp, request) ==
    /\ \E finalizers \in SUBSET Finalizers :
           LET m == Copy(request, Empty, IF finalizers = {} THEN Ignored ELSE {StatusPath})
           IN  /\ CreateAccepted(m)
               /\ Create(id, stamp, finalizers, {}, DataOf(Created(m)))
    /\ UNCHANGED <<kind, template, contents, calls>>

\* The public server gets the object, and copies the request into it; that of
\* host pools reads nothing, and copies it into an empty one.  That of virtual
\* machines passes no mask on.
ReadPublic(c, id, request, mask) ==
    /\ calls[c] = NoCall
    /\ kind = "host pool" \/ table[id] # NoRow
    /\ LET current == IF table[id] = NoRow THEN Empty ELSE MessageOf(table[id])
       IN  calls' = [calls EXCEPT ![c] =
               [id |-> id,
                object |-> Copy(request, IF kind = "host pool" THEN Empty ELSE current,
                                Ignored),
                mask |-> IF kind = "virtual machine" THEN NoMask ELSE mask,
                request |-> request,
                read |-> current]]
    /\ UNCHANGED <<store, kind, template, contents>>

\* What GenericServer.Update makes of an object with the paths of a mask, one
\* after the other.
Stages(m, mask, input) ==
    LET stage[i \in 0..Len(mask)] ==
            IF i = 0 THEN m ELSE PathUpdate(stage[i - 1], mask[i], input)
    IN  stage

Masked(m, mask, input) ==
    IF mask = NoMask THEN input ELSE Stages(m, mask, input)[Len(mask)]

\* Whether it panics, before it has written anything.
MaskPanics(m, mask, input) ==
    /\ mask # NoMask
    /\ \E i \in 1..Len(mask) :
           /\ input[mask[i]] = Absent
           /\ PathClearPanics(Stages(m, mask, input)[i - 1], mask[i])

\* The private Update.
PrivateUpdate(id, object, mask) ==
    LET row == table[id]
        input == Updated(object)
        new == Masked(MessageOf(row), mask, input)
    IN  IF \/ ~UpdateAccepted(object)
           \/ row = NoRow
           \/ MaskPanics(MessageOf(row), mask, input)
           \/ new = MessageOf(row)
        THEN UNCHANGED store
        ELSE Update(id, FinalizersOf(new), DataOf(new))

WritePublic(c) ==
    /\ calls[c] # NoCall
    /\ PrivateUpdate(calls[c].id, calls[c].object, calls[c].mask)
    /\ calls' = [calls EXCEPT ![c] = NoCall]
    /\ UNCHANGED <<kind, template, contents>>

\* The controller sets the status of an object, and nothing happens since it
\* has read it.
SetStatus(id) ==
    /\ table[id] # NoRow
    /\ PrivateUpdate(id, [MessageOf(table[id]) EXCEPT ![StatusPath] = Present,
                                                     ![StatePath] = Ready,
                                                     ![HubPath] = Hub], NoMask)
    /\ UNCHANGED <<kind, template, contents, calls>>

ServerDelete(id) ==
    /\ Delete(id)
    /\ UNCHANGED <<kind, template, contents, calls>>

\* The private server of the templates deletes the template, takes its last finalizer away,
\* creates it again with the same identifier, or updates it.
ChangeTemplate ==
    /\ kind # "host pool"
    /\ \/ /\ \/ template = "live" /\ template' \in {"deleted", "gone"}
             \/ template = "deleted" /\ template' = "gone"
          /\ UNCHANGED contents
       \/ template = "gone" /\ template' = "live" /\ contents' \in Templates
       \/ template # "gone" /\ contents' \in Templates /\ UNCHANGED template
    /\ UNCHANGED <<store, kind, calls>>

ServerNext ==
    \/ \E id \in Ids, stamp \in Stamps, m \in PublicMessages : ServerCreate(id, stamp, m)
    \/ \E c \in Callers, id \in Ids :
           \/ \E m \in PublicMessages, mask \in Masks : ReadPublic(c, id, m, mask)
           \* A user sends what Get has returned.
           \/ \E mask \in Masks :
                  /\ table[id] # NoRow
                  /\ ReadPublic(c, id, CopyOut(MessageOf(table[id])), mask)
    \/ \E c \in Callers : WritePublic(c)
    \/ \E id \in Ids : SetStatus(id) \/ ServerDelete(id)
    \/ ChangeTemplate

ServerSpec == ServerInit /\ [][ServerNext]_serverVars

----------------------------------------------------------------------------

\* The object that an update has just written, and whether one of a user has ended with it.
Written == MessageOf(Last(log').row)

UserWrites(c) == calls[c] # NoCall /\ calls'[c] = NoCall /\ log' # log

\* Whether a public update gives a reason to change a field that the user
\* doesn't see: it has a mask with it, or clears the message that it is in, or
\* it replaces everything.
Explained(call, p) ==
    /\ call.mask = NoMask \/ \E i \in DOMAIN call.mask : Under(call.mask[i], p)
    /\ kind = "host pool" \/ (Front(p) \notin Ignored /\ call.request[Front(p)] = Absent)

(***************************************************************************)
(* A public update keeps the hub and the finalizers of the object, that    *)
(* the user doesn't even see, but for the cases of Explained, which        *)
(* PrivateDataPreserved shows, and when somebody else changes them between *)
(* the call to Get and the call to Update of the private server.           *)
(***************************************************************************)
PrivateDataKept ==
    [][\A c \in Callers, p \in HiddenPaths :
           LET call == calls[c]
               current == MessageOf(table[call.id])
           IN  UserWrites(c)
               => \/ Written[p] = current[p]
                  \/ current[p] # call.read[p]
                  \/ Explained(call, p)]_serverVars

\* What an update of a user has to leave alone: what the user doesn't see, and of a host
\* pool, whose finalizers come from the request, the status.
PrivatePaths == IF kind = "host pool" THEN {StatePath, HubPath} ELSE HiddenPaths

(***************************************************************************)
(* The public servers map "the public changes to the existing private      *)
(* object (preserving private data)", and the "status should remain        *)
(* unchanged" in an update of a host pool, unless somebody else changes    *)
(* them meanwhile (Update of VirtualMachinesServer, of ClustersServer and  *)
(* of HostPoolsServer).                                                    *)
(***************************************************************************)
PrivateDataPreserved ==
    [][\A c \in Callers, p \in PrivatePaths :
           LET current == MessageOf(table[calls[c].id])
           IN  UserWrites(c) /\ current[p] = calls[c].read[p]
               => Written[p] = current[p]]_serverVars

\* The updates of users that take something of a status away: those of host pools with a mask
\* of the status or with none, and with a path through the entry of a map, where Path.Set puts
\* a new one.
Erases(call) ==
    \/ kind = "host pool" /\ call.mask = NoMask
    \/ /\ call.mask # NoMask
       /\ \E i \in DOMAIN call.mask :
              /\ Under(StatusPath, call.mask[i])
              /\ kind = "host pool" \/ Through(call.mask[i]) # {}

(***************************************************************************)
(* "Users don't have permission to change the status" of clusters and of   *)
(* host pools: what a user creates has none, and whatever interleaves,     *)
(* each field of the status is after an update what it was before it, or   *)
(* for a cluster what it was when the public server has read it; never     *)
(* what the user has sent.  The updates of Erases may clear it, which is   *)
(* left to PrivateDataPreserved (the ignored fields of GenericMapper,      *)
(* Update of ClustersServer and of HostPoolsServer).                       *)
(***************************************************************************)
UsersDontSetStatus ==
    [][kind # "virtual machine" => \A p \in Paths \ MapFields : Under(StatusPath, p) =>
           /\ log' # log /\ Last(log').type = "created" => Written[p] = Absent
           /\ \A c \in Callers :
                  LET call == calls[c]
                  IN  UserWrites(c) => \/ Written[p] = MessageOf(table[call.id])[p]
                                       \/ kind = "cluster" /\ Written[p] = call.read[p]
                                       \/ Erases(call) /\ Written[p] = Absent]_serverVars

\* Whether one message is another with the defaults of the template that it lacks.
OnlyAddsDefaults(new, old) ==
    \A p \in Paths : new[p] # old[p] =>
        /\ old[p] = Absent
        /\ \/ p = ParametersPath
           \/ \E n \in DOMAIN Defaults : p = Append(ParametersPath, n) /\ new[p] = Defaults[n]

(***************************************************************************)
(* To write back what Get has returned changes nothing and isn't           *)
(* announced, but for the defaults that the template of a virtual machine  *)
(* has got since: the two copies of GenericMapper are inverse as far as    *)
(* the user sees, and the rest is kept.  This is so for every mask but     *)
(* those that go through the entry of a map, where Path.Set puts a new     *)
(* one, and for a host pool only for masks of the specification.           *)
(***************************************************************************)
EchoChangesNothing ==
    [][\A c \in Callers :
           LET call == calls[c]
           IN  (/\ UserWrites(c)
                /\ call.request = CopyOut(call.read)
                /\ MessageOf(table[call.id]) = call.read
                /\ call.mask # NoMask => \A i \in DOMAIN call.mask : Through(call.mask[i]) = {}
                /\ kind = "host pool" =>
                       /\ call.mask # NoMask
                       /\ \A i \in DOMAIN call.mask : call.mask[i][1] = "spec")
               => kind = "virtual machine" /\ OnlyAddsDefaults(Written, call.read)]_serverVars

\* What a template makes of the parameters and of the node sets.
FollowsParameters(m) ==
    LET names == NamesOf(m, ParametersPath)
    IN  /\ Required \union DOMAIN Defaults \subseteq names
        /\ names \subseteq DOMAIN Parameters
        /\ \A n \in names : TypeOf[m[Append(ParametersPath, n)]] = Parameters[n]

FollowsNodeSets(m) ==
    /\ NamesOf(m, NodeSetsPath) = DOMAIN TemplateNodeSets
    /\ \A e \in EntriesOf(m, NodeSetsPath) :
           /\ m[Append(e, "host_class")] = TemplateNodeSets[Last(e)].host_class
           /\ m[Append(e, "size")] \in PositiveSizes

\* The defaults of the template have the types that it declares, and its node sets have a
\* size.  The private servers of the templates don't check that.
TemplateConsistent ==
    /\ \A n \in DOMAIN Defaults : TypeOf[Defaults[n]] = Parameters[n]
    /\ \A n \in DOMAIN TemplateNodeSets : TemplateNodeSets[n].size \in PositiveSizes

(***************************************************************************)
(* What is created follows the template as it is then, if that is          *)
(* consistent: each parameter is declared, has its type and is there if it *)
(* is required or has a default; a cluster has exactly the node sets of    *)
(* the template with their host classes (validateAndTransformCluster,      *)
(* validateTemplate).                                                      *)
(***************************************************************************)
CreatedFromTemplate ==
    [][log' # log /\ Last(log').type = "created" =>
           LET m == Last(log').row.data
           IN  /\ WellFormed(m)
               /\ (kind # "host pool" /\ TemplateConsistent) => FollowsParameters(m)
               /\ (kind = "cluster" /\ TemplateConsistent) => FollowsNodeSets(m)]_serverVars
=============================================================================
