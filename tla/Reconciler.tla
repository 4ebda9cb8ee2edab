----------------------------- MODULE Reconciler -----------------------------
(***************************************************************************)
(* One of the reconcilers of the controller, from the events of the server *)
(* to the Kubernetes objects of the hubs.  Three goroutines: the watch     *)
(* loop and the sync loop put objects into an unbuffered channel, and      *)
(* Start takes them from it and runs the reconciler function, that works   *)
(* against a hub and then writes the object back to the server.            *)
(*                                                                         *)
(* The four functions differ in how they find the hub.  `kind' says which  *)
(* of them this is, and never changes.                                     *)
(*                                                                         *)
(* The server is what ObjectStore promises for objects without finalizers  *)
(* (the controllers set none): a change takes effect at once, is announced *)
(* by one event, and a deletion archives the object.  The identifiers are  *)
(* those that the server generates, and are never used again.              *)
(***************************************************************************)
EXTENDS ListPage, Sequences

CONSTANTS
    Ids,         \* object identifiers, in the order of the list query
    Others,      \* identifiers of objects that are left alone
    Specs,       \* values of the spec of an object
    Hubs,        \* hubs that can be registered, in the order of the list query
    Namespaces,  \* namespaces of a hub where its Kubernetes objects may be
    Kinds,       \* kinds of objects to consider
    MaxChanges,  \* bound on the changes made by users and by operators
    MaxFaults,   \* bound on crashes, broken streams, failed and lost calls
    MaxPending,  \* bound on the objects on their way to the function
    NoObject, Archived, NoHub, NoTask, NoEntry, HubCreated,
    InPool       \* stands for the host pool in the status of a host

KindsOfObjects == {"cluster", "virtual machine", "host pool", "host"}

\* The state, or the power state of a host: not set, the one that setDefaults
\* gives, and any other.
States == {"unspecified", "initial", "final"}

\* A host doesn't have a hub in its status, but a host pool.
Object == [spec : Specs, state : States, hub : Hubs \union {NoHub, InPool}]

\* What travels through the channel: the object of an event or of a list.
Item == [id : Ids, object : Object, deleted : BOOLEAN]

\* What the server knows of a hub: credentials, that are replaced at most once,
\* and the namespace for its Kubernetes objects.
Configuration == [credentials : 0..1, namespace : Namespaces]

Places == Hubs \X Namespaces

ASSUME ReconcilerAssumption ==
    /\ Ids \subseteq Nat /\ Others \subseteq Nat \ Ids
    /\ Hubs \subseteq Nat /\ IsFiniteSet(Hubs)
    /\ 0 \in Namespaces
    /\ Kinds \subseteq KindsOfObjects
    /\ MaxChanges \in Nat /\ MaxFaults \in Nat /\ MaxPending \in Nat
    /\ {NoHub, InPool} \intersect Hubs = {}
    /\ {NoObject, Archived} \intersect Object = {} /\ NoObject # Archived
    /\ HubCreated \notin Item /\ NoEntry \notin Configuration

VARIABLES
    kind,      \* the kind of object of this reconciler
    others,    \* other objects in the server, that nobody changes any more
    table,     \* the objects in the server
    hubs,      \* the hubs registered in the server
    config,    \* configuration of each hub, with the credentials that it accepts
    pool,      \* hub in the status of the host pool
    template,  \* whether the template of the virtual machines exists
    kube,      \* Kubernetes objects of each namespace with the label of each object
    stream,    \* events sent by the server and not received
    wpc,       \* watch loop: "down", "recv" or "send"
    wqueue,    \* objects that the watch loop has to send, in the order of the list query
    squeue,    \* objects that the sync loop has to send, in the same order
    rpc,       \* Start: "wait", or the next step of the function
    task,      \* the object of the function, and the hub it works with
    cache,     \* configuration of each hub in the hub cache
    changes,   \* changes so far
    faults     \* faults so far

fixed == <<kind, others>>
server == <<table, hubs, config, pool, template>>
vars == <<fixed, table, hubs, config, pool, template, kube, stream,
          wpc, wqueue, squeue, rpc, task, cache, changes, faults>>

Live(id) == table[id] \notin {NoObject, Archived}

\* The credentials that were cached are no longer accepted.
Stale(h) == cache[h] # NoEntry /\ cache[h].credentials # config[h].credentials

----------------------------------------------------------------------------

\* An object as it is created.
Fresh(spec) == [spec |-> spec, state |-> "unspecified",
                hub |-> IF kind = "host" THEN InPool ELSE NoHub]

\* The controller starts when there may already be hubs and objects.
Init ==
    /\ kind \in Kinds
    /\ others \in SUBSET Others
    /\ table \in [Ids -> {Fresh(spec) : spec \in Specs} \union {NoObject}]
    /\ hubs \in SUBSET Hubs
    /\ config = [h \in Hubs |-> [credentials |-> 0, namespace |-> 0]]
    /\ pool = NoHub
    /\ template = TRUE
    /\ kube = [place \in Places |-> [id \in Ids |-> <<>>]]
    /\ stream = <<>>
    /\ wpc = "down"
    /\ wqueue = {}
    /\ squeue = {}
    /\ rpc = "wait"
    /\ task = NoTask
    /\ cache = [h \in Hubs |-> NoEntry]
    /\ changes = 0
    /\ faults = 0

Fault == faults < MaxFaults /\ faults' = faults + 1

\* The server announces an event; nobody gets it unless the watch is up.
Announce(event) ==
    stream' = IF wpc = "down" THEN stream ELSE Append(stream, event)

\* The object is replaced in the server, and the change announced.
Put(id, object) ==
    /\ table' = [table EXCEPT ![id] = object]
    /\ Announce([id |-> id, object |-> object, deleted |-> FALSE])

----------------------------------------------------------------------------
(* What others do to the server and to the hubs. *)

Change ==
    /\ changes < MaxChanges
    /\ changes' = changes + 1
    /\ UNCHANGED <<fixed, kube, wpc, wqueue, squeue, rpc, task, cache, faults>>

\* The server refuses to write a virtual machine without its template.
Accepted == kind = "virtual machine" => template

UserCreate(id, spec) ==
    /\ table[id] = NoObject
    /\ Accepted
    /\ Put(id, Fresh(spec))
    /\ UNCHANGED <<hubs, config, pool, template>>
    /\ Change

\* The public server of clusters keeps the status.  That of virtual machines
\* clears it if the request has none, and those of host pools and of hosts if
\* it has no mask.
AfterUserUpdate(object, spec) ==
    {[object EXCEPT !.spec = spec]} \union
    (IF kind = "cluster" THEN {}
     ELSE {[spec |-> spec, state |-> "unspecified", hub |-> NoHub]})

UserUpdate(id, spec) ==
    /\ Live(id)
    /\ Accepted
    /\ \E object \in AfterUserUpdate(table[id], spec) \ {table[id]} : Put(id, object)
    /\ UNCHANGED <<hubs, config, pool, template>>
    /\ Change

\* There are no finalizers, so the object is archived at once.
UserDelete(id) ==
    /\ Live(id)
    /\ table' = [table EXCEPT ![id] = Archived]
    /\ Announce([id |-> id, object |-> table[id], deleted |-> TRUE])
    /\ UNCHANGED <<hubs, config, pool, template>>
    /\ Change

\* The operator of the hub reports that it is done, or that it failed.
Feedback(id) ==
    /\ Live(id)
    /\ Accepted
    /\ table[id].state = "initial"
    /\ \E place \in Places : kube[place][id] # <<>>
    /\ Put(id, [table[id] EXCEPT !.state = "final"])
    /\ UNCHANGED <<hubs, config, pool, template>>
    /\ Change

RegisterHub(h) ==
    /\ h \notin hubs
    /\ hubs' = hubs \union {h}
    /\ Announce(HubCreated)
    /\ UNCHANGED <<table, config, pool, template>>
    /\ Change

\* New credentials, another namespace, or both.  Nothing moves what is in the
\* namespace that the hub had, and the entry of the cache stays as it is.
UpdateHub(h) ==
    /\ h \in hubs
    /\ \E new \in Configuration \ {config[h]} :
           /\ new.credentials >= config[h].credentials
           /\ config' = [config EXCEPT ![h] = new]
    /\ UNCHANGED <<table, hubs, pool, template, stream>>
    /\ Change

\* The hub is deleted from the server, and what is in it stays.
RemoveHub(h) ==
    /\ h \in hubs
    /\ hubs' = hubs \ {h}
    /\ UNCHANGED <<table, config, pool, template, stream>>
    /\ Change

\* The host pool is placed on a hub, or it is deleted.
ChangePool ==
    /\ kind = "host"
    /\ pool' \in hubs \union {NoHub}
    /\ pool' # pool
    /\ UNCHANGED <<table, hubs, config, template, stream>>
    /\ Change

RemoveTemplate ==
    /\ kind = "virtual machine"
    /\ template
    /\ template' = FALSE
    /\ UNCHANGED <<table, hubs, config, pool, stream>>
    /\ Change

----------------------------------------------------------------------------
(* The loops of the reconciler. *)

\* What the server answers of a collection to a list request without offset,
\* limit or filter.
Listed(ids) == Page(ids, 0, 0)

\* The function does nothing of interest with the others.
FirstPage ==
    {[id |-> id, object |-> table[id], deleted |-> FALSE] :
        id \in Ids \intersect Listed({id \in Ids : Live(id)} \union others)}

\* The events from now on.
WatchStart ==
    /\ wpc = "down"
    /\ wpc' = "recv"
    /\ stream' = <<>>
    /\ UNCHANGED <<fixed, server, kube, wqueue, squeue, rpc, task, cache, changes, faults>>

\* The stream ends, or the list request after the creation of a hub fails:
\* the watch sleeps for a while, and starts again.
WatchBreak ==
    /\ wpc = "recv"
    /\ wpc' = "down"
    /\ stream' = <<>>
    /\ Fault
    /\ UNCHANGED <<fixed, server, kube, wqueue, squeue, rpc, task, cache, changes>>

\* Mutant of WatchRecv: the loop waits to send what it doesn't have.
WatchRecvSending ==
    /\ wpc = "recv"
    /\ stream # <<>>
    /\ stream' = Tail(stream)
    /\ wqueue' = IF Head(stream) = HubCreated THEN FirstPage ELSE {Head(stream)}
    /\ wpc' = "send"
    /\ UNCHANGED <<fixed, server, kube, squeue, rpc, task, cache, changes, faults>>

WatchRecv ==
    /\ wpc = "recv"
    /\ stream # <<>>
    /\ stream' = Tail(stream)
    /\ wqueue' = IF Head(stream) = HubCreated THEN FirstPage ELSE {Head(stream)}
    /\ wpc' = IF wqueue' = {} THEN "recv" ELSE "send"
    /\ UNCHANGED <<fixed, server, kube, squeue, rpc, task, cache, changes, faults>>

Pending == Len(stream) + Cardinality(wqueue) + Cardinality(squeue)

\* Mutant of SyncList: the answer to the list request is dropped.
SyncListNothing ==
    /\ squeue = {}
    /\ Pending + Cardinality(FirstPage) <= MaxPending
    /\ UNCHANGED vars

\* The sync loop lists the objects when it starts, and when the interval has
\* passed since it sent the last one.  A list request that fails changes nothing.
SyncList ==
    /\ squeue = {}
    /\ Pending + Cardinality(FirstPage) <= MaxPending
    /\ squeue' = FirstPage
    /\ UNCHANGED <<fixed, server, kube, stream, wpc, wqueue, rpc, task, cache, changes, faults>>

\* The function of reconciliation is called with the first object of a queue.
Call(queue, item) ==
    /\ item \in queue /\ \A other \in queue : item.id <= other.id
    /\ rpc = "wait"
    /\ rpc' = "begin"
    /\ task' = [id |-> item.id, object |-> item.object, deleted |-> item.deleted,
                hub |-> NoHub]

ReceiveFromWatch ==
    /\ wpc = "send"
    /\ \E item \in wqueue : Call(wqueue, item) /\ wqueue' = wqueue \ {item}
    /\ wpc' = IF wqueue' = {} THEN "recv" ELSE "send"
    /\ UNCHANGED <<fixed, server, kube, stream, squeue, cache, changes, faults>>

ReceiveFromSync ==
    /\ \E item \in squeue : Call(squeue, item) /\ squeue' = squeue \ {item}
    /\ UNCHANGED <<fixed, server, kube, stream, wpc, wqueue, cache, changes, faults>>

----------------------------------------------------------------------------
(* The function of reconciliation. *)

\* It ends, with an error that is only written to the log or without.
Return ==
    /\ rpc' = "wait"
    /\ task' = NoTask

SetDefaults(object) ==
    IF object.state = "unspecified" THEN [object EXCEPT !.state = "initial"] ELSE object

\* Whether the hub has nothing to do with the call: the object was deleted
\* before a hub was saved, or it isn't progressing.
NoWork ==
    IF task.deleted
    THEN kind \in {"cluster", "virtual machine"} /\ task.object.hub = NoHub
    ELSE kind # "host" /\ SetDefaults(task.object).state # "initial"

\* The hub of the host pool of a host.
PoolHub(object) == IF object.hub = InPool THEN {pool} \ {NoHub} ELSE {}

\* Mutant of HubChoices: the hub of the status isn't considered.
HubChoicesAnew ==
    IF kind = "host" THEN PoolHub(task.object) ELSE Listed(hubs)

\* The hubs that selectHub may choose.
HubChoices ==
    IF kind = "host" THEN PoolHub(task.object)
    ELSE IF task.object.hub = NoHub THEN Listed(hubs) ELSE {task.object.hub}

Defaulted == IF task.deleted THEN task.object ELSE SetDefaults(task.object)

\* Those whose client it can get: from the cache, or from the server.
Reachable == {h \in HubChoices : h \in hubs \/ cache[h] # NoEntry}

\* Nothing to do but to write the object back.
Skip ==
    /\ rpc = "begin"
    /\ NoWork
    /\ task' = [task EXCEPT !.object = Defaulted]
    /\ rpc' = "save"
    /\ UNCHANGED <<fixed, server, kube, stream, wpc, wqueue, squeue, cache, changes, faults>>

\* Choose the hub, or take the one of the status, and get its client from the
\* cache, that asks the server only once.
SelectHub ==
    /\ rpc = "begin"
    /\ ~NoWork
    /\ \E h \in Reachable :
           /\ cache' = [cache EXCEPT ![h] = IF @ = NoEntry THEN config[h] ELSE @]
           /\ task' = [task EXCEPT
                           !.hub = h,
                           !.object = IF task.deleted \/ kind = "host" THEN Defaulted
                                      ELSE [Defaulted EXCEPT !.hub = h]]
    /\ rpc' = "kube"
    /\ UNCHANGED <<fixed, server, kube, stream, wpc, wqueue, squeue, changes, faults>>

\* There are no hubs, or the host has no host pool, or the host pool no hub, or
\* the hub was deleted.
NoHubs ==
    /\ rpc = "begin"
    /\ ~NoWork
    /\ Reachable = {}
    /\ Return
    /\ UNCHANGED <<fixed, server, kube, stream, wpc, wqueue, squeue, cache, changes, faults>>

\* The function looks in one namespace of the hub, and the one that the cache
\* has: the entry doesn't change while the process lives.
Place == <<task.hub, cache[task.hub].namespace>>

Orders == kube[Place][task.id]

\* Mutant of Applied: create without looking for an existing object.
AppliedBlindly ==
    IF task.deleted THEN <<>> ELSE Append(Orders, task.object.spec)

\* What the function does to the Kubernetes objects with the label: create,
\* change or delete the only one.
Applied ==
    IF task.deleted THEN <<>> ELSE <<task.object.spec>>

\* Find the Kubernetes object by its label, and act on it.
Kube ==
    /\ rpc = "kube"
    /\ ~Stale(task.hub)
    /\ Len(Orders) <= 1
    /\ kube' = [kube EXCEPT ![Place][task.id] = Applied]
    /\ rpc' = "save"
    /\ UNCHANGED <<fixed, server, stream, wpc, wqueue, squeue, task, cache, changes, faults>>

\* The hub doesn't accept the credentials, or there are several objects.
KubeRefused ==
    /\ rpc = "kube"
    /\ Stale(task.hub) \/ Len(Orders) > 1
    /\ Return
    /\ UNCHANGED <<fixed, server, kube, stream, wpc, wqueue, squeue, cache, changes, faults>>

\* Mutant of KubeFails: the error is ignored, and the object is saved.
KubeFailsIgnored ==
    /\ rpc = "kube"
    /\ rpc' = "save"
    /\ Fault
    /\ UNCHANGED <<fixed, server, kube, stream, wpc, wqueue, squeue, task, cache, changes>>

\* A call to the server for the hub fails, or a call to the hub, before or
\* after it took effect.
KubeFails ==
    /\ \/ rpc = "begin" /\ ~NoWork /\ UNCHANGED kube
       \/ rpc = "kube" /\ UNCHANGED kube
       \/ /\ rpc = "kube" /\ ~Stale(task.hub) /\ Len(Orders) <= 1
          /\ kube' = [kube EXCEPT ![Place][task.id] = Applied]
    /\ Return
    /\ Fault
    /\ UNCHANGED <<fixed, server, stream, wpc, wqueue, squeue, cache, changes>>

\* The whole object is written back, as it was when the event was announced
\* but for the changes of the function.  The server refuses it if the object
\* is gone, or if its template is, and announces it only if it is different.
Save ==
    /\ rpc = "save"
    /\ \/ /\ ~(Live(task.id) /\ Accepted)
          /\ UNCHANGED <<table, stream>>
       \/ /\ Live(task.id) /\ Accepted
          /\ IF table[task.id] = task.object THEN UNCHANGED <<table, stream>>
             ELSE Put(task.id, task.object)
    /\ Return
    /\ UNCHANGED <<fixed, hubs, config, pool, template, kube, wpc, wqueue, squeue,
                   cache, changes, faults>>

SaveFails ==
    /\ rpc = "save"
    /\ Return
    /\ Fault
    /\ UNCHANGED <<fixed, server, kube, stream, wpc, wqueue, squeue, cache, changes>>

\* The process of the controller is replaced by another.
Crash ==
    /\ Fault
    /\ stream' = <<>>
    /\ wpc' = "down"
    /\ wqueue' = {}
    /\ squeue' = {}
    /\ Return
    /\ cache' = [h \in Hubs |-> NoEntry]
    /\ UNCHANGED <<fixed, server, kube, changes>>

----------------------------------------------------------------------------

Environment ==
    \/ \E id \in Ids, spec \in Specs : UserCreate(id, spec) \/ UserUpdate(id, spec)
    \/ \E id \in Ids : UserDelete(id) \/ Feedback(id)
    \/ \E h \in Hubs : RegisterHub(h) \/ UpdateHub(h) \/ RemoveHub(h)
    \/ ChangePool
    \/ RemoveTemplate

\* The steps of the function that are not faults.
Function == Skip \/ SelectHub \/ NoHubs \/ Kube \/ KubeRefused \/ Save

Next ==
    \/ Environment
    \/ WatchStart \/ WatchRecv \/ SyncList
    \/ ReceiveFromWatch \/ ReceiveFromSync
    \/ Function
    \/ WatchBreak \/ KubeFails \/ SaveFails \/ Crash

Spec == Init /\ [][Next]_vars

\* The timers fire, calls end, and a channel serves its senders in order.
Fairness ==
    /\ WF_vars(WatchStart) /\ WF_vars(WatchRecv) /\ WF_vars(SyncList)
    /\ SF_vars(ReceiveFromWatch) /\ SF_vars(ReceiveFromSync)
    /\ WF_vars(Function)

FairSpec == Spec /\ Fairness

----------------------------------------------------------------------------

(***************************************************************************)
(* The types of the state; the watch loop is sending exactly while it has  *)
(* something to send, and there is a task exactly while the function runs. *)
(***************************************************************************)
TypeOK ==
    /\ kind \in Kinds
    /\ others \subseteq Others
    /\ table \in [Ids -> Object \union {NoObject, Archived}]
    /\ hubs \subseteq Hubs
    /\ config \in [Hubs -> Configuration]
    /\ pool \in Hubs \union {NoHub}
    /\ template \in BOOLEAN
    /\ kube \in [Places -> [Ids -> Seq(Specs)]]
    /\ stream \in Seq(Item \union {HubCreated})
    /\ wqueue \union squeue \subseteq Item
    /\ wpc \in {"down", "recv", "send"}
    /\ wpc = "send" <=> wqueue # {}
    /\ rpc \in {"wait", "begin", "kube", "save"}
    /\ IF rpc = "wait" THEN task = NoTask
       ELSE /\ task \in [id : Ids, object : Object, deleted : BOOLEAN,
                         hub : Hubs \union {NoHub}]
            /\ rpc = "kube" => cache[task.hub] # NoEntry
    /\ cache \in [Hubs -> Configuration \union {NoEntry}]
    /\ changes \in 0..MaxChanges
    /\ faults \in 0..MaxFaults

(***************************************************************************)
(* A namespace of a hub never has two Kubernetes objects for one object,   *)
(* although they have generated names, calls are repeated after a failure  *)
(* that may have taken effect, and the controller crashes (getKubeObject   *)
(* before Create).  A hub may have one in each of its namespaces.          *)
(***************************************************************************)
OneOrderPerNamespace == \A place \in Places, id \in Ids : Len(kube[place][id]) <= 1

\* The object has a Kubernetes object in a namespace of the hub.
HasOrder(h, id) == \E n \in Namespaces : kube[<<h, n>>][id] # <<>>

(***************************************************************************)
(* The hub in the status of an object can be trusted: a Kubernetes object  *)
(* for it is there, whatever stale objects are written back and wherever   *)
(* the hub moved to, because run saves the hub only after update has       *)
(* worked against it.                                                      *)
(***************************************************************************)
SavedHubHasOrder ==
    \A id \in Ids :
        Live(id) /\ table[id].hub \in Hubs => HasOrder(table[id].hub, id)

(***************************************************************************)
(* Who asks for page after page of a collection, with any limit that isn't *)
(* negative, gets each object once, and never more than MaxLimit at a time *)
(* (what the sync and selectHub don't do): a page has those that come next *)
(* after the ones before its offset, and it is empty only after the last.  *)
(***************************************************************************)
PagesCoverCollection ==
    LET Before(offset) == {h \in hubs : Rank(h, hubs) < offset}
    IN  \A limit \in 0..MaxLimit + 1 : \A offset \in 0..Cardinality(hubs) :
            LET page == Page(hubs, offset, limit)
            IN  /\ Before(offset + Cardinality(page)) = Before(offset) \union page
                /\ Before(offset) \intersect page = {}
                /\ page = {} => Before(offset) = hubs
                /\ Cardinality(page) <= MaxLimit

\* The hub that an object is on, according to its status.
HubsOf(object) == IF kind = "host" THEN PoolHub(object) ELSE {object.hub} \ {NoHub}

\* Why an object may stay without a hub.
Excused(id) ==
    \/ hubs = {}
    \/ \E h \in Hubs : Stale(h)
    \/ HubsOf(table[id]) \ hubs # {}
    \/ ~Accepted
    \/ kind = "host" /\ PoolHub(table[id]) = {}
    \/ \A item \in FirstPage : item.id # id

Placed(id) == \E h \in HubsOf(table[id]) : HasOrder(h, id)

(***************************************************************************)
(* Every object is placed sooner or later, also if its events were lost,   *)
(* calls failed or the controller was down when it was created (watchLoop  *)
(* and syncLoop) -- if it is among those that the sync lists, and the      *)
(* clients of the hub cache work.                                          *)
(***************************************************************************)
EveryObjectPlaced ==
    \A id \in Ids :
        []<>(~Live(id) \/ table[id].state = "final" \/ Placed(id) \/ Excused(id))

\* A deletion that the watch has got, or the function is working on.
Deletions ==
    {e \in {stream[i] : i \in DOMAIN stream} \union wqueue \union {task} :
        e \notin {HubCreated, NoTask} /\ e.deleted}

\* The namespace where the function looks for the Kubernetes objects of a hub.
NamespaceOf(h) == IF cache[h] = NoEntry THEN config[h].namespace ELSE cache[h].namespace

\* The hub got another namespace, and the function looks only in that one.
LeftBehind(h, id) ==
    \E n \in Namespaces : n # NamespaceOf(h) /\ kube[<<h, n>>][id] # <<>>

(***************************************************************************)
(* A deletion that the watch has got, of an object with a hub, leaves the  *)
(* hub without Kubernetes objects for it, and none ever comes back         *)
(* (delete, of an object that the server doesn't save any more).  Not so   *)
(* if a copy of the object waits in the sync, as the function doesn't know *)
(* that the copy is too old; if there are faults, as an error is not       *)
(* retried; or if the hub is removed, refuses the client, or had another   *)
(* namespace.                                                              *)
(***************************************************************************)
DeletionReachesHub ==
    \A id \in Ids, h \in Hubs :
        (/\ faults = MaxFaults
         /\ \E e \in Deletions : e.id = id /\ h \in HubsOf(e.object)
         /\ \A item \in squeue : item.id # id)
        ~> (\/ [](~HasOrder(h, id))
            \/ Stale(h) \/ h \notin hubs \/ LeftBehind(h, id)
            \/ kind = "host" /\ pool # h)

(***************************************************************************)
(* "ReconcilerFunction is a function that receives the current state of an *)
(* object and reconciles it": once its users leave it alone, the object of *)
(* the hub becomes what the object asks for, and stays so (watchEvents and *)
(* syncObjects queue what the object was, and run writes it back).         *)
(***************************************************************************)
ReconcilesCurrentState ==
    \A id \in Ids :
        <>[](\/ ~Live(id) \/ table[id].state = "final" \/ Excused(id)
             \/ \E h \in HubsOf(table[id]), n \in Namespaces :
                    kube[<<h, n>>][id] = <<table[id].spec>>)
=============================================================================
