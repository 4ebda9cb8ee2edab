# A TLA+ model of the fulfillment service

The fulfillment service keeps objects (clusters, virtual machines, hosts, host
pools, host classes, hubs and templates) in PostgreSQL, offers them over gRPC,
announces every change as an event, and runs controllers that turn the objects
into Kubernetes objects on remote hubs. The modules here model the path of a
change: what the servers make of a request, the call with its transaction and its
event, the delivery of that event to those who watch, and what the controllers do
about it on the hubs and in the server.

## Inventory

| Component | State it keeps | Operations | Hard parts |
|---|---|---|---|
| Generic DAO (`database/dao/generic_dao.go`) | one table and one archived table for each type | create, update, delete, get, list, exists | several statements per call, unlocked reads, archiving decided by two operations |
| Generic server (`servers/generic_server.go`) | cache of compiled masks | Create, Update with a mask, Delete, Get, List, notifyEvent | read, change and write back |
| Transaction manager and interceptor (`database/database_tx_*.go`) | the transaction of each call and its errors | Begin, End, ReportError, lazy start | commit or rollback decided by reported errors, limited pool, lost answers |
| Notifier (`database/database_notifier.go`) | notifications table, shared by all the servers | Notify | deletes payloads after one minute, inside each transaction |
| Listener (`database/database_listener.go`) | one connection | Listen and its loops, callbacks | reconnection, timeouts, lost notifications |
| Events servers (`servers/private_events_server.go`, `servers/events_server.go`) | subscriptions under a read/write lock, one unbuffered channel each | Watch, processEvent | blocking sends under a lock, closing of channels, tenants |
| Reconciler (`controllers/reconciler.go`) | one unbuffered channel, times of the last watch and sync | watch loop, sync loop, reconcile loop | stale objects, lost events, limits of the sync |
| Reconciler functions (`controllers/*/*_reconciler_function.go`) | Kubernetes objects on the hubs, hub and state in the status | update, delete, selectHub, getKubeObject | steps against two systems, crashes between them |
| Hub cache (`controllers/hub_cache.go`) | client and namespace by hub | Get | never invalidated |
| Public and private object servers (`servers/*_server.go`) | none of their own | translate, validate, delegate | what an update preserves |
| Mapper, masks, template parameters | none | pure algorithms | nested messages, lists and maps |
| Tenancy and attribution (`auth/*_logic.go`) | none | assigned and visible tenants, creators | agreement of the two |
| Authentication, panic recovery, filter translation, JSON, jq, commands, gateway | none that calls share | | a panic commits the transaction |

How they interact: the gRPC interceptors (panic, logging, authentication,
transaction) wrap each call; an object server delegates to the generic server,
and that to the DAO, that runs its statements in the transaction of the call.
The DAO fires an event inside that transaction; the generic server turns it
into a notification, that PostgreSQL delivers at the commit to the sessions that
listen. Each events server has a listener that runs its callback, and forwards
the event to the calls of Watch. The controllers are clients of the private
events server and of the private object servers.

What makes each part correct, and the hazards at their lines, are in
`PROJECT.json`; the properties below are aimed at them.

## Modules

| Module | Models |
|---|---|
| `ObjectStore` | what one table promises: atomic Create, Update and Delete, one event for each, archiving in the step that leaves nothing to wait for |
| `ObjectStoreProofs` | its inductive invariant and proofs |
| `GenericServer` | transaction interceptor and manager, generic server, DAO and notifier, one step per SQL statement, any number of calls in flight; implements `ObjectStore` |
| `GenericServerProofs` | its inductive invariant, and the proof of the implementation |
| `Messages` | messages as functions from paths to values; the copies of the mapper; Get, Set and Clear of the paths of masks |
| `ObjectServer` | public and private servers of clusters, virtual machines and host pools around an `ObjectStore`: mapping, masks, templates |
| `Listener` | notifier's table and the listener, with connections that break or stall |
| `PrivateEventsServer` | Watch and processEvent as goroutines with a lock and unbuffered channels |
| `Tenancy` | which tenants a subject sees, and which its objects are assigned to, by logic |
| `EventsServer` | `PrivateEventsServer` with processPayload, checkTenancy and processEvent of the public server, on `Tenancy` |
| `ListPage` | limit and offset of the list requests |
| `Reconciler` | watch, sync and reconcile loops, the four reconciler functions and the hub cache, between the server and the hubs; lists with `ListPage` |
| `ObjectServerProofs`, `ListenerProofs`, `PrivateEventsServerProofs`, `EventsServerProofs`, `ListPageProofs`, `ReconcilerProofs` | the inductive invariants and proofs of those modules |
| `MCGenericServer`, `MCObjectServer`, `MCListener`, `MCPrivateEventsServer`, `MCEventsServer`, `MCReconciler` | the constants of the runs |
| `MCEventsServers` | the private and the public events server as two kinds of behaviour of one run |

`ObjectServer` extends `ObjectStore`, `GenericServer` implements it, and
`Reconciler` assumes what it promises for objects without finalizers: so the
layers are composed through that specification rather than by one product of all
of them.

Operators called "Mutant of ..." in their comments are not part of any
specification: each is what a definition would be with a plausible mistake, and
a property that the mistake violates is listed with it in `PROJECT.json`.

### ObjectStore and GenericServer

`rows`, `archived` and `log` are the committed tables and the stream of
notifications; `tx[r]` is the `managedTx` of a call, with what its transaction
has written and nobody else can see. `pc[r]` names the next statement:
`Insert`; `Fetch`, `Compare`, `Write`; or `Mark`; then `Notify`, the delete of the
old notifications and, if the row is marked for deletion and has no finalizers,
`Archive`. `Fail` is an error of
any statement, reported with `ReportError`; `Commit` and `Rollback` are `End`;
`Abandon` is the loss of the server, of the connection, or a failed commit.
Note what the code does not report: the lookup of `GenericServer.Update` that
finds nothing returns an error to the client without reporting one, and the
transaction, that has written nothing, is committed.

PostgreSQL is external: read committed isolation, a row lock from the first
write to the end of the transaction, a primary key violation once the lock is
free, and a NOTIFY that is delivered at the commit, in the order of the commits.

`notes` are the rows that are in the notifications table when the calls begin. The
delete of a call gets to some of them, those that are one minute old for its
transaction, in any order (`BeginCleaning`), and locks them one after the other
until the transaction ends (`LockOld`). So two transactions may wait for each
other's notifications; `DetectDeadlock` is what PostgreSQL does about it: one of the
statements in the circle fails. The other locks are those of the rows of objects,
one for each transaction, taken before any notification is locked: who waits for
one of those holds nothing.

The data of an object is a function from a few fields to values; `Secrets` are the
fields that `notifyEvent` removes from what it announces, the kubeconfig of a hub. The
finalizers are a set, because `getFinalizers` sorts and removes duplicates; whether
the request had them in that form matters only for `equivalent`, and is the flag
`exact`. Creators behave as tenants, and are left out. Requests without an object or
identifier and masks that don't compile reach no write.

### Messages and ObjectServer

A message is a function from the paths of its fields, and of the entries of its maps,
to values; what is inside of an absent message is absent, and a list is one value.
`WellFormed` says it: what encloses a field or an entry is absent or present, and has
no other value. `Copy` and `CopyOut` are `GenericMapper.Copy` in its two directions:
the fields that only the private message has are kept if the copy gets to them, and
vanish if an enclosing field of the request is absent, because that field is cleared.
`PathSet` and `PathClear` are `Path.Set` and `Path.Clear`, with the detail that
setting a field in the entry of a map puts a new entry there, and that clearing one in
an entry that isn't there panics.

A public Update has two steps, `ReadPublic`, that gets the object and copies the
request into it (into an empty one for a host pool), and `WritePublic`, the
private Update with the mask, whose paths are applied one after the other
(`Stages[i]` is the object after the first `i` of them); other calls, the status that
the controller saves and changes of the template come in between. `contents` is what
the template declares (parameters, defaults, node sets), which its private server may
replace at any time, also together with a deletion and a second creation
(`ChangeTemplate`). Rows and messages are converted by
`DataOf` and `MessageOf`, so that the finalizers of a message really are those of
the row. `WithDefaults` and `WithNodeSets` are what the private servers make of a
new object, with the checks of `CreateAccepted`. The server of hosts differs from
that of host pools only in names.

### Tenancy

`SelectDelegate` is the choice of the default logic by the source of the subject;
the three others are `DetermineAssignedTenants`, `DetermineVisibleTenants` and,
for the error of a name that isn't that of a service account, `Determined`. In
`EventsServer` each event has a creator, with the logic of the server it used, and
the tenants of its object follow from them.

### Listener

A notification is its number in the order of commits. `conn` is the connection
as it really is: `idle` before the listen statement, `open`, `stalled` (open, but
nothing arrives), `broken` (failed, and the client doesn't know yet), `closed`
(and it knows). `socket` is what was sent and not read; `buffer` what the
PostgreSQL client read while it was waiting for the answer to a query, and gives
before anything else. The timeout is for one notification, the wait and the query of
its payload: when it expires during the wait the connection stays as it was, when it
expires before the query is sent the notification is dropped and the connection stays
too (`PayloadNotAsked`), and during the query the client closes the connection
(`PayloadFails`), without any fault of the database. `dropped` is history as well,
like `sentTo` and `session`, that say which notifications a session should have got.

### PrivateEventsServer and EventsServer

Events are numbered in the order of their arrival. `lpc` is the goroutine of the
listener inside `processEvent`, that holds the read lock from `Receive` to
`Finish`; `wpc` are the goroutines of Watch. The channel is unbuffered, so that
sending and receiving are one step, `HandOver`. The write lock is held for a few
assignments, and is part of the steps that take it. The filter of a call is
the set of events it accepts; a filter that fails to evaluate rejects.

### Reconciler

`wpc` and `wqueue` are the watch loop, which gets events from `stream` and sends
objects to the channel; `squeue` is what the sync loop still has to send of the page
that it listed. Both are sets, of which the first in the order of the list query is
sent next; a page of the list (`ListPage`) is the set of the rows whose rank in that
order is between the offset and the offset plus the limit. `rpc` and `task` are the
goroutine of Start inside the reconciler function. The channel is unbuffered:
`ReceiveFromWatch` and `ReceiveFromSync` hand an object over. The function is
`SelectHub` (defaults, hub and client), `Kube` (search by label, then create, patch or
delete) and `Save` (the write back of the whole object), with `Skip` and the error
returns.

`kind` says which of the four functions it is; they differ in when they have
nothing to do, in how they find the hub (a host through its host pool), and in
what a public update does to their status. Users create, change and delete the
object, the operator of the hub reports its state, administrators register and
remove hubs, and give them other credentials or another namespace (`UpdateHub`), and a
template can go away; these are bounded by `MaxChanges`. The cache keeps the
configuration that a hub had when it was first used: with old credentials the hub
refuses the client (`Stale`), while the old namespace still works until the process
restarts. `Fault` bounds broken streams, failed calls to the server and to
hubs (before or after they took effect), and replacements of the process, that
lose the queues, the task and the cache. `kube[<<h, n>>][id]` is the sequence of
Kubernetes objects with its label in a namespace of a hub, each with the spec it was
given last.

## Runs

| Run | Instance | Shows |
|---|---|---|
| `server` | two callers, one object with a secret field, four calls, two connections | implementation of the store, its promises, truthful answers |
| `server_liveness` | three callers, three calls, two connections, two old notifications, fair | every call ends |
| `server_mask` | two callers | **violation**: a masked update undoes a concurrent one |
| `object_server` | each kind, one object, two contents of the template, one public update in flight, histories of three events (constraint) | the store's invariant for what the servers write; users don't set the status; new objects follow their template as it is then; hidden fields are kept, and an echo changes nothing, but for named cases |
| `private_data` | the same | **violation**: a public update without mask loses what the user doesn't see |
| `listener` | three notifications, two failures of any kind, fair | order, no repetition, losses only by age and by a query that fails or times out; it listens again, and stops when told to |
| `listener_stall` | one stall, fair | **violation**: the wait timeout doesn't replace the connection |
| `private_events_removal` | two watchers, two events, one departure, fair | **violation**: deadlock of listener and watcher |
| `events` | a private server with three watchers, fair, or a public one with a service account, a user with a group, a guest, and a subject whose tenants can't be determined; three events of different creators, one departure | no send on a closed channel; private: no gaps, everything is delivered while nobody leaves; public: nobody gets what is not theirs, nor misses what all the subscribers can see |
| `events_others` | two watchers of two tenants | **violation**: one watcher hides events from another |
| `reconciler` | each kind, one object beside another that fills the page, two hubs, two namespaces, two changes, one fault, fair | one Kubernetes object per namespace, the saved hub has one, every listed object is placed, deletions empty the hub for good |
| `reconciler_stale` | one cluster and hub, two changes, no fault, fair | **violation**: two queued versions replace each other for ever |

Why the bounds are enough: the operations on different objects share only the
connections, so one object is enough for safety, and the proofs cover the rest.
Four calls are a creation, two changes that race a deletion, or a deletion and a
second creation of the same identifier. Two callers are the smallest race; three
with two connections let one wait for a connection, one for a lock, while one
runs. Three notifications put one in process, one in the buffer and one on the
wire; two failures allow one during the recovery from another. Three watchers
with three filters put one before and one after the one that goes away; in
`events` a fourth is of a user without permission to anything. Two
changes are the creation of an object and its deletion, its change, or the end of
its hub, at any step of the function; a fault is the crash or the failure that
the next sync must make up for. A page of one row stands for the default limit,
and two objects for a collection that is larger. One public update in flight is
enough because what others do to its object is one step each: the interleaving of
two updates statement by statement is the subject of `GenericServer`. Histories of
three events are a creation, a change, and a change or deletion, and the deletion
and second creation of an identifier. Two contents of the template are one with which
an object was made and one that accepts other requests and has other defaults. Two old
notifications are what a circle of two calls takes; they are in `server_liveness` only,
because in `server` they would change nothing that the properties speak about: the
proofs have them in any number. Two namespaces are the old and the new one of a hub.

Deadlock is checked in the runs of `GenericServer`, that ends in the step `Quiet`, and
in those of `ObjectServer` and `Reconciler`. It is not checked where the system may
stop: the listener returns when its context is done, and the goroutines of the events
servers may block for ever, which is the third finding.

Fairness. A goroutine that can run eventually runs, timers fire, and PostgreSQL
grants a lock that is free: weak fairness of the steps of each call, of
`Listen`, of each call of Watch and of processEvent. No fairness is assumed of
the clients, of failures, of the arrival of notifications, or of the start of
calls. A client that stays is assumed to read what is sent to it. Weak fairness
of the whole `Step(r)` is enough for locks because the number of calls is bounded
and each holder ends. In `Reconciler` the watch starts again and the sync lists
again because their timers fire, and the function ends because its calls do. Its
two senders share a channel, and Go serves the senders that wait for a channel in
their order, so neither can be passed over for ever: strong fairness of
`ReceiveFromWatch` and of `ReceiveFromSync`. A hub that is chosen at random is
any of the listed ones, and no fairness of that choice is assumed. The deadlock
detector of PostgreSQL runs: it is part of `Step(r)`.

## Findings

Each is a violation run, described with the lines involved in `PROJECT.json`.

1. `MaskRespected`: an update with a mask writes back the other fields as they
   were when it read them.
2. `RecoversFromStall`: the documentation of `SetWaitTimeout` says that the
   connection is replaced; the code waits again on the same one.
3. `SubscriptionRemoved`: the listener, sending to a subscription with the read
   lock held, and its watcher, waiting for the write lock, wait for each other.
   The public server has the same code.
4. `PublicNoGaps`: the loop over the subscriptions returns at the first user who
   can't see the object.
5. `ReconcilesCurrentState`: the function gets the object as it was when it was
   queued, and writes all of it back; two versions in the queue are announced
   and written in turns for ever, although nobody else changes the object.
6. `PrivateDataPreserved`: the comments of the public servers of clusters and of
   virtual machines say that the changes of the user are mapped "preserving private
   data", and a field that the request doesn't have is cleared with the finalizers or
   the hub in it.
7. `PrivateDataPreserved` for host pools: a comment and a test say that users can't
   change the status, and an update without mask takes it away, hub and state
   included. The code of the server of hosts is the same.

Properties that hold name the cases of the findings they touch: `Explained` in
`PrivateDataKept` and `Erases` in `UsersDontSetStatus` are the updates of findings 6
and 7, so that those properties say that there are no others. `Erases` has one more
case, masks through the entry of a map in the status, that replace the entry.
Behaviours of which no text of the repository promises otherwise are also named in the
properties:

- `EchoChangesNothing` leaves out the masks through the entry of a map, that
  replace the entry, and updates of host pools without a mask; and it lets an update of a
  virtual machine add defaults that its template has got since.
- `NothingLostWhileListening` and `ReadyMeansListening` leave out what happens after a
  query that was cut short by the timeout of the wait.
- `OneOrderPerNamespace`: a hub that changes its namespace may have two Kubernetes
  objects for one object, one in each namespace.
- `Excused`: an object is never placed if it isn't in the first page of the list,
  if a hub changed its credentials after they were cached, if its hub was
  removed, or if a virtual machine lost its template.
- `DeletionReachesHub` starts from a deletion that the watch has got. One that is
  lost, or fails, or has no hub yet, is never repeated, and the Kubernetes object
  stays; so does that of a hub that was chosen by an attempt that failed, and that in
  a namespace that the hub has no more (`LeftBehind`). A copy of the object that waits
  in the sync when the deletion comes creates the Kubernetes object again, for ever.
- `HiddenByOther`: also a subscriber whose tenants can't be determined hides
  the event from those after it.

## Proofs

Every safety invariant and every action property that a passing run checks is
also a theorem, for any objects, fields, values, finalizers, tenants, callers,
calls, connections, watchers, events, hubs, and bounds. The invariants that
carry the proofs were first checked by TLC on the instances of the runs.

### From which assumptions

They are named in the modules, and TLC evaluates them in every run of those modules.

| Assumption | Says |
|---|---|
| `NoRowAssumption`, `NullsAssumption` | the absent row, event and caller are not rows, events and callers |
| `ConstantsAssumption` | bounds are natural numbers, with at least one connection; calls are of the form `Call`; every caller has assigned and visible tenants; there are finitely many old notifications |
| `EventsAssumption` | bounds are natural numbers; every watcher has a filter |
| `TenantsAssumption`, `LogicAssumption` | every event has a creator whose tenants could be determined; the public server uses one of the logics of a public server, not that of the system |
| `ListenerAssumption` | bounds are natural numbers |
| `LimitsAssumption` | the default limit is positive and at most the largest |
| `ReconcilerAssumption` | objects and hubs have numbers for identifiers; there are finitely many hubs; the null values are none of them |
| `PathsAssumption` | a path has at least one name, and what encloses a path is one; no map is directly the entry of another |
| `ServerAssumption` | a row holds a message; the finalizers and the hub are what public messages don't have; what users send are messages; masks are lists of known paths |
| `FieldsAssumption` | the fields that the servers deal with by name exist, with nothing inside of the finalizers, template, state and hub, and nothing but the finalizers in the metadata |
| `TemplatesAssumption`, `ValuesAssumption` | the parameters and node sets of any contents of the template have paths, its required parameters and defaults are among its parameters, and its values are values |
| `MasksAssumption` | in a mask, a path that leads to the entry of a map, or to what encloses it, isn't followed by one that goes through that entry |
| `SecretsAssumption` | the secrets are fields, which may be unset |

The last six but `MasksAssumption` describe the protocol buffers messages of the API
and their templates, and say nothing of what a caller does. `MasksAssumption` is a
limit of the model: `Path.Set` stores a submessage of the request without a copy, and
a later path through its entry would change the request as well.

### ObjectStore and GenericServer

`ObjectStoreProofs`: `IInv` adds to the four promises (`NoZombie`,
`LogMatchesTable`, `LifeCycle`, `Conservation`) what makes them inductive: a live
row is the last row announced for its identifier, what was announced of the same
incarnation is older and not gone, and whatever is archived was announced. The
three operations reduce to one lemma, `ApplyIInv`, about announcing a row that
either starts an incarnation or continues the live one. Hence `StoreInvariant`
and `StoreCorrect`.

`GenericServerProofs`: the inductive invariant says at which statement a call of
each kind can be (`Dispatch`), that a transaction that wrote a row holds its lock
and that only one does (`Locking`), what it has written at each statement
(`Progress`), how that row relates to the committed one, which cannot have
changed since (`Pending`), and that creation numbers are fresh (`Numbers`). From
`Locking` and `Pending` a commit is one step of `ObjectStore`, and every other
step changes nothing that it sees: `Refinement`. The promises of the store are
then transferred, `NoZombies`, `EventsTellTheTable`, `OrderlyLife` and
`NothingLost`. `TypeCorrect` and `AnswersAreTrue` follow from the invariant
directly.

### Object servers

`ObjectServerProofs` has four arguments over the same steps.

- `ServersImplementStore`: every step is an operation of `ObjectStore` or changes
  nothing that it sees, so that `IInv` of `ObjectStoreProofs` holds of what the
  servers write. What has to be shown is that each of them writes a row: that
  copies, defaults, node sets and masks map messages to messages.
- `StatusIsOurs` (`UsersDontSetStatus`): a public update reads first and writes later,
  so that the argument needs `CallsSound`, that what a call is about to send is its
  request copied into what it has read. The mapper ignores the status when it copies a
  request (`StatusIgnored`), and each path of a mask leaves a field of the status as it
  was, sets it to what was read, or clears it (`StatusUpdate`).
- `TemplateFollowed` (`CreatedFromTemplate`): what `CreateAccepted` lets pass, once
  completed by `WithNodeSets` and `WithDefaults`, follows the template of that moment;
  neither undoes what the other did. The property is about templates that satisfy
  `TemplateConsistent`: default values have the type of their parameters and node sets
  of templates a positive size. The servers check the values of the request, but the
  private servers of templates don't check the template's own.
- `PrivateDataIsKept` (`PrivateDataKept`) and `EchoIsSilent` (`EchoChangesNothing`):
  the invariant is `TableSound /\ CallsSound`. The rows are well formed messages, and
  what a public update is about to send is its request copied into what it has read.
  Hence for an echo the copy is what was read (`CopyBack`), a mask sets each field to
  what it is (`EchoSame`), and the present template adds defaults at most
  (`DefaultsAdded`).

A mask is applied path by path by the recursive function `Stages`. That it has the
value of its equation at every index (`StagesExist`, `StagesUnfold`), and that what
each path keeps all of them keep (`StagesStay`), are shown from the least index at
which it would not, because the induction theorems of the library take an operator.

### Listener

`IInv` of `ListenerProofs` follows a notification through the places that it goes
through: delivered, in process, buffer of the client, socket. `Ordered`: each place is
in increasing order and before the next. `OldDeleted`: the cleanup only deletes old
rows. `Kept`: while the connection is open, what was sent to the session is in one of
the places, or was too old when the listener looked for it, or its query failed.
`Listening`: without a failure and without a dropped notification, who has said that
it is ready has an open connection, to which everything since was sent. From these,
`DeliveredInOrder`, `NothingLost` and `ReadyWhenListening`.

### Events servers

`PrivateEventsServerProofs`: `Structure` is shared by both servers: who is in the
subscriptions is where in `Watch` (`Subscribed`), and the listener only has
subscribed watchers to visit or to send to, the latter no longer among the former
(`Visiting`). It holds because the write lock is not free while the listener
visits. `NeverSendsOnClosed` follows from it alone. For `DeliveryWithoutGaps` the
invariant adds that the event in hand was accepted (`Filtered`); then a hand-over
appends to what a watcher got what it was due next.

`EventsServerProofs`: `PublicIInv` replaces the filter by what a watcher wants
(`Sendable`, `AllWanted`), and gives `NobodyGetsOthersEvents`; the lemma
`VisibleIsTheirs` goes from the sets of tenants that the logics compute to the
tenants that subjects are members of. `MissedOnlyForOthers` is inductive with it:
`NothingElseIsMissed`.

### Lists and the reconciler

`ListPageProofs`: `PagesCover` says for any finite set of identifiers, offset
and nonnegative limit that a page has those that come next, none twice, and is
empty only at the end. Ranks number such a set without gaps (`RanksNumberRows`). It is
about a reader who asks for all the pages. The reconciler asks for the first one only.

`ReconcilerProofs`: `AtMostOneOrder` and `SavedHubIsTrue` are about what two
systems hold, written by a function that may have an old object in its hands.
`Trust` says of every copy of an object, in the table (`TableTrusted`), in the
stream and in the two queues (`MovingTrusted`), and in the function
(`TaskTrusted`), that the hub in its status has its Kubernetes object, or that
the object is archived and nobody writes it again. It is inductive because the
function takes a Kubernetes object from a hub only for an object that is
archived already, and records a hub in what it saves only after the hub has got
its object. `OneOrderPerNamespace` is inductive by itself: the function creates only
where its search by label has found nothing, in one step, and there is one
goroutine; the cache tells it the same namespace from the search to the creation.

### Only model-checked

- Liveness, with fairness: `EveryCallEnds`, `ListensAgain`, `StopsWhenCanceled`,
  `EverythingDelivered`, `EveryObjectPlaced` and `DeletionReachesHub`. The prover
  has no rule for it within reach.
- The six properties of the violation runs, for which a counterexample is what
  there is to show.

## Not modelled

The list of components in `PROJECT.json` says which parts are left out and why.
By far most of the lines are those of `internal/api`, generated from the protocol
buffers definitions: accessors, descriptors, clients and gateways without logic of
their own. Of the code that people wrote, these are left out:

- builders, commands, the HTTP gateway, logging, metrics, and the database tool:
  they run once or wire the rest together;
- the translation of filters to SQL, the JSON encoder, jq: text to text, without
  state; a filter is the set of rows or of events it selects;
- authentication: whether a call starts at all; attribution: creators are handled
  as tenants are, and decide nothing;
- in the object servers, those of templates, hubs and host classes, which only
  delegate; `GetKubeconfig` and `GetPassword`, which change nothing; the check for
  duplicated conditions;
- `GenericMapper.Merge`, used by no server; paths with the index of a list.

Assumptions to keep in mind: handlers don't panic after they have written (a panic
would commit the transaction, because no error was reported; the one panic that is
modelled, of `Path.Clear`, comes before); a payload that the notifier wrote can be
decoded by the listener; the translation of an event to its public form doesn't
fail; hubs keep the Kubernetes
objects that they are given, but for what the controller does to them.

## Plan

What is left, in order:

1. `EventPath`: composition of the store's log, the listener and the private
   events server, to say which changes a watcher can miss end to end, with a proof
   that puts `NothingLost` of the listener and `DeliveryWithoutGaps` together.
2. Several objects in `Reconciler`, hosts together with the pool they are in, and
   the total that a list answers, which comes from a second query; the proofs of
   `Reconciler` are for any number of objects already.
3. The safety half of the liveness properties, as theorems: what a call, the
   listener and the function are waiting for whenever they don't move.
