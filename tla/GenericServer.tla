--------------------------- MODULE GenericServer ---------------------------
(***************************************************************************)
(* The path of a call that changes an object, from the transaction         *)
(* interceptor through GenericServer and GenericDAO to the database and    *)
(* back: Create, Update and Delete, one step for each SQL statement, with  *)
(* any number of calls in flight.                                          *)
(*                                                                         *)
(* The database is PostgreSQL in its default isolation level: a statement  *)
(* reads what is committed when it runs, a row that is inserted, updated   *)
(* or deleted is locked until the transaction ends, and nobody sees it     *)
(* before the commit.  A NOTIFY is delivered at the commit, in the order   *)
(* of the commits; `log' is that stream.  Each call also deletes the old   *)
(* rows of the notifications table, which all the servers share, and locks *)
(* them one by one: when calls wait for each other's rows the database     *)
(* makes one of them fail.                                                 *)
(*                                                                         *)
(* Requests that are refused before the first statement (no object, no     *)
(* identifier) and masks that don't compile never reach a write, and are   *)
(* left out.  The creators of an object travel exactly as its tenants do,  *)
(* and are left out too.  The creation timestamp, the start of the         *)
(* transaction that inserts the row, is modelled by the number of the      *)
(* call.                                                                   *)
(***************************************************************************)
EXTENDS Naturals, Sequences, FiniteSets

CONSTANTS
    Ids,              \* object identifiers
    Fields,           \* fields of an object that a mask can name
    Values,           \* values of those fields
    Secrets,          \* the fields that events don't carry
    Unset,            \* the value of a field that isn't set
    Finalizers,       \* finalizer names
    Tenants,          \* tenant names
    Requests,         \* slots for calls in flight, one for each caller
    AssignedTenants,  \* tenants given to what a caller creates
    VisibleTenants,   \* tenants that a caller can see, none meaning no filter
    Calls,            \* the calls that each caller makes
    Notifications,    \* rows of the notifications table when the calls begin
    MaxRequests,      \* bound on the number of calls
    MaxConns,         \* size of the connection pool
    NoRow, NoEvent, NoObject, NoCall, NoMask, NoRequest

\* The field of the metadata that a mask can name.
FinalizersPath == "metadata.finalizers"

Data == [Fields -> Values]

Stamps == 1..MaxRequests

Row == [created    : Stamps,
        deleted    : BOOLEAN,
        finalizers : SUBSET Finalizers,
        tenants    : SUBSET Tenants,
        data       : Data]

EventTypes == {"created", "updated", "deleted"}

Event == [type : EventTypes, id : Ids, row : Row]

\* The message of a request, or what the server makes of it.  `exact' says
\* that the metadata is present and lists the finalizers sorted and without
\* repetitions, as the database returns them.
Object == [data       : Data,
           finalizers : SUBSET Finalizers,
           tenants    : SUBSET Tenants,
           exact      : BOOLEAN]

Masks == SUBSET (Fields \union {FinalizersPath}) \union {NoMask}

Call == [op : {"create", "update", "delete"}, id : Ids, object : Object, mask : Masks]

ASSUME ConstantsAssumption ==
    /\ MaxRequests \in Nat
    /\ MaxConns \in Nat \ {0}
    /\ Calls \in [Requests -> SUBSET Call]
    /\ Secrets \subseteq Fields /\ Unset \in Values
    /\ IsFiniteSet(Notifications)
    /\ AssignedTenants \in [Requests -> SUBSET Tenants]
    /\ VisibleTenants \in [Requests -> SUBSET Tenants]

ASSUME NullsAssumption ==
    /\ NoRow \notin Row
    /\ NoEvent \notin Event
    /\ NoRequest \notin Requests

VARIABLES
    rows,      \* committed contents of the table
    archived,  \* committed contents of the archived table
    log,       \* events of the committed transactions
    lock,      \* which call holds the lock of each row
    notes,     \* the notifications that haven't been deleted
    scan,      \* the old notifications that the delete of each call gets to, in order
    noteLock,  \* which call holds the lock of each notification
    started,   \* number of calls started
    pc,        \* the next statement of each call
    call,      \* the request message
    num,       \* number of the call
    object,    \* the object that GenericServer.Update passes to the DAO
    tx,        \* the transaction of each call
    reply,     \* what the handler, and then the interceptor, returns
    commits    \* numbers of the calls that changed something (history)

database == <<rows, archived, log, commits>>
cleaning == <<notes, scan, noteLock>>
locks == <<lock, cleaning>>
vars == <<rows, archived, log, lock, notes, scan, noteLock, started, pc, call, num, object,
          tx, reply, commits>>

\* The object of Go type managedTx: `real' is set once the database
\* transaction exists, `failed' once errs isn't empty.  `row', `event' and
\* `archived' are what the transaction has written so far.
NoTx == [real |-> FALSE, row |-> NoRow, event |-> NoEvent,
         archived |-> FALSE, failed |-> FALSE]

Statements ==
    {"insert", "fetch", "compare", "write", "mark", "notify", "clean", "archive"}

Replies == {"none", "ok", "unchanged", "notfound", "invalid", "failed", "unknown"}

\* The object identifier that a call is about.
Id(r) == call[r].id

----------------------------------------------------------------------------

Init ==
    /\ rows = [id \in Ids |-> NoRow]
    /\ archived = <<>>
    /\ log = <<>>
    /\ lock = [id \in Ids |-> NoRequest]
    /\ notes = Notifications
    /\ scan = [r \in Requests |-> <<>>]
    /\ noteLock = [n \in Notifications |-> NoRequest]
    /\ started = 0
    /\ pc = [r \in Requests |-> "idle"]
    /\ call = [r \in Requests |-> NoCall]
    /\ num = [r \in Requests |-> 0]
    /\ object = [r \in Requests |-> NoObject]
    /\ tx = [r \in Requests |-> NoTx]
    /\ reply = [r \in Requests |-> "none"]
    /\ commits = {}

FirstStatement(op) ==
    CASE op = "create" -> "insert"
      [] op = "update" -> "fetch"
      [] op = "delete" -> "mark"

\* The interceptor begins a transaction, that has no effect on the database,
\* and calls the handler.
Begin(r) ==
    /\ pc[r] = "idle"
    /\ started < MaxRequests
    /\ \E c \in Calls[r] :
           /\ call' = [call EXCEPT ![r] = c]
           /\ pc' = [pc EXCEPT ![r] = FirstStatement(c.op)]
    /\ started' = started + 1
    /\ num' = [num EXCEPT ![r] = started + 1]
    /\ reply' = [reply EXCEPT ![r] = "none"]
    /\ UNCHANGED <<database, locks, object, tx>>

\* The first statement takes a connection from the pool and keeps it till
\* the end of the transaction.
EnsureReal(r) ==
    /\ pc[r] \in Statements
    /\ ~tx[r].real
    /\ Cardinality({q \in Requests : tx[q].real}) < MaxConns
    /\ tx' = [tx EXCEPT ![r].real = TRUE]
    /\ UNCHANGED <<database, locks, started, pc, call, num, object, reply>>

\* The error goes to the client, and to the transaction via ReportError.
Report(r, error) ==
    /\ tx' = [tx EXCEPT ![r].failed = TRUE]
    /\ reply' = [reply EXCEPT ![r] = error]
    /\ pc' = [pc EXCEPT ![r] = "end"]
    /\ UNCHANGED <<database, locks, started, call, num, object>>

\* A statement runs once there is a transaction.
At(r, statement) == pc[r] = statement /\ tx[r].real

\* Any statement can fail, or the pool can refuse to start the transaction.
Fail(r) ==
    /\ pc[r] \in Statements
    /\ Report(r, "failed")

\* The statement has written a row: the row is locked, and the event is next.
Written(r, row) ==
    /\ lock' = [lock EXCEPT ![Id(r)] = r]
    /\ tx' = [tx EXCEPT ![r].row = row]
    /\ pc' = [pc EXCEPT ![r] = "notify"]
    /\ UNCHANGED <<database, cleaning, started, call, num, object, reply>>

\* The tenancy filter of the where clause.
Visible(r, row) ==
    VisibleTenants[r] = {} \/ row.tenants \intersect VisibleTenants[r] # {}

----------------------------------------------------------------------------
(* Create *)

NewRow(r) ==
    [created    |-> num[r],
     deleted    |-> FALSE,
     finalizers |-> call[r].object.finalizers,
     tenants    |-> AssignedTenants[r],
     data       |-> call[r].object.data]

\* Mutant of Insert: the row of somebody else is replaced.
InsertOrReplace(r) ==
    /\ At(r, "insert")
    /\ lock[Id(r)] = NoRequest
    /\ Written(r, NewRow(r))

\* An insert waits for whoever is writing the same identifier, and then
\* violates the primary key if there is a row.
Insert(r) ==
    /\ At(r, "insert")
    /\ lock[Id(r)] = NoRequest
    /\ \/ /\ rows[Id(r)] # NoRow
          /\ Report(r, "failed")
       \/ /\ rows[Id(r)] = NoRow
          /\ Written(r, NewRow(r))

----------------------------------------------------------------------------
(* Update *)

\* The row that GenericDAO.get finds.
Found(r) == rows[Id(r)] # NoRow /\ Visible(r, rows[Id(r)])

\* The fetched object with the fields of the mask replaced, or the object of
\* the request if there is no mask.
ApplyMask(row, input, mask) ==
    IF mask = NoMask
    THEN input
    ELSE [data       |-> [f \in Fields |-> IF f \in mask THEN input.data[f]
                                                         ELSE row.data[f]],
          finalizers |-> IF FinalizersPath \in mask THEN input.finalizers
                                                    ELSE row.finalizers,
          tenants    |-> row.tenants,
          exact      |-> FinalizersPath \in mask => input.exact]

\* Mutant of Fetch: the result of applying the mask is dropped.
FetchForgetting(r) ==
    /\ At(r, "fetch")
    /\ pc' = [pc EXCEPT ![r] = IF Found(r) THEN "compare" ELSE "end"]
    /\ UNCHANGED <<database, locks, started, call, num, object, tx, reply>>

\* GenericServer.Update fetches the object and applies the mask.
Fetch(r) ==
    /\ At(r, "fetch")
    /\ \/ /\ ~Found(r)
          /\ reply' = [reply EXCEPT ![r] = "invalid"]
          /\ pc' = [pc EXCEPT ![r] = "end"]
          /\ UNCHANGED object
       \/ /\ Found(r)
          /\ object' = [object EXCEPT ![r] =
                            ApplyMask(rows[Id(r)], call[r].object, call[r].mask)]
          /\ pc' = [pc EXCEPT ![r] = "compare"]
          /\ UNCHANGED reply
    /\ UNCHANGED <<database, locks, started, call, num, tx>>

Equivalent(row, obj) ==
    /\ obj.exact
    /\ row.data = obj.data
    /\ row.finalizers = obj.finalizers
    /\ row.tenants = obj.tenants

\* GenericDAO.update reads the row again, and returns no object and no error
\* if the new object is equivalent.
Compare(r) ==
    /\ At(r, "compare")
    /\ \/ /\ Found(r) /\ Equivalent(rows[Id(r)], object[r])
          /\ reply' = [reply EXCEPT ![r] = "unchanged"]
          /\ pc' = [pc EXCEPT ![r] = "end"]
       \/ /\ ~(Found(r) /\ Equivalent(rows[Id(r)], object[r]))
          /\ pc' = [pc EXCEPT ![r] = "write"]
          /\ UNCHANGED reply
    /\ UNCHANGED <<database, locks, started, call, num, object, tx>>

\* Mutant of Write: the statement sets the deletion timestamp too.
WriteAllColumns(r) ==
    /\ At(r, "write")
    /\ rows[Id(r)] # NoRow
    /\ lock[Id(r)] = NoRequest
    /\ Written(r, [rows[Id(r)] EXCEPT !.finalizers = object[r].finalizers,
                                      !.data = object[r].data,
                                      !.deleted = FALSE])

\* The update statement: it waits for the lock of the row, if there is one,
\* and doesn't touch the other columns.
Write(r) ==
    /\ At(r, "write")
    /\ \/ /\ rows[Id(r)] = NoRow
          /\ Report(r, "failed")
       \/ /\ rows[Id(r)] # NoRow
          /\ lock[Id(r)] = NoRequest
          /\ Written(r, [rows[Id(r)] EXCEPT !.finalizers = object[r].finalizers,
                                            !.data = object[r].data])

----------------------------------------------------------------------------
(* Delete *)

Mark(r) ==
    /\ At(r, "mark")
    /\ \/ /\ ~Found(r)
          /\ Report(r, "notfound")
       \/ /\ Found(r)
          /\ lock[Id(r)] = NoRequest
          /\ Written(r, [rows[Id(r)] EXCEPT !.deleted = TRUE])

----------------------------------------------------------------------------
(* The tail that the three operations share *)

EventType(op) ==
    CASE op = "create" -> "created"
      [] op = "update" -> "updated"
      [] op = "delete" -> "deleted"

\* A row that is marked for deletion and has no finalizers.
Gone(row) == row.deleted /\ row.finalizers = {}

\* The kubeconfig of a hub is removed from its events.
WithoutSecrets(row) ==
    [row EXCEPT !.data = [f \in Fields |-> IF f \in Secrets THEN Unset ELSE row.data[f]]]

\* The orders in which the rows of a set may be scanned.
Orders(S) ==
    {s \in [1..Cardinality(S) -> S] : \A i, j \in DOMAIN s : s[i] = s[j] => i = j}

\* The delete statement gets to the notifications that are one minute old, which depends
\* on when each transaction has begun.
BeginCleaning(r) ==
    /\ \E old \in SUBSET notes : \E order \in Orders(old) :
           scan' = [scan EXCEPT ![r] = order]
    /\ pc' = [pc EXCEPT ![r] = "clean"]
    /\ UNCHANGED <<database, lock, notes, noteLock, started, call, num, object, reply>>

\* Mutant of Notify: the metadata of the event has no deletion timestamp.
NotifyWithoutDeletion(r) ==
    /\ At(r, "notify")
    /\ tx' = [tx EXCEPT ![r].event =
                  [type |-> EventType(call[r].op),
                   id   |-> Id(r),
                   row  |-> WithoutSecrets([tx[r].row EXCEPT !.deleted = FALSE])]]
    /\ BeginCleaning(r)

\* The event callback of the DAO inserts the notification and runs pg_notify,
\* inside the transaction, and then deletes the old notifications.
Notify(r) ==
    /\ At(r, "notify")
    /\ tx' = [tx EXCEPT ![r].event = [type |-> EventType(call[r].op),
                                      id   |-> Id(r),
                                      row  |-> WithoutSecrets(tx[r].row)]]
    /\ BeginCleaning(r)

\* The delete waits for the lock of each old notification, and goes on to the next one
\* if somebody else has deleted it.
LockOld(r) ==
    /\ At(r, "clean")
    /\ scan[r] # <<>>
    /\ LET n == Head(scan[r])
       IN  /\ noteLock[n] = NoRequest
           /\ noteLock' = IF n \in notes THEN [noteLock EXCEPT ![n] = r]
                                           ELSE noteLock
    /\ scan' = [scan EXCEPT ![r] = Tail(scan[r])]
    /\ UNCHANGED <<database, lock, notes, started, pc, call, num, object, tx, reply>>

\* The database looks for calls that wait for each other in a circle, and makes one of
\* them fail.  A call that waits for a row of the table of objects holds no lock, so it
\* is in none.
DetectDeadlock(r) ==
    /\ \E circle \in SUBSET Requests :
           /\ r \in circle
           /\ \A q \in circle : /\ At(q, "clean") /\ scan[q] # <<>>
                                /\ noteLock[Head(scan[q])] \in circle \ {q}
    /\ Report(r, "failed")

\* Mutant of Clean: only Delete archives.
CleanAndArchiveOnDelete(r) ==
    /\ At(r, "clean")
    /\ scan[r] = <<>>
    /\ \/ /\ call[r].op = "delete" /\ Gone(tx[r].row)
          /\ pc' = [pc EXCEPT ![r] = "archive"]
          /\ UNCHANGED reply
       \/ /\ ~(call[r].op = "delete" /\ Gone(tx[r].row))
          /\ pc' = [pc EXCEPT ![r] = "end"]
          /\ reply' = [reply EXCEPT ![r] = "ok"]
    /\ UNCHANGED <<database, locks, started, call, num, object, tx>>

\* The callback is done, and the DAO archives the row if nothing keeps it.
Clean(r) ==
    /\ At(r, "clean")
    /\ scan[r] = <<>>
    /\ \/ /\ Gone(tx[r].row)
          /\ pc' = [pc EXCEPT ![r] = "archive"]
          /\ UNCHANGED reply
       \/ /\ ~Gone(tx[r].row)
          /\ pc' = [pc EXCEPT ![r] = "end"]
          /\ reply' = [reply EXCEPT ![r] = "ok"]
    /\ UNCHANGED <<database, locks, started, call, num, object, tx>>

\* Copy the row to the archived table and delete it.
Archive(r) ==
    /\ At(r, "archive")
    /\ tx' = [tx EXCEPT ![r].archived = TRUE]
    /\ pc' = [pc EXCEPT ![r] = "end"]
    /\ reply' = [reply EXCEPT ![r] = "ok"]
    /\ UNCHANGED <<database, locks, started, call, num, object>>

\* The end of the transaction gives back the locks and the connection, and
\* the handler's variables are gone.
Release(r) ==
    /\ lock' = [id \in Ids |-> IF lock[id] = r THEN NoRequest ELSE lock[id]]
    /\ noteLock' = [n \in Notifications |->
                        IF noteLock[n] = r THEN NoRequest ELSE noteLock[n]]
    /\ scan' = [scan EXCEPT ![r] = <<>>]
    /\ tx' = [tx EXCEPT ![r] = NoTx]
    /\ pc' = [pc EXCEPT ![r] = "idle"]
    /\ call' = [call EXCEPT ![r] = NoCall]
    /\ object' = [object EXCEPT ![r] = NoObject]
    /\ UNCHANGED <<started, num>>

\* Mutant of Publish: the archived row isn't deleted from the table.
PublishKeepingRow(r) ==
    /\ rows' = IF tx[r].row = NoRow THEN rows ELSE [rows EXCEPT ![Id(r)] = tx[r].row]
    /\ archived' = IF tx[r].archived
                   THEN Append(archived, [id |-> Id(r), row |-> tx[r].row])
                   ELSE archived
    /\ log' = IF tx[r].event = NoEvent THEN log ELSE Append(log, tx[r].event)
    /\ commits' = IF tx[r].row = NoRow THEN commits ELSE commits \union {num[r]}
    /\ notes' = {n \in notes : noteLock[n] # r}

\* What a commit does to the database.
Publish(r) ==
    /\ rows' = IF tx[r].row = NoRow THEN rows
               ELSE [rows EXCEPT ![Id(r)] = IF tx[r].archived THEN NoRow
                                                              ELSE tx[r].row]
    /\ archived' = IF tx[r].archived
                   THEN Append(archived, [id |-> Id(r), row |-> tx[r].row])
                   ELSE archived
    /\ log' = IF tx[r].event = NoEvent THEN log ELSE Append(log, tx[r].event)
    /\ commits' = IF tx[r].row = NoRow THEN commits ELSE commits \union {num[r]}
    /\ notes' = {n \in notes : noteLock[n] # r}

\* The interceptor ends the transaction: it commits if no error was reported.
\* The answer to the commit may be lost after it took effect.
Commit(r) ==
    /\ pc[r] = "end"
    /\ ~tx[r].failed
    /\ Publish(r)
    /\ \/ UNCHANGED reply
       \/ /\ reply[r] \in {"ok", "unchanged"}
          /\ reply' = [reply EXCEPT ![r] = "unknown"]
    /\ Release(r)

\* Mutant of Rollback: the transaction is committed although it failed.
RollbackCommitting(r) ==
    /\ pc[r] = "end"
    /\ tx[r].failed
    /\ Publish(r)
    /\ Release(r)
    /\ UNCHANGED reply

\* Mutant of Rollback: the transaction is never ended.
RollbackForgotten(r) ==
    /\ pc[r] = "end"
    /\ tx[r].failed
    /\ pc' = [pc EXCEPT ![r] = "idle"]
    /\ UNCHANGED <<database, locks, started, call, num, object, tx, reply>>

Rollback(r) ==
    /\ pc[r] = "end"
    /\ tx[r].failed
    /\ Release(r)
    /\ UNCHANGED <<database, notes, reply>>

\* The server or its connection to the database dies, or the commit fails:
\* the database rolls the transaction back, and the client can't tell.
Abandon(r) ==
    /\ pc[r] # "idle"
    /\ Release(r)
    /\ reply' = [reply EXCEPT ![r] = "unknown"]
    /\ UNCHANGED <<database, notes>>

----------------------------------------------------------------------------

\* The steps that a call takes by itself.
Step(r) ==
    \/ EnsureReal(r)
    \/ Insert(r)
    \/ Fetch(r) \/ Compare(r) \/ Write(r)
    \/ Mark(r)
    \/ Notify(r) \/ LockOld(r) \/ DetectDeadlock(r) \/ Clean(r) \/ Archive(r)
    \/ Commit(r) \/ Rollback(r)

\* All the calls that the bound allows have been answered.
Quiet ==
    /\ started = MaxRequests
    /\ \A r \in Requests : pc[r] = "idle"
    /\ UNCHANGED vars

Next ==
    \/ \E r \in Requests : Begin(r) \/ Step(r) \/ Fail(r) \/ Abandon(r)
    \/ Quiet

Spec == Init /\ [][Next]_vars

\* A goroutine that can run runs, and a lock that is given back is granted.
FairSpec == Spec /\ \A r \in Requests : WF_vars(Step(r))

----------------------------------------------------------------------------

TxType == [real     : BOOLEAN,
           row      : Row \union {NoRow},
           event    : Event \union {NoEvent},
           archived : BOOLEAN,
           failed   : BOOLEAN]

(***************************************************************************)
(* The types of the state; a call in flight has a request message, and one *)
(* past GenericServer.Update's fetch has an object.                        *)
(***************************************************************************)
TypeOK ==
    /\ rows \in [Ids -> Row \union {NoRow}]
    /\ archived \in Seq([id : Ids, row : Row])
    /\ log \in Seq(Event)
    /\ lock \in [Ids -> Requests \union {NoRequest}]
    /\ notes \subseteq Notifications
    /\ scan \in [Requests -> Seq(Notifications)]
    /\ noteLock \in [Notifications -> Requests \union {NoRequest}]
    /\ started \in 0..MaxRequests
    /\ pc \in [Requests -> Statements \union {"idle", "end"}]
    /\ call \in [Requests -> Call \union {NoCall}]
    /\ num \in [Requests -> 0..MaxRequests]
    /\ object \in [Requests -> Object \union {NoObject}]
    /\ tx \in [Requests -> TxType]
    /\ reply \in [Requests -> Replies]
    /\ commits \subseteq Stamps
    /\ \A r \in Requests :
           /\ pc[r] # "idle" => call[r] \in Call /\ num[r] \in 1..started
           /\ pc[r] \in {"compare", "write"} => object[r] \in Object

Store == INSTANCE ObjectStore WITH table <- rows, archive <- archived, Contents <- Values

(***************************************************************************)
(* The transactions implement the store: each commit that changes          *)
(* something is one atomic Create, Update or Delete with its event, and    *)
(* nothing else is visible.                                                *)
(***************************************************************************)
ImplementsStore == Store!Spec

(***************************************************************************)
(* No row stays behind marked for deletion without finalizers, whatever    *)
(* updates and deletes race (GenericDAO.update, GenericDAO.delete).        *)
(***************************************************************************)
NoZombie == Store!NoZombie

(***************************************************************************)
(* The last committed event of each object carries the committed row, but  *)
(* for the kubeconfig of a hub, or says that it is gone                    *)
(* (GenericDAO.fireEvent inside the transaction, under the lock of the     *)
(* row, and GenericServer.notifyEvent).                                    *)
(***************************************************************************)
LogMatchesTable == Store!LogMatchesTable

(***************************************************************************)
(* Each incarnation is announced as created once and first, keeps its      *)
(* identifier and its deletion mark, and is silent once gone.              *)
(***************************************************************************)
LifeCycle == Store!LifeCycle

(***************************************************************************)
(* Each incarnation is live or archived, never both, and archived once,    *)
(* although the archived tables have no primary key (GenericDAO.archive).  *)
(***************************************************************************)
Conservation == Store!Conservation

(***************************************************************************)
(* The answer tells the outcome (TxInterceptor.UnaryServer): a call that   *)
(* was answered with success has been committed, and one that was refused  *)
(* or answered without an object has changed nothing.                      *)
(***************************************************************************)
ReplyTellsOutcome ==
    \A r \in Requests :
        pc[r] = "idle" =>
            /\ reply[r] = "ok" => num[r] \in commits
            /\ reply[r] \in {"unchanged", "notfound", "invalid", "failed"}
                   => num[r] \notin commits

(***************************************************************************)
(* Every call is answered: a transaction is always ended                   *)
(* (TxInterceptor.UnaryServer), callers that wait for a connection or for  *)
(* the row of an object hold nothing that others wait for, and the circles *)
(* of those that delete old notifications are broken by the database       *)
(* (Notifier.Notify).                                                      *)
(***************************************************************************)
EveryCallEnds == \A r \in Requests : pc[r] # "idle" ~> pc[r] = "idle"

(***************************************************************************)
(* "Update the fields indicated in the mask": the commit of an update with *)
(* a mask changes no other field of the object (GenericServer.Update).     *)
(***************************************************************************)
MaskRespected ==
    [][\A r \in Requests :
           (/\ Commit(r)
            /\ tx[r].row # NoRow
            /\ call[r].op = "update"
            /\ call[r].mask # NoMask)
               => /\ \A f \in Fields \ call[r].mask :
                         tx[r].row.data[f] = rows[Id(r)].data[f]
                  /\ FinalizersPath \notin call[r].mask
                         => tx[r].row.finalizers = rows[Id(r)].finalizers]_vars
============================================================================
