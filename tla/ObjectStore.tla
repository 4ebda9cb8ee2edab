---------------------------- MODULE ObjectStore ----------------------------
(***************************************************************************)
(* What one table of objects promises to its callers and to the watchers   *)
(* of its events: every call takes effect at one instant, each effect is   *)
(* announced by exactly one event, and an object marked for deletion       *)
(* leaves the table in the very step that takes its last finalizer away.   *)
(*                                                                         *)
(* GenericDAO implements this specification with transactions of several   *)
(* SQL statements that interleave.                                         *)
(***************************************************************************)
EXTENDS Naturals, Sequences

CONSTANTS
    Ids,         \* object identifiers
    Stamps,      \* creation timestamps, one for each creation
    Fields,      \* fields of an object that are in the data column
    Contents,    \* values of those fields
    Secrets,     \* the fields that events don't carry
    Unset,       \* the value of a field that isn't set
    Finalizers,  \* finalizer names
    Tenants,     \* tenant names
    NoRow        \* stands for the absence of a row

Data == [Fields -> Contents]

Row == [created    : Stamps,
        deleted    : BOOLEAN,
        finalizers : SUBSET Finalizers,
        tenants    : SUBSET Tenants,
        data       : Data]

EventTypes == {"created", "updated", "deleted"}

Event == [type : EventTypes, id : Ids, row : Row]

ASSUME NoRowAssumption == NoRow \notin Row

ASSUME SecretsAssumption == Secrets \subseteq Fields /\ Unset \in Contents

VARIABLES
    table,    \* the live table
    archive,  \* the archived table, in order of insertion
    log       \* the events announced so far, in order

vars == <<table, archive, log>>

\* A row that is marked for deletion and has nothing left to wait for.
Gone(row) == row.deleted /\ row.finalizers = {}

\* What the watcher of an event concludes about the table.
Outcome(row) == IF Gone(row) THEN NoRow ELSE row

\* The creation timestamps that are already taken.
Used == {log[i].row.created : i \in DOMAIN log}

\* What the events tell of a row: the kubeconfig of a hub would be too long.
Announced(row) ==
    [row EXCEPT !.data = [f \in Fields |-> IF f \in Secrets THEN Unset ELSE row.data[f]]]

Apply(type, id, row) ==
    /\ log' = Append(log, [type |-> type, id |-> id, row |-> Announced(row)])
    /\ table' = [table EXCEPT ![id] = Outcome(row)]
    /\ archive' = IF Gone(row)
                  THEN Append(archive, [id |-> id, row |-> row])
                  ELSE archive

----------------------------------------------------------------------------

Init ==
    /\ table = [id \in Ids |-> NoRow]
    /\ archive = <<>>
    /\ log = <<>>

Create(id, stamp, finalizers, tenants, data) ==
    /\ table[id] = NoRow
    /\ stamp \notin Used
    /\ Apply("created", id,
             [created |-> stamp, deleted |-> FALSE, finalizers |-> finalizers,
              tenants |-> tenants, data |-> data])

\* Mutant of Update: the deletion timestamp is written back too, as it was
\* before the object was deleted.
UpdateUndeleting(id, finalizers, data) ==
    /\ table[id] # NoRow
    /\ Apply("updated", id,
             [table[id] EXCEPT !.finalizers = finalizers, !.data = data,
                               !.deleted = FALSE])

Update(id, finalizers, data) ==
    /\ table[id] # NoRow
    /\ Apply("updated", id,
             [table[id] EXCEPT !.finalizers = finalizers, !.data = data])

Delete(id) ==
    /\ table[id] # NoRow
    /\ Apply("deleted", id, [table[id] EXCEPT !.deleted = TRUE])

Next ==
    \E id \in Ids :
        \/ \E stamp \in Stamps, finalizers \in SUBSET Finalizers,
              tenants \in SUBSET Tenants, data \in Data :
               Create(id, stamp, finalizers, tenants, data)
        \/ \E finalizers \in SUBSET Finalizers, data \in Data :
               Update(id, finalizers, data)
        \/ Delete(id)

Spec == Init /\ [][Next]_vars

----------------------------------------------------------------------------

TypeOK ==
    /\ table \in [Ids -> Row \union {NoRow}]
    /\ archive \in Seq([id : Ids, row : Row])
    /\ log \in Seq(Event)

(***************************************************************************)
(* No row stays behind: a row marked for deletion always has a finalizer,  *)
(* so somebody still has to take it away (GenericDAO.update and delete     *)
(* archive the row in the transaction that leaves none).                   *)
(***************************************************************************)
NoZombie == \A id \in Ids : table[id] # NoRow => ~Gone(table[id])

\* What an event tells of the row of its object.
Tells(event, row) ==
    IF Gone(event.row) THEN row = NoRow
    ELSE row # NoRow /\ event.row = Announced(row)

(***************************************************************************)
(* Somebody who knows only the last event of an object knows its row, but  *)
(* for the secrets: the last event carries the row that is in the table,   *)
(* or says that it is gone, and every row has been announced.              *)
(***************************************************************************)
LogMatchesTable ==
    /\ \A i \in DOMAIN log :
           (\A j \in DOMAIN log : j > i => log[j].id # log[i].id)
               => Tells(log[i], table[log[i].id])
    /\ \A id \in Ids : table[id] # NoRow => \E i \in DOMAIN log : log[i].id = id

(***************************************************************************)
(* The life of one incarnation (the rows with one creation timestamp): it  *)
(* is announced as created once, before anything else, and nothing is said *)
(* of it once it is gone.                                                  *)
(***************************************************************************)
LifeCycle ==
    \A i, j \in DOMAIN log :
        (i < j /\ log[i].row.created = log[j].row.created)
            => /\ log[j].type # "created"
               /\ log[i].id = log[j].id
               /\ ~Gone(log[i].row)
               /\ log[i].row.deleted => log[j].row.deleted

(***************************************************************************)
(* Nothing is lost and nothing is kept twice: an incarnation is archived   *)
(* at most once, never while it is live, and each one that was announced   *)
(* is either live or archived.                                             *)
(***************************************************************************)
Conservation ==
    /\ \A i, j \in DOMAIN archive :
           archive[i].row.created = archive[j].row.created => i = j
    /\ \A i \in DOMAIN log :
           ~ ((\E id \in Ids : /\ table[id] # NoRow
                               /\ table[id].created = log[i].row.created)
              <=> (\E k \in DOMAIN archive :
                       archive[k].row.created = log[i].row.created))
============================================================================
