------------------------ MODULE GenericServerProofs ------------------------
(***************************************************************************)
(* GenericServer implements ObjectStore, and inherits its invariants, for  *)
(* any number of identifiers, callers, calls and connections.              *)
(*                                                                         *)
(* The argument: while a call has something uncommitted it holds the lock  *)
(* of its row, so that the committed row is still the one that its         *)
(* statement read, and the commit is a step of the store.                  *)
(***************************************************************************)
EXTENDS GenericServer, FiniteSetTheorems, TLAPS

\* A call with something uncommitted holds the lock of its row, and only such
\* a call holds a lock.
Locking ==
    /\ \A r \in Requests :
           tx[r].row # NoRow => /\ lock[Id(r)] = r
                                /\ pc[r] \in {"notify", "clean", "archive", "end"}
    /\ \A r \in Requests : \A id \in Ids :
           lock[id] = r => tx[r].row # NoRow /\ Id(r) = id

\* The event that a transaction has to announce.
EventOf(r) ==
    [type |-> EventType(call[r].op), id |-> Id(r), row |-> WithoutSecrets(tx[r].row)]

\* How far a transaction has come.
TxProgress(r) ==
    /\ pc[r] = "idle" => tx[r] = NoTx
    /\ pc[r] \in {"notify", "clean", "archive"} => tx[r].row # NoRow
    /\ tx[r].row = NoRow => tx[r].event = NoEvent /\ ~tx[r].archived
    /\ pc[r] \in {"notify", "clean"} => ~tx[r].archived
    /\ pc[r] \in Statements => ~tx[r].failed
    /\ pc[r] \in {"clean", "archive"} => tx[r].event = EventOf(r)
    /\ pc[r] = "archive" => Gone(tx[r].row)
    /\ (pc[r] = "end" /\ ~tx[r].failed /\ tx[r].row # NoRow)
           => /\ tx[r].event = EventOf(r)
              /\ tx[r].archived <=> Gone(tx[r].row)

Progress == \A r \in Requests : TxProgress(r)

\* The uncommitted row is the committed one changed by the operation.
Changes(r) ==
    \/ /\ call[r].op = "create"
       /\ rows[Id(r)] = NoRow
       /\ tx[r].row.created = num[r]
       /\ ~tx[r].row.deleted
    \/ /\ call[r].op = "update"
       /\ rows[Id(r)] # NoRow
       /\ tx[r].row = [rows[Id(r)] EXCEPT !.finalizers = tx[r].row.finalizers,
                                          !.data = tx[r].row.data]
    \/ /\ call[r].op = "delete"
       /\ rows[Id(r)] # NoRow
       /\ tx[r].row = [rows[Id(r)] EXCEPT !.deleted = TRUE]

Pending == \A r \in Requests : tx[r].row # NoRow => Changes(r)

\* Calls have different numbers, and the creation timestamps that can be seen
\* are numbers of calls that have been committed.
Numbers ==
    /\ \A r \in Requests : num[r] \in 0..started
    /\ \A r, q \in Requests : (r # q /\ num[r] = num[q]) => num[r] = 0
    /\ commits \subseteq 1..started
    /\ \A r \in Requests : pc[r] # "idle" => num[r] \notin commits
    /\ \A i \in DOMAIN log : log[i].row.created \in commits
    /\ \A id \in Ids : rows[id] # NoRow => rows[id].created \in commits

\* What the answer that the handler has prepared says of the transaction.
Answers ==
    \A r \in Requests :
        /\ pc[r] = "idle" /\ reply[r] \in {"ok", "unchanged", "invalid", "notfound", "failed"}
               => num[r] # 0
        /\ pc[r] = "end" =>
            /\ reply[r] = "ok" => tx[r].row # NoRow /\ ~tx[r].failed
            /\ reply[r] \in {"unchanged", "invalid"} => tx[r].row = NoRow
            /\ reply[r] \in {"notfound", "failed"} => tx[r].failed

\* The operation that a statement belongs to.
Dispatch ==
    \A r \in Requests :
        /\ pc[r] = "insert" => call[r].op = "create"
        /\ pc[r] \in {"fetch", "compare", "write"} => call[r].op = "update"
        /\ pc[r] = "mark" => call[r].op = "delete"

IInv ==
    /\ TypeOK
    /\ Dispatch
    /\ Locking
    /\ Progress
    /\ Pending
    /\ Numbers
    /\ Answers
    /\ ReplyTellsOutcome

----------------------------------------------------------------------------
(* Type correctness *)

\* The three kinds of update of a transaction keep its type.
LEMMA TxUpdates ==
  ASSUME NEW t \in TxType
  PROVE  /\ [t EXCEPT !.real = TRUE] \in TxType
         /\ [t EXCEPT !.failed = TRUE] \in TxType
         /\ [t EXCEPT !.archived = TRUE] \in TxType
         /\ \A row \in Row : [t EXCEPT !.row = row] \in TxType
         /\ \A event \in Event : [t EXCEPT !.event = event] \in TxType
  BY DEF TxType

\* The empty transaction is a transaction.
LEMMA NoTxType == NoTx \in TxType
  BY DEF NoTx, TxType

\* What is known of a call in flight.
LEMMA CallFacts ==
  ASSUME TypeOK, NEW r \in Requests, pc[r] # "idle"
  PROVE  /\ call[r] \in Call
         /\ Id(r) \in Ids
         /\ call[r].op \in {"create", "update", "delete"}
         /\ call[r].object \in Object
         /\ rows[Id(r)] \in Row \union {NoRow}
         /\ num[r] \in Stamps
  BY ConstantsAssumption DEF TypeOK, Call, Id, Stamps

\* The rows that the statements write are rows.
LEMMA RowUpdates ==
  ASSUME NEW row \in Row
  PROVE  /\ [row EXCEPT !.deleted = TRUE] \in Row
         /\ \A finalizers \in SUBSET Finalizers, data \in Data :
                [row EXCEPT !.finalizers = finalizers, !.data = data] \in Row
  BY DEF Row

\* A statement that ends with an error keeps the types.
LEMMA ReportType ==
  ASSUME TypeOK, NEW r \in Requests, pc[r] # "idle",
         NEW error \in Replies, Report(r, error)
  PROVE  TypeOK'
<1>1. tx' \in [Requests -> TxType]
  BY TxUpdates DEF TypeOK, Report
<1>2. pc' \in [Requests -> Statements \union {"idle", "end"}]
  BY DEF TypeOK, Report
<1>3. reply' \in [Requests -> Replies]
  BY DEF TypeOK, Report
<1> QED
  BY <1>1, <1>2, <1>3 DEF TypeOK, Report, database, locks, cleaning

\* A statement that writes a row keeps the types.
LEMMA WrittenType ==
  ASSUME TypeOK, NEW r \in Requests, pc[r] # "idle",
         NEW row \in Row, Written(r, row)
  PROVE  TypeOK'
<1>1. tx' \in [Requests -> TxType]
  BY TxUpdates DEF TypeOK, Written
<1>2. pc' \in [Requests -> Statements \union {"idle", "end"}]
  BY DEF TypeOK, Written, Statements
<1>3. lock' \in [Ids -> Requests \union {NoRequest}]
  BY DEF TypeOK, Written
<1> QED
  BY <1>1, <1>2, <1>3 DEF TypeOK, Written, database, cleaning

\* The end of a transaction keeps the types of what it gives back.
LEMMA ReleaseType ==
  ASSUME TypeOK, NEW r \in Requests, Release(r),
         rows' \in [Ids -> Row \union {NoRow}],
         archived' \in Seq([id : Ids, row : Row]),
         log' \in Seq(Event),
         reply' \in [Requests -> Replies],
         commits' \subseteq Stamps,
         notes' \subseteq notes
  PROVE  TypeOK'
<1>1. tx' \in [Requests -> TxType]
  BY NoTxType DEF TypeOK, Release
<1>2. pc' \in [Requests -> Statements \union {"idle", "end"}]
  BY DEF TypeOK, Release
<1>3. lock' \in [Ids -> Requests \union {NoRequest}]
  BY DEF TypeOK, Release
<1>4. call' \in [Requests -> Call \union {NoCall}]
  BY DEF TypeOK, Release
<1>5. object' \in [Requests -> Object \union {NoObject}]
  BY DEF TypeOK, Release
<1>6. /\ scan' \in [Requests -> Seq(Notifications)]
      /\ noteLock' \in [Notifications -> Requests \union {NoRequest}]
  BY DEF TypeOK, Release
<1> QED
  BY <1>1, <1>2, <1>3, <1>4, <1>5, <1>6 DEF TypeOK, Release

\* The event that a transaction announces is an event.
LEMMA EventOfType ==
  ASSUME TypeOK, NEW r \in Requests, pc[r] # "idle", tx[r].row \in Row
  PROVE  EventOf(r) \in Event
<1>1. WithoutSecrets(tx[r].row) \in Row
  <2>1. [f \in Fields |-> IF f \in Secrets THEN Unset ELSE tx[r].row.data[f]] \in Data
    BY ConstantsAssumption DEF Row, Data
  <2> QED
    BY <2>1 DEF WithoutSecrets, Row
<1> QED
  BY <1>1, CallFacts DEF EventOf, Event, EventType, EventTypes

\* The old notifications are scanned in some order.
LEMMA OrdersType ==
  ASSUME NEW old \in SUBSET Notifications, NEW order \in Orders(old)
  PROVE  order \in Seq(Notifications)
<1>1. IsFiniteSet(old)
  BY ConstantsAssumption, FS_Subset
<1>2. Cardinality(old) \in Nat
  BY <1>1, FS_CardinalityType
<1> QED
  BY <1>2 DEF Orders

\* The mask makes an object out of a row and the object of the request.
LEMMA ApplyMaskType ==
  ASSUME NEW row \in Row, NEW input \in Object, NEW mask
  PROVE  ApplyMask(row, input, mask) \in Object
<1>1. [f \in Fields |-> IF f \in mask THEN input.data[f] ELSE row.data[f]] \in Data
  BY DEF Data, Row, Object
<1> QED
  BY <1>1 DEF ApplyMask, Object, Row

\* Every step keeps the types.  Notify and Commit need to know how far the
\* transaction has come.
LEMMA TypeStep == IInv /\ [Next]_vars => TypeOK'
<1> SUFFICES ASSUME TypeOK, Progress, [Next]_vars PROVE TypeOK'
  BY DEF IInv
<1> USE ConstantsAssumption
<1>1. CASE UNCHANGED vars
  BY <1>1 DEF TypeOK, vars
<1>2. ASSUME NEW r \in Requests, Begin(r) PROVE TypeOK'
  <2>1. PICK c \in Calls[r] : /\ call' = [call EXCEPT ![r] = c]
                           /\ pc' = [pc EXCEPT ![r] = FirstStatement(c.op)]
    BY <1>2 DEF Begin
  <2>2. /\ c \in Call
        /\ FirstStatement(c.op) \in Statements /\ FirstStatement(c.op) \notin {"compare", "write"}
    BY <2>1 DEF FirstStatement, Statements, Call
  <2>3. pc' \in [Requests -> Statements \union {"idle", "end"}]
    BY <2>1, <2>2 DEF TypeOK
  <2>4. call' \in [Requests -> Call \union {NoCall}]
    BY <2>1, <2>2 DEF TypeOK
  <2>5. /\ started' = started + 1 /\ started' \in 0..MaxRequests
        /\ num' = [num EXCEPT ![r] = started + 1]
        /\ num' \in [Requests -> 0..MaxRequests]
    BY <1>2 DEF TypeOK, Begin
  <2>6. reply' \in [Requests -> Replies]
    BY <1>2 DEF TypeOK, Begin, Replies
  <2>7. \A q \in Requests : pc'[q] # "idle" => call'[q] \in Call /\ num'[q] \in 1..started'
    BY <2>1, <2>2, <2>5 DEF TypeOK
  <2>8. \A q \in Requests : pc'[q] \in {"compare", "write"} => object'[q] \in Object
    BY <1>2, <2>1, <2>2 DEF TypeOK, Begin
  <2> QED
    BY <1>2, <2>3, <2>4, <2>5, <2>6, <2>7, <2>8 DEF TypeOK, Begin, database, locks, cleaning
<1>3. ASSUME NEW r \in Requests, EnsureReal(r) PROVE TypeOK'
  <2>1. tx' \in [Requests -> TxType]
    BY <1>3, TxUpdates DEF TypeOK, EnsureReal
  <2> QED
    BY <1>3, <2>1 DEF TypeOK, EnsureReal, database, locks, cleaning
<1>4. ASSUME NEW r \in Requests, Fail(r) PROVE TypeOK'
  BY <1>4, ReportType DEF Fail, Replies, Statements
<1>5. ASSUME NEW r \in Requests, Insert(r) PROVE TypeOK'
  <2>1. pc[r] # "idle"
    BY <1>5 DEF Insert, At
  <2>2. NewRow(r) \in Row
    BY <2>1, CallFacts DEF NewRow, Row, Object
  <2> QED
    BY <1>5, <2>1, <2>2, ReportType, WrittenType DEF Insert, Replies
<1>6. ASSUME NEW r \in Requests, Fetch(r) PROVE TypeOK'
  <2>1. pc[r] # "idle" /\ pc[r] = "fetch"
    BY <1>6 DEF Fetch, At
  <2>2. CASE /\ reply' = [reply EXCEPT ![r] = "invalid"]
             /\ pc' = [pc EXCEPT ![r] = "end"]
             /\ UNCHANGED object
    <3>1. reply' \in [Requests -> Replies]
      BY <2>2 DEF TypeOK, Replies
    <3>2. pc' \in [Requests -> Statements \union {"idle", "end"}]
      BY <2>2 DEF TypeOK
    <3>3. \A q \in Requests : /\ pc'[q] # "idle" => pc[q] # "idle"
                              /\ pc'[q] \in {"compare", "write"} => pc[q] \in {"compare", "write"}
      BY <2>1, <2>2 DEF TypeOK
    <3> QED
      BY <1>6, <2>2, <3>1, <3>2, <3>3 DEF TypeOK, Fetch, database, locks, cleaning
  <2>3. CASE /\ Found(r)
             /\ object' = [object EXCEPT ![r] =
                               ApplyMask(rows[Id(r)], call[r].object, call[r].mask)]
             /\ pc' = [pc EXCEPT ![r] = "compare"]
             /\ UNCHANGED reply
    <3>1. ApplyMask(rows[Id(r)], call[r].object, call[r].mask) \in Object
      BY <2>1, <2>3, CallFacts, ApplyMaskType DEF Found
    <3>2. object' \in [Requests -> Object \union {NoObject}] /\ object'[r] \in Object
      BY <2>3, <3>1 DEF TypeOK
    <3>3. pc' \in [Requests -> Statements \union {"idle", "end"}]
      BY <2>3 DEF TypeOK, Statements
    <3>4. \A q \in Requests : pc'[q] \in {"compare", "write"} => object'[q] \in Object
      BY <2>3, <3>2 DEF TypeOK
    <3> QED
      BY <1>6, <2>1, <2>3, <3>2, <3>3, <3>4 DEF TypeOK, Fetch, database, locks, cleaning
  <2> QED
    BY <1>6, <2>2, <2>3 DEF Fetch
<1>7. ASSUME NEW r \in Requests, Compare(r) PROVE TypeOK'
  <2>1. reply' \in [Requests -> Replies]
    BY <1>7 DEF TypeOK, Compare, Replies
  <2>2. pc' \in [Requests -> Statements \union {"idle", "end"}]
    BY <1>7 DEF TypeOK, Compare, Statements
  <2>3. \A q \in Requests : /\ pc'[q] # "idle" => pc[q] # "idle"
                            /\ pc'[q] \in {"compare", "write"} => pc[q] \in {"compare", "write"}
    BY <1>7 DEF TypeOK, Compare, At
  <2> QED
    BY <1>7, <2>1, <2>2, <2>3 DEF TypeOK, Compare, database, locks, cleaning
<1>8. ASSUME NEW r \in Requests, Write(r) PROVE TypeOK'
  <2>1. pc[r] # "idle" /\ object[r] \in Object
    BY <1>8 DEF Write, At, TypeOK
  <2>2. rows[Id(r)] # NoRow =>
            [rows[Id(r)] EXCEPT !.finalizers = object[r].finalizers,
                                !.data = object[r].data] \in Row
    BY <2>1, CallFacts, RowUpdates DEF Object
  <2> QED
    BY <1>8, <2>1, <2>2, ReportType, WrittenType DEF Write, Replies
<1>9. ASSUME NEW r \in Requests, Mark(r) PROVE TypeOK'
  <2>1. pc[r] # "idle"
    BY <1>9 DEF Mark, At
  <2>2. rows[Id(r)] # NoRow => [rows[Id(r)] EXCEPT !.deleted = TRUE] \in Row
    BY <2>1, CallFacts, RowUpdates
  <2> QED
    BY <1>9, <2>1, <2>2, ReportType, WrittenType DEF Mark, Found, Replies
<1>10. ASSUME NEW r \in Requests, Notify(r) PROVE TypeOK'
  <2>1. pc[r] # "idle" /\ tx[r].row \in Row
    BY <1>10 DEF Notify, At, TypeOK, TxType, Progress, TxProgress
  <2>2. tx' = [tx EXCEPT ![r].event = EventOf(r)] /\ BeginCleaning(r)
    BY <1>10 DEF Notify, EventOf
  <2>3. tx' \in [Requests -> TxType]
    BY <2>1, <2>2, EventOfType, TxUpdates DEF TypeOK
  <2>4. scan' \in [Requests -> Seq(Notifications)]
    <3>1. PICK old \in SUBSET notes : \E order \in Orders(old) :
                   scan' = [scan EXCEPT ![r] = order]
      BY <2>2 DEF BeginCleaning
    <3>2. PICK order \in Orders(old) : scan' = [scan EXCEPT ![r] = order]
      BY <3>1
    <3>3. old \in SUBSET Notifications
      BY DEF TypeOK
    <3>4. order \in Seq(Notifications)
      BY <3>3, OrdersType
    <3> QED
      BY <3>2, <3>4 DEF TypeOK
  <2>5. pc' \in [Requests -> Statements \union {"idle", "end"}]
    BY <2>2 DEF TypeOK, BeginCleaning, Statements
  <2>6. \A q \in Requests : /\ pc'[q] # "idle" => pc[q] # "idle"
                            /\ pc'[q] \in {"compare", "write"} => pc[q] \in {"compare", "write"}
    BY <2>1, <2>2 DEF TypeOK, BeginCleaning
  <2> QED
    BY <2>2, <2>3, <2>4, <2>5, <2>6 DEF TypeOK, BeginCleaning, database
<1>15. ASSUME NEW r \in Requests, LockOld(r) PROVE TypeOK'
  <2>1. scan[r] \in Seq(Notifications) /\ scan[r] # <<>>
    BY <1>15 DEF LockOld, TypeOK
  <2>2. Head(scan[r]) \in Notifications /\ Tail(scan[r]) \in Seq(Notifications)
    BY <2>1
  <2>3. /\ scan' \in [Requests -> Seq(Notifications)]
        /\ noteLock' \in [Notifications -> Requests \union {NoRequest}]
    BY <1>15, <2>2 DEF LockOld, TypeOK
  <2> QED
    BY <1>15, <2>3 DEF TypeOK, LockOld, database
<1>16. ASSUME NEW r \in Requests, DetectDeadlock(r) PROVE TypeOK'
  <2>1. pc[r] # "idle"
    BY <1>16 DEF DetectDeadlock, At
  <2> QED
    BY <1>16, <2>1, ReportType DEF DetectDeadlock, Replies
<1>17. ASSUME NEW r \in Requests, Clean(r) PROVE TypeOK'
  <2>1. reply' \in [Requests -> Replies]
    BY <1>17 DEF TypeOK, Clean, Replies
  <2>2. pc' \in [Requests -> Statements \union {"idle", "end"}]
    BY <1>17 DEF TypeOK, Clean, Statements
  <2>3. \A q \in Requests : /\ pc'[q] # "idle" => pc[q] # "idle"
                            /\ pc'[q] \in {"compare", "write"} => pc[q] \in {"compare", "write"}
    BY <1>17 DEF TypeOK, Clean, At
  <2> QED
    BY <1>17, <2>1, <2>2, <2>3 DEF TypeOK, Clean, database, locks, cleaning
<1>11. ASSUME NEW r \in Requests, Archive(r) PROVE TypeOK'
  <2>1. tx' \in [Requests -> TxType]
    BY <1>11, TxUpdates DEF TypeOK, Archive
  <2>2. reply' \in [Requests -> Replies]
    BY <1>11 DEF TypeOK, Archive, Replies
  <2>3. pc' \in [Requests -> Statements \union {"idle", "end"}]
    BY <1>11 DEF TypeOK, Archive
  <2>4. \A q \in Requests : /\ pc'[q] # "idle" => pc[q] # "idle"
                            /\ pc'[q] \in {"compare", "write"} => pc[q] \in {"compare", "write"}
    BY <1>11 DEF TypeOK, Archive, At
  <2> QED
    BY <1>11, <2>1, <2>2, <2>3, <2>4 DEF TypeOK, Archive, database, locks, cleaning
<1>12. ASSUME NEW r \in Requests, Commit(r) PROVE TypeOK'
  <2>1. pc[r] # "idle" /\ tx[r] \in TxType
    BY <1>12 DEF Commit, TypeOK
  <2>2. rows' \in [Ids -> Row \union {NoRow}]
    BY <1>12, <2>1, CallFacts DEF Commit, Publish, TypeOK, TxType
  <2>3. archived' \in Seq([id : Ids, row : Row])
    <3>1. tx[r].archived => [id |-> Id(r), row |-> tx[r].row] \in [id : Ids, row : Row]
      BY <2>1, CallFacts DEF TxType, Progress, TxProgress
    <3> DEFINE A == [id : Ids, row : Row]
               a == [id |-> Id(r), row |-> tx[r].row]
    <3>2. archived \in Seq(A) /\ (tx[r].archived => a \in A)
      BY <3>1 DEF TypeOK
    <3>3. archived' = IF tx[r].archived THEN Append(archived, a) ELSE archived
      BY <1>12 DEF Commit, Publish
    <3> HIDE DEF A, a
    <3>4. archived' \in Seq(A)
      BY <3>2, <3>3
    <3> QED
      BY <3>4 DEF A
  <2>4. log' \in Seq(Event)
    <3>1. tx[r].event \in Event \union {NoEvent}
      BY <2>1 DEF TxType
    <3> QED
      BY <1>12, <3>1 DEF Commit, Publish, TypeOK
  <2>5. reply' \in [Requests -> Replies]
    BY <1>12 DEF Commit, TypeOK, Replies
  <2>6. commits' \subseteq Stamps
    BY <1>12, <2>1, CallFacts DEF Commit, Publish, TypeOK
  <2>7. notes' \subseteq notes
    BY <1>12 DEF Commit, Publish
  <2> QED
    BY <1>12, <2>2, <2>3, <2>4, <2>5, <2>6, <2>7, ReleaseType DEF Commit
<1>13. ASSUME NEW r \in Requests, Rollback(r) PROVE TypeOK'
  BY <1>13, ReleaseType DEF Rollback, TypeOK, database
<1>14. ASSUME NEW r \in Requests, Abandon(r) PROVE TypeOK'
  <2>1. reply' \in [Requests -> Replies]
    BY <1>14 DEF Abandon, TypeOK, Replies
  <2> QED
    BY <1>14, <2>1, ReleaseType DEF Abandon, TypeOK, database
<1> QED
  BY <1>1, <1>2, <1>3, <1>4, <1>5, <1>6, <1>7, <1>8, <1>9, <1>10, <1>11, <1>12, <1>13,
     <1>14, <1>15, <1>16, <1>17 DEF Next, Step, Quiet

----------------------------------------------------------------------------
(* The rest of the inductive invariant *)

Rest == Locking /\ Progress /\ Pending /\ Numbers /\ Answers /\ ReplyTellsOutcome

\* A step that only moves a transaction forward leaves the numbers alone.
LEMMA NumbersFrame ==
  ASSUME Numbers, UNCHANGED <<database, started, num>>,
         \A q \in Requests : pc'[q] # "idle" => pc[q] # "idle"
  PROVE  Numbers'
  BY DEF Numbers, database

\* A step that leaves the written rows and the locks alone.
LEMMA LocksFrame ==
  ASSUME Locking, Pending, UNCHANGED <<rows, lock, call, num>>,
         \A q \in Requests : tx'[q].row = tx[q].row,
         \A q \in Requests : tx[q].row # NoRow =>
             (pc'[q] = pc[q] \/ pc'[q] \in {"notify", "clean", "archive", "end"})
  PROVE  Locking' /\ Pending'
<1>1. Locking'
  BY DEF Locking, Id
<1>2. Pending'
  <2> SUFFICES ASSUME NEW q \in Requests, tx'[q].row # NoRow
               PROVE  Changes(q)'
    BY DEF Pending
  <2>1. Changes(q) /\ tx'[q].row = tx[q].row
    BY DEF Pending
  <2>2. Id(q)' = Id(q) /\ rows' = rows /\ call' = call /\ num' = num
    BY DEF Id
  <2> QED
    BY <2>1, <2>2 DEF Changes
<1> QED
  BY <1>1, <1>2

\* What a transaction of another call looks like after the step.
LEMMA OthersFrame ==
  ASSUME IInv, NEW r \in Requests,
         \A q \in Requests : q # r => /\ tx'[q] = tx[q] /\ pc'[q] = pc[q]
                                      /\ call'[q] = call[q] /\ reply'[q] = reply[q]
                                      /\ num'[q] = num[q],
         NEW q \in Requests, q # r
  PROVE  TxProgress(q)'
<1>1. tx'[q] = tx[q] /\ pc'[q] = pc[q] /\ call'[q] = call[q]
  OBVIOUS
<1>2. EventOf(q)' = EventOf(q)
  BY <1>1 DEF EventOf, Id
<1>3. NoTx' = NoTx
  BY DEF NoTx
<1> QED
  BY <1>1, <1>2, <1>3 DEF IInv, Progress, TxProgress, Gone, Statements

\* A statement that ends with an error.
LEMMA ReportRest ==
  ASSUME IInv, NEW r \in Requests, pc[r] \in Statements,
         NEW error \in {"notfound", "failed"}, Report(r, error)
  PROVE  Rest'
<1> USE DEF IInv
<1>1. tx[r] \in TxType /\ tx \in [Requests -> TxType]
  BY DEF TypeOK
<1>2. /\ tx'[r].row = tx[r].row /\ tx'[r].event = tx[r].event
      /\ tx'[r].archived = tx[r].archived /\ tx'[r].failed
      /\ pc'[r] = "end" /\ reply'[r] = error
  BY <1>1 DEF Report, TxType, TypeOK
<1>3. \A q \in Requests : q # r =>
          /\ tx'[q] = tx[q] /\ pc'[q] = pc[q] /\ call'[q] = call[q]
          /\ reply'[q] = reply[q] /\ num'[q] = num[q]
  BY DEF Report, TypeOK
<1>4. UNCHANGED <<database, lock, started, call, num>>
  BY DEF Report, locks
<1>5. pc[r] # "idle"
  BY DEF Statements
<1>6. Numbers'
  BY <1>2, <1>3, <1>4, <1>5, NumbersFrame
<1>7. Locking' /\ Pending'
  BY <1>2, <1>3, <1>4, LocksFrame DEF database
<1>8. Progress'
  BY <1>2, <1>3, OthersFrame DEF Progress, TxProgress, Statements
<1>9. Answers'
  BY <1>2, <1>3, <1>4 DEF Answers
<1>10. ReplyTellsOutcome'
  BY <1>2, <1>3, <1>4 DEF ReplyTellsOutcome, database
<1> QED
  BY <1>6, <1>7, <1>8, <1>9, <1>10 DEF Rest

\* A statement that writes a row.
LEMMA WrittenRest ==
  ASSUME IInv, NEW r \in Requests, pc[r] \in {"insert", "write", "mark"},
         lock[Id(r)] = NoRequest, NEW row \in Row, Written(r, row),
         \/ call[r].op = "create" /\ rows[Id(r)] = NoRow
              /\ row.created = num[r] /\ ~row.deleted
         \/ call[r].op = "update" /\ rows[Id(r)] # NoRow
              /\ row = [rows[Id(r)] EXCEPT !.finalizers = row.finalizers, !.data = row.data]
         \/ call[r].op = "delete" /\ rows[Id(r)] # NoRow
              /\ row = [rows[Id(r)] EXCEPT !.deleted = TRUE]
  PROVE  Rest'
<1> USE DEF IInv
<1>1. /\ tx[r] \in TxType /\ tx \in [Requests -> TxType]
      /\ lock \in [Ids -> Requests \union {NoRequest}] /\ Id(r) \in Ids
      /\ row # NoRow
  BY CallFacts, NullsAssumption DEF TypeOK
<1>2. tx[r].row = NoRow /\ ~tx[r].archived /\ ~tx[r].failed
  BY DEF Locking, Progress, TxProgress, Statements
<1>3. /\ tx'[r].row = row /\ tx'[r].event = tx[r].event
      /\ tx'[r].archived = tx[r].archived /\ tx'[r].failed = tx[r].failed
      /\ pc'[r] = "notify" /\ reply'[r] = reply[r]
  BY <1>1 DEF Written, TxType, TypeOK
<1>4. \A q \in Requests : q # r =>
          /\ tx'[q] = tx[q] /\ pc'[q] = pc[q] /\ call'[q] = call[q]
          /\ reply'[q] = reply[q] /\ num'[q] = num[q]
  BY DEF Written, TypeOK
<1>5. UNCHANGED <<database, started, call, num, reply>>
  BY DEF Written
<1>6. Numbers'
  BY <1>3, <1>4, <1>5, NumbersFrame
<1>7. lock' = [lock EXCEPT ![Id(r)] = r] /\ \A q \in Requests : Id(q)' = Id(q)
  BY <1>5 DEF Written, Id
<1>8. Locking'
  <2>1. ASSUME NEW q \in Requests, tx'[q].row # NoRow
        PROVE  lock'[Id(q)] = q /\ pc'[q] \in {"notify", "clean", "archive", "end"}
    <3>1. CASE q = r
      BY <3>1, <1>1, <1>3, <1>7
    <3>2. CASE q # r
      <4>1. tx[q].row # NoRow
        BY <2>1, <3>2, <1>4
      <4>2. lock[Id(q)] = q /\ pc[q] \in {"notify", "clean", "archive", "end"}
        BY <4>1 DEF Locking
      <4>3. Id(q) # Id(r)
        BY <4>2, NullsAssumption
      <4> QED
        BY <4>2, <4>3, <3>2, <1>1, <1>4, <1>7
    <3> QED
      BY <3>1, <3>2
  <2>2. ASSUME NEW q \in Requests, NEW id \in Ids, lock'[id] = q
        PROVE  tx'[q].row # NoRow /\ Id(q) = id
    <3>1. CASE id = Id(r)
      BY <2>2, <3>1, <1>1, <1>3, <1>7
    <3>2. CASE id # Id(r)
      <4>1. lock[id] = q
        BY <2>2, <3>2, <1>1, <1>7
      <4>2. tx[q].row # NoRow /\ Id(q) = id
        BY <4>1 DEF Locking
      <4> QED
        BY <4>2, <3>2, <1>4
    <3> QED
      BY <3>1, <3>2
  <2> QED
    BY <2>1, <2>2, <1>7 DEF Locking
<1>9. Pending'
  <2> SUFFICES ASSUME NEW q \in Requests, tx'[q].row # NoRow
               PROVE  Changes(q)'
    BY DEF Pending
  <2>1. Id(q)' = Id(q) /\ rows' = rows /\ call' = call /\ num' = num
    BY <1>5, <1>7 DEF database
  <2>2. CASE q = r
    BY <2>1, <2>2, <1>3 DEF Changes
  <2>3. CASE q # r
    <3>1. Changes(q) /\ tx'[q].row = tx[q].row
      BY <2>3, <1>4 DEF Pending
    <3> QED
      BY <3>1, <2>1 DEF Changes
  <2> QED
    BY <2>2, <2>3
<1>10. Progress'
  BY <1>1, <1>2, <1>3, <1>4, OthersFrame DEF Progress, TxProgress
<1>11. Answers'
  BY <1>3, <1>4, <1>5 DEF Answers
<1>12. ReplyTellsOutcome'
  BY <1>3, <1>4, <1>5 DEF ReplyTellsOutcome, database
<1> QED
  BY <1>6, <1>8, <1>9, <1>10, <1>11, <1>12 DEF Rest

\* The statements belong to the operation that the call asked for.
LEMMA DispatchStep == IInv /\ [Next]_vars => Dispatch'
<1> SUFFICES ASSUME TypeOK, Dispatch, [Next]_vars PROVE Dispatch'
  BY DEF IInv
<1>1. CASE UNCHANGED vars
  BY <1>1 DEF Dispatch, vars
<1>2. ASSUME NEW r \in Requests, Begin(r) PROVE Dispatch'
  <2>1. PICK c \in Calls[r] : /\ call' = [call EXCEPT ![r] = c]
                           /\ pc' = [pc EXCEPT ![r] = FirstStatement(c.op)]
    BY <1>2 DEF Begin
  <2>2. c.op \in {"create", "update", "delete"}
    BY ConstantsAssumption DEF Call
  <2> QED
    BY <2>1, <2>2 DEF Dispatch, FirstStatement, TypeOK
<1>3. ASSUME NEW r \in Requests,
             \/ EnsureReal(r) \/ Insert(r) \/ Fetch(r) \/ Compare(r) \/ Write(r) \/ Mark(r)
             \/ Notify(r) \/ LockOld(r) \/ DetectDeadlock(r) \/ Clean(r) \/ Archive(r)
             \/ Fail(r)
      PROVE  Dispatch'
  <2>1. call' = call /\ pc \in [Requests -> Statements \union {"idle", "end"}]
    BY <1>3 DEF EnsureReal, Insert, Fetch, Compare, Write, Mark, Notify, BeginCleaning, LockOld,
                DetectDeadlock, Clean, Archive, Fail, Report, Written, TypeOK
  <2>2. /\ \A q \in Requests : q # r => pc'[q] = pc[q]
        /\ \/ pc'[r] = pc[r]
           \/ pc'[r] \in {"notify", "clean", "archive", "end"}
           \/ pc[r] \in {"fetch", "compare"} /\ pc'[r] \in {"compare", "write"}
    BY <1>3, <2>1 DEF EnsureReal, Insert, Fetch, Compare, Write, Mark, Notify, BeginCleaning,
                      LockOld, DetectDeadlock, Clean, Archive, Fail, Report, Written, At
  <2> QED
    BY <2>1, <2>2 DEF Dispatch
<1>4. ASSUME NEW r \in Requests, Release(r) PROVE Dispatch'
  BY <1>4 DEF Release, Dispatch, TypeOK
<1> QED
  BY <1>1, <1>2, <1>3, <1>4 DEF Next, Step, Quiet, Commit, Rollback, Abandon

\* A new call.
LEMMA BeginRest ==
  ASSUME IInv, NEW r \in Requests, Begin(r)
  PROVE  Rest'
<1> USE DEF IInv
<1>1. PICK c \in Calls[r] : /\ call' = [call EXCEPT ![r] = c]
                         /\ pc' = [pc EXCEPT ![r] = FirstStatement(c.op)]
  BY DEF Begin
<1>2. FirstStatement(c.op) \in {"insert", "fetch", "mark"}
  BY ConstantsAssumption DEF FirstStatement, Call
<1>3. /\ pc[r] = "idle" /\ pc'[r] \in {"insert", "fetch", "mark"}
      /\ tx' = tx /\ tx[r] = NoTx
      /\ tx[r].row = NoRow /\ tx[r].event = NoEvent /\ ~tx[r].archived /\ ~tx[r].failed
      /\ lock' = lock /\ rows' = rows /\ log' = log /\ commits' = commits
  BY <1>1, <1>2 DEF Begin, Progress, TxProgress, TypeOK, NoTx, database, locks
<1>4. \A q \in Requests : q # r =>
          /\ tx'[q] = tx[q] /\ pc'[q] = pc[q] /\ call'[q] = call[q]
          /\ reply'[q] = reply[q] /\ num'[q] = num[q]
  BY <1>1 DEF Begin, TypeOK
<1>5. /\ started \in Nat /\ started' = started + 1
      /\ num \in [Requests -> 0..MaxRequests] /\ num'[r] = started + 1
  BY ConstantsAssumption DEF Begin, TypeOK
<1>6. Numbers'
  BY <1>3, <1>4, <1>5 DEF Numbers
<1>7. Locking'
  <2>1. \A q \in Requests : q # r => Id(q)' = Id(q)
    BY <1>4 DEF Id
  <2>2. \A id \in Ids : lock[id] # r
    BY <1>3 DEF Locking
  <2> QED
    BY <1>3, <1>4, <2>1, <2>2 DEF Locking
<1>8. Pending'
  <2> SUFFICES ASSUME NEW q \in Requests, tx'[q].row # NoRow
               PROVE  Changes(q)'
    BY DEF Pending
  <2>1. q # r /\ tx'[q] = tx[q] /\ Changes(q)
    BY <1>3 DEF Pending
  <2>2. Id(q)' = Id(q) /\ call'[q] = call[q] /\ num'[q] = num[q] /\ rows' = rows
    BY <2>1, <1>3, <1>4 DEF Id
  <2> QED
    BY <2>1, <2>2 DEF Changes
<1>9. Progress'
  BY <1>3, <1>4, OthersFrame DEF Progress, TxProgress
<1>10. Answers'
  BY <1>3, <1>4 DEF Answers
<1>11. ReplyTellsOutcome'
  BY <1>3, <1>4 DEF ReplyTellsOutcome
<1> QED
  BY <1>6, <1>7, <1>8, <1>9, <1>10, <1>11 DEF Rest

\* The steps that write nothing to the tables: the transaction begins, the server reads, the
\* event is fired, old notifications are deleted, the row is archived.
LEMMA ForwardRest ==
  ASSUME IInv, NEW r \in Requests,
         \/ EnsureReal(r) \/ Fetch(r) \/ Compare(r)
         \/ Notify(r) \/ LockOld(r) \/ Clean(r) \/ Archive(r)
  PROVE  Rest'
<1> USE DEF IInv
<1>1. /\ tx \in [Requests -> TxType] /\ tx[r] \in TxType
      /\ pc \in [Requests -> Statements \union {"idle", "end"}]
      /\ reply \in [Requests -> Replies]
  BY DEF TypeOK
<1>2. UNCHANGED <<database, lock, started, call, num>>
  BY DEF EnsureReal, Fetch, Compare, Notify, BeginCleaning, LockOld, Clean, Archive, locks
<1>3. \A q \in Requests : q # r =>
          /\ tx'[q] = tx[q] /\ pc'[q] = pc[q] /\ call'[q] = call[q]
          /\ reply'[q] = reply[q] /\ num'[q] = num[q]
  BY <1>1, <1>2 DEF EnsureReal, Fetch, Compare, Notify, BeginCleaning, LockOld, Clean, Archive
<1>4. tx'[r].row = tx[r].row /\ tx'[r].failed = tx[r].failed
  BY <1>1 DEF EnsureReal, Fetch, Compare, Notify, LockOld, Clean, Archive, TxType
<1>5. /\ pc[r] # "idle" /\ pc'[r] # "idle"
      /\ \/ pc'[r] = pc[r] /\ pc[r] # "end"
         \/ pc'[r] \in {"clean", "archive", "end"}
         \/ pc[r] \in {"fetch", "compare"}
  BY <1>1 DEF EnsureReal, Fetch, Compare, Notify, BeginCleaning, LockOld, Clean, Archive, At,
              Statements
<1>6. pc[r] \in {"fetch", "compare"} => tx[r].row = NoRow
  BY DEF Locking
<1>7. Numbers'
  BY <1>2, <1>3, <1>5, NumbersFrame
<1>8. Locking' /\ Pending'
  BY <1>2, <1>3, <1>4, <1>5, <1>6, LocksFrame DEF database
<1>9. Progress'
  <2>1. EventOf(r)' = EventOf(r) /\ Gone(tx[r].row)' = Gone(tx[r].row)
    BY <1>2, <1>4 DEF EventOf, Id, Gone
  <2>2. ASSUME EnsureReal(r) \/ Fetch(r) \/ Compare(r) PROVE TxProgress(r)'
    <3>1. /\ tx'[r].event = tx[r].event /\ tx'[r].archived = tx[r].archived
          /\ \/ pc'[r] = pc[r] /\ pc[r] # "end"
             \/ /\ tx[r].row = NoRow /\ pc'[r] \in {"compare", "write", "end"}
                /\ pc[r] \in Statements
      BY <2>2, <1>1, <1>6 DEF EnsureReal, Fetch, Compare, TxType, At, Statements
    <3> QED
      BY <3>1, <2>1, <1>4, <1>5 DEF Progress, TxProgress, Statements
  <2>3. ASSUME Notify(r) PROVE TxProgress(r)'
    <3>1. /\ tx'[r].event = EventOf(r) /\ tx'[r].archived = tx[r].archived
          /\ pc[r] = "notify" /\ pc'[r] = "clean"
      BY <2>3, <1>1 DEF Notify, BeginCleaning, At, EventOf, TxType
    <3> QED
      BY <3>1, <2>1, <1>4, <1>5 DEF Progress, TxProgress, Statements
  <2>5. ASSUME LockOld(r) PROVE TxProgress(r)'
    <3>1. tx'[r] = tx[r] /\ pc[r] = "clean" /\ pc'[r] = "clean"
      BY <2>5, <1>1 DEF LockOld, At
    <3> QED
      BY <3>1, <2>1, <1>4, <1>5 DEF Progress, TxProgress, Statements
  <2>6. ASSUME Clean(r) PROVE TxProgress(r)'
    <3>1. /\ tx'[r] = tx[r] /\ pc[r] = "clean"
          /\ \/ Gone(tx[r].row) /\ pc'[r] = "archive"
             \/ ~Gone(tx[r].row) /\ pc'[r] = "end"
      BY <2>6, <1>1 DEF Clean, At
    <3> QED
      BY <3>1, <2>1, <1>4, <1>5 DEF Progress, TxProgress, Statements
  <2>4. ASSUME Archive(r) PROVE TxProgress(r)'
    <3>1. /\ tx'[r].event = tx[r].event /\ tx'[r].archived
          /\ pc[r] = "archive" /\ pc'[r] = "end"
      BY <2>4, <1>1 DEF Archive, At, TxType
    <3> QED
      BY <3>1, <2>1, <1>4, <1>5 DEF Progress, TxProgress, Statements
  <2> QED
    BY <2>2, <2>3, <2>4, <2>5, <2>6, <1>3, OthersFrame DEF Progress
<1>10. pc'[r] = "end" =>
           /\ reply'[r] = "ok" => tx[r].row # NoRow /\ ~tx[r].failed
           /\ reply'[r] \in {"unchanged", "invalid"} => tx[r].row = NoRow
           /\ reply'[r] \in {"notfound", "failed"} => tx[r].failed
  <2>1. CASE EnsureReal(r)
    BY <2>1, <1>1 DEF EnsureReal, Statements
  <2>2. CASE Fetch(r) \/ Compare(r)
    BY <2>2, <1>1, <1>6 DEF Fetch, Compare, At
  <2>3. CASE Notify(r) \/ LockOld(r) \/ Clean(r) \/ Archive(r)
    <3>1. tx[r].row # NoRow /\ ~tx[r].failed /\ (pc'[r] = "end" => reply'[r] = "ok")
      BY <2>3, <1>1 DEF Notify, BeginCleaning, LockOld, Clean, Archive, At, Progress, TxProgress,
                        Statements
    <3> QED
      BY <3>1
  <2> QED
    BY <2>1, <2>2, <2>3
<1>11. Answers'
  BY <1>2, <1>3, <1>4, <1>5, <1>10 DEF Answers
<1>12. ReplyTellsOutcome'
  BY <1>2, <1>3, <1>5 DEF ReplyTellsOutcome, database
<1> QED
  BY <1>7, <1>8, <1>9, <1>11, <1>12 DEF Rest

\* The end of a transaction, whatever it does to the tables.
LEMMA ReleaseRest ==
  ASSUME IInv, NEW r \in Requests, pc[r] # "idle", Release(r), TypeOK',
         \A id \in Ids : id # Id(r) => rows'[id] = rows[id],
         rows'[Id(r)] = rows[Id(r)] \/ lock[Id(r)] = r,
         \A q \in Requests : q # r => reply'[q] = reply[q],
         commits \subseteq commits' /\ commits' \subseteq commits \union {num[r]},
         \A i \in DOMAIN log' : log'[i].row.created \in commits',
         \A id \in Ids : rows'[id] # NoRow => rows'[id].created \in commits',
         reply'[r] = "ok" => num[r] \in commits',
         reply'[r] \in {"unchanged", "notfound", "invalid", "failed"} => num[r] \notin commits'
  PROVE  Rest'
<1> USE DEF IInv
<1>1. /\ tx'[r] = NoTx /\ pc'[r] = "idle"
      /\ tx'[r].row = NoRow /\ tx'[r].event = NoEvent /\ ~tx'[r].archived
      /\ num' = num /\ started' = started
  BY DEF Release, TypeOK, NoTx
<1>2. \A q \in Requests : q # r =>
          /\ tx'[q] = tx[q] /\ pc'[q] = pc[q] /\ call'[q] = call[q]
          /\ reply'[q] = reply[q] /\ num'[q] = num[q]
  BY DEF Release, TypeOK
<1>3. /\ \A id \in Ids : lock'[id] = IF lock[id] = r THEN NoRequest ELSE lock[id]
      /\ Id(r) \in Ids /\ num[r] \in 1..started /\ started \in Nat
  BY CallFacts, ConstantsAssumption DEF Release, TypeOK
<1>4. \A q \in Requests : q # r => Id(q)' = Id(q)
  BY <1>2 DEF Id
<1>5. Numbers'
  <2>1. \A q \in Requests : pc'[q] # "idle" => num[q] \notin commits'
    BY <1>1, <1>2, <1>3 DEF Numbers
  <2>2. commits' \subseteq 1..started
    BY <1>3 DEF Numbers
  <2> QED
    BY <1>1, <2>1, <2>2 DEF Numbers
<1>6. Locking'
  <2>1. ASSUME NEW q \in Requests, tx'[q].row # NoRow
        PROVE  lock'[Id(q)'] = q /\ pc'[q] \in {"notify", "clean", "archive", "end"}
    <3>1. q # r /\ tx[q].row # NoRow
      BY <2>1, <1>1, <1>2
    <3>2. lock[Id(q)] = q /\ pc[q] \in {"notify", "clean", "archive", "end"}
      BY <3>1 DEF Locking
    <3>3. Id(q) \in Ids
      BY <3>2, CallFacts
    <3> QED
      BY <3>1, <3>2, <3>3, <1>2, <1>3, <1>4
  <2>2. ASSUME NEW q \in Requests, NEW id \in Ids, lock'[id] = q
        PROVE  tx'[q].row # NoRow /\ Id(q)' = id
    <3>1. q # r /\ lock[id] = q
      BY <2>2, <1>3, NullsAssumption
    <3>2. tx[q].row # NoRow /\ Id(q) = id
      BY <3>1 DEF Locking
    <3> QED
      BY <3>1, <3>2, <1>2, <1>4
  <2> QED
    BY <2>1, <2>2 DEF Locking
<1>7. Pending'
  <2> SUFFICES ASSUME NEW q \in Requests, tx'[q].row # NoRow
               PROVE  Changes(q)'
    BY DEF Pending
  <2>1. q # r /\ tx'[q] = tx[q] /\ tx[q].row # NoRow
    BY <1>1, <1>2
  <2>2. Changes(q) /\ lock[Id(q)] = q /\ pc[q] # "idle"
    BY <2>1 DEF Pending, Locking
  <2>3. Id(q) \in Ids /\ rows'[Id(q)] = rows[Id(q)]
    BY <2>1, <2>2, CallFacts
  <2>4. Id(q)' = Id(q) /\ call'[q] = call[q] /\ num'[q] = num[q]
    BY <2>1, <1>2, <1>4
  <2>5. /\ tx'[q].row = tx[q].row /\ call'[q].op = call[q].op
        /\ rows'[Id(q)'] = rows[Id(q)]
    BY <2>1, <2>3, <2>4
  <2> QED
    BY <2>2, <2>4, <2>5, SMTT(30) DEF Changes
<1>8. Progress'
  <2>1. TxProgress(r)'
    <3>1. tx'[r] = NoTx'
      BY <1>1 DEF NoTx
    <3> QED
      BY <1>1, <3>1 DEF TxProgress, Statements
  <2> QED
    BY <2>1, <1>2, OthersFrame DEF Progress
<1>9. Answers'
  BY <1>1, <1>2, <1>3 DEF Answers
<1>10. ReplyTellsOutcome'
  <2> SUFFICES ASSUME NEW q \in Requests, pc'[q] = "idle"
               PROVE  /\ reply'[q] = "ok" => num'[q] \in commits'
                      /\ reply'[q] \in {"unchanged", "notfound", "invalid", "failed"}
                             => num'[q] \notin commits'
    BY DEF ReplyTellsOutcome
  <2>1. CASE q = r
    BY <2>1, <1>1
  <2>2. CASE q # r
    <3>1. /\ reply'[q] = "ok" => num[q] \in commits
          /\ reply'[q] \in {"unchanged", "notfound", "invalid", "failed"}
                 => num[q] \notin commits /\ num[q] # 0
      BY <2>2, <1>2 DEF ReplyTellsOutcome, Answers
    <3>2. num[q] = num[r] => num[q] = 0
      BY <2>2 DEF Numbers
    <3> QED
      BY <3>1, <3>2, <1>1
  <2> QED
    BY <2>1, <2>2
<1> QED
  BY <1>5, <1>6, <1>7, <1>8, <1>9, <1>10 DEF Rest

\* A transaction that is rolled back leaves the database alone.
LEMMA RollbackRest ==
  ASSUME IInv, NEW r \in Requests, Rollback(r) \/ Abandon(r), TypeOK'
  PROVE  Rest'
<1>1. Release(r) /\ UNCHANGED <<rows, log, commits>>
  BY DEF Rollback, Abandon, database
<1>2. pc[r] # "idle" /\ num[r] \notin commits
  BY DEF Rollback, Abandon, IInv, Numbers
<1>3. \A q \in Requests : q # r => reply'[q] = reply[q]
  BY DEF Rollback, Abandon, IInv, TypeOK
<1>4. reply'[r] # "ok"
  BY DEF Rollback, Abandon, IInv, TypeOK, Answers
<1> QED
  BY <1>1, <1>2, <1>3, <1>4, ReleaseRest DEF IInv, Numbers

\* A commit publishes what was written under the lock.
LEMMA CommitRest ==
  ASSUME IInv, NEW r \in Requests, Commit(r), TypeOK'
  PROVE  Rest'
<1> USE DEF IInv
<1>1. Release(r) /\ pc[r] # "idle" /\ Id(r) \in Ids
  BY CallFacts DEF Commit
<1>2. \A q \in Requests : q # r => reply'[q] = reply[q]
  BY DEF Commit, TypeOK
<1>3. CASE tx[r].row = NoRow
  <2>1. tx[r].event = NoEvent /\ reply[r] # "ok" /\ reply'[r] # "ok"
    BY <1>3 DEF Progress, TxProgress, Answers, Commit, TypeOK
  <2>2. rows' = rows /\ log' = log /\ commits' = commits
    BY <1>3, <2>1 DEF Commit, Publish
  <2>3. num[r] \notin commits
    BY <1>1 DEF Numbers
  <2> QED
    BY <1>1, <1>2, <2>1, <2>2, <2>3, ReleaseRest DEF Numbers
<1>4. CASE tx[r].row # NoRow
  <2>1. /\ tx[r].event = EventOf(r) /\ tx[r].event # NoEvent
        /\ tx[r].row \in Row /\ lock[Id(r)] = r
    <3>1. tx[r].event = EventOf(r) /\ lock[Id(r)] = r /\ tx[r].row \in Row
      BY <1>4 DEF Commit, Progress, TxProgress, Locking, TypeOK, TxType
    <3>2. EventOf(r) \in Event
      BY <3>1, <1>1, EventOfType
    <3> QED
      BY <3>1, <3>2, NullsAssumption
  <2>2. tx[r].row.created \in commits \union {num[r]}
    <3>1. CASE call[r].op = "create"
      BY <3>1, <1>4 DEF Pending, Changes
    <3>2. CASE call[r].op # "create"
      <4>1. /\ rows[Id(r)] # NoRow /\ rows[Id(r)] \in Row
            /\ \/ tx[r].row = [rows[Id(r)] EXCEPT !.finalizers = tx[r].row.finalizers,
                                                  !.data = tx[r].row.data]
               \/ tx[r].row = [rows[Id(r)] EXCEPT !.deleted = TRUE]
        BY <3>2, <1>1, <1>4 DEF Pending, Changes, TypeOK
      <4>2. tx[r].row.created = rows[Id(r)].created
        BY <4>1 DEF Row
      <4> QED
        BY <4>1, <4>2, <1>1 DEF Numbers
    <3> QED
      BY <3>1, <3>2
  <2>3. commits' = commits \union {num[r]}
    BY <1>4 DEF Commit, Publish
  <2>4. \A i \in DOMAIN log' : log'[i].row.created \in commits'
    <3>1. log' = Append(log, EventOf(r)) /\ log \in Seq(Event)
      BY <2>1 DEF Commit, Publish, TypeOK
    <3>2. EventOf(r).row.created \in commits'
      BY <2>1, <2>2, <2>3 DEF EventOf, WithoutSecrets, Row
    <3>3. \A i \in DOMAIN log : log[i].row.created \in commits'
      BY <2>3 DEF Numbers
    <3> QED
      BY <3>1, <3>2, <3>3
  <2>5. /\ \A id \in Ids : id # Id(r) => rows'[id] = rows[id]
        /\ rows'[Id(r)] \in {NoRow, tx[r].row}
    BY <1>1, <1>4 DEF Commit, Publish, TypeOK
  <2>6. \A id \in Ids : rows'[id] # NoRow => rows'[id].created \in commits'
    BY <2>2, <2>3, <2>5 DEF Numbers
  <2>7. reply'[r] \notin {"unchanged", "notfound", "invalid", "failed"}
    BY <1>4 DEF Commit, Answers, TypeOK
  <2> QED
    BY <1>1, <1>2, <2>1, <2>3, <2>4, <2>5, <2>6, <2>7, ReleaseRest
<1> QED
  BY <1>3, <1>4

----------------------------------------------------------------------------
(* The inductive invariant *)

\* The inductive invariant holds in the beginning.
LEMMA InitIInv == Init => IInv
<1> SUFFICES ASSUME Init PROVE IInv
  OBVIOUS
<1> USE ConstantsAssumption, NullsAssumption DEF Init
<1>1. TypeOK
  BY NoTxType DEF TypeOK, Statements, Replies
<1>2. \A r \in Requests : tx[r].row = NoRow /\ tx[r].event = NoEvent /\ ~tx[r].archived
                          /\ tx[r] = NoTx
  BY DEF NoTx
<1>3. Locking /\ Dispatch /\ Pending /\ Progress
  BY <1>2 DEF Locking, Dispatch, Pending, Progress, TxProgress, Statements
<1>4. Numbers /\ Answers /\ ReplyTellsOutcome
  BY DEF Numbers, Answers, ReplyTellsOutcome
<1> QED
  BY <1>1, <1>3, <1>4 DEF IInv

\* Every step preserves the inductive invariant.
LEMMA NextIInv == IInv /\ [Next]_vars => IInv'
<1> SUFFICES ASSUME IInv, [Next]_vars PROVE IInv'
  OBVIOUS
<1>1. TypeOK' /\ Dispatch'
  BY TypeStep, DispatchStep
<1>2. Rest'
  <2>1. CASE UNCHANGED vars
    <3>1. /\ Locking' /\ Numbers' /\ Answers' /\ ReplyTellsOutcome'
      BY <2>1 DEF vars, IInv, Locking, Numbers, Answers, ReplyTellsOutcome, Id
    <3>2. Progress' /\ Pending'
      BY <2>1 DEF vars, IInv, Progress, TxProgress, Pending, Changes, EventOf, Id, Gone, NoTx
    <3> QED
      BY <3>1, <3>2 DEF Rest
  <2>2. ASSUME NEW r \in Requests, Begin(r) PROVE Rest'
    BY <2>2, BeginRest
  <2>3. ASSUME NEW r \in Requests,
               \/ EnsureReal(r) \/ Fetch(r) \/ Compare(r)
               \/ Notify(r) \/ LockOld(r) \/ Clean(r) \/ Archive(r)
        PROVE  Rest'
    BY <2>3, ForwardRest
  <2>4. ASSUME NEW r \in Requests, Fail(r) PROVE Rest'
    BY <2>4, ReportRest DEF Fail
  <2>5. ASSUME NEW r \in Requests, Insert(r) PROVE Rest'
    <3>1. pc[r] = "insert" /\ pc[r] \in Statements /\ lock[Id(r)] = NoRequest
      BY <2>5 DEF Insert, At, Statements
    <3>2. NewRow(r) \in Row /\ NewRow(r).created = num[r] /\ ~NewRow(r).deleted
      BY <3>1, CallFacts, ConstantsAssumption DEF NewRow, Row, Object, IInv
    <3>3. call[r].op = "create"
      BY <3>1 DEF IInv, Dispatch
    <3> QED
      BY <2>5, <3>1, <3>2, <3>3, ReportRest, WrittenRest DEF Insert
  <2>6. ASSUME NEW r \in Requests, Write(r) PROVE Rest'
    <3>1. pc[r] = "write" /\ pc[r] \in Statements /\ object[r] \in Object
      BY <2>6 DEF Write, At, Statements, IInv, TypeOK
    <3>2. CASE rows[Id(r)] # NoRow
      <4> DEFINE row == [rows[Id(r)] EXCEPT !.finalizers = object[r].finalizers,
                                            !.data = object[r].data]
      <4>1. rows[Id(r)] \in Row
        BY <3>1, <3>2, CallFacts DEF IInv
      <4>2. row \in Row /\ row.finalizers = object[r].finalizers /\ row.data = object[r].data
        BY <3>1, <4>1 DEF Row, Object
      <4>3. row = [rows[Id(r)] EXCEPT !.finalizers = row.finalizers, !.data = row.data]
        BY <4>2, Zenon
      <4>4. call[r].op = "update" /\ lock[Id(r)] = NoRequest /\ Written(r, row)
        BY <2>6, <3>1, <3>2 DEF Write, IInv, Dispatch
      <4> HIDE DEF row
      <4> QED
        BY <3>1, <3>2, <4>2, <4>3, <4>4, WrittenRest
    <3>3. CASE rows[Id(r)] = NoRow
      BY <2>6, <3>1, <3>3, ReportRest DEF Write
    <3> QED
      BY <3>2, <3>3
  <2>7. ASSUME NEW r \in Requests, Mark(r) PROVE Rest'
    <3>1. pc[r] = "mark" /\ pc[r] \in Statements /\ call[r].op = "delete"
      BY <2>7 DEF Mark, At, Statements, IInv, Dispatch
    <3>2. CASE Found(r)
      <4> DEFINE row == [rows[Id(r)] EXCEPT !.deleted = TRUE]
      <4>1. rows[Id(r)] # NoRow /\ row \in Row
        BY <3>1, <3>2, CallFacts, RowUpdates DEF IInv, Found
      <4>2. lock[Id(r)] = NoRequest /\ Written(r, row)
        BY <2>7, <3>2 DEF Mark
      <4> QED
        BY <3>1, <4>1, <4>2, WrittenRest
    <3>3. CASE ~Found(r)
      BY <2>7, <3>1, <3>3, ReportRest DEF Mark
    <3> QED
      BY <3>2, <3>3
  <2>8. ASSUME NEW r \in Requests, Commit(r) PROVE Rest'
    BY <2>8, <1>1, CommitRest
  <2>9. ASSUME NEW r \in Requests, Rollback(r) \/ Abandon(r) PROVE Rest'
    BY <2>9, <1>1, RollbackRest
  <2>10. ASSUME NEW r \in Requests, DetectDeadlock(r) PROVE Rest'
    <3>1. pc[r] \in Statements
      BY <2>10 DEF DetectDeadlock, At, Statements
    <3> QED
      BY <2>10, <3>1, ReportRest DEF DetectDeadlock
  <2> QED
    BY <2>1, <2>2, <2>3, <2>4, <2>5, <2>6, <2>7, <2>8, <2>9, <2>10 DEF Next, Step, Quiet
<1> QED
  BY <1>1, <1>2 DEF IInv, Rest

(***************************************************************************)
(* The types and the inductive invariant hold in every behaviour.          *)
(***************************************************************************)
THEOREM ServerInvariant == Spec => []IInv
  BY InitIInv, NextIInv, PTL DEF Spec

(***************************************************************************)
(* Type correctness of the calls in flight.                                *)
(***************************************************************************)
THEOREM TypeCorrect == Spec => []TypeOK
<1>1. IInv => TypeOK
  BY DEF IInv
<1> QED
  BY <1>1, ServerInvariant, PTL

(***************************************************************************)
(* A client that gets an answer knows what happened to its call.           *)
(***************************************************************************)
THEOREM AnswersAreTrue == Spec => []ReplyTellsOutcome
<1>1. IInv => ReplyTellsOutcome
  BY DEF IInv
<1> QED
  BY <1>1, ServerInvariant, PTL

----------------------------------------------------------------------------
(* Refinement *)

\* A commit is a step of the store, or changes nothing.
LEMMA CommitIsStoreStep ==
  ASSUME IInv, NEW r \in Requests, Commit(r)
  PROVE  Store!Next \/ UNCHANGED Store!vars
<1> USE DEF IInv
<1>1. pc[r] # "idle" /\ Id(r) \in Ids
  BY CallFacts DEF Commit
<1>2. CASE tx[r].row = NoRow
  BY <1>2 DEF Commit, Publish, Progress, TxProgress, Store!vars
<1>3. CASE tx[r].row # NoRow
  <2> DEFINE row == tx[r].row
             type == EventType(call[r].op)
  <2>1. /\ tx[r].event = [type |-> type, id |-> Id(r), row |-> Store!Announced(row)]
        /\ tx[r].archived <=> Gone(row)
        /\ row \in Row
    BY <1>3 DEF Commit, Progress, TxProgress, EventOf, WithoutSecrets, Store!Announced, TypeOK,
                TxType
  <2>2. tx[r].event # NoEvent
    <3>1. tx[r].event = EventOf(r) /\ EventOf(r) \in Event
      BY <1>1, <1>3, <2>1, EventOfType DEF Commit, Progress, TxProgress
    <3> QED
      BY <3>1, NullsAssumption
  <2>3. Store!Apply(type, Id(r), row)
    BY <1>3, <2>1, <2>2 DEF Commit, Publish, Store!Apply, Store!Outcome, Store!Gone, Gone
  <2>4. CASE call[r].op = "create"
    <3>1. /\ type = "created" /\ rows[Id(r)] = NoRow
          /\ row.created = num[r] /\ ~row.deleted
      BY <2>4, <1>3 DEF Pending, Changes, EventType
    <3>2. row.created \notin Store!Used
      BY <3>1, <1>1 DEF Numbers, Store!Used
    <3>3. /\ row.created \in Stamps /\ row.finalizers \in SUBSET Finalizers
          /\ row.tenants \in SUBSET Tenants /\ row.data \in Data
          /\ row = [created |-> row.created, deleted |-> FALSE,
                    finalizers |-> row.finalizers, tenants |-> row.tenants,
                    data |-> row.data]
      BY <2>1, <3>1 DEF Row
    <3>4. Store!Create(Id(r), row.created, row.finalizers, row.tenants, row.data)
      BY <2>3, <3>1, <3>2, <3>3, Zenon DEF Store!Create
    <3> QED
      BY <3>3, <3>4, <1>1 DEF Store!Next, Data, Store!Data
  <2>5. CASE call[r].op = "update"
    <3>1. /\ type = "updated" /\ rows[Id(r)] # NoRow
          /\ row = [rows[Id(r)] EXCEPT !.finalizers = row.finalizers, !.data = row.data]
      BY <2>5, <1>3 DEF Pending, Changes, EventType
    <3>2. row.finalizers \in SUBSET Finalizers /\ row.data \in Data
      BY <2>1 DEF Row
    <3>3. Store!Update(Id(r), row.finalizers, row.data)
      BY <2>3, <3>1, Zenon DEF Store!Update
    <3> QED
      BY <3>2, <3>3, <1>1 DEF Store!Next, Data, Store!Data
  <2>6. CASE call[r].op = "delete"
    <3>1. /\ type = "deleted" /\ rows[Id(r)] # NoRow
          /\ row = [rows[Id(r)] EXCEPT !.deleted = TRUE]
      BY <2>6, <1>3 DEF Pending, Changes, EventType
    <3>2. Store!Delete(Id(r))
      BY <2>3, <3>1, Zenon DEF Store!Delete
    <3> QED
      BY <3>2, <1>1 DEF Store!Next
  <2> QED
    BY <2>4, <2>5, <2>6, <1>1, CallFacts
<1> QED
  BY <1>2, <1>3

(***************************************************************************)
(* The transactions implement the store: what the committed tables and     *)
(* the stream of events show is a sequence of atomic operations, however   *)
(* the statements of the calls interleave, fail or are abandoned.          *)
(***************************************************************************)
THEOREM Refinement == Spec => ImplementsStore
<1>1. Init => Store!Init
  BY DEF Init, Store!Init
<1>2. IInv /\ [Next]_vars => [Store!Next]_(Store!vars)
  <2> SUFFICES ASSUME IInv, [Next]_vars
               PROVE  Store!Next \/ UNCHANGED Store!vars
    OBVIOUS
  <2>1. ASSUME NEW r \in Requests, Commit(r)
        PROVE  Store!Next \/ UNCHANGED Store!vars
    BY <2>1, CommitIsStoreStep
  <2>2. CASE UNCHANGED <<rows, archived, log>>
    BY <2>2 DEF Store!vars
  <2>3. ASSUME NEW r \in Requests,
               \/ Begin(r) \/ EnsureReal(r) \/ Insert(r) \/ Fetch(r) \/ Compare(r)
               \/ Write(r) \/ Mark(r) \/ Notify(r) \/ LockOld(r) \/ DetectDeadlock(r)
               \/ Clean(r) \/ Archive(r) \/ Rollback(r) \/ Fail(r) \/ Abandon(r)
        PROVE  UNCHANGED <<rows, archived, log>>
    BY <2>3 DEF Begin, EnsureReal, Insert, Fetch, Compare, Write, Mark, Notify, BeginCleaning,
                LockOld, DetectDeadlock, Clean, Archive, Rollback, Fail, Abandon, Report,
                Written, database
  <2> QED
    BY <2>1, <2>2, <2>3 DEF Next, Step, Quiet, vars
<1> QED
  BY <1>1, <1>2, ServerInvariant, PTL DEF Spec, ImplementsStore, Store!Spec

StoreP ==
    INSTANCE ObjectStoreProofs WITH table <- rows, archive <- archived, Contents <- Values

\* The invariants of the store, for the tables of the server.
LEMMA StoreInvariants ==
  ImplementsStore => [](NoZombie /\ LogMatchesTable /\ LifeCycle /\ Conservation)
<1>1. NoRow \notin StoreP!Row /\ Secrets \subseteq Fields /\ Unset \in Values
  BY NullsAssumption, ConstantsAssumption DEF Row, Data, StoreP!Row, StoreP!Data
<1>2. Store!Init => StoreP!IInv
  BY <1>1, StoreP!InitIInv DEF StoreP!Init, Store!Init
<1>3. StoreP!IInv /\ [Store!Next]_(Store!vars) => StoreP!IInv'
  <2>1. [Store!Next]_(Store!vars) => [StoreP!Next]_(StoreP!vars)
    BY DEF Store!Next, Store!vars, Store!Create, Store!Update, Store!Delete, Store!Used,
           Store!Apply, Store!Gone, Store!Outcome, Store!Announced, Store!Data,
           StoreP!Next, StoreP!vars, StoreP!Create, StoreP!Update, StoreP!Delete,
           StoreP!Used, StoreP!Apply, StoreP!Gone, StoreP!Outcome, StoreP!Announced,
           StoreP!Data
  <2> QED
    BY <1>1, <2>1, StoreP!NextIInv
<1>4. StoreP!IInv => NoZombie /\ LogMatchesTable /\ LifeCycle /\ Conservation
  BY DEF StoreP!IInv, NoZombie, LogMatchesTable, LifeCycle, Conservation,
         Store!NoZombie, Store!LogMatchesTable, Store!LifeCycle, Store!Conservation,
         Store!Gone, Store!Tells, Store!Announced, StoreP!Tells, StoreP!Announced,
         StoreP!NoZombie, StoreP!LogMatchesTable, StoreP!LifeCycle, StoreP!Conservation,
         StoreP!Gone
<1> QED
  BY <1>2, <1>3, <1>4, PTL DEF ImplementsStore, Store!Spec

(***************************************************************************)
(* No row stays behind marked for deletion without finalizers.             *)
(***************************************************************************)
THEOREM NoZombies == Spec => []NoZombie
  BY Refinement, StoreInvariants, PTL

(***************************************************************************)
(* The last committed event of an object tells its committed row, but for  *)
(* the kubeconfig of a hub.                                                *)
(***************************************************************************)
THEOREM EventsTellTheTable == Spec => []LogMatchesTable
  BY Refinement, StoreInvariants, PTL

(***************************************************************************)
(* Every incarnation has an orderly life.                                  *)
(***************************************************************************)
THEOREM OrderlyLife == Spec => []LifeCycle
  BY Refinement, StoreInvariants, PTL

(***************************************************************************)
(* Every incarnation is live or archived, and archived at most once.       *)
(***************************************************************************)
THEOREM NothingLost == Spec => []Conservation
  BY Refinement, StoreInvariants, PTL
============================================================================
