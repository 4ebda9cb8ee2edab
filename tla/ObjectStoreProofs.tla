------------------------- MODULE ObjectStoreProofs -------------------------
(***************************************************************************)
(* The invariants of ObjectStore hold in every behaviour, for every value  *)
(* of the constants.                                                       *)
(***************************************************************************)
EXTENDS ObjectStore, TLAPS

(***************************************************************************)
(* The strengthening.  A live row is one of the rows announced for its     *)
(* identifier; what was announced of the same incarnation is older; an     *)
(* archived incarnation was announced.                                     *)
(***************************************************************************)
RowAnnounced ==
    \A id \in Ids :
        table[id] # NoRow =>
            \E i \in DOMAIN log : log[i].id = id /\ log[i].row = Announced(table[id])

LiveHistory ==
    \A id \in Ids : \A i \in DOMAIN log :
        (table[id] # NoRow /\ log[i].row.created = table[id].created)
            => /\ log[i].id = id
               /\ ~Gone(log[i].row)
               /\ log[i].row.deleted => table[id].deleted

ArchiveAnnounced ==
    \A k \in DOMAIN archive :
        \E i \in DOMAIN log : log[i].row.created = archive[k].row.created

(***************************************************************************)
(* The inductive invariant: the store is as its watchers believe it to be, *)
(* and the live row of an object continues the history that was announced  *)
(* for it (create, update and delete of GenericDAO).                       *)
(***************************************************************************)
IInv ==
    /\ TypeOK
    /\ NoZombie
    /\ LogMatchesTable
    /\ LifeCycle
    /\ Conservation
    /\ RowAnnounced
    /\ LiveHistory
    /\ ArchiveAnnounced

----------------------------------------------------------------------------

\* The empty store satisfies the inductive invariant.
LEMMA InitIInv == Init => IInv
  BY DEF Init, IInv, TypeOK, NoZombie, LogMatchesTable, LifeCycle, Conservation,
         RowAnnounced, LiveHistory, ArchiveAnnounced

\* What is announced of a row is a row, that differs in the secrets at most.
LEMMA AnnouncedRow ==
  ASSUME NEW row \in Row
  PROVE  /\ Announced(row) \in Row
         /\ Announced(row).created = row.created /\ Announced(row).deleted = row.deleted
         /\ Announced(row).finalizers = row.finalizers
         /\ Gone(Announced(row)) <=> Gone(row)
<1>1. \A f \in Fields : (IF f \in Secrets THEN Unset ELSE row.data[f]) \in Contents
  BY SecretsAssumption DEF Row, Data
<1> DEFINE shown == [f \in Fields |-> IF f \in Secrets THEN Unset ELSE row.data[f]]
<1>2. shown \in Data
  BY <1>1 DEF Data
<1>3. Announced(row) = [row EXCEPT !.data = shown]
  BY DEF Announced
<1> HIDE DEF shown
<1> QED
  BY <1>2, <1>3 DEF Row, Gone

\* What the three operations have in common: either a new incarnation is
\* announced, or the live one is announced again, no less deleted than it was.
Continues(type, id, row) ==
    \/ /\ table[id] = NoRow
       /\ row.created \notin Used
       /\ type = "created"
       /\ ~row.deleted
    \/ /\ table[id] # NoRow
       /\ row.created = table[id].created
       /\ table[id].deleted => row.deleted
       /\ type # "created"

\* Applying such an announcement preserves the inductive invariant.
LEMMA ApplyIInv ==
  ASSUME IInv,
         NEW type \in EventTypes, NEW id \in Ids, NEW row \in Row,
         Apply(type, id, row), Continues(type, id, row)
  PROVE  IInv'
<1> DEFINE e == [type |-> type, id |-> id, row |-> Announced(row)]
           n == Len(log)
           a == [id |-> id, row |-> row]
<1>1. /\ e \in Event
      /\ e.type = type /\ e.id = id /\ e.row = Announced(row)
      /\ e.row.created = row.created /\ e.row.deleted = row.deleted
      /\ Gone(e.row) <=> Gone(row)
      /\ a \in [id : Ids, row : Row] /\ a.row = row
  BY AnnouncedRow DEF Event
<1>2. /\ n \in Nat
      /\ DOMAIN log = 1..n
      /\ log' = Append(log, e)
      /\ log' \in Seq(Event)
      /\ DOMAIN log' = 1..(n+1)
      /\ \A i \in 1..n : log'[i] = log[i]
      /\ log'[n+1] = e
  BY <1>1 DEF IInv, TypeOK, Apply
<1>3. /\ table' \in [Ids -> Row \union {NoRow}]
      /\ \A x \in Ids : x # id => table'[x] = table[x]
      /\ table'[id] = Outcome(row)
      /\ table \in [Ids -> Row \union {NoRow}]
  BY DEF IInv, TypeOK, Apply, Outcome
<1>4. \/ /\ Gone(row)
         /\ archive' = Append(archive, a)
         /\ DOMAIN archive' = 1..(Len(archive)+1)
         /\ \A k \in 1..Len(archive) : archive'[k] = archive[k]
         /\ archive'[Len(archive)+1] = a
      \/ /\ ~Gone(row)
         /\ archive' = archive
  BY <1>1 DEF IInv, TypeOK, Apply
<1>5. Len(archive) \in Nat /\ DOMAIN archive = 1..Len(archive)
  BY DEF IInv, TypeOK
<1> HIDE DEF e, a
<1>6. TypeOK'
  <2>1. archive' \in Seq([id : Ids, row : Row])
    <3> DEFINE A == [id : Ids, row : Row]
    <3>1. archive \in Seq(A) /\ a \in A
      BY <1>1 DEF IInv, TypeOK
    <3> HIDE DEF A
    <3>2. archive' = archive \/ archive' = Append(archive, a)
      BY <1>4
    <3>3. archive' \in Seq(A)
      BY <3>1, <3>2
    <3> QED
      BY <3>3 DEF A
  <2> QED
    BY <1>2, <1>3, <2>1 DEF TypeOK
<1>7. Gone(row) <=> table'[id] = NoRow
  BY <1>3, NoRowAssumption DEF Outcome
<1>8. NoZombie'
  BY <1>3 DEF IInv, NoZombie, Outcome
<1>9. LogMatchesTable'
  <2>1. ASSUME NEW i \in 1..(n+1),
               \A j \in 1..(n+1) : j > i => log'[j].id # log'[i].id
        PROVE  Tells(log'[i], table'[log'[i].id])
    <3>1. CASE i = n+1
      BY <3>1, <1>1, <1>2, <1>3, NoRowAssumption DEF Tells, Outcome
    <3>2. CASE i \in 1..n
      <4>1. log'[i] = log[i] /\ log[i] \in Event /\ log[i].id # id
        BY <2>1, <3>2, <1>1, <1>2 DEF IInv, TypeOK
      <4>2. \A j \in 1..n : j > i => log[j].id # log[i].id
        BY <2>1, <3>2, <1>2
      <4>3. Tells(log[i], table[log[i].id])
        BY <3>2, <4>2, <1>2 DEF IInv, LogMatchesTable
      <4> QED
        BY <4>1, <4>3, <1>3 DEF Event
    <3> QED
      BY <3>1, <3>2, <1>2
  <2>2. ASSUME NEW x \in Ids, table'[x] # NoRow
        PROVE  \E i \in 1..(n+1) : log'[i].id = x
    BY <2>2, <1>1, <1>2, <1>3 DEF IInv, LogMatchesTable
  <2> QED
    <3>1. DOMAIN log' = 1..(n+1)
      BY <1>2
    <3>2. \A i \in DOMAIN log' :
              (\A j \in DOMAIN log' : j > i => log'[j].id # log'[i].id)
                  => Tells(log'[i], table'[log'[i].id])
      BY <2>1, <3>1, Zenon
    <3>3. \A x \in Ids : table'[x] # NoRow => \E i \in DOMAIN log' : log'[i].id = x
      BY <2>2, <3>1, Zenon
    <3> QED
      BY <3>2, <3>3 DEF LogMatchesTable, Tells, Gone, Announced
<1>10. RowAnnounced'
  BY <1>1, <1>2, <1>3 DEF IInv, RowAnnounced, Outcome
<1>11. ArchiveAnnounced'
  <2> SUFFICES ASSUME NEW k \in DOMAIN archive'
               PROVE  \E i \in 1..(n+1) : log'[i].row.created = archive'[k].row.created
    BY <1>2 DEF ArchiveAnnounced
  <2>1. CASE k \in DOMAIN archive /\ archive'[k] = archive[k]
    BY <2>1, <1>2 DEF IInv, ArchiveAnnounced
  <2>2. CASE archive'[k] = a
    BY <2>2, <1>1, <1>2
  <2> QED
    BY <2>1, <2>2, <1>4, <1>5
\* The earlier events of the incarnation that is announced:
<1>12. \A i \in 1..n : log[i].row.created = row.created
            => /\ table[id] # NoRow
               /\ type # "created"
               /\ log[i].id = id
               /\ ~Gone(log[i].row)
               /\ log[i].row.deleted => row.deleted
  BY <1>2 DEF IInv, LiveHistory, Continues, Used
<1>13. LifeCycle'
  BY <1>1, <1>2, <1>12 DEF IInv, LifeCycle
\* No other live row belongs to the incarnation that is announced:
<1>14. \A x \in Ids : table[x] # NoRow =>
           \E i \in 1..n : log[i].id = x /\ log[i].row.created = table[x].created
  <2> SUFFICES ASSUME NEW x \in Ids, table[x] # NoRow
               PROVE  \E i \in 1..n : log[i].id = x /\ log[i].row.created = table[x].created
    OBVIOUS
  <2>1. table[x] \in Row
    BY <1>3
  <2>2. PICK i \in 1..n : log[i].id = x /\ log[i].row = Announced(table[x])
    BY <1>2 DEF IInv, RowAnnounced
  <2> QED
    BY <2>1, <2>2, AnnouncedRow
<1>15. \A x \in Ids : (x # id /\ table[x] # NoRow) => table[x].created # row.created
  BY <1>12, <1>14
<1>16. LiveHistory'
  <2> SUFFICES ASSUME NEW x \in Ids, NEW i \in 1..(n+1), table'[x] # NoRow,
                      log'[i].row.created = table'[x].created
               PROVE  /\ log'[i].id = x
                      /\ ~Gone(log'[i].row)
                      /\ log'[i].row.deleted => table'[x].deleted
    BY <1>2 DEF LiveHistory, Gone
  <2>1. CASE x = id
    <3>1. table'[x] = row /\ ~Gone(row)
      BY <1>3, <1>7, <2>1 DEF Outcome
    <3> QED
      BY <1>1, <1>2, <1>12, <2>1, <3>1
  <2>2. CASE x # id
    <3>1. table'[x] = table[x] /\ table[x].created # row.created
      BY <1>3, <1>15, <2>2
    <3>2. i \in 1..n /\ log'[i] = log[i]
      BY <1>1, <1>2, <3>1
    <3> QED
      BY <1>2, <3>1, <3>2 DEF IInv, LiveHistory
  <2> QED
    BY <2>1, <2>2
\* The incarnation that is announced isn't archived yet:
<1>17. \A k \in DOMAIN archive : archive[k].row.created # row.created
  <2>1. CASE row.created \notin Used
    BY <2>1, <1>2 DEF IInv, ArchiveAnnounced, Used
  <2>2. CASE table[id] # NoRow /\ row.created = table[id].created
    BY <2>2, <1>2, <1>14 DEF IInv, Conservation
  <2> QED
    BY <2>1, <2>2 DEF Continues
<1>18. Conservation'
  <2>1. \A i, j \in DOMAIN archive' :
            archive'[i].row.created = archive'[j].row.created => i = j
    BY <1>1, <1>4, <1>5, <1>17 DEF IInv, Conservation
  <2>2. ASSUME NEW i \in 1..(n+1)
        PROVE  ~ ((\E x \in Ids : /\ table'[x] # NoRow
                                  /\ table'[x].created = log'[i].row.created)
                  <=> (\E k \in DOMAIN archive' :
                           archive'[k].row.created = log'[i].row.created))
    <3>1. CASE log'[i].row.created = row.created
      BY <3>1, <1>1, <1>3, <1>4, <1>5, <1>7, <1>15, <1>17 DEF Outcome
    <3>2. CASE log'[i].row.created # row.created
      <4>1. i \in 1..n /\ log'[i] = log[i]
        BY <3>2, <1>1, <1>2
      <4>2. (\E x \in Ids : /\ table'[x] # NoRow
                            /\ table'[x].created = log[i].row.created)
            <=> (\E x \in Ids : /\ table[x] # NoRow
                                /\ table[x].created = log[i].row.created)
        <5>1. table[id] # NoRow => table[id].created # log[i].row.created
          BY <3>2, <4>1 DEF Continues
        <5>2. table'[id] # NoRow => table'[id].created # log[i].row.created
          BY <1>3, <3>2, <4>1 DEF Outcome
        <5> QED
          BY <1>3, <5>1, <5>2
      <4>3. (\E k \in DOMAIN archive' : archive'[k].row.created = log[i].row.created)
            <=> (\E k \in DOMAIN archive : archive[k].row.created = log[i].row.created)
        <5>1. row.created # log[i].row.created
          BY <3>2, <4>1
        <5>2. CASE archive' = archive
          BY <5>2
        <5>3. CASE archive' # archive
          BY <1>1, <1>4, <1>5, <5>1, <5>3
        <5> QED
          BY <5>2, <5>3
      <4> QED
        BY <4>1, <4>2, <4>3, <1>2 DEF IInv, Conservation
    <3> QED
      BY <3>1, <3>2
  <2> QED
    BY <2>1, <2>2, <1>2 DEF Conservation
<1> QED
  BY <1>6, <1>8, <1>9, <1>10, <1>11, <1>13, <1>16, <1>18 DEF IInv

\* Every step of the store preserves the inductive invariant.
LEMMA NextIInv == IInv /\ [Next]_vars => IInv'
<1> SUFFICES ASSUME IInv, [Next]_vars PROVE IInv'
  OBVIOUS
<1>1. CASE UNCHANGED vars
  BY <1>1 DEF vars, IInv, TypeOK, NoZombie, LogMatchesTable, LifeCycle, Conservation,
              RowAnnounced, LiveHistory, ArchiveAnnounced
<1>2. ASSUME NEW id \in Ids, NEW stamp \in Stamps, NEW finalizers \in SUBSET Finalizers,
             NEW tenants \in SUBSET Tenants, NEW data \in Data,
             Create(id, stamp, finalizers, tenants, data)
      PROVE  IInv'
  <2> DEFINE row == [created |-> stamp, deleted |-> FALSE, finalizers |-> finalizers,
                     tenants |-> tenants, data |-> data]
  <2>1. row \in Row /\ row.created = stamp /\ ~row.deleted
    BY DEF Row
  <2>2. Apply("created", id, row) /\ Continues("created", id, row)
    BY <1>2, <2>1 DEF Create, Continues
  <2> QED
    BY <2>1, <2>2, ApplyIInv DEF EventTypes
<1>3. ASSUME NEW id \in Ids, NEW finalizers \in SUBSET Finalizers, NEW data \in Data,
             Update(id, finalizers, data)
      PROVE  IInv'
  <2> DEFINE row == [table[id] EXCEPT !.finalizers = finalizers, !.data = data]
  <2>1. table[id] \in Row
    BY <1>3 DEF Update, IInv, TypeOK
  <2>2. /\ row \in Row
        /\ row.created = table[id].created /\ row.deleted = table[id].deleted
    BY <2>1 DEF Row
  <2>3. Apply("updated", id, row) /\ Continues("updated", id, row)
    BY <1>3, <2>2 DEF Update, Continues
  <2> QED
    BY <2>2, <2>3, ApplyIInv DEF EventTypes
<1>4. ASSUME NEW id \in Ids, Delete(id)
      PROVE  IInv'
  <2> DEFINE row == [table[id] EXCEPT !.deleted = TRUE]
  <2>1. table[id] \in Row
    BY <1>4 DEF Delete, IInv, TypeOK
  <2>2. row \in Row /\ row.created = table[id].created /\ row.deleted
    BY <2>1 DEF Row
  <2>3. Apply("deleted", id, row) /\ Continues("deleted", id, row)
    BY <1>4, <2>2 DEF Delete, Continues
  <2> QED
    BY <2>2, <2>3, ApplyIInv DEF EventTypes
<1> QED
  BY <1>1, <1>2, <1>3, <1>4 DEF Next

(***************************************************************************)
(* The inductive invariant holds in every behaviour of the store.          *)
(***************************************************************************)
THEOREM StoreInvariant == Spec => []IInv
  BY InitIInv, NextIInv, PTL DEF Spec

(***************************************************************************)
(* The store keeps its promises: no row stays behind, the log matches the  *)
(* table, every incarnation has an orderly life and none is lost.          *)
(***************************************************************************)
THEOREM StoreCorrect ==
  Spec => [](TypeOK /\ NoZombie /\ LogMatchesTable /\ LifeCycle /\ Conservation)
<1>1. IInv => TypeOK /\ NoZombie /\ LogMatchesTable /\ LifeCycle /\ Conservation
  BY DEF IInv
<1> QED
  BY <1>1, StoreInvariant, PTL
============================================================================
