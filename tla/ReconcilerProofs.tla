-------------------------- MODULE ReconcilerProofs --------------------------
(***************************************************************************)
(* What a reconciler does to the hubs, proved for any objects, hubs,       *)
(* namespaces and kinds of objects, and any number of changes, faults and  *)
(* restarts.                                                               *)
(***************************************************************************)
EXTENDS Reconciler, SequenceTheorems, TLAPS

\* The objects of the queues and of the stream.
Moving == ({stream[i] : i \in 1..Len(stream)} \ {HubCreated}) \union wqueue \union squeue

\* The hub in the status of a host is that of its host pool; nothing else
\* refers to a host pool.
OfItsKind(object) ==
    IF kind = "host" THEN object.hub \in {NoHub, InPool}
    ELSE object.hub \in Hubs \union {NoHub}

\* What a stale object says of its hub may be written back: the Kubernetes
\* object is there, or nobody writes the object any more.
Trusted(id, object) ==
    \/ table[id] = Archived
    \/ object.hub \in Hubs => HasOrder(object.hub, id)

TableTrusted ==
    \A id \in Ids : Live(id) => OfItsKind(table[id]) /\ Trusted(id, table[id])

MovingTrusted ==
    \A item \in Moving :
        /\ OfItsKind(item.object)
        /\ Trusted(item.id, item.object)
        /\ item.deleted => table[item.id] = Archived

\* While the function works with a hub, the object has it already.
TaskTrusted ==
    rpc # "wait" =>
        /\ OfItsKind(task.object)
        /\ task.deleted => table[task.id] = Archived
        /\ rpc # "kube" => Trusted(task.id, task.object)
        /\ rpc = "kube" =>
               /\ task.hub \in Hubs
               /\ kind = "host" \/ task.deleted \/ task.object.hub = task.hub

Trust == TableTrusted /\ MovingTrusted /\ TaskTrusted

IInv == TypeOK /\ Trust /\ OneOrderPerNamespace

----------------------------------------------------------------------------
(* Types. *)

TypesOfTable == [Ids -> Object \union {NoObject, Archived}]

TaskTyped ==
    /\ rpc \in {"wait", "begin", "kube", "save"}
    /\ IF rpc = "wait" THEN task = NoTask
       ELSE /\ task \in [id : Ids, object : Object, deleted : BOOLEAN,
                         hub : Hubs \union {NoHub}]
            /\ rpc = "kube" => cache[task.hub] # NoEntry
    /\ cache \in [Hubs -> Configuration \union {NoEntry}]

QueuesTyped ==
    /\ stream \in Seq(Item \union {HubCreated})
    /\ wqueue \union squeue \subseteq Item
    /\ wpc \in {"down", "recv", "send"}
    /\ wpc = "send" <=> wqueue # {}

ServerTyped ==
    /\ kind \in Kinds
    /\ others \subseteq Others
    /\ table \in TypesOfTable
    /\ hubs \subseteq Hubs
    /\ config \in [Hubs -> Configuration]
    /\ pool \in Hubs \union {NoHub}
    /\ template \in BOOLEAN

KubeTyped == kube \in [Places -> [Ids -> Seq(Specs)]]

Counted == changes \in 0..MaxChanges /\ faults \in 0..MaxFaults

(***************************************************************************)
(* The types of the server, the queues, the function, and the hubs.        *)
(***************************************************************************)
LEMMA TypeParts ==
    TypeOK <=> ServerTyped /\ QueuesTyped /\ TaskTyped /\ KubeTyped /\ Counted
  BY DEF TypeOK, ServerTyped, QueuesTyped, TaskTyped, KubeTyped, Counted, TypesOfTable

LEMMA NextParts ==
    ServerTyped' /\ QueuesTyped' /\ TaskTyped' /\ KubeTyped' /\ Counted' => TypeOK'
  BY DEF TypeOK, ServerTyped, QueuesTyped, TaskTyped, KubeTyped, Counted, TypesOfTable

(***************************************************************************)
(* A fault, and a change of a user or of an operator, is within the bound. *)
(***************************************************************************)
LEMMA FaultCounted ==
    ASSUME Counted, Fault
    PROVE  faults' \in 0..MaxFaults
  BY ReconcilerAssumption, SMT DEF Counted, Fault

LEMMA ChangeTyped ==
    ASSUME TypeOK, Change
    PROVE  TaskTyped' /\ KubeTyped' /\ Counted' /\ UNCHANGED <<fixed, wqueue, squeue, wpc>>
<1>1. UNCHANGED <<kind, others, kube, wpc, wqueue, squeue, rpc, task, cache, faults>>
  BY DEF Change, fixed
<1>2. changes' \in 0..MaxChanges
  BY ReconcilerAssumption, SMT DEF TypeOK, Change
<1>3. TaskTyped' /\ KubeTyped'
  BY <1>1, TypeParts DEF TaskTyped, KubeTyped
<1> QED
  BY <1>1, <1>2, <1>3 DEF TypeOK, Counted, fixed

(***************************************************************************)
(* What the server announces is of the type of the stream.                 *)
(***************************************************************************)
LEMMA AnnounceTyped ==
    ASSUME QueuesTyped, NEW event \in Item \union {HubCreated}, Announce(event)
    PROVE  stream' \in Seq(Item \union {HubCreated})
<1>1. Append(stream, event) \in Seq(Item \union {HubCreated})
  BY AppendProperties DEF QueuesTyped
<1> QED
  BY <1>1 DEF Announce, QueuesTyped

LEMMA PutTyped ==
    ASSUME TypeOK, NEW id \in Ids, NEW object \in Object, Put(id, object)
    PROVE  table' \in TypesOfTable /\ stream' \in Seq(Item \union {HubCreated})
<1>1. table' \in TypesOfTable
  BY TypeParts DEF ServerTyped, TypesOfTable, Put
<1>2. [id |-> id, object |-> object, deleted |-> FALSE] \in Item
  BY DEF Item
<1> QED
  BY <1>1, <1>2, TypeParts, AnnounceTyped DEF Put

\* Objects that are written.
LEMMA FreshTyped ==
    ASSUME NEW spec \in Specs
    PROVE  Fresh(spec) \in Object
  BY DEF Fresh, Object, States

LEMMA UpdateTyped ==
    ASSUME NEW object \in Object, NEW spec \in Specs
    PROVE  AfterUserUpdate(object, spec) \subseteq Object
  BY DEF AfterUserUpdate, Object, States

LEMMA DefaultsTyped ==
    ASSUME NEW object \in Object
    PROVE  SetDefaults(object) \in Object /\ SetDefaults(object).hub = object.hub
  BY DEF SetDefaults, Object, States

LEMMA LiveTyped ==
    ASSUME TypeOK, NEW id \in Ids, Live(id)
    PROVE  table[id] \in Object
  BY DEF TypeOK, Live

(***************************************************************************)
(* What the list request returns is of the type of the queues.             *)
(***************************************************************************)
LEMMA PageTyped ==
    ASSUME TypeOK
    PROVE  FirstPage \subseteq Item /\ \A item \in FirstPage :
               Live(item.id) /\ item.object = table[item.id] /\ ~item.deleted
<1> SUFFICES ASSUME NEW item \in FirstPage
             PROVE  /\ item \in Item
                    /\ Live(item.id) /\ item.object = table[item.id] /\ ~item.deleted
  OBVIOUS
<1>1. PICK id \in Ids : /\ id \in Listed({i \in Ids : Live(i)} \union others)
                        /\ item = [id |-> id, object |-> table[id], deleted |-> FALSE]
  BY DEF FirstPage
<1>2. id \in {i \in Ids : Live(i)} \union others
  BY <1>1 DEF Listed, Page
<1>3. Live(id)
  BY <1>2, ReconcilerAssumption DEF TypeOK
<1>4. table[id] \in Object
  BY <1>3, LiveTyped
<1> QED
  BY <1>1, <1>3, <1>4 DEF Item

(***************************************************************************)
(* The function chooses hubs, never a host pool.                           *)
(***************************************************************************)
LEMMA ChoicesAreHubs ==
    ASSUME TypeOK, TaskTrusted, rpc = "begin", ~NoWork
    PROVE  HubChoices \subseteq Hubs
<1>1. OfItsKind(task.object)
  BY DEF TaskTrusted
<1>2. PoolHub(task.object) \subseteq Hubs
  BY DEF PoolHub, TypeOK
<1>3. Listed(hubs) \subseteq Hubs
  BY DEF Listed, Page, TypeOK
<1> QED
  BY <1>1, <1>2, <1>3 DEF HubChoices, OfItsKind

(***************************************************************************)
(* The client of the hub comes from the cache, and the namespace too.      *)
(***************************************************************************)
LEMMA PlaceTyped ==
    ASSUME TypeOK, TaskTrusted, rpc = "kube"
    PROVE  Place \in Places
<1>1. task.hub \in Hubs /\ cache[task.hub] # NoEntry
  BY DEF TypeOK, TaskTrusted
<1>2. cache[task.hub] \in Configuration
  BY <1>1 DEF TypeOK
<1> QED
  BY <1>1, <1>2 DEF Place, Places, Configuration

----------------------------------------------------------------------------
(* Each step keeps the types. *)

LEMMA EnvironmentTyped ==
    ASSUME TypeOK, Environment
    PROVE  TypeOK'
<1> SUFFICES Change /\ ServerTyped' /\ stream' \in Seq(Item \union {HubCreated})
  <2> SUFFICES ASSUME Change, ServerTyped', stream' \in Seq(Item \union {HubCreated})
               PROVE  TypeOK'
    OBVIOUS
  <2>1. TaskTyped' /\ KubeTyped' /\ Counted' /\ UNCHANGED <<wqueue, squeue, wpc>>
    BY ChangeTyped
  <2>2. QueuesTyped'
    BY <2>1, TypeParts DEF QueuesTyped
  <2> QED
    BY <2>1, <2>2, NextParts
<1>1. /\ kind \in Kinds /\ others \subseteq Others /\ table \in TypesOfTable
      /\ hubs \subseteq Hubs /\ config \in [Hubs -> Configuration]
      /\ pool \in Hubs \union {NoHub} /\ template \in BOOLEAN
      /\ stream \in Seq(Item \union {HubCreated}) /\ QueuesTyped
  BY TypeParts DEF ServerTyped, QueuesTyped
<1>2. Change => kind' = kind /\ others' = others
  BY DEF Change, fixed
<1>3. ASSUME NEW id \in Ids, NEW spec \in Specs, UserCreate(id, spec)
      PROVE  Change /\ ServerTyped' /\ stream' \in Seq(Item \union {HubCreated})
  <2>1. Change /\ Put(id, Fresh(spec)) /\ UNCHANGED <<hubs, config, pool, template>>
    BY <1>3 DEF UserCreate
  <2>2. table' \in TypesOfTable /\ stream' \in Seq(Item \union {HubCreated})
    BY <2>1, FreshTyped, PutTyped
  <2> QED
    BY <1>1, <1>2, <2>1, <2>2 DEF ServerTyped
<1>4. ASSUME NEW id \in Ids, NEW spec \in Specs, UserUpdate(id, spec)
      PROVE  Change /\ ServerTyped' /\ stream' \in Seq(Item \union {HubCreated})
  <2>1. /\ Change /\ UNCHANGED <<hubs, config, pool, template>> /\ Live(id)
        /\ \E object \in AfterUserUpdate(table[id], spec) : Put(id, object)
    BY <1>4 DEF UserUpdate
  <2>2. AfterUserUpdate(table[id], spec) \subseteq Object
    BY <2>1, LiveTyped, UpdateTyped
  <2>3. table' \in TypesOfTable /\ stream' \in Seq(Item \union {HubCreated})
    BY <2>1, <2>2, PutTyped
  <2> QED
    BY <1>1, <1>2, <2>1, <2>3 DEF ServerTyped
<1>5. ASSUME NEW id \in Ids, UserDelete(id)
      PROVE  Change /\ ServerTyped' /\ stream' \in Seq(Item \union {HubCreated})
  <2>1. /\ Change /\ UNCHANGED <<hubs, config, pool, template>> /\ Live(id)
        /\ table' = [table EXCEPT ![id] = Archived]
        /\ Announce([id |-> id, object |-> table[id], deleted |-> TRUE])
    BY <1>5 DEF UserDelete
  <2>2. table' \in TypesOfTable
    BY <1>1, <2>1 DEF TypesOfTable
  <2>3. [id |-> id, object |-> table[id], deleted |-> TRUE] \in Item
    BY <2>1, LiveTyped DEF Item
  <2>4. stream' \in Seq(Item \union {HubCreated})
    BY <1>1, <2>1, <2>3, AnnounceTyped
  <2> QED
    BY <1>1, <1>2, <2>1, <2>2, <2>4 DEF ServerTyped
<1>6. ASSUME NEW id \in Ids, Feedback(id)
      PROVE  Change /\ ServerTyped' /\ stream' \in Seq(Item \union {HubCreated})
  <2>1. /\ Change /\ UNCHANGED <<hubs, config, pool, template>> /\ Live(id)
        /\ Put(id, [table[id] EXCEPT !.state = "final"])
    BY <1>6 DEF Feedback
  <2>2. [table[id] EXCEPT !.state = "final"] \in Object
    BY <2>1, LiveTyped DEF Object, States
  <2>3. table' \in TypesOfTable /\ stream' \in Seq(Item \union {HubCreated})
    BY <2>1, <2>2, PutTyped
  <2> QED
    BY <1>1, <1>2, <2>1, <2>3 DEF ServerTyped
<1>7. ASSUME NEW h \in Hubs, RegisterHub(h)
      PROVE  Change /\ ServerTyped' /\ stream' \in Seq(Item \union {HubCreated})
  <2>1. stream' \in Seq(Item \union {HubCreated})
    BY <1>1, <1>7, AnnounceTyped DEF RegisterHub
  <2> QED
    BY <1>1, <1>2, <1>7, <2>1 DEF RegisterHub, ServerTyped
<1>8. ASSUME NEW h \in Hubs, UpdateHub(h)
      PROVE  Change /\ ServerTyped' /\ stream' \in Seq(Item \union {HubCreated})
  <2>1. config' \in [Hubs -> Configuration]
    BY <1>1, <1>8 DEF UpdateHub
  <2> QED
    BY <1>1, <1>2, <1>8, <2>1 DEF UpdateHub, ServerTyped
<1>9. ASSUME NEW h \in Hubs, RemoveHub(h)
      PROVE  Change /\ ServerTyped' /\ stream' \in Seq(Item \union {HubCreated})
  BY <1>1, <1>2, <1>9 DEF RemoveHub, ServerTyped
<1>10. ASSUME ChangePool
       PROVE  Change /\ ServerTyped' /\ stream' \in Seq(Item \union {HubCreated})
  BY <1>1, <1>2, <1>10 DEF ChangePool, ServerTyped
<1>11. ASSUME RemoveTemplate
       PROVE  Change /\ ServerTyped' /\ stream' \in Seq(Item \union {HubCreated})
  BY <1>1, <1>2, <1>11 DEF RemoveTemplate, ServerTyped
<1> QED
  BY <1>3, <1>4, <1>5, <1>6, <1>7, <1>8, <1>9, <1>10, <1>11 DEF Environment

LEMMA LoopsTyped ==
    ASSUME TypeOK,
           \/ WatchStart \/ WatchRecv \/ SyncList \/ WatchBreak
           \/ ReceiveFromWatch \/ ReceiveFromSync
    PROVE  TypeOK'
<1>1. ServerTyped /\ QueuesTyped /\ TaskTyped /\ KubeTyped /\ Counted
  BY TypeParts
<1>2. UNCHANGED <<fixed, server, kube, cache, changes>>
  BY DEF WatchStart, WatchRecv, SyncList, WatchBreak, ReceiveFromWatch, ReceiveFromSync
<1>3. ServerTyped' /\ KubeTyped'
  BY <1>1, <1>2 DEF ServerTyped, KubeTyped, fixed, server
<1>4. faults' = faults \/ faults' \in 0..MaxFaults
  BY <1>1, FaultCounted
     DEF WatchStart, WatchRecv, SyncList, WatchBreak, ReceiveFromWatch, ReceiveFromSync
<1>5. Counted'
  BY <1>1, <1>2, <1>4 DEF Counted
<1>6. <<>> \in Seq(Item \union {HubCreated})
  BY EmptySeq
<1>7. QueuesTyped'
  <2>1. CASE WatchStart
    BY <1>1, <1>6, <2>1 DEF WatchStart, QueuesTyped
  <2>2. CASE WatchBreak
    BY <1>1, <1>6, <2>2 DEF WatchBreak, QueuesTyped
  <2>3. CASE WatchRecv
    <3>1. /\ Tail(stream) \in Seq(Item \union {HubCreated})
          /\ Head(stream) \in Item \union {HubCreated}
      BY <1>1, <2>3, HeadTailProperties DEF WatchRecv, QueuesTyped
    <3>2. wqueue' \subseteq Item
      BY <2>3, <3>1, PageTyped DEF WatchRecv
    <3>3. wpc' = IF wqueue' = {} THEN "recv" ELSE "send"
      BY <2>3 DEF WatchRecv
    <3>4. stream' = Tail(stream) /\ squeue' = squeue
      BY <2>3 DEF WatchRecv
    <3> QED
      BY <1>1, <3>1, <3>2, <3>3, <3>4 DEF QueuesTyped
  <2>4. CASE SyncList
    BY <1>1, <2>4, PageTyped DEF SyncList, QueuesTyped
  <2>5. CASE ReceiveFromWatch
    <3>1. wqueue' \subseteq wqueue /\ UNCHANGED <<stream, squeue>>
      BY <2>5 DEF ReceiveFromWatch
    <3>2. wpc' = IF wqueue' = {} THEN "recv" ELSE "send"
      BY <2>5 DEF ReceiveFromWatch
    <3> QED
      BY <1>1, <3>1, <3>2 DEF QueuesTyped
  <2>6. CASE ReceiveFromSync
    <3>1. squeue' \subseteq squeue /\ UNCHANGED <<stream, wpc, wqueue>>
      BY <2>6 DEF ReceiveFromSync
    <3> QED
      BY <1>1, <3>1 DEF QueuesTyped
  <2> QED
    BY <2>1, <2>2, <2>3, <2>4, <2>5, <2>6
<1>8. TaskTyped'
  <2>1. CASE UNCHANGED <<rpc, task>>
    BY <1>1, <1>2, <2>1 DEF TaskTyped
  <2>2. CASE \E item \in wqueue \union squeue :
                 /\ rpc' = "begin"
                 /\ task' = [id |-> item.id, object |-> item.object,
                             deleted |-> item.deleted, hub |-> NoHub]
    BY <1>1, <1>2, <2>2 DEF TaskTyped, QueuesTyped, Item
  <2> QED
    BY <2>1, <2>2 DEF WatchStart, WatchRecv, SyncList, WatchBreak,
                      ReceiveFromWatch, ReceiveFromSync, Call
<1> QED
  BY <1>3, <1>5, <1>7, <1>8, NextParts

LEMMA FunctionTyped ==
    ASSUME TypeOK, TaskTrusted, Skip \/ SelectHub \/ NoHubs \/ Kube \/ KubeRefused \/ KubeFails
    PROVE  TypeOK'
<1>1. ServerTyped /\ QueuesTyped /\ TaskTyped /\ KubeTyped /\ Counted
  BY TypeParts
<1>2. UNCHANGED <<fixed, server, stream, wpc, wqueue, squeue, changes>>
  BY DEF Skip, SelectHub, NoHubs, Kube, KubeRefused, KubeFails
<1>3. ServerTyped' /\ QueuesTyped'
  BY <1>1, <1>2 DEF ServerTyped, QueuesTyped, fixed, server
<1>4. faults' = faults \/ faults' \in 0..MaxFaults
  BY <1>1, FaultCounted DEF Skip, SelectHub, NoHubs, Kube, KubeRefused, KubeFails
<1>5. Counted'
  BY <1>1, <1>2, <1>4 DEF Counted
<1>6. rpc = "kube" => Place \in Places /\ task.id \in Ids /\ Applied \in Seq(Specs)
  <2> SUFFICES ASSUME rpc = "kube"
               PROVE  Place \in Places /\ task.id \in Ids /\ Applied \in Seq(Specs)
    OBVIOUS
  <2>1. Place \in Places
    BY PlaceTyped
  <2>2. task.id \in Ids /\ task.object.spec \in Specs
    BY <1>1 DEF TaskTyped, Object
  <2>3. <<>> \in Seq(Specs) /\ <<task.object.spec>> \in Seq(Specs)
    BY <2>2, EmptySeq
  <2> QED
    BY <2>1, <2>2, <2>3 DEF Applied
<1>7. \/ UNCHANGED kube
      \/ rpc = "kube" /\ kube' = [kube EXCEPT ![Place][task.id] = Applied]
  BY DEF Skip, SelectHub, NoHubs, Kube, KubeRefused, KubeFails
<1>8. KubeTyped'
  <2>1. CASE UNCHANGED kube
    BY <1>1, <2>1 DEF KubeTyped
  <2>2. CASE rpc = "kube" /\ kube' = [kube EXCEPT ![Place][task.id] = Applied]
    <3>1. [kube[Place] EXCEPT ![task.id] = Applied] \in [Ids -> Seq(Specs)]
      BY <1>1, <1>6, <2>2 DEF KubeTyped
    <3>2. kube' = [kube EXCEPT ![Place] = [kube[Place] EXCEPT ![task.id] = Applied]]
      BY <2>2
    <3> QED
      BY <1>1, <3>1, <3>2 DEF KubeTyped
  <2> QED
    BY <1>7, <2>1, <2>2
<1>9. TaskTyped'
  <2>1. rpc # "wait" => task \in [id : Ids, object : Object, deleted : BOOLEAN,
                                  hub : Hubs \union {NoHub}]
    BY <1>1 DEF TaskTyped
  <2>2. rpc # "wait" => Defaulted \in Object
    BY <2>1, DefaultsTyped DEF Defaulted
  <2>3. CASE Skip
    <3>1. rpc = "begin" /\ rpc' = "save" /\ cache' = cache
          /\ task' = [task EXCEPT !.object = Defaulted]
      BY <2>3 DEF Skip
    <3> QED
      BY <1>1, <2>1, <2>2, <3>1 DEF TaskTyped
  <2>4. CASE SelectHub
    <3>1. rpc = "begin" /\ ~NoWork /\ rpc' = "kube"
      BY <2>4 DEF SelectHub
    <3>2. HubChoices \subseteq Hubs
      BY <3>1, ChoicesAreHubs
    <3>3. PICK h \in Reachable :
             /\ cache' = [cache EXCEPT ![h] = IF @ = NoEntry THEN config[h] ELSE @]
             /\ task' = [task EXCEPT
                             !.hub = h,
                             !.object = IF task.deleted \/ kind = "host" THEN Defaulted
                                        ELSE [Defaulted EXCEPT !.hub = h]]
      BY <2>4 DEF SelectHub
    <3>4. h \in Hubs
      BY <3>2 DEF Reachable
    <3>5. config[h] \in Configuration /\ cache \in [Hubs -> Configuration \union {NoEntry}]
      BY <1>1, <3>4 DEF ServerTyped, TaskTyped
    <3>6. cache' \in [Hubs -> Configuration \union {NoEntry}] /\ cache'[h] # NoEntry
      BY <3>3, <3>4, <3>5, ReconcilerAssumption
    <3>7. [Defaulted EXCEPT !.hub = h] \in Object
      BY <2>2, <3>1, <3>4 DEF Object
    <3>8. /\ task' \in [id : Ids, object : Object, deleted : BOOLEAN, hub : Hubs \union {NoHub}]
          /\ task'.hub = h
      BY <2>1, <2>2, <3>1, <3>3, <3>4, <3>7
    <3> QED
      BY <3>1, <3>6, <3>8 DEF TaskTyped
  <2>5. CASE Kube
    BY <1>1, <2>5 DEF Kube, TaskTyped
  <2>6. CASE NoHubs \/ KubeRefused \/ KubeFails
    BY <1>1, <2>6 DEF NoHubs, KubeRefused, KubeFails, Return, TaskTyped
  <2> QED
    BY <2>3, <2>4, <2>5, <2>6
<1> QED
  BY <1>3, <1>5, <1>8, <1>9, NextParts

LEMMA SaveTyped ==
    ASSUME TypeOK, Save \/ SaveFails
    PROVE  TypeOK'
<1>1. ServerTyped /\ QueuesTyped /\ TaskTyped /\ KubeTyped /\ Counted
  BY TypeParts
<1>2. UNCHANGED <<fixed, hubs, config, pool, template, kube, wpc, wqueue, squeue, cache, changes>>
  BY DEF Save, SaveFails, server
<1>3. rpc = "save" /\ Return
  BY DEF Save, SaveFails
<1>4. table' \in TypesOfTable /\ stream' \in Seq(Item \union {HubCreated})
  <2>1. task.id \in Ids /\ task.object \in Object
    BY <1>1, <1>3 DEF TaskTyped
  <2>2. UNCHANGED <<table, stream>> \/ Put(task.id, task.object)
    BY DEF Save, SaveFails, server
  <2>3. CASE UNCHANGED <<table, stream>>
    BY <1>1, <2>3 DEF ServerTyped, QueuesTyped
  <2>4. CASE Put(task.id, task.object)
    BY <2>1, <2>4, PutTyped
  <2> QED
    BY <2>2, <2>3, <2>4
<1>5. ServerTyped'
  BY <1>1, <1>2, <1>4 DEF ServerTyped, fixed
<1>6. QueuesTyped' /\ KubeTyped'
  BY <1>1, <1>2, <1>4 DEF QueuesTyped, KubeTyped
<1>7. faults' = faults \/ faults' \in 0..MaxFaults
  BY <1>1, FaultCounted DEF Save, SaveFails
<1>8. Counted'
  BY <1>1, <1>2, <1>7 DEF Counted
<1>9. TaskTyped'
  BY <1>1, <1>2, <1>3 DEF TaskTyped, Return
<1> QED
  BY <1>5, <1>6, <1>8, <1>9, NextParts

LEMMA CrashTyped ==
    ASSUME TypeOK, Crash
    PROVE  TypeOK'
<1>1. ServerTyped /\ QueuesTyped /\ TaskTyped /\ KubeTyped /\ Counted
  BY TypeParts
<1>2. ServerTyped' /\ KubeTyped'
  BY <1>1 DEF Crash, ServerTyped, KubeTyped, fixed, server
<1>3. Counted'
  BY <1>1, FaultCounted DEF Crash, Counted
<1>4. <<>> \in Seq(Item \union {HubCreated})
  BY EmptySeq
<1>5. QueuesTyped'
  BY <1>4 DEF Crash, QueuesTyped
<1>6. TaskTyped'
  BY DEF Crash, Return, TaskTyped
<1> QED
  BY <1>2, <1>3, <1>5, <1>6, NextParts

(***************************************************************************)
(* Every step keeps the types.                                             *)
(***************************************************************************)
LEMMA TypeStep ==
    ASSUME TypeOK, TaskTrusted, [Next]_vars
    PROVE  TypeOK'
<1>1. CASE Next
  BY <1>1, EnvironmentTyped, LoopsTyped, FunctionTyped, SaveTyped, CrashTyped
     DEF Next, Function
<1>2. CASE UNCHANGED vars
  BY <1>2 DEF TypeOK, vars, fixed
<1> QED
  BY <1>1, <1>2

----------------------------------------------------------------------------
(* Stale objects. *)

\* A step never brings back an object that was archived, and only removes the
\* Kubernetes object of one that is.
Kept ==
    /\ kind' = kind
    /\ \A id \in Ids : table[id] = Archived => table'[id] = Archived
    /\ \A place \in Places, id \in Ids :
           kube[place][id] # <<>> => kube'[place][id] # <<>> \/ table'[id] = Archived

(***************************************************************************)
(* What is trusted stays trusted.                                          *)
(***************************************************************************)
LEMMA TrustStays ==
    ASSUME Kept, NEW id \in Ids, NEW object, OfItsKind(object), Trusted(id, object)
    PROVE  OfItsKind(object)' /\ Trusted(id, object)'
<1>1. OfItsKind(object)'
  BY DEF Kept, OfItsKind
<1>2. Trusted(id, object)'
  BY DEF Kept, Trusted, HasOrder, Places
<1> QED
  BY <1>1, <1>2

LEMMA MovingTyped ==
    ASSUME TypeOK
    PROVE  Moving \subseteq Item
<1>1. \A i \in 1..Len(stream) : stream[i] \in Item \union {HubCreated}
  <2>1. stream \in Seq(Item \union {HubCreated})
    BY DEF TypeOK
  <2> QED
    BY <2>1, ElementOfSeq
<1> QED
  BY <1>1 DEF Moving, TypeOK

(***************************************************************************)
(* If those that a step adds to the queues can be trusted, all can.        *)
(***************************************************************************)
LEMMA MovingStays ==
    ASSUME TypeOK, MovingTrusted, Kept,
           \A item \in Moving' : \/ item \in Moving
                                 \/ /\ OfItsKind(item.object)'
                                    /\ Trusted(item.id, item.object)'
                                    /\ item.deleted => table'[item.id] = Archived
    PROVE  MovingTrusted'
<1> SUFFICES ASSUME NEW item \in Moving, MovingTrusted
             PROVE  /\ OfItsKind(item.object)'
                    /\ Trusted(item.id, item.object)'
                    /\ item.deleted => table'[item.id] = Archived
  BY DEF MovingTrusted, OfItsKind, Trusted
<1>1. item.id \in Ids
  BY MovingTyped DEF Item
<1>2. /\ OfItsKind(item.object) /\ Trusted(item.id, item.object)
      /\ item.deleted => table[item.id] = Archived
  BY DEF MovingTrusted
<1>3. OfItsKind(item.object)' /\ Trusted(item.id, item.object)'
  BY <1>1, <1>2, TrustStays
<1> QED
  BY <1>1, <1>2, <1>3 DEF Kept

(***************************************************************************)
(* If those that a step writes to the table can be trusted, all can.       *)
(***************************************************************************)
LEMMA TableStays ==
    ASSUME TypeOK, TableTrusted, Kept,
           \A id \in Ids, object \in Object :
               table'[id] = object => \/ table[id] = object
                                      \/ OfItsKind(object)' /\ Trusted(id, object)',
           table' \in TypesOfTable
    PROVE  TableTrusted'
<1>1. ASSUME NEW id \in Ids, NEW object \in Object, table'[id] = object
      PROVE  OfItsKind(object)' /\ Trusted(id, object)'
  <2>1. CASE table[id] = object
    <3>1. Live(id)
      BY <2>1, ReconcilerAssumption DEF Live
    <3>2. OfItsKind(object) /\ Trusted(id, object)
      BY <2>1, <3>1 DEF TableTrusted
    <3> QED
      BY <3>2, TrustStays
  <2> QED
    BY <1>1, <2>1
<1>2. \A id \in Ids : Live(id)' => table'[id] \in Object
  BY DEF Live, TypesOfTable
<1> QED
  BY <1>1, <1>2 DEF TableTrusted, OfItsKind, Trusted

(***************************************************************************)
(* If the function doesn't move, its object can be trusted as before.      *)
(***************************************************************************)
LEMMA TaskStays ==
    ASSUME TypeOK, TaskTrusted, Kept, UNCHANGED <<rpc, task>>
    PROVE  TaskTrusted'
<1>1. rpc # "wait" => task.id \in Ids
  BY DEF TypeOK
<1> QED
  <2>1. CASE rpc = "wait"
    BY <2>1 DEF TaskTrusted
  <2>2. CASE rpc # "wait"
    <3>1. OfItsKind(task.object) => OfItsKind(task.object)'
      BY DEF OfItsKind, Kept
    <3>2. Trusted(task.id, task.object) => Trusted(task.id, task.object)'
      BY <1>1, <2>2 DEF Trusted, HasOrder, Places, Kept
    <3>3. task.deleted /\ table[task.id] = Archived => table'[task.id] = Archived
      BY <1>1, <2>2 DEF Kept
    <3> QED
      BY <2>2, <3>1, <3>2, <3>3 DEF TaskTrusted, Kept
  <2> QED
    BY <2>1, <2>2

(***************************************************************************)
(* An announcement adds its event to the stream at most.                   *)
(***************************************************************************)
LEMMA AnnounceMoves ==
    ASSUME TypeOK, NEW event, Announce(event), UNCHANGED <<wqueue, squeue>>
    PROVE  Moving' \subseteq Moving \union ({event} \ {HubCreated})
<1>1. stream \in Seq(Item \union {HubCreated})
  BY DEF TypeOK
<1>2. CASE stream' = stream
  BY <1>2 DEF Moving
<1>3. CASE stream' = Append(stream, event)
  <2>1. Len(stream') = Len(stream) + 1 /\ Len(stream) \in Nat
    BY <1>1, <1>3, LenProperties, AppendProperties
  <2>2. \A i \in 1..Len(stream') :
            stream'[i] = IF i <= Len(stream) THEN stream[i] ELSE event
    BY <1>1, <1>3, SMT
  <2>3. \A i \in 1..Len(stream') : stream'[i] = event \/ i \in 1..Len(stream)
    BY <2>1, <2>2, SMT
  <2>4. \A i \in 1..Len(stream) : i <= Len(stream)
    BY <2>1, SMT
  <2>5. {stream'[i] : i \in 1..Len(stream')} \subseteq {stream[i] : i \in 1..Len(stream)} \union {event}
    BY <2>2, <2>3, <2>4
  <2> QED
    BY <2>5 DEF Moving
<1> QED
  BY <1>2, <1>3 DEF Announce

(***************************************************************************)
(* The server may write and announce an object that can be trusted.        *)
(***************************************************************************)
LEMMA PutTrusted ==
    ASSUME TypeOK, TableTrusted, MovingTrusted, UNCHANGED <<kind, kube, wqueue, squeue>>,
           NEW id \in Ids, NEW object \in Object, Put(id, object),
           table[id] # Archived, OfItsKind(object), Trusted(id, object)
    PROVE  Kept /\ TableTrusted' /\ MovingTrusted'
<1>1. table' = [table EXCEPT ![id] = object] /\ table \in [Ids -> Object \union {NoObject, Archived}]
  BY DEF Put, TypeOK
<1>2. Kept
  BY <1>1 DEF Kept
<1>3. OfItsKind(object)' /\ Trusted(id, object)'
  BY <1>2, TrustStays
<1>4. TableTrusted'
  <2>1. table' \in TypesOfTable
    BY PutTyped
  <2>2. \A i \in Ids : table'[i] = IF i = id THEN object ELSE table[i]
    BY <1>1
  <2>3. ASSUME NEW i \in Ids, NEW o \in Object, table'[i] = o
        PROVE  table[i] = o \/ (OfItsKind(o)' /\ Trusted(i, o)')
    BY <1>3, <2>2, <2>3
  <2> QED
    BY <1>2, <2>1, <2>3, TableStays
<1>5. MovingTrusted'
  <2> DEFINE event == [id |-> id, object |-> object, deleted |-> FALSE]
  <2>1. Moving' \subseteq Moving \union {event}
    BY AnnounceMoves DEF Put
  <2>2. event.id = id /\ event.object = object /\ ~event.deleted
    OBVIOUS
  <2> HIDE DEF event
  <2>3. OfItsKind(event.object)' /\ Trusted(event.id, event.object)'
    BY <1>3, <2>2 DEF OfItsKind, Trusted
  <2>4. \A item \in Moving' : \/ item \in Moving
                              \/ /\ OfItsKind(item.object)'
                                 /\ Trusted(item.id, item.object)'
                                 /\ item.deleted => table'[item.id] = Archived
    BY <2>1, <2>2, <2>3 DEF OfItsKind, Trusted
  <2> QED
    BY <1>2, <2>4, MovingStays
<1> QED
  BY <1>2, <1>4, <1>5

\* What the API creates and changes can be trusted as what there was.
LEMMA FreshTrusted ==
    ASSUME NEW id \in Ids, NEW spec \in Specs
    PROVE  OfItsKind(Fresh(spec)) /\ Trusted(id, Fresh(spec))
  BY ReconcilerAssumption DEF Fresh, OfItsKind, Trusted

LEMMA UpdateTrusted ==
    ASSUME NEW id \in Ids, NEW old \in Object, OfItsKind(old), Trusted(id, old),
           NEW spec \in Specs, NEW object \in AfterUserUpdate(old, spec)
    PROVE  OfItsKind(object) /\ Trusted(id, object)
<1>1. object.hub \in {old.hub, NoHub}
  BY DEF AfterUserUpdate, Object
<1>2. NoHub \notin Hubs
  BY ReconcilerAssumption
<1> QED
  BY <1>1, <1>2 DEF OfItsKind, Trusted

----------------------------------------------------------------------------
(* Each step keeps what can be trusted. *)

LEMMA EnvironmentTrusted ==
    ASSUME TypeOK, Trust, Environment
    PROVE  Trust'
<1>1. TableTrusted /\ MovingTrusted /\ TaskTrusted
  BY DEF Trust
<1>2. UNCHANGED <<kind, kube, wqueue, squeue, rpc, task>>
  BY DEF Environment, UserCreate, UserUpdate, UserDelete, Feedback, RegisterHub,
         UpdateHub, RemoveHub, ChangePool, RemoveTemplate, Change, fixed
<1> SUFFICES Kept /\ TableTrusted' /\ MovingTrusted'
  BY <1>1, <1>2, TaskStays DEF Trust
<1>3. ASSUME NEW id \in Ids, NEW spec \in Specs, UserCreate(id, spec)
      PROVE  Kept /\ TableTrusted' /\ MovingTrusted'
  <2>1. Put(id, Fresh(spec)) /\ table[id] # Archived
    BY <1>3, ReconcilerAssumption DEF UserCreate
  <2> QED
    BY <1>1, <1>2, <2>1, FreshTyped, FreshTrusted, PutTrusted
<1>4. ASSUME NEW id \in Ids, NEW spec \in Specs, UserUpdate(id, spec)
      PROVE  Kept /\ TableTrusted' /\ MovingTrusted'
  <2>1. Live(id) /\ table[id] # Archived
    BY <1>4 DEF UserUpdate, Live
  <2>2. PICK object \in AfterUserUpdate(table[id], spec) : Put(id, object)
    BY <1>4 DEF UserUpdate
  <2>3. table[id] \in Object /\ OfItsKind(table[id]) /\ Trusted(id, table[id])
    BY <1>1, <2>1, LiveTyped DEF TableTrusted
  <2>4. object \in Object
    BY <2>3, UpdateTyped
  <2>5. OfItsKind(object) /\ Trusted(id, object)
    BY <2>3, UpdateTrusted
  <2> QED
    BY <1>1, <1>2, <2>1, <2>2, <2>4, <2>5, PutTrusted
<1>5. ASSUME NEW id \in Ids, UserDelete(id)
      PROVE  Kept /\ TableTrusted' /\ MovingTrusted'
  <2> DEFINE event == [id |-> id, object |-> table[id], deleted |-> TRUE]
  <2>1. Live(id) /\ table' = [table EXCEPT ![id] = Archived] /\ Announce(event)
    BY <1>5 DEF UserDelete
  <2>2. \A i \in Ids : table'[i] = IF i = id THEN Archived ELSE table[i]
    BY <2>1 DEF TypeOK
  <2>3. Kept
    BY <1>2, <2>2 DEF Kept
  <2>4. table' \in TypesOfTable
    BY <2>1, TypeParts DEF ServerTyped, TypesOfTable
  <2>5. \A i \in Ids, o \in Object : table'[i] = o => table[i] = o
    BY <2>2, ReconcilerAssumption
  <2>6. TableTrusted'
    BY <1>1, <2>3, <2>4, <2>5, TableStays
  <2>7. OfItsKind(table[id])
    BY <1>1, <2>1 DEF TableTrusted
  <2>8. Moving' \subseteq Moving \union {event}
    BY <1>2, <2>1, AnnounceMoves
  <2>9. \A item \in Moving' : \/ item \in Moving
                              \/ /\ OfItsKind(item.object)'
                                 /\ Trusted(item.id, item.object)'
                                 /\ item.deleted => table'[item.id] = Archived
    <3> SUFFICES ASSUME NEW item \in Moving', item = event
                 PROVE  /\ OfItsKind(item.object)'
                        /\ Trusted(item.id, item.object)'
                        /\ table'[item.id] = Archived
      BY <2>8
    <3>1. item.id = id /\ item.object = table[id]
      OBVIOUS
    <3> QED
      BY <1>2, <2>2, <2>7, <3>1 DEF OfItsKind, Trusted
  <2> QED
    BY <1>1, <2>3, <2>6, <2>9, MovingStays
<1>6. ASSUME NEW id \in Ids, Feedback(id)
      PROVE  Kept /\ TableTrusted' /\ MovingTrusted'
  <2>1. Live(id) /\ table[id] # Archived
    BY <1>6 DEF Feedback, Live
  <2>2. Put(id, [table[id] EXCEPT !.state = "final"])
    BY <1>6 DEF Feedback
  <2>3. table[id] \in Object /\ OfItsKind(table[id]) /\ Trusted(id, table[id])
    BY <1>1, <2>1, LiveTyped DEF TableTrusted
  <2>4. /\ [table[id] EXCEPT !.state = "final"] \in Object
        /\ [table[id] EXCEPT !.state = "final"].hub = table[id].hub
    BY <2>3 DEF Object, States
  <2>5. /\ OfItsKind([table[id] EXCEPT !.state = "final"])
        /\ Trusted(id, [table[id] EXCEPT !.state = "final"])
    BY <2>3, <2>4 DEF OfItsKind, Trusted
  <2> QED
    BY <1>1, <1>2, <2>1, <2>2, <2>4, <2>5, PutTrusted
<1>7. ASSUME UNCHANGED table, Moving' \subseteq Moving
      PROVE  Kept /\ TableTrusted' /\ MovingTrusted'
  <2>1. Kept
    BY <1>2, <1>7 DEF Kept
  <2>2. table' \in TypesOfTable
    BY <1>7 DEF TypeOK, TypesOfTable
  <2>3. TableTrusted'
    BY <1>1, <1>7, <2>1, <2>2, TableStays
  <2>4. MovingTrusted'
    BY <1>1, <1>7, <2>1, MovingStays
  <2> QED
    BY <2>1, <2>3, <2>4
<1>8. ASSUME NEW h \in Hubs, RegisterHub(h)
      PROVE  UNCHANGED table /\ Moving' \subseteq Moving
  <2>1. Announce(HubCreated) /\ UNCHANGED table
    BY <1>8 DEF RegisterHub
  <2>2. Moving' \subseteq Moving \union ({HubCreated} \ {HubCreated})
    BY <1>2, <2>1, AnnounceMoves
  <2> QED
    BY <2>1, <2>2
<1>9. ASSUME \/ \E h \in Hubs : UpdateHub(h) \/ RemoveHub(h)
             \/ ChangePool
             \/ RemoveTemplate
      PROVE  UNCHANGED table /\ Moving' \subseteq Moving
  BY <1>2, <1>9 DEF UpdateHub, RemoveHub, ChangePool, RemoveTemplate, Moving
<1> QED
  BY <1>3, <1>4, <1>5, <1>6, <1>7, <1>8, <1>9 DEF Environment

\* What the loops put into the queues is in the stream or in the table.
LEMMA WatchMoves ==
    ASSUME TypeOK, WatchRecv
    PROVE  Moving' \subseteq Moving \union FirstPage
<1> DEFINE seen == {stream[i] : i \in 1..Len(stream)}
<1>1. stream \in Seq(Item \union {HubCreated}) /\ stream # <<>>
  BY DEF TypeOK, WatchRecv
<1>2. /\ stream' = Tail(stream) /\ squeue' = squeue
      /\ wqueue' = IF Head(stream) = HubCreated THEN FirstPage ELSE {Head(stream)}
  BY DEF WatchRecv
<1>3. Len(stream) \in Nat /\ Len(stream) >= 1 /\ Head(stream) = stream[1]
  BY <1>1, LenProperties, EmptySeq, SMT
<1>4. Head(stream) \in seen
  <2>1. 1 \in 1..Len(stream)
    BY <1>3, SMT
  <2> QED
    BY <1>3, <2>1
<1>5. {stream'[i] : i \in 1..Len(stream')} \subseteq seen
  <2>1. Len(stream') = Len(stream) - 1
    BY <1>1, <1>2, HeadTailProperties
  <2>2. \A i \in 1..Len(stream') : stream'[i] = stream[i + 1]
    BY <1>1, <1>2, <2>1, HeadTailProperties
  <2>3. \A i \in 1..Len(stream') : i + 1 \in 1..Len(stream)
    BY <1>3, <2>1, SMT
  <2> QED
    BY <2>2, <2>3
<1>6. Head(stream) # HubCreated => Head(stream) \in Moving
  BY <1>4 DEF Moving
<1> QED
  BY <1>2, <1>5, <1>6 DEF Moving

LEMMA LoopMoves ==
    ASSUME TypeOK,
           \/ WatchStart \/ WatchRecv \/ SyncList \/ WatchBreak
           \/ ReceiveFromWatch \/ ReceiveFromSync
    PROVE  Moving' \subseteq Moving \union FirstPage
<1>1. CASE WatchRecv
  BY <1>1, WatchMoves
<1>2. CASE stream' = <<>> /\ UNCHANGED <<wqueue, squeue>>
  <2>1. {stream'[i] : i \in 1..Len(stream')} = {}
    <3>1. Len(stream') = 0
      BY <1>2, EmptySeq
    <3> QED
      BY <3>1, SMT
  <2> QED
    BY <1>2, <2>1 DEF Moving
<1>3. CASE SyncList
  BY <1>3 DEF SyncList, Moving
<1>4. CASE ReceiveFromWatch
  BY <1>4 DEF ReceiveFromWatch, Moving
<1>5. CASE ReceiveFromSync
  BY <1>5 DEF ReceiveFromSync, Moving
<1> QED
  BY <1>1, <1>2, <1>3, <1>4, <1>5 DEF WatchStart, WatchBreak

LEMMA LoopsTrusted ==
    ASSUME TypeOK, Trust,
           \/ WatchStart \/ WatchRecv \/ SyncList \/ WatchBreak
           \/ ReceiveFromWatch \/ ReceiveFromSync
    PROVE  Trust'
<1>1. TableTrusted /\ MovingTrusted /\ TaskTrusted
  BY DEF Trust
<1>2. UNCHANGED <<kind, table, kube>>
  BY DEF WatchStart, WatchRecv, SyncList, WatchBreak, ReceiveFromWatch, ReceiveFromSync,
         fixed, server
<1>3. Kept
  BY <1>2 DEF Kept
<1>4. TableTrusted'
  <2>1. table' \in TypesOfTable
    BY <1>2 DEF TypeOK, TypesOfTable
  <2> QED
    BY <1>1, <1>2, <1>3, <2>1, TableStays
<1>5. MovingTrusted'
  <2>1. ASSUME NEW item \in FirstPage
        PROVE  /\ OfItsKind(item.object)'
               /\ Trusted(item.id, item.object)'
               /\ item.deleted => table'[item.id] = Archived
    <3>1. item \in Item /\ Live(item.id) /\ item.object = table[item.id] /\ ~item.deleted
      BY PageTyped
    <3>2. item.id \in Ids
      BY <3>1 DEF Item
    <3>3. OfItsKind(item.object) /\ Trusted(item.id, item.object)
      BY <1>1, <3>1, <3>2 DEF TableTrusted
    <3> QED
      BY <1>3, <3>1, <3>2, <3>3, TrustStays
  <2>2. Moving' \subseteq Moving \union FirstPage
    BY LoopMoves
  <2> QED
    BY <1>1, <1>3, <2>1, <2>2, MovingStays
<1>6. TaskTrusted'
  <2>1. CASE UNCHANGED <<rpc, task>>
    BY <1>1, <1>3, <2>1, TaskStays
  <2>2. CASE \E item \in wqueue \union squeue :
                 /\ rpc' = "begin"
                 /\ task' = [id |-> item.id, object |-> item.object,
                             deleted |-> item.deleted, hub |-> NoHub]
    <3>1. PICK item \in Moving :
              /\ rpc' = "begin"
              /\ task' = [id |-> item.id, object |-> item.object,
                          deleted |-> item.deleted, hub |-> NoHub]
      BY <2>2 DEF Moving
    <3>2. /\ OfItsKind(item.object) /\ Trusted(item.id, item.object)
          /\ item.deleted => table[item.id] = Archived
      BY <1>1 DEF MovingTrusted
    <3>3. rpc' = "begin" /\ task'.id = item.id /\ task'.object = item.object
          /\ task'.deleted = item.deleted
      BY <3>1
    <3> QED
      BY <1>2, <3>2, <3>3 DEF TaskTrusted, OfItsKind, Trusted, HasOrder
  <2> QED
    BY <2>1, <2>2 DEF WatchStart, WatchRecv, SyncList, WatchBreak,
                      ReceiveFromWatch, ReceiveFromSync, Call
<1> QED
  BY <1>4, <1>5, <1>6 DEF Trust

\* The steps that work for a hub.
Working == Skip \/ SelectHub \/ NoHubs \/ Kube \/ KubeRefused \/ KubeFails \/ SaveFails

(***************************************************************************)
(* A step changes at most the Kubernetes objects of the object and the hub *)
(* of the task: then it has one, or none if the object was deleted.        *)
(***************************************************************************)
LEMMA KubeChange ==
    ASSUME TypeOK, TaskTrusted, Working
    PROVE  \/ UNCHANGED kube
           \/ /\ rpc = "kube" /\ Place \in Places /\ task.id \in Ids
              /\ \A place \in Places, id \in Ids :
                     kube'[place][id] = IF place = Place /\ id = task.id THEN Applied
                                        ELSE kube[place][id]
<1> SUFFICES ASSUME rpc = "kube", kube' = [kube EXCEPT ![Place][task.id] = Applied]
             PROVE  /\ Place \in Places /\ task.id \in Ids
                    /\ \A place \in Places, id \in Ids :
                           kube'[place][id] = IF place = Place /\ id = task.id THEN Applied
                                              ELSE kube[place][id]
  BY DEF Working, Skip, SelectHub, NoHubs, Kube, KubeRefused, KubeFails, SaveFails
<1>1. Place \in Places /\ task.id \in Ids
  BY PlaceTyped DEF TypeOK
<1>2. kube \in [Places -> [Ids -> Seq(Specs)]]
  BY DEF TypeOK
<1>3. kube' = [kube EXCEPT ![Place] = [kube[Place] EXCEPT ![task.id] = Applied]]
  OBVIOUS
<1>4. \A place \in Places : kube'[place] = IF place = Place
                                           THEN [kube[Place] EXCEPT ![task.id] = Applied]
                                           ELSE kube[place]
  BY <1>1, <1>2, <1>3
<1>5. \A id \in Ids : [kube[Place] EXCEPT ![task.id] = Applied][id]
                      = IF id = task.id THEN Applied ELSE kube[Place][id]
  BY <1>1, <1>2
<1> QED
  BY <1>1, <1>4, <1>5

LEMMA AppliedProperties ==
    /\ task.deleted => Applied = <<>>
    /\ ~task.deleted => Applied # <<>>
    /\ Len(Applied) <= 1
<1>1. CASE task.deleted
  BY <1>1, SMT DEF Applied
<1>2. CASE ~task.deleted
  <2>1. Applied = <<task.object.spec>>
    BY <1>2 DEF Applied
  <2>2. Len(<<task.object.spec>>) = 1 /\ <<task.object.spec>> # <<>>
    OBVIOUS
  <2> QED
    BY <1>2, <2>1, <2>2, SMT
<1> QED
  BY <1>1, <1>2

LEMMA WorkKeeps ==
    ASSUME TypeOK, TaskTrusted, Working
    PROVE  Kept /\ UNCHANGED <<kind, table, stream, wqueue, squeue>>
<1>1. UNCHANGED <<kind, table, stream, wqueue, squeue>>
  BY DEF Working, Skip, SelectHub, NoHubs, Kube, KubeRefused, KubeFails, SaveFails,
         fixed, server
<1>2. ASSUME rpc = "kube",
             \A place \in Places, id \in Ids :
                 kube'[place][id] = IF place = Place /\ id = task.id THEN Applied
                                    ELSE kube[place][id]
      PROVE  Kept
  <2>1. task.deleted => table[task.id] = Archived
    BY <1>2 DEF TaskTrusted
  <2> QED
    BY <1>1, <1>2, <2>1, AppliedProperties DEF Kept
<1>3. Kept
  BY <1>1, <1>2, KubeChange DEF Kept
<1> QED
  BY <1>1, <1>3

LEMMA TaskWorks ==
    ASSUME TypeOK, TaskTrusted, Working
    PROVE  TaskTrusted'
<1>1. Kept /\ UNCHANGED <<kind, table>>
  BY WorkKeeps
<1>2. CASE NoHubs \/ KubeRefused \/ KubeFails \/ SaveFails
  BY <1>2 DEF NoHubs, KubeRefused, KubeFails, SaveFails, Return, TaskTrusted
<1>3. CASE Skip \/ SelectHub
  <2>1. rpc = "begin"
    BY <1>3 DEF Skip, SelectHub
  <2>2. /\ task \in [id : Ids, object : Object, deleted : BOOLEAN, hub : Hubs \union {NoHub}]
        /\ OfItsKind(task.object) /\ Trusted(task.id, task.object)
        /\ task.deleted => table[task.id] = Archived
    BY <2>1 DEF TypeOK, TaskTrusted
  <2>3. Defaulted \in Object /\ Defaulted.hub = task.object.hub
    BY <2>2, DefaultsTyped DEF Defaulted
  <2>4. CASE Skip
    <3>1. /\ rpc' = "save" /\ task'.id = task.id /\ task'.deleted = task.deleted
          /\ task'.object = Defaulted
      BY <2>2, <2>4 DEF Skip
    <3>2. OfItsKind(Defaulted) /\ Trusted(task.id, Defaulted)
      BY <2>2, <2>3 DEF OfItsKind, Trusted
    <3> QED
      BY <1>1, <2>2, <2>4, <3>1, <3>2 DEF Skip, TaskTrusted, OfItsKind, Trusted, HasOrder
  <2>5. CASE SelectHub
    <3>1. ~NoWork /\ rpc' = "kube"
      BY <2>5 DEF SelectHub
    <3>2. PICK h \in Reachable :
              task' = [task EXCEPT
                          !.hub = h,
                          !.object = IF task.deleted \/ kind = "host" THEN Defaulted
                                     ELSE [Defaulted EXCEPT !.hub = h]]
      BY <2>5 DEF SelectHub
    <3>3. h \in Hubs
      BY <2>1, <3>1, ChoicesAreHubs DEF Reachable
    <3>4. [Defaulted EXCEPT !.hub = h].hub = h
      BY <2>3, <3>3 DEF Object
    <3>5. /\ task'.hub = h /\ task'.id = task.id /\ task'.deleted = task.deleted
          /\ task'.object = IF task.deleted \/ kind = "host" THEN Defaulted
                            ELSE [Defaulted EXCEPT !.hub = h]
      BY <2>2, <3>2
    <3>6. OfItsKind(task'.object)
      BY <2>2, <2>3, <3>3, <3>4, <3>5 DEF OfItsKind
    <3>7. kind = "host" \/ task.deleted \/ task'.object.hub = h
      BY <3>4, <3>5
    <3> QED
      BY <1>1, <2>2, <3>1, <3>3, <3>5, <3>6, <3>7 DEF TaskTrusted, OfItsKind
  <2> QED
    BY <1>3, <2>4, <2>5
<1>4. CASE Kube
  <2>1. rpc = "kube" /\ rpc' = "save" /\ task' = task
    BY <1>4 DEF Kube
  <2>2. /\ OfItsKind(task.object) /\ task.hub \in Hubs /\ task.id \in Ids
        /\ task.deleted => table[task.id] = Archived
        /\ kind = "host" \/ task.deleted \/ task.object.hub = task.hub
    BY <2>1 DEF TaskTrusted, TypeOK
  <2>3. kube'[Place][task.id] = Applied
    BY <1>4, <2>1, <2>2, PlaceTyped DEF Kube, TypeOK
  <2>7. \E n \in Namespaces : Place = <<task.hub, n>>
    BY <2>1, PlaceTyped DEF Place, Places
  <2>4. CASE task.deleted
    BY <1>1, <2>1, <2>2, <2>4 DEF TaskTrusted, OfItsKind, Trusted
  <2>5. CASE kind = "host"
    BY <1>1, <2>1, <2>2, <2>5, ReconcilerAssumption DEF TaskTrusted, OfItsKind, Trusted
  <2>6. CASE ~task.deleted /\ task.object.hub = task.hub
    BY <1>1, <2>1, <2>2, <2>3, <2>6, <2>7, AppliedProperties
       DEF TaskTrusted, OfItsKind, Trusted, HasOrder
  <2> QED
    BY <2>2, <2>4, <2>5, <2>6
<1> QED
  BY <1>2, <1>3, <1>4 DEF Working

LEMMA WorkTrusted ==
    ASSUME TypeOK, Trust, Working
    PROVE  Trust'
<1>1. TableTrusted /\ MovingTrusted /\ TaskTrusted
  BY DEF Trust
<1>2. Kept /\ UNCHANGED <<kind, table, stream, wqueue, squeue>>
  BY <1>1, WorkKeeps
<1>3. table' \in TypesOfTable
  BY <1>2 DEF TypeOK, TypesOfTable
<1>4. TableTrusted'
  BY <1>1, <1>2, <1>3, TableStays
<1>5. Moving' = Moving
  BY <1>2 DEF Moving
<1>6. MovingTrusted'
  BY <1>1, <1>2, <1>5, MovingStays
<1> QED
  BY <1>1, <1>4, <1>6, TaskWorks DEF Trust

(***************************************************************************)
(* The object is written back only when it can be trusted.                 *)
(***************************************************************************)
LEMMA SaveTrusted ==
    ASSUME TypeOK, Trust, Save
    PROVE  Trust'
<1>1. TableTrusted /\ MovingTrusted /\ TaskTrusted
  BY DEF Trust
<1>2. UNCHANGED <<kind, kube, wqueue, squeue>> /\ rpc = "save" /\ rpc' = "wait"
  BY DEF Save, Return, fixed
<1>3. TaskTrusted'
  BY <1>2 DEF TaskTrusted
<1>4. CASE UNCHANGED <<table, stream>>
  <2>1. Kept
    BY <1>2, <1>4 DEF Kept
  <2>2. table' \in TypesOfTable
    BY <1>4 DEF TypeOK, TypesOfTable
  <2>3. Moving' = Moving
    BY <1>2, <1>4 DEF Moving
  <2>4. TableTrusted'
    BY <1>1, <1>4, <2>1, <2>2, TableStays
  <2>5. MovingTrusted'
    BY <1>1, <2>1, <2>3, MovingStays
  <2> QED
    BY <1>3, <2>4, <2>5 DEF Trust
<1>5. CASE Live(task.id) /\ Put(task.id, task.object)
  <2>1. task.id \in Ids /\ task.object \in Object
    BY <1>2 DEF TypeOK
  <2>2. OfItsKind(task.object) /\ Trusted(task.id, task.object)
    BY <1>1, <1>2 DEF TaskTrusted
  <2>3. table[task.id] # Archived
    BY <1>5 DEF Live
  <2>4. TableTrusted' /\ MovingTrusted'
    BY <1>1, <1>2, <1>5, <2>1, <2>2, <2>3, PutTrusted
  <2> QED
    BY <1>3, <2>4 DEF Trust
<1> QED
  BY <1>4, <1>5 DEF Save

LEMMA CrashTrusted ==
    ASSUME TypeOK, Trust, Crash
    PROVE  Trust'
<1>1. TableTrusted /\ MovingTrusted
  BY DEF Trust
<1>2. UNCHANGED <<kind, table, kube>> /\ rpc' = "wait"
  BY DEF Crash, Return, fixed, server
<1>3. Kept
  BY <1>2 DEF Kept
<1>4. table' \in TypesOfTable
  BY <1>2 DEF TypeOK, TypesOfTable
<1>5. TableTrusted'
  BY <1>1, <1>2, <1>3, <1>4, TableStays
<1>6. Moving' = {}
  <2>1. stream' = <<>> /\ wqueue' = {} /\ squeue' = {}
    BY DEF Crash
  <2>2. 1..Len(stream') = {}
    BY <2>1, SMT
  <2> QED
    BY <2>1, <2>2 DEF Moving
<1>7. MovingTrusted'
  BY <1>6 DEF MovingTrusted
<1> QED
  BY <1>2, <1>5, <1>7 DEF Trust, TaskTrusted

(***************************************************************************)
(* Every step keeps what can be trusted.                                   *)
(***************************************************************************)
LEMMA TrustStep ==
    ASSUME TypeOK, Trust, [Next]_vars
    PROVE  Trust'
<1>1. CASE Next
  BY <1>1, EnvironmentTrusted, LoopsTrusted, WorkTrusted, SaveTrusted, CrashTrusted
     DEF Next, Function, Working
<1>2. CASE UNCHANGED vars
  <2>1. UNCHANGED <<kind, table, kube, stream, wqueue, squeue, rpc, task>>
    BY <1>2 DEF vars, fixed
  <2>2. Moving' = Moving
    BY <2>1 DEF Moving
  <2> QED
    BY <2>1, <2>2 DEF Trust, TableTrusted, MovingTrusted, TaskTrusted, OfItsKind, Trusted, HasOrder, Live
<1> QED
  BY <1>1, <1>2

(***************************************************************************)
(* No step gives a hub a second Kubernetes object for an object.           *)
(***************************************************************************)
LEMMA OneOrderStep ==
    ASSUME TypeOK, TaskTrusted, OneOrderPerNamespace, [Next]_vars
    PROVE  OneOrderPerNamespace'
<1>1. CASE UNCHANGED kube
  BY <1>1 DEF OneOrderPerNamespace
<1>2. CASE Working
  BY <1>1, <1>2, KubeChange, AppliedProperties DEF OneOrderPerNamespace
<1>3. CASE Environment
  <2>1. UNCHANGED kube
    BY <1>3 DEF Environment, UserCreate, UserUpdate, UserDelete, Feedback, RegisterHub,
           UpdateHub, RemoveHub, ChangePool, RemoveTemplate, Change
  <2> QED
    BY <1>1, <2>1
<1>4. ASSUME \/ WatchStart \/ WatchRecv \/ SyncList \/ WatchBreak
             \/ ReceiveFromWatch \/ ReceiveFromSync \/ Save \/ Crash \/ UNCHANGED vars
      PROVE  UNCHANGED kube
  BY <1>4 DEF WatchStart, WatchRecv, SyncList, WatchBreak, ReceiveFromWatch,
              ReceiveFromSync, Save, Crash, vars
<1> QED
  BY <1>1, <1>2, <1>3, <1>4 DEF Next, Function, Working

----------------------------------------------------------------------------

LEMMA InitInvariant ==
    ASSUME Init
    PROVE  IInv
<1>1. TypeOK
  <2>1. ServerTyped
    BY FreshTyped, ReconcilerAssumption DEF Init, ServerTyped, TypesOfTable, Configuration
  <2>2. <<>> \in Seq(Item \union {HubCreated}) /\ <<>> \in Seq(Specs)
    BY EmptySeq
  <2>3. QueuesTyped
    BY <2>2 DEF Init, QueuesTyped
  <2>4. KubeTyped
    BY <2>2 DEF Init, KubeTyped
  <2>5. TaskTyped
    BY DEF Init, TaskTyped
  <2>6. Counted
    BY ReconcilerAssumption, SMT DEF Init, Counted
  <2> QED
    BY <2>1, <2>3, <2>4, <2>5, <2>6, TypeParts
<1>2. TableTrusted
  <2>1. \A id \in Ids : Live(id) => \E spec \in Specs : table[id] = Fresh(spec)
    BY DEF Init, Live
  <2> QED
    BY <2>1, FreshTrusted DEF TableTrusted
<1>3. MovingTrusted
  <2>1. stream = <<>> /\ wqueue = {} /\ squeue = {}
    BY DEF Init
  <2>2. 1..Len(stream) = {}
    BY <2>1, SMT
  <2> QED
    BY <2>1, <2>2 DEF Moving, MovingTrusted
<1>4. TaskTrusted
  BY DEF Init, TaskTrusted
<1>5. OneOrderPerNamespace
  <2>1. Len(<<>>) <= 1
    BY EmptySeq, SMT
  <2> QED
    BY <2>1 DEF Init, OneOrderPerNamespace
<1> QED
  BY <1>1, <1>2, <1>3, <1>4, <1>5 DEF IInv, Trust

(***************************************************************************)
(* The inductive invariant: the types, at most one Kubernetes object, and  *)
(* that every copy of an object that may be written back can be trusted.   *)
(***************************************************************************)
LEMMA Invariant == Spec => []IInv
<1>1. Init => IInv
  BY InitInvariant
<1>2. IInv /\ [Next]_vars => IInv'
  <2> SUFFICES ASSUME IInv, [Next]_vars
               PROVE  IInv'
    OBVIOUS
  <2>1. TypeOK /\ Trust /\ TaskTrusted /\ OneOrderPerNamespace
    BY DEF IInv, Trust
  <2> QED
    BY <2>1, TypeStep, TrustStep, OneOrderStep DEF IInv
<1> QED
  BY <1>1, <1>2, PTL DEF Spec

(***************************************************************************)
(* The state of the reconciler keeps its types, for any objects and hubs   *)
(* (the loops and Start of Reconciler).                                    *)
(***************************************************************************)
THEOREM TypeCorrect == Spec => []TypeOK
<1>1. IInv => TypeOK
  BY DEF IInv
<1> QED
  BY <1>1, Invariant, PTL

(***************************************************************************)
(* However often the calls are repeated, a namespace of a hub has at most  *)
(* one Kubernetes object for an object (getKubeObject and update).         *)
(***************************************************************************)
THEOREM AtMostOneOrder == Spec => []OneOrderPerNamespace
<1>1. IInv => OneOrderPerNamespace
  BY DEF IInv
<1> QED
  BY <1>1, Invariant, PTL

(***************************************************************************)
(* The hub in the status of an object that isn't deleted has a Kubernetes  *)
(* object for it (the order of update and of the save in run).             *)
(***************************************************************************)
THEOREM SavedHubIsTrue == Spec => []SavedHubHasOrder
<1>1. IInv => SavedHubHasOrder
  BY DEF IInv, Trust, TableTrusted, Trusted, SavedHubHasOrder, HasOrder, Live
<1> QED
  BY <1>1, Invariant, PTL
=============================================================================
