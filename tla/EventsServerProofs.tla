------------------------- MODULE EventsServerProofs -------------------------
(***************************************************************************)
(* The safety properties of EventsServer hold in every behaviour of the    *)
(* public server, for any watchers, filters, users, creators and events.   *)
(***************************************************************************)
EXTENDS EventsServer, PrivateEventsServerProofs

\* The steps of the loop of the public server.
PublicLoop == PublicReceive \/ \E v \in Watchers : PublicVisit(v)

\* The listener doesn't deliver events about hubs, and sends only what the user can
\* see and the filter accepts.
Sendable ==
    /\ lpc # "wait" => arrived \notin HubEvents
    /\ target # NoWatcher => arrived \in Wanted(target)

\* What a call to Watch has received, and sent or not yet.
Received(w) == {sent[w][i] : i \in DOMAIN sent[w]} \union ({held[w]} \ {0})

\* Everything that has been received is wanted, also by the calls that have ended.
AllWanted == \A w \in Watchers : Received(w) \subseteq Wanted(w)

(***************************************************************************)
(* The inductive invariant of the public server.                           *)
(***************************************************************************)
PublicIInv == Structure /\ Sendable /\ AllWanted /\ MissedOnlyForOthers

----------------------------------------------------------------------------
(* Tenants *)

\* Who can see an object is a member of a tenant of its creator, unless the object is
\* for everybody: the visible tenants of the public servers aren't empty.
LEMMA VisibleIsTheirs ==
  ASSUME NEW w \in Watchers, NEW e \in Events, CheckTenancy(w, e)
  PROVE  OfTheirTenants(w, e)
<1> DEFINE logic == Creators[e].logic
           creator == Creators[e].subject
           user == Subjects[w]
<1>1. logic \in Logics /\ Determined(logic, creator) /\ Determined(Logic, user)
  BY TenantsAssumption DEF CheckTenancy
<1>2. PICK t \in DetermineAssignedTenants(logic, creator) :
          t \in DetermineVisibleTenants(Logic, user)
  BY LogicAssumption DEF CheckTenancy, ExtractTenants, DetermineVisibleTenants,
                         SelectDelegate, Determined, Logics
<1>3. t = Shared \/ t \in Own(user)
  BY <1>1, <1>2, LogicAssumption
     DEF DetermineVisibleTenants, SelectDelegate, Determined, Logics, Own
<1>4. logic = "system" \/ t \in Own(creator)
  BY <1>1, <1>2 DEF DetermineAssignedTenants, SelectDelegate, Determined, Logics, Own
<1> QED
  BY <1>3, <1>4 DEF OfTheirTenants

----------------------------------------------------------------------------
(* The lock and the subscriptions *)

\* The arrival of an event, that may be about a hub, and the visit of a subscription,
\* that may end the loop, respect the lock.
LEMMA PublicLoopStructure == Structure /\ PublicLoop => Structure'
<1> SUFFICES ASSUME Structure, PublicLoop PROVE Structure'
  OBVIOUS
<1> USE EventsAssumption DEF Structure
<1>1. CASE PublicReceive
  <2>1. /\ lpc = "wait" /\ arrived' = arrived + 1 /\ arrived < MaxEvents
        /\ \/ lpc' = "wait" /\ todo' = todo
           \/ lpc' = "visit" /\ todo' = subs
        /\ UNCHANGED <<target, subs, cancelled, wpc, held, closed, sent, since, until>>
    BY <1>1 DEF PublicReceive, watcher
  <2>2. TypeOK'
    BY <2>1 DEF TypeOK
  <2>3. Visiting'
    BY <2>1 DEF TypeOK, Visiting
  <2>4. ASSUME NEW w \in subs PROVE since[w] <= Processed(w)'
    <3>1. Processed(w)' \in {arrived, arrived + 1} /\ arrived \in Nat
      BY <2>1 DEF TypeOK, Processed
    <3>2. since[w] <= arrived /\ since[w] \in Nat
      <4>1. since[w] <= Processed(w) /\ since[w] \in Nat
        BY DEF TypeOK, Subscribed
      <4> QED
        BY <2>1, <4>1 DEF TypeOK, Visiting, Processed
    <3> QED
      BY <3>1, <3>2
  <2>5. Subscribed'
    BY <2>1, <2>4 DEF Subscribed
  <2> QED
    BY <2>2, <2>3, <2>5
<1>2. ASSUME NEW v \in Watchers, PublicVisit(v) PROVE Structure'
  <2>1. /\ lpc = "visit" /\ v \in todo
        /\ \/ todo' = {} /\ lpc' = lpc /\ target' = target
           \/ todo' = todo \ {v} /\ lpc' = "send" /\ target' = v
           \/ todo' = todo \ {v} /\ lpc' = lpc /\ target' = target
        /\ UNCHANGED <<arrived, subs, cancelled, wpc, held, closed, sent, since, until>>
    BY <1>2 DEF PublicVisit, watcher
  <2>2. TypeOK'
    BY <2>1 DEF TypeOK
  <2>3. Visiting'
    BY <2>1 DEF TypeOK, Visiting
  <2>4. ASSUME NEW w \in subs PROVE since[w] <= Processed(w)'
    <3>1. w \in Watchers /\ since[w] \in Nat /\ since[w] <= Processed(w) /\ arrived \in Nat
      BY DEF TypeOK, Subscribed
    <3>2. Processed(w) <= Processed(w)' /\ Processed(w) \in Nat /\ Processed(w)' \in Nat
      BY <2>1, <3>1 DEF Processed, Visiting
    <3> QED
      BY <3>1, <3>2
  <2>5. Subscribed'
    BY <2>1, <2>4 DEF Subscribed
  <2> QED
    BY <2>2, <2>3, <2>5
<1> QED
  BY <1>1, <1>2 DEF PublicLoop

----------------------------------------------------------------------------
(* What clients get and miss *)

\* Who hides an event goes on hiding it: its subscription is the only one of its call, and
\* ends after the event.
LEMMA HiddenForGood ==
  ASSUME Structure, SharedNext \/ PublicLoop,
         NEW e \in Events, e <= arrived, HiddenByOther(e)
  PROVE  HiddenByOther(e)'
<1> USE DEF Structure
<1>1. PICK v \in Watchers :
          since[v] < e /\ (v \in subs \/ e <= until[v]) /\ ~CheckTenancy(v, e)
  BY DEF HiddenByOther
<1>2. wpc[v] \notin {"idle", "subscribe"}
  <2>1. CASE v \in subs
    BY <2>1 DEF Subscribed
  <2>2. CASE e <= until[v]
    <3>1. until[v] # 0
      BY <2>2, EventsAssumption DEF Events
    <3> QED
      BY <3>1 DEF Subscribed
  <2> QED
    BY <1>1, <2>1, <2>2
<1>3. since'[v] = since[v] /\ (v \in subs' \/ e <= until'[v])
  <2>1. CASE UNCHANGED <<since, subs, until>>
    BY <1>1, <2>1
  <2>2. ASSUME NEW w \in Watchers, Subscribe(w)
        PROVE  since'[v] = since[v] /\ (v \in subs' \/ e <= until'[v])
    BY <1>1, <1>2, <2>2 DEF Subscribe, TypeOK
  <2>3. ASSUME NEW w \in Watchers, Unsubscribe(w)
        PROVE  since'[v] = since[v] /\ (v \in subs' \/ e <= until'[v])
    <3>1. since' = since /\ subs' = subs \ {w} /\ until' = [until EXCEPT ![w] = arrived]
      BY <2>3 DEF Unsubscribe
    <3> QED
      BY <1>1, <3>1 DEF TypeOK
  <2> QED
    BY <2>1, <2>2, <2>3
       DEF SharedNext, ClientStep, WatchStep, Watch, Cancel, Forward, ContextDone,
           HandOver, Finish, PublicLoop, PublicReceive, PublicVisit, watcher
<1> QED
  BY <1>1, <1>3 DEF HiddenByOther, CheckTenancy, ExtractTenants

\* The loop leaves what clients have got as it is.  What becomes due to a client without
\* being sent isn't wanted, or is hidden by who ended the loop.
LEMMA PublicLoopEffect ==
  ASSUME Structure, Sendable, PublicLoop, NEW w \in Watchers, (w \in Following)'
  PROVE  /\ w \in Following /\ Got(w)' = Got(w)
         /\ Due(w) \subseteq Due(w)'
         /\ \A e \in Due(w)' \intersect Wanted(w) : e \in Due(w) \/ HiddenByOther(e)'
<1> DEFINE Goal == /\ Due(w) \subseteq Due(w)'
                   /\ \A e \in Due(w)' \intersect Wanted(w) : e \in Due(w) \/ HiddenByOther(e)'
<1> USE EventsAssumption DEF Structure, Following
<1>1. w \in Following /\ Got(w)' = Got(w) /\ since'[w] = since[w]
  BY DEF PublicLoop, PublicReceive, PublicVisit, watcher, Got
<1>2. CASE PublicReceive
  <2>1. /\ lpc = "wait" /\ arrived' = arrived + 1 /\ arrived \in Nat
        /\ \/ arrived + 1 \in HubEvents /\ todo' = todo
           \/ todo' = subs
        /\ target' = target
    BY <1>2 DEF PublicReceive, TypeOK
  <2>2. Processed(w) = arrived /\ w \in subs /\ todo = {} /\ target = NoWatcher
    BY <1>1, <2>1 DEF Processed, Visiting, Subscribed
  <2>3. CASE todo' = subs
    <3>1. Processed(w)' = arrived
      BY <2>1, <2>2, <2>3 DEF Processed
    <3> QED
      BY <1>1, <2>2, <3>1 DEF Due
  <2>4. CASE arrived + 1 \in HubEvents /\ todo' = todo
    <3>1. Processed(w)' = arrived + 1
      BY <2>1, <2>2, <2>4 DEF Processed
    <3>2. \A e \in Events : e <= arrived + 1 <=> (e <= arrived \/ e = arrived + 1)
      BY <2>1 DEF Events
    <3>3. Due(w) = {e \in Events : since[w] < e /\ e <= arrived}
      BY <2>2 DEF Due
    <3>4. Due(w)' = {e \in Events : since[w] < e /\ e <= arrived + 1}
      BY <1>1, <3>1 DEF Due
    <3>5. Due(w)' \subseteq Due(w) \union {arrived + 1} /\ Due(w) \subseteq Due(w)'
      BY <3>2, <3>3, <3>4
    <3> QED
      BY <1>1, <2>4, <3>5 DEF Wanted
  <2> QED
    BY <1>1, <2>1, <2>3, <2>4
<1>3. ASSUME NEW v \in Watchers, PublicVisit(v) PROVE Goal
  <2>1. lpc = "visit" /\ v \in todo /\ arrived' = arrived /\ arrived \in Nat
    BY <1>3 DEF PublicVisit, TypeOK
  <2>2. target = NoWatcher
    BY <2>1 DEF Visiting
  <2>3. \A e \in Events : e # arrived => (e <= arrived <=> e <= arrived - 1)
    BY <2>1 DEF Events
  <2>4. \/ Processed(w)' = Processed(w)
        \/ Processed(w) = arrived - 1 /\ Processed(w)' = arrived
    BY <2>1, <2>2, <1>3 DEF PublicVisit, Processed
  <2>5. Due(w) \subseteq Due(w)' /\ Due(w)' \subseteq Due(w) \union {arrived}
    BY <1>1, <2>1, <2>3, <2>4 DEF Due
  <2>6. CASE ~CheckTenancy(v, arrived)
    <3>1. v \in subs /\ since[v] < arrived
      <4>1. Processed(v) = arrived - 1 /\ v \in subs
        BY <2>1 DEF Processed, Visiting
      <4>2. since[v] \in Nat /\ since[v] <= arrived - 1
        BY <4>1 DEF TypeOK, Subscribed
      <4> QED
        BY <2>1, <4>1, <4>2
    <3>2. subs' = subs /\ since' = since
      BY <1>3 DEF PublicVisit, watcher
    <3>3. HiddenByOther(arrived)'
      BY <2>1, <2>6, <3>1, <3>2 DEF HiddenByOther, CheckTenancy, ExtractTenants
    <3> QED
      BY <2>1, <2>5, <3>3
  <2>7. CASE CheckTenancy(v, arrived)
    <3>1. /\ todo' = todo \ {v}
          /\ \/ target' = v
             \/ target' = target /\ arrived \notin Accepts[v]
      BY <1>3, <2>7 DEF PublicVisit
    <3>2. CASE w = v /\ arrived \notin Accepts[v]
      BY <2>5, <3>2 DEF Wanted
    <3>3. CASE w # v \/ target' = v
      <4>1. Processed(w)' = Processed(w)
        BY <2>1, <2>2, <3>1, <3>3 DEF Processed
      <4> QED
        BY <1>1, <4>1 DEF Due
    <3> QED
      BY <3>1, <3>2, <3>3
  <2> QED
    BY <2>6, <2>7
<1> QED
  BY <1>1, <1>2, <1>3 DEF PublicLoop

----------------------------------------------------------------------------
(* The inductive invariant *)

\* Initially nobody has got anything.
LEMMA InitPublicIInv == Init => PublicIInv
<1> SUFFICES ASSUME Init PROVE PublicIInv
  OBVIOUS
<1>1. \A w \in Watchers :
          wpc[w] \notin {"select", "forward"} /\ sent[w] = <<>> /\ held[w] = 0
  BY DEF Init
<1>2. MissedOnlyForOthers
  BY <1>1, Zenon DEF MissedOnlyForOthers
<1>3. AllWanted
  BY <1>1 DEF AllWanted, Received
<1> QED
  BY <1>2, <1>3, InitStructure DEF Init, PublicIInv, Sendable

\* The listener goes on sending only what it should.
LEMMA SendableStep ==
  ASSUME Structure, Sendable, SharedNext \/ PublicLoop
  PROVE  Sendable'
<1> USE DEF Structure, Sendable
<1>1. CASE SharedNext
  <2>1. /\ arrived' = arrived
        /\ \/ lpc' = lpc /\ target' = target
           \/ lpc' \in {"visit", "wait"} /\ lpc # "wait" /\ target' = NoWatcher
    BY <1>1 DEF SharedNext, ClientStep, WatchStep, Watch, Cancel, Subscribe, Forward,
                ContextDone, Unsubscribe, HandOver, Finish, listener, Visiting
  <2> QED
    BY <2>1 DEF Wanted, CheckTenancy, ExtractTenants
<1>2. CASE PublicReceive
  BY <1>2 DEF PublicReceive, Visiting
<1>3. ASSUME NEW v \in Watchers, PublicVisit(v) PROVE Sendable'
  BY <1>3 DEF PublicVisit, Visiting, Wanted, CheckTenancy, ExtractTenants
<1> QED
  BY <1>1, <1>2, <1>3 DEF PublicLoop

\* What is received is what the listener sends, and nothing else.
LEMMA AllWantedStep ==
  ASSUME Structure, Sendable, AllWanted, SharedNext \/ PublicLoop
  PROVE  AllWanted'
<1> USE DEF Structure
<1>1. ASSUME NEW w \in Watchers
      PROVE  Received(w)' \subseteq Received(w) \union (IF target = w THEN {arrived} ELSE {})
  <2>1. CASE UNCHANGED <<sent, held>>
    BY <2>1 DEF Received
  <2>2. ASSUME NEW v \in Watchers, Forward(v)
        PROVE  Received(w)' \subseteq Received(w)
    <3>1. CASE v = w /\ sent' # sent
      <4>1. sent[w] \in Seq(Events) /\ held[w] \in Events
        BY <2>2, <3>1, GotEvents DEF Forward, Subscribed
      <4>2. sent'[w] = Append(sent[w], held[w]) /\ held'[w] = 0
        BY <2>2, <3>1 DEF Forward, TypeOK
      <4>3. /\ \A i \in DOMAIN sent'[w] : i \in DOMAIN sent[w] \/ i = Len(sent[w]) + 1
            /\ \A i \in DOMAIN sent[w] : sent'[w][i] = sent[w][i]
            /\ sent'[w][Len(sent[w]) + 1] = held[w]
        BY <4>1, <4>2
      <4>4. held[w] # 0
        BY <4>1 DEF Events
      <4> QED
        BY <4>2, <4>3, <4>4 DEF Received
    <3>2. CASE ~(v = w /\ sent' # sent)
      <4>1. sent'[w] = sent[w] /\ held'[w] \in {held[w], 0}
        BY <2>2, <3>2 DEF Forward, TypeOK
      <4> QED
        BY <4>1 DEF Received
    <3> QED
      BY <3>1, <3>2
  <2>3. CASE HandOver
    BY <2>3 DEF HandOver, Received, TypeOK
  <2> QED
    BY <2>1, <2>2, <2>3
       DEF SharedNext, ClientStep, WatchStep, Watch, Cancel, Subscribe, ContextDone,
           Unsubscribe, Finish, PublicLoop, PublicReceive, PublicVisit, watcher
<1>2. ASSUME NEW w \in Watchers, target = w PROVE arrived \in Wanted(w)
  BY <1>2, EventsAssumption DEF Sendable
<1>3. ASSUME NEW w \in Watchers PROVE Received(w)' \subseteq Wanted(w)
  BY <1>1, <1>2 DEF AllWanted
<1> QED
  BY <1>3 DEF AllWanted, Wanted, CheckTenancy, ExtractTenants

\* Nobody misses an event, unless it is hidden.
LEMMA MissedOnlyForOthersStep ==
  ASSUME PublicIInv, SharedNext \/ PublicLoop
  PROVE  MissedOnlyForOthers'
<1> DEFINE Elements(s) == {s[i] : i \in DOMAIN s}
           Fine(w) ==
               /\ InOrder(Got(w))
               /\ Elements(Got(w)) \subseteq Due(w) \intersect Wanted(w)
               /\ \A e \in Due(w) \intersect Wanted(w) :
                      (\E i \in DOMAIN Got(w) : Got(w)[i] = e) \/ HiddenByOther(e)
<1> USE DEF PublicIInv
<1>1. ASSUME NEW w \in Watchers, w \in Following PROVE Fine(w)
  BY <1>1 DEF MissedOnlyForOthers, Following
<1>2. ASSUME NEW w \in Watchers, NEW e \in Due(w), HiddenByOther(e) PROVE HiddenByOther(e)'
  <2>1. e \in Events /\ e <= arrived
    BY <1>2, EventsAssumption DEF Due, Processed, Structure, TypeOK, Events
  <2> QED
    BY <1>2, <2>1, HiddenForGood
<1>3. ASSUME NEW w \in Watchers PROVE Wanted(w)' = Wanted(w)
  BY DEF Wanted, CheckTenancy, ExtractTenants
<1>4. ASSUME NEW w \in Watchers, (w \in Following)' PROVE Fine(w)'
  <2>1. CASE w \in Following /\ Got(w)' = Got(w) /\ Due(w) \subseteq Due(w)'
             /\ \A e \in Due(w)' \intersect Wanted(w) : e \in Due(w) \/ HiddenByOther(e)'
    <3>1. Fine(w)
      BY <1>1, <2>1
    <3>2. InOrder(Got(w))'
      BY <2>1, <3>1 DEF InOrder
    <3>3. Elements(Got(w))' \subseteq Due(w)' \intersect Wanted(w)'
      BY <1>3, <2>1, <3>1
    <3>4. ASSUME NEW e \in Due(w)' \intersect Wanted(w)'
          PROVE  (\E i \in DOMAIN Got(w) : Got(w)[i] = e)' \/ HiddenByOther(e)'
      BY <1>2, <1>3, <2>1, <3>1, <3>4
    <3> QED
      BY <3>2, <3>3, <3>4
  <2>2. CASE SharedNext /\ Unaffected(w)
    BY <2>1, <2>2 DEF Unaffected
  <2>3. CASE SharedNext /\ Starts(w)
    BY <2>3 DEF Starts, InOrder
  <2>4. CASE SharedNext /\ Gets(w)
    <3>1. Fine(w)
      BY <1>1, <2>4 DEF Gets
    <3>2. Got(w) \in Seq(Events) /\ \A i \in DOMAIN Got(w) : Got(w)[i] < arrived
      BY <2>4, <3>1, GotEvents DEF Structure, Subscribed, Gets
    <3>3. /\ InOrder(Append(Got(w), arrived))
          /\ Elements(Append(Got(w), arrived)) = Elements(Got(w)) \union {arrived}
      BY <2>4, <3>1, <3>2, AppendInOrder DEF Gets
    <3>4. arrived \in Wanted(w)
      BY <2>4, EventsAssumption DEF Sendable, Gets
    <3>5. InOrder(Got(w))'
      BY <2>4, <3>3 DEF Gets, InOrder
    <3>6. Elements(Got(w))' = Elements(Got(w)) \union {arrived}
      BY <2>4, <3>3 DEF Gets
    <3>7. Elements(Got(w))' \subseteq Due(w)' \intersect Wanted(w)'
      BY <1>3, <2>4, <3>1, <3>4, <3>6 DEF Gets
    <3>8. ASSUME NEW e \in Due(w)' \intersect Wanted(w)'
          PROVE  e \in Elements(Got(w))' \/ HiddenByOther(e)'
      BY <1>2, <1>3, <2>4, <3>1, <3>6, <3>8 DEF Gets
    <3> QED
      BY <3>5, <3>7, <3>8
  <2> QED
    BY <1>4, <2>1, <2>2, <2>3, <2>4, SharedEffect, PublicLoopEffect
<1> QED
  BY <1>4 DEF MissedOnlyForOthers, Following

\* A step that changes nothing changes nothing that is promised.
LEMMA PublicStutter == PublicIInv /\ UNCHANGED vars => PublicIInv'
<1> SUFFICES ASSUME PublicIInv, UNCHANGED vars PROVE PublicIInv'
  OBVIOUS
<1> USE DEF vars, PublicIInv
<1>1. Structure'
  BY DEF Structure, TypeOK, Visiting, Subscribed, Processed
<1>2. Sendable'
  BY DEF Sendable, Wanted, CheckTenancy, ExtractTenants
<1>3. AllWanted'
  BY DEF AllWanted, Received, Wanted, CheckTenancy, ExtractTenants
<1>4. \A w \in Watchers : Got(w)' = Got(w) /\ Due(w)' = Due(w) /\ Wanted(w)' = Wanted(w)
  BY DEF Got, Due, Processed, Wanted, CheckTenancy, ExtractTenants
<1>5. \A e : HiddenByOther(e) => HiddenByOther(e)'
  BY DEF HiddenByOther, CheckTenancy, ExtractTenants
<1>6. MissedOnlyForOthers'
  BY <1>4, <1>5 DEF MissedOnlyForOthers, InOrder
<1> QED
  BY <1>1, <1>2, <1>3, <1>6

\* Every step of the public server preserves the inductive invariant.
LEMMA NextPublicIInv == PublicIInv /\ [PublicNext]_vars => PublicIInv'
<1> SUFFICES ASSUME PublicIInv, [PublicNext]_vars PROVE PublicIInv'
  OBVIOUS
<1>1. SharedNext \/ PublicLoop \/ UNCHANGED vars
  BY DEF PublicNext, SharedNext, PublicLoop
<1>2. CASE SharedNext \/ PublicLoop
  BY <1>2, SharedStructure, PublicLoopStructure, SendableStep, AllWantedStep,
     MissedOnlyForOthersStep DEF PublicIInv
<1> QED
  BY <1>1, <1>2, PublicStutter

(***************************************************************************)
(* Nobody receives an event that its filter rejects, or of a hub, or of an *)
(* object of other tenants, with the default logic of tenants or with that *)
(* of service accounts (processPayload, processEvent, checkTenancy,        *)
(* DetermineAssignedTenants, DetermineVisibleTenants).                     *)
(***************************************************************************)
THEOREM NobodyGetsOthersEvents == PublicSpec => []OnlyWanted
<1>1. PublicIInv => OnlyWanted
  <2> SUFFICES ASSUME PublicIInv, NEW w \in Watchers, NEW e \in Received(w)
               PROVE  e \in Accepts[w] \ HubEvents /\ OfTheirTenants(w, e)
    BY DEF OnlyWanted, Received
  <2>1. e \in Accepts[w] \ HubEvents /\ CheckTenancy(w, e)
    BY DEF PublicIInv, AllWanted, Wanted
  <2>2. e \in Events
    BY <2>1, EventsAssumption
  <2> QED
    BY <2>1, <2>2, VisibleIsTheirs
<1> QED
  BY <1>1, InitPublicIInv, NextPublicIInv, PTL DEF PublicSpec

(***************************************************************************)
(* What a client gets is wanted and in order, and it misses a wanted event *)
(* only if somebody who can't see the event was subscribed when it arrived *)
(* (Watch, processPayload, processEvent).                                  *)
(***************************************************************************)
THEOREM NothingElseIsMissed == PublicSpec => []MissedOnlyForOthers
<1>1. PublicIInv => MissedOnlyForOthers
  BY DEF PublicIInv
<1> QED
  BY <1>1, InitPublicIInv, NextPublicIInv, PTL DEF PublicSpec
=============================================================================
