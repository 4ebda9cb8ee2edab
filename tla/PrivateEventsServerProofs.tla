---------------------- MODULE PrivateEventsServerProofs ----------------------
(***************************************************************************)
(* The safety properties of PrivateEventsServer hold in every behaviour,   *)
(* for any watchers, filters, events and number of clients that go away.   *)
(* The lemmas about the steps that the public server shares are used by    *)
(* EventsServerProofs too.                                                 *)
(***************************************************************************)
EXTENDS PrivateEventsServer, TLAPS

\* The listener visits and sends only while it has the lock, and only to those
\* that are subscribed; it has not visited yet the one that it is sending to.
Visiting ==
    /\ lpc = "wait" => todo = {}
    /\ lpc # "wait" => arrived > 0
    /\ lpc = "send" <=> target # NoWatcher
    /\ todo \subseteq subs
    /\ target # NoWatcher => target \in subs
    /\ target \notin todo

\* The goroutines of Watch are subscribed while they need it, and close their
\* channel when they end.
Subscribed ==
    /\ subs = {w \in Watchers : wpc[w] \in {"select", "forward", "unsubscribe"}}
    /\ \A w \in closed : wpc[w] = "done"
    /\ \A w \in Watchers :
           /\ wpc[w] \in {"idle", "subscribe"} => sent[w] = <<>> /\ until[w] = 0
           /\ wpc[w] = "forward" => held[w] # 0
    /\ \A w \in subs : since[w] <= Processed(w)

\* What holds of the lock, the subscriptions and the goroutines, whatever the
\* filters are.
Structure == TypeOK /\ Visiting /\ Subscribed

\* The steps that the private and the public server have in common.
SharedNext ==
    \/ \E w \in Watchers : ClientStep(w) \/ WatchStep(w)
    \/ HandOver
    \/ Finish

----------------------------------------------------------------------------
(* Sequences of events *)

\* A later event at the end of what a client got keeps the order.
LEMMA AppendInOrder ==
  ASSUME NEW s \in Seq(Events), NEW e \in Events, InOrder(s),
         \A i \in DOMAIN s : s[i] < e
  PROVE  /\ InOrder(Append(s, e))
         /\ {Append(s, e)[i] : i \in DOMAIN Append(s, e)}
                = {s[i] : i \in DOMAIN s} \union {e}
<1> DEFINE t == Append(s, e)
<1>1. /\ DOMAIN s = 1..Len(s) /\ Len(s) \in Nat
      /\ DOMAIN t = 1..(Len(s) + 1)
      /\ \A i \in 1..Len(s) : t[i] = s[i]
      /\ t[Len(s) + 1] = e
  OBVIOUS
<1> HIDE DEF t
<1>2. InOrder(t)
  BY <1>1 DEF InOrder
<1>3. {t[i] : i \in DOMAIN t} = {s[i] : i \in DOMAIN s} \union {e}
  BY <1>1
<1> QED
  BY <1>2, <1>3 DEF t

\* What a call to Watch has got are events.
LEMMA GotEvents ==
  ASSUME TypeOK, NEW w \in Watchers, wpc[w] = "forward" => held[w] # 0
  PROVE  /\ sent[w] \in Seq(Events)
         /\ wpc[w] = "forward" => held[w] \in Events
         /\ Got(w) \in Seq(Events)
<1>1. sent[w] \in Seq(Events)
  BY DEF TypeOK
<1>2. wpc[w] = "forward" => held[w] \in Events
  BY EventsAssumption DEF TypeOK, Events
<1> QED
  BY <1>1, <1>2 DEF Got

----------------------------------------------------------------------------
(* The lock and the subscriptions *)

\* Initially nobody is subscribed.
LEMMA InitStructure == Init => Structure
  BY EventsAssumption
     DEF Init, Structure, TypeOK, Visiting, Subscribed, Processed

\* The goroutines of Watch, the two sides of a channel, and the end of the loop
\* respect the lock.
LEMMA SharedStructure == Structure /\ SharedNext => Structure'
<1> SUFFICES ASSUME Structure, SharedNext PROVE Structure'
  OBVIOUS
<1> USE EventsAssumption DEF Structure
<1>1. ASSUME NEW w \in Watchers, Watch(w) PROVE Structure'
  BY <1>1 DEF Watch, Goto, listener, TypeOK, Visiting, Subscribed, Processed
<1>2. ASSUME NEW w \in Watchers, Cancel(w) PROVE Structure'
  BY <1>2 DEF Cancel, listener, watcher, TypeOK, Visiting, Subscribed, Processed
<1>3. ASSUME NEW w \in Watchers, Subscribe(w) PROVE Structure'
  BY <1>3 DEF Subscribe, ReadLocked, Goto, listener, TypeOK, Visiting, Subscribed, Processed
<1>4. ASSUME NEW w \in Watchers, Forward(w) PROVE Structure'
  <2>1. Append(sent[w], held[w]) \in Seq(Events)
    BY <1>4, GotEvents DEF Forward, Subscribed
  <2>2. sent' \in [Watchers -> Seq(Events)]
    BY <1>4, <2>1 DEF Forward, TypeOK
  <2>3. held' \in [Watchers -> 0..MaxEvents]
    BY <1>4 DEF Forward, TypeOK
  <2>4. wpc' \in [Watchers -> {"idle", "subscribe", "select", "forward", "unsubscribe", "done"}]
    BY <1>4 DEF Forward, Goto, TypeOK
  <2>5. TypeOK'
    BY <1>4, <2>2, <2>3, <2>4 DEF Forward, listener, TypeOK
  <2>6. Visiting'
    BY <1>4 DEF Forward, Goto, listener, Visiting
  <2>7. Subscribed'
    BY <1>4 DEF Forward, Goto, listener, TypeOK, Subscribed, Processed
  <2> QED
    BY <2>5, <2>6, <2>7
<1>5. ASSUME NEW w \in Watchers, ContextDone(w) PROVE Structure'
  BY <1>5 DEF ContextDone, Goto, listener, TypeOK, Visiting, Subscribed, Processed
<1>6. ASSUME NEW w \in Watchers, Unsubscribe(w) PROVE Structure'
  BY <1>6 DEF Unsubscribe, ReadLocked, Goto, listener, TypeOK, Visiting, Subscribed, Processed
<1>7. CASE HandOver
  <2>1. PICK w \in Watchers : w = target /\ w \in subs /\ w \notin todo /\ arrived > 0
    BY <1>7, Zenon DEF HandOver, Visiting, TypeOK
  <2>2. /\ wpc[w] = "select"
        /\ wpc' = [wpc EXCEPT ![w] = "forward"]
        /\ held' = [held EXCEPT ![w] = arrived]
        /\ lpc' = "visit" /\ target' = NoWatcher
        /\ UNCHANGED <<arrived, todo, subs, cancelled, closed, sent, since, until>>
    BY <1>7, <2>1 DEF HandOver, Goto
  <2>3. TypeOK'
    <3>1. /\ wpc' \in [Watchers -> {"idle", "subscribe", "select", "forward", "unsubscribe", "done"}]
          /\ held' \in [Watchers -> 0..MaxEvents]
      BY <2>2 DEF TypeOK
    <3> QED
      BY <2>2, <3>1 DEF TypeOK
  <2>4. Visiting'
    BY <2>1, <2>2 DEF TypeOK, Visiting
  <2>5. Subscribed'
    <3>1. \A v \in Watchers : /\ wpc'[v] = IF v = w THEN "forward" ELSE wpc[v]
                              /\ held'[v] = IF v = w THEN arrived ELSE held[v]
      BY <2>2 DEF TypeOK
    <3>2. subs' = {v \in Watchers : wpc'[v] \in {"select", "forward", "unsubscribe"}}
      BY <2>1, <2>2, <3>1 DEF Subscribed
    <3>3. \A v \in closed' : wpc'[v] = "done"
      BY <2>2, <3>1 DEF Subscribed, TypeOK
    <3>4. \A v \in Watchers :
              /\ wpc'[v] \in {"idle", "subscribe"} => sent'[v] = <<>> /\ until'[v] = 0
              /\ wpc'[v] = "forward" => held'[v] # 0
      BY <2>1, <2>2, <3>1 DEF Subscribed
    <3>5. \A v \in subs' : since'[v] <= Processed(v)'
      BY <2>1, <2>2 DEF TypeOK, Visiting, Subscribed, Processed
    <3> QED
      BY <3>2, <3>3, <3>4, <3>5 DEF Subscribed
  <2> QED
    BY <2>3, <2>4, <2>5
<1>8. CASE Finish
  BY <1>8 DEF Finish, watcher, TypeOK, Visiting, Subscribed, Processed
<1> QED
  BY <1>1, <1>2, <1>3, <1>4, <1>5, <1>6, <1>7, <1>8
     DEF SharedNext, ClientStep, WatchStep

----------------------------------------------------------------------------
(* What clients get *)

Following == {w \in Watchers : wpc[w] \in {"select", "forward"}}

\* A client goes on with what it has got, starts with nothing, or gets the event
\* that has just arrived.
Unaffected(w) == w \in Following /\ Got(w)' = Got(w) /\ Due(w)' = Due(w)

Starts(w) == Got(w)' = <<>> /\ Due(w)' = {}

Gets(w) ==
    /\ w \in Following /\ target = w
    /\ arrived \in Events
    /\ Got(w)' = Append(Got(w), arrived)
    /\ Due(w)' = Due(w) \union {arrived}
    /\ \A e \in Due(w) : e < arrived

\* These are the only effects of the steps that the two servers share.
LEMMA SharedEffect ==
  ASSUME Structure, SharedNext, NEW w \in Watchers, (w \in Following)'
  PROVE  Unaffected(w) \/ Starts(w) \/ Gets(w)
<1> USE EventsAssumption DEF Structure, Following
<1>1. ASSUME NEW v \in Watchers, ClientStep(v) PROVE Unaffected(w)
  BY <1>1 DEF ClientStep, Watch, Cancel, Goto, listener, watcher, TypeOK,
              Unaffected, Got, Due, Processed
<1>2. ASSUME NEW v \in Watchers, Subscribe(v) PROVE Unaffected(w) \/ Starts(w)
  <2>1. CASE v = w
    <3>1. /\ wpc[w] = "subscribe" /\ wpc'[w] = "select"
          /\ since'[w] = arrived /\ arrived \in Nat
          /\ UNCHANGED <<arrived, todo, target, sent>>
      BY <1>2, <2>1 DEF Subscribe, Goto, listener, TypeOK
    <3>2. todo = {} /\ target = NoWatcher
      BY <1>2 DEF Subscribe, ReadLocked, Visiting
    <3>3. Got(w)' = <<>>
      BY <3>1 DEF Got, Subscribed
    <3>4. Processed(w)' = arrived
      BY <3>1, <3>2 DEF Processed
    <3>5. Due(w)' = {}
      BY <3>1, <3>4 DEF Due, Events
    <3> QED
      BY <3>3, <3>5 DEF Starts
  <2>2. CASE v # w
    BY <1>2, <2>2 DEF Subscribe, Goto, listener, TypeOK, Unaffected, Got, Due, Processed
  <2> QED
    BY <2>1, <2>2
<1>3. ASSUME NEW v \in Watchers, Forward(v) PROVE Unaffected(w)
  BY <1>3 DEF Forward, Goto, listener, TypeOK, Unaffected, Got, Due, Processed
<1>4. ASSUME NEW v \in Watchers, ContextDone(v) \/ Unsubscribe(v) PROVE Unaffected(w)
  BY <1>4 DEF ContextDone, Unsubscribe, Goto, listener, TypeOK,
              Unaffected, Got, Due, Processed
<1>5. CASE HandOver
  <2>1. CASE w # target
    BY <1>5, <2>1 DEF HandOver, Goto, TypeOK, Unaffected, Got, Due, Processed
  <2>2. CASE w = target
    BY <1>5, <2>2 DEF HandOver, Goto, TypeOK, Visiting, Subscribed,
                      Gets, Got, Due, Processed, Events
  <2> QED
    BY <2>1, <2>2
<1>6. CASE Finish
  BY <1>6 DEF Finish, watcher, TypeOK, Visiting, Unaffected, Got, Due, Processed
<1> QED
  BY <1>1, <1>2, <1>3, <1>4, <1>5, <1>6 DEF SharedNext, WatchStep

----------------------------------------------------------------------------
(* The private server *)

\* The listener sends only what the filter accepts.
Filtered == target # NoWatcher => arrived \in Accepts[target]

(***************************************************************************)
(* The inductive invariant: the lock and the subscriptions are in order,   *)
(* the listener sends what filters accept, and there are no gaps.          *)
(***************************************************************************)
IInv == Structure /\ Filtered /\ NoGaps

\* Initially nobody has got anything.
LEMMA InitIInv == Init => IInv
<1> SUFFICES ASSUME Init PROVE IInv
  OBVIOUS
<1>1. \A w \in Watchers : wpc[w] \notin {"select", "forward"}
  BY DEF Init
<1>2. NoGaps
  BY <1>1, Zenon DEF NoGaps
<1> QED
  BY <1>2, InitStructure DEF Init, IInv, Filtered

\* The arrival of an event and the visit of a subscription.
LEMMA LoopStructure ==
  ASSUME Structure, Receive \/ \E v \in Watchers : Visit(v)
  PROVE  Structure'
<1> USE EventsAssumption DEF Structure
<1>1. CASE Receive
  <2>1. /\ lpc = "wait" /\ arrived' = arrived + 1 /\ arrived < MaxEvents
        /\ todo' = subs /\ lpc' = "visit"
        /\ UNCHANGED <<target, subs, cancelled, wpc, held, closed, sent, since, until>>
    BY <1>1 DEF Receive, watcher
  <2>2. TypeOK'
    BY <2>1 DEF TypeOK
  <2>3. Visiting'
    BY <2>1 DEF TypeOK, Visiting
  <2>4. ASSUME NEW w \in subs PROVE since[w] <= Processed(w)'
    <3>1. Processed(w)' = arrived
      BY <2>1 DEF TypeOK, Processed
    <3>2. since[w] <= arrived
      BY <2>1 DEF TypeOK, Visiting, Subscribed, Processed
    <3> QED
      BY <3>1, <3>2
  <2>5. Subscribed'
    BY <2>1, <2>4 DEF Subscribed
  <2> QED
    BY <2>2, <2>3, <2>5
<1>2. ASSUME NEW v \in Watchers, Visit(v) PROVE Structure'
  BY <1>2 DEF Visit, watcher, TypeOK, Visiting, Subscribed, Processed
<1> QED
  BY <1>1, <1>2

\* A visit leaves what clients have got as it is; it settles the event for a client
\* whose filter rejects it.
LEMMA LoopEffect ==
  ASSUME Structure, Receive \/ \E v \in Watchers : Visit(v),
         NEW w \in Watchers, (w \in Following)'
  PROVE  /\ w \in Following /\ Got(w)' = Got(w)
         /\ Due(w)' \intersect Accepts[w] = Due(w) \intersect Accepts[w]
<1> USE EventsAssumption DEF Structure, Following
<1>1. CASE Receive
  BY <1>1 DEF Receive, watcher, TypeOK, Visiting, Subscribed, Got, Due, Processed
<1>2. ASSUME NEW v \in Watchers, Visit(v)
      PROVE  /\ w \in Following /\ Got(w)' = Got(w)
             /\ Due(w)' \intersect Accepts[w] = Due(w) \intersect Accepts[w]
  <2>1. /\ lpc = "visit" /\ v \in todo /\ todo' = todo \ {v}
        /\ \/ target' = v /\ arrived \in Accepts[v]
           \/ target' = target /\ arrived \notin Accepts[v]
        /\ UNCHANGED <<arrived, wpc, held, sent, since>>
    BY <1>2 DEF Visit, watcher
  <2>2. w \in Following /\ Got(w)' = Got(w)
    BY <2>1 DEF Got
  <2>3. target = NoWatcher
    BY <2>1 DEF Visiting
  <2>4. CASE w # v \/ arrived \in Accepts[w]
    <3>1. Processed(w)' = Processed(w)
      BY <2>1, <2>3, <2>4 DEF Processed
    <3> QED
      BY <2>1, <2>2, <3>1 DEF Due
  <2>5. CASE w = v /\ arrived \notin Accepts[w]
    <3>1. Processed(w) = arrived - 1 /\ Processed(w)' = arrived /\ arrived \in Nat
      BY <2>1, <2>3, <2>5 DEF Processed, TypeOK
    <3>2. \A e \in Events : e # arrived => (e <= arrived <=> e <= arrived - 1)
      BY <3>1 DEF Events
    <3>3. since'[w] = since[w]
      BY <2>1
    <3> QED
      BY <2>2, <2>5, <3>1, <3>2, <3>3 DEF Due
  <2> QED
    BY <2>4, <2>5
<1> QED
  BY <1>1, <1>2

\* Every step of the private server preserves the inductive invariant.
LEMMA NextIInv == IInv /\ [Next]_vars => IInv'
<1> SUFFICES ASSUME IInv, [Next]_vars PROVE IInv'
  OBVIOUS
<1> DEFINE Loop == Receive \/ \E v \in Watchers : Visit(v)
<1>1. CASE UNCHANGED vars
  <2>1. \A w \in Watchers : Got(w)' = Got(w) /\ Due(w)' = Due(w) /\ Processed(w)' = Processed(w)
    BY <1>1 DEF vars, Got, Due, Processed
  <2>2. Structure'
    BY <1>1 DEF vars, IInv, Structure, TypeOK, Visiting, Subscribed, Processed
  <2>3. Filtered'
    BY <1>1 DEF vars, IInv, Filtered
  <2>4. NoGaps'
    BY <1>1, <2>1 DEF vars, IInv, NoGaps, InOrder
  <2> QED
    BY <2>2, <2>3, <2>4 DEF IInv
<1>2. SharedNext \/ Loop \/ UNCHANGED vars
  BY DEF Next, SharedNext
<1>3. SharedNext \/ Loop => Structure'
  BY SharedStructure, LoopStructure DEF IInv
<1>4. SharedNext \/ Loop => Filtered'
  <2>1. CASE SharedNext
    BY <2>1 DEF IInv, Structure, TypeOK, Filtered, SharedNext, ClientStep, WatchStep,
                Watch, Cancel, Subscribe, Forward, ContextDone, Unsubscribe, HandOver,
                Finish, listener
  <2>2. CASE Loop
    BY <2>2 DEF IInv, Structure, Visiting, Filtered, Receive, Visit
  <2> QED
    BY <2>1, <2>2
<1>5. ASSUME SharedNext \/ Loop, NEW w \in Watchers, (w \in Following)'
      PROVE  /\ InOrder(Got(w))'
             /\ {Got(w)[i] : i \in DOMAIN Got(w)}' = Due(w)' \intersect Accepts[w]
  <2>1. CASE w \in Following /\ Got(w)' = Got(w)
             /\ Due(w)' \intersect Accepts[w] = Due(w) \intersect Accepts[w]
    BY <2>1 DEF IInv, NoGaps, Following, InOrder
  <2>2. CASE SharedNext /\ Unaffected(w)
    BY <2>1, <2>2 DEF Unaffected
  <2>3. CASE SharedNext /\ Starts(w)
    BY <2>3 DEF Starts, InOrder
  <2>4. CASE SharedNext /\ Gets(w)
    <3>1. InOrder(Got(w)) /\ {Got(w)[i] : i \in DOMAIN Got(w)} = Due(w) \intersect Accepts[w]
      BY <2>4 DEF IInv, NoGaps, Following, Gets
    <3>2. Got(w) \in Seq(Events) /\ \A i \in DOMAIN Got(w) : Got(w)[i] < arrived
      BY <2>4, <3>1, GotEvents DEF IInv, Structure, Subscribed, Gets
    <3>3. /\ InOrder(Append(Got(w), arrived))
          /\ {Append(Got(w), arrived)[i] : i \in DOMAIN Append(Got(w), arrived)}
                 = {Got(w)[i] : i \in DOMAIN Got(w)} \union {arrived}
      BY <2>4, <3>1, <3>2, AppendInOrder DEF Gets
    <3>4. arrived \in Accepts[w]
      BY <2>4, EventsAssumption DEF IInv, Filtered, Gets
    <3>5. InOrder(Got(w))'
      BY <2>4, <3>3 DEF Gets, InOrder
    <3> QED
      BY <2>4, <3>1, <3>3, <3>4, <3>5 DEF Gets
  <2> QED
    BY <1>5, <2>1, <2>2, <2>3, <2>4, SharedEffect, LoopEffect DEF IInv
<1>6. SharedNext \/ Loop => NoGaps'
  BY <1>5 DEF NoGaps, Following
<1> QED
  BY <1>1, <1>2, <1>3, <1>4, <1>6 DEF IInv

(***************************************************************************)
(* The state of the private server keeps its types.                        *)
(***************************************************************************)
THEOREM TypeCorrect == Spec => []TypeOK
<1>1. IInv => TypeOK
  BY DEF IInv, Structure
<1> QED
  BY <1>1, InitIInv, NextIInv, PTL DEF Spec

(***************************************************************************)
(* The listener never sends on a closed channel (deferred function of      *)
(* Watch, processEvent).                                                   *)
(***************************************************************************)
THEOREM NeverSendsOnClosed == Spec => []NoSendOnClosed
<1>1. IInv => NoSendOnClosed
  BY EventsAssumption DEF IInv, Structure, TypeOK, Visiting, Subscribed, NoSendOnClosed
<1> QED
  BY <1>1, InitIInv, NextIInv, PTL DEF Spec

(***************************************************************************)
(* Every client gets exactly the accepted events since its subscription,   *)
(* in order (Watch, processEvent).                                         *)
(***************************************************************************)
THEOREM DeliveryWithoutGaps == Spec => []NoGaps
<1>1. IInv => NoGaps
  BY DEF IInv
<1> QED
  BY <1>1, InitIInv, NextIInv, PTL DEF Spec
=============================================================================
