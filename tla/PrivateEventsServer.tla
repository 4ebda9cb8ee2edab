------------------------ MODULE PrivateEventsServer ------------------------
(***************************************************************************)
(* The private events server: the goroutine of the notification listener   *)
(* runs processEvent, which hands each event to the subscriptions over     *)
(* unbuffered channels while it holds the read lock of the subscriptions;  *)
(* each call to Watch is a goroutine that adds a subscription, forwards    *)
(* the events to its client, and removes the subscription when it ends.    *)
(*                                                                         *)
(* The listener is the only reader of the lock, so the critical sections   *)
(* of the writers, that don't block, are single steps that wait for it.    *)
(***************************************************************************)
EXTENDS Naturals, Sequences, FiniteSets

CONSTANTS
    Watchers,    \* calls to Watch
    Accepts,     \* the events that the filter of each call accepts
    MaxEvents,   \* bound on the number of events
    MaxCancels,  \* bound on the number of clients that go away
    NoWatcher

\* Events are numbered in the order of their notifications.
Events == 1..MaxEvents

ASSUME EventsAssumption ==
    /\ MaxEvents \in Nat
    /\ MaxCancels \in Nat
    /\ Accepts \in [Watchers -> SUBSET Events]
    /\ NoWatcher \notin Watchers

VARIABLES
    arrived,    \* the last event that the listener took
    lpc,        \* what the listener does: waits, visits subscriptions, or sends
    todo,       \* subscriptions that processEvent has not visited yet
    target,     \* the subscription that the listener is sending to
    subs,       \* the subscriptions
    wpc,        \* what each call to Watch does
    held,       \* the event that a call to Watch has received and not sent
    cancelled,  \* calls whose stream context is done
    closed,     \* subscriptions whose channel is closed
    sent,       \* events sent to each client
    since,      \* the last event before the subscription (history)
    until       \* the last event before the end of the subscription (history)

listener == <<arrived, lpc, todo, target>>
watcher == <<wpc, held, closed, sent, since, until>>
vars == <<arrived, lpc, todo, target, subs, wpc, held, cancelled, closed, sent, since,
          until>>

Init ==
    /\ arrived = 0
    /\ lpc = "wait"
    /\ todo = {}
    /\ target = NoWatcher
    /\ subs = {}
    /\ wpc = [w \in Watchers |-> "idle"]
    /\ held = [w \in Watchers |-> 0]
    /\ cancelled = {}
    /\ closed = {}
    /\ sent = [w \in Watchers |-> <<>>]
    /\ since = [w \in Watchers |-> 0]
    /\ until = [w \in Watchers |-> 0]

\* The listener holds the read lock while processEvent runs.
ReadLocked == lpc # "wait"

Goto(w, label) == wpc' = [wpc EXCEPT ![w] = label]

----------------------------------------------------------------------------
(* Watch *)

\* The client calls Watch; a filter that doesn't compile ends the call.
Watch(w) ==
    /\ wpc[w] = "idle"
    /\ Goto(w, "subscribe") \/ Goto(w, "done")
    /\ UNCHANGED <<listener, subs, held, cancelled, closed, sent, since, until>>

\* Add the subscription, under the write lock.
Subscribe(w) ==
    /\ wpc[w] = "subscribe"
    /\ ~ReadLocked
    /\ subs' = subs \union {w}
    /\ since' = [since EXCEPT ![w] = arrived]
    /\ Goto(w, "select")
    /\ UNCHANGED <<listener, held, cancelled, closed, sent, until>>

\* The client goes away, or the server ends the stream.
Cancel(w) ==
    /\ wpc[w] \in {"subscribe", "select", "forward"}
    /\ w \notin cancelled
    /\ Cardinality(cancelled) < MaxCancels
    /\ cancelled' = cancelled \union {w}
    /\ UNCHANGED <<listener, subs, watcher>>

\* Send the event to the client.  It fails only if the stream is done.
Forward(w) ==
    /\ wpc[w] = "forward"
    /\ \/ /\ sent' = [sent EXCEPT ![w] = Append(@, held[w])]
          /\ Goto(w, "select")
       \/ /\ w \in cancelled
          /\ Goto(w, "unsubscribe")
          /\ UNCHANGED sent
    /\ held' = [held EXCEPT ![w] = 0]
    /\ UNCHANGED <<listener, subs, cancelled, closed, since, until>>

\* The select statement notices that the context is done.
ContextDone(w) ==
    /\ wpc[w] = "select"
    /\ w \in cancelled
    /\ Goto(w, "unsubscribe")
    /\ UNCHANGED <<listener, subs, held, cancelled, closed, sent, since, until>>

\* Mutant of Unsubscribe: the deferred function doesn't take the lock.
UnsubscribeUnlocked(w) ==
    /\ wpc[w] = "unsubscribe"
    /\ subs' = subs \ {w}
    /\ closed' = closed \union {w}
    /\ until' = [until EXCEPT ![w] = arrived]
    /\ Goto(w, "done")
    /\ UNCHANGED <<listener, held, cancelled, sent, since>>

\* The deferred function removes the subscription and closes its channel,
\* under the write lock.
Unsubscribe(w) ==
    /\ wpc[w] = "unsubscribe"
    /\ ~ReadLocked
    /\ subs' = subs \ {w}
    /\ closed' = closed \union {w}
    /\ until' = [until EXCEPT ![w] = arrived]
    /\ Goto(w, "done")
    /\ UNCHANGED <<listener, held, cancelled, sent, since>>

----------------------------------------------------------------------------
(* processEvent *)

\* A notification arrives, and processEvent takes the read lock.
Receive ==
    /\ lpc = "wait"
    /\ arrived < MaxEvents
    /\ arrived' = arrived + 1
    /\ todo' = subs
    /\ lpc' = "visit"
    /\ UNCHANGED <<target, subs, cancelled, watcher>>

\* Mutant of Visit: the loop ends at the first subscription that rejects.
VisitUntilRejected(w) ==
    /\ lpc = "visit"
    /\ w \in todo
    /\ \/ /\ arrived \in Accepts[w]
          /\ todo' = todo \ {w}
          /\ lpc' = "send"
          /\ target' = w
       \/ /\ arrived \notin Accepts[w]
          /\ todo' = {}
          /\ UNCHANGED <<lpc, target>>
    /\ UNCHANGED <<arrived, subs, cancelled, watcher>>

\* The loop takes the next subscription, in any order, and evaluates its
\* filter.
Visit(w) ==
    /\ lpc = "visit"
    /\ w \in todo
    /\ todo' = todo \ {w}
    /\ \/ /\ arrived \in Accepts[w]
          /\ lpc' = "send"
          /\ target' = w
       \/ /\ arrived \notin Accepts[w]
          /\ UNCHANGED <<lpc, target>>
    /\ UNCHANGED <<arrived, subs, cancelled, watcher>>

\* Mutant of HandOver: the listener goes on if nobody receives.
HandOverOrDrop ==
    /\ lpc = "send"
    /\ \/ /\ wpc[target] = "select"
          /\ held' = [held EXCEPT ![target] = arrived]
          /\ Goto(target, "forward")
       \/ /\ wpc[target] # "select"
          /\ UNCHANGED <<held, wpc>>
    /\ lpc' = "visit"
    /\ target' = NoWatcher
    /\ UNCHANGED <<arrived, todo, subs, cancelled, closed, sent, since, until>>

\* Mutant of HandOver: off by one in the event.
HandOverNext ==
    /\ lpc = "send"
    /\ wpc[target] = "select"
    /\ held' = [held EXCEPT ![target] = arrived + 1]
    /\ Goto(target, "forward")
    /\ lpc' = "visit"
    /\ target' = NoWatcher
    /\ UNCHANGED <<arrived, todo, subs, cancelled, closed, sent, since, until>>

\* The two sides of the unbuffered channel meet.
HandOver ==
    /\ lpc = "send"
    /\ wpc[target] = "select"
    /\ held' = [held EXCEPT ![target] = arrived]
    /\ Goto(target, "forward")
    /\ lpc' = "visit"
    /\ target' = NoWatcher
    /\ UNCHANGED <<arrived, todo, subs, cancelled, closed, sent, since, until>>

\* The loop ends and the read lock is given back.
Finish ==
    /\ lpc = "visit"
    /\ todo = {}
    /\ lpc' = "wait"
    /\ UNCHANGED <<arrived, todo, target, subs, cancelled, watcher>>

----------------------------------------------------------------------------

\* What the goroutine of a call to Watch does by itself.
WatchStep(w) == Subscribe(w) \/ Forward(w) \/ ContextDone(w) \/ Unsubscribe(w)

ClientStep(w) == Watch(w) \/ Cancel(w)

Next ==
    \/ \E w \in Watchers : ClientStep(w) \/ WatchStep(w) \/ Visit(w)
    \/ Receive
    \/ HandOver
    \/ Finish

Spec == Init /\ [][Next]_vars

\* Goroutines that can run do run; a client that stays reads what it is sent.
Fairness ==
    /\ \A w \in Watchers : WF_vars(WatchStep(w)) /\ WF_vars(Visit(w))
    /\ WF_vars(HandOver) /\ WF_vars(Finish)

FairSpec == Spec /\ Fairness

----------------------------------------------------------------------------

(***************************************************************************)
(* The types of the state.                                                 *)
(***************************************************************************)
TypeOK ==
    /\ arrived \in 0..MaxEvents
    /\ lpc \in {"wait", "visit", "send"}
    /\ todo \subseteq Watchers
    /\ target \in Watchers \union {NoWatcher}
    /\ subs \subseteq Watchers
    /\ wpc \in [Watchers -> {"idle", "subscribe", "select", "forward", "unsubscribe", "done"}]
    /\ held \in [Watchers -> 0..MaxEvents]
    /\ cancelled \subseteq Watchers
    /\ closed \subseteq Watchers
    /\ sent \in [Watchers -> Seq(Events)]
    /\ since \in [Watchers -> 0..MaxEvents]
    /\ until \in [Watchers -> 0..MaxEvents]

(***************************************************************************)
(* The listener never sends on a closed channel, which would panic and     *)
(* take the server down, although channels are closed by the goroutines of *)
(* Watch (the deferred function of Watch, processEvent).                   *)
(***************************************************************************)
NoSendOnClosed == \A w \in closed : w # target /\ w \notin todo

\* The last event that processEvent has dealt with for a subscription.
Processed(w) ==
    IF w \in todo \/ target = w THEN arrived - 1 ELSE arrived

\* What a call to Watch has got so far.
Got(w) == IF wpc[w] = "forward" THEN Append(sent[w], held[w]) ELSE sent[w]

\* The elements of a sequence of events are in order and without repetitions.
InOrder(s) == \A i, j \in DOMAIN s : i < j => s[i] < s[j]

\* The events that arrived since the subscription and were dealt with.
Due(w) == {e \in Events : since[w] < e /\ e <= Processed(w)}

(***************************************************************************)
(* A client receives exactly the accepted events since its subscription,   *)
(* in the order of their notifications, without gaps or repetitions,       *)
(* whatever the other clients do (Watch, processEvent).                    *)
(***************************************************************************)
NoGaps ==
    \A w \in Watchers :
        wpc[w] \in {"select", "forward"}
            => /\ InOrder(Got(w))
               /\ {Got(w)[i] : i \in DOMAIN Got(w)} = Due(w) \intersect Accepts[w]

(***************************************************************************)
(* While the clients stay, every accepted event reaches every subscription *)
(* that existed when it arrived (Watch, processEvent).                     *)
(***************************************************************************)
EverythingDelivered ==
    \A w \in Watchers : \A e \in Accepts[w] :
        (w \in subs /\ since[w] < e /\ e <= arrived)
            ~> (cancelled # {} \/ \E i \in DOMAIN sent[w] : sent[w][i] = e)

(***************************************************************************)
(* "Create a subscription and remember to remove it when done": when the   *)
(* stream is done the call ends, and its subscription is removed.          *)
(***************************************************************************)
SubscriptionRemoved ==
    \A w \in Watchers : w \in cancelled ~> wpc[w] = "done" /\ w \notin subs
============================================================================
