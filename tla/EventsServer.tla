---------------------------- MODULE EventsServer ----------------------------
(***************************************************************************)
(* The public events server.  Watch is that of the private server; what    *)
(* differs is processPayload, that skips the objects without a public      *)
(* representation, and processEvent, that checks the tenants of the object *)
(* before it evaluates the filter of each subscription.                    *)
(***************************************************************************)
EXTENDS PrivateEventsServer, Tenancy

CONSTANTS
    Creators,   \* subject that created the object of each event, and logic of the server
    Subjects,   \* subject of each watcher
    HubEvents   \* events about hubs

ASSUME TenantsAssumption ==
    /\ DOMAIN Creators = Events
    /\ \A e \in Events :
           /\ Creators[e].logic \in Logics
           /\ Determined(Creators[e].logic, Creators[e].subject)
    /\ DOMAIN Subjects = Watchers
    /\ HubEvents \subseteq Events

ExtractTenants(event) ==
    DetermineAssignedTenants(Creators[event].logic, Creators[event].subject)

\* checkTenancy, with the subject of the subscription in the context.
CheckTenancy(w, event) ==
    /\ Determined(Logic, Subjects[w])
    /\ LET visible == DetermineVisibleTenants(Logic, Subjects[w])
       IN  visible = {} \/ ExtractTenants(event) \intersect visible # {}

\* A notification arrives; it is dropped if the object is a hub.
PublicReceive ==
    /\ lpc = "wait"
    /\ arrived < MaxEvents
    /\ arrived' = arrived + 1
    /\ \/ /\ arrived + 1 \in HubEvents
          /\ UNCHANGED <<lpc, todo>>
       \/ /\ arrived + 1 \notin HubEvents
          /\ lpc' = "visit"
          /\ todo' = subs
    /\ UNCHANGED <<target, subs, cancelled, watcher>>

\* Mutant of PublicVisit: the function returns also if the filter rejects.
PublicVisitUntilRejected(w) ==
    /\ lpc = "visit"
    /\ w \in todo
    /\ \/ /\ ~CheckTenancy(w, arrived) \/ arrived \notin Accepts[w]
          /\ todo' = {}
          /\ UNCHANGED <<lpc, target>>
       \/ /\ CheckTenancy(w, arrived) /\ arrived \in Accepts[w]
          /\ todo' = todo \ {w}
          /\ lpc' = "send"
          /\ target' = w
    /\ UNCHANGED <<arrived, subs, cancelled, watcher>>

\* The loop takes the next subscription.  If its user can't see the object,
\* or that can't be determined, the function returns, and the rest of the
\* subscriptions aren't visited.
PublicVisit(w) ==
    /\ lpc = "visit"
    /\ w \in todo
    /\ \/ /\ ~CheckTenancy(w, arrived)
          /\ todo' = {}
          /\ UNCHANGED <<lpc, target>>
       \/ /\ CheckTenancy(w, arrived)
          /\ arrived \in Accepts[w]
          /\ todo' = todo \ {w}
          /\ lpc' = "send"
          /\ target' = w
       \/ /\ CheckTenancy(w, arrived)
          /\ arrived \notin Accepts[w]
          /\ todo' = todo \ {w}
          /\ UNCHANGED <<lpc, target>>
    /\ UNCHANGED <<arrived, subs, cancelled, watcher>>

PublicNext ==
    \/ \E w \in Watchers : ClientStep(w) \/ WatchStep(w) \/ PublicVisit(w)
    \/ PublicReceive
    \/ HandOver
    \/ Finish

PublicSpec == Init /\ [][PublicNext]_vars

----------------------------------------------------------------------------

\* The events that a user should see.
Wanted(w) == {e \in Accepts[w] \ HubEvents : CheckTenancy(w, e)}

(***************************************************************************)
(* "All the events that the user has permission to see will be sent by the *)
(* server": a client receives exactly the events that its user can see and *)
(* its filter accepts, in order and without gaps, whoever else is watching *)
(* (Watch, processPayload, processEvent, checkTenancy).                    *)
(***************************************************************************)
PublicNoGaps ==
    \A w \in Watchers :
        wpc[w] \in {"select", "forward"}
            => /\ InOrder(Got(w))
               /\ {Got(w)[i] : i \in DOMAIN Got(w)} = Due(w) \intersect Wanted(w)

\* Somebody who can't see the event was subscribed when it arrived.
HiddenByOther(e) ==
    \E v \in Watchers :
        /\ since[v] < e
        /\ v \in subs \/ e <= until[v]
        /\ ~CheckTenancy(v, e)

(***************************************************************************)
(* What a client receives is wanted, in order and without repetitions, and *)
(* it misses an event that its user can see and its filter accepts only if *)
(* somebody who can't see it was subscribed when it arrived (Watch,        *)
(* processPayload, processEvent).                                          *)
(***************************************************************************)
MissedOnlyForOthers ==
    \A w \in Watchers :
        wpc[w] \in {"select", "forward"} =>
            /\ InOrder(Got(w))
            /\ {Got(w)[i] : i \in DOMAIN Got(w)} \subseteq Due(w) \intersect Wanted(w)
            /\ \A e \in Due(w) \intersect Wanted(w) :
                   (\E i \in DOMAIN Got(w) : Got(w)[i] = e) \/ HiddenByOther(e)

\* The tenants that a subject is a member of.
Own(subject) == subject.groups \union ({subject.namespace} \ {NoNamespace})

\* Whether the creator of the object and the user are members of the same tenant, or
\* the object was created for everybody, by the private servers or by a creator that
\* is a member of the shared tenant.
OfTheirTenants(w, e) ==
    \/ Creators[e].logic = "system"
    \/ Shared \in Own(Creators[e].subject)
    \/ Own(Creators[e].subject) \intersect Own(Subjects[w]) # {}

(***************************************************************************)
(* Nobody receives an event that the filter of the call rejects, or of a   *)
(* hub, or of an object that was created in other tenants, not even who    *)
(* belongs to none, although a user without visible tenants isn't          *)
(* restricted at all (processPayload, processEvent, checkTenancy,          *)
(* DetermineAssignedTenants, DetermineVisibleTenants).                     *)
(***************************************************************************)
OnlyWanted ==
    \A w \in Watchers :
        \A e \in {sent[w][i] : i \in DOMAIN sent[w]} \union ({held[w]} \ {0}) :
            e \in Accepts[w] \ HubEvents /\ OfTheirTenants(w, e)
============================================================================
