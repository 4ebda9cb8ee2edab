--------------------------- MODULE MCEventsServer ---------------------------
(***************************************************************************)
(* Small instances of EventsServer: event 1 is of an object of a user with *)
(* two groups, event 2 of a hub, and event 3 of an object of a service     *)
(* account.                                                                *)
(***************************************************************************)
EXTENDS EventsServer

CONSTANTS w1, w2, w3, w4

MCAccepts ==
    [w \in Watchers |-> CASE w = w1 -> 1..MaxEvents
                          [] w = w2 -> 2..MaxEvents
                          [] w \in {w3, w4} -> {MaxEvents}]

Jwt(groups) == [source |-> "jwt", groups |-> groups, namespace |-> NoNamespace]

ServiceAccount(namespace) ==
    [source |-> "serviceaccount", groups |-> {}, namespace |-> namespace]

Guest == [source |-> "none", groups |-> {}, namespace |-> NoNamespace]

MCCreators ==
    <<[logic |-> "default", subject |-> Jwt({"a", "b"})],
      [logic |-> "system", subject |-> Guest],
      [logic |-> "default", subject |-> ServiceAccount("a")]>>

MCHubEvents == {2}

\* Users of different tenants, and one whose tenants can't be determined.
MCSubjects ==
    [w \in Watchers |-> CASE w = w1 -> ServiceAccount("a")
                          [] w = w2 -> Jwt({"b"})
                          [] w = w3 -> Guest
                          [] w = w4 -> ServiceAccount(NoNamespace)]
============================================================================
