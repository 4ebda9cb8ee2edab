----------------------- MODULE MCPrivateEventsServer -----------------------
(***************************************************************************)
(* Small instances of PrivateEventsServer: w1 accepts everything, w2       *)
(* everything except the first event, w3 only the last one.                *)
(***************************************************************************)
EXTENDS PrivateEventsServer

CONSTANTS w1, w2, w3

MCAccepts ==
    [w \in Watchers |-> CASE w = w1 -> 1..MaxEvents
                          [] w = w2 -> 2..MaxEvents
                          [] w = w3 -> {MaxEvents}]
============================================================================
