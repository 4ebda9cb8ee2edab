-------------------------- MODULE MCEventsServers --------------------------
(***************************************************************************)
(* A small instance of the private events server and of the public one,    *)
(* that do the same but for the loop of the listener.  `server' says which *)
(* of them a behaviour is of, and never changes.                           *)
(***************************************************************************)
EXTENDS MCEventsServer

VARIABLE server

BothInit == Init /\ server \in {"private", "public"}

BothNext ==
    /\ \/ server = "private" /\ Next
       \/ server = "public" /\ PublicNext
    /\ UNCHANGED server

\* The fairness of the private server.
BothSpec ==
    /\ BothInit
    /\ [][BothNext]_<<vars, server>>
    /\ server = "private" => Fairness

\* Three clients of the private server are enough.
Bound == server = "private" => wpc[w4] = "idle"

(***************************************************************************)
(* NoGaps and EverythingDelivered are promises of the private server, the  *)
(* other two of the public one.                                            *)
(***************************************************************************)
PrivateNoGaps == server = "private" => NoGaps

PrivateEverythingDelivered == server = "private" => EverythingDelivered

PublicOnlyWanted == server = "public" => OnlyWanted

PublicMissedOnlyForOthers == server = "public" => MissedOnlyForOthers
============================================================================
