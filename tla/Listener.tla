------------------------------ MODULE Listener ------------------------------
(***************************************************************************)
(* The path of a notification: Notifier.Notify stores the payload in the   *)
(* notifications table and sends its identifier to the sessions that       *)
(* listen; Listener.Listen keeps a connection that listens, takes the      *)
(* identifiers from it, fetches the payloads and runs the callbacks.       *)
(*                                                                         *)
(* Notifications are numbered in the order of their commits.  Connections  *)
(* break, or stall: they stay open and nothing arrives any more.           *)
(***************************************************************************)
EXTENDS Naturals, Sequences

CONSTANTS
    MaxNotifications,  \* bound on the number of notifications
    MaxFaults,         \* bound on the number of failures of the database
    CanStall           \* whether a failure may be a stall

ASSUME ListenerAssumption ==
    /\ MaxNotifications \in Nat
    /\ MaxFaults \in Nat
    /\ CanStall \in BOOLEAN

VARIABLES
    published,  \* number of the last notification
    stored,     \* rows of the notifications table
    aged,       \* notifications sent more than one minute ago
    conn,       \* the connection of the listener
    socket,     \* notifications sent over the connection and not read yet
    buffer,     \* notifications read while the client was running a query
    pc,         \* what the goroutine of the listener does
    err,        \* the error that waitLoop has returned
    current,    \* the notification that is being processed
    cancelled,  \* the context is done
    delivered,  \* notifications passed to the callbacks, in order
    dropped,    \* notifications whose payload could not be asked for (history)
    ready,      \* value of published each time the ready callbacks ran
    faults,     \* failures of the database so far
    session,    \* number of times that it has started to listen (history)
    sentTo      \* session that each notification was sent to, or zero (history)

database == <<published, stored, aged, faults, sentTo>>
link == <<conn, socket, buffer, session>>
outcome == <<delivered, dropped, ready>>
vars == <<published, stored, aged, conn, socket, buffer, pc, err, current,
          cancelled, delivered, dropped, ready, faults, session, sentTo>>

Init ==
    /\ published = 0 /\ stored = {} /\ aged = {} /\ sentTo = <<>>
    /\ conn = "none" /\ socket = <<>> /\ buffer = <<>> /\ session = 0
    /\ pc = "listen" /\ err = "none" /\ current = 0
    /\ cancelled = FALSE
    /\ delivered = <<>> /\ dropped = {} /\ ready = <<>>
    /\ faults = 0

----------------------------------------------------------------------------
(* The database *)

\* Mutant of Notify: the age of the rows isn't checked.
NotifyDeletingAll ==
    /\ published < MaxNotifications
    /\ published' = published + 1
    /\ stored' = {published + 1}
    /\ socket' = IF conn = "open" THEN Append(socket, published + 1) ELSE socket
    /\ sentTo' = Append(sentTo, IF conn = "open" THEN session ELSE 0)
    /\ UNCHANGED <<aged, conn, buffer, session, pc, err, current, cancelled, outcome, faults>>

\* A transaction that called Notify commits: the payload is stored, its
\* identifier is sent, and the rows older than one minute are deleted.
Notify ==
    /\ published < MaxNotifications
    /\ published' = published + 1
    /\ stored' = (stored \ aged) \union {published + 1}
    /\ socket' = IF conn = "open" THEN Append(socket, published + 1) ELSE socket
    /\ sentTo' = Append(sentTo, IF conn = "open" THEN session ELSE 0)
    /\ UNCHANGED <<aged, conn, buffer, session, pc, err, current, cancelled, outcome, faults>>

\* One minute passes for a notification.
Age(n) ==
    /\ n \in stored \ aged
    /\ aged' = aged \union {n}
    /\ UNCHANGED <<published, stored, faults, sentTo, link, pc, err, current, cancelled, outcome>>

\* Something fails in the database or on the way to it.
Fault ==
    /\ faults < MaxFaults
    /\ faults' = faults + 1
    /\ UNCHANGED <<published, stored, aged, sentTo>>

\* What was on its way may still arrive.
KeepSome == \E n \in 0..Len(socket) : socket' = SubSeq(socket, 1, n)

Break ==
    /\ conn \in {"idle", "open", "stalled"}
    /\ Fault
    /\ conn' = "broken"
    /\ KeepSome
    /\ UNCHANGED <<buffer, session, pc, err, current, cancelled, outcome>>

Stall ==
    /\ CanStall
    /\ conn = "open"
    /\ Fault
    /\ conn' = "stalled"
    /\ KeepSome
    /\ UNCHANGED <<buffer, session, pc, err, current, cancelled, outcome>>

Cancel ==
    /\ ~cancelled
    /\ cancelled' = TRUE
    /\ UNCHANGED <<database, link, pc, err, current, outcome>>

----------------------------------------------------------------------------
(* listenLoop and listen *)

NewConn(state) == conn' = state /\ socket' = <<>> /\ buffer' = <<>>

\* Mutant of Connect: the ready callbacks run when the connection exists.
ConnectThenReady ==
    /\ pc = "listen"
    /\ NewConn("idle")
    /\ pc' = "exec"
    /\ ready' = IF ready = <<>> THEN <<published>> ELSE ready
    /\ UNCHANGED <<database, session, err, current, cancelled, delivered, dropped>>

\* Close the old connection and open a new one.
Connect ==
    /\ pc = "listen"
    /\ \/ /\ NewConn("idle")
          /\ pc' = "exec"
          /\ UNCHANGED database
       \/ /\ NewConn("none")
          /\ pc' = "sleep"
          /\ Fault \/ (cancelled /\ UNCHANGED database)
    /\ UNCHANGED <<session, err, current, cancelled, outcome>>

\* Mutant of ExecListen: it catches up with the stored notifications.
ExecListenReplaying ==
    /\ pc = "exec"
    /\ conn = "idle"
    /\ conn' = "open"
    /\ session' = session + 1
    /\ pc' = IF ready = <<>> THEN "ready" ELSE "wait"
    /\ socket' = SelectSeq([n \in 1..published |-> n], LAMBDA n : n \in stored)
    /\ UNCHANGED <<database, buffer, err, current, cancelled, outcome>>

\* Run the listen statement.
ExecListen ==
    /\ pc = "exec"
    /\ \/ /\ conn = "idle"
          /\ conn' = "open"
          /\ session' = session + 1
          /\ pc' = IF ready = <<>> THEN "ready" ELSE "wait"
          /\ UNCHANGED <<socket, buffer>>
       \/ /\ conn = "broken" \/ cancelled
          /\ conn' = "closed"
          /\ pc' = "sleep"
          /\ UNCHANGED <<socket, buffer, session>>
    /\ UNCHANGED <<database, err, current, cancelled, outcome>>

RunReadyCallbacks ==
    /\ pc = "ready"
    /\ ready' = Append(ready, published)
    /\ pc' = "wait"
    /\ UNCHANGED <<database, link, err, current, cancelled, delivered, dropped>>

\* The deferred function of Listen closes the connection.
Return ==
    /\ NewConn("none")
    /\ pc' = "returned"

Sleep ==
    /\ pc = "sleep"
    /\ \/ /\ cancelled
          /\ Return
       \/ /\ ~cancelled
          /\ pc' = "listen"
          /\ UNCHANGED <<conn, socket, buffer>>
    /\ UNCHANGED <<database, session, err, current, cancelled, outcome>>

----------------------------------------------------------------------------
(* waitLoop and wait *)

\* Mutant of Take: it may return nothing and no error.
TakeNothing ==
    /\ pc = "wait"
    /\ pc' = "query"
    /\ \/ /\ buffer = <<>> /\ socket = <<>>
          /\ current' = 0
          /\ UNCHANGED <<buffer, socket>>
       \/ /\ buffer # <<>>
          /\ current' = Head(buffer)
          /\ buffer' = Tail(buffer)
          /\ UNCHANGED socket
    /\ UNCHANGED <<database, conn, session, err, cancelled, outcome>>

\* WaitForNotification gives the notifications it already has before it reads.
Take ==
    /\ pc = "wait"
    /\ pc' = "query"
    /\ \/ /\ buffer # <<>>
          /\ current' = Head(buffer)
          /\ buffer' = Tail(buffer)
          /\ UNCHANGED socket
       \/ /\ buffer = <<>> /\ socket # <<>>
          /\ conn \in {"open", "stalled", "broken"}
          /\ ~cancelled
          /\ current' = Head(socket)
          /\ socket' = Tail(socket)
          /\ UNCHANGED buffer
    /\ UNCHANGED <<database, conn, session, err, cancelled, outcome>>

\* WaitForNotification fails: because the connection does, because the wait
\* timeout expires, which leaves the connection as it is, or because the
\* context is done.
WaitFails ==
    /\ pc = "wait"
    /\ buffer = <<>>
    /\ pc' = "failed"
    /\ \/ /\ conn = "closed" \/ (conn = "broken" /\ socket = <<>>)
          /\ conn' = "closed"
          /\ err' = "other"
       \/ /\ conn \in {"open", "stalled"} /\ socket = <<>>
          /\ ~cancelled
          /\ err' = "deadline"
          /\ UNCHANGED conn
       \/ /\ cancelled
          /\ conn # "closed"
          /\ err' = "canceled"
          /\ UNCHANGED conn
    /\ UNCHANGED <<database, socket, buffer, session, current, cancelled, outcome>>

\* Mutant of WaitFailed: after an error it waits again.
WaitFailedContinue ==
    /\ pc = "failed"
    /\ err' = "none"
    /\ \/ /\ err = "canceled"
          /\ Return
       \/ /\ err # "canceled"
          /\ pc' = "wait"
          /\ UNCHANGED <<conn, socket, buffer>>
    /\ UNCHANGED <<database, session, current, cancelled, outcome>>

\* Mutant of WaitFailed: all the errors are retried.
WaitFailedRetry ==
    /\ pc = "failed"
    /\ err' = "none"
    /\ pc' = "wait"
    /\ UNCHANGED <<database, link, current, cancelled, outcome>>

\* The loop of Listen looks at the error.
WaitFailed ==
    /\ pc = "failed"
    /\ err' = "none"
    /\ \/ /\ err = "deadline"
          /\ pc' = "wait"
          /\ UNCHANGED <<conn, socket, buffer>>
       \/ /\ err = "canceled"
          /\ Return
       \/ /\ err = "other"
          /\ pc' = "sleep"
          /\ UNCHANGED <<conn, socket, buffer>>
    /\ UNCHANGED <<database, session, current, cancelled, outcome>>

----------------------------------------------------------------------------
(* processNotification *)

\* Notifications that arrive while a query runs are kept.
ReadSome ==
    \E n \in 0..Len(socket) :
        /\ buffer' = buffer \o SubSeq(socket, 1, n)
        /\ socket' = SubSeq(socket, n + 1, Len(socket))

\* The query is answered; there may be no row any more.
PayloadAnswered ==
    /\ conn = "open" /\ ~cancelled
    /\ pc' = IF current \in stored THEN "callback" ELSE "wait"
    /\ ReadSome
    /\ UNCHANGED <<conn, dropped>>

\* The context of the wait, with its timeout, is that of the query: it may be done before
\* the query is sent, and then the connection isn't touched.
PayloadNotAsked ==
    /\ pc' = "wait"
    /\ dropped' = dropped \union {current}
    /\ UNCHANGED <<conn, socket, buffer>>

\* The connection fails, or the context is done, while the query runs: the client closes
\* the connection.
PayloadFails ==
    /\ conn # "closed"
    /\ pc' = "wait"
    /\ dropped' = dropped \union {current}
    /\ conn' = "closed"
    /\ ReadSome

\* Fetch the payload.  If the query fails, or there is no row, the notification is dropped.
QueryPayload ==
    /\ pc = "query"
    /\ PayloadAnswered \/ PayloadNotAsked \/ PayloadFails
    /\ UNCHANGED <<database, session, err, current, cancelled, delivered, ready>>

RunPayloadCallbacks ==
    /\ pc = "callback"
    /\ delivered' = Append(delivered, current)
    /\ pc' = "wait"
    /\ UNCHANGED <<database, link, err, current, cancelled, dropped, ready>>

----------------------------------------------------------------------------

\* The goroutine that runs Listen.
Listen ==
    \/ Connect
    \/ ExecListen
    \/ RunReadyCallbacks
    \/ Sleep
    \/ Take
    \/ WaitFails
    \/ WaitFailed
    \/ QueryPayload
    \/ RunPayloadCallbacks

Next ==
    \/ Listen
    \/ Notify
    \/ \E n \in 1..MaxNotifications : Age(n)
    \/ Break
    \/ Stall
    \/ Cancel

Spec == Init /\ [][Next]_vars

\* The goroutine runs, timers fire, and the callbacks return.
FairSpec == Spec /\ WF_vars(Listen)

----------------------------------------------------------------------------

Ids == 1..MaxNotifications

\* The notifications that the listener holds, in the order it deals with them.
Pipeline ==
    (IF pc \in {"query", "callback"} THEN <<current>> ELSE <<>>) \o buffer \o socket

InSeq(n, s) == \E i \in DOMAIN s : s[i] = n

(***************************************************************************)
(* The types of the state; a notification that is being processed exists.  *)
(***************************************************************************)
TypeOK ==
    /\ published \in 0..MaxNotifications
    /\ stored \subseteq 1..published /\ aged \subseteq 1..published
    /\ conn \in {"none", "idle", "open", "stalled", "broken", "closed"}
    /\ socket \in Seq(Ids) /\ buffer \in Seq(Ids)
    /\ pc \in {"listen", "exec", "ready", "wait", "query", "callback", "failed",
               "sleep", "returned"}
    /\ err \in {"none", "deadline", "canceled", "other"}
    /\ current \in 0..MaxNotifications
    /\ pc \in {"query", "callback"} => current \in 1..published
    /\ cancelled \in BOOLEAN
    /\ delivered \in Seq(Ids)
    /\ dropped \subseteq 1..published
    /\ ready \in Seq(0..MaxNotifications)
    /\ faults \in 0..MaxFaults
    /\ session \in Nat
    /\ sentTo \in [1..published -> 0..session]

(***************************************************************************)
(* Callbacks see each notification at most once, and in the order of the   *)
(* commits, across reconnections, and although notifications are read in   *)
(* two places (wait, QueryRow of processNotification, listen).             *)
(***************************************************************************)
InOrderOnce ==
    LET all == delivered \o Pipeline
    IN  \A i, j \in DOMAIN all : i < j => all[i] < all[j]

(***************************************************************************)
(* Among the notifications that were sent to the session that is           *)
(* listening now, the only ones that never reach the callbacks are those   *)
(* one minute old and those whose query failed, because the connection did *)
(* or because the timeout of the wait covers the query too: none is lost   *)
(* between the socket, the buffer of the client and the callbacks (Notify, *)
(* wait, processNotification).                                             *)
(***************************************************************************)
NothingLostWhileListening ==
    conn = "open" /\ ~cancelled =>
        \A n \in 1..published :
            sentTo[n] = session
                => \/ InSeq(n, delivered) \/ InSeq(n, Pipeline)
                   \/ n \in aged \/ n \in dropped

(***************************************************************************)
(* "Start listening, and call the ready callbacks when we succeed, but     *)
(* only the first time": they run once, and whatever is notified after     *)
(* that reaches the listener, as long as the database doesn't fail and no  *)
(* query of a payload does: the expiration of the wait doesn't lose the    *)
(* session, that of a query in flight does (Listen, wait).                 *)
(***************************************************************************)
ReadyMeansListening ==
    /\ Len(ready) <= 1
    /\ ready # <<>> /\ faults = 0 /\ dropped = {} /\ ~cancelled =>
           \A n \in (ready[1] + 1)..published : sentTo[n] = session /\ session > 0

(***************************************************************************)
(* After a failure of the connection the listener listens again, as long   *)
(* as the database does not keep failing (Listen, listenLoop).             *)
(***************************************************************************)
ListensAgain == conn \in {"broken", "closed", "none"} ~> conn = "open" \/ cancelled

(***************************************************************************)
(* Start "will return only when the context is canceled", and then it      *)
(* does return (Listen, sleepBeforeRetry).                                 *)
(***************************************************************************)
StopsWhenCanceled == cancelled ~> pc = "returned"

(***************************************************************************)
(* "After that it will close the connection and open it again.  This is    *)
(* intended to automatically recover from situations where the server or   *)
(* the connection malfunction and stop sending the notifications": a       *)
(* connection that has stalled is replaced (SetWaitTimeout, Listen).       *)
(***************************************************************************)
RecoversFromStall == conn = "stalled" ~> conn # "stalled"
============================================================================
