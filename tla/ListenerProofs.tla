--------------------------- MODULE ListenerProofs ---------------------------
(***************************************************************************)
(* The safety properties of Listener hold in every behaviour, for any      *)
(* number of notifications and failures.                                   *)
(***************************************************************************)
EXTENDS Listener, SequenceTheorems, TLAPS

\* The elements of a sequence, sequences in increasing order, and sets of numbers one
\* before the other.
Elements(s) == {s[i] : i \in DOMAIN s}

Increasing(s) == \A i, j \in DOMAIN s : i < j => s[i] < s[j]

Before(A, B) == \A x \in A, y \in B : x < y

\* The notification that is being processed.
Holding == IF pc \in {"query", "callback"} THEN {current} ELSE {}

\* The places that a notification goes through are in order, and so are those of each
\* place: they are read from the back to the front.
Ordered ==
    /\ Increasing(delivered) /\ Increasing(buffer) /\ Increasing(socket)
    /\ Elements(delivered) \union Holding \union Elements(buffer) \union Elements(socket)
           \subseteq 1..published
    /\ Before(Elements(delivered), Holding \union Elements(buffer) \union Elements(socket))
    /\ Before(Holding, Elements(buffer) \union Elements(socket))
    /\ Before(Elements(buffer), Elements(socket))

\* Only old rows are deleted from the table.
OldDeleted == (1..published) \ stored \subseteq aged

\* What was sent to the session that is listening is somewhere, or was too old, or its
\* query failed.
Kept ==
    conn = "open" /\ ~cancelled =>
        \A n \in 1..published :
            sentTo[n] = session
                => n \in Elements(delivered) \union Holding \union Elements(buffer)
                             \union Elements(socket) \union aged \union dropped

\* Until something fails, who has said that it is ready listens.
Quiet == faults = 0 /\ dropped = {} /\ ~cancelled

Listening ==
    /\ Len(ready) <= 1
    /\ pc = "ready" => ready = <<>>
    /\ conn = "open" => session > 0
    /\ Quiet /\ pc = "ready" => conn = "open"
    /\ Quiet /\ ready # <<>> =>
           /\ conn = "open"
           /\ pc \in {"wait", "query", "callback", "failed"}
           /\ pc = "failed" => err = "deadline"
           /\ \A n \in (ready[1] + 1)..published : sentTo[n] = session

(***************************************************************************)
(* The inductive invariant.                                                *)
(***************************************************************************)
IInv == TypeOK /\ Ordered /\ OldDeleted /\ Kept /\ Listening

----------------------------------------------------------------------------
(* Sequences in increasing order *)

\* The order of a sequence is that of its first element and the rest.
LEMMA TailIncreasing ==
  ASSUME NEW s \in Seq(Nat), Increasing(s), s # <<>>
  PROVE  /\ Tail(s) \in Seq(Nat) /\ Increasing(Tail(s))
         /\ Elements(s) = {Head(s)} \union Elements(Tail(s))
         /\ Before({Head(s)}, Elements(Tail(s)))
<1> DEFINE t == Tail(s)
<1>1. /\ Len(s) \in Nat \ {0} /\ DOMAIN s = 1..Len(s)
      /\ t \in Seq(Nat) /\ DOMAIN t = 1..(Len(s) - 1)
      /\ \A i \in 1..(Len(s) - 1) : t[i] = s[i + 1]
      /\ Head(s) = s[1]
  OBVIOUS
<1> HIDE DEF t
<1>2. Increasing(t)
  <2> SUFFICES ASSUME NEW i \in 1..(Len(s) - 1), NEW j \in 1..(Len(s) - 1), i < j
               PROVE  t[i] < t[j]
    BY <1>1 DEF Increasing
  <2>1. i + 1 \in DOMAIN s /\ j + 1 \in DOMAIN s /\ i + 1 < j + 1
    BY <1>1
  <2>2. s[i + 1] < s[j + 1]
    BY <2>1 DEF Increasing
  <2>3. t[i] = s[i + 1] /\ t[j] = s[j + 1]
    BY <1>1
  <2> QED
    BY <2>2, <2>3
<1>3. ASSUME NEW x \in Elements(t) PROVE x \in Elements(s) /\ Head(s) < x
  <2>1. PICK i \in 1..(Len(s) - 1) : x = s[i + 1]
    BY <1>1, <1>3 DEF Elements
  <2>2. i + 1 \in DOMAIN s /\ 1 \in DOMAIN s /\ 1 < i + 1
    BY <1>1
  <2> QED
    BY <1>1, <2>1, <2>2 DEF Increasing, Elements
<1>4. ASSUME NEW x \in Elements(s) PROVE x = Head(s) \/ x \in Elements(t)
  <2>1. PICK i \in 1..Len(s) : x = s[i]
    BY <1>1, <1>4 DEF Elements
  <2>2. i = 1 \/ i - 1 \in 1..(Len(s) - 1)
    BY <1>1
  <2>3. CASE i - 1 \in 1..(Len(s) - 1)
    <3>1. t[i - 1] = x
      BY <1>1, <2>1, <2>3
    <3> QED
      BY <1>1, <2>3, <3>1 DEF Elements
  <2> QED
    BY <1>1, <2>1, <2>2, <2>3
<1>5. Head(s) \in Elements(s)
  <2>1. 1 \in DOMAIN s
    BY <1>1
  <2> QED
    BY <1>1, <2>1 DEF Elements
<1> QED
  BY <1>1, <1>2, <1>3, <1>4, <1>5 DEF t, Before

\* A sequence is split into two in order.
LEMMA SplitIncreasing ==
  ASSUME NEW s \in Seq(Nat), Increasing(s), NEW n \in 0..Len(s)
  PROVE  LET a == SubSeq(s, 1, n)
             b == SubSeq(s, n + 1, Len(s))
         IN  /\ a \in Seq(Nat) /\ Increasing(a) /\ b \in Seq(Nat) /\ Increasing(b)
             /\ Elements(s) = Elements(a) \union Elements(b)
             /\ Before(Elements(a), Elements(b))
<1> DEFINE a == SubSeq(s, 1, n)
           b == SubSeq(s, n + 1, Len(s))
<1>1. /\ Len(s) \in Nat /\ DOMAIN s = 1..Len(s)
      /\ a \in Seq(Nat) /\ DOMAIN a = 1..n
      /\ \A i \in 1..n : a[i] = s[i]
  OBVIOUS
<1>2. /\ b \in Seq(Nat) /\ DOMAIN b = 1..(Len(s) - n)
      /\ \A i \in 1..(Len(s) - n) : b[i] = s[n + i]
  OBVIOUS
<1> HIDE DEF a, b
<1>3. Increasing(a)
  BY <1>1 DEF Increasing
<1>4. Increasing(b)
  <2> SUFFICES ASSUME NEW i \in 1..(Len(s) - n), NEW j \in 1..(Len(s) - n), i < j
               PROVE  b[i] < b[j]
    BY <1>2 DEF Increasing
  <2>1. n + i \in DOMAIN s /\ n + j \in DOMAIN s /\ n + i < n + j
    BY <1>1, <1>2
  <2>2. s[n + i] < s[n + j]
    BY <2>1 DEF Increasing
  <2>3. b[i] = s[n + i] /\ b[j] = s[n + j]
    BY <1>2
  <2> QED
    BY <2>2, <2>3
<1>5. ASSUME NEW x \in Elements(s) PROVE x \in Elements(a) \/ x \in Elements(b)
  <2>1. PICK i \in 1..Len(s) : x = s[i]
    BY <1>1, <1>5 DEF Elements
  <2>2. CASE i \in 1..n
    BY <1>1, <2>1, <2>2 DEF Elements
  <2>3. CASE i \notin 1..n
    <3>1. i - n \in 1..(Len(s) - n) /\ n + (i - n) = i
      BY <1>1, <2>3
    <3>2. b[i - n] = x
      BY <1>2, <2>1, <3>1
    <3> QED
      BY <1>2, <3>1, <3>2 DEF Elements
  <2> QED
    BY <2>2, <2>3
<1>6. Elements(a) \subseteq Elements(s)
  BY <1>1 DEF Elements
<1>7. ASSUME NEW y \in Elements(b)
      PROVE  y \in Elements(s) /\ \A x \in Elements(a) : x < y
  <2>1. PICK j \in 1..(Len(s) - n) : y = s[n + j]
    BY <1>2, <1>7 DEF Elements
  <2>2. n + j \in DOMAIN s /\ \A i \in 1..n : i \in DOMAIN s /\ i < n + j
    BY <1>1
  <2> QED
    BY <1>1, <2>1, <2>2 DEF Elements, Increasing
<1> QED
  BY <1>1, <1>2, <1>3, <1>4, <1>5, <1>6, <1>7 DEF a, b, Before

\* Two sequences in order, one after the other.
LEMMA ConcatIncreasing ==
  ASSUME NEW s \in Seq(Nat), Increasing(s), NEW t \in Seq(Nat), Increasing(t),
         Before(Elements(s), Elements(t))
  PROVE  /\ s \o t \in Seq(Nat) /\ Increasing(s \o t)
         /\ Elements(s \o t) = Elements(s) \union Elements(t)
<1> DEFINE u == s \o t
<1>1. /\ Len(s) \in Nat /\ DOMAIN s = 1..Len(s)
      /\ Len(t) \in Nat /\ DOMAIN t = 1..Len(t)
      /\ u \in Seq(Nat) /\ DOMAIN u = 1..(Len(s) + Len(t))
      /\ \A i \in 1..Len(s) : u[i] = s[i]
      /\ \A i \in 1..Len(t) : u[Len(s) + i] = t[i]
  OBVIOUS
<1> HIDE DEF u
<1>2. \A i \in DOMAIN u :
          i \in DOMAIN s \/ (i - Len(s) \in DOMAIN t /\ u[i] = t[i - Len(s)])
  <2>1. ASSUME NEW i \in DOMAIN u, i \notin DOMAIN s
        PROVE  i - Len(s) \in DOMAIN t /\ Len(s) + (i - Len(s)) = i
    BY <1>1, <2>1
  <2> QED
    BY <1>1, <2>1
<1>3. Increasing(u)
  <2> SUFFICES ASSUME NEW i \in DOMAIN u, NEW j \in DOMAIN u, i < j PROVE u[i] < u[j]
    BY DEF Increasing
  <2>1. CASE i \in DOMAIN s /\ j \in DOMAIN s
    BY <1>1, <2>1 DEF Increasing
  <2>2. CASE i \in DOMAIN s /\ j \notin DOMAIN s
    BY <1>1, <1>2, <2>2 DEF Before, Elements
  <2>3. CASE i \notin DOMAIN s
    <3>1. j \notin DOMAIN s /\ i - Len(s) < j - Len(s)
      BY <1>1, <2>3
    <3> QED
      BY <1>2, <2>3, <3>1 DEF Increasing
  <2> QED
    BY <2>1, <2>2, <2>3
<1>4. Elements(u) \subseteq Elements(s) \union Elements(t)
  BY <1>1, <1>2 DEF Elements
<1>5. Elements(s) \subseteq Elements(u)
  BY <1>1 DEF Elements
<1>6. Elements(t) \subseteq Elements(u)
  <2> SUFFICES ASSUME NEW i \in 1..Len(t) PROVE t[i] \in Elements(u)
    BY <1>1 DEF Elements
  <2>1. Len(s) + i \in DOMAIN u
    BY <1>1
  <2> QED
    BY <1>1, <2>1 DEF Elements
<1> QED
  BY <1>1, <1>3, <1>4, <1>5, <1>6 DEF u

\* A single number is in order.
LEMMA SingleIncreasing ==
  ASSUME NEW x \in Nat
  PROVE  <<x>> \in Seq(Nat) /\ Increasing(<<x>>) /\ Elements(<<x>>) = {x}
  BY DEF Increasing, Elements

\* A number after all the others at the end of a sequence.
LEMMA AppendIncreasing ==
  ASSUME NEW s \in Seq(Nat), Increasing(s), NEW x \in Nat, Before(Elements(s), {x})
  PROVE  /\ Append(s, x) \in Seq(Nat) /\ Increasing(Append(s, x))
         /\ Elements(Append(s, x)) = Elements(s) \union {x}
<1>1. Append(s, x) = s \o <<x>>
  OBVIOUS
<1> QED
  BY <1>1, SingleIncreasing, ConcatIncreasing

\* Nothing is in order.
LEMMA EmptyIncreasing == Increasing(<<>>) /\ Elements(<<>>) = {}
  BY DEF Increasing, Elements

----------------------------------------------------------------------------
(* Types *)

\* Notifications are numbers.
LEMMA Numbers ==
  ASSUME TypeOK
  PROVE  /\ delivered \in Seq(Nat) /\ buffer \in Seq(Nat) /\ socket \in Seq(Nat)
         /\ sentTo \in Seq(0..session) /\ Len(sentTo) = published
         /\ published \in Nat
<1>1. \A x \in Ids : x \in Nat
  BY ListenerAssumption DEF Ids
<1>2. sentTo \in Seq(0..session) /\ Len(sentTo) = published
  BY ListenerAssumption DEF TypeOK
<1> QED
  BY <1>1, <1>2, ListenerAssumption DEF TypeOK

\* Every step keeps the types.
LEMMA TypeStep == TypeOK /\ Ordered /\ [Next]_vars => TypeOK'
<1> SUFFICES ASSUME TypeOK, Ordered, [Next]_vars PROVE TypeOK'
  OBVIOUS
<1> USE ListenerAssumption DEF database, link, outcome, NewConn, Return
<1>1. CASE Notify
  <2>1. published' = published + 1 /\ published \in Nat /\ published + 1 \in Ids
    BY <1>1 DEF Notify, TypeOK, Ids
  <2>2. socket' \in Seq(Ids)
    BY <1>1, <2>1 DEF Notify, TypeOK
  <2>3. sentTo' \in [1..published' -> 0..session']
    <3>1. sentTo \in Seq(0..session) /\ Len(sentTo) = published /\ session' = session
      BY <1>1, Numbers DEF Notify
    <3>2. PICK x \in 0..session : sentTo' = Append(sentTo, x)
      BY <1>1 DEF Notify, TypeOK
    <3>3. sentTo' \in Seq(0..session) /\ Len(sentTo') = published + 1
      BY <3>1, <3>2
    <3>4. sentTo' \in [1..Len(sentTo') -> 0..session]
      BY <3>3, LenProperties
    <3> QED
      BY <2>1, <3>1, <3>3, <3>4
  <2>4. stored' \subseteq 1..published' /\ aged' \subseteq 1..published'
    BY <1>1, <2>1 DEF Notify, TypeOK
  <2>5. pc' \in {"query", "callback"} => current' \in 1..published'
    BY <1>1, <2>1 DEF Notify, TypeOK
  <2> QED
    BY <1>1, <2>1, <2>2, <2>3, <2>4, <2>5 DEF Notify, TypeOK
<1>2. ASSUME NEW n \in 1..MaxNotifications, Age(n) PROVE TypeOK'
  BY <1>2 DEF Age, TypeOK
<1>3. CASE Break \/ Stall
  <2>1. PICK n \in 0..Len(socket) : socket' = SubSeq(socket, 1, n)
    BY <1>3 DEF Break, Stall, KeepSome
  <2>2. socket \in Seq(Ids)
    BY DEF TypeOK
  <2>3. socket' \in Seq(Ids)
    BY <2>1, <2>2
  <2>4. /\ conn' \in {"broken", "stalled"} /\ faults' \in 0..MaxFaults
        /\ UNCHANGED <<published, stored, aged, sentTo, buffer, session, pc, err, current,
                       cancelled, delivered, dropped, ready>>
    BY <1>3 DEF Break, Stall, Fault, TypeOK
  <2> QED
    BY <2>3, <2>4 DEF TypeOK
<1>4. CASE Cancel
  BY <1>4 DEF Cancel, TypeOK
<1>5. CASE Connect
  <2>1. /\ conn' \in {"idle", "none"} /\ socket' = <<>> /\ buffer' = <<>>
        /\ pc' \in {"exec", "sleep"}
        /\ faults' \in 0..MaxFaults
        /\ UNCHANGED <<published, stored, aged, sentTo, session, err, current, cancelled,
                       delivered, dropped, ready>>
    BY <1>5 DEF Connect, Fault, TypeOK
  <2> QED
    BY <2>1 DEF TypeOK
<1>6. CASE ExecListen
  <2>1. /\ conn' \in {"open", "closed"} /\ pc' \in {"ready", "wait", "sleep"}
        /\ session' \in {session, session + 1}
        /\ UNCHANGED <<socket, buffer, database, err, current, cancelled, outcome>>
    BY <1>6 DEF ExecListen
  <2>2. session' \in Nat /\ sentTo' \in [1..published' -> 0..session']
    <3>1. \A x \in 0..session : x \in 0..session'
      BY <2>1 DEF TypeOK
    <3> QED
      BY <2>1, <3>1 DEF TypeOK
  <2> QED
    BY <2>1, <2>2 DEF TypeOK
<1>7. CASE RunReadyCallbacks
  BY <1>7 DEF RunReadyCallbacks, TypeOK
<1>8. CASE Sleep
  <2>1. /\ conn' \in {conn, "none"} /\ pc' \in {"listen", "returned"}
        /\ UNCHANGED <<published, stored, aged, faults, sentTo, session, err, current,
                       cancelled, delivered, dropped, ready>>
    BY <1>8 DEF Sleep
  <2>2. socket' \in Seq(Ids) /\ buffer' \in Seq(Ids)
    <3>1. socket' \in {socket, <<>>} /\ buffer' \in {buffer, <<>>}
      BY <1>8 DEF Sleep
    <3> QED
      BY <3>1, EmptySeq DEF TypeOK
  <2> QED
    BY <2>1, <2>2 DEF TypeOK
<1>9. CASE WaitFails
  BY <1>9 DEF WaitFails, TypeOK
<1>10. CASE WaitFailed
  <2>1. /\ conn' \in {conn, "none"}
        /\ pc' \in {"wait", "returned", "sleep"} /\ err' = "none"
        /\ UNCHANGED <<published, stored, aged, faults, sentTo, session, current,
                       cancelled, delivered, dropped, ready>>
    BY <1>10 DEF WaitFailed
  <2>2. socket' \in Seq(Ids) /\ buffer' \in Seq(Ids)
    <3>1. socket' \in {socket, <<>>} /\ buffer' \in {buffer, <<>>}
      BY <1>10 DEF WaitFailed
    <3> QED
      BY <3>1, EmptySeq DEF TypeOK
  <2> QED
    BY <2>1, <2>2 DEF TypeOK
<1>11. CASE RunPayloadCallbacks
  BY <1>11 DEF RunPayloadCallbacks, TypeOK, Ids
<1>12. CASE UNCHANGED vars
  BY <1>12 DEF vars, TypeOK
<1>13. CASE Take
  <2>1. PICK s \in {buffer, socket} : s # <<>> /\ current' = Head(s)
    BY <1>13 DEF Take
  <2>2. current' \in 1..published /\ current' \in 0..MaxNotifications
    <3>1. s \in Seq(Nat) /\ 1 \in DOMAIN s /\ Head(s) = s[1]
      BY <2>1, Numbers
    <3>2. Head(s) \in 1..published
      BY <3>1 DEF Ordered, Elements
    <3> QED
      BY <2>1, <3>2 DEF TypeOK
  <2>3. buffer' \in Seq(Ids) /\ socket' \in Seq(Ids)
    <3>1. buffer \in Seq(Ids) /\ socket \in Seq(Ids)
      BY DEF TypeOK
    <3>2. buffer # <<>> => Tail(buffer) \in Seq(Ids)
      BY <3>1
    <3>3. socket # <<>> => Tail(socket) \in Seq(Ids)
      BY <3>1
    <3> QED
      BY <1>13, <3>1, <3>2, <3>3 DEF Take
  <2>4. /\ pc' = "query"
        /\ UNCHANGED <<database, conn, session, err, cancelled, outcome>>
    BY <1>13 DEF Take
  <2> QED
    BY <2>2, <2>3, <2>4 DEF TypeOK
<1>14. CASE QueryPayload
  <2>1. buffer' \in Seq(Ids) /\ socket' \in Seq(Ids)
    <3>1. buffer \in Seq(Ids) /\ socket \in Seq(Ids)
      BY DEF TypeOK
    <3>2. ASSUME NEW n \in 0..Len(socket)
          PROVE  /\ buffer \o SubSeq(socket, 1, n) \in Seq(Ids)
                 /\ SubSeq(socket, n + 1, Len(socket)) \in Seq(Ids)
      <4>1. SubSeq(socket, 1, n) \in Seq(Ids)
        BY <3>1
      <4>2. SubSeq(socket, n + 1, Len(socket)) \in Seq(Ids)
        BY <3>1
      <4> QED
        BY <3>1, <4>1, <4>2
    <3> QED
      BY <1>14, <3>1, <3>2
         DEF QueryPayload, PayloadAnswered, PayloadNotAsked, PayloadFails, ReadSome
  <2>2. /\ pc = "query" /\ pc' \in {"callback", "wait"} /\ conn' \in {conn, "closed"}
        /\ dropped' \in {dropped, dropped \union {current}}
        /\ UNCHANGED <<database, session, err, current, cancelled, delivered, ready>>
    BY <1>14 DEF QueryPayload, PayloadAnswered, PayloadNotAsked, PayloadFails
  <2> QED
    BY <2>1, <2>2 DEF TypeOK
<1> QED
  BY <1>1, <1>2, <1>3, <1>4, <1>5, <1>6, <1>7, <1>8, <1>9, <1>10, <1>11, <1>12,
     <1>13, <1>14
     DEF Next, Listen

----------------------------------------------------------------------------
(* The order of the notifications *)

\* Nothing is out of order when notifications only disappear.
LEMMA OrderedWhenLost ==
  ASSUME TypeOK, Ordered, published' = published, delivered' = delivered,
         Holding' \subseteq Holding,
         Increasing(buffer'), Elements(buffer') \subseteq Elements(buffer),
         Increasing(socket'), Elements(socket') \subseteq Elements(socket)
  PROVE  Ordered'
<1>1. Elements(buffer)' = Elements(buffer') /\ Increasing(buffer)' = Increasing(buffer')
  BY DEF Elements, Increasing
<1>2. Elements(socket)' = Elements(socket') /\ Increasing(socket)' = Increasing(socket')
  BY DEF Elements, Increasing
<1>3. Elements(delivered)' = Elements(delivered) /\ Increasing(delivered)' = Increasing(delivered)
  BY DEF Elements, Increasing
<1> QED
  BY <1>1, <1>2, <1>3 DEF Ordered, Before

\* Every step keeps the order.
LEMMA OrderedStep == TypeOK /\ Ordered /\ [Next]_vars => Ordered'
<1> SUFFICES ASSUME TypeOK, Ordered, [Next]_vars PROVE Ordered'
  OBVIOUS
<1> DEFINE D == Elements(delivered)
           B == Elements(buffer)
           S == Elements(socket)
<1> USE DEF database, link, outcome, NewConn, Return
<1>1. /\ Increasing(delivered) /\ Increasing(buffer) /\ Increasing(socket)
      /\ D \union Holding \union B \union S \subseteq 1..published
      /\ Before(D, Holding \union B \union S)
      /\ Before(Holding, B \union S)
      /\ Before(B, S)
  BY DEF Ordered
<1>2. CASE Notify
  <2>1. /\ published' = published + 1 /\ published \in Nat
        /\ UNCHANGED <<delivered, buffer, pc, current>>
    BY <1>2, Numbers DEF Notify
  <2>2. Before(D \union Holding \union B \union S, {published + 1})
    BY <1>1, <2>1 DEF Before
  <2>3. /\ Increasing(socket') /\ S \subseteq Elements(socket')
        /\ Elements(socket') \subseteq S \union {published + 1}
    <3>1. CASE conn = "open"
      BY <1>1, <1>2, <2>1, <2>2, <3>1, Numbers, AppendIncreasing DEF Notify, Before
    <3>2. CASE conn # "open"
      BY <1>1, <1>2, <3>2 DEF Notify
    <3> QED
      BY <3>1, <3>2
  <2>4. S' = Elements(socket') /\ Increasing(socket)' = Increasing(socket')
    BY DEF Elements, Increasing
  <2>5. D' = D /\ B' = B /\ Holding' = Holding
    BY <2>1 DEF Elements, Holding
  <2>6. Increasing(delivered)' /\ Increasing(buffer)'
    BY <1>1, <2>1 DEF Increasing
  <2>7. (D \union Holding \union B \union S)' \subseteq 1..published'
    BY <1>1, <2>1, <2>3, <2>4, <2>5
  <2>8. /\ Before(D, Holding \union B \union S)'
        /\ Before(Holding, B \union S)'
        /\ Before(B, S)'
    BY <1>1, <2>2, <2>3, <2>4, <2>5 DEF Before
  <2> QED
    BY <1>1, <2>3, <2>4, <2>6, <2>7, <2>8 DEF Ordered
<1>3. CASE Take
  <2>1. /\ UNCHANGED <<published, delivered>> /\ pc = "wait" /\ pc' = "query"
    BY <1>3 DEF Take
  <2>2. D' = D /\ Increasing(delivered)' /\ Holding' = {current'} /\ Holding = {}
    BY <1>1, <2>1 DEF Elements, Increasing, Holding
  <2>3. CASE buffer # <<>> /\ current' = Head(buffer) /\ buffer' = Tail(buffer)
             /\ socket' = socket
    <3>1. /\ Increasing(buffer') /\ B = {current'} \union Elements(buffer')
          /\ Before({current'}, Elements(buffer'))
      BY <1>1, <2>3, Numbers, TailIncreasing
    <3>2. /\ B' = Elements(buffer') /\ Increasing(buffer)' = Increasing(buffer')
          /\ S' = S /\ Increasing(socket)'
      BY <1>1, <2>3 DEF Elements, Increasing
    <3> QED
      BY <1>1, <2>1, <2>2, <3>1, <3>2 DEF Ordered, Before
  <2>4. CASE buffer = <<>> /\ socket # <<>> /\ current' = Head(socket)
             /\ socket' = Tail(socket) /\ buffer' = buffer
    <3>1. /\ Increasing(socket') /\ S = {current'} \union Elements(socket')
          /\ Before({current'}, Elements(socket'))
      BY <1>1, <2>4, Numbers, TailIncreasing
    <3>2. S' = Elements(socket') /\ Increasing(socket)' = Increasing(socket')
      BY DEF Elements, Increasing
    <3>3. B = {} /\ B' = {} /\ Increasing(buffer)'
      BY <2>4, EmptyIncreasing
    <3> QED
      BY <1>1, <2>1, <2>2, <3>1, <3>2, <3>3 DEF Ordered, Before
  <2> QED
    BY <1>3, <2>3, <2>4 DEF Take
<1>4. CASE QueryPayload
  <2>1. /\ UNCHANGED <<published, delivered, current>>
        /\ pc = "query" /\ pc' \in {"callback", "wait"}
    BY <1>4 DEF QueryPayload, PayloadAnswered, PayloadNotAsked, PayloadFails
  <2>2. D' = D /\ Increasing(delivered)' /\ Holding' \subseteq Holding
    BY <1>1, <2>1 DEF Elements, Increasing, Holding
  <2>3. CASE UNCHANGED <<buffer, socket>>
    BY <1>1, <2>1, <2>2, <2>3, OrderedWhenLost
  <2>4. ASSUME NEW n \in 0..Len(socket),
               buffer' = buffer \o SubSeq(socket, 1, n),
               socket' = SubSeq(socket, n + 1, Len(socket))
        PROVE  Ordered'
    <3> DEFINE P == Elements(SubSeq(socket, 1, n))
    <3>1. /\ SubSeq(socket, 1, n) \in Seq(Nat) /\ Increasing(SubSeq(socket, 1, n))
          /\ Increasing(socket')
          /\ S = P \union Elements(socket')
          /\ Before(P, Elements(socket'))
      BY <1>1, <2>4, Numbers, SplitIncreasing
    <3>2. Before(B, P)
      BY <1>1, <3>1 DEF Before
    <3>3. Increasing(buffer') /\ Elements(buffer') = B \union P
      BY <1>1, <2>4, <3>1, <3>2, Numbers, ConcatIncreasing
    <3>4. /\ S' = Elements(socket') /\ Increasing(socket)' = Increasing(socket')
          /\ B' = Elements(buffer') /\ Increasing(buffer)' = Increasing(buffer')
      BY DEF Elements, Increasing
    <3> HIDE DEF P, D, B, S
    <3>5. (D \union Holding \union B \union S)' \subseteq 1..published'
      BY <1>1, <2>1, <2>2, <3>1, <3>3, <3>4
    <3>6. /\ Before(D, Holding \union B \union S)'
          /\ Before(Holding, B \union S)'
          /\ Before(B, S)'
      BY <1>1, <2>2, <3>1, <3>3, <3>4 DEF Before
    <3> QED
      BY <2>2, <3>1, <3>3, <3>4, <3>5, <3>6 DEF Ordered, D, B, S
  <2> QED
    BY <1>4, <2>3, <2>4
       DEF QueryPayload, PayloadAnswered, PayloadNotAsked, PayloadFails, ReadSome
<1>5. CASE RunPayloadCallbacks
  <2>1. /\ UNCHANGED <<published, buffer, socket, current>>
        /\ pc = "callback" /\ pc' = "wait"
        /\ delivered' = Append(delivered, current)
    BY <1>5 DEF RunPayloadCallbacks
  <2>2. Holding = {current} /\ Holding' = {} /\ current \in Nat
    BY <1>1, <2>1 DEF Holding
  <2>3. Increasing(delivered') /\ Elements(delivered') = D \union {current}
    BY <1>1, <2>1, <2>2, Numbers, AppendIncreasing DEF Before
  <2>4. /\ D' = Elements(delivered') /\ Increasing(delivered)' = Increasing(delivered')
        /\ B' = B /\ S' = S /\ Increasing(buffer)' /\ Increasing(socket)'
    BY <1>1, <2>1 DEF Elements, Increasing
  <2> QED
    BY <1>1, <2>1, <2>2, <2>3, <2>4 DEF Ordered, Before
<1>6. CASE Break \/ Stall
  <2>1. PICK n \in 0..Len(socket) : socket' = SubSeq(socket, 1, n)
    BY <1>6 DEF Break, Stall, KeepSome
  <2>2. Increasing(socket') /\ Elements(socket') \subseteq S
    BY <1>1, <2>1, Numbers, SplitIncreasing
  <2>3. UNCHANGED <<published, delivered, buffer, pc, current>>
    BY <1>6 DEF Break, Stall, Fault
  <2> QED
    BY <1>1, <2>2, <2>3, OrderedWhenLost DEF Holding
<1>7. CASE Connect \/ Sleep \/ WaitFailed
  <2>1. /\ UNCHANGED <<published, delivered, current>>
        /\ pc' \in {"exec", "sleep", "returned", "listen", "wait"}
        /\ socket' \in {socket, <<>>} /\ buffer' \in {buffer, <<>>}
    BY <1>7 DEF Connect, Fault, Sleep, WaitFailed
  <2> QED
    BY <1>1, <2>1, EmptyIncreasing, OrderedWhenLost DEF Holding
<1>8. CASE ExecListen \/ RunReadyCallbacks \/ WaitFails \/ Cancel \/ UNCHANGED vars
  <2>1. /\ UNCHANGED <<published, delivered, buffer, socket, current>>
        /\ pc' \in {pc, "ready", "wait", "sleep", "failed"}
    BY <1>8 DEF ExecListen, RunReadyCallbacks, WaitFails, Cancel, vars
  <2> QED
    BY <1>1, <2>1, OrderedWhenLost DEF Holding
<1>9. ASSUME NEW n \in 1..MaxNotifications, Age(n) PROVE Ordered'
  BY <1>1, <1>9, OrderedWhenLost DEF Age, Holding
<1> QED
  BY <1>2, <1>3, <1>4, <1>5, <1>6, <1>7, <1>8, <1>9 DEF Next, Listen

----------------------------------------------------------------------------
(* What is kept *)

\* The rows that are deleted are old.
LEMMA OldDeletedStep == TypeOK /\ OldDeleted /\ [Next]_vars => OldDeleted'
<1> SUFFICES ASSUME TypeOK, OldDeleted, [Next]_vars PROVE OldDeleted'
  OBVIOUS
<1>1. CASE Notify
  <2>1. \A n \in 1..(published + 1) : n \in 1..published \/ n = published + 1
    BY ListenerAssumption DEF TypeOK
  <2> QED
    BY <1>1, <2>1 DEF Notify, OldDeleted
<1>2. ASSUME NEW n \in 1..MaxNotifications, Age(n) PROVE OldDeleted'
  BY <1>2 DEF Age, OldDeleted
<1>3. CASE UNCHANGED <<published, stored, aged>>
  BY <1>3 DEF OldDeleted
<1> QED
  BY <1>1, <1>2, <1>3
     DEF Next, Listen, vars, database, Connect, ExecListen, RunReadyCallbacks, Sleep, Take,
         WaitFails, WaitFailed, QueryPayload, RunPayloadCallbacks, Break, Stall, Fault, Cancel

\* The notifications that have reached the listener.
Reached ==
    Elements(delivered) \union Holding \union Elements(buffer) \union Elements(socket)

\* While it listens, it loses none of those, except for the one whose row is deleted and
\* the one whose query fails.
LEMMA ReachedStep ==
  ASSUME TypeOK, Ordered, [Next]_vars, conn' = "open", ~cancelled', session' = session
  PROVE  /\ conn = "open" /\ ~cancelled
         /\ \A n \in Reached :
                n \in Reached' \union dropped' \/ (n \in 1..published /\ n \notin stored)
<1> DEFINE Goal == /\ conn = "open" /\ ~cancelled
                   /\ \A n \in Reached :
                          \/ n \in Reached' \union dropped'
                          \/ n \in 1..published /\ n \notin stored
<1> USE DEF database, link, outcome, NewConn, Return
<1>1. CASE Notify
  <2>1. UNCHANGED <<conn, cancelled, delivered, buffer, pc, current>>
    BY <1>1 DEF Notify
  <2>2. socket' = Append(socket, published + 1)
    BY <1>1, <2>1 DEF Notify
  <2>3. /\ DOMAIN socket \subseteq DOMAIN socket'
        /\ \A i \in DOMAIN socket : socket'[i] = socket[i]
    BY <2>2, Numbers
  <2>4. Elements(socket) \subseteq Elements(socket)'
    BY <2>3 DEF Elements
  <2>5. Elements(delivered)' = Elements(delivered) /\ Elements(buffer)' = Elements(buffer)
    BY <2>1 DEF Elements
  <2> QED
    BY <2>1, <2>4, <2>5 DEF Reached, Holding
<1>2. CASE Take
  <2>1. UNCHANGED <<conn, cancelled, delivered>> /\ pc = "wait" /\ pc' = "query"
    BY <1>2 DEF Take
  <2>2. Holding = {} /\ Holding' = {current'} /\ Elements(delivered)' = Elements(delivered)
    BY <2>1 DEF Holding, Elements
  <2>3. CASE buffer # <<>> /\ current' = Head(buffer) /\ buffer' = Tail(buffer)
             /\ socket' = socket
    <3>1. Elements(buffer) = {current'} \union Elements(buffer')
      BY <2>3, Numbers, TailIncreasing DEF Ordered
    <3>2. Elements(buffer)' = Elements(buffer') /\ Elements(socket)' = Elements(socket)
      BY <2>3 DEF Elements
    <3> QED
      BY <2>1, <2>2, <3>1, <3>2 DEF Reached
  <2>4. CASE socket # <<>> /\ current' = Head(socket)
             /\ socket' = Tail(socket) /\ buffer' = buffer
    <3>1. Elements(socket) = {current'} \union Elements(socket')
      BY <2>4, Numbers, TailIncreasing DEF Ordered
    <3>2. Elements(socket)' = Elements(socket') /\ Elements(buffer)' = Elements(buffer)
      BY <2>4 DEF Elements
    <3> QED
      BY <2>1, <2>2, <3>1, <3>2 DEF Reached
  <2> QED
    BY <1>2, <2>3, <2>4 DEF Take
<1>3. CASE QueryPayload
  <2>1. /\ UNCHANGED <<delivered, current>> /\ cancelled' = cancelled
        /\ pc = "query" /\ Holding = {current}
    BY <1>3 DEF QueryPayload, Holding
  <2>2. conn = "open" /\ ~cancelled
    BY <1>3, <2>1 DEF QueryPayload, PayloadAnswered, PayloadNotAsked, PayloadFails
  <2>3. CASE PayloadNotAsked
    <3>1. UNCHANGED <<buffer, socket>> /\ dropped' = dropped \union {current}
      BY <2>3 DEF PayloadNotAsked
    <3>2. /\ Elements(buffer)' = Elements(buffer) /\ Elements(socket)' = Elements(socket)
          /\ Elements(delivered)' = Elements(delivered)
      BY <2>1, <3>1 DEF Elements
    <3> QED
      BY <2>1, <2>2, <3>1, <3>2 DEF Reached
  <2> SUFFICES ASSUME PayloadAnswered PROVE Goal
    BY <1>3, <2>3 DEF QueryPayload, PayloadFails
  <2>4. PICK n \in 0..Len(socket) :
            /\ pc' = IF current \in stored THEN "callback" ELSE "wait"
            /\ buffer' = buffer \o SubSeq(socket, 1, n)
            /\ socket' = SubSeq(socket, n + 1, Len(socket))
    BY DEF PayloadAnswered, ReadSome
  <2> DEFINE P == Elements(SubSeq(socket, 1, n))
  <2>5. /\ SubSeq(socket, 1, n) \in Seq(Nat) /\ Increasing(SubSeq(socket, 1, n))
        /\ Elements(socket) = P \union Elements(socket')
    BY <2>4, Numbers, SplitIncreasing DEF Ordered
  <2>6. Before(Elements(buffer), P)
    BY <2>5 DEF Ordered, Before
  <2>7. Elements(buffer') = Elements(buffer) \union P
    BY <2>4, <2>5, <2>6, Numbers, ConcatIncreasing DEF Ordered
  <2>8. /\ Elements(buffer)' = Elements(buffer') /\ Elements(socket)' = Elements(socket')
        /\ Elements(delivered)' = Elements(delivered)
    BY <2>1 DEF Elements
  <2>9. current \in Holding' \/ (current \in 1..published /\ current \notin stored)
    BY <2>1, <2>4 DEF Holding, TypeOK
  <2> QED
    BY <2>1, <2>2, <2>5, <2>7, <2>8, <2>9 DEF Reached
<1>4. CASE RunPayloadCallbacks
  <2>1. /\ UNCHANGED <<conn, cancelled, buffer, socket>>
        /\ pc = "callback" /\ delivered' = Append(delivered, current)
    BY <1>4 DEF RunPayloadCallbacks
  <2>2. Holding = {current} /\ current \in Nat /\ Before(Elements(delivered), {current})
    BY <2>1 DEF Holding, Ordered, Before
  <2>3. Elements(delivered') = Elements(delivered) \union {current}
    BY <2>1, <2>2, Numbers, AppendIncreasing DEF Ordered
  <2>4. /\ Elements(delivered)' = Elements(delivered')
        /\ Elements(buffer)' = Elements(buffer) /\ Elements(socket)' = Elements(socket)
    BY <2>1 DEF Elements
  <2> QED
    BY <2>1, <2>2, <2>3, <2>4 DEF Reached
<1>5. CASE UNCHANGED <<conn, delivered, buffer, socket, current>> /\ ~cancelled
           /\ (pc' = pc \/ pc \notin {"query", "callback"})
  BY <1>5 DEF Reached, Elements, Holding
<1>6. CASE ExecListen \/ RunReadyCallbacks \/ WaitFails \/ Cancel \/ UNCHANGED vars
  <2>1. UNCHANGED <<conn, delivered, buffer, socket, current>> /\ ~cancelled
        /\ (pc' = pc \/ pc \notin {"query", "callback"})
    BY <1>6, Numbers DEF ExecListen, RunReadyCallbacks, WaitFails, Cancel, vars, TypeOK
  <2> QED
    BY <1>5, <2>1
<1>7. CASE Connect \/ Sleep \/ WaitFailed \/ Break \/ Stall
  <2>1. UNCHANGED <<conn, delivered, buffer, socket, current>> /\ ~cancelled
        /\ (pc' = pc \/ pc \notin {"query", "callback"})
    BY <1>7 DEF Connect, Sleep, WaitFailed, Break, Stall
  <2> QED
    BY <1>5, <2>1
<1>8. ASSUME NEW n \in 1..MaxNotifications, Age(n) PROVE Goal
  BY <1>5, <1>8 DEF Age
<1> QED
  BY <1>1, <1>2, <1>3, <1>4, <1>6, <1>7, <1>8 DEF Next, Listen

\* What was sent to the session that listens is kept.
LEMMA KeptStep == TypeOK /\ Ordered /\ OldDeleted /\ Kept /\ [Next]_vars => Kept'
<1> SUFFICES ASSUME TypeOK, Ordered, OldDeleted, Kept, [Next]_vars,
                    conn' = "open", ~cancelled', NEW n \in 1..published', sentTo'[n] = session'
             PROVE  n \in Reached' \union aged' \union dropped'
  BY DEF Kept, Reached
<1> USE DEF database, link, outcome, NewConn, Return
<1>1. CASE ExecListen
  <2>1. session' = session + 1 /\ sentTo' = sentTo /\ published' = published
    BY <1>1 DEF ExecListen, TypeOK
  <2> QED
    BY <2>1 DEF TypeOK
<1>2. CASE ~ExecListen
  <2>1. session' = session /\ aged \subseteq aged' /\ dropped \subseteq dropped'
    BY <1>2 DEF Next, Listen, vars, Connect, RunReadyCallbacks, Sleep, Take, WaitFails,
                WaitFailed, QueryPayload, PayloadAnswered, PayloadNotAsked, PayloadFails,
                RunPayloadCallbacks, Break, Stall, Fault, Cancel, Notify, Age
  <2>2. conn = "open" /\ ~cancelled
        /\ \A m \in Reached :
               m \in Reached' \union dropped' \/ (m \in 1..published /\ m \notin stored)
    BY <2>1, ReachedStep
  <2>3. CASE n \in 1..published /\ sentTo[n] = session
    <3>1. n \in Reached \union aged \union dropped
      BY <2>2, <2>3 DEF Kept, Reached
    <3> QED
      BY <2>1, <2>2, <3>1 DEF OldDeleted
  <2>4. CASE Notify
    <3>1. /\ published' = published + 1 /\ sentTo' = Append(sentTo, session)
          /\ socket' = Append(socket, published + 1)
      BY <2>2, <2>4 DEF Notify
    <3>2. /\ n = published + 1 \/ n \in 1..published
          /\ n \in 1..published => sentTo'[n] = sentTo[n]
      BY <3>1, Numbers DEF TypeOK
    <3>3. Len(socket) + 1 \in DOMAIN socket' /\ socket'[Len(socket) + 1] = published + 1
      BY <3>1, Numbers
    <3>4. published + 1 \in Reached'
      BY <3>3 DEF Reached, Elements
    <3> QED
      BY <2>1, <2>3, <3>2, <3>4
  <2>5. CASE ~Notify
    <3>1. published' = published /\ sentTo' = sentTo
      BY <1>2, <2>5 DEF Next, Listen, vars, Connect, RunReadyCallbacks, Sleep, Take, WaitFails,
                        WaitFailed, QueryPayload, RunPayloadCallbacks, Break, Stall, Fault,
                        Cancel, Age
    <3> QED
      BY <2>1, <2>3, <3>1
  <2> QED
    BY <2>4, <2>5
<1> QED
  BY <1>1, <1>2

----------------------------------------------------------------------------
(* Readiness *)

\* Until something fails, who has said that it is ready goes on listening.
LEMMA ListeningStep == TypeOK /\ Listening /\ [Next]_vars => Listening'
<1> SUFFICES ASSUME TypeOK, Listening, [Next]_vars PROVE Listening'
  OBVIOUS
<1> USE DEF database, link, outcome, NewConn, Return
<1>1. ready # <<>> => ready[1] \in Nat
  <2>1. ready \in Seq(0..MaxNotifications)
    BY DEF TypeOK
  <2>2. ready # <<>> => 1 \in 1..Len(ready)
    BY <2>1
  <2>3. ready # <<>> => ready[1] \in 0..MaxNotifications
    BY <2>1, <2>2, ElementOfSeq
  <2> QED
    BY <2>3
<1>2. ASSUME Quiet' PROVE Quiet
  BY <1>2 DEF Quiet, TypeOK, Next, Listen, vars, Connect, ExecListen, RunReadyCallbacks, Sleep,
              Take, WaitFails, WaitFailed, QueryPayload, PayloadAnswered, PayloadNotAsked,
              PayloadFails, RunPayloadCallbacks, Break, Stall, Fault, Cancel, Notify, Age
<1>3. CASE Notify
  <2>1. /\ published' = published + 1
        /\ UNCHANGED <<ready, pc, conn, session, err, faults, cancelled>>
        /\ sentTo' = Append(sentTo, IF conn = "open" THEN session ELSE 0)
    BY <1>3 DEF Notify
  <2>2. ASSUME Quiet, ready # <<>>, NEW n \in (ready[1] + 1)..published'
        PROVE  sentTo'[n] = session
    <3>1. ready[1] \in Nat
      BY <1>1, <2>2
    <3>2. conn = "open"
      BY <2>2 DEF Listening
    <3>3. \/ n \in 1..published /\ n \in (ready[1] + 1)..published
          \/ n = published + 1
      BY <2>1, <3>1, Numbers
    <3> QED
      BY <2>1, <2>2, <3>2, <3>3, Numbers DEF Listening
  <2> QED
    BY <1>2, <2>1, <2>2 DEF Listening
<1>4. CASE ExecListen
  <2>1. /\ pc = "exec"
        /\ \/ /\ conn' = "open" /\ session' = session + 1
              /\ pc' = IF ready = <<>> THEN "ready" ELSE "wait"
           \/ conn' = "closed" /\ session' = session /\ pc' = "sleep"
        /\ UNCHANGED <<published, sentTo, ready, err, faults, cancelled>>
    BY <1>4 DEF ExecListen
  <2>2. Quiet' => ready = <<>>
    BY <1>2, <2>1 DEF Listening
  <2>3. session' \in Nat /\ (conn' = "open" => session' > 0)
    BY <2>1 DEF TypeOK
  <2> QED
    BY <1>1, <2>1, <2>2, <2>3 DEF Listening
<1>5. CASE RunReadyCallbacks
  <2>1. /\ pc = "ready" /\ pc' = "wait" /\ ready = <<>> /\ ready' = Append(ready, published)
        /\ UNCHANGED <<published, sentTo, conn, session, err, faults, cancelled>>
    BY <1>5 DEF RunReadyCallbacks, Listening
  <2>2. Len(ready') = 1 /\ ready'[1] = published
    BY <2>1
  <2>3. (ready'[1] + 1)..published' = {}
    BY <2>1, <2>2, Numbers
  <2>4. Quiet' => conn' = "open"
    BY <1>2, <2>1 DEF Listening
  <2> QED
    BY <2>1, <2>2, <2>3, <2>4 DEF Listening
<1>6. CASE Connect \/ Sleep \/ Break \/ Stall
  <2>1. /\ UNCHANGED <<ready, session>>
        /\ conn' = "open" => conn = "open"
        /\ pc' = "ready" => pc = "ready"
    BY <1>6 DEF Connect, Sleep, Break, Stall
  <2>2. Quiet' => pc \in {"listen", "sleep"} /\ pc' # "ready"
    BY <1>6 DEF Connect, Sleep, Break, Stall, Fault, Quiet, TypeOK
  <2> QED
    BY <1>2, <2>1, <2>2 DEF Listening
<1>7. CASE WaitFails
  <2>1. /\ pc = "wait" /\ pc' = "failed" /\ conn' \in {conn, "closed"}
        /\ UNCHANGED <<published, sentTo, ready, session, faults, cancelled>>
    BY <1>7 DEF WaitFails
  <2>2. ASSUME Quiet', ready' # <<>> PROVE conn' = "open" /\ err' = "deadline"
    <3>1. conn = "open"
      BY <1>2, <2>1, <2>2 DEF Listening
    <3>2. ~cancelled
      BY <1>2, <2>2 DEF Quiet
    <3> QED
      BY <1>7, <3>1, <3>2 DEF WaitFails
  <2> QED
    BY <1>2, <2>1, <2>2 DEF Listening
<1>8. CASE WaitFailed
  <2>1. /\ pc = "failed" /\ pc' # "ready" /\ conn' \in {conn, "none"}
        /\ err = "deadline" => pc' = "wait" /\ conn' = conn
        /\ UNCHANGED <<published, sentTo, ready, session, faults, cancelled>>
    BY <1>8 DEF WaitFailed
  <2> QED
    BY <1>2, <2>1 DEF Listening
<1>9. CASE Take \/ RunPayloadCallbacks \/ Cancel \/ UNCHANGED vars
           \/ \E n \in 1..MaxNotifications : Age(n)
  <2>1. /\ pc' = pc \/ (pc = "wait" /\ pc' = "query") \/ (pc = "callback" /\ pc' = "wait")
        /\ UNCHANGED <<published, sentTo, ready, session, conn, err, faults>>
    BY <1>9 DEF Take, RunPayloadCallbacks, Cancel, vars, Age
  <2> QED
    BY <1>2, <2>1 DEF Listening
<1>10. CASE QueryPayload
  <2>1. /\ pc = "query" /\ pc' \in {"callback", "wait"}
        /\ conn' = "open" => conn = "open"
        /\ conn' = conn \/ dropped' # {}
        /\ UNCHANGED <<published, sentTo, ready, session, faults, err>>
    BY <1>10 DEF QueryPayload, PayloadAnswered, PayloadNotAsked, PayloadFails
  <2>2. ASSUME Quiet', ready' # <<>> PROVE conn' = "open"
    BY <1>2, <2>1, <2>2 DEF Listening, Quiet
  <2> QED
    BY <1>2, <2>1, <2>2 DEF Listening
<1> QED
  BY <1>3, <1>4, <1>5, <1>6, <1>7, <1>8, <1>9, <1>10 DEF Next, Listen

----------------------------------------------------------------------------
(* The inductive invariant *)

\* Initially nothing has been notified.
LEMMA InitIInv == Init => IInv
<1> SUFFICES ASSUME Init PROVE IInv
  OBVIOUS
<1>1. TypeOK
  <2>1. sentTo \in [1..published -> 0..session]
    BY DEF Init
  <2>2. socket \in Seq(Ids) /\ buffer \in Seq(Ids) /\ delivered \in Seq(Ids)
    BY EmptySeq DEF Init
  <2>3. ready \in Seq(0..MaxNotifications)
    BY EmptySeq DEF Init
  <2>4. /\ published \in 0..MaxNotifications /\ faults \in 0..MaxFaults
        /\ current \in 0..MaxNotifications /\ session \in Nat
    BY ListenerAssumption DEF Init
  <2>5. /\ stored = {} /\ dropped = {} /\ aged = {} /\ conn = "none" /\ pc = "listen" /\ err = "none"
        /\ cancelled \in BOOLEAN
    BY DEF Init
  <2> QED
    BY <2>1, <2>2, <2>3, <2>4, <2>5 DEF TypeOK
<1>2. Ordered
  BY EmptyIncreasing DEF Init, Ordered, Before, Holding
<1>3. OldDeleted /\ Kept
  BY DEF Init, OldDeleted, Kept
<1>4. Listening
  BY DEF Init, Listening
<1> QED
  BY <1>1, <1>2, <1>3, <1>4 DEF IInv

\* Every step preserves the inductive invariant.
LEMMA NextIInv == IInv /\ [Next]_vars => IInv'
  BY TypeStep, OrderedStep, OldDeletedStep, KeptStep, ListeningStep DEF IInv

\* The pipeline is what the listener holds, in order.
LEMMA PipelineInOrder ==
  ASSUME TypeOK, Ordered
  PROVE  /\ Pipeline \in Seq(Nat) /\ Increasing(Pipeline)
         /\ Elements(Pipeline) = Holding \union Elements(buffer) \union Elements(socket)
<1> DEFINE held == IF pc \in {"query", "callback"} THEN <<current>> ELSE <<>>
           rest == held \o buffer
<1>1. held \in Seq(Nat) /\ Increasing(held) /\ Elements(held) = Holding
  <2>1. CASE pc \in {"query", "callback"}
    BY <2>1, SingleIncreasing, ListenerAssumption DEF Holding, TypeOK
  <2>2. CASE pc \notin {"query", "callback"}
    BY <2>2, EmptyIncreasing, EmptySeq DEF Holding
  <2> QED
    BY <2>1, <2>2
<1>2. rest \in Seq(Nat) /\ Increasing(rest) /\ Elements(rest) = Holding \union Elements(buffer)
  <2>1. Before(Elements(held), Elements(buffer))
    BY <1>1 DEF Ordered, Before
  <2> HIDE DEF held
  <2> QED
    BY <1>1, <2>1, Numbers, ConcatIncreasing DEF Ordered
<1>3. Before(Elements(rest), Elements(socket))
  BY <1>2 DEF Ordered, Before
<1>4. Pipeline = rest \o socket
  BY DEF Pipeline
<1> HIDE DEF rest
<1> QED
  BY <1>2, <1>3, <1>4, Numbers, ConcatIncreasing DEF Ordered

(***************************************************************************)
(* The state of the listener keeps its types.                              *)
(***************************************************************************)
THEOREM TypeCorrect == Spec => []TypeOK
<1>1. IInv => TypeOK
  BY DEF IInv
<1> QED
  BY <1>1, InitIInv, NextIInv, PTL DEF Spec

(***************************************************************************)
(* Callbacks see each notification at most once and in the order of the    *)
(* commits (wait, processNotification, listen).                            *)
(***************************************************************************)
THEOREM DeliveredInOrder == Spec => []InOrderOnce
<1>1. IInv => InOrderOnce
  <2> SUFFICES ASSUME IInv PROVE Increasing(delivered \o Pipeline)
    BY DEF InOrderOnce, Increasing
  <2>1. Before(Elements(delivered), Elements(Pipeline))
    BY PipelineInOrder DEF IInv, Ordered, Before
  <2> QED
    BY <2>1, PipelineInOrder, Numbers, ConcatIncreasing DEF IInv, Ordered
<1> QED
  BY <1>1, InitIInv, NextIInv, PTL DEF Spec

(***************************************************************************)
(* What was sent to the session that is listening, is not one minute old,  *)
(* and whose query didn't fail, has been passed to the callbacks or is     *)
(* about to be (Notify, wait, processNotification).                        *)
(***************************************************************************)
THEOREM NothingLost == Spec => []NothingLostWhileListening
<1>1. ASSUME IInv PROVE NothingLostWhileListening
  <2>1. ASSUME NEW n \in Holding \union Elements(buffer) \union Elements(socket)
        PROVE  InSeq(n, Pipeline)
    BY <1>1, <2>1, PipelineInOrder DEF IInv, Elements, InSeq
  <2>2. ASSUME NEW n \in Elements(delivered) PROVE InSeq(n, delivered)
    BY <2>2 DEF Elements, InSeq
  <2> QED
    BY <1>1, <2>1, <2>2 DEF IInv, Kept, NothingLostWhileListening
<1> QED
  BY <1>1, InitIInv, NextIInv, PTL DEF Spec

(***************************************************************************)
(* The ready callbacks run once, and what is notified after that reaches   *)
(* the listener, unless the database or the query of a payload fails       *)
(* (Listen, wait).                                                         *)
(***************************************************************************)
THEOREM ReadyWhenListening == Spec => []ReadyMeansListening
<1>1. IInv => ReadyMeansListening
  BY DEF IInv, Listening, ReadyMeansListening, Quiet
<1> QED
  BY <1>1, InitIInv, NextIInv, PTL DEF Spec
=============================================================================
