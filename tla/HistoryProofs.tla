----------------------------- MODULE HistoryProofs -----------------------------
(***************************************************************************)
(* Prober implements PingHistory, and its books balance: theorems for every *)
(* number of targets, ring size and sequence space, and any order of the    *)
(* steps of the three threads and the network.                              *)
(***************************************************************************)
EXTENDS ProberProofs, FiniteSetTheorems

\* The user does not look back: `delt` stays 0.  (With it, the run late_review
\* shows that the theorems which assume this are false.)
NoReview == Pressed \cap ReviewKeys = {}

\* Every time the clock shows is stored as a time, and not as a code: it is
\* not negative and under ten seconds, see KeptTime.
TimesAreKept == \A d \in RTTs : ByteTime(d) \notin {NO_PING, LOST_PING, LATE_PING}

\* What the current slot of a target shows.
Now(t) == GetPing(ping[t], 0, 0)

\* A time under ten seconds has at most four digits of milliseconds.
LEMMA FourDigits ==
  ASSUME NEW d \in Nat, d + 5 < 100000
  PROVE  Millis(d) \in Int /\ 0 <= Millis(d) /\ Millis(d) < 10000
BY SMT DEF Millis

\* Four digits or fewer are stored as a time.
LEMMA DigitsToByte ==
  ASSUME NEW d \in Nat, NEW i \in Int, Millis(d) = i, 0 <= i, i < 10000
  PROVE  ByteTime(d) \in 0 .. 57
<1>1. ByteTime(d) = IF i < 10 THEN i % 256
                    ELSE IF i < 100 THEN i \div 10 + 16
                    ELSE IF i < 1000 THEN i \div 100 + 32
                    ELSE i \div 1000 + 48
  BY SMT DEF ByteTime
<1>2. ASSUME NEW x, x = IF i < 10 THEN i % 256
                        ELSE IF i < 100 THEN i \div 10 + 16
                        ELSE IF i < 1000 THEN i \div 100 + 32
                        ELSE i \div 1000 + 48
      PROVE  x \in 0 .. 57
  BY <1>2, SMT
<1> QED
  BY <1>1, <1>2, SMT

\* A time from 0 to 9999.4 ms is stored as a time: the clocks of TimesAreKept.
LEMMA KeptTime ==
  ASSUME NEW d \in Nat, d + 5 < 100000
  PROVE  ByteTime(d) \notin {NO_PING, LOST_PING, LATE_PING}
<1>1. ByteTime(d) \in 0 .. 57
  BY FourDigits, DigitsToByte, SMT
<1> QED
  BY <1>1, SMT DEF NO_PING, LOST_PING, LATE_PING

\* What each way of counting does to the three counters.
LEMMA CountFields ==
  ASSUME NEW s \in Stat
  PROVE  /\ CountReply(s).n = s.n + 1 /\ CountReply(s).lost = s.lost
         /\ CountReply(s).late = s.late
         /\ CountLate(s).n = s.n /\ CountLate(s).lost = s.lost
         /\ CountLate(s).late = s.late + 1
         /\ \A b \in Byte :
              /\ CountLost(s, b).n = s.n /\ CountLost(s, b).late = s.late
              /\ CountLost(s, b).lost =
                   IF b = LOST_PING /\ s.lost < LostLimit THEN s.lost + 1 ELSE s.lost
BY DEF CountReply, CountLate, CountLost, Stat

\* A shift starts the count of the lost, or counts the period that ends.
LEMMA ShiftFields ==
  ASSUME NEW s \in Stat, NEW p \in Ping
  PROVE  /\ ShiftStat(p, s).n = s.n /\ ShiftStat(p, s).late = s.late
         /\ ShiftStat(p, s).lost =
              IF s.lost < 0 THEN 0
              ELSE IF GetPing(p, 0, 0) = LOST_PING /\ s.lost < LostLimit
                   THEN s.lost + 1 ELSE s.lost
<1>1. GetPing(p, 0, 0) \in Byte
  BY GetPingType
<1>2. [s EXCEPT !.lost = 0].n = s.n /\ [s EXCEPT !.lost = 0].late = s.late
      /\ [s EXCEPT !.lost = 0].lost = 0
  BY DEF Stat
<1> QED
  BY <1>1, <1>2, CountFields DEF ShiftStat

-------------------------------------------------------------------------------
(* The steps that say nothing of the history or the counters.               *)

Still ==
  /\ UNCHANGED <<seq, total, ping, stat, base, dt, row, idx, sent>>
  /\ spc' = "ping" => spc = "ping"
  /\ spc = "done" => spc' = "done"
  /\ rpc = "done" => rpc' = "done"
  /\ mpc' = "done" <=> mpc = "done"

\* Of those, the ones that leave the sockets in place.
Quiet ==
  /\ Still
  /\ net' \subseteq net /\ InFlight' \subseteq InFlight /\ UNCHANGED queue
  /\ rpc' = "process" => held' \notin net' \/ (rpc = "process" /\ held' = held)
  /\ mpc' = "swap" <=> mpc = "swap"
  /\ mpc' = "clear" <=> mpc = "clear"

\* Every step is one of those that matter to the history or to what is under
\* way, or it is quiet.
LEMMA StepsOfHistory ==
  ASSUME TypeOK, [Next]_vars
  PROVE  \/ BeginGroup \/ PingTarget \/ Process \/ ResetStats \/ Finish
         \/ OpenReceiveSocket \/ SwapReceiveSocket \/ Quiet
<1> USE DEF Quiet, Still, InFlight, app, sender, receiver, main, under
<1>1. CASE GroupSent \/ EndGroup \/ SenderStops
  BY <1>1 DEF GroupSent, EndGroup, SenderStops
<1>2. CASE Receive
  BY <1>2 DEF Receive
<1>3. CASE ReceiverStops
  BY <1>3 DEF ReceiverStops
<1>4. CASE \E key \in Pressed \cap ReviewKeys : Review(key)
  BY <1>4 DEF Review
<1>5. CASE PressReset \/ PressQuit \/ ShowIsDue
  BY <1>5 DEF PressReset, PressQuit, ShowIsDue
<1>6. CASE Draw \/ MainFails \/ MainLeaves
  BY <1>6 DEF Draw, MainFails, MainLeaves
<1>7. CASE UNCHANGED vars
  BY <1>7 DEF vars
<1> QED
  BY <1>1, <1>2, <1>3, <1>4, <1>5, <1>6, <1>7
  DEF Next, Sender, Receiver, Main, Exited

\* The sockets are replaced without a word to the history.
LEMMA StillSteps ==
  ASSUME OpenReceiveSocket \/ SwapReceiveSocket \/ Quiet
  PROVE  Still
BY DEF OpenReceiveSocket, SwapReceiveSocket, Quiet, Still, app, sender, receiver

\* The reads of the history are not offset.
NotReviewed == delt = 0

\* Without a review key the history is never read under an offset.
LEMMA StaysNow ==
  ASSUME NoReview
  PROVE  Spec => []NotReviewed
<1>1. Init => NotReviewed
  BY DEF Init, NotReviewed
<1>2. NotReviewed /\ [Next]_vars => NotReviewed'
  <2> SUFFICES ASSUME NotReviewed, [Next]_vars PROVE NotReviewed'
    OBVIOUS
  <2> USE DEF NotReviewed
  <2>1. CASE Draw
    BY <2>1, KeysAssumption DEF Draw, Clamp, AtLeastZero
  <2>2. CASE Sender \/ Receiver \/ Exited \/ UNCHANGED vars
    BY <2>2 DEF Sender, Receiver, Exited, vars, BeginGroup, PingTarget, GroupSent,
      EndGroup, SenderStops, Receive, Process, ReceiverStops
  <2>3. CASE UNCHANGED delt
    BY <2>3
  <2> QED
    BY <2>1, <2>2, <2>3 DEF Next, Main, NoReview, PressReset, OpenReceiveSocket, SwapReceiveSocket,
      ResetStats, PressQuit, ShowIsDue, MainFails, MainLeaves, Finish
<1> QED
  BY <1>1, <1>2, PTL DEF Spec

-------------------------------------------------------------------------------
(* The packets under way.                                                   *)

\* The replies that are in a socket, in the network or in hand.
Replied == InFlight \cup queue

Same(m1, m2) == m1.to = m2.to /\ m1.no = m2.no /\ m1.copy = m2.copy
Again(m1, m2) == m1.to = m2.to /\ m1.no = m2.no /\ m1.copy = m2.copy + MaxCopies

\* Each reply under way answers a request that was made and is there once; one
\* that is still to be delivered has not been delivered again.
PacketsDiffer ==
  /\ spc = "ping" => \A m \in Replied : m.no = total => m.to < idx
  /\ \A m1, m2 \in Replied : Same(m1, m2) => m1 = m2
  /\ rpc = "process" => held \notin net
  /\ mpc # "swap" => queue = {}
  /\ \A m \in net \cup queue, d \in InFlight : ~Again(d, m)

\* The packets PingTarget adds.
Replies(c) == {[to |-> idx, rsq |-> sent, no |-> total, copy |-> i] : i \in 1 .. c}

\* What PingTarget does to the two sockets.
LEMMA RepliesCome ==
  ASSUME PingTarget
  PROVE  \E c \in 0 .. MaxCopies :
           /\ net' = net \cup Replies(c)
           /\ queue' = IF mpc = "swap" THEN queue \cup Replies(c) ELSE queue
           /\ InFlight' = InFlight \cup Replies(c)
<1>1. PICK c \in 0 .. MaxCopies :
        /\ net' = net \cup Replies(c)
        /\ queue' = IF mpc = "swap" THEN queue \cup Replies(c) ELSE queue
  BY DEF PingTarget, Replies
<1>2. UNCHANGED <<rpc, held>>
  BY DEF PingTarget, receiver
<1>3. InFlight' = InFlight \cup Replies(c)
  BY <1>1, <1>2 DEF InFlight
<1> QED
  BY <1>1, <1>3

\* The fields of a packet.
LEMMA Fields ==
  ASSUME TypeOK
  PROVE  /\ \A m \in Replied : /\ m \in Packet /\ m.to \in Targets /\ m.to \in Int /\ m.no \in Nat
                               /\ m.copy \in Nat /\ 1 <= m.copy /\ m.copy <= 2 * MaxCopies
         /\ \A m \in queue : m \in Packet /\ m.copy <= MaxCopies
         /\ MaxCopies \in Nat
BY NetworkAssumption DEF TypeOK, Replied, InFlight, Packet, Targets

\* A second delivery is the same reply, but for the count of the copies.
LEMMA SecondFields ==
  ASSUME NEW m \in Packet
  PROVE  /\ Second(m).to = m.to /\ Second(m).no = m.no /\ Second(m).rsq = m.rsq
         /\ Second(m).copy = m.copy + MaxCopies
BY DEF Second, Packet

\* What the second socket takes over.
LEMMA Replaced ==
  ASSUME TypeOK, SwapReceiveSocket
  PROVE  /\ \A d \in InFlight' :
              \/ d \in InFlight /\ (d \in net' => d \in queue \cap net)
              \/ \E m \in queue \ net : d = Second(m) /\ d.copy > MaxCopies
         /\ queue' = {} /\ mpc = "swap" /\ mpc' = "clear" /\ UNCHANGED <<rpc, held>>
<1>1. PICK kept \in SUBSET queue :
        net' = (kept \cap net) \cup {Second(m) : m \in kept \ net}
  BY DEF SwapReceiveSocket
<1>2. queue' = {} /\ mpc = "swap" /\ mpc' = "clear" /\ UNCHANGED <<rpc, held>>
  BY DEF SwapReceiveSocket, receiver
<1>3. \A m \in queue : Second(m).copy > MaxCopies
  <2>1. \A m \in queue : m \in Packet /\ m.copy \in Nat /\ 1 <= m.copy /\ MaxCopies \in Nat
    BY Fields DEF Replied
  <2> QED
    BY <2>1, SecondFields
<1>4. ASSUME NEW d \in net'
      PROVE  d \in queue \cap net \/ \E m \in queue \ net : d = Second(m)
  BY <1>1
<1>5. InFlight' = net' \cup (IF rpc = "process" THEN {held} ELSE {})
  BY <1>2 DEF InFlight
<1>6. ASSUME NEW d \in InFlight'
      PROVE  \/ d \in InFlight /\ (d \in net' => d \in queue \cap net)
             \/ \E m \in queue \ net : d = Second(m) /\ d.copy > MaxCopies
  <2>1. CASE d \in net'
    BY <1>3, <1>4, <2>1 DEF InFlight
  <2>2. CASE d \notin net'
    BY <1>5, <2>2 DEF InFlight
  <2> QED
    BY <2>1, <2>2
<1> QED
  BY <1>2, <1>6

\* No two replies under way are the same (spawn_sender, spawn_receiver, and the
\* 0 key, which has two sockets open at a time).
LEMMA PacketsStayDifferent == Spec => []PacketsDiffer
<1>1. Init => PacketsDiffer
  BY DEF Init, PacketsDiffer, Replied, InFlight
<1>2. TypeOK /\ TypeOK' /\ NumbersInStep /\ PacketsDiffer /\ [Next]_vars => PacketsDiffer'
  <2> SUFFICES ASSUME TypeOK, TypeOK', NumbersInStep, PacketsDiffer, [Next]_vars
               PROVE  PacketsDiffer'
    OBVIOUS
  <2> USE DEF Same, Again
  <2>1. CASE BeginGroup
    <3>1. /\ InFlight' \subseteq InFlight /\ net' \subseteq net /\ queue' \subseteq queue
          /\ UNCHANGED <<rpc, held, mpc>>
      BY <2>1 DEF BeginGroup, InFlight, receiver, main
    <3>2. \A m \in Replied' : m.no # total'
      <4>1. \A m \in Replied : m.no \in 1 .. total
        BY DEF NumbersInStep, Replied
      <4>2. total' = total + 1 /\ total \in Nat
        BY <2>1 DEF BeginGroup, TypeOK
      <4> QED
        BY <3>1, <4>1, <4>2 DEF Replied
    <3> QED
      BY <3>1, <3>2 DEF PacketsDiffer, Replied
  <2>2. CASE PingTarget
    <3>1. PICK c \in 0 .. MaxCopies :
            /\ net' = net \cup Replies(c)
            /\ queue' = IF mpc = "swap" THEN queue \cup Replies(c) ELSE queue
            /\ InFlight' = InFlight \cup Replies(c)
      BY <2>2, RepliesCome
    <3>2. /\ spc = "ping" /\ idx' = idx + 1 /\ idx \in Int
          /\ UNCHANGED <<total, rpc, held, mpc>>
      BY <2>2 DEF PingTarget, TypeOK, app, receiver, main
    <3>3. Replied' \subseteq Replied \cup Replies(c)
      BY <3>1 DEF Replied
    <3>4. \A m \in Replied : m.to \in Int
      BY Fields
    <3>5. \A m \in Replies(c) : m.to = idx /\ m.no = total /\ m.copy \in 1 .. c
      BY DEF Replies
    <3>6. \A m \in Replied : m.no = total => m.to < idx
      BY <3>2 DEF PacketsDiffer
    <3>7. \A m \in Replied' : m.no = total' => m.to < idx'
      BY <3>2, <3>3, <3>4, <3>5, <3>6
    <3>8. \A m \in Replied, x \in Replies(c) : ~(m.to = x.to /\ m.no = x.no)
      BY <3>2, <3>4, <3>5, <3>6
    <3>9. \A m1, m2 \in Replies(c) : m1.copy = m2.copy => m1 = m2
      BY DEF Replies
    <3>10. \A m1, m2 \in Replied' : Same(m1, m2) => m1 = m2
      BY <3>3, <3>8, <3>9 DEF PacketsDiffer
    <3>11. rpc' = "process" => held' \notin net'
      BY <3>1, <3>2, <3>8 DEF PacketsDiffer, Replied, InFlight
    <3>12. \A x1, x2 \in Replies(c) : ~Again(x1, x2)
      BY <3>5, NetworkAssumption
    <3>13. ASSUME NEW m \in (net \cup queue)', NEW d \in InFlight'
           PROVE  ~Again(d, m)
      <4>1. m \in net \cup queue \cup Replies(c) /\ d \in InFlight \cup Replies(c)
        BY <3>1
      <4>2. net \cup queue \subseteq Replied /\ InFlight \subseteq Replied
        BY DEF Replied, InFlight
      <4>3. CASE m \in Replies(c) /\ d \in Replies(c)
        BY <3>12, <4>3
      <4>4. CASE m \in net \cup queue /\ d \in InFlight
        BY <4>4 DEF PacketsDiffer
      <4>5. CASE m \in Replies(c) /\ d \in InFlight
        BY <3>8, <4>2, <4>5
      <4>6. CASE m \in net \cup queue /\ d \in Replies(c)
        BY <3>8, <4>2, <4>6
      <4> QED
        BY <4>1, <4>3, <4>4, <4>5, <4>6
    <3>14. mpc' # "swap" => queue' = {}
      BY <3>1, <3>2 DEF PacketsDiffer
    <3> QED
      BY <3>2, <3>7, <3>10, <3>11, <3>13, <3>14 DEF PacketsDiffer
  <2>3. CASE Process
    BY <2>3 DEF Process, PacketsDiffer, Replied, InFlight, sender, under, main
  <2>4. CASE ResetStats \/ Finish
    BY <2>4 DEF ResetStats, Finish, PacketsDiffer, Replied, InFlight, sender, receiver, under
  <2>5. CASE Quiet
    BY <2>5 DEF Quiet, Still, PacketsDiffer, Replied
  <2>6. CASE OpenReceiveSocket
    <3>1. /\ UNCHANGED <<spc, idx, total, net, rpc, held>> /\ mpc' = "swap"
          /\ queue' \subseteq net
      BY <2>6 DEF OpenReceiveSocket, app, sender, receiver
    <3> QED
      BY <3>1 DEF PacketsDiffer, Replied, InFlight
  <2>7. CASE SwapReceiveSocket
    <3>1. /\ UNCHANGED <<spc, idx, total>> /\ queue' = {} /\ mpc' = "clear"
          /\ UNCHANGED <<rpc, held>>
      BY <2>7, Replaced DEF SwapReceiveSocket, app, sender
    <3>2. Replied' = InFlight'
      BY <3>1 DEF Replied
    <3>3. ASSUME NEW d \in InFlight'
          PROVE  \/ d \in InFlight /\ (d \in net' => d \in queue \cap net)
                 \/ \E m \in queue \ net :
                      d = Second(m) /\ m \in Replied /\ Again(d, m) /\ m.to = d.to
      <4>1. ASSUME NEW m \in queue
            PROVE  Again(Second(m), m) /\ m \in Replied
        BY Fields, SecondFields DEF Replied
      <4> QED
        BY <2>7, <4>1, Replaced
    <3>4. InFlight \subseteq Replied
      BY DEF Replied
    <3>5. spc' = "ping" => \A m \in Replied' : m.no = total' => m.to < idx'
      BY <3>1, <3>2, <3>3, <3>4 DEF PacketsDiffer
    <3>6. ASSUME NEW d1 \in InFlight', NEW d2 \in InFlight', Same(d1, d2)
          PROVE  d1 = d2
      <4>1. CASE d1 \in InFlight /\ d2 \in InFlight
        BY <3>4, <3>6, <4>1 DEF PacketsDiffer
      <4>2. ASSUME NEW m \in queue \ net, d1 = Second(m), Again(d1, m), d2 \in InFlight
            PROVE  FALSE
        BY <3>6, <4>2 DEF PacketsDiffer
      <4>3. ASSUME NEW m \in queue \ net, d2 = Second(m), Again(d2, m), d1 \in InFlight
            PROVE  FALSE
        BY <3>6, <4>3 DEF PacketsDiffer
      <4>4. ASSUME NEW m1 \in queue \ net, d1 = Second(m1), Again(d1, m1),
                   NEW m2 \in queue \ net, d2 = Second(m2), Again(d2, m2)
            PROVE  d1 = d2
        <5>1. m1.copy \in Nat /\ m2.copy \in Nat /\ MaxCopies \in Nat /\ m1 \in Replied /\ m2 \in Replied
          BY Fields DEF Replied
        <5>2. Same(m1, m2)
          BY <3>6, <4>4, <5>1
        <5> QED
          BY <4>4, <5>1, <5>2 DEF PacketsDiffer
      <4> QED
        BY <3>3, <4>1, <4>2, <4>3, <4>4
    <3>7. rpc' = "process" => held' \notin net'
      <4>1. SUFFICES ASSUME rpc = "process", held \in net' PROVE FALSE
        BY <3>1
      <4>2. held \in InFlight /\ held \in InFlight' /\ held \notin net
        BY <3>1, <4>1 DEF InFlight, PacketsDiffer
      <4>3. PICK m \in queue \ net : Again(held, m)
        BY <3>3, <4>1, <4>2
      <4> QED
        BY <4>2, <4>3 DEF PacketsDiffer
    <3>8. ASSUME NEW m \in net', NEW d \in InFlight'
          PROVE  ~Again(d, m)
      <4>1. m \in InFlight'
        BY <3>8 DEF InFlight
      <4>2. /\ m.copy \in Nat /\ d.copy \in Nat /\ MaxCopies \in Nat
            /\ \A q \in Replied : q.copy \in Nat /\ 1 <= q.copy
            /\ d.copy <= 2 * MaxCopies
        <5>1. m \in Packet /\ d \in Packet
          BY <3>8, <4>1 DEF TypeOK, InFlight
        <5> QED
          BY <5>1, Fields, NetworkAssumption DEF Packet
      <4>3. ASSUME NEW q \in queue \ net, Again(m, q), q \in Replied
            PROVE  ~Again(d, m)
        BY <4>2, <4>3
      <4>4. ASSUME m \in queue \cap net, d \in InFlight
            PROVE  ~Again(d, m)
        BY <4>4 DEF PacketsDiffer
      <4>5. ASSUME m \in queue \cap net, NEW q \in queue \ net, Again(d, q), q \in Replied
            PROVE  ~Again(d, m)
        <5>1. m \in Replied
          BY <4>5 DEF Replied
        <5>2. Again(d, m) => Same(m, q)
          BY <4>2, <4>5, <5>1
        <5> QED
          BY <4>5, <5>1, <5>2 DEF PacketsDiffer
      <4> QED
        BY <3>3, <3>8, <4>1, <4>3, <4>4, <4>5
    <3> QED
      BY <3>1, <3>2, <3>5, <3>6, <3>7, <3>8 DEF PacketsDiffer
  <2> QED
    BY <2>1, <2>2, <2>3, <2>4, <2>5, <2>6, <2>7, StepsOfHistory
<1> QED
  BY <1>1, <1>2, TypeCorrect, NumbersStayInStep, PTL DEF Spec

-------------------------------------------------------------------------------
(* What may still be delivered.                                             *)

\* The replies that are, or may come to be, in two sockets.
Doubling == IF mpc = "swap" THEN queue ELSE {r \in net : r.copy <= MaxCopies}

\* What is owed, as the mapping of Prober to PingHistory has it.
Owed == {[to |-> m.to, no |-> m.no, copy |-> m.copy] : m \in Deliveries}

\* Nothing is delivered that would not have been before.
LEMMA NothingComes ==
  ASSUME InFlight' \subseteq InFlight, Doubling' \subseteq Doubling
  PROVE  Deliveries' \subseteq Deliveries /\ Owed' \subseteq Owed
<1>1. /\ Deliveries = InFlight \cup {Second(m) : m \in Doubling}
      /\ Deliveries' = InFlight' \cup {Second(m) : m \in Doubling'}
  BY DEF Deliveries, Doubling
<1>2. Deliveries' \subseteq Deliveries
  BY <1>1
<1> QED
  BY <1>2 DEF Owed

\* What comes of a reply: itself, or the reply that it is the second delivery of.
LEMMA DeliveryOf ==
  ASSUME TypeOK, NEW d \in Deliveries
  PROVE  \/ d \in InFlight /\ d \in Replied
         \/ \E m \in net \cup queue : m \in Replied /\ d = Second(m) /\ Again(d, m)
<1>1. \A m \in Doubling : m \in net \cup queue /\ m \in Replied
  BY DEF Doubling, Replied, InFlight
<1>2. \A m \in Replied : Again(Second(m), m)
  BY Fields, SecondFields DEF Again
<1>3. d \in InFlight \/ \E m \in Doubling : d = Second(m)
  BY DEF Deliveries, Doubling
<1> QED
  BY <1>1, <1>2, <1>3 DEF Replied

\* No two deliveries are the same.
LEMMA DeliveriesDiffer ==
  ASSUME TypeOK, PacketsDiffer, NEW d1 \in Deliveries, NEW d2 \in Deliveries, Same(d1, d2)
  PROVE  d1 = d2
<1> USE DEF Same, Again
<1>1. CASE d1 \in InFlight /\ d2 \in InFlight
  BY <1>1 DEF PacketsDiffer, Replied
<1>2. ASSUME NEW m \in net \cup queue, Again(d1, m), d2 \in InFlight
      PROVE  FALSE
  BY <1>2 DEF PacketsDiffer
<1>3. ASSUME NEW m \in net \cup queue, Again(d2, m), d1 \in InFlight
      PROVE  FALSE
  BY <1>3 DEF PacketsDiffer
<1>4. ASSUME NEW m1 \in Replied, d1 = Second(m1), Again(d1, m1),
             NEW m2 \in Replied, d2 = Second(m2), Again(d2, m2)
      PROVE  d1 = d2
  <2>1. m1.copy \in Nat /\ m2.copy \in Nat /\ MaxCopies \in Nat
    BY Fields
  <2>2. Same(m1, m2)
    BY <1>4, <2>1
  <2> QED
    BY <1>4, <2>2 DEF PacketsDiffer
<1> QED
  BY <1>1, <1>2, <1>3, <1>4, DeliveryOf

-------------------------------------------------------------------------------
(* Prober implements PingHistory.                                           *)

\* The outcomes a byte stands for.
LEMMA Outcomes ==
  /\ OutcomeOf(NO_PING) = "never" /\ OutcomeOf(LOST_PING) = "lost"
  /\ OutcomeOf(LATE_PING) = "late"
  /\ \A b \in Byte : OutcomeOf(b) = "lost" <=> b = LOST_PING
  /\ \A b \in Byte : b \notin {NO_PING, LOST_PING, LATE_PING} => OutcomeOf(b) = "answered"
BY DEF OutcomeOf, NO_PING, LOST_PING, LATE_PING

\* Counting a byte that is lost is giving up an outcome that is.
LEMMA GivingUp ==
  ASSUME NEW s \in Stat, NEW b \in Byte
  PROVE  CountLost(s, b) = History!GiveUp(s, OutcomeOf(b))
BY Outcomes DEF CountLost, History!GiveUp

\* The critical section of the sender begins a period of every history.
LEMMA PeriodBegins == TypeOK /\ BeginGroup => History!NextPeriod
<1> SUFFICES ASSUME TypeOK, BeginGroup PROVE History!NextPeriod
  OBVIOUS
<1> DEFINE Hist(t) == [a \in Slots |-> OutcomeOf(GetPing(ping[t], a, 0))]
<1>1. /\ total' = total + 1 /\ UNCHANGED <<mpc, rpc, held>> /\ net' \subseteq net
      /\ queue' \subseteq queue
      /\ ping' = [t \in Targets |-> ShiftPing(ping[t])]
      /\ stat' = [t \in Targets |-> ShiftStat(ping[t], stat[t])]
  BY DEF BeginGroup, main, receiver
<1>2. /\ \A t \in Targets : ping[t] \in Ping /\ stat[t] \in Stat
      /\ 0 \in Slots /\ 0 \in Nat
  BY NSECAssumption DEF TypeOK, Slots
<1>3. ASSUME NEW t \in Targets, NEW a \in Slots
      PROVE  OutcomeOf(GetPing(ping'[t], a, 0)) =
               IF a = 0 THEN "lost" ELSE OutcomeOf(GetPing(ping[t], a - 1, 0))
  <2>1. GetPing(ping'[t], a, 0) = IF a = 0 THEN LOST_PING ELSE GetPing(ping[t], a - 1, 0)
    BY <1>1, <1>2, GetShift
  <2> QED
    BY <2>1, Outcomes
<1>4. ASSUME NEW a \in Slots, a # 0
      PROVE  a - 1 \in Slots
  BY <1>4, NSECAssumption DEF Slots
<1>5. ASSUME NEW t \in Targets, NEW a \in Slots
      PROVE  OutcomeOf(GetPing(ping'[t], a, 0)) = IF a = 0 THEN "lost" ELSE Hist(t)[a - 1]
  BY <1>3, <1>4
<1>6. ASSUME NEW t \in Targets
      PROVE  stat'[t] = IF stat[t].lost < 0 THEN [stat[t] EXCEPT !.lost = 0]
                        ELSE History!GiveUp(stat[t], Hist(t)[0])
  <2>1. GetPing(ping[t], 0, 0) \in Byte
    BY <1>2, GetPingType
  <2>2. Hist(t)[0] = OutcomeOf(GetPing(ping[t], 0, 0))
    BY <1>2
  <2> HIDE DEF Hist
  <2>3. CountLost(stat[t], GetPing(ping[t], 0, 0)) = History!GiveUp(stat[t], Hist(t)[0])
    BY <1>2, <2>1, <2>2, GivingUp
  <2> QED
    BY <1>1, <2>3 DEF ShiftStat
<1>7. {[to |-> m.to, no |-> m.no, copy |-> m.copy] : m \in Deliveries'}
        \subseteq {[to |-> m.to, no |-> m.no, copy |-> m.copy] : m \in Deliveries}
  <2>1. InFlight' \subseteq InFlight
    BY <1>1 DEF InFlight
  <2>2. Doubling' \subseteq Doubling
    BY <1>1 DEF Doubling
  <2> QED
    BY <2>1, <2>2, NothingComes DEF Owed
<1>8. /\ [t \in Targets |-> Hist(t)]' =
            [t \in Targets |->
               [a \in Slots |-> IF a = 0 THEN "lost" ELSE [u \in Targets |-> Hist(u)][t][a - 1]]]
      /\ stat' = [t \in Targets |->
                    IF stat[t].lost < 0 THEN [stat[t] EXCEPT !.lost = 0]
                    ELSE History!GiveUp(stat[t], [u \in Targets |-> Hist(u)][t][0])]
  BY <1>1, <1>5, <1>6, Zenon
<1> QED
  BY <1>1, <1>7, <1>8, Zenon DEF History!NextPeriod, History!Ages, Slots

\* What a request brings is replies to it.
LEMMA RequestBrings ==
  ASSUME TypeOK, PingTarget
  PROVE  /\ Deliveries \subseteq Deliveries'
         /\ \A d \in Deliveries' : d \in Deliveries \/ (d.to = idx /\ d.no = total)
<1>1. PICK c \in 0 .. MaxCopies :
        /\ net' = net \cup Replies(c)
        /\ queue' = IF mpc = "swap" THEN queue \cup Replies(c) ELSE queue
        /\ InFlight' = InFlight \cup Replies(c)
  BY RepliesCome
<1>2. mpc' = mpc /\ idx \in Targets
  BY TargetsAssumption DEF PingTarget, main, TypeOK, Targets
<1>3. \A m \in Replies(c) : m \in Packet /\ m.to = idx /\ m.no = total
  BY <1>2, NetworkAssumption DEF Replies, Packet, TypeOK
<1>4. Doubling \subseteq Doubling' /\ Doubling' \subseteq Doubling \cup Replies(c)
  BY <1>1, <1>2 DEF Doubling
<1>5. \A m \in Replies(c) : Second(m).to = idx /\ Second(m).no = total
  BY <1>3, SecondFields
<1>6. /\ Deliveries = InFlight \cup {Second(m) : m \in Doubling}
      /\ Deliveries' = InFlight' \cup {Second(m) : m \in Doubling'}
  BY DEF Deliveries, Doubling
<1>7. Deliveries \subseteq Deliveries'
  BY <1>1, <1>4, <1>6
<1> QED
  BY <1>1, <1>3, <1>4, <1>5, <1>6, <1>7

\* A request that is sent is a request that is made.
LEMMA RequestIsMade == TypeOK /\ PingTarget => \E t \in Targets : History!Ask(t)
<1> SUFFICES ASSUME TypeOK, PingTarget PROVE \E t \in Targets : History!Ask(t)
  OBVIOUS
<1>1. /\ UNCHANGED <<total, ping, stat, mpc>> /\ idx \in Targets
  BY TargetsAssumption DEF PingTarget, app, main, TypeOK, Targets
<1>2. Owed \subseteq Owed' /\ \A r \in Owed' \ Owed : r.to = idx /\ r.no = total
  BY RequestBrings DEF Owed
<1>3. PICK t \in Targets : t = idx
  BY <1>1
<1>4. History!Ask(t)
  BY <1>1, <1>2, <1>3 DEF History!Ask, Owed
<1> QED
  BY <1>4

\* A reply that is processed is not delivered any more, but for its second delivery.
LEMMA HeldIsGone ==
  ASSUME TypeOK, PacketsDiffer, Process
  PROVE  Deliveries = Deliveries' \cup {held} /\ held \notin Deliveries'
<1>1. /\ held \in InFlight /\ held \notin net /\ InFlight' = net
      /\ InFlight = net \cup {held}
  BY DEF Process, InFlight, PacketsDiffer, under
<1>2. Doubling' = Doubling
  BY DEF Process, Doubling, under, main
<1>3. /\ Deliveries = InFlight \cup {Second(m) : m \in Doubling}
      /\ Deliveries' = InFlight' \cup {Second(m) : m \in Doubling'}
  BY DEF Deliveries, Doubling
<1>4. \A m \in Doubling : held # Second(m)
  <2>1. \A m \in Doubling : m \in net \cup queue /\ m \in Packet
    BY Fields DEF Doubling, Replied, InFlight
  <2>2. \A m \in Doubling : Again(Second(m), m) /\ ~Again(held, m)
    BY <1>1, <2>1, SecondFields DEF PacketsDiffer, Again
  <2> QED
    BY <2>2
<1> QED
  BY <1>1, <1>2, <1>3, <1>4

\* A reply taken off what is owed is that reply and no other.
LEMMA OneIsPaid ==
  ASSUME TypeOK, PacketsDiffer, Process
  PROVE  LET r == [to |-> held.to, no |-> held.no, copy |-> held.copy]
         IN  r \in Owed /\ Owed' = Owed \ {r}
<1>1. Deliveries = Deliveries' \cup {held} /\ held \notin Deliveries'
  BY HeldIsGone
<1>2. \A m \in Deliveries' : ~(m.to = held.to /\ m.no = held.no /\ m.copy = held.copy)
  BY <1>1, DeliveriesDiffer DEF Same
<1> QED
  BY <1>1, <1>2 DEF Owed

\* A reply to the current group answers the current ping.
LEMMA CurrentAnswers ==
  ASSUME TypeOK, AgeFound, TimesAreKept, Process, Current(held),
         NEW r, r = [to |-> held.to, no |-> held.no, copy |-> held.copy]
  PROVE  History!AnswerNow(r)
<1> DEFINE Hist == [t \in Targets |-> [a \in Slots |-> OutcomeOf(GetPing(ping[t], a, 0))]]
<1>1. /\ held \in InFlight /\ held \in Packet /\ held.to \in Targets /\ held.rsq = seq
  BY DEF Process, TypeOK, InFlight, Packet, Current
<1>2. held.no = total
  BY <1>1 DEF AgeFound
<1>3. PICK d \in RTTs : ping' = [ping EXCEPT ![held.to] = SetPing(ping[held.to], 0, ByteTime(d))]
  BY DEF Current
<1>4. ByteTime(d) \in Byte /\ OutcomeOf(ByteTime(d)) = "answered"
  BY <1>3, ClockAssumption, ByteTimeIsByte, Outcomes DEF TimesAreKept
<1>5. \A t \in Targets : ping[t] \in Ping
  BY DEF TypeOK
<1>6. 0 \in Slots
  BY NSECAssumption DEF Slots
<1>7. ASSUME NEW t \in Targets, NEW a \in Slots
      PROVE  OutcomeOf(GetPing(ping'[t], a, 0)) =
               IF t = held.to /\ a = 0 THEN "answered" ELSE OutcomeOf(GetPing(ping[t], a, 0))
  <2>1. CASE t = held.to
    <3>1. ping'[t] = SetPing(ping[t], 0, ByteTime(d))
      BY <1>1, <1>3, <2>1 DEF TypeOK
    <3>2. GetPing(ping'[t], a, 0) = IF a = 0 THEN ByteTime(d) ELSE GetPing(ping[t], a, 0)
      BY <1>4, <1>5, <1>6, <3>1, GetSet
    <3> QED
      BY <1>4, <2>1, <3>2
  <2>2. CASE t # held.to
    <3>1. ping'[t] = ping[t]
      BY <1>1, <1>3, <2>2 DEF TypeOK
    <3> QED
      BY <2>2, <3>1
  <2> QED
    BY <2>1, <2>2
<1>8. Hist' = [Hist EXCEPT ![held.to][0] = "answered"]
  <2>1. [Hist EXCEPT ![held.to][0] = "answered"] =
          [t \in Targets |-> IF t = held.to THEN [Hist[t] EXCEPT ![0] = "answered"] ELSE Hist[t]]
    OBVIOUS
  <2>2. \A t \in Targets : [Hist[t] EXCEPT ![0] = "answered"] =
          [a \in Slots |-> IF a = 0 THEN "answered" ELSE OutcomeOf(GetPing(ping[t], a, 0))]
    BY <1>6
  <2>3. Hist' = [t \in Targets |-> [a \in Slots |-> OutcomeOf(GetPing(ping'[t], a, 0))]]
    OBVIOUS
  <2>4. ASSUME NEW t \in Targets
        PROVE  [a \in Slots |-> OutcomeOf(GetPing(ping'[t], a, 0))] =
                 IF t = held.to THEN [Hist[t] EXCEPT ![0] = "answered"] ELSE Hist[t]
    <3>1. CASE t = held.to
      BY <1>7, <2>2, <3>1, Zenon
    <3>2. CASE t # held.to
      <4>1. \A a \in Slots : OutcomeOf(GetPing(ping'[t], a, 0)) = OutcomeOf(GetPing(ping[t], a, 0))
        BY <1>7, <3>2
      <4>2. Hist[t] = [a \in Slots |-> OutcomeOf(GetPing(ping[t], a, 0))]
        OBVIOUS
      <4> QED
        BY <3>2, <4>1, <4>2, Zenon
    <3> QED
      BY <3>1, <3>2
  <2> HIDE DEF Hist
  <2> QED
    BY <2>1, <2>3, <2>4, Zenon
<1>9. stat' = [stat EXCEPT ![held.to].n = @ + 1]
  BY <1>1 DEF Current, CountReply, TypeOK
<1> QED
  BY <1>2, <1>8, <1>9 DEF History!AnswerNow

\* A reply to an earlier group marks its ping late if that was given up.
LEMMA OverdueAnswers ==
  ASSUME TypeOK, NumbersInStep, AgeFound, NotReviewed, Process, Overdue(held),
         NEW r, r = [to |-> held.to, no |-> held.no, copy |-> held.copy]
  PROVE  History!AnswerLate(r)
<1> DEFINE Hist == [t \in Targets |-> [a \in Slots |-> OutcomeOf(GetPing(ping[t], a, 0))]]
           k == LateOffset(seq, held.rsq)
<1>1. /\ held \in InFlight /\ held \in Packet /\ held.to \in Targets /\ held.rsq # seq
      /\ held.no \in Nat /\ total \in Nat
  BY DEF Process, TypeOK, InFlight, Packet, Overdue
<1>2. held.no < total /\ k = total - held.no /\ k > 0 /\ k \in Nat
  BY <1>1 DEF AgeFound
<1>3. ping' = IF GivenUp(ping[held.to], k)
              THEN [ping EXCEPT ![held.to] = SetPing(ping[held.to], k, LATE_PING)]
              ELSE ping
  BY DEF Overdue
<1>4. stat' = [stat EXCEPT ![held.to].late = @ + 1]
  BY <1>1 DEF Overdue, CountLate, TypeOK
<1> HIDE DEF k
<1>5. \A t \in Targets : ping[t] \in Ping /\ \A a \in Slots : GetPing(ping[t], a, 0) \in Byte
  BY GetPingType, NSECAssumption DEF TypeOK, Slots
<1>6. GivenUp(ping[held.to], k) <=> k \in Slots /\ GetPing(ping[held.to], k, 0) = LOST_PING
  BY <1>2, NSECAssumption DEF GivenUp, NotReviewed, Slots
<1>7. ASSUME NEW t \in Targets, NEW a \in Slots
      PROVE  OutcomeOf(GetPing(ping'[t], a, 0)) =
               IF t = held.to /\ a = k /\ OutcomeOf(GetPing(ping[t], a, 0)) = "lost"
               THEN "late" ELSE OutcomeOf(GetPing(ping[t], a, 0))
  <2>1. CASE t = held.to /\ GivenUp(ping[held.to], k)
    <3>1. ping'[t] = SetPing(ping[t], k, LATE_PING)
      BY <1>1, <1>3, <2>1 DEF TypeOK
    <3>2. LATE_PING \in Byte
      BY DEF LATE_PING, Byte
    <3>3. GetPing(ping'[t], a, 0) = IF a = k THEN LATE_PING ELSE GetPing(ping[t], a, 0)
      BY <1>5, <1>6, <2>1, <3>1, <3>2, GetSet
    <3> QED
      BY <1>5, <1>6, <2>1, <3>3, Outcomes
  <2>2. CASE ~(t = held.to /\ GivenUp(ping[held.to], k))
    <3>1. ping'[t] = ping[t]
      BY <1>1, <1>3, <2>2 DEF TypeOK
    <3>2. t = held.to /\ a = k => OutcomeOf(GetPing(ping[t], a, 0)) # "lost"
      BY <1>5, <1>6, <2>2, Outcomes
    <3> QED
      BY <3>1, <3>2
  <2> QED
    BY <2>1, <2>2
<1>8. Hist' = [Hist EXCEPT ![held.to] =
                [a \in Slots |-> IF a = total - held.no /\ @[a] = "lost" THEN "late" ELSE @[a]]]
  <2>1. [Hist EXCEPT ![held.to] =
                [a \in Slots |-> IF a = total - held.no /\ @[a] = "lost" THEN "late" ELSE @[a]]] =
          [t \in Targets |->
             IF t = held.to
             THEN [a \in Slots |-> IF a = total - held.no /\ Hist[held.to][a] = "lost"
                                   THEN "late" ELSE Hist[held.to][a]]
             ELSE Hist[t]]
    OBVIOUS
  <2>2. Hist' = [t \in Targets |-> [a \in Slots |-> OutcomeOf(GetPing(ping'[t], a, 0))]]
    OBVIOUS
  <2>3. \A t \in Targets : Hist[t] = [a \in Slots |-> OutcomeOf(GetPing(ping[t], a, 0))]
    OBVIOUS
  <2>4. ASSUME NEW t \in Targets
        PROVE  [a \in Slots |-> OutcomeOf(GetPing(ping'[t], a, 0))] =
                 IF t = held.to
                 THEN [a \in Slots |-> IF a = total - held.no /\ Hist[held.to][a] = "lost"
                                       THEN "late" ELSE Hist[held.to][a]]
                 ELSE Hist[t]
    <3>1. ASSUME NEW a \in Slots
          PROVE  Hist[t][a] = OutcomeOf(GetPing(ping[t], a, 0))
      OBVIOUS
    <3>2. CASE t = held.to
      <4>1. ASSUME NEW a \in Slots
            PROVE  OutcomeOf(GetPing(ping'[t], a, 0)) =
                     IF a = total - held.no /\ Hist[held.to][a] = "lost"
                     THEN "late" ELSE Hist[held.to][a]
        <5> HIDE DEF Hist
        <5> QED
          BY <1>2, <1>7, <3>1, <3>2, Zenon
      <4> HIDE DEF Hist
      <4> QED
        BY <3>2, <4>1, Zenon
    <3>3. CASE t # held.to
      <4>1. \A a \in Slots : OutcomeOf(GetPing(ping'[t], a, 0)) = OutcomeOf(GetPing(ping[t], a, 0))
        BY <1>7, <3>3
      <4> QED
        BY <2>3, <3>3, <4>1, Zenon
    <3> QED
      BY <3>2, <3>3
  <2> HIDE DEF Hist
  <2> QED
    BY <2>1, <2>2, <2>4, Zenon
<1> QED
  BY <1>1, <1>2, <1>4, <1>8 DEF History!AnswerLate, History!Ages, Slots

\* A packet that is processed is an answer.
LEMMA ReplyAnswers ==
  ASSUME TypeOK, NumbersInStep, AgeFound, PacketsDiffer, NotReviewed, TimesAreKept, Process
  PROVE  \E r \in Owed : History!Answer(r)
<1> DEFINE r == [to |-> held.to, no |-> held.no, copy |-> held.copy]
<1>1. r \in Owed /\ Owed' = Owed \ {r}
  BY OneIsPaid
<1>2. History!AnswerNow(r) \/ History!AnswerLate(r)
  BY CurrentAnswers, OverdueAnswers DEF Process
<1>3. UNCHANGED <<total, mpc>>
  BY DEF Process, main
<1> QED
  BY <1>1, <1>2, <1>3, Zenon DEF History!Answer, Owed

\* The counters are cleared.
LEMMA CountersRestart == TypeOK /\ ResetStats => History!Restart
<1> SUFFICES ASSUME TypeOK, ResetStats PROVE History!Restart
  OBVIOUS
<1>1. /\ UNCHANGED <<total, ping>> /\ mpc # "done" /\ mpc' # "done"
      /\ stat' = [t \in Targets |-> NewStat]
  BY DEF ResetStats
<1>3. Deliveries' = Deliveries
  BY DEF ResetStats, Deliveries, InFlight, receiver, under
<1>2. (mpc = "done" /\ LOGGING)' = (mpc = "done" /\ LOGGING)
  BY <1>1, Zenon
<1> QED
  BY <1>1, <1>2, <1>3, Zenon DEF History!Restart, History!NoCount, NewStat

\* The final count closes the books of a logged run; otherwise it says nothing.
LEMMA BooksClose ==
  TypeOK /\ NotReviewed /\ Finish => History!CloseBooks \/ History!Discard
<1> SUFFICES ASSUME TypeOK, NotReviewed, Finish
             PROVE  History!CloseBooks \/ History!Discard
  OBVIOUS
<1> DEFINE Hist == [t \in Targets |-> [a \in Slots |-> OutcomeOf(GetPing(ping[t], a, 0))]]
<1>1. /\ UNCHANGED <<total, ping>> /\ mpc # "done" /\ mpc' = "done"
      /\ stat' = IF LOGGING
                 THEN [t \in Targets |-> CountLost(stat[t], GetPing(ping[t], 0, 0))]
                 ELSE stat
  BY DEF Finish, NotReviewed
<1>4. Deliveries' = Deliveries
  BY DEF Finish, Deliveries, InFlight, receiver, under
<1>2. CASE LOGGING
  <2>1. \A t \in Targets : CountLost(stat[t], GetPing(ping[t], 0, 0))
                             = History!GiveUp(stat[t], OutcomeOf(GetPing(ping[t], 0, 0)))
    BY GetPingType, GivingUp DEF TypeOK
  <2>2. \A t \in Targets : Hist[t][0] = OutcomeOf(GetPing(ping[t], 0, 0))
    BY NSECAssumption DEF Slots
  <2>3. Hist' = Hist
    BY <1>1
  <2> HIDE DEF Hist
  <2>4. stat' = [t \in Targets |-> History!GiveUp(stat[t], Hist[t][0])]
    BY <1>1, <1>2, <2>1, <2>2, Zenon
  <2>5. ~(mpc = "done" /\ LOGGING) /\ (mpc = "done" /\ LOGGING)' = TRUE
    BY <1>1, <1>2, Zenon
  <2> QED
    BY <1>1, <1>4, <2>3, <2>4, <2>5, Zenon DEF History!CloseBooks, Hist
<1>3. CASE ~LOGGING
  <2>1. (mpc = "done" /\ LOGGING)' = (mpc = "done" /\ LOGGING)
    BY <1>3, Zenon
  <2> QED
    BY <1>1, <1>3, <1>4, <2>1, Zenon DEF History!Discard
<1> QED
  BY <1>2, <1>3

\* In any other step, at most, replies are lost: what the second socket gets it
\* might have got, and what it has when it takes over was owed.
LEMMA NothingIsBrought ==
  ASSUME TypeOK, OpenReceiveSocket \/ SwapReceiveSocket \/ Quiet
  PROVE  Still /\ Deliveries' \subseteq Deliveries /\ Owed' \subseteq Owed
<1>1. CASE Quiet
  <2>1. InFlight' \subseteq InFlight /\ Doubling' \subseteq Doubling /\ Still
    BY <1>1 DEF Quiet, Doubling
  <2> QED
    BY <2>1, NothingComes
<1>2. CASE OpenReceiveSocket
  <2>1. InFlight' = InFlight /\ Doubling' \subseteq Doubling
    BY <1>2 DEF OpenReceiveSocket, Doubling, InFlight, receiver
  <2> QED
    BY <1>2, <2>1, NothingComes, StillSteps
<1>3. CASE SwapReceiveSocket
  <2>1. \A m \in queue : Second(m) \in Deliveries
    BY <1>3 DEF Deliveries, SwapReceiveSocket
  <2>2. ASSUME NEW d \in InFlight'
        PROVE  d \in Deliveries
    BY <1>3, <2>1, <2>2, Replaced DEF Deliveries
  <2>3. ASSUME NEW m \in net', m.copy <= MaxCopies
        PROVE  m \in queue
    <3>1. m \in InFlight'
      BY <2>3 DEF InFlight
    <3>2. \A q \in queue : Second(q).copy \in Nat /\ MaxCopies \in Nat
      BY Fields, SecondFields DEF Replied
    <3>3. ~\E q \in queue \ net : m = Second(q) /\ m.copy > MaxCopies
      BY <2>3, <3>2
    <3> QED
      BY <1>3, <2>3, <3>1, <3>3, Replaced
  <2>4. Deliveries' = InFlight' \cup {Second(m) : m \in {r \in net' : r.copy <= MaxCopies}}
    BY <1>3, Replaced DEF Deliveries
  <2>5. Deliveries' \subseteq Deliveries
    BY <2>1, <2>2, <2>3, <2>4
  <2>6. Owed' \subseteq Owed
    BY <2>5 DEF Owed
  <2> QED
    BY <1>3, <2>5, <2>6, StillSteps
<1> QED
  BY <1>1, <1>2, <1>3

\* Such a step says nothing of the history.
LEMMA OthersDiscard ==
  ASSUME TypeOK, OpenReceiveSocket \/ SwapReceiveSocket \/ Quiet
  PROVE  History!Discard
<1>1. Still /\ Owed' \subseteq Owed
  BY NothingIsBrought
<1>2. UNCHANGED <<total, ping, stat>>
  BY <1>1 DEF Still
<1>3. (mpc = "done" /\ LOGGING)' = (mpc = "done" /\ LOGGING)
  BY <1>1, Zenon DEF Still
<1> QED
  BY <1>1, <1>2, <1>3, Zenon DEF History!Discard, Owed

\* The rings addressed by sequence numbers, shared by three threads, implement
\* the histories of PingHistory, in which a reply decides its own ping and no
\* other and nothing decided is revised (spawn_sender, process, reset_stats,
\* finalize_lost).
THEOREM HistoryIsKept ==
  ASSUME NoReview, TimesAreKept
  PROVE  Spec => Refines
<1>1. Init => History!Init
  <2> SUFFICES ASSUME Init PROVE History!Init
    OBVIOUS
  <2>1. ASSUME NEW t \in Targets, NEW a \in Slots
        PROVE  OutcomeOf(GetPing(ping[t], a, 0)) = "never"
    BY GetNew, Outcomes DEF Init
  <2>2. Deliveries = {} /\ total = 0 /\ stat = [t \in Targets |-> NewStat]
    BY DEF Init, InFlight, Deliveries
  <2>3. (mpc = "done" /\ LOGGING) = FALSE
    BY Zenon DEF Init
  <2>4. {[to |-> m.to, no |-> m.no, copy |-> m.copy] : m \in Deliveries} = {}
    BY <2>2
  <2> QED
    BY <2>1, <2>2, <2>3, <2>4, Zenon
    DEF History!Init, History!NoCount, History!Ages, Slots, NewStat
<1>2. TypeOK /\ NumbersInStep /\ AgeFound /\ PacketsDiffer /\ NotReviewed /\ [Next]_vars
        => [History!Next]_(History!vars)
  <2> SUFFICES ASSUME TypeOK, NumbersInStep, AgeFound, PacketsDiffer, NotReviewed, [Next]_vars
               PROVE  History!Next
    OBVIOUS
  <2>1. CASE BeginGroup
    BY <2>1, PeriodBegins DEF History!Next
  <2>2. CASE PingTarget
    BY <2>2, RequestIsMade DEF History!Next
  <2>3. CASE Process
    BY <2>3, ReplyAnswers DEF History!Next, Owed
  <2>4. CASE ResetStats
    BY <2>4, CountersRestart DEF History!Next
  <2>5. CASE Finish
    BY <2>5, BooksClose DEF History!Next
  <2>6. CASE OpenReceiveSocket \/ SwapReceiveSocket \/ Quiet
    BY <2>6, OthersDiscard DEF History!Next
  <2> QED
    BY <2>1, <2>2, <2>3, <2>4, <2>5, <2>6, StepsOfHistory
<1> QED
  BY <1>1, <1>2, TypeCorrect, NumbersStayInStep, AgeIsFound, PacketsStayDifferent,
     StaysNow, PTL DEF Spec, Refines, History!Spec

-------------------------------------------------------------------------------
(* What one step does to the current ping, the counters and the log.        *)

\* A period that begins: every current ping is lost until it is answered.
LEMMA NowShifts ==
  ASSUME TypeOK, BeginGroup, NEW t \in Targets
  PROVE  /\ Now(t)' = LOST_PING
         /\ stat'[t].n = stat[t].n /\ stat'[t].late = stat[t].late
         /\ stat'[t].lost = IF stat[t].lost < 0 THEN 0
                            ELSE IF Now(t) = LOST_PING /\ stat[t].lost < LostLimit
                                 THEN stat[t].lost + 1 ELSE stat[t].lost
<1>1. ping[t] \in Ping /\ stat[t] \in Stat /\ 0 \in Slots
  BY NSECAssumption DEF TypeOK, Slots
<1>2. ping'[t] = ShiftPing(ping[t]) /\ stat'[t] = ShiftStat(ping[t], stat[t])
  BY DEF BeginGroup
<1> QED
  BY <1>1, <1>2, GetShift, ShiftFields DEF Now

\* A reply decides the current ping of its target if it answers that one, and
\* is counted as late, with nothing done to a current ping, if not.
LEMMA ReplyDecides ==
  ASSUME TypeOK, AgeFound, Process
  PROVE  /\ held \in InFlight /\ held \in Packet /\ held.to \in Targets
         /\ held.no \in Nat /\ held.no <= total /\ InFlight' = net
         /\ UNCHANGED <<total, base, mpc, spc, idx, seq>>
         /\ \/ /\ held.no = total
               /\ dt' = [dt EXCEPT ![held.to] = total]
               /\ stat' = [stat EXCEPT ![held.to] = CountReply(stat[held.to])]
               /\ \E d \in RTTs : \A t \in Targets :
                    Now(t)' = IF t = held.to THEN ByteTime(d) ELSE Now(t)
            \/ /\ held.no < total
               /\ dt' = dt
               /\ stat' = [stat EXCEPT ![held.to] = CountLate(stat[held.to])]
               /\ \A t \in Targets : Now(t)' = Now(t)
<1>1. /\ held \in InFlight /\ held \in Packet /\ held.to \in Targets
      /\ held.no \in Nat /\ total \in Nat /\ InFlight' = net
      /\ UNCHANGED <<total, base, mpc, spc, idx, seq>>
  BY DEF Process, TypeOK, InFlight, Packet, sender, main, under
<1>2. held.no <= total /\ (held.rsq = seq <=> held.no = total)
  BY <1>1 DEF AgeFound
<1>3. ping[held.to] \in Ping /\ 0 \in Slots
  BY <1>1, NSECAssumption DEF TypeOK, Slots
<1>4. CASE Current(held)
  <2>1. PICK d \in RTTs : ping' = [ping EXCEPT ![held.to] = SetPing(ping[held.to], 0, ByteTime(d))]
    BY <1>4 DEF Current
  <2>2. ByteTime(d) \in Byte
    BY <2>1, ClockAssumption, ByteTimeIsByte
  <2>3. GetPing(SetPing(ping[held.to], 0, ByteTime(d)), 0, 0) = ByteTime(d)
    BY <1>3, <2>2, GetSet
  <2>4. ping'[held.to] = SetPing(ping[held.to], 0, ByteTime(d))
        /\ \A t \in Targets : t # held.to => ping'[t] = ping[t]
    BY <1>1, <2>1 DEF TypeOK
  <2>5. \A t \in Targets : Now(t)' = IF t = held.to THEN ByteTime(d) ELSE Now(t)
    BY <2>3, <2>4 DEF Now
  <2> QED
    BY <1>1, <1>2, <1>4, <2>1, <2>5 DEF Current
<1>5. CASE Overdue(held)
  <2> DEFINE k == LateOffset(seq, held.rsq)
  <2>1. held.no < total /\ k = total - held.no /\ k > 0 /\ k \in Nat
    BY <1>1, <1>2, <1>5 DEF AgeFound, Overdue
  <2>2. ping' = IF GivenUp(ping[held.to], k)
                THEN [ping EXCEPT ![held.to] = SetPing(ping[held.to], k, LATE_PING)]
                ELSE ping
    BY <1>5 DEF Overdue
  <2> HIDE DEF k
  <2>3. GivenUp(ping[held.to], k) => k \in Slots /\ k # 0
    BY <2>1, NSECAssumption DEF GivenUp, Slots
  <2>4. LATE_PING \in Byte
    BY DEF LATE_PING, Byte
  <2>5. ASSUME NEW t \in Targets
        PROVE  GetPing(ping'[t], 0, 0) = GetPing(ping[t], 0, 0)
    <3>1. CASE t = held.to /\ GivenUp(ping[held.to], k)
      <4>1. ping'[t] = SetPing(ping[t], k, LATE_PING)
        BY <2>2, <3>1 DEF TypeOK
      <4> QED
        BY <1>3, <2>3, <2>4, <3>1, <4>1, GetSet
    <3>2. CASE ~(t = held.to /\ GivenUp(ping[held.to], k))
      BY <1>1, <2>2, <3>2 DEF TypeOK
    <3> QED
      BY <3>1, <3>2
  <2> QED
    BY <1>1, <1>2, <1>5, <2>1, <2>5 DEF Overdue, Now
<1> QED
  BY <1>4, <1>5 DEF Process

\* The program has exited only when both threads are joined.
AllJoined == mpc = "done" => spc = "done" /\ rpc = "done"

\* The time kept for the log is the current ping's, once that is answered.
TimeIsCurrent == \A t \in Targets : Now(t) # LOST_PING => dt[t] = total

\* Main joins the two threads before it counts and leaves (main).
LEMMA ThreadsAreJoined == Spec => []AllJoined
<1>1. Init => AllJoined
  BY DEF Init, AllJoined
<1>2. TypeOK /\ AllJoined /\ [Next]_vars => AllJoined'
  <2> SUFFICES ASSUME TypeOK, AllJoined, [Next]_vars PROVE AllJoined'
    OBVIOUS
  <2>1. CASE BeginGroup \/ PingTarget \/ Process \/ ResetStats \/ Finish
    BY <2>1 DEF AllJoined, BeginGroup, PingTarget, Process, ResetStats, Finish,
      sender, receiver, main
  <2>2. CASE Still
    BY <2>2 DEF AllJoined, Still
  <2> QED
    BY <2>1, <2>2, StepsOfHistory, StillSteps
<1> QED
  BY <1>1, <1>2, TypeCorrect, PTL DEF Spec

\* The time of an answered ping is its own, whatever late replies come.
LEMMA TimeStaysCurrent == Spec => []TimeIsCurrent
<1>1. Init => TimeIsCurrent
  BY GetNew, NSECAssumption DEF Init, TimeIsCurrent, Now, Slots
<1>2. TypeOK /\ AgeFound /\ TimeIsCurrent /\ [Next]_vars => TimeIsCurrent'
  <2> SUFFICES ASSUME TypeOK, AgeFound, TimeIsCurrent, [Next]_vars,
                      NEW t \in Targets, Now(t)' # LOST_PING
               PROVE  dt'[t] = total'
    BY DEF TimeIsCurrent
  <2>1. CASE BeginGroup
    BY <2>1, NowShifts
  <2>2. CASE Process
    <3>1. dt \in [Targets -> Nat]
      BY DEF TypeOK
    <3>2. CASE held.no = total
      BY <2>2, <3>1, <3>2, ReplyDecides DEF TimeIsCurrent, TypeOK
    <3>3. CASE held.no < total
      BY <2>2, <3>1, <3>3, ReplyDecides DEF TimeIsCurrent, TypeOK
    <3> QED
      BY <2>2, <3>2, <3>3, ReplyDecides DEF TypeOK
  <2>3. CASE PingTarget \/ ResetStats \/ Finish \/ Still
    BY <2>3 DEF PingTarget, ResetStats, Finish, Still, app, TimeIsCurrent, Now
  <2> QED
    BY <2>1, <2>2, <2>3, StepsOfHistory, StillSteps
<1> QED
  BY <1>1, <1>2, TypeCorrect, AgeIsFound, PTL DEF Spec

\* A logged group's row has its own time for every target that answered in it
\* (output_log in spawn_sender, and process, which overwrites `dt`).
THEOREM AnswersLogged == Spec => AnswersAreLogged
<1>1. TypeOK /\ TimeIsCurrent /\ [Next]_vars =>
        (LOGGING /\ seq > 0 /\ total' > total =>
           \A t \in Targets : GetPing(ping[t], 0, 0) # LOST_PING => row'.dt[t] = row'.group)
  <2> SUFFICES ASSUME TypeOK, TimeIsCurrent, [Next]_vars, LOGGING, seq > 0, total' > total,
                      NEW t \in Targets, Now(t) # LOST_PING
               PROVE  row'.dt[t] = row'.group
    BY DEF Now
  <2>1. BeginGroup
    <3>1. total \in Nat
      BY DEF TypeOK
    <3>2. ~(PingTarget \/ Process \/ ResetStats \/ Finish \/ Still)
      BY <3>1 DEF PingTarget, Process, ResetStats, Finish, Still, app
    <3> QED
      BY <3>2, StepsOfHistory, StillSteps
  <2>2. row' = [group |-> total, dt |-> dt]
    BY <2>1 DEF BeginGroup
  <2> QED
    BY <2>2 DEF TimeIsCurrent
<1> QED
  BY <1>1, TypeCorrect, TimeStaysCurrent, PTL DEF Spec, AnswersAreLogged

\* While nobody looks back, a late reply marks its own ping's slot, and marks
\* it exactly when that ping was given up: the comment of ping.rs holds.
THEOREM LateMarkIsItsOwn ==
  ASSUME NoReview
  PROVE  Spec => LateMarksItsPing
<1> DEFINE Marks(t, k) ==
             (GetPing(ping'[t], k, 0) = LATE_PING)
               <=> (GetPing(ping[t], k, 0) \in {LOST_PING, LATE_PING})
<1>1. TypeOK /\ AgeFound /\ NotReviewed /\ [Next]_vars =>
        \A t \in Targets : stat'[t].late = stat[t].late + 1 =>
          \A k \in 1 .. NSEC - 1 : k = total - held.no => Marks(t, k)
  <2> SUFFICES ASSUME TypeOK, AgeFound, NotReviewed, [Next]_vars,
                      NEW t \in Targets, stat'[t].late = stat[t].late + 1,
                      NEW k \in 1 .. NSEC - 1, k = total - held.no
               PROVE  Marks(t, k)
    OBVIOUS
  <2>1. stat \in [Targets -> Stat] /\ stat[t] \in Stat /\ stat[t].late \in Nat
    BY DEF TypeOK, Stat
  <2>2. Process
    <3>1. CASE BeginGroup
      BY <2>1, <3>1, NowShifts
    <3>2. CASE ResetStats
      BY <2>1, <3>2 DEF ResetStats, NewStat
    <3>3. CASE Finish
      <4>1. GetPing(ping[t], 0, delt) \in Byte
        BY GetPingType DEF TypeOK
      <4>2. stat'[t] = stat[t] \/ stat'[t] = CountLost(stat[t], GetPing(ping[t], 0, delt))
        BY <3>3 DEF Finish
      <4> QED
        BY <2>1, <4>1, <4>2, CountFields
    <3>4. CASE PingTarget \/ Still
      BY <2>1, <3>4 DEF PingTarget, Still, app
    <3> QED
      BY <3>1, <3>2, <3>3, <3>4, StepsOfHistory, StillSteps
  <2>3. t = held.to /\ Overdue(held)
    <3>1. held.to \in Targets /\ held \in InFlight
      BY <2>2, ReplyDecides
    <3>2. ~Current(held)
      BY <2>1, <3>1, CountFields DEF Current
    <3>3. Overdue(held)
      BY <2>2, <3>2 DEF Process
    <3> QED
      BY <2>1, <3>1, <3>3 DEF Overdue
  <2>4. LateOffset(seq, held.rsq) = k
    BY <2>2, <2>3, ReplyDecides DEF AgeFound, Overdue
  <2>5. GivenUp(ping[t], k) <=> GetPing(ping[t], k, 0) = LOST_PING
    BY NSECAssumption DEF GivenUp, NotReviewed
  <2>6. ping' = IF GivenUp(ping[t], k)
                THEN [ping EXCEPT ![t] = SetPing(ping[t], k, LATE_PING)]
                ELSE ping
    BY <2>3, <2>4 DEF Overdue
  <2>7. CASE GivenUp(ping[t], k)
    <3>1. ping'[t] = SetPing(ping[t], k, LATE_PING)
      BY <2>6, <2>7 DEF TypeOK
    <3>2. ping[t] \in Ping /\ LATE_PING \in Byte /\ k \in Slots
      BY NSECAssumption DEF TypeOK, LATE_PING, Byte, Slots
    <3>3. GetPing(ping'[t], k, 0) = LATE_PING
      BY <3>1, <3>2, GetSet
    <3> QED
      BY <2>5, <2>7, <3>3
  <2>8. CASE ~GivenUp(ping[t], k)
    BY <2>5, <2>6, <2>8
  <2> QED
    BY <2>7, <2>8
<1> QED
  BY <1>1, TypeCorrect, AgeIsFound, StaysNow, PTL DEF Spec, LateMarksItsPing

-------------------------------------------------------------------------------
(* The counters.                                                            *)

\* The first delivery of a reply to a current ping finds it open, when the network
\* does not duplicate: the pings of the targets not asked yet and of the replies
\* that are under way are still lost.
CurrentIsOpen ==
  /\ spc = "ping" => \A t \in Targets : t >= idx => Now(t) = LOST_PING
  /\ \A m \in InFlight : m.copy <= MaxCopies /\ m.no = total => Now(m.to) = LOST_PING

\* A first delivery under way was under way before, unless it has just been sent.
LEMMA FirstsStay ==
  ASSUME TypeOK, OpenReceiveSocket \/ SwapReceiveSocket \/ Quiet,
         NEW m \in InFlight', m.copy <= MaxCopies
  PROVE  m \in InFlight
<1>1. CASE OpenReceiveSocket
  BY <1>1 DEF OpenReceiveSocket, InFlight, receiver
<1>2. CASE SwapReceiveSocket
  <2>1. \A q \in queue : Second(q).copy \in Nat /\ MaxCopies \in Nat
    BY Fields, SecondFields DEF Replied
  <2> QED
    BY <1>2, <2>1, Replaced
<1>3. CASE Quiet
  BY <1>3 DEF Quiet
<1> QED
  BY <1>1, <1>2, <1>3

\* One first delivery for each ping (spawn_sender, process, a network without copies).
LEMMA OneReplyEach ==
  ASSUME MaxCopies <= 1
  PROVE  Spec => []CurrentIsOpen
<1>1. Init => CurrentIsOpen
  BY DEF Init, CurrentIsOpen, InFlight
<1>2. TypeOK /\ AgeFound /\ PacketsDiffer /\ CurrentIsOpen /\ [Next]_vars => CurrentIsOpen'
  <2> SUFFICES ASSUME TypeOK, AgeFound, PacketsDiffer, CurrentIsOpen, [Next]_vars
               PROVE  CurrentIsOpen'
    OBVIOUS
  <2>1. CASE BeginGroup
    <3>1. \A m \in InFlight' : m.to \in Targets
      BY <2>1 DEF BeginGroup, InFlight, TypeOK, Packet, receiver
    <3> QED
      BY <2>1, <3>1, NowShifts DEF CurrentIsOpen
  <2>2. CASE PingTarget
    <3>1. PICK c \in 0 .. MaxCopies : net' = net \cup Replies(c)
      BY <2>2 DEF PingTarget, Replies
    <3>2. /\ spc = "ping" /\ idx' = idx + 1 /\ idx \in Targets /\ idx \in Int
          /\ UNCHANGED <<total, ping, rpc, held, spc>>
      BY <2>2, TargetsAssumption DEF PingTarget, TypeOK, app, receiver, Targets
    <3>3. InFlight' = InFlight \cup Replies(c)
      BY <3>1, <3>2 DEF InFlight
    <3>4. \A m \in Replies(c) : m.to = idx
      BY DEF Replies
    <3>5. \A t \in Targets : Now(t)' = Now(t) /\ t \in Int
      BY <3>2 DEF Now, Targets
    <3>6. \A m \in InFlight : m.to \in Targets
      BY DEF InFlight, TypeOK, Packet
    <3>7. \A m \in InFlight' :
            m.copy <= MaxCopies /\ m.no = total' => Now(m.to)' = LOST_PING
      <4>1. Now(idx) = LOST_PING
        BY <3>2 DEF CurrentIsOpen
      <4>2. \A m \in Replies(c) : Now(m.to) = LOST_PING /\ m.to \in Targets
        BY <3>2, <3>4, <4>1
      <4> QED
        BY <3>2, <3>3, <3>5, <3>6, <4>2 DEF CurrentIsOpen
    <3>8. \A t \in Targets : t >= idx' => Now(t)' = LOST_PING
      BY <3>2, <3>5 DEF CurrentIsOpen
    <3> QED
      BY <3>7, <3>8 DEF CurrentIsOpen
  <2>3. CASE Process
    <3>1. \A m \in InFlight :
            /\ m \in Replied /\ m.to \in Targets /\ m.to \in Int
            /\ m.copy = 1 \/ m.copy = 1 + MaxCopies
            /\ m.copy <= MaxCopies => m.copy = 1
      BY NetworkAssumption DEF InFlight, Replied, TypeOK, Packet, Targets
    <3>2. /\ held \in InFlight /\ InFlight' = net /\ net \subseteq InFlight
          /\ UNCHANGED <<total, spc, idx>>
      BY <2>3, ReplyDecides DEF InFlight
    <3>3. CASE held.no = total
      <4>1. \A m \in net : m.copy <= MaxCopies /\ m.no = total => m.to # held.to
        <5>1. \A m \in net : ~Same(held, m) /\ ~Again(held, m)
          BY <2>3, <3>1, <3>2 DEF PacketsDiffer, Process
        <5> QED
          BY <3>1, <3>2, <3>3, <5>1 DEF Same, Again
      <4>2. spc = "ping" => held.to < idx
        BY <3>1, <3>2, <3>3 DEF PacketsDiffer
      <4>3. \A t \in Targets : t # held.to => Now(t)' = Now(t)
        BY <2>3, <3>3, ReplyDecides DEF TypeOK
      <4>4. idx \in Int
        BY DEF TypeOK
      <4>5. spc = "ping" => \A t \in Targets : t >= idx => t # held.to
        BY <3>1, <3>2, <4>2, <4>4
      <4> QED
        BY <3>1, <3>2, <4>1, <4>3, <4>5 DEF CurrentIsOpen
    <3>4. CASE held.no < total
      <4>1. \A t \in Targets : Now(t)' = Now(t)
        BY <2>3, <3>4, ReplyDecides DEF TypeOK
      <4> QED
        BY <3>1, <3>2, <4>1 DEF CurrentIsOpen
    <3> QED
      BY <2>3, <3>3, <3>4, ReplyDecides DEF TypeOK
  <2>4. CASE ResetStats \/ Finish
    BY <2>4 DEF ResetStats, Finish, CurrentIsOpen, Now, InFlight, sender, receiver, under
  <2>5. CASE OpenReceiveSocket \/ SwapReceiveSocket \/ Quiet
    <3>1. /\ UNCHANGED <<total, ping, idx>> /\ (spc' = "ping" => spc = "ping")
      BY <2>5, StillSteps DEF Still
    <3>2. ASSUME NEW m \in InFlight', m.copy <= MaxCopies
          PROVE  m \in InFlight
      BY <2>5, <3>2, FirstsStay
    <3> QED
      BY <3>1, <3>2 DEF CurrentIsOpen, Now
  <2> QED
    BY <2>1, <2>2, <2>3, <2>4, <2>5, StepsOfHistory
<1> QED
  BY <1>1, <1>2, TypeCorrect, AgeIsFound, PacketsStayDifferent, PTL DEF Spec

\* A second delivery of a reply to the current ping is cleared away by the reset that
\* follows the swap, or comes after it; before the first swap there is none.
OnlyAfterSwap ==
  /\ \A m \in InFlight : m.copy > MaxCopies /\ m.no = total => mpc = "clear" \/ total = base
  /\ base = 0 /\ mpc # "clear" => \A m \in InFlight : m.copy <= MaxCopies

\* Only a swap delivers twice (handle_key, the 0 key; a reset follows at once).
LEMMA SecondsFollowSwaps == Spec => []OnlyAfterSwap
<1>1. Init => OnlyAfterSwap
  BY DEF Init, OnlyAfterSwap, InFlight
<1>2. TypeOK /\ NumbersInStep /\ OnlyAfterSwap /\ [Next]_vars => OnlyAfterSwap'
  <2> SUFFICES ASSUME TypeOK, NumbersInStep, OnlyAfterSwap, [Next]_vars PROVE OnlyAfterSwap'
    OBVIOUS
  <2>1. \A m \in InFlight : m.no \in 1 .. total /\ m.copy \in Nat /\ MaxCopies \in Nat
    BY Fields DEF NumbersInStep, Replied
  <2>2. CASE BeginGroup
    <3>1. /\ InFlight' \subseteq InFlight /\ total' = total + 1 /\ total \in Nat
          /\ UNCHANGED <<base, mpc>>
      BY <2>2 DEF BeginGroup, InFlight, receiver, main, TypeOK
    <3> QED
      BY <2>1, <3>1 DEF OnlyAfterSwap
  <2>3. CASE PingTarget
    <3>1. PICK c \in 0 .. MaxCopies : InFlight' = InFlight \cup Replies(c)
      BY <2>3, RepliesCome
    <3>2. \A m \in Replies(c) : m.copy <= MaxCopies /\ ~(m.copy > MaxCopies)
      BY NetworkAssumption DEF Replies
    <3>3. UNCHANGED <<total, base, mpc>>
      BY <2>3 DEF PingTarget, app, main
    <3> QED
      BY <3>1, <3>2, <3>3 DEF OnlyAfterSwap
  <2>4. CASE Process
    BY <2>4 DEF Process, OnlyAfterSwap, InFlight, main, under
  <2>5. CASE ResetStats
    <3>1. InFlight' = InFlight /\ total' = total /\ base' = total /\ total \in Nat
      BY <2>5 DEF ResetStats, InFlight, receiver, under, TypeOK
    <3>2. total = 0 => InFlight = {}
      BY <2>1
    <3> QED
      BY <3>1, <3>2 DEF OnlyAfterSwap
  <2>6. CASE Finish
    BY <2>6 DEF Finish, OnlyAfterSwap, InFlight, receiver, under
  <2>7. CASE OpenReceiveSocket
    BY <2>7 DEF OpenReceiveSocket, OnlyAfterSwap, InFlight, receiver, app
  <2>8. CASE SwapReceiveSocket
    BY <2>8 DEF SwapReceiveSocket, OnlyAfterSwap
  <2>9. CASE Quiet
    BY <2>9 DEF Quiet, Still, OnlyAfterSwap
  <2> QED
    BY <2>2, <2>3, <2>4, <2>5, <2>6, <2>7, <2>8, <2>9, StepsOfHistory
<1> QED
  BY <1>1, <1>2, TypeCorrect, NumbersStayInStep, PTL DEF Spec

\* The reads of a logged run are not offset.
LogNotReviewed == LOGGING => NotReviewed

\* The replies to the current ping of a target that may still be delivered.
Due(t) == {m \in Deliveries : m.to = t /\ m.no = total}

\* Of those, one is in the socket that has taken over.
SecondIsDue(t) == \E m \in InFlight : m.copy > MaxCopies /\ m.to = t /\ m.no = total

\* What a reset may leave.
Surplus == IF base = 0 THEN 0 ELSE 2

\* After a reset, until the next period.
Fresh(t) ==
  /\ total = base /\ stat[t].n <= 2
  /\ stat[t].n > 0 => Now(t) # LOST_PING /\ base # 0
  /\ \A m \in Due(t) : stat[t].n <= 1
  /\ \A m1, m2 \in Due(t) : m1 # m2 => stat[t].n = 0

\* From then on.
Extra(t) == stat[t].n + stat[t].lost + Open(t) - (total - base)

Under(t) ==
  /\ mpc # "done" => total > base
  /\ stat[t].lost < LostLimit =>
       /\ 0 <= Extra(t) /\ Extra(t) <= Doubled + Surplus
       /\ mpc = "clear" /\ SecondIsDue(t) => Extra(t) <= Surplus

\* The books of one target: the property Balanced, and what keeps it through
\* the second deliveries and the first shift after a reset.
BooksOf(t) == IF stat[t].lost < 0 THEN Fresh(t) ELSE Under(t)

BooksAreKept == \A t \in Targets : BooksOf(t)

\* Only logged runs need the view to stay at the present.
LEMMA LogStaysNow ==
  ASSUME LOGGING => NoReview
  PROVE  Spec => []LogNotReviewed
<1>1. CASE LOGGING
  <2>1. NotReviewed => LogNotReviewed
    BY DEF LogNotReviewed
  <2>2. NoReview
    BY <1>1
  <2>3. Spec => []NotReviewed
    BY <2>2, StaysNow
  <2> QED
    BY <2>1, <2>3, PTL
<1>2. CASE ~LOGGING
  <2>1. LogNotReviewed
    BY <1>2 DEF LogNotReviewed
  <2> QED
    BY <2>1, PTL
<1> QED
  BY <1>1, <1>2

\* Of the replies to one ping, a network without copies leaves two deliveries at most.
LEMMA TwoAtMost ==
  ASSUME MaxCopies <= 1, TypeOK, PacketsDiffer, NEW t,
         NEW m1 \in Due(t), NEW m2 \in Due(t), NEW m3 \in Due(t)
  PROVE  m1 = m2 \/ m1 = m3 \/ m2 = m3
<1>1. ASSUME NEW d \in Deliveries
      PROVE  d.copy = 1 \/ d.copy = 1 + MaxCopies
  <2>1. CASE d \in Replied
    BY <2>1, Fields
  <2>2. ASSUME NEW m \in net \cup queue, m \in Replied, d = Second(m), m.copy = 1
        PROVE  d.copy = 1 + MaxCopies
    BY <2>2, Fields, SecondFields
  <2>3. \A m \in Doubling : m \in net \cup queue /\ m \in Replied /\ m.copy = 1
    BY Fields DEF Doubling, Replied, InFlight
  <2>4. d \in InFlight \/ \E m \in Doubling : d = Second(m)
    BY DEF Deliveries, Doubling
  <2> QED
    BY <2>1, <2>2, <2>3, <2>4 DEF Replied
<1>2. \A d \in Due(t) : d \in Deliveries /\ d.to = t /\ d.no = total
  BY DEF Due
<1>3. ASSUME NEW d1 \in Due(t), NEW d2 \in Due(t), d1.copy = d2.copy
      PROVE  d1 = d2
  BY <1>2, <1>3, DeliveriesDiffer DEF Same
<1>4. m1.copy = m2.copy \/ m1.copy = m3.copy \/ m2.copy = m3.copy
  BY <1>1, <1>2
<1> QED
  BY <1>3, <1>4

\* A delivery is taken off what is due.
LEMMA OneIsDelivered ==
  ASSUME TypeOK, PacketsDiffer, Process, NEW t
  PROVE  /\ Due(t)' \subseteq Due(t) /\ held \notin Due(t)'
         /\ held.to = t /\ held.no = total => held \in Due(t)
<1>1. Deliveries = Deliveries' \cup {held} /\ held \notin Deliveries' /\ total' = total
  BY HeldIsGone DEF Process
<1> QED
  BY <1>1 DEF Due

\* The first shift after a reset, and every other, keeps the books.
LEMMA ShiftKeepsBooks ==
  ASSUME TypeOK, NumbersInStep, AllJoined, BeginGroup, NEW t \in Targets, BooksOf(t)
  PROVE  BooksOf(t)'
<1>1. /\ stat[t].n \in Nat /\ stat[t].lost \in Nat \cup {-1}
      /\ total \in Nat /\ base \in Nat /\ LostLimit \in Nat /\ LostLimit > 0
  BY LostLimitAssumption DEF TypeOK, Stat
<1>2. mpc # "done" /\ mpc' = mpc /\ total' = total + 1 /\ base' = base
  BY DEF BeginGroup, AllJoined, main
<1>3. /\ Now(t)' = LOST_PING
      /\ stat'[t].n = stat[t].n
      /\ stat'[t].lost = IF stat[t].lost < 0 THEN 0
                        ELSE IF Now(t) = LOST_PING /\ stat[t].lost < LostLimit
                             THEN stat[t].lost + 1 ELSE stat[t].lost
  BY NowShifts
<1>4. Open(t)' = 1 /\ Open(t) = IF Now(t) = LOST_PING THEN 1 ELSE 0
  BY <1>2, <1>3, Zenon DEF Open, Now
<1>5. ~SecondIsDue(t)'
  <2>1. \A m \in InFlight : m.no \in 1 .. total
    BY DEF NumbersInStep
  <2>2. InFlight' \subseteq InFlight
    BY DEF BeginGroup, InFlight, receiver
  <2> QED
    BY <1>1, <1>2, <2>1, <2>2 DEF SecondIsDue
<1>6. /\ Doubled' = Doubled /\ Doubled \in {0, 1} /\ Surplus' = Surplus
      /\ Surplus = IF base = 0 THEN 0 ELSE 2
  BY <1>2 DEF Doubled, Surplus
<1>7. ~(stat'[t].lost < 0) /\ total' > base'
  BY <1>1, <1>2, <1>3 DEF BooksOf, Fresh, Under
<1>8. Extra(t)' = stat'[t].n + stat'[t].lost + Open(t)' - (total' - base')
  BY DEF Extra
<1>9. CASE stat[t].lost < 0
  <2>1. total = base /\ stat[t].n <= 2 /\ (stat[t].n > 0 => base # 0)
    BY <1>9 DEF BooksOf, Fresh
  <2>2. Extra(t)' = stat[t].n
    BY <1>1, <1>2, <1>3, <1>4, <1>8, <1>9, <2>1
  <2>3. 0 <= Extra(t)' /\ Extra(t)' <= Doubled' + Surplus'
    BY <1>1, <1>6, <2>1, <2>2
  <2> QED
    BY <1>5, <1>7, <2>3 DEF BooksOf, Under
<1>10. CASE ~(stat[t].lost < 0)
  <2>1. ASSUME stat'[t].lost < LostLimit
        PROVE  0 <= Extra(t)' /\ Extra(t)' <= Doubled' + Surplus'
    <3>1. stat[t].lost < LostLimit
      BY <1>1, <1>3, <1>10, <2>1
    <3>2. 0 <= Extra(t) /\ Extra(t) <= Doubled + Surplus
      BY <1>10, <3>1 DEF BooksOf, Under
    <3>3. Extra(t)' = Extra(t)
      BY <1>1, <1>2, <1>3, <1>4, <1>8, <1>10, <3>1 DEF Extra
    <3> QED
      BY <1>6, <3>2, <3>3
  <2> QED
    BY <1>5, <1>7, <2>1 DEF BooksOf, Under
<1> QED
  BY <1>9, <1>10

\* A reply keeps the books: the first finds its ping open; a second comes while
\* the next reset is pending, or after it, when the books allow for it.
LEMMA ReplyKeepsBooks ==
  ASSUME MaxCopies <= 1, TimesAreKept, TypeOK, NumbersInStep, AgeFound, AllJoined,
         PacketsDiffer, CurrentIsOpen, OnlyAfterSwap, Process, NEW t \in Targets, BooksOf(t)
  PROVE  BooksOf(t)'
<1>1. /\ stat[t] \in Stat /\ stat[t].n \in Nat /\ stat[t].lost \in Nat \cup {-1}
      /\ total \in Nat /\ base \in Nat /\ stat \in [Targets -> Stat]
      /\ LostLimit \in Nat /\ LostLimit > 0
  BY LostLimitAssumption DEF TypeOK, Stat
<1>2. /\ held \in InFlight /\ held.to \in Targets /\ held.no \in 1 .. total
      /\ UNCHANGED <<total, base, mpc>> /\ InFlight' \subseteq InFlight /\ held \notin InFlight'
  BY ReplyDecides DEF NumbersInStep, InFlight, PacketsDiffer, Process
<1>3. mpc # "done" /\ mpc' # "done"
  BY <1>2 DEF Process, AllJoined
<1>4. /\ Open(t) = IF Now(t) = LOST_PING THEN 1 ELSE 0
      /\ Open(t)' = IF Now(t)' = LOST_PING THEN 1 ELSE 0
  BY <1>3, Zenon DEF Open, Now
<1>5. /\ Due(t)' \subseteq Due(t) /\ held \notin Due(t)'
      /\ held.to = t /\ held.no = total => held \in Due(t)
  BY OneIsDelivered
<1>6. /\ Doubled' = Doubled /\ Surplus' = Surplus /\ Surplus \in Nat
      /\ Doubled = IF mpc = "clear" THEN 1 ELSE 0
  BY <1>2 DEF Doubled, Surplus
<1>7. SecondIsDue(t)' => SecondIsDue(t)
  BY <1>2 DEF SecondIsDue
<1>8. Extra(t)' = stat'[t].n + stat'[t].lost + Open(t)' - (total - base)
  BY <1>2 DEF Extra
<1>9. CASE t = held.to /\ held.no = total
  <2>1. PICK d \in RTTs : Now(t)' = ByteTime(d)
    BY <1>9, ReplyDecides DEF TypeOK
  <2>2. Now(t)' # LOST_PING /\ Open(t)' = 0
    BY <1>4, <2>1 DEF TimesAreKept
  <2>3. stat'[t] = CountReply(stat[t])
    BY <1>1, <1>9, ReplyDecides
  <2>4. stat'[t].n = stat[t].n + 1 /\ stat'[t].lost = stat[t].lost
    BY <1>1, <2>3, CountFields
  <2>5. CASE stat[t].lost < 0
    <3>1. Fresh(t) /\ held \in Due(t)
      BY <1>5, <1>9, <2>5 DEF BooksOf
    <3>2. total = base /\ base # 0 /\ stat[t].n <= 1
      BY <1>1, <1>2, <3>1 DEF Fresh
    <3>3. ASSUME NEW m \in Due(t)' PROVE stat[t].n = 0
      BY <1>5, <3>1, <3>3 DEF Fresh
    <3>4. ASSUME NEW m1 \in Due(t)', NEW m2 \in Due(t)' PROVE m1 = m2
      BY <1>5, <3>1, <3>4, TwoAtMost
    <3>5. Fresh(t)'
      BY <1>1, <1>2, <2>2, <2>4, <3>2, <3>3, <3>4 DEF Fresh
    <3> QED
      BY <2>4, <2>5, <3>5 DEF BooksOf
  <2>6. CASE ~(stat[t].lost < 0)
    <3>1. Under(t) /\ total > base
      BY <1>3, <2>6 DEF BooksOf, Under
    <3>2. ASSUME stat'[t].lost < LostLimit
          PROVE  /\ 0 <= Extra(t)' /\ Extra(t)' <= Doubled' + Surplus'
                 /\ mpc' = "clear" /\ SecondIsDue(t)' => Extra(t)' <= Surplus'
      <4>1. /\ 0 <= Extra(t) /\ Extra(t) <= Doubled + Surplus
            /\ mpc = "clear" /\ SecondIsDue(t) => Extra(t) <= Surplus
        BY <2>4, <3>1, <3>2 DEF Under
      <4>2. CASE Now(t) = LOST_PING
        <5>1. Extra(t)' = Extra(t)
          BY <1>1, <1>4, <1>8, <2>2, <2>4, <4>2 DEF Extra
        <5> QED
          BY <1>2, <1>6, <1>7, <4>1, <5>1
      <4>3. CASE Now(t) # LOST_PING
        <5>1. Extra(t) \in Int /\ Extra(t)' = Extra(t) + 1
          BY <1>1, <1>4, <1>8, <2>2, <2>4, <4>3 DEF Extra
        <5>2. held.copy > MaxCopies
          <6>1. ~(held.copy <= MaxCopies)
            BY <1>2, <1>9, <4>3 DEF CurrentIsOpen
          <6> QED
            BY <1>2, <6>1, Fields DEF Replied
        <5>3. SecondIsDue(t) /\ mpc = "clear"
          BY <1>1, <1>2, <1>9, <3>1, <5>2 DEF SecondIsDue, OnlyAfterSwap
        <5>4. ~SecondIsDue(t)'
          <6>1. ASSUME NEW m \in InFlight', m.copy > MaxCopies, m.to = t, m.no = total
                PROVE  FALSE
            <7>1. m \in Replied /\ held \in Replied /\ m # held
              BY <1>2, <6>1 DEF Replied
            <7>2. m.copy = 1 + MaxCopies /\ held.copy = 1 + MaxCopies
              BY <5>2, <6>1, <7>1, Fields
            <7> QED
              BY <1>9, <6>1, <7>1, <7>2 DEF PacketsDiffer, Same
          <6> QED
            BY <1>2, <6>1 DEF SecondIsDue
        <5> QED
          BY <1>6, <4>1, <5>1, <5>3, <5>4
      <4> QED
        BY <4>2, <4>3
    <3>3. ~(stat'[t].lost < 0) /\ total' > base'
      BY <1>2, <2>4, <2>6, <3>1
    <3> QED
      BY <3>2, <3>3 DEF BooksOf, Under
  <2> QED
    BY <2>5, <2>6
<1>10. CASE ~(t = held.to /\ held.no = total)
  <2>1. Now(t)' = Now(t)
    BY <1>10, ReplyDecides DEF TypeOK
  <2>2. stat'[t] = stat[t] \/ stat'[t] = CountLate(stat[t])
    BY <1>1, <1>10, ReplyDecides
  <2>3. stat'[t].n = stat[t].n /\ stat'[t].lost = stat[t].lost
    BY <1>1, <2>2, CountFields
  <2>4. Open(t)' = Open(t)
    BY <1>4, <2>1
  <2>5. Extra(t)' = Extra(t)
    BY <1>8, <2>3, <2>4 DEF Extra
  <2>6. Fresh(t) => Fresh(t)'
    BY <1>2, <1>5, <2>1, <2>3 DEF Fresh
  <2>7. Under(t) => Under(t)'
    BY <1>2, <1>6, <1>7, <2>3, <2>5 DEF Under
  <2> QED
    BY <2>3, <2>6, <2>7 DEF BooksOf
<1> QED
  BY <1>9, <1>10

\* A request is sent to a target whose current ping is open.
LEMMA RequestKeepsBooks ==
  ASSUME TypeOK, CurrentIsOpen, PingTarget,
         NEW t \in Targets, BooksOf(t)
  PROVE  BooksOf(t)'
<1>1. PICK c \in 0 .. MaxCopies :
        /\ net' = net \cup Replies(c)
        /\ queue' = IF mpc = "swap" THEN queue \cup Replies(c) ELSE queue
        /\ InFlight' = InFlight \cup Replies(c)
  BY RepliesCome
<1>2. /\ UNCHANGED <<total, base, stat, ping, mpc>> /\ idx \in Targets /\ spc = "ping"
      /\ idx \in Int
  BY TargetsAssumption DEF PingTarget, app, main, TypeOK, Targets
<1>3. /\ Open(t)' = Open(t) /\ Now(t)' = Now(t) /\ Extra(t)' = Extra(t)
      /\ Doubled' = Doubled /\ Surplus' = Surplus
  BY <1>2, Zenon DEF Open, Now, Extra, Doubled, Surplus
<1>4. SecondIsDue(t)' => SecondIsDue(t)
  <2>1. \A m \in Replies(c) : ~(m.copy > MaxCopies)
    BY NetworkAssumption DEF Replies
  <2> QED
    BY <1>1, <1>2, <2>1 DEF SecondIsDue
<1>5. stat[t].n \in Nat
  BY DEF TypeOK, Stat
<1>6. CASE t = idx
  <2>1. Now(t) = LOST_PING
    BY <1>2, <1>6 DEF CurrentIsOpen
  <2>2. Fresh(t) => Fresh(t)'
    BY <1>2, <1>3, <1>5, <2>1 DEF Fresh
  <2>3. Under(t) => Under(t)'
    BY <1>2, <1>3, <1>4 DEF Under
  <2> QED
    BY <1>2, <2>2, <2>3 DEF BooksOf
<1>7. CASE t # idx
  <2>1. Due(t)' \subseteq Due(t)
    BY <1>2, <1>7, RequestBrings DEF Due
  <2>2. Fresh(t) => Fresh(t)'
    BY <1>2, <1>3, <2>1 DEF Fresh
  <2>3. Under(t) => Under(t)'
    BY <1>2, <1>3, <1>4 DEF Under
  <2> QED
    BY <1>2, <2>2, <2>3 DEF BooksOf
<1> QED
  BY <1>6, <1>7

\* The final count takes the outstanding pings of a logged run.
LEMMA FinishKeepsBooks ==
  ASSUME TypeOK, LogNotReviewed, Finish, NEW t \in Targets, BooksOf(t)
  PROVE  BooksOf(t)'
<1>1. /\ stat[t] \in Stat /\ stat[t].n \in Nat /\ stat[t].lost \in Nat \cup {-1}
      /\ total \in Nat /\ base \in Nat /\ LostLimit \in Nat /\ LostLimit > 0
  BY LostLimitAssumption DEF TypeOK, Stat
<1>2. /\ mpc = "join" /\ mpc' = "done" /\ UNCHANGED <<total, base>> /\ Now(t)' = Now(t)
      /\ UNCHANGED <<net, queue, rpc, held>>
  BY DEF Finish, Now, receiver, under
<1>3. Open(t) = IF Now(t) = LOST_PING THEN 1 ELSE 0
  BY <1>2, Zenon DEF Open, Now
<1>4. Due(t)' = Due(t) /\ Doubled = 0 /\ Doubled' = 0 /\ Surplus' = Surplus /\ Surplus \in Nat
  BY <1>2 DEF Due, Deliveries, InFlight, Doubled, Surplus
<1>5. CASE LOGGING
  <2>1. stat'[t] = CountLost(stat[t], Now(t))
    BY <1>5 DEF Finish, LogNotReviewed, NotReviewed, Now
  <2>2. Now(t) \in Byte
    BY GetPingType DEF TypeOK, Now
  <2>3. /\ stat'[t].n = stat[t].n
        /\ stat'[t].lost = IF Now(t) = LOST_PING /\ stat[t].lost < LostLimit
                          THEN stat[t].lost + 1 ELSE stat[t].lost
    BY <1>1, <2>1, <2>2, CountFields
  <2>4. Open(t)' = 0
    BY <1>2, <1>5, Zenon DEF Open
  <2>5. CASE stat[t].lost < 0 /\ Now(t) = LOST_PING
    <3>1. total = base /\ stat[t].n = 0
      BY <1>1, <2>5 DEF BooksOf, Fresh
    <3>2. stat'[t].lost = 0 /\ Extra(t)' = 0
      BY <1>1, <1>2, <2>3, <2>4, <2>5, <3>1 DEF Extra
    <3> QED
      BY <1>2, <1>4, <3>2 DEF BooksOf, Under
  <2>6. CASE stat[t].lost < 0 /\ Now(t) # LOST_PING
    BY <1>2, <1>4, <2>3, <2>6 DEF BooksOf, Fresh
  <2>7. CASE ~(stat[t].lost < 0)
    <3>1. stat'[t].lost < LostLimit => stat[t].lost < LostLimit /\ Extra(t)' = Extra(t)
      BY <1>1, <1>2, <1>3, <2>3, <2>4, <2>7 DEF Extra
    <3>2. ~(stat'[t].lost < 0)
      BY <1>1, <2>3, <2>7
    <3> QED
      BY <1>2, <1>4, <2>7, <3>1, <3>2 DEF BooksOf, Under
  <2> QED
    BY <2>5, <2>6, <2>7
<1>6. CASE ~LOGGING
  <2>1. stat' = stat
    BY <1>6 DEF Finish
  <2>2. Open(t)' = Open(t)
    BY <1>2, <1>6, Zenon DEF Open, Now
  <2>3. Extra(t)' = Extra(t)
    BY <1>2, <2>1, <2>2 DEF Extra
  <2>4. Fresh(t) => Fresh(t)'
    BY <1>2, <1>4, <2>1 DEF Fresh
  <2>5. Under(t) => Under(t)'
    BY <1>2, <1>4, <2>1, <2>3 DEF Under
  <2> QED
    BY <2>1, <2>4, <2>5 DEF BooksOf
<1> QED
  BY <1>5, <1>6

\* The rest keeps the books; a swap before the reset makes room for one reply more.
LEMMA OthersKeepBooks ==
  ASSUME TypeOK, OpenReceiveSocket \/ SwapReceiveSocket \/ Quiet,
         NEW t \in Targets, BooksOf(t)
  PROVE  BooksOf(t)'
<1>1. Still /\ Deliveries' \subseteq Deliveries
  BY NothingIsBrought
<1>2. UNCHANGED <<total, base, stat, ping>> /\ (mpc' = "done" <=> mpc = "done")
  BY <1>1 DEF Still
<1>3. Open(t)' = Open(t) /\ Now(t)' = Now(t)
  BY <1>2, Zenon DEF Open, Now
<1>4. Extra(t)' = Extra(t) /\ Surplus' = Surplus /\ Surplus \in Nat /\ Due(t)' \subseteq Due(t)
  BY <1>1, <1>2, <1>3 DEF Extra, Surplus, Due
<1>5. Fresh(t) => Fresh(t)'
  BY <1>2, <1>3, <1>4 DEF Fresh
<1>6. Under(t) => Under(t)'
  <2>1. CASE SwapReceiveSocket
    <3>1. Doubled = 0 /\ Doubled' = 1 /\ mpc' = "clear"
      BY <2>1 DEF SwapReceiveSocket, Doubled
    <3>2. stat[t].n \in Int /\ stat[t].lost \in Int /\ Open(t) \in Int /\ total \in Int /\ base \in Int
      BY DEF TypeOK, Stat, Open
    <3>3. Extra(t) \in Int
      BY <3>2 DEF Extra
    <3> QED
      BY <1>2, <1>4, <3>1, <3>3 DEF Under
  <2>2. CASE OpenReceiveSocket
    <3>1. Doubled = 0 /\ Doubled' = 0 /\ mpc' # "clear"
      BY <2>2 DEF OpenReceiveSocket, Doubled
    <3> QED
      BY <1>2, <1>4, <3>1 DEF Under
  <2>3. CASE Quiet
    <3>1. Doubled' = Doubled /\ (SecondIsDue(t)' => SecondIsDue(t)) /\ (mpc' = "clear" <=> mpc = "clear")
      BY <1>2, <2>3 DEF Quiet, Doubled, SecondIsDue
    <3> QED
      BY <1>2, <1>4, <3>1 DEF Under
  <2> QED
    BY <2>1, <2>2, <2>3
<1> QED
  BY <1>2, <1>5, <1>6 DEF BooksOf

\* The books are kept as each of the three threads and the network step.
LEMMA BooksStayKept ==
  ASSUME MaxCopies <= 1, TimesAreKept, LOGGING => NoReview
  PROVE  Spec => []BooksAreKept
<1>1. Init => BooksAreKept
  BY DEF Init, BooksAreKept, BooksOf, Fresh, NewStat
<1>2. TypeOK /\ NumbersInStep /\ AgeFound /\ AllJoined /\ PacketsDiffer /\ CurrentIsOpen
        /\ OnlyAfterSwap /\ LogNotReviewed /\ BooksAreKept /\ [Next]_vars => BooksAreKept'
  <2> SUFFICES ASSUME TypeOK, NumbersInStep, AgeFound, AllJoined, PacketsDiffer, CurrentIsOpen,
                      OnlyAfterSwap, LogNotReviewed, BooksAreKept, [Next]_vars,
                      NEW t \in Targets
               PROVE  BooksOf(t)'
    BY DEF BooksAreKept
  <2>1. BooksOf(t)
    BY DEF BooksAreKept
  <2>2. CASE BeginGroup
    BY <2>1, <2>2, ShiftKeepsBooks
  <2>3. CASE Process
    BY <2>1, <2>3, ReplyKeepsBooks
  <2>4. CASE ResetStats
    <3>1. stat'[t].n = 0 /\ stat'[t].lost = -1 /\ total' = total /\ base' = total
      BY <2>4 DEF ResetStats, NewStat
    <3> QED
      BY <3>1 DEF BooksOf, Fresh
  <2>5. CASE Finish
    BY <2>1, <2>5, FinishKeepsBooks
  <2>6. CASE PingTarget
    BY <2>1, <2>6, RequestKeepsBooks
  <2>7. CASE OpenReceiveSocket \/ SwapReceiveSocket \/ Quiet
    BY <2>1, <2>7, OthersKeepBooks
  <2> QED
    BY <2>2, <2>3, <2>4, <2>5, <2>6, <2>7, StepsOfHistory
<1> QED
  BY <1>1, <1>2, TypeCorrect, NumbersStayInStep, AgeIsFound, ThreadsAreJoined,
     PacketsStayDifferent, OneReplyEach, SecondsFollowSwaps, LogStaysNow, PTL DEF Spec

\* The books balance on a network that does not duplicate, whatever the threads did in
\* between and although the 0 key itself has a reply delivered twice: since the last
\* reset, every ping is one reply, one loss or the one that is open, but for the two
\* replies of the ping under way that a reset may leave, and one that the pending reset
\* will clear (Stat::update, Ping::shift, handle_key, reset_stats, finalize_lost).
THEOREM BooksBalance ==
  ASSUME MaxCopies <= 1, TimesAreKept, LOGGING => NoReview
  PROVE  Spec => []Balanced
<1>1. TypeOK /\ BooksAreKept => Balanced
  <2> SUFFICES ASSUME TypeOK, BooksAreKept, NEW t \in Targets
               PROVE  IF stat[t].lost < 0 THEN total = base /\ stat[t].n \in 0 .. 2
                      ELSE stat[t].lost < LostLimit =>
                             Extra(t) \in 0 .. Doubled + (IF base = 0 THEN 0 ELSE 2)
    BY DEF Balanced, Extra
  <2>1. BooksOf(t) /\ stat[t].n \in Nat /\ stat[t].lost \in Int /\ total \in Nat /\ base \in Nat
    BY DEF BooksAreKept, TypeOK, Stat
  <2>2. Extra(t) \in Int /\ Doubled \in Int
    BY <2>1 DEF Extra, Open, Doubled
  <2> QED
    BY <2>1, <2>2 DEF BooksOf, Fresh, Under, Surplus
<1> QED
  BY <1>1, BooksStayKept, TypeCorrect, PTL

\* What is left of the books when the network duplicates replies: a second reply to the
\* current ping is counted again, so there may be too many, but never too few.
Accounted(t) ==
  LET s == stat[t]
  IN  IF s.lost < 0 THEN total = base /\ s.n >= 0
      ELSE s.lost < LostLimit => s.n + s.lost + Open(t) >= total - base

AllAccounted == \A t \in Targets : Accounted(t)

\* However often the network duplicates, no ping goes missing from the statistics: since
\* the last reset, replies, losses and the open ping are at least the pings that were
\* sent (Stat::update, Ping::shift, reset_stats, finalize_lost).
THEOREM NoPingGoesMissing ==
  ASSUME TimesAreKept, LOGGING => NoReview
  PROVE  Spec => []AllAccounted
<1>1. Init => AllAccounted
  BY DEF Init, AllAccounted, Accounted, NewStat
<1>2. TypeOK /\ NumbersInStep /\ AgeFound /\ AllJoined /\ LogNotReviewed
        /\ AllAccounted /\ [Next]_vars => AllAccounted'
  <2> SUFFICES ASSUME TypeOK, NumbersInStep, AgeFound, AllJoined,
                      LogNotReviewed, AllAccounted, [Next]_vars, NEW t \in Targets
               PROVE  Accounted(t)'
    BY DEF AllAccounted
  <2>1. /\ stat[t] \in Stat /\ stat[t].n \in Nat /\ stat[t].lost \in Nat \cup {-1}
        /\ total \in Nat /\ base \in Nat /\ Accounted(t)
        /\ stat \in [Targets -> Stat] /\ LostLimit \in Nat /\ LostLimit > 0
    BY LostLimitAssumption DEF TypeOK, Stat, AllAccounted
  <2>2. CASE BeginGroup
    <3>1. mpc # "done" /\ mpc' # "done" /\ total' = total + 1 /\ base' = base
      BY <2>2 DEF BeginGroup, AllJoined, main
    <3>2. /\ Now(t)' = LOST_PING
          /\ stat'[t].n = stat[t].n
          /\ stat'[t].lost = IF stat[t].lost < 0 THEN 0
                            ELSE IF Now(t) = LOST_PING /\ stat[t].lost < LostLimit
                                 THEN stat[t].lost + 1 ELSE stat[t].lost
      BY <2>2, NowShifts
    <3>3. Open(t)' = 1 /\ Open(t) = IF Now(t) = LOST_PING THEN 1 ELSE 0
      BY <3>1, <3>2, Zenon DEF Open, Now
    <3>4. CASE stat[t].lost < 0
      BY <2>1, <3>1, <3>2, <3>3, <3>4 DEF Accounted
    <3>5. CASE ~(stat[t].lost < 0)
      BY <2>1, <3>1, <3>2, <3>3, <3>5 DEF Accounted
    <3> QED
      BY <3>4, <3>5
  <2>3. CASE Process
    <3>1. /\ held \in InFlight /\ held.to \in Targets
          /\ held.no \in 1 .. total /\ UNCHANGED <<total, base, mpc>>
      BY <2>3, ReplyDecides DEF NumbersInStep
    <3>2. mpc # "done" /\ mpc' # "done"
      BY <2>3, <3>1 DEF Process, AllJoined
    <3>3. /\ Open(t) = IF Now(t) = LOST_PING THEN 1 ELSE 0
          /\ Open(t)' = IF Now(t)' = LOST_PING THEN 1 ELSE 0
      BY <3>2, Zenon DEF Open, Now
    <3>4. CASE t = held.to /\ held.no = total
      <4>1. PICK d \in RTTs : Now(t)' = ByteTime(d)
        BY <2>3, <3>4, ReplyDecides DEF TypeOK
      <4>2. Now(t)' # LOST_PING
        BY <4>1 DEF TimesAreKept
      <4>3. stat'[t] = CountReply(stat[t])
        BY <2>1, <2>3, <3>4, ReplyDecides
      <4>4. stat'[t].n = stat[t].n + 1 /\ stat'[t].lost = stat[t].lost
        BY <2>1, <4>3, CountFields
      <4>5. Open(t) \in {0, 1} /\ Open(t)' = 0
        BY <3>3, <4>2
      <4> QED
        BY <2>1, <3>1, <4>4, <4>5 DEF Accounted
    <3>5. CASE ~(t = held.to /\ held.no = total)
      <4>1. Now(t)' = Now(t)
        BY <2>3, <3>5, ReplyDecides DEF TypeOK
      <4>2. stat'[t] = stat[t] \/ stat'[t] = CountLate(stat[t])
        BY <2>1, <2>3, <3>5, ReplyDecides
      <4>3. stat'[t].n = stat[t].n /\ stat'[t].lost = stat[t].lost
        BY <2>1, <4>2, CountFields
      <4>4. Open(t)' = Open(t)
        BY <3>3, <4>1
      <4> QED
        BY <2>1, <3>1, <4>3, <4>4 DEF Accounted
    <3> QED
      BY <3>4, <3>5
  <2>4. CASE ResetStats
    <3>1. stat'[t].n = 0 /\ stat'[t].lost = -1 /\ total' = total /\ base' = total
      BY <2>4 DEF ResetStats, NewStat
    <3> QED
      BY <2>1, <3>1 DEF Accounted
  <2>5. CASE Finish
    <3>1. /\ mpc # "done" /\ mpc' = "done" /\ UNCHANGED <<total, base>> /\ Now(t)' = Now(t)
      BY <2>5 DEF Finish, Now
    <3>2. Open(t) = IF Now(t) = LOST_PING THEN 1 ELSE 0
      BY <3>1, Zenon DEF Open, Now
    <3>3. CASE LOGGING
      <4>1. stat'[t] = CountLost(stat[t], Now(t))
        BY <2>5, <3>3 DEF Finish, LogNotReviewed, NotReviewed, Now
      <4>2. Now(t) \in Byte
        BY GetPingType DEF TypeOK, Now
      <4>3. /\ stat'[t].n = stat[t].n
            /\ stat'[t].lost = IF Now(t) = LOST_PING /\ stat[t].lost < LostLimit
                              THEN stat[t].lost + 1 ELSE stat[t].lost
        BY <2>1, <4>1, <4>2, CountFields
      <4>4. Open(t)' = 0
        BY <3>1, <3>3, Zenon DEF Open
      <4>5. CASE stat[t].lost < 0
        BY <2>1, <3>1, <4>3, <4>4, <4>5 DEF Accounted
      <4>6. CASE ~(stat[t].lost < 0)
        BY <2>1, <3>1, <3>2, <4>3, <4>4, <4>6 DEF Accounted
      <4> QED
        BY <4>5, <4>6
    <3>4. CASE ~LOGGING
      <4>1. stat' = stat
        BY <2>5, <3>4 DEF Finish
      <4>2. Open(t)' = Open(t)
        BY <3>1, <3>4, Zenon DEF Open, Now
      <4> QED
        BY <2>1, <3>1, <4>1, <4>2 DEF Accounted
    <3> QED
      BY <3>3, <3>4
  <2>6. CASE PingTarget \/ Still
    <3>1. UNCHANGED <<total, base, stat, ping>> /\ (mpc' = "done" <=> mpc = "done")
      BY <2>6 DEF PingTarget, Still, app, main
    <3>2. Open(t)' = Open(t)
      BY <3>1, Zenon DEF Open
    <3> QED
      BY <2>1, <3>1, <3>2 DEF Accounted
  <2> QED
    BY <2>2, <2>3, <2>4, <2>5, <2>6, StepsOfHistory, StillSteps
<1> QED
  BY <1>1, <1>2, TypeCorrect, NumbersStayInStep, AgeIsFound, ThreadsAreJoined,
     LogStaysNow, PTL DEF Spec

\* The replies under way to pings of `t` that are no longer current.
Behind(t) == {m \in InFlight : m.to = t /\ m.no < total}

\* A target's late replies, with those still to come, were counted as lost.
LateAreCovered(t) ==
  stat[t].lost < LostLimit =>
    stat[t].late + Cardinality(Behind(t)) <= AtLeastZero(stat[t].lost)

LatesAreCovered == base = 0 /\ mpc # "clear" => \A t \in Targets : LateAreCovered(t)

\* Finitely many replies are under way.
Finitely == IsFiniteSet(InFlight) /\ IsFiniteSet(queue)

\* The count of the lost has begun in every period but that of a reset.
LostIsCounted == \A t \in Targets : stat[t].lost < 0 => total = base

\* Each request adds finitely many replies, and a swap delivers each once more at most.
LEMMA InFlightIsFinite == Spec => []Finitely
<1>1. Init => Finitely
  BY FS_EmptySet DEF Init, Finitely, InFlight
<1>2. TypeOK /\ Finitely /\ [Next]_vars => Finitely'
  <2> SUFFICES ASSUME TypeOK, Finitely, [Next]_vars
               PROVE  IsFiniteSet(InFlight') /\ IsFiniteSet(queue')
    BY DEF Finitely
  <2>1. CASE PingTarget
    <3>1. PICK c \in 0 .. MaxCopies :
            /\ queue' = IF mpc = "swap" THEN queue \cup Replies(c) ELSE queue
            /\ InFlight' = InFlight \cup Replies(c)
      BY <2>1, RepliesCome
    <3>2. IsFiniteSet(1 .. c)
      BY FS_Interval, NetworkAssumption
    <3>3. IsFiniteSet(Replies(c))
      <4> DEFINE f == [i \in 1 .. c |-> [to |-> idx, rsq |-> sent, no |-> total, copy |-> i]]
      <4>1. f \in Surjection(1 .. c, Replies(c))
        BY DEF Surjection, Replies
      <4> QED
        BY <3>2, <4>1, FS_Surjection
    <3> QED
      BY <3>1, <3>3, FS_Union DEF Finitely
  <2>2. ASSUME InFlight' \subseteq InFlight, queue' \subseteq queue
        PROVE  IsFiniteSet(InFlight') /\ IsFiniteSet(queue')
    BY <2>2, FS_Subset DEF Finitely
  <2>3. CASE BeginGroup
    BY <2>2, <2>3 DEF BeginGroup, InFlight, receiver
  <2>4. CASE Process
    BY <2>2, <2>4 DEF Process, InFlight, under
  <2>5. CASE ResetStats \/ Finish \/ Quiet
    BY <2>2, <2>5 DEF ResetStats, Finish, Quiet, InFlight, receiver, under
  <2>6. CASE OpenReceiveSocket
    <3>1. InFlight' = InFlight /\ queue' \subseteq InFlight
      BY <2>6 DEF OpenReceiveSocket, InFlight, receiver
    <3> QED
      BY <3>1, FS_Subset DEF Finitely
  <2>7. CASE SwapReceiveSocket
    <3> DEFINE S == {Second(m) : m \in queue}
    <3>1. InFlight' \subseteq InFlight \cup S /\ queue' = {}
      BY <2>7, Replaced
    <3>2. IsFiniteSet(S)
      <4> DEFINE f == [m \in queue |-> Second(m)]
      <4>1. f \in Surjection(queue, S)
        BY DEF Surjection
      <4> QED
        BY <4>1, FS_Surjection DEF Finitely
    <3>3. IsFiniteSet(InFlight \cup S)
      BY <3>2, FS_Union DEF Finitely
    <3> QED
      BY <3>1, <3>3, FS_Subset, FS_EmptySet
  <2> QED
    BY <2>1, <2>3, <2>4, <2>5, <2>6, <2>7, StepsOfHistory
<1> QED
  BY <1>1, <1>2, TypeCorrect, PTL DEF Spec

\* A shift starts the count of the lost, and only a reset undoes that.
LEMMA LostCountBegins == Spec => []LostIsCounted
<1>1. Init => LostIsCounted
  BY DEF Init, LostIsCounted
<1>2. TypeOK /\ AgeFound /\ LostIsCounted /\ [Next]_vars => LostIsCounted'
  <2> SUFFICES ASSUME TypeOK, AgeFound, LostIsCounted, [Next]_vars,
                      NEW t \in Targets, stat'[t].lost < 0
               PROVE  total' = base'
    BY DEF LostIsCounted
  <2>1. stat[t] \in Stat /\ stat[t].lost \in Nat \cup {-1} /\ stat \in [Targets -> Stat]
    BY DEF TypeOK, Stat
  <2>2. CASE BeginGroup
    BY <2>1, <2>2, NowShifts
  <2>3. CASE Process
    <3>1. UNCHANGED <<total, base>> /\ held.to \in Targets
      BY <2>3, ReplyDecides
    <3>2. \/ stat'[t] = stat[t] \/ stat'[t] = CountReply(stat[t])
          \/ stat'[t] = CountLate(stat[t])
      BY <2>1, <2>3, ReplyDecides
    <3>3. stat'[t].lost = stat[t].lost
      BY <2>1, <3>2, CountFields
    <3> QED
      BY <3>1, <3>3 DEF LostIsCounted
  <2>4. CASE ResetStats
    BY <2>4 DEF ResetStats
  <2>5. CASE Finish
    <3>1. GetPing(ping[t], 0, delt) \in Byte
      BY GetPingType DEF TypeOK
    <3>2. stat'[t] = stat[t] \/ stat'[t] = CountLost(stat[t], GetPing(ping[t], 0, delt))
      BY <2>5 DEF Finish
    <3>3. stat[t].lost < 0
      BY <2>1, <3>1, <3>2, CountFields
    <3> QED
      BY <2>5, <3>3 DEF Finish, LostIsCounted
  <2>6. CASE PingTarget \/ Still
    BY <2>6 DEF PingTarget, Still, app, LostIsCounted
  <2> QED
    BY <2>2, <2>3, <2>4, <2>5, <2>6, StepsOfHistory, StillSteps
<1> QED
  BY <1>1, <1>2, TypeCorrect, AgeIsFound, PTL DEF Spec

\* When a period ends, one reply at most falls behind for each target, and
\* none for a target whose current ping is decided.
LEMMA OneFallsBehind ==
  ASSUME MaxCopies <= 1, TypeOK, NumbersInStep, PacketsDiffer, CurrentIsOpen, Finitely,
         \A m \in InFlight : m.copy <= MaxCopies,
         BeginGroup, NEW t \in Targets
  PROVE  /\ Cardinality(Behind(t)) \in Nat /\ Cardinality(Behind(t)') \in Nat
         /\ Cardinality(Behind(t)') <=
              Cardinality(Behind(t)) + (IF Now(t) = LOST_PING THEN 1 ELSE 0)
         /\ total = 0 => Cardinality(Behind(t)') = 0
<1>1. /\ InFlight' \subseteq InFlight /\ total' = total + 1 /\ total \in Nat
      /\ \A m \in InFlight :
           m \in Replied /\ m.no \in 1 .. total /\ m.no \in Nat /\ m.copy = 1
  BY NetworkAssumption DEF Replied, BeginGroup, InFlight, receiver, NumbersInStep, TypeOK, Packet
<1>2. IsFiniteSet(Behind(t)) /\ IsFiniteSet(Behind(t)')
  <2>1. Behind(t) \subseteq InFlight /\ Behind(t)' \subseteq InFlight
    BY <1>1 DEF Behind
  <2> QED
    BY <2>1, FS_Subset DEF Finitely
<1>3. Cardinality(Behind(t)) \in Nat /\ Cardinality(Behind(t)') \in Nat
  BY <1>2, FS_CardinalityType
<1>4. CASE \E m \in InFlight : m.to = t /\ m.no = total
  <2>1. PICK m \in InFlight : m.to = t /\ m.no = total
    BY <1>4
  <2>2. Now(t) = LOST_PING
    BY <2>1 DEF CurrentIsOpen
  <2>3. Behind(t)' \subseteq Behind(t) \cup {m}
    BY <1>1, <2>1 DEF Behind, PacketsDiffer, Same
  <2>4. /\ IsFiniteSet(Behind(t) \cup {m})
        /\ Cardinality(Behind(t) \cup {m}) <= Cardinality(Behind(t)) + 1
    <3>1. Cardinality(Behind(t) \cup {m}) =
            IF m \in Behind(t) THEN Cardinality(Behind(t)) ELSE Cardinality(Behind(t)) + 1
      BY <1>2, FS_AddElement
    <3> QED
      BY <1>2, <1>3, <3>1, FS_AddElement
  <2>5. Cardinality(Behind(t)') <= Cardinality(Behind(t) \cup {m})
    BY <2>3, <2>4, FS_Subset
  <2>6. Cardinality(Behind(t) \cup {m}) \in Nat
    BY <2>4, FS_CardinalityType
  <2>7. total # 0
    BY <1>1, <2>1
  <2> QED
    BY <1>3, <2>2, <2>4, <2>5, <2>6, <2>7
<1>5. CASE ~\E m \in InFlight : m.to = t /\ m.no = total
  <2>1. Behind(t)' \subseteq Behind(t)
    BY <1>1, <1>5 DEF Behind
  <2>2. Cardinality(Behind(t)') <= Cardinality(Behind(t))
    BY <1>2, <2>1, FS_Subset
  <2>3. total = 0 => Cardinality(Behind(t)') = 0
    <3>1. total = 0 => Behind(t)' = {}
      BY <1>1 DEF Behind
    <3> QED
      BY <3>1, FS_EmptySet
  <2> QED
    BY <1>3, <2>2, <2>3
<1> QED
  BY <1>4, <1>5

\* Late replies stay covered by losses (Ping::shift, process).
LEMMA LatesStayCovered ==
  ASSUME MaxCopies <= 1
  PROVE  Spec => []LatesAreCovered
<1>1. Init => LatesAreCovered
  <2> SUFFICES ASSUME Init, NEW t \in Targets PROVE LateAreCovered(t)
    BY DEF LatesAreCovered
  <2>1. Behind(t) = {} /\ stat[t].late = 0 /\ stat[t].lost = -1
    BY DEF Init, Behind, InFlight, NewStat
  <2> QED
    BY <2>1, FS_EmptySet DEF LateAreCovered, AtLeastZero
<1>2. TypeOK /\ NumbersInStep /\ AgeFound /\ PacketsDiffer /\ CurrentIsOpen /\ OnlyAfterSwap
        /\ Finitely /\ LostIsCounted /\ LatesAreCovered /\ [Next]_vars => LatesAreCovered'
  <2> SUFFICES ASSUME TypeOK, NumbersInStep, AgeFound, PacketsDiffer, CurrentIsOpen,
                      OnlyAfterSwap, Finitely, LostIsCounted, LatesAreCovered, [Next]_vars,
                      base' = 0, mpc' # "clear", NEW t \in Targets
               PROVE  LateAreCovered(t)'
    BY DEF LatesAreCovered
  <2>1. /\ stat[t] \in Stat /\ stat[t].late \in Nat /\ stat[t].lost \in Nat \cup {-1}
        /\ stat \in [Targets -> Stat] /\ LostLimit \in Nat /\ LostLimit > 0
    BY LostLimitAssumption DEF TypeOK, Stat
  <2>2. IsFiniteSet(Behind(t)) /\ Cardinality(Behind(t)) \in Nat
    <3>1. Behind(t) \subseteq InFlight
      BY DEF Behind
    <3> QED
      BY <3>1, FS_Subset, FS_CardinalityType DEF Finitely
  <2>3. ASSUME base' = base, mpc # "clear" PROVE LateAreCovered(t)
    BY <2>3 DEF LatesAreCovered
  <2>4. ASSUME Behind(t)' \subseteq Behind(t)
        PROVE  /\ Cardinality(Behind(t)') \in Nat
               /\ Cardinality(Behind(t)') <= Cardinality(Behind(t))
    BY <2>2, <2>4, FS_Subset, FS_CardinalityType
  <2>5. CASE BeginGroup
    <3>1. LateAreCovered(t)
      BY <2>3, <2>5 DEF BeginGroup, main
    <3>2. /\ Cardinality(Behind(t)') \in Nat
          /\ Cardinality(Behind(t)') <=
               Cardinality(Behind(t)) + (IF Now(t) = LOST_PING THEN 1 ELSE 0)
          /\ total = 0 => Cardinality(Behind(t)') = 0
      <4>1. \A m \in InFlight : m.copy <= MaxCopies
        BY <2>5 DEF OnlyAfterSwap, BeginGroup, main
      <4> QED
        BY <2>5, <4>1, OneFallsBehind
    <3>3. /\ stat'[t].late = stat[t].late
          /\ stat'[t].lost = IF stat[t].lost < 0 THEN 0
                            ELSE IF Now(t) = LOST_PING /\ stat[t].lost < LostLimit
                                 THEN stat[t].lost + 1 ELSE stat[t].lost
      BY <2>5, NowShifts
    <3>4. CASE stat[t].lost < 0
      <4>1. total = 0
        BY <2>5, <3>4 DEF LostIsCounted, BeginGroup
      <4> QED
        BY <2>1, <2>2, <3>1, <3>2, <3>3, <3>4, <4>1 DEF LateAreCovered, AtLeastZero
    <3>5. CASE ~(stat[t].lost < 0)
      BY <2>1, <2>2, <3>1, <3>2, <3>3, <3>5 DEF LateAreCovered, AtLeastZero
    <3> QED
      BY <3>4, <3>5
  <2>6. CASE Process
    <3>1. /\ held \in InFlight /\ held.to \in Targets /\ InFlight' = net
          /\ net \subseteq InFlight /\ held \notin net /\ UNCHANGED <<total, base, mpc>>
      BY <2>6, ReplyDecides DEF Process, PacketsDiffer, InFlight
    <3>2. LateAreCovered(t) /\ Behind(t)' \subseteq Behind(t)
      BY <2>3, <3>1 DEF Behind
    <3>3. CASE t = held.to /\ held.no < total
      <4>1. stat'[t] = CountLate(stat[t])
        BY <2>1, <2>6, <3>3, ReplyDecides DEF TypeOK
      <4>2. stat'[t].late = stat[t].late + 1 /\ stat'[t].lost = stat[t].lost
        BY <2>1, <4>1, CountFields
      <4>3. held \in Behind(t) /\ Behind(t)' \subseteq Behind(t) \ {held}
        BY <3>1, <3>3 DEF Behind
      <4>4. /\ IsFiniteSet(Behind(t) \ {held})
            /\ Cardinality(Behind(t) \ {held}) = Cardinality(Behind(t)) - 1
        BY <2>2, <4>3, FS_RemoveElement
      <4>5. /\ Cardinality(Behind(t)') <= Cardinality(Behind(t)) - 1
            /\ Cardinality(Behind(t)') \in Nat
        BY <2>2, <3>2, <4>3, <4>4, FS_Subset, FS_CardinalityType
      <4> QED
        BY <2>1, <2>2, <3>2, <4>2, <4>5 DEF LateAreCovered, AtLeastZero
    <3>4. CASE ~(t = held.to /\ held.no < total)
      <4>1. stat'[t] = stat[t] \/ stat'[t] = CountReply(stat[t])
        BY <2>1, <2>6, <3>1, <3>4, ReplyDecides DEF TypeOK
      <4>2. stat'[t].late = stat[t].late /\ stat'[t].lost = stat[t].lost
        BY <2>1, <4>1, CountFields
      <4>3. /\ Cardinality(Behind(t)') \in Nat
            /\ Cardinality(Behind(t)') <= Cardinality(Behind(t))
        BY <2>4, <3>2
      <4> QED
        BY <2>1, <2>2, <3>2, <4>2, <4>3 DEF LateAreCovered, AtLeastZero
    <3> QED
      BY <3>3, <3>4
  <2>7. CASE ResetStats
    <3>1. stat'[t].late = 0 /\ stat'[t].lost = -1 /\ total = 0 /\ total' = 0
      BY <2>7 DEF ResetStats, NewStat
    <3>2. Behind(t)' = {}
      BY <2>7, <3>1 DEF ResetStats, NumbersInStep, Behind, InFlight, receiver, under
    <3> QED
      BY <3>1, <3>2, FS_EmptySet DEF LateAreCovered, AtLeastZero
  <2>8. CASE Finish
    <3>1. LateAreCovered(t) /\ Behind(t)' = Behind(t)
      BY <2>3, <2>8 DEF Finish, Behind, InFlight, receiver, under
    <3>2. PICK b \in Byte : stat'[t] = stat[t] \/ stat'[t] = CountLost(stat[t], b)
      BY <2>8, GetPingType DEF Finish, TypeOK
    <3>3. /\ CountLost(stat[t], b).late = stat[t].late
          /\ CountLost(stat[t], b).lost =
               IF b = LOST_PING /\ stat[t].lost < LostLimit
               THEN stat[t].lost + 1 ELSE stat[t].lost
      BY <2>1, CountFields
    <3>4. /\ stat'[t].late = stat[t].late
          /\ \/ stat'[t].lost = stat[t].lost
             \/ stat'[t].lost = stat[t].lost + 1
      BY <3>2, <3>3
    <3> QED
      BY <2>1, <2>2, <3>1, <3>4 DEF LateAreCovered, AtLeastZero
  <2>9. CASE PingTarget
    <3>1. PICK c \in 0 .. MaxCopies : InFlight' = InFlight \cup Replies(c)
      BY <2>9, RepliesCome
    <3>2. UNCHANGED <<total, stat, base, mpc>>
      BY <2>9 DEF PingTarget, app, main
    <3>3. \A m \in Replies(c) : m.no = total
      BY DEF Replies
    <3>4. Behind(t)' = Behind(t)
      BY <3>1, <3>2, <3>3 DEF Behind, TypeOK
    <3> QED
      BY <2>3, <3>2, <3>4 DEF LateAreCovered
  <2>10. CASE OpenReceiveSocket \/ SwapReceiveSocket \/ Quiet
    <3>1. /\ UNCHANGED <<total, stat, base>> /\ mpc # "clear"
          /\ Behind(t)' \subseteq Behind(t)
      BY <2>10, StillSteps
      DEF OpenReceiveSocket, SwapReceiveSocket, Quiet, Still, Behind, InFlight, receiver
    <3>2. /\ Cardinality(Behind(t)') \in Nat
          /\ Cardinality(Behind(t)') <= Cardinality(Behind(t))
      BY <2>4, <3>1
    <3> QED
      BY <2>1, <2>2, <2>3, <3>1, <3>2 DEF LateAreCovered, AtLeastZero
  <2> QED
    BY <2>5, <2>6, <2>7, <2>8, <2>9, <2>10, StepsOfHistory
<1> QED
  BY <1>1, <1>2, TypeCorrect, NumbersStayInStep, AgeIsFound, PacketsStayDifferent,
     OneReplyEach, SecondsFollowSwaps, InFlightIsFinite, LostCountBegins, PTL DEF Spec

\* A late reply was counted as lost when its period ended: until a reset there are
\* never more late replies than losses, on a network that does not duplicate
\* (Ping::shift, and the late branch of process).  The second delivery of an answered
\* reply, by the socket that a reset opens, counts only until that reset clears it.
THEOREM LatesWereLost ==
  ASSUME MaxCopies <= 1
  PROVE  Spec => []LateWereLost
<1>1. TypeOK /\ Finitely /\ LatesAreCovered => LateWereLost
  <2> SUFFICES ASSUME TypeOK, Finitely, LatesAreCovered, base = 0, mpc # "clear",
                      NEW t \in Targets, stat[t].lost < LostLimit
               PROVE  stat[t].late <= AtLeastZero(stat[t].lost)
    BY DEF LateWereLost
  <2>1. Behind(t) \subseteq InFlight
    BY DEF Behind
  <2>2. Cardinality(Behind(t)) \in Nat
    BY <2>1, FS_Subset, FS_CardinalityType DEF Finitely
  <2>3. stat[t].late \in Nat /\ stat[t].lost \in Nat \cup {-1}
    BY DEF TypeOK, Stat
  <2> QED
    BY <2>2, <2>3 DEF LatesAreCovered, LateAreCovered, AtLeastZero
<1> QED
  BY <1>1, LatesStayCovered, TypeCorrect, InFlightIsFinite, PTL

-------------------------------------------------------------------------------
(* -N.                                                                      *)

\* A number below the modulus is its own remainder.
LEMMA SmallRemainder ==
  ASSUME NEW m \in Nat, NEW x \in 0 .. m - 1
  PROVE  x % m = x
OBVIOUS

\* The cast keeps a number that fits an i32.
LEMMA CastKeeps ==
  ASSUME NEW n \in Nat, n < HALF
  PROVE  AsI32(n) = n
<1>1. n + HALF \in 0 .. 2 * HALF - 1 /\ 2 * HALF \in Nat
  BY WidthAssumption
<1>2. (n + HALF) % (2 * HALF) = n + HALF
  BY <1>1, SmallRemainder
<1> QED
  BY <1>2, WidthAssumption DEF AsI32

\* Until the numbers wrap, the number of a group is the count of the groups,
\* and the sender goes on only below the limit.
CountsToNum ==
  /\ total <= NUM /\ seq = total
  /\ spc \in {"ping", "pause"} => sent = total
  /\ spc = "group" /\ run => total < NUM

\* A limit the sequence numbers can reach is kept: the test of spawn_sender,
\* on the number of the group just sent, ends the program with that group.
\* (For a larger one see the run num_forever.)
THEOREM NumIsKept ==
  ASSUME NUM <= SEQMAX
  PROVE  Spec => []StopsAfterNum
<1>1. CASE NUM > 0
  <2> USE OptionsAssumption
  <2>1. Init => CountsToNum
    BY <1>1 DEF Init, CountsToNum
  <2>2. TypeOK /\ CountsToNum /\ [Next]_vars => CountsToNum'
    <3> SUFFICES ASSUME TypeOK, CountsToNum, [Next]_vars PROVE CountsToNum'
      OBVIOUS
    <3> USE DEF CountsToNum, app, sender
    <3>1. CASE BeginGroup
      BY <3>1, SeqAssumption DEF BeginGroup, NextSeq, TypeOK
    <3>2. CASE PingTarget \/ GroupSent
      BY <3>2 DEF PingTarget, GroupSent
    <3>3. CASE EndGroup
      <4>1. AsI32(NUM) = NUM
        BY CastKeeps, WidthAssumption, SeqAssumption
      <4>2. sent = total /\ sent \in Nat /\ UNCHANGED <<total, seq, sent>> /\ spc' = "group"
        BY <3>3 DEF EndGroup, TypeOK
      <4>3. run' => ~(sent >= NUM)
        BY <1>1, <3>3, <4>1 DEF EndGroup
      <4> QED
        BY <4>2, <4>3
    <3>4. CASE SenderStops
      BY <3>4 DEF SenderStops
    <3>5. CASE Receive \/ Process \/ ReceiverStops
      BY <3>5 DEF Receive, Process, ReceiverStops
    <3>6. CASE Main
      BY <3>6 DEF Main, Review, PressReset, OpenReceiveSocket, SwapReceiveSocket, ResetStats,
        PressQuit, ShowIsDue, Draw, MainFails, MainLeaves, Finish
    <3>7. CASE UNCHANGED vars
      BY <3>7 DEF vars
    <3> QED
      BY <3>1, <3>2, <3>3, <3>4, <3>5, <3>6, <3>7 DEF Next, Sender, Receiver, Exited
  <2>3. CountsToNum => StopsAfterNum
    BY DEF CountsToNum, StopsAfterNum
  <2> QED
    BY <2>1, <2>2, <2>3, TypeCorrect, PTL DEF Spec
<1>2. CASE ~(NUM > 0)
  <2>1. StopsAfterNum
    BY <1>2 DEF StopsAfterNum
  <2> QED
    BY <2>1, PTL
<1> QED
  BY <1>1, <1>2

===============================================================================
