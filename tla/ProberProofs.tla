----------------------------- MODULE ProberProofs -----------------------------
(***************************************************************************)
(* Theorems about Prober, for every number of targets, ring size, sequence  *)
(* space, key press and packet lifetime the assumptions of Prober allow.    *)
(***************************************************************************)
EXTENDS Prober, RingProofs

\* The successor of a sequence number is one.
LEMMA NextSeqType ==
  ASSUME NEW s \in 0 .. SEQMAX
  PROVE  NextSeq(s) \in 0 .. SEQMAX /\ NextSeq(s) # 0
BY SeqAssumption, NSECAssumption DEF NextSeq

\* The initial state has the types.
LEMMA InitTypes == Init => TypeOK
<1> SUFFICES ASSUME Init PROVE TypeOK
  OBVIOUS
<1>1. ping \in [Targets -> Ping]
  BY NewPingType DEF Init
<1>2. stat \in [Targets -> Stat]
  BY DEF Init, Stat, NewStat
<1>3. dt \in [Targets -> Nat] /\ row \in [group : Nat, dt : [Targets -> Nat]]
  BY DEF Init
<1>4. idx \in 1 .. NTAR + 1 /\ seq \in 0 .. SEQMAX /\ sent \in 0 .. SEQMAX
  BY TargetsAssumption, SeqAssumption DEF Init
<1>5. QED
  BY <1>1, <1>2, <1>3, <1>4, NSECAssumption DEF Init, TypeOK

\* Every variable keeps its type (every step of the three threads).
THEOREM TypeCorrect == Spec => []TypeOK
<1>1. TypeOK /\ [Next]_vars => TypeOK'
  <2> SUFFICES ASSUME TypeOK, [Next]_vars PROVE TypeOK'
    OBVIOUS
  <2> USE DEF TypeOK, app, sender, receiver, main, under
  <2>1. CASE BeginGroup
    <3>1. seq' \in 0 .. SEQMAX /\ total' \in Nat /\ sent' \in 0 .. SEQMAX
      BY <2>1, NextSeqType DEF BeginGroup
    <3>2. ping' \in [Targets -> Ping]
      BY <2>1, ShiftPingType DEF BeginGroup
    <3>3. stat' \in [Targets -> Stat]
      BY <2>1, ShiftStatType DEF BeginGroup
    <3>4. row' \in [group : Nat, dt : [Targets -> Nat]]
      BY <2>1 DEF BeginGroup
    <3>5. idx' \in 1 .. NTAR + 1
      BY <2>1, TargetsAssumption DEF BeginGroup
    <3>6. net' \subseteq net /\ queue' \subseteq queue
      BY <2>1 DEF BeginGroup
    <3>7. QED
      BY <2>1, <3>1, <3>2, <3>3, <3>4, <3>5, <3>6 DEF BeginGroup
  <2>2. CASE PingTarget
    <3>1. idx \in Targets /\ idx' \in 1 .. NTAR + 1
      BY <2>2, TargetsAssumption DEF PingTarget, Targets
    <3>2. net' \subseteq Packet /\ queue' \subseteq {m \in Packet : m.copy <= MaxCopies}
      <4>1. PICK c \in 0 .. MaxCopies :
              /\ net' = net \cup {[to |-> idx, rsq |-> sent, no |-> total, copy |-> i] :
                                    i \in 1 .. c}
              /\ queue' = IF mpc = "swap"
                          THEN queue \cup {[to |-> idx, rsq |-> sent, no |-> total, copy |-> i] :
                                             i \in 1 .. c}
                          ELSE queue
        BY <2>2 DEF PingTarget
      <4>2. \A i \in 1 .. c : /\ [to |-> idx, rsq |-> sent, no |-> total, copy |-> i] \in Packet
                             /\ i <= MaxCopies
        BY <3>1, NetworkAssumption DEF Packet
      <4>3. QED
        BY <4>1, <4>2
    <3>3. QED
      BY <2>2, <3>1, <3>2 DEF PingTarget
  <2>3. CASE GroupSent
    BY <2>3 DEF GroupSent
  <2>4. CASE EndGroup
    BY <2>4 DEF EndGroup
  <2>5. CASE SenderStops
    BY <2>5 DEF SenderStops
  <2>6. CASE Receive
    BY <2>6 DEF Receive
  <2>7. CASE Process
    <3>1. held \in Packet /\ held.to \in Targets /\ held.no \in Nat /\ held.rsq \in 0 .. SEQMAX
      BY <2>7 DEF Process, Packet
    <3>2. ping' \in [Targets -> Ping] /\ stat' \in [Targets -> Stat] /\ dt' \in [Targets -> Nat]
      <4>1. CASE Current(held)
        <5>1. PICK d \in RTTs :
                ping' = [ping EXCEPT ![held.to] = SetPing(@, 0, ByteTime(d))]
          BY <4>1 DEF Current
        <5>2. SetPing(ping[held.to], 0, ByteTime(d)) \in Ping
          BY <3>1, ByteTimeIsByte, ClockAssumption, SetPingType
        <5>3. CountReply(stat[held.to]) \in Stat
          BY <3>1, StatTypes
        <5>4. QED
          BY <3>1, <4>1, <5>1, <5>2, <5>3 DEF Current
      <4>2. CASE Overdue(held)
        <5> DEFINE k == LateOffset(seq, held.rsq)
        <5>1. ASSUME GivenUp(ping[held.to], k)
              PROVE  SetPing(ping[held.to], k, LATE_PING) \in Ping
          <6>1. k \in Nat /\ LATE_PING \in Byte
            BY <3>1, <5>1, SeqAssumption, NSECAssumption
              DEF GivenUp, LateOffset, LATE_PING, Byte
          <6>2. QED
            BY <3>1, <6>1, SetPingType
        <5>2. CountLate(stat[held.to]) \in Stat
          BY <3>1, StatTypes
        <5>3. ping' = IF GivenUp(ping[held.to], k)
                      THEN [ping EXCEPT ![held.to] = SetPing(ping[held.to], k, LATE_PING)]
                      ELSE ping
          BY <4>2 DEF Overdue
        <5> HIDE DEF k
        <5>4. ping' \in [Targets -> Ping]
          BY <3>1, <5>1, <5>3
        <5>5. QED
          BY <3>1, <4>2, <5>2, <5>4 DEF Overdue
      <4>3. QED
        BY <2>7, <4>1, <4>2 DEF Process
    <3>3. QED
      BY <2>7, <3>2 DEF Process
  <2>8. CASE ReceiverStops
    BY <2>8 DEF ReceiverStops
  <2>9. CASE \E key \in Pressed \cap ReviewKeys : Review(key)
    <3>1. PICK key \in ReviewKeys : Review(key)
      BY <2>9
    <3>2. delt' \in Nat
      BY <3>1, KeysAssumption DEF Review, ReviewKeys, AtLeastZero
    <3>3. QED
      BY <3>1, <3>2 DEF Review
  <2>10. CASE PressReset
    BY <2>10 DEF PressReset
  <2>11. CASE OpenReceiveSocket
    BY <2>11 DEF OpenReceiveSocket
  <2>21. CASE SwapReceiveSocket
    <3>1. PICK kept \in SUBSET queue :
            net' = (kept \cap net) \cup {Second(m) : m \in kept \ net}
      BY <2>21 DEF SwapReceiveSocket
    <3>2. \A m \in queue : Second(m) \in Packet
      BY NetworkAssumption DEF Second, Packet
    <3>3. QED
      BY <2>21, <3>1, <3>2 DEF SwapReceiveSocket
  <2>12. CASE ResetStats
    <3>1. stat' \in [Targets -> Stat]
      BY <2>12, StatTypes DEF ResetStats, Stat, NewStat
    <3>2. QED
      BY <2>12, <3>1 DEF ResetStats
  <2>13. CASE PressQuit
    BY <2>13 DEF PressQuit
  <2>14. CASE ShowIsDue
    BY <2>14 DEF ShowIsDue
  <2>15. CASE Draw
    <3>1. delt' \in Nat
      BY <2>15, KeysAssumption DEF Draw, Clamp, AtLeastZero
    <3>2. QED
      BY <2>15, <3>1 DEF Draw
  <2>16. CASE MainFails
    BY <2>16 DEF MainFails
  <2>17. CASE MainLeaves
    BY <2>17 DEF MainLeaves
  <2>18. CASE Finish
    <3>1. \A t \in Targets : CountLost(stat[t], GetPing(ping[t], 0, delt)) \in Stat
      BY GetPingType, StatTypes
    <3>2. stat' \in [Targets -> Stat]
      BY <2>18, <3>1 DEF Finish
    <3>3. QED
      BY <2>18, <3>2 DEF Finish
  <2>19. CASE UNCHANGED vars
    BY <2>19 DEF vars
  <2>20. QED
    BY <2>1, <2>2, <2>3, <2>4, <2>5, <2>6, <2>7, <2>8, <2>9, <2>10, <2>11, <2>21, <2>12,
       <2>13, <2>14, <2>15, <2>16, <2>17, <2>18, <2>19
    DEF Next, Sender, Receiver, Main, Exited
<1>2. QED
  BY InitTypes, <1>1, PTL DEF Spec

-------------------------------------------------------------------------------
(* Sequence numbers.                                                        *)

\* A ping's number and its sequence number stay in step when the next group
\* begins, unless a packet of the whole cycle's age is still under way.
LEMMA StepsTogether ==
  ASSUME NEW s \in 0 .. SEQMAX, NEW r \in 0 .. SEQMAX, NEW age \in Nat,
         age + 1 <= MaxLife,
         \/ r <= s /\ age = s - r
         \/ r > s /\ s >= NSEC /\ age = s - r + SEQMAX + 1 - NSEC
  PROVE  LET s1 == NextSeq(s)
         IN  \/ r <= s1 /\ age + 1 = s1 - r
             \/ r > s1 /\ s1 >= NSEC /\ age + 1 = s1 - r + SEQMAX + 1 - NSEC
BY SeqAssumption, NSECAssumption, NetworkAssumption, LifeAssumption DEF NextSeq

\* No step breaks the tie between numbers and ages (spawn_sender,
\* spawn_receiver, and everything the main thread does to the packets).
THEOREM NumbersStayInStep == Spec => []NumbersInStep
<1>1. Init => NumbersInStep
  BY DEF Init, NumbersInStep, InFlight
<1>2. TypeOK /\ NumbersInStep /\ [Next]_vars => NumbersInStep'
  <2> SUFFICES ASSUME TypeOK, NumbersInStep, [Next]_vars PROVE NumbersInStep'
    OBVIOUS
  <2> USE DEF NumbersInStep, app, sender, receiver, main, under
  <2>1. CASE BeginGroup
    <3>1. /\ seq \in 0 .. SEQMAX /\ seq' = NextSeq(seq) /\ sent' = seq'
          /\ total \in Nat /\ total' = total + 1
      BY <2>1 DEF BeginGroup, TypeOK
    <3>2. ASSUME NEW m \in InFlight' \cup queue'
          PROVE  /\ m \in InFlight \cup queue /\ m.no + MaxLife >= total'
                 /\ m.no \in Nat /\ m.rsq \in 0 .. SEQMAX
      BY <2>1 DEF BeginGroup, InFlight, Alive, TypeOK, Packet
    <3>3. ASSUME NEW m \in InFlight' \cup queue'
          PROVE  /\ m.no \in 1 .. total' /\ total' - m.no <= MaxLife
                 /\ \/ m.rsq <= seq' /\ total' - m.no = seq' - m.rsq
                    \/ m.rsq > seq' /\ seq' >= NSEC
                       /\ total' - m.no = seq' - m.rsq + SEQMAX + 1 - NSEC
      <4> DEFINE age == total - m.no
      <4>1. /\ m.no \in 1 .. total /\ m.no \in Nat /\ m.rsq \in 0 .. SEQMAX
            /\ m.no + MaxLife >= total'
            /\ \/ m.rsq <= seq /\ age = seq - m.rsq
               \/ m.rsq > seq /\ seq >= NSEC /\ age = seq - m.rsq + SEQMAX + 1 - NSEC
        BY <3>2
      <4>2. age \in Nat /\ age + 1 <= MaxLife /\ age + 1 = total' - m.no
        BY <3>1, <4>1, NetworkAssumption
      <4>3. \/ m.rsq <= seq' /\ age + 1 = seq' - m.rsq
            \/ m.rsq > seq' /\ seq' >= NSEC
               /\ age + 1 = seq' - m.rsq + SEQMAX + 1 - NSEC
        <5> HIDE DEF age
        <5>1. QED
          BY <3>1, <4>1, <4>2, StepsTogether
      <4>4. QED
        BY <3>1, <4>1, <4>2, <4>3
    <3>4. QED
      BY <3>1, <3>3
  <2>2. CASE PingTarget
    <3>1. PICK c \in 0 .. MaxCopies :
            /\ net' = net \cup {[to |-> idx, rsq |-> sent, no |-> total, copy |-> i] :
                                  i \in 1 .. c}
            /\ queue' = IF mpc = "swap"
                        THEN queue \cup {[to |-> idx, rsq |-> sent, no |-> total, copy |-> i] :
                                           i \in 1 .. c}
                        ELSE queue
      BY <2>2 DEF PingTarget
    <3>2. ASSUME NEW m \in InFlight' \cup queue'
          PROVE  m \in InFlight \cup queue \/ (m.no = total /\ m.rsq = sent)
      BY <2>2, <3>1 DEF PingTarget, InFlight
    <3>3. sent = seq /\ total \in Nat /\ total >= 1 /\ seq \in 0 .. SEQMAX
      BY <2>2 DEF PingTarget, TypeOK
    <3>4. UNCHANGED <<seq, total, spc, sent>>
      BY <2>2 DEF PingTarget
    <3>5. QED
      BY <3>2, <3>3, <3>4, NetworkAssumption
  <2>3. ASSUME spc' = "ping" => spc = "ping",
               InFlight' \cup queue' \subseteq InFlight \cup queue,
               UNCHANGED <<seq, total, sent>>
        PROVE  NumbersInStep'
    BY <2>3
  <2>11. CASE SwapReceiveSocket
    <3>1. PICK kept \in SUBSET queue :
            net' = (kept \cap net) \cup {Second(m) : m \in kept \ net}
      BY <2>11 DEF SwapReceiveSocket
    <3>2. \A m \in queue : Second(m).no = m.no /\ Second(m).rsq = m.rsq
      BY DEF Second, TypeOK, Packet
    <3>3. QED
      BY <2>11, <3>1, <3>2 DEF SwapReceiveSocket, InFlight
  <2>4. CASE GroupSent \/ EndGroup \/ SenderStops
    BY <2>3, <2>4 DEF GroupSent, EndGroup, SenderStops, InFlight
  <2>5. CASE Receive
    BY <2>3, <2>5 DEF Receive, InFlight
  <2>6. CASE Process
    BY <2>3, <2>6 DEF Process, InFlight
  <2>7. CASE ReceiverStops
    BY <2>3, <2>7 DEF ReceiverStops, InFlight
  <2>8. CASE Main
    BY <2>3, <2>8, <2>11 DEF Main, InFlight, Review, PressReset, OpenReceiveSocket,
      ResetStats, PressQuit, ShowIsDue, Draw, MainFails, MainLeaves, Finish
  <2>9. CASE UNCHANGED vars
    BY <2>3, <2>9 DEF vars, InFlight
  <2>10. QED
    BY <2>1, <2>2, <2>4, <2>5, <2>6, <2>7, <2>8, <2>9
    DEF Next, Sender, Receiver, Exited
<1>3. QED
  BY <1>1, <1>2, TypeCorrect, PTL DEF Spec

\* What process() computes from a sequence number is the age of its ping.
LEMMA AgeFromNumbers == TypeOK /\ NumbersInStep => AgeFound
<1> SUFFICES ASSUME TypeOK, NumbersInStep, NEW m \in InFlight
             PROVE  /\ m.no <= total
                    /\ m.rsq = seq <=> m.no = total
                    /\ m.rsq # seq => LateOffset(seq, m.rsq) = total - m.no
  BY DEF AgeFound
<1>1. m.no \in Nat /\ m.rsq \in 0 .. SEQMAX /\ seq \in 0 .. SEQMAX /\ total \in Nat
  BY DEF TypeOK, InFlight, Packet
<1>2. /\ m.no \in 1 .. total
      /\ \/ m.rsq <= seq /\ total - m.no = seq - m.rsq
         \/ m.rsq > seq /\ seq >= NSEC
            /\ total - m.no = seq - m.rsq + SEQMAX + 1 - NSEC
  BY DEF NumbersInStep
<1>3. QED
  BY <1>1, <1>2, SeqAssumption, NSECAssumption DEF LateOffset

\* The receiver never mistakes one ping for another: a reply is taken for the
\* current ping exactly when it is one, and a late reply's slot offset is its
\* ping's age, however often the numbers have wrapped (net.rs process).
THEOREM AgeIsFound == Spec => []AgeFound
BY NumbersStayInStep, TypeCorrect, AgeFromNumbers, PTL

-------------------------------------------------------------------------------
(* The history.                                                             *)

\* The wall clock is not set back while the program runs (the program reads
\* SystemTime; the clock_step run shows what happens otherwise).
ClockIsSteady == RTTs \subseteq Nat

\* No round-trip time of a steady clock is stored as "no ping".
LEMMA TimeIsAPing ==
  ASSUME NEW d \in Nat
  PROVE  ByteTime(d) # NO_PING
BY DEF ByteTime, Millis, NO_PING, LOST_PING

\* The slots that read "no ping recorded" are exactly those older than the
\* first ping: neither the shift of the ring, nor a reply, nor a late reply
\* marked at a computed offset ever disturbs them (Ping::shift, process).
THEOREM NeverPingedStays ==
  ASSUME ClockIsSteady
  PROVE  Spec => []NeverPinged
<1>1. Init => NeverPinged
  <2> SUFFICES ASSUME Init, NEW t \in Targets, NEW k \in Slots
               PROVE  GetPing(ping[t], k, 0) = NO_PING <=> k >= total
    BY DEF NeverPinged
  <2>1. ping[t] = NewPing /\ total = 0
    BY DEF Init
  <2>2. QED
    BY <2>1, GetNew DEF Slots
<1>2. TypeOK /\ NumbersInStep /\ AgeFound /\ NeverPinged /\ [Next]_vars => NeverPinged'
  <2> SUFFICES ASSUME TypeOK, NumbersInStep, AgeFound, NeverPinged, [Next]_vars
               PROVE  NeverPinged'
    OBVIOUS
  <2>1. CASE BeginGroup
    <3> SUFFICES ASSUME NEW t \in Targets, NEW k \in Slots
                 PROVE  GetPing(ping'[t], k, 0) = NO_PING <=> k >= total'
      BY DEF NeverPinged
    <3>1. /\ ping[t] \in Ping /\ ping'[t] = ShiftPing(ping[t])
          /\ total \in Nat /\ total' = total + 1
      BY <2>1 DEF BeginGroup, TypeOK
    <3>2. GetPing(ping'[t], k, 0) = IF k = 0 THEN LOST_PING ELSE GetPing(ping[t], k - 1, 0)
      BY <3>1, GetShift
    <3>3. CASE k = 0
      BY <3>1, <3>2, <3>3 DEF LOST_PING, NO_PING
    <3>4. CASE k # 0
      <4>1. k - 1 \in Slots /\ k \in Int
        BY <3>4, NSECAssumption DEF Slots
      <4>2. GetPing(ping[t], k - 1, 0) = NO_PING <=> k - 1 >= total
        BY <4>1 DEF NeverPinged
      <4>3. QED
        BY <3>1, <3>2, <3>4, <4>1, <4>2
    <3>5. QED
      BY <3>3, <3>4
  <2>2. CASE Process
    <3>1. /\ held \in InFlight /\ held.to \in Targets
          /\ held.no \in 1 .. total /\ total \in Nat /\ total' = total
          /\ seq \in 0 .. SEQMAX /\ held.rsq \in 0 .. SEQMAX
      BY <2>2 DEF Process, TypeOK, Packet, InFlight, NumbersInStep
    <3>2. ASSUME NEW j \in Slots, j < total, NEW v \in Byte, v # NO_PING,
                 ping' = [ping EXCEPT ![held.to] = SetPing(ping[held.to], j, v)]
          PROVE  NeverPinged'
      <4> SUFFICES ASSUME NEW t \in Targets, NEW k \in Slots
                   PROVE  GetPing(ping'[t], k, 0) = NO_PING <=> k >= total
        BY <3>1 DEF NeverPinged
      <4>1. ping[t] \in Ping /\ (GetPing(ping[t], k, 0) = NO_PING <=> k >= total)
        BY DEF TypeOK, NeverPinged
      <4>2. CASE t = held.to
        <5>1. ping'[t] = SetPing(ping[t], j, v)
          BY <3>2, <4>2 DEF TypeOK
        <5>2. GetPing(ping'[t], k, 0) = IF k = j THEN v ELSE GetPing(ping[t], k, 0)
          BY <4>1, <5>1, GetSet
        <5>3. j \in Int /\ (k = j => ~(k >= total))
          BY <3>1, <3>2 DEF Slots
        <5>4. QED
          BY <3>2, <4>1, <5>2, <5>3
      <4>3. CASE t # held.to
        BY <3>2, <4>1, <4>3 DEF TypeOK
      <4>4. QED
        BY <4>2, <4>3
    <3>3. CASE Current(held)
      <4>1. PICK d \in RTTs :
              ping' = [ping EXCEPT ![held.to] = SetPing(ping[held.to], 0, ByteTime(d))]
        BY <3>3 DEF Current
      <4>2. d \in Nat /\ ByteTime(d) \in Byte /\ ByteTime(d) # NO_PING
        BY <4>1, ByteTimeIsByte, TimeIsAPing DEF ClockIsSteady
      <4>3. 0 \in Slots /\ 0 < total
        BY <3>1, NSECAssumption DEF Slots
      <4>4. QED
        BY <3>2, <4>1, <4>2, <4>3
    <3>4. CASE Overdue(held)
      <4> DEFINE k == LateOffset(seq, held.rsq)
      <4>1. held.rsq # seq
        BY <3>4 DEF Overdue
      <4>2. k = total - held.no
        BY <3>1, <4>1 DEF AgeFound
      <4>3. ping' = IF GivenUp(ping[held.to], k)
                    THEN [ping EXCEPT ![held.to] = SetPing(ping[held.to], k, LATE_PING)]
                    ELSE ping
        BY <3>4 DEF Overdue
      <4> HIDE DEF k
      <4>4. CASE GivenUp(ping[held.to], k)
        <5>1. k \in Slots /\ k < total
          BY <3>1, <4>2, <4>4, NSECAssumption DEF GivenUp, Slots
        <5>2. LATE_PING \in Byte /\ LATE_PING # NO_PING
          BY DEF LATE_PING, NO_PING, Byte
        <5>3. QED
          BY <3>2, <4>3, <4>4, <5>1, <5>2
      <4>5. CASE ~GivenUp(ping[held.to], k)
        BY <3>1, <4>3, <4>5 DEF NeverPinged
      <4>6. QED
        BY <4>4, <4>5
    <3>5. QED
      BY <2>2, <3>3, <3>4 DEF Process
  <2>3. CASE UNCHANGED <<ping, total>>
    BY <2>3 DEF NeverPinged
  <2>4. CASE Main \/ UNCHANGED vars
    BY <2>3, <2>4 DEF Main, vars, app, Review, PressReset, OpenReceiveSocket, SwapReceiveSocket,
      ResetStats, PressQuit, ShowIsDue, Draw, MainFails, MainLeaves, Finish
  <2>5. CASE PingTarget \/ GroupSent \/ EndGroup \/ SenderStops \/ Receive \/ ReceiverStops
    BY <2>3, <2>5
    DEF app, PingTarget, GroupSent, EndGroup, SenderStops, Receive, ReceiverStops
  <2>6. QED
    BY <2>1, <2>2, <2>4, <2>5 DEF Next, Sender, Receiver, Exited
<1>3. QED
  BY <1>1, <1>2, TypeCorrect, NumbersStayInStep, AgeIsFound, PTL DEF Spec

===============================================================================
