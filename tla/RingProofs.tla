------------------------------ MODULE RingProofs ------------------------------
(***************************************************************************)
(* Lemmas about the operators of PingRing, for every ring size: what a read *)
(* returns after a write and after a shift.  They are what the proofs about *)
(* Prober use instead of the modular arithmetic of the ring.                *)
(***************************************************************************)
EXTENDS PingRing, TLAPS

\* An index taken modulo the ring size is a slot.
LEMMA ModIsSlot ==
  ASSUME NEW i \in Int
  PROVE  i % NSEC \in Slots
BY NSECAssumption DEF Slots

\* Two slots' sum wraps around at most once.
LEMMA WrapOnce ==
  ASSUME NEW c \in Slots, NEW k \in Slots
  PROVE  (c + k) % NSEC = IF c + k < NSEC THEN c + k ELSE c + k - NSEC
BY NSECAssumption DEF Slots

\* Offsets of one cursor are different slots.
LEMMA OffsetsDiffer ==
  ASSUME NEW c \in Slots, NEW j \in Slots, NEW k \in Slots,
         (c + j) % NSEC = (c + k) % NSEC
  PROVE  j = k
<1>1. (c + j) % NSEC = IF c + j < NSEC THEN c + j ELSE c + j - NSEC
  BY WrapOnce
<1>2. (c + k) % NSEC = IF c + k < NSEC THEN c + k ELSE c + k - NSEC
  BY WrapOnce
<1>3. /\ c \in Int /\ j \in Int /\ k \in Int /\ NSEC \in Int
      /\ 0 <= j /\ j < NSEC /\ 0 <= k /\ k < NSEC
  BY NSECAssumption DEF Slots
<1>4. (IF c + j < NSEC THEN c + j ELSE c + j - NSEC)
        = (IF c + k < NSEC THEN c + k ELSE c + k - NSEC)
  BY <1>1, <1>2, Zenon
<1>5. QED
  BY <1>3, <1>4

\* A round-trip time is stored as a byte: the casts of byte_time cannot
\* produce anything else, for a negative time either.
LEMMA ByteTimeIsByte ==
  ASSUME NEW d \in Int
  PROVE  ByteTime(d) \in Byte
BY DEF ByteTime, Millis, Byte, LOST_PING

\* The ring of a new target is a ring.
LEMMA NewPingType == NewPing \in Ping
BY NSECAssumption DEF NewPing, Ping, Slots, Byte, NO_PING

\* A write of a byte keeps a ring a ring.
LEMMA SetPingType ==
  ASSUME NEW p \in Ping, NEW k \in Nat, NEW v \in Byte
  PROVE  /\ SetPing(p, k, v) \in Ping
         /\ SetPing(p, k, v).cur = p.cur
         /\ SetPing(p, k, v).buf = [p.buf EXCEPT ![(p.cur + k) % NSEC] = v]
BY DEF SetPing, Ping

\* A read of a ring is a byte.
LEMMA GetPingType ==
  ASSUME NEW p \in Ping, NEW k \in Nat, NEW d \in Nat
  PROVE  GetPing(p, k, d) \in Byte
<1>1. p.cur + k + d \in Int
  BY DEF Ping, Slots
<1>2. (p.cur + k + d) % NSEC \in Slots
  BY <1>1, ModIsSlot
<1>3. QED
  BY <1>2 DEF GetPing, Ping

\* A write is seen at its own offset and nowhere else.
LEMMA GetSet ==
  ASSUME NEW p \in Ping, NEW j \in Slots, NEW k \in Slots, NEW v \in Byte
  PROVE  GetPing(SetPing(p, k, v), j, 0) = IF j = k THEN v ELSE GetPing(p, j, 0)
<1>1. /\ p.cur \in Slots /\ p.cur \in Int /\ j \in Int /\ k \in Int /\ k \in Nat
      /\ p.buf \in [Slots -> Byte]
  BY DEF Ping, Slots
<1>2. /\ (p.cur + j) % NSEC \in Slots
      /\ (p.cur + k) % NSEC \in Slots
  BY <1>1, ModIsSlot
<1>3. (p.cur + j) % NSEC = (p.cur + k) % NSEC <=> j = k
  BY <1>1, OffsetsDiffer
<1>4. p.cur + j + 0 = p.cur + j
  BY <1>1
<1>5. /\ SetPing(p, k, v).cur = p.cur
      /\ SetPing(p, k, v).buf = [p.buf EXCEPT ![(p.cur + k) % NSEC] = v]
  BY <1>1, SetPingType
<1>6. QED
  BY <1>1, <1>2, <1>3, <1>4, <1>5, Zenon DEF GetPing

\* The ring of a target with no pings reads as such at every offset.
LEMMA GetNew ==
  ASSUME NEW k \in Slots
  PROVE  GetPing(NewPing, k, 0) = NO_PING
<1>1. NewPing.cur + k + 0 \in Int
  BY NSECAssumption DEF NewPing, Slots
<1>2. (NewPing.cur + k + 0) % NSEC \in Slots
  BY <1>1, ModIsSlot
<1>3. QED
  BY <1>2 DEF GetPing, NewPing

\* A shifted ring is a ring.
LEMMA ShiftPingType ==
  ASSUME NEW p \in Ping
  PROVE  ShiftPing(p) \in Ping
<1>1. [p EXCEPT !.cur = IF @ = 0 THEN NSEC - 1 ELSE @ - 1] \in Ping
  BY NSECAssumption DEF Ping, Slots
<1>2. LOST_PING \in Byte /\ 0 \in Nat
  BY DEF LOST_PING, Byte
<1>3. QED
  BY <1>1, <1>2, SetPingType DEF ShiftPing

\* A shift makes every ping one slot older and the new current one lost.
LEMMA GetShift ==
  ASSUME NEW p \in Ping, NEW k \in Slots
  PROVE  GetPing(ShiftPing(p), k, 0) =
           IF k = 0 THEN LOST_PING ELSE GetPing(p, k - 1, 0)
<1> DEFINE back == [p EXCEPT !.cur = IF @ = 0 THEN NSEC - 1 ELSE @ - 1]
<1>1. back \in Ping
  BY NSECAssumption DEF Ping, Slots
<1>2. LOST_PING \in Byte /\ 0 \in Slots
  BY NSECAssumption DEF LOST_PING, Byte, Slots
<1>3. GetPing(ShiftPing(p), k, 0) = IF k = 0 THEN LOST_PING ELSE GetPing(back, k, 0)
  BY <1>1, <1>2, GetSet DEF ShiftPing
<1>4. ASSUME k # 0
      PROVE  (back.cur + k + 0) % NSEC = (p.cur + (k - 1) + 0) % NSEC
  <2>1. p.cur \in Slots /\ back.cur \in Slots /\ k - 1 \in Slots
    BY <1>1, <1>4, NSECAssumption DEF Ping, Slots
  <2>2. back.cur = IF p.cur = 0 THEN NSEC - 1 ELSE p.cur - 1
    BY DEF Ping
  <2>3. (back.cur + k) % NSEC =
           IF back.cur + k < NSEC THEN back.cur + k ELSE back.cur + k - NSEC
    BY <2>1, WrapOnce
  <2>4. (p.cur + (k - 1)) % NSEC =
           IF p.cur + (k - 1) < NSEC THEN p.cur + (k - 1) ELSE p.cur + (k - 1) - NSEC
    BY <2>1, WrapOnce
  <2>5. /\ p.cur \in Int /\ back.cur \in Int /\ k \in Int /\ NSEC \in Int
        /\ 0 <= p.cur /\ p.cur < NSEC /\ 0 < k /\ k < NSEC
    BY <2>1, <1>4, NSECAssumption DEF Slots
  <2> HIDE DEF back
  <2>6. /\ back.cur + k + 0 = back.cur + k
        /\ p.cur + (k - 1) + 0 = p.cur + (k - 1)
    BY <2>5
  <2>7. (IF back.cur + k < NSEC THEN back.cur + k ELSE back.cur + k - NSEC)
          = (IF p.cur + (k - 1) < NSEC THEN p.cur + (k - 1) ELSE p.cur + (k - 1) - NSEC)
    BY <2>2, <2>5
  <2>8. QED
    BY <2>3, <2>4, <2>6, <2>7, Zenon
<1>5. back.buf = p.buf
  BY DEF Ping
<1>6. QED
  BY <1>3, <1>4, <1>5, Zenon DEF GetPing

\* The counters keep their types.
LEMMA StatTypes ==
  ASSUME NEW s \in Stat
  PROVE  /\ NewStat \in Stat
         /\ CountReply(s) \in Stat
         /\ CountLate(s) \in Stat
         /\ \A b \in Byte : CountLost(s, b) \in Stat
<1>1. NewStat \in Stat
  BY DEF NewStat, Stat
<1>2. CountReply(s) \in Stat /\ CountLate(s) \in Stat
  BY DEF CountReply, CountLate, Stat
<1>3. ASSUME NEW b \in Byte
      PROVE  CountLost(s, b) \in Stat
  BY DEF CountLost, Stat
<1>4. QED
  BY <1>1, <1>2, <1>3

\* The first shift starts the lost count, every other one counts with it.
LEMMA ShiftStatType ==
  ASSUME NEW p \in Ping, NEW s \in Stat
  PROVE  ShiftStat(p, s) \in Stat
<1>1. GetPing(p, 0, 0) \in Byte
  BY GetPingType
<1>2. CountLost(s, GetPing(p, 0, 0)) \in Stat
  BY <1>1, StatTypes
<1>3. [s EXCEPT !.lost = 0] \in Stat
  BY DEF Stat
<1>4. QED
  BY <1>2, <1>3 DEF ShiftStat

===============================================================================
