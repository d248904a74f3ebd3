------------------------------- MODULE PingRing -------------------------------
(***************************************************************************)
(* The ring of one-byte ping results and the per-target counters of        *)
(* src/src/ping.rs, as operators on values.  A slot holds the byte the      *)
(* program stores: a log-scale round-trip time (ByteTime) or one of three   *)
(* special codes.                                                          *)
(***************************************************************************)
EXTENDS Integers

CONSTANTS
  NSEC,       (* number of slots of a ring; 3600 in the program           *)
  LostLimit   (* the display field's limit on the lost count; 99999       *)

ASSUME NSECAssumption == NSEC \in Nat /\ NSEC >= 2
ASSUME LostLimitAssumption == LostLimit \in Nat \ {0}

Byte == 0 .. 255

NO_PING   == 255   \* 0xFF: no ping has been recorded for this slot yet
LOST_PING == 254   \* 0xFE: the reply was never received
LATE_PING == 253   \* 0xFD: the reply arrived, but more than one period late

-------------------------------------------------------------------------------
(* byte_time.  A round-trip time is an integer number of tenths of a       *)
(* millisecond; it is negative when the wall clock was set back between    *)
(* the send and the receive, since util::now() is SystemTime.              *)

\* `(dt + 0.5) as i64`: the cast truncates towards zero.
Millis(dt) == IF dt + 5 >= 0 THEN (dt + 5) \div 10 ELSE -((-(dt + 5)) \div 10)

\* The casts `as u8` keep the low eight bits, so a negative `idt` wraps.
ByteTime(dt) ==
  LET idt == Millis(dt)
  IN  IF idt < 10 THEN idt % 256
      ELSE IF idt < 100 THEN idt \div 10 + 16
      ELSE IF idt < 1000 THEN idt \div 100 + 32
      ELSE IF idt < 10000 THEN idt \div 1000 + 48
      ELSE LOST_PING

-------------------------------------------------------------------------------
Slots == 0 .. NSEC - 1

Ping == [cur : Slots, buf : [Slots -> Byte]]

\* Mutant: the ring starts out lost instead of empty.
NewPingLost == [cur |-> NSEC - 1, buf |-> [i \in Slots |-> LOST_PING]]

NewPing == [cur |-> NSEC - 1, buf |-> [i \in Slots |-> NO_PING]]

SetPing(p, off, val) ==
  [p EXCEPT !.buf = [@ EXCEPT ![(p.cur + off) % NSEC] = val]]

\* `delt` shifts the read back in time: it is the history-review offset.
GetPing(p, off, delt) == p.buf[(p.cur + off + delt) % NSEC]

-------------------------------------------------------------------------------
(* Stat: the reply, lost and late counters.  The aggregates of the          *)
(* round-trip times themselves (s, s2, min, max, avg, std) are not kept     *)
(* here: no step of the program branches on them.                          *)

Stat == [n : Nat, lost : Nat \cup {-1}, late : Nat]

\* Mutant: the lost count starts before the first shift.
NewStatStarted == [n |-> 0, lost |-> 0, late |-> 0]

NewStat == [n |-> 0, lost |-> -1, late |-> 0]

CountReply(s) == [s EXCEPT !.n = @ + 1]

CountLate(s) == [s EXCEPT !.late = @ + 1]

\* Mutant: the wrong code is counted.
CountUnused(s, byte) ==
  IF byte = NO_PING /\ s.lost < LostLimit THEN [s EXCEPT !.lost = @ + 1] ELSE s

\* Count the slot of the period that ends, when it is still unanswered.
CountLost(s, byte) ==
  IF byte = LOST_PING /\ s.lost < LostLimit THEN [s EXCEPT !.lost = @ + 1] ELSE s

\* Mutant: the first shift counts like any other.
ShiftStatUnstarted(p, s) == CountLost(s, GetPing(p, 0, 0))

\* Ping::shift on the counters: the first shift only starts the count.
ShiftStat(p, s) ==
  IF s.lost < 0 THEN [s EXCEPT !.lost = 0] ELSE CountLost(s, GetPing(p, 0, 0))

\* Mutant: the cursor does not wrap at the start of the ring.
ShiftPingNoWrap(p) == SetPing([p EXCEPT !.cur = @ - 1], 0, LOST_PING)

\* Mutant: the new slot is not seeded.
ShiftPingUnmarked(p) ==
  SetPing([p EXCEPT !.cur = IF @ = 0 THEN NSEC - 1 ELSE @ - 1], 0, NO_PING)

\* Ping::shift on the ring: step back one slot and seed it as lost.
ShiftPing(p) ==
  SetPing([p EXCEPT !.cur = IF @ = 0 THEN NSEC - 1 ELSE @ - 1], 0, LOST_PING)

===============================================================================
