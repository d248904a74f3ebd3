--------------------------------- MODULE Icmp ---------------------------------
(***************************************************************************)
(* The packets of icmp.rs as sequences of bytes, on a host that stores the  *)
(* low byte of a word first: the echo request with its checksum, the header *)
(* parser, and the part of process() (net.rs) that decides from the bytes   *)
(* of a received packet whose it is.                                        *)
(***************************************************************************)
EXTENDS Integers, Sequences

ICMP_ECHOREPLY == 0
ICMP_UNREACH == 3
ICMP_ECHO == 8
ICMP_TIME_EXCEEDED == 11

ICMP_HDR_LEN == 8
IP_HDR_MIN == 20
TS_LEN == 8

\* u16::to_ne_bytes, u16::from_ne_bytes
NeBytes(w) == <<w % 256, w \div 256>>
FromNe(b, i) == b[i] + 256 * b[i + 1]

Zeros(n) == [i \in 1 .. n |-> 0]

-------------------------------------------------------------------------------
\* The terms of a sequence, added up in their order.
Total(terms) ==
  LET sum[n \in 0 .. Len(terms)] == IF n = 0 THEN 0 ELSE sum[n - 1] + terms[n]
  IN  sum[Len(terms)]

\* The words of data, added up; an odd byte at the end is a word of its own.
WordSum(data) ==
  Total([i \in 1 .. Len(data) |-> IF i % 2 = 1 THEN data[i] ELSE 256 * data[i]])

\* Mutant: the carry of the first fold is lost.
FoldedOnce(sum) == ((sum \div 65536) + (sum % 65536)) % 65536

\* The carries are added to the low word, twice.
Folded(sum) ==
  LET once == (sum \div 65536) + (sum % 65536)
  IN  (once + (once \div 65536)) % 65536

checksum(data) == 65535 - Folded(WordSum(data))

\* An echo request with a time stamp, padded with zeros to minsz.
BuildEcho(id, seq, minsz, ts) ==
  LET bare == ICMP_HDR_LEN + Len(ts)
      Packet(csum) ==
        <<ICMP_ECHO, 0>> \o NeBytes(csum) \o NeBytes(id) \o NeBytes(seq) \o ts
          \o Zeros(IF minsz > bare THEN minsz - bare ELSE 0)
  IN  Packet(checksum(Packet(0)))

\* How many bytes the IP header in front of data takes, from its first byte.
IpHeaderLength(data) == 4 * (data[1] % 16)

Unpackable(data) ==
  Len(data) >= IP_HDR_MIN /\ Len(data) >= IpHeaderLength(data) + ICMP_HDR_LEN

\* Mutant: options in the IP header are not looked for.
UnpackHeaderFixed(data) ==
  LET icp == SubSeq(data, IP_HDR_MIN + 1, IP_HDR_MIN + ICMP_HDR_LEN)
  IN  [len |-> IP_HDR_MIN + ICMP_HDR_LEN, ttl |-> data[9],
       rtp |-> icp[1], rid |-> FromNe(icp, 5), rsq |-> FromNe(icp, 7)]

\* unpack_header, of Unpackable data.
UnpackHeader(data) ==
  LET hlen == IpHeaderLength(data)
      icp == SubSeq(data, hlen + 1, hlen + ICMP_HDR_LEN)
  IN  [len |-> hlen + ICMP_HDR_LEN, ttl |-> data[9],
       rtp |-> icp[1], rid |-> FromNe(icp, 5), rsq |-> FromNe(icp, 7)]

Payload(data) == SubSeq(data, UnpackHeader(data).len + 1, Len(data))

\* The packet ends with a whole time stamp, and what follows.
Stamped(data) == Len(Payload(data)) >= TS_LEN

-------------------------------------------------------------------------------
\* What process() takes a packet for: the answer to a ping or to a probe, of
\* which sequence number, or nothing of ours.
NotOurs == [kind |-> "none", rsq |-> 0]

Quoting(data, ours, kind) ==
  LET quote == Payload(data)
      inner == UnpackHeader(quote)
  IN  IF /\ Unpackable(quote) /\ inner.rid = ours
         /\ kind = "exceeded" => Stamped(quote)
      THEN [kind |-> kind, rsq |-> inner.rsq]
      ELSE NotOurs

Taken(data, pingid, traceid) ==
  LET h == UnpackHeader(data)
  IN  CASE ~Unpackable(data) -> NotOurs
        [] Unpackable(data) /\ h.rtp = ICMP_ECHOREPLY ->
             IF Stamped(data) /\ h.rid \in {pingid, traceid}
             THEN [kind |-> IF h.rid = pingid THEN "ping" ELSE "echo", rsq |-> h.rsq]
             ELSE NotOurs
        [] Unpackable(data) /\ h.rtp = ICMP_TIME_EXCEEDED -> Quoting(data, traceid, "exceeded")
        [] Unpackable(data) /\ h.rtp = ICMP_UNREACH -> Quoting(data, traceid, "unreachable")
        [] OTHER -> NotOurs

===============================================================================
