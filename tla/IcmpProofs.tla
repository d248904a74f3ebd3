------------------------------ MODULE IcmpProofs ------------------------------
(***************************************************************************)
(* Proofs about Icmp: the arithmetic of the two folds, sums of sequences,   *)
(* where the fields of a packet are, and that every request adds up.        *)
(***************************************************************************)
EXTENDS Icmp, SequenceTheorems, WellFoundedInduction, TLAPS

\* The high part and the low word of a sum.
LEMMA HighAndLow ==
  ASSUME NEW s \in Nat
  PROVE  /\ s \div 65536 \in Nat /\ s % 65536 \in Nat /\ s % 65536 < 65536
         /\ s = 65536 * (s \div 65536) + (s % 65536)
<1>1. s = 65536 * (s \div 65536) + (s % 65536)
  BY Z3
<1>2. s \div 65536 \in Nat
  BY Z3
<1>3. s % 65536 \in Nat
  BY Z3
<1>4. s % 65536 < 65536
  BY Z3
<1> QED
  BY <1>1, <1>2, <1>3, <1>4, Z3

\* There is one way to split a sum.
LEMMA Unique ==
  ASSUME NEW h \in Nat, NEW l \in Nat, NEW d \in Nat, NEW m \in Nat, l < 65536, m < 65536,
         65536 * h + l = 65536 * d + m
  PROVE  h = d /\ l = m
  BY Z3

\* So a sum that is written as a high part and a low word has these.
LEMMA HighIs ==
  ASSUME NEW high \in Nat, NEW low \in Nat, low < 65536, NEW s \in Nat, s = 65536 * high + low
  PROVE  s \div 65536 = high /\ s % 65536 = low
  BY HighAndLow, Unique, Z3

\* What the two folds do to any sum that fits the 32 bits of the code.
LEMMA FoldedIs ==
  ASSUME NEW high \in Nat, NEW low \in Nat, high <= 65535, low < 65536, NEW s \in Nat, s = 65536 * high + low
  PROVE  Folded(s) = IF high + low >= 65536 THEN high + low - 65535 ELSE high + low
<1>1. s \div 65536 = high /\ s % 65536 = low
  BY HighIs, Z3
<1>2. Folded(s) = ((high + low) + ((high + low) \div 65536)) % 65536
  BY <1>1, Z3 DEF Folded
<1>3. CASE high + low < 65536
  <2>1. high + low \in Nat /\ high + low = 65536 * 0 + (high + low)
    BY Z3
  <2>2. (high + low) \div 65536 = 0 /\ (high + low) % 65536 = high + low
    BY <1>3, <2>1, HighIs, Z3
  <2> QED
    BY <1>2, <1>3, <2>2, Z3
<1>4. CASE high + low >= 65536
  <2> DEFINE rest == high + low - 65536
  <2>1. rest \in Nat /\ rest < 65535 /\ high + low = 65536 * 1 + rest /\ high + low + 1 = 65536 * 1 + (rest + 1)
    BY <1>4, Z3
  <2> HIDE DEF rest
  <2>2. (high + low) \div 65536 = 1
    BY <2>1, HighIs, Z3
  <2>4. (high + low + 1) % 65536 = rest + 1
    BY <2>1, HighIs, Z3
  <2> QED
    BY <1>2, <1>4, <2>2, <2>4, Z3 DEF rest
<1> QED
  BY <1>3, <1>4, Z3

\* Folding gives all ones.
LEMMA AllOnes ==
  ASSUME NEW high \in Nat, NEW low \in Nat, high + low = 65535
  PROVE  Folded(65536 * high + low) = 65535
<1>1. low < 65536 /\ high <= 65535 /\ 65536 * high + low \in Nat
  BY Z3
<1> QED
  BY <1>1, FoldedIs, Z3

\* Adding the complement of the folded sum of the other words brings the folded sum
\* to all ones, for any 65535 words, which is more than a packet has.  So the checksum
\* of the packet as it is sent is zero (the test checksum_of_valid_packet_is_zero) and
\* its sum is a multiple of 65535 (checksum).
THEOREM ChecksumCloses ==
  ASSUME NEW sum \in Nat, sum > 0, sum <= 65535 * 65535
  PROVE  LET csum == 65535 - Folded(sum)
         IN  Folded(sum + csum) = 65535 /\ (sum + csum) % 65535 = 0
<1>1. PICK high \in Nat, low \in Nat : low < 65536 /\ sum = 65536 * high + low
  <2>1. /\ sum \div 65536 \in Nat /\ sum % 65536 \in Nat /\ sum % 65536 < 65536
        /\ sum = 65536 * (sum \div 65536) + (sum % 65536)
    BY HighAndLow, Z3
  <2> DEFINE h == sum \div 65536
             l == sum % 65536
  <2>2. h \in Nat /\ l \in Nat /\ l < 65536 /\ sum = 65536 * h + l
    BY <2>1
  <2> HIDE DEF h, l
  <2> QED
    BY <2>2
<1>2. high <= 65534
  BY <1>1, Z3
<1>3. Folded(sum) = IF high + low >= 65536 THEN high + low - 65535 ELSE high + low
  BY <1>1, <1>2, FoldedIs, Z3
<1>4. PICK h \in Nat, l \in Nat :
        h + l = 65535 /\ sum + (65535 - Folded(sum)) = 65536 * h + l
  <2>1. CASE high + low >= 65536
    <3> DEFINE g == high + 1
               m == 65535 - g
    <3>1. g \in Nat /\ m \in Nat /\ g + m = 65535
      BY <1>2, Z3
    <3>2. sum + (65535 - Folded(sum)) = 65536 * g + m
      BY <1>1, <1>3, <2>1, Z3
    <3> HIDE DEF g, m
    <3> QED
      BY <3>1, <3>2
  <2>2. CASE high + low < 65536
    <3> DEFINE g == high
               m == 65535 - g
    <3>1. g \in Nat /\ m \in Nat /\ g + m = 65535
      BY <1>2, Z3
    <3>2. sum + (65535 - Folded(sum)) = 65536 * g + m
      BY <1>1, <1>3, <2>2, Z3
    <3> HIDE DEF g, m
    <3> QED
      BY <3>1, <3>2
  <2> QED
    BY <2>1, <2>2, Z3
<1>5. Folded(65536 * h + l) = 65535
  <2>1. h \in Nat /\ l \in Nat /\ h + l = 65535
    BY <1>4
  <2> QED
    BY <2>1, AllOnes, SMTT(30)
<1>6. (65536 * h + l) % 65535 = 0
  BY <1>4, Z3
<1> QED
  BY <1>4, <1>5, <1>6, Z3

-------------------------------------------------------------------------------
(* Sums of sequences.                                                       *)

\* Counting up to n, for a set instead of a predicate: the least number that is
\* not in the set has a predecessor that is.
LEMMA UpTo ==
  ASSUME NEW n \in Nat, NEW X, 0 \in X, \A i \in 0 .. n - 1 : i \in X => i + 1 \in X
  PROVE  \A i \in 0 .. n : i \in X
<1> DEFINE missing == {i \in 0 .. n : i \notin X}
<1>1. SUFFICES ASSUME missing # {} PROVE FALSE
  OBVIOUS
<1>2. missing \subseteq Nat
  OBVIOUS
<1>3. PICK least \in missing : \A y \in missing : ~ (<<y, least>> \in OpToRel(<, Nat))
  <2> HIDE DEF missing
  <2> QED
    BY <1>1, <1>2, NatLessThanWellFounded, WFMin
<1>4. \A y \in missing : ~ (y < least)
  BY <1>2, <1>3 DEF OpToRel
<1>5. least \in 0 .. n /\ least \notin X
  BY <1>3
<1> HIDE DEF missing
<1>6. least # 0 /\ least - 1 \in 0 .. n - 1
  BY <1>5
<1>7. least - 1 \in X
  BY <1>4, <1>6 DEF missing
<1>8. (least - 1) + 1 = least
  BY <1>5
<1> QED
  BY <1>5, <1>6, <1>7, <1>8

\* The partial sums of a sequence.
IsSum(f, terms) ==
  /\ f \in [0 .. Len(terms) -> Int]
  /\ f[0] = 0 /\ \A n \in 1 .. Len(terms) : f[n] = f[n - 1] + terms[n]

\* Every sequence has them, so that the recursion of Total defines a function.
LEMMA SumExists ==
  ASSUME NEW terms \in Seq(Int)
  PROVE  \E f : IsSum(f, terms)
<1> DEFINE len == Len(terms)
           Partial(f, m) == /\ f \in [0 .. m -> Int]
                            /\ f[0] = 0 /\ \A n \in 1 .. m : f[n] = f[n - 1] + terms[n]
           X == {m \in 0 .. len : \E f : Partial(f, m)}
<1>1. len \in Nat /\ \A n \in 1 .. len : terms[n] \in Int
  BY LenProperties, ElementOfSeq
<1>2. 0 \in X
  <2> DEFINE z == [n \in 0 .. 0 |-> 0]
  <2>1. Partial(z, 0)
    OBVIOUS
  <2>2. \E f : Partial(f, 0)
    <3> HIDE DEF z, Partial
    <3> QED
      BY <2>1
  <2>3. 0 \in 0 .. len
    BY <1>1
  <2> QED
    BY <2>2, <2>3
<1>3. ASSUME NEW m \in 0 .. len - 1, m \in X PROVE m + 1 \in X
  <2>1. PICK f : Partial(f, m)
    BY <1>3
  <2> DEFINE g == [n \in 0 .. m + 1 |-> IF n = m + 1 THEN f[m] + terms[m + 1] ELSE f[n]]
  <2>2. m \in Nat /\ m + 1 \in 1 .. len /\ terms[m + 1] \in Int
    BY <1>1
  <2>3. g \in [0 .. m + 1 -> Int]
    BY <2>1, <2>2
  <2>4. g[0] = 0
    BY <2>1, <2>2
  <2>5. \A n \in 1 .. m + 1 : g[n] = g[n - 1] + terms[n]
    BY <2>1, <2>2
  <2>6. Partial(g, m + 1)
    <3> HIDE DEF g
    <3> QED
      BY <2>3, <2>4, <2>5
  <2>7. (\E h : Partial(h, m + 1)) /\ m + 1 \in 0 .. len
    <3> HIDE DEF g, Partial
    <3> QED
      BY <1>1, <2>2, <2>6
  <2> QED
    BY <2>7
<1>4. len \in X
  <2>1. \A i \in 0 .. len - 1 : i \in X => i + 1 \in X
    BY <1>3
  <2>2. \A i \in 0 .. len : i \in X
    <3> HIDE DEF X, len
    <3> QED
      BY <1>1, <1>2, <2>1, UpTo
  <2>3. len \in 0 .. len
    BY <1>1
  <2> QED
    BY <2>2, <2>3
<1> QED
  BY <1>4 DEF IsSum

\* Total is the last of them.
LEMMA TotalIs ==
  ASSUME NEW terms \in Seq(Int)
  PROVE  \E f : IsSum(f, terms) /\ Total(terms) = f[Len(terms)]
<1> DEFINE Sum(f) == f = [n \in 0 .. Len(terms) |-> IF n = 0 THEN 0 ELSE f[n - 1] + terms[n]]
           sum == CHOOSE f : Sum(f)
<1>1. Len(terms) \in Nat /\ \A n \in 1 .. Len(terms) : terms[n] \in Int
  BY LenProperties, ElementOfSeq
<1>2. PICK f : IsSum(f, terms)
  BY SumExists
<1>3. Sum(f)
  BY <1>1, <1>2 DEF IsSum
<1>4. Sum(sum)
  BY <1>3
<1>5. Total(terms) = sum[Len(terms)]
  BY DEF Total
<1> HIDE DEF sum
<1>6. /\ sum[0] = 0
      /\ \A n \in 1 .. Len(terms) : sum[n] = sum[n - 1] + terms[n]
  BY <1>1, <1>4
<1>7. \A n \in 0 .. Len(terms) : sum[n] \in Int
  <2> DEFINE X == {n \in 0 .. Len(terms) : sum[n] \in Int}
  <2>1. 0 \in X
    BY <1>1, <1>6
  <2>2. ASSUME NEW n \in 0 .. Len(terms) - 1, n \in X PROVE n + 1 \in X
    <3>1. n + 1 \in 1 .. Len(terms) /\ (n + 1) - 1 = n /\ n + 1 \in 0 .. Len(terms)
      BY <1>1
    <3>2. sum[n + 1] = sum[n] + terms[n + 1]
      BY <1>6, <3>1
    <3> QED
      BY <1>1, <2>2, <3>1, <3>2
  <2>3. \A n \in 0 .. Len(terms) : n \in X
    <3> HIDE DEF X
    <3> QED
      BY <1>1, <2>1, <2>2, UpTo
  <2> QED
    BY <2>3
<1>8. sum \in [0 .. Len(terms) -> Int]
  BY <1>4, <1>7
<1> QED
  BY <1>5, <1>6, <1>8 DEF IsSum

\* A sequence whose terms 3 and 4 are larger by c together has a total that is larger
\* by c, when the others are the same: the checksum that is put into a packet.
LEMMA TotalChanges ==
  ASSUME NEW a \in Seq(Int), NEW b \in Seq(Int), NEW c \in Int, Len(a) = Len(b), Len(a) >= 4,
         \A i \in 1 .. Len(a) : i \notin {3, 4} => b[i] = a[i],
         b[3] + b[4] = a[3] + a[4] + c
  PROVE  Total(b) = Total(a) + c
<1> DEFINE len == Len(a)
<1>1. len \in Nat /\ len >= 4 /\ \A n \in 1 .. len : a[n] \in Int /\ b[n] \in Int
  BY LenProperties, ElementOfSeq
<1>2. PICK f : IsSum(f, a) /\ Total(a) = f[len]
  BY TotalIs, Zenon
<1>3. PICK g : IsSum(g, b) /\ Total(b) = g[len]
  BY TotalIs, Zenon
<1>4. /\ f[0] = 0 /\ \A n \in 1 .. len : f[n] = f[n - 1] + a[n]
      /\ g[0] = 0 /\ \A n \in 1 .. len : g[n] = g[n - 1] + b[n]
      /\ \A n \in 0 .. len : f[n] \in Int /\ g[n] \in Int
  BY <1>2, <1>3 DEF IsSum
<1>5. f[2] = g[2] /\ f[4] = f[2] + a[3] + a[4] /\ g[4] = g[2] + b[3] + b[4]
  <2>1. \A n \in {1, 2, 3, 4} : n \in 1 .. len /\ n - 1 \in 0 .. len
    BY <1>1
  <2>0. 1 - 1 = 0 /\ 2 - 1 = 1 /\ 3 - 1 = 2 /\ 4 - 1 = 3
    OBVIOUS
  <2>2. /\ f[1] = f[0] + a[1] /\ f[2] = f[1] + a[2] /\ f[3] = f[2] + a[3] /\ f[4] = f[3] + a[4]
        /\ g[1] = g[0] + b[1] /\ g[2] = g[1] + b[2] /\ g[3] = g[2] + b[3] /\ g[4] = g[3] + b[4]
    <3>1. \A n \in {1, 2, 3, 4} : f[n] = f[n - 1] + a[n] /\ g[n] = g[n - 1] + b[n]
      BY <1>4, <2>1
    <3>2. /\ f[1] = f[1 - 1] + a[1] /\ f[2] = f[2 - 1] + a[2]
          /\ f[3] = f[3 - 1] + a[3] /\ f[4] = f[4 - 1] + a[4]
          /\ g[1] = g[1 - 1] + b[1] /\ g[2] = g[2 - 1] + b[2]
          /\ g[3] = g[3 - 1] + b[3] /\ g[4] = g[4 - 1] + b[4]
      BY <3>1, Zenon
    <3> QED
      BY <2>0, <3>2
  <2>3. a[1] = b[1] /\ a[2] = b[2]
    BY <2>1
  <2>4. /\ {f[0], f[1], f[2], f[3], f[4], g[0], g[1], g[2], g[3], g[4]} \subseteq Int
        /\ {a[1], a[2], a[3], a[4], b[1], b[2], b[3], b[4]} \subseteq Int
    BY <1>1, <1>4, <2>1
  <2> HIDE DEF len
  <2> QED
    BY <1>4, <2>2, <2>3, <2>4
<1> DEFINE X == {n \in 0 .. len : n >= 4 => g[n] = f[n] + c}
<1>6. 0 \in X
  BY <1>1
<1>7. ASSUME NEW n \in 0 .. len - 1, n \in X PROVE n + 1 \in X
  <2>1. /\ n + 1 \in 1 .. len /\ n + 1 \in 0 .. len /\ (n + 1) - 1 = n
        /\ n \in Int /\ n >= 0 /\ n \in 0 .. len
    BY <1>1
  <2>2. f[n + 1] = f[n] + a[n + 1] /\ g[n + 1] = g[n] + b[n + 1]
    BY <1>4, <2>1
  <2>3. f[n] \in Int /\ g[n] \in Int /\ a[n + 1] \in Int /\ b[n + 1] \in Int
    BY <1>1, <1>4, <2>1
  <2>4. CASE n < 3
    BY <2>1, <2>4
  <2>5. CASE n = 3
    <3>1. g[4] = f[4] + c
      <4>1. 3 \in 1 .. len /\ 4 \in 1 .. len /\ 2 \in 0 .. len
        BY <1>1
      <4>2. /\ f[2] \in Int /\ a[3] \in Int /\ a[4] \in Int /\ b[3] \in Int /\ b[4] \in Int
            /\ b[3] + b[4] = a[3] + a[4] + c
        BY <1>1, <1>4, <4>1
      <4>3. \A x, y, z, u, v \in Int :
              u + v = y + z + c => x + u + v = (x + y + z) + c
        OBVIOUS
      <4>4. PICK x \in Int, y \in Int, z \in Int, u \in Int, v \in Int :
              x = f[2] /\ y = a[3] /\ z = a[4] /\ u = b[3] /\ v = b[4]
        BY <4>2, Zenon
      <4>5. u + v = y + z + c
        BY <4>2, <4>4, Zenon
      <4>6. x + u + v = (x + y + z) + c
        BY <4>3, <4>5
      <4>7. g[4] = x + u + v /\ f[4] = x + y + z
        BY <1>5, <4>4, Zenon
      <4> QED
        BY <4>6, <4>7, Zenon
    <3>2. n + 1 = 4
      BY <2>5
    <3> QED
      BY <2>1, <3>1, <3>2
  <2>6. CASE n >= 4
    <3>1. g[n] = f[n] + c
      BY <1>7, <2>6
    <3>2. b[n + 1] = a[n + 1]
      BY <2>1, <2>6
    <3>3. g[n + 1] = f[n + 1] + c
      <4>1. \A x, y \in Int : (x + c) + y = (x + y) + c
        OBVIOUS
      <4>2. g[n + 1] = (f[n] + c) + a[n + 1]
        BY <2>2, <3>1, <3>2
      <4> QED
        BY <2>2, <2>3, <4>1, <4>2
    <3> QED
      BY <2>1, <3>3
  <2> QED
    BY <2>1, <2>4, <2>5, <2>6
<1>8. \A n \in 0 .. len : n \in X
  <2>1. \A n \in 0 .. len - 1 : n \in X => n + 1 \in X
    BY <1>7
  <2> HIDE DEF X, len
  <2> QED
    BY <1>1, <1>6, <2>1, UpTo, Zenon
<1>9. g[len] = f[len] + c
  BY <1>1, <1>8
<1> QED
  BY <1>2, <1>3, <1>9

\* A total of terms that are not negative is at least the first of them, and at most
\* the number of terms times their largest.
LEMMA TotalBounded ==
  ASSUME NEW a \in Seq(Int), NEW most \in Nat, Len(a) >= 1,
         \A i \in 1 .. Len(a) : 0 <= a[i] /\ a[i] <= most
  PROVE  Total(a) \in Nat /\ a[1] <= Total(a) /\ Total(a) <= most * Len(a)
<1> DEFINE len == Len(a)
<1>1. len \in Nat /\ len >= 1 /\ \A n \in 1 .. len : a[n] \in Int
  BY LenProperties, ElementOfSeq
<1>2. PICK f : IsSum(f, a) /\ Total(a) = f[len]
  BY TotalIs, Zenon
<1>3. /\ f[0] = 0 /\ \A n \in 1 .. len : f[n] = f[n - 1] + a[n]
      /\ \A n \in 0 .. len : f[n] \in Int
  BY <1>2 DEF IsSum
<1> DEFINE X == {n \in 0 .. len : 0 <= f[n] /\ f[n] <= most * n /\ (n >= 1 => a[1] <= f[n])}
<1>4. 0 \in X
  <2>1. most * 0 = 0
    OBVIOUS
  <2> QED
    BY <1>1, <1>3, <2>1
<1>5. ASSUME NEW n \in 0 .. len - 1, n \in X PROVE n + 1 \in X
  <2>1. /\ n + 1 \in 1 .. len /\ n + 1 \in 0 .. len /\ (n + 1) - 1 = n
        /\ n \in Int /\ n >= 0 /\ n \in 0 .. len
    BY <1>1
  <2>2. f[n + 1] = f[n] + a[n + 1]
    BY <1>3, <2>1
  <2>3. f[n] \in Int /\ a[n + 1] \in Int /\ 0 <= a[n + 1] /\ a[n + 1] <= most
    BY <1>1, <1>3, <2>1
  <2>4. 0 <= f[n] /\ f[n] <= most * n /\ (n >= 1 => a[1] <= f[n])
    BY <1>5
  <2>5. a[1] \in Int
    BY <1>1
  <2>6. 0 <= f[n + 1] /\ f[n + 1] <= most * (n + 1)
    <3>1. \A x, y \in Int, k \in Nat : x <= most * k /\ y <= most => x + y <= most * (k + 1)
      BY Z3
    <3>2. n \in Nat
      BY <2>1
    <3>3. \A x, y \in Int : 0 <= x /\ 0 <= y => 0 <= x + y
      OBVIOUS
    <3>4. f[n + 1] <= most * (n + 1)
      BY <2>2, <2>3, <2>4, <3>1, <3>2, Zenon
    <3>5. 0 <= f[n + 1]
      BY <2>2, <2>3, <2>4, <3>3, Zenon
    <3> QED
      BY <3>4, <3>5
  <2>7. a[1] <= f[n + 1]
    <3>1. CASE n = 0
      BY <1>3, <2>2, <2>5, <3>1
    <3>2. CASE n >= 1
      BY <2>2, <2>3, <2>4, <2>5, <3>2
    <3> QED
      BY <2>1, <3>1, <3>2
  <2> QED
    BY <2>1, <2>6, <2>7
<1>6. \A n \in 0 .. len : n \in X
  <2>1. \A n \in 0 .. len - 1 : n \in X => n + 1 \in X
    BY <1>5
  <2>2. len \in Nat
    BY <1>1
  <2> HIDE DEF X, len
  <2> QED
    BY <1>4, <2>1, <2>2, UpTo, Zenon
<1>7. len \in 0 .. len /\ f[len] \in Int /\ 0 <= f[len] /\ f[len] <= most * len /\ a[1] <= f[len]
  BY <1>1, <1>3, <1>6
<1> QED
  BY <1>2, <1>7

\* The total of the sums of multiples of two sequences.
LEMMA TotalCombines ==
  ASSUME NEW k \in Int, NEW m \in Int, NEW a \in Seq(Int), NEW b \in Seq(Int), NEW c \in Seq(Int),
         Len(b) = Len(a), Len(c) = Len(a), \A i \in 1 .. Len(a) : c[i] = k * a[i] + m * b[i]
  PROVE  Total(c) = k * Total(a) + m * Total(b)
<1> DEFINE len == Len(a)
<1>1. /\ len \in Nat /\ len = Len(b) /\ len = Len(c)
      /\ \A n \in 1 .. len : a[n] \in Int /\ b[n] \in Int /\ c[n] = k * a[n] + m * b[n]
  BY LenProperties, ElementOfSeq
<1>2. PICK f : IsSum(f, a) /\ Total(a) = f[Len(a)]
  BY TotalIs, Zenon
<1>3. PICK g : IsSum(g, b) /\ Total(b) = g[Len(b)]
  BY TotalIs, Zenon
<1>4. PICK h : IsSum(h, c) /\ Total(c) = h[Len(c)]
  BY TotalIs, Zenon
<1>5. /\ f[0] = 0 /\ \A n \in 1 .. len : f[n] = f[n - 1] + a[n]
      /\ g[0] = 0 /\ \A n \in 1 .. len : g[n] = g[n - 1] + b[n]
      /\ h[0] = 0 /\ \A n \in 1 .. len : h[n] = h[n - 1] + c[n]
      /\ \A n \in 0 .. len : f[n] \in Int /\ g[n] \in Int
  BY <1>2, <1>3, <1>4 DEF IsSum
<1> DEFINE X == {n \in 0 .. len : h[n] = k * f[n] + m * g[n]}
<1>6. 0 \in X
  <2>1. k * 0 + m * 0 = 0
    OBVIOUS
  <2> QED
    BY <1>1, <1>5, <2>1
<1>7. ASSUME NEW n \in 0 .. len - 1, n \in X PROVE n + 1 \in X
  <2>1. n + 1 \in 1 .. len /\ n + 1 \in 0 .. len /\ (n + 1) - 1 = n /\ n \in 0 .. len
    BY <1>1
  <2>2. /\ f[n + 1] = f[n] + a[n + 1] /\ g[n + 1] = g[n] + b[n + 1]
        /\ h[n + 1] = (k * f[n] + m * g[n]) + (k * a[n + 1] + m * b[n + 1])
    BY <1>1, <1>5, <1>7, <2>1
  <2>3. f[n] \in Int /\ g[n] \in Int /\ a[n + 1] \in Int /\ b[n + 1] \in Int
    BY <1>1, <1>5, <2>1
  <2>4. PICK x \in Int, y \in Int, z \in Int, u \in Int :
          x = f[n] /\ y = g[n] /\ z = a[n + 1] /\ u = b[n + 1]
    BY <2>3, Zenon
  <2>5. (k * x + m * y) + (k * z + m * u) = k * (x + z) + m * (y + u)
    BY Z3
  <2>6. h[n + 1] = k * f[n + 1] + m * g[n + 1]
    BY <2>2, <2>4, <2>5, Zenon
  <2> QED
    BY <2>1, <2>6
<1>8. \A n \in 0 .. len : n \in X
  <2>1. \A n \in 0 .. len - 1 : n \in X => n + 1 \in X
    BY <1>7
  <2>2. len \in Nat
    BY <1>1
  <2> HIDE DEF X, len
  <2> QED
    BY <1>6, <2>1, <2>2, UpTo, Zenon
<1>9. h[len] = k * f[len] + m * g[len] /\ len = Len(b) /\ len = Len(c)
  BY <1>1, <1>8
<1> QED
  BY <1>2, <1>3, <1>4, <1>9, Zenon

-------------------------------------------------------------------------------
(* Packets.                                                                 *)

Byte == {x \in Nat : x <= 255}
Word == {x \in Nat : x <= 65535}

\* The modulus of ones' complement addition.
Ones == 65535

\* The two bytes of a word, and the word of the two bytes.
LEMMA BytesOfWord ==
  ASSUME NEW w \in Word
  PROVE  /\ NeBytes(w) \in Seq(Byte) /\ Len(NeBytes(w)) = 2
         /\ NeBytes(w)[1] \in Byte /\ NeBytes(w)[2] \in Byte
         /\ NeBytes(w)[1] + 256 * NeBytes(w)[2] = w
<1>1. w % 256 \in Nat /\ w % 256 <= 255 /\ w \div 256 \in Int
  BY Z3 DEF Word
<1>2. (w % 256) + 256 * (w \div 256) = w
  BY Z3 DEF Word
<1>3. \A x, y \in Int : 0 <= x /\ x <= 255 /\ 0 <= x + 256 * y /\ x + 256 * y <= 65535
                       => 0 <= y /\ y <= 255
  OBVIOUS
<1> DEFINE low == w % 256
           high == w \div 256
<1>4. low + 256 * high = w /\ NeBytes(w) = <<low, high>>
  BY <1>2 DEF NeBytes
<1> HIDE DEF low, high
<1>6. low \in Byte /\ high \in Byte
  <2>1. low \in Nat /\ low <= 255 /\ high \in Int
    BY <1>1 DEF low, high
  <2>2. w \in Int /\ 0 <= w /\ w <= 65535
    BY DEF Word
  <2>3. 0 <= high /\ high <= 255
    BY <1>3, <1>4, <2>1, <2>2
  <2> QED
    BY <2>1, <2>3 DEF Byte
<1>5. <<low, high>> \in Seq(Byte) /\ Len(<<low, high>>) = 2
  BY <1>6
<1> QED
  BY <1>4, <1>5, <1>6

\* Zeros are bytes.
LEMMA ZerosAre ==
  ASSUME NEW n \in Nat
  PROVE  Zeros(n) \in Seq(Byte) /\ Len(Zeros(n)) = n /\ \A i \in 1 .. n : Zeros(n)[i] = 0
  BY DEF Zeros, Byte

\* The elements of two sequences of bytes joined.
LEMMA Joined ==
  ASSUME NEW a \in Seq(Byte), NEW b \in Seq(Byte)
  PROVE  /\ a \o b \in Seq(Byte) /\ Len(a \o b) = Len(a) + Len(b)
         /\ \A i \in 1 .. Len(a) : (a \o b)[i] = a[i]
         /\ \A i \in 1 .. Len(b) : (a \o b)[Len(a) + i] = b[i]
<1>1. /\ a \o b \in Seq(Byte) /\ Len(a \o b) = Len(a) + Len(b)
      /\ \A i \in 1 .. Len(a) + Len(b) : (a \o b)[i] = IF i <= Len(a) THEN a[i] ELSE b[i - Len(a)]
  BY ConcatProperties, Zenon
<1>2. Len(a) \in Nat /\ Len(b) \in Nat
  BY LenProperties
<1> QED
  BY <1>1, <1>2

\* A packet with its checksum field given, as BuildEcho puts it together.
Packet(csum, id, seq, ts, pad) ==
  <<ICMP_ECHO, 0>> \o NeBytes(csum) \o NeBytes(id) \o NeBytes(seq) \o ts \o Zeros(pad)

Padding(minsz, ts) ==
  IF minsz > ICMP_HDR_LEN + Len(ts) THEN minsz - (ICMP_HDR_LEN + Len(ts)) ELSE 0

\* Where the fields of a packet are.
HasFields(p, csum, id, seq, ts, pad) ==
  /\ p \in Seq(Byte) /\ Len(p) = 8 + Len(ts) + pad
  /\ p[1] = 8 /\ p[2] = 0
  /\ p[3] = NeBytes(csum)[1] /\ p[4] = NeBytes(csum)[2]
  /\ p[5] = NeBytes(id)[1] /\ p[6] = NeBytes(id)[2]
  /\ p[7] = NeBytes(seq)[1] /\ p[8] = NeBytes(seq)[2]
  /\ \A i \in 9 .. Len(p) : p[i] = (ts \o Zeros(pad))[i - 8]

LEMMA PacketFields ==
  ASSUME NEW csum \in Word, NEW id \in Word, NEW seq \in Word, NEW ts \in Seq(Byte),
         NEW pad \in Nat
  PROVE  HasFields(Packet(csum, id, seq, ts, pad), csum, id, seq, ts, pad)
<1> DEFINE first == <<ICMP_ECHO, 0>>
           two == first \o NeBytes(csum)
           three == two \o NeBytes(id)
           head == three \o NeBytes(seq)
           timed == head \o ts
           p == timed \o Zeros(pad)
           tail == ts \o Zeros(pad)
<1>1. first \in Seq(Byte) /\ Len(first) = 2 /\ first[1] = 8 /\ first[2] = 0
  BY DEF ICMP_ECHO, Byte
<1>3. /\ NeBytes(csum) \in Seq(Byte) /\ NeBytes(id) \in Seq(Byte) /\ NeBytes(seq) \in Seq(Byte)
      /\ Len(NeBytes(csum)) = 2 /\ Len(NeBytes(id)) = 2 /\ Len(NeBytes(seq)) = 2
      /\ Zeros(pad) \in Seq(Byte) /\ Len(Zeros(pad)) = pad /\ Len(ts) \in Nat
  BY BytesOfWord, ZerosAre, LenProperties
<1> HIDE DEF first
<1>4. /\ two \in Seq(Byte) /\ Len(two) = 4 /\ two[1] = 8 /\ two[2] = 0
      /\ two[3] = NeBytes(csum)[1] /\ two[4] = NeBytes(csum)[2]
  <2>1. /\ two \in Seq(Byte) /\ Len(two) = Len(first) + Len(NeBytes(csum))
        /\ \A i \in 1 .. Len(first) : two[i] = first[i]
        /\ \A i \in 1 .. Len(NeBytes(csum)) : two[Len(first) + i] = NeBytes(csum)[i]
    BY <1>1, <1>3, Joined, Zenon
  <2> HIDE DEF two
  <2> QED
    BY <1>1, <1>3, <2>1
<1> HIDE DEF two
<1>5. /\ three \in Seq(Byte) /\ Len(three) = 6
      /\ \A i \in 1 .. 4 : three[i] = two[i]
      /\ three[5] = NeBytes(id)[1] /\ three[6] = NeBytes(id)[2]
  <2>1. /\ three \in Seq(Byte) /\ Len(three) = Len(two) + Len(NeBytes(id))
        /\ \A i \in 1 .. Len(two) : three[i] = two[i]
        /\ \A i \in 1 .. Len(NeBytes(id)) : three[Len(two) + i] = NeBytes(id)[i]
    BY <1>3, <1>4, Joined, Zenon
  <2> HIDE DEF three
  <2> QED
    BY <1>3, <1>4, <2>1
<1> HIDE DEF three
<1>6. /\ head \in Seq(Byte) /\ Len(head) = 8
      /\ \A i \in 1 .. 6 : head[i] = three[i]
      /\ head[7] = NeBytes(seq)[1] /\ head[8] = NeBytes(seq)[2]
  <2>1. /\ head \in Seq(Byte) /\ Len(head) = Len(three) + Len(NeBytes(seq))
        /\ \A i \in 1 .. Len(three) : head[i] = three[i]
        /\ \A i \in 1 .. Len(NeBytes(seq)) : head[Len(three) + i] = NeBytes(seq)[i]
    BY <1>3, <1>5, Joined, Zenon
  <2> HIDE DEF head
  <2> QED
    BY <1>3, <1>5, <2>1
<1> HIDE DEF head
<1>7. p = head \o tail
  <2>1. head \in Seq(Byte) /\ ts \in Seq(Byte) /\ Zeros(pad) \in Seq(Byte)
    BY <1>3, <1>6
  <2>2. \A a, b, c \in Seq(Byte) : (a \o b) \o c = a \o (b \o c)
    <3> TAKE a, b, c \in Seq(Byte)
    <3> QED
      BY ConcatAssociative
  <2> DEFINE z == Zeros(pad)
  <2> HIDE DEF z
  <2>3. z \in Seq(Byte)
    BY <2>1 DEF z
  <2>4. (head \o ts) \o z = head \o (ts \o z)
    BY <2>1, <2>2, <2>3
  <2> QED
    BY <2>4 DEF z
<1>8. tail \in Seq(Byte) /\ Len(tail) = Len(ts) + Len(Zeros(pad)) /\ Len(Zeros(pad)) = pad
  BY <1>3, Joined, Zenon
<1>9. p = Packet(csum, id, seq, ts, pad)
  BY DEF Packet, first, two, three, head
<1> HIDE DEF p, tail
<1>10. /\ p \in Seq(Byte) /\ Len(p) = 8 + (Len(ts) + pad)
       /\ \A i \in 1 .. 8 : p[i] = head[i]
       /\ \A i \in 1 .. Len(tail) : p[8 + i] = tail[i]
  <2>1. /\ p \in Seq(Byte) /\ Len(p) = Len(head) + Len(tail)
        /\ \A i \in 1 .. Len(head) : p[i] = head[i]
        /\ \A i \in 1 .. Len(tail) : p[Len(head) + i] = tail[i]
    <3>1. head \in Seq(Byte) /\ tail \in Seq(Byte)
      BY <1>6, <1>8
    <3> QED
      BY <1>7, <3>1, Joined, Zenon
  <2> QED
    BY <1>3, <1>6, <1>8, <2>1
<1>11. \A i \in 9 .. Len(p) : p[i] = tail[i - 8]
  <2>1. ASSUME NEW i \in 9 .. Len(p) PROVE i - 8 \in 1 .. Len(tail) /\ 8 + (i - 8) = i
    BY <1>3, <1>8, <1>10
  <2> QED
    BY <1>10, <2>1
<1>12. /\ p[1] = 8 /\ p[2] = 0
       /\ p[3] = NeBytes(csum)[1] /\ p[4] = NeBytes(csum)[2]
       /\ p[5] = NeBytes(id)[1] /\ p[6] = NeBytes(id)[2]
       /\ p[7] = NeBytes(seq)[1] /\ p[8] = NeBytes(seq)[2]
  BY <1>4, <1>5, <1>6, <1>10
<1>13. Len(p) = 8 + Len(ts) + pad
  BY <1>3, <1>10
<1> QED
  BY <1>9, <1>10, <1>11, <1>12, <1>13 DEF tail, HasFields

\* A request is a packet with the complement of the sum of the rest in it.
Checked(id, seq, ts, pad) == Packet(checksum(Packet(0, id, seq, ts, pad)), id, seq, ts, pad)

LEMMA RequestIs ==
  ASSUME NEW id, NEW seq, NEW minsz, NEW ts
  PROVE  BuildEcho(id, seq, minsz, ts) = Checked(id, seq, ts, Padding(minsz, ts))
BY DEF BuildEcho, Checked, Packet, Padding

\* A checksum is a word.
LEMMA ChecksumIsWord ==
  ASSUME NEW data, WordSum(data) \in Nat
  PROVE  checksum(data) \in Word /\ checksum(data) = 65535 - Folded(WordSum(data))
<1> DEFINE sum == WordSum(data)
<1>1. ASSUME NEW n \in Nat PROVE Folded(n) \in Nat /\ Folded(n) < 65536
  <2> DEFINE once == (n \div 65536) + (n % 65536)
             twice == once + (once \div 65536)
  <2>1. once \in Nat
    BY HighAndLow
  <2> HIDE DEF once
  <2>2. twice \in Nat
    BY <2>1, HighAndLow
  <2>3. Folded(n) = twice % 65536
    BY DEF Folded, once
  <2> HIDE DEF twice
  <2>4. twice % 65536 \in Nat /\ twice % 65536 < 65536
    BY <2>2, HighAndLow
  <2> QED
    BY <2>3, <2>4
<1>2. Folded(sum) \in Nat /\ Folded(sum) < 65536
  BY <1>1
<1>3. checksum(data) = 65535 - Folded(sum)
  BY DEF checksum
<1> HIDE DEF sum
<1> QED
  BY <1>2, <1>3 DEF Word, sum

-------------------------------------------------------------------------------
(* The sum of a request.                                                    *)

\* The words of a sequence of bytes, for each order of the two bytes.
LowFirst(data) == [i \in 1 .. Len(data) |-> IF i % 2 = 1 THEN data[i] ELSE 256 * data[i]]
HighFirst(data) == [i \in 1 .. Len(data) |-> IF i % 2 = 1 THEN 256 * data[i] ELSE data[i]]

\* Bytes are numbers up to 255.
LEMMA BytesAre ==
  ASSUME NEW data \in Seq(Byte)
  PROVE  Len(data) \in Nat /\ \A i \in 1 .. Len(data) : data[i] \in Int /\ 0 <= data[i] /\ data[i] <= 255
<1>1. \A i \in 1 .. Len(data) : data[i] \in Byte
  BY ElementOfSeq, Zenon
<1>2. \A x \in Byte : x \in Int /\ 0 <= x /\ x <= 255
  BY DEF Byte
<1>3. Len(data) \in Nat
  BY LenProperties, Zenon
<1> QED
  BY <1>1, <1>2, <1>3, Zenon

\* What the two orders give: the first byte is part of the sum, and no term is larger
\* than 65280.
Summed(data) ==
  /\ LowFirst(data) \in Seq(Int) /\ HighFirst(data) \in Seq(Int)
  /\ Len(LowFirst(data)) = Len(data) /\ Len(HighFirst(data)) = Len(data)
  /\ Total(LowFirst(data)) \in Nat /\ Total(HighFirst(data)) \in Nat
  /\ data[1] <= Total(LowFirst(data)) /\ 256 * data[1] <= Total(HighFirst(data))
  /\ Total(LowFirst(data)) <= 65280 * Len(data)

LEMMA SumsOfBytes ==
  ASSUME NEW data \in Seq(Byte), Len(data) >= 1
  PROVE  Summed(data)
<1> DEFINE len == Len(data)
           low == LowFirst(data)
           high == HighFirst(data)
           most == 65280
<1>1. len \in Nat /\ len >= 1 /\ \A i \in 1 .. len : data[i] \in Int /\ 0 <= data[i] /\ data[i] <= 255
  BY BytesAre
<1>2. \A i \in 1 .. len : (IF i % 2 = 1 THEN data[i] ELSE 256 * data[i]) \in Int
  BY <1>1
<1>3. \A i \in 1 .. len : (IF i % 2 = 1 THEN 256 * data[i] ELSE data[i]) \in Int
  BY <1>1
<1>4. low \in Seq(Int) /\ Len(low) = len
  BY <1>1, <1>2 DEF LowFirst
<1>5. high \in Seq(Int) /\ Len(high) = len
  BY <1>1, <1>3 DEF HighFirst
<1>6. \A i \in 1 .. len : 0 <= low[i] /\ low[i] <= most
  BY <1>1 DEF LowFirst
<1>7. \A i \in 1 .. len : 0 <= high[i] /\ high[i] <= most
  BY <1>1 DEF HighFirst
<1>8. low[1] = data[1] /\ high[1] = 256 * data[1]
  <2>1. 1 \in 1 .. len /\ 1 % 2 = 1
    BY <1>1
  <2> QED
    BY <2>1 DEF LowFirst, HighFirst
<1>9. most \in Nat
  BY SMT
<1> HIDE DEF most, low, high
<1>10. Len(low) >= 1 /\ Len(high) >= 1
  BY <1>1, <1>4, <1>5
<1>11. /\ \A i \in 1 .. Len(low) : 0 <= low[i] /\ low[i] <= most
       /\ \A i \in 1 .. Len(high) : 0 <= high[i] /\ high[i] <= most
  BY <1>4, <1>5, <1>6, <1>7, Zenon
<1>12. Total(low) \in Nat /\ low[1] <= Total(low) /\ Total(low) <= most * Len(low)
  BY <1>4, <1>9, <1>10, <1>11, TotalBounded, Zenon
<1>13. Total(high) \in Nat /\ high[1] <= Total(high)
  BY <1>5, <1>9, <1>10, <1>11, TotalBounded, Zenon
<1> QED
  BY <1>4, <1>5, <1>8, <1>12, <1>13 DEF most, low, high, Summed

\* Reading the words the other way round multiplies the sum by 256, up to a multiple
\* of 65535: 256 * 256 is one more than that.
LEMMA OtherOrder ==
  ASSUME NEW data \in Seq(Byte), Len(data) >= 1
  PROVE  \E y \in Int : Total(HighFirst(data)) = 256 * Total(LowFirst(data)) + (-Ones) * y
<1> DEFINE len == Len(data)
           low == LowFirst(data)
           high == HighFirst(data)
           even == [i \in 1 .. len |-> IF i % 2 = 1 THEN 0 ELSE data[i]]
           k == 256
           m == -Ones
<1>1. len \in Nat /\ \A i \in 1 .. len : data[i] \in Int
  BY BytesAre
<1>2. low \in Seq(Int) /\ high \in Seq(Int) /\ Len(low) = len /\ Len(high) = len
  BY SumsOfBytes DEF Summed
<1>3. \A i \in 1 .. len : (IF i % 2 = 1 THEN 0 ELSE data[i]) \in Int
  BY <1>1
<1>4. even \in Seq(Int) /\ Len(even) = len
  BY <1>1, <1>3
<1>5. \A i \in 1 .. len : high[i] = k * low[i] + m * even[i]
  <2> TAKE i \in 1 .. len
  <2>1. /\ low[i] = IF i % 2 = 1 THEN data[i] ELSE 256 * data[i]
        /\ high[i] = IF i % 2 = 1 THEN 256 * data[i] ELSE data[i]
        /\ even[i] = IF i % 2 = 1 THEN 0 ELSE data[i]
    BY DEF LowFirst, HighFirst
  <2>2. data[i] \in Int
    BY <1>1
  <2> HIDE DEF low, high, even
  <2> QED
    BY <2>1, <2>2 DEF Ones
<1>6. k \in Int /\ m \in Int
  BY DEF Ones
<1> HIDE DEF low, high, even, k, m
<1>7. Len(even) = Len(low) /\ Len(high) = Len(low) /\ \A i \in 1 .. Len(low) : high[i] = k * low[i] + m * even[i]
  BY <1>2, <1>4, <1>5, Zenon
<1>8. Total(high) = k * Total(low) + m * Total(even)
  BY <1>2, <1>4, <1>6, <1>7, TotalCombines
<1>9. Total(even) \in Int
  <2>1. PICK f : IsSum(f, even) /\ Total(even) = f[Len(even)]
    BY <1>4, TotalIs, Zenon
  <2>2. Len(even) \in 0 .. Len(even)
    BY <1>1, <1>4
  <2> QED
    BY <2>1, <2>2 DEF IsSum
<1> QED
  BY <1>8, <1>9 DEF low, high, k, m

\* So the sums of the two orders are multiples of 65535 together.
LEMMA EitherOrder ==
  ASSUME NEW data \in Seq(Byte), Len(data) >= 1, Total(LowFirst(data)) % Ones = 0
  PROVE  Total(HighFirst(data)) % Ones = 0
<1> DEFINE low == Total(LowFirst(data))
           high == Total(HighFirst(data))
<1>1. PICK y \in Int : high = 256 * low + (-Ones) * y
  BY OtherOrder, Zenon
<1>2. low \in Int /\ low % Ones = 0
  BY SumsOfBytes DEF Summed
<1> HIDE DEF low, high
<1>3. \A x, z \in Int : x % 65535 = 0 => (256 * x + (-65535) * z) % 65535 = 0
  BY Z3
<1>4. high % Ones = 0
  BY <1>1, <1>2, <1>3 DEF Ones
<1> QED
  BY <1>4 DEF high

\* A packet is as long as the one without a checksum and has the same bytes, but for
\* the checksum itself.
Completes(p, bare, csum) ==
  /\ p \in Seq(Byte) /\ bare \in Seq(Byte) /\ Len(p) = Len(bare)
  /\ p[1] = 8 /\ bare[1] = 8
  /\ p[3] + 256 * p[4] = csum /\ bare[3] + 256 * bare[4] = 0
  /\ \A i \in 1 .. Len(p) : i \notin {3, 4} => p[i] = bare[i]

LEMMA PacketCompletes ==
  ASSUME NEW csum \in Word, NEW id \in Word, NEW seq \in Word, NEW ts \in Seq(Byte),
         NEW pad \in Nat
  PROVE  Completes(Packet(csum, id, seq, ts, pad), Packet(0, id, seq, ts, pad), csum)
<1> DEFINE p == Packet(csum, id, seq, ts, pad)
           bare == Packet(0, id, seq, ts, pad)
           rest == ts \o Zeros(pad)
<1>1. 0 \in Word
  BY DEF Word
<1>2. /\ p \in Seq(Byte) /\ Len(p) = 8 + Len(ts) + pad
      /\ p[1] = 8 /\ p[2] = 0
      /\ p[3] = NeBytes(csum)[1] /\ p[4] = NeBytes(csum)[2]
      /\ p[5] = NeBytes(id)[1] /\ p[6] = NeBytes(id)[2]
      /\ p[7] = NeBytes(seq)[1] /\ p[8] = NeBytes(seq)[2]
      /\ \A i \in 9 .. Len(p) : p[i] = rest[i - 8]
  <2>1. HasFields(p, csum, id, seq, ts, pad)
    BY PacketFields, Zenon
  <2> HIDE DEF p
  <2> QED
    BY <2>1, Zenon DEF HasFields
<1>3. /\ bare \in Seq(Byte) /\ Len(bare) = 8 + Len(ts) + pad
      /\ bare[1] = 8 /\ bare[2] = 0
      /\ bare[3] = NeBytes(0)[1] /\ bare[4] = NeBytes(0)[2]
      /\ bare[5] = NeBytes(id)[1] /\ bare[6] = NeBytes(id)[2]
      /\ bare[7] = NeBytes(seq)[1] /\ bare[8] = NeBytes(seq)[2]
      /\ \A i \in 9 .. Len(bare) : bare[i] = rest[i - 8]
  <2>1. HasFields(bare, 0, id, seq, ts, pad)
    BY <1>1, PacketFields, Zenon
  <2> HIDE DEF bare
  <2> QED
    BY <2>1, Zenon DEF HasFields
<1> HIDE DEF p, bare, rest
<1>4. p[3] + 256 * p[4] = csum /\ bare[3] + 256 * bare[4] = 0
  <2>1. /\ NeBytes(csum)[1] + 256 * NeBytes(csum)[2] = csum
        /\ NeBytes(0)[1] + 256 * NeBytes(0)[2] = 0
    BY <1>1, BytesOfWord, Zenon
  <2> QED
    BY <1>2, <1>3, <2>1, Zenon
<1>5. \A i \in 9 .. Len(p) : p[i] = bare[i]
  <2>1. Len(p) = Len(bare)
    BY <1>2, <1>3, Zenon
  <2> QED
    BY <1>2, <1>3, <2>1, Zenon
<1>6. \A i \in {1, 2, 5, 6, 7, 8} : p[i] = bare[i]
  BY <1>2, <1>3
<1>7. \A i \in 1 .. Len(p) : i \notin {3, 4} => i \in {1, 2, 5, 6, 7, 8} \/ i \in 9 .. Len(p)
  <2>1. Len(p) \in Nat
    BY <1>2, LenProperties, Zenon
  <2> QED
    BY <2>1
<1> QED
  BY <1>2, <1>3, <1>4, <1>5, <1>6, <1>7, Zenon DEF p, bare, Completes

\* Whatever its identifier, sequence number, time stamp and size, a request adds up to
\* zero in ones' complement, whichever byte of a word is the high one where it is added
\* up (build_echo, checksum).
THEOREM RequestsAddUp ==
  ASSUME NEW id \in Word, NEW seq \in Word, NEW ts \in Seq(Byte), NEW minsz \in Nat,
         ICMP_HDR_LEN + Len(ts) <= Ones, minsz <= Ones
  PROVE  LET request == BuildEcho(id, seq, minsz, ts)
         IN  /\ Total(LowFirst(request)) > 0 /\ Total(LowFirst(request)) % Ones = 0
             /\ Total(HighFirst(request)) > 0 /\ Total(HighFirst(request)) % Ones = 0
<1> DEFINE pad == Padding(minsz, ts)
           bare == Packet(0, id, seq, ts, pad)
           c == checksum(bare)
           p == Packet(c, id, seq, ts, pad)
           low == Total(LowFirst(bare))
<1>1. pad \in Nat /\ 8 + Len(ts) + pad \in Nat /\ 8 + Len(ts) + pad <= Ones
  <2> DEFINE len == Len(ts)
  <2>1. len \in Nat /\ Ones \in Nat
    BY LenProperties DEF Ones
  <2>2. pad = IF minsz > 8 + len THEN minsz - (8 + len) ELSE 0
    BY DEF Padding, ICMP_HDR_LEN
  <2>3. 8 + len <= Ones
    BY DEF ICMP_HDR_LEN
  <2> HIDE DEF len, pad
  <2>4. pad \in Nat /\ 8 + len + pad \in Nat /\ 8 + len + pad <= Ones
    BY <2>1, <2>2, <2>3
  <2> QED
    BY <2>4, Zenon DEF len
<1>2. BuildEcho(id, seq, minsz, ts) = p
  BY RequestIs, Zenon DEF Checked
<1>3. 0 \in Word
  BY DEF Word
<1> HIDE DEF pad
<1>4. bare \in Seq(Byte) /\ Len(bare) = 8 + Len(ts) + pad /\ bare[1] = 8
  <2>1. HasFields(bare, 0, id, seq, ts, pad)
    BY <1>1, <1>3, PacketFields, Zenon
  <2> HIDE DEF bare
  <2> QED
    BY <2>1, Zenon DEF HasFields
<1>5. WordSum(bare) = low
  BY DEF WordSum, LowFirst
<1> HIDE DEF bare
<1>6. Len(bare) \in Nat /\ Len(bare) >= 1 /\ Len(bare) <= Ones
  <2>1. Len(ts) \in Nat
    BY LenProperties, Zenon
  <2> QED
    BY <1>1, <1>4, <2>1
<1>7. low \in Nat /\ 8 <= low /\ low <= 65280 * Len(bare)
  <2>1. low \in Nat /\ bare[1] <= low /\ low <= 65280 * Len(bare)
    <3>1. Summed(bare)
      BY <1>4, <1>6, SumsOfBytes, Zenon
    <3> QED
      BY <3>1 DEF Summed
  <2> QED
    BY <1>4, <2>1
<1>8. low <= 65535 * 65535
  <2> HIDE DEF low
  <2> DEFINE len == Len(bare)
  <2>1. len \in Nat /\ len <= 65535 /\ low <= 65280 * len
    BY <1>6, <1>7 DEF Ones
  <2> HIDE DEF len
  <2> QED
    BY <1>7, <2>1
<1>9. c \in Word /\ c = 65535 - Folded(low)
  BY <1>5, <1>7, ChecksumIsWord
<1>10. (low + c) % 65535 = 0
  BY <1>7, <1>8, <1>9, ChecksumCloses
<1> HIDE DEF c
<1>11. /\ p \in Seq(Byte) /\ Len(p) = Len(bare)
       /\ p[1] = 8
       /\ p[3] + 256 * p[4] = c /\ bare[3] + 256 * bare[4] = 0
       /\ \A i \in 1 .. Len(p) : i \notin {3, 4} => p[i] = bare[i]
  <2>1. c \in Word /\ pad \in Nat
    BY <1>1, <1>9
  <2>2. Completes(p, bare, c)
    BY <2>1, PacketCompletes, Zenon DEF bare
  <2> HIDE DEF p
  <2> QED
    BY <2>2, Zenon DEF Completes
<1> HIDE DEF p
<1>12. Len(p) \in Nat /\ Len(p) >= 8
  <2>1. Len(ts) \in Nat
    BY LenProperties, Zenon
  <2> QED
    BY <1>1, <1>4, <1>11, <2>1
<1>13. /\ LowFirst(p) \in Seq(Int) /\ Len(LowFirst(p)) = Len(p)
       /\ Total(LowFirst(p)) \in Nat /\ p[1] <= Total(LowFirst(p))
       /\ Total(HighFirst(p)) \in Nat /\ 256 * p[1] <= Total(HighFirst(p))
  <2>1. Len(p) >= 1
    BY <1>12
  <2>2. Summed(p)
    BY <1>11, <2>1, SumsOfBytes, Zenon
  <2> QED
    BY <2>2 DEF Summed
<1>14. LowFirst(bare) \in Seq(Int) /\ Len(LowFirst(bare)) = Len(p)
  <2>1. Summed(bare)
    BY <1>4, <1>6, SumsOfBytes, Zenon
  <2> QED
    BY <1>11, <2>1 DEF Summed
<1>15. Total(LowFirst(p)) = low + c
  <2>1. \A i \in 1 .. Len(p) : i \notin {3, 4} => LowFirst(p)[i] = LowFirst(bare)[i]
    BY <1>11 DEF LowFirst
  <2>2. /\ LowFirst(p)[3] = p[3] /\ LowFirst(p)[4] = 256 * p[4]
        /\ LowFirst(bare)[3] = bare[3] /\ LowFirst(bare)[4] = 256 * bare[4]
    <3>1. 3 \in 1 .. Len(p) /\ 4 \in 1 .. Len(p) /\ 3 % 2 = 1 /\ 4 % 2 = 0
      BY <1>12
    <3> QED
      BY <1>11, <3>1 DEF LowFirst
  <2>3. c \in Int
    BY <1>9 DEF Word
  <2> DEFINE a == LowFirst(bare)
             b == LowFirst(p)
  <2>4. b[3] + b[4] = a[3] + a[4] + c
    BY <1>11, <2>2, <2>3
  <2> HIDE DEF a, b
  <2>5. Len(a) = Len(b) /\ Len(a) >= 4 /\ a \in Seq(Int) /\ b \in Seq(Int)
    BY <1>12, <1>13, <1>14 DEF a, b
  <2>6. \A i \in 1 .. Len(a) : i \notin {3, 4} => b[i] = a[i]
    BY <1>14, <2>1, Zenon DEF a, b
  <2>7. Total(b) = Total(a) + c
    BY <2>3, <2>4, <2>5, <2>6, TotalChanges, Zenon
  <2> QED
    BY <2>7, Zenon DEF a, b
<1>16. Total(LowFirst(p)) % Ones = 0
  BY <1>10, <1>15 DEF Ones
<1>17. Total(HighFirst(p)) % Ones = 0
  <2>1. Len(p) >= 1
    BY <1>12
  <2> QED
    BY <1>11, <1>16, <2>1, EitherOrder, Zenon
<1>18. Total(LowFirst(p)) > 0 /\ Total(HighFirst(p)) > 0
  BY <1>11, <1>13
<1> QED
  BY <1>2, <1>16, <1>17, <1>18, Zenon

===============================================================================
