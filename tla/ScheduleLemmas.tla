--------------------------- MODULE ScheduleLemmas ---------------------------
(***************************************************************************)
(* Facts about the arithmetic of Schedule for all loops, all teams and     *)
(* both directions: which iterations a loop has, that the shares of the    *)
(* threads do not overlap and cover it, and what the last iteration is.    *)
(***************************************************************************)
EXTENDS Schedule, TLAPS

(***************************************************************************)
(* Arithmetic                                                              *)
(***************************************************************************)
LEMMA TimesAtLeast ==
    ASSUME NEW k \in Int, NEW m \in Int, k >= 1, m >= 0
    PROVE  k * m >= m /\ k * m \in Int
<1> k * m - m = (k - 1) * m
  OBVIOUS
<1> (k - 1) * m >= 0
  OBVIOUS
<1> QED OBVIOUS

LEMMA DivMod ==
    ASSUME NEW a \in Int, NEW m \in Int, m > 0
    PROVE  /\ a = m * (a \div m) + (a % m)
           /\ a \div m \in Int
           /\ a % m \in 0 .. m - 1
OBVIOUS

LEMMA ModUnique ==
    ASSUME NEW q \in Int, NEW r \in Int, NEW m \in Int, 0 <= r, r < m
    PROVE  (m * q + r) % m = r
<1> DEFINE a == m * q + r
           d == a \div m
<1> m > 0 OBVIOUS
<1>0. a \in Int OBVIOUS
<1>1. a = m * d + (a % m) /\ d \in Int /\ a % m \in 0 .. m - 1
  BY <1>0, DivMod
<1> DEFINE e == a % m
<1> HIDE DEF a, d, e
<1>2. m * q + r = m * d + e /\ e \in 0 .. m-1
  BY <1>1 DEF a, e
<1>3. CASE d = q
  BY <1>2, <1>3 DEF e, a
<1>4. CASE d > q
  <2>1. (d - q) * m >= m
    BY <1>4, <1>1, TimesAtLeast
  <2>2. (d-q)*m = m * d - m * q
    BY <1>1
  <2> QED BY <2>1, <2>2, <1>2, <1>1
<1>5. CASE d < q
  <2>1. (q - d) * m >= m
    BY <1>5, <1>1, TimesAtLeast
  <2>2. (q-d)*m = m * q - m * d
    BY <1>1
  <2> QED BY <2>1, <2>2, <1>2, <1>1
<1> QED BY <1>3, <1>4, <1>5, <1>1

LEMMA ModShift ==
    ASSUME NEW a \in Int, NEW q \in Int, NEW m \in Int, m > 0
    PROVE  (a + m * q) % m = a % m
<1> DEFINE d == a \div m
           r == a % m
<1>1. a = m * d + r /\ d \in Int /\ r \in 0 .. m - 1
  BY DivMod
<1> HIDE DEF d, r
<1>2. a + m * q = m * (d + q) + r
  BY <1>1
<1>3. (m * (d + q) + r) % m = r
  <2> DEFINE e == d + q
  <2>1. e \in Int BY <1>1
  <2> HIDE DEF e
  <2>2. (m * e + r) % m = r BY <2>1, <1>1, ModUnique
  <2> QED BY <2>2 DEF e
<1> QED BY <1>2, <1>3 DEF r

LEMMA ModEqual ==
    ASSUME NEW a \in Int, NEW b \in Int, NEW m \in Int, m > 0, a % m = b % m, a < b
    PROVE  b - a >= m
<1>1. a = m * (a \div m) + (a % m) /\ (a \div m) \in Int /\ a % m \in 0 .. m-1
  BY DivMod
<1>2. b = m * (b \div m) + (b % m) /\ (b \div m) \in Int /\ b % m \in 0 .. m-1
  BY DivMod
<1> DEFINE p == a \div m
           q == b \div m
           r == a % m
<1>3. a = m * p + r /\ b = m * q + r /\ p \in Int /\ q \in Int /\ r \in Int
  BY <1>1, <1>2
<1> HIDE DEF p, q, r
<1>4. b - a = (q - p) * m
  BY <1>3
<1>5. q - p >= 1
  <2> SUFFICES ASSUME q <= p PROVE FALSE BY <1>3
  <2>1. (p - q) * m >= 0 BY <1>3
  <2>2. (p - q) * m = - ((q-p) * m) BY <1>3
  <2> QED BY <2>1, <2>2, <1>4
<1> QED BY <1>3, <1>4, <1>5, TimesAtLeast

LEMMA ModMod ==
    ASSUME NEW a \in Int, NEW m \in Int, NEW d \in Int, m > 0, d > 0
    PROVE  (a % (m * d)) % m = a % m
<1> DEFINE n == m * d
           q == a \div n
<1>1. n > 0 /\ n \in Int BY TimesAtLeast
<1> HIDE DEF n
<1>2. a = n * q + (a % n) /\ q \in Int /\ a % n \in Int
  BY <1>1, DivMod
<1> DEFINE r == a % n
<1> HIDE DEF q, r
<1>3. n * q = m * (d * q) /\ d * q \in Int
  BY <1>2 DEF n
<1> DEFINE e == d * q
<1>4. e \in Int /\ a = r + m * e /\ r \in Int BY <1>2, <1>3 DEF r
<1> HIDE DEF e
<1>5. a % m = r % m BY <1>4, ModShift
<1> QED BY <1>5 DEF r, n

LEMMA ProductType ==
    ASSUME NEW a \in Int, NEW b \in Int
    PROVE  a * b \in Int
OBVIOUS

\* Division with remainder of natural numbers.
LEMMA Quotient ==
    ASSUME NEW a \in Nat, NEW s \in Int, s >= 1
    PROVE  \E q \in Nat : q * s <= a /\ a <= q * s + s - 1
<1> DEFINE q == a \div s
           r == a % s
<1>1. a = s * q + r /\ q \in Int /\ r \in 0 .. s - 1
  BY DivMod
<1> HIDE DEF q, r
<1>2. q >= 0
  <2> SUFFICES ASSUME q <= -1 PROVE FALSE
    BY <1>1
  <2> DEFINE k == 0 - q
  <2>1. k \in Int /\ k >= 1 /\ s * q = 0 - k * s
    BY <1>1
  <2> HIDE DEF k
  <2>2. k * s >= s
    BY <2>1, TimesAtLeast
  <2> QED BY <2>1, <2>2, <1>1
<1>3. q * s = s * q /\ q * s \in Int
  BY <1>1
<1>4. q \in Nat /\ q * s <= a /\ a <= q * s + s - 1
  <2> DEFINE w == q * s
  <2>1. w \in Int /\ a = w + r
    BY <1>1, <1>3
  <2> HIDE DEF w
  <2>2. w <= a /\ a <= w + s - 1
    BY <2>1, <1>1
  <2> QED BY <1>1, <1>2, <2>2 DEF w
<1> QED BY <1>4

LEMMA QuotientBelow ==
    ASSUME NEW a \in Nat, NEW s \in Int, s >= 1, NEW q \in Nat, NEW n \in Nat,
           q * s <= a, a < n * s
    PROVE  q < n
<1> SUFFICES ASSUME q >= n PROVE FALSE
  OBVIOUS
<1>1. (q - n) * s >= 0
  OBVIOUS
<1>2. (q - n) * s = q * s - n * s /\ q * s \in Int /\ n * s \in Int
  OBVIOUS
<1> QED BY <1>1, <1>2
-----------------------------------------------------------------------------
(***************************************************************************)
(* Types                                                                   *)
(***************************************************************************)
\* The descriptor of a loop, as in the slots of LoopRing.
SlotRecord ==
    [loop_id : Int, looping_threads : Int, now_serving : Int, sched : Schedules,
     ordered : BOOLEAN, lower : Int, upper : Int, inc : Int \ {0}, chunk : Nat \ {0},
     current : Int, min_chunk : Nat \ {0}, number : Nat]

LEMMA DivisionType ==
    ASSUME NEW a \in Int, NEW b \in Int, b # 0
    PROVE  CDiv(a, b) \in Int
<1>1. Abs(a) \in Int /\ Abs(b) \in Int /\ Abs(b) > 0
  BY DEF Abs
<1>2. Abs(a) \div Abs(b) \in Int
  BY <1>1
<1> QED BY <1>2 DEF CDiv

LEMMA BoundType ==
    ASSUME NEW inc \in Int, NEW a \in Int, NEW b \in Int
    PROVE  /\ LoopMin(inc, a, b) \in Int
           /\ MaxOf(a, b) \in Int
           /\ MinOf(a, b) \in Int
BY DEF LoopMin, MaxOf, MinOf

\* A reply of __pmp_schedule_next names a range.
IsReply(reply) == reply.lower \in Int /\ reply.upper \in Int

LEMMA SizeType ==
    ASSUME NEW l \in SlotRecord
    PROVE  Size(l) \in Int
<1>1. l.inc \in Int /\ l.inc # 0 /\ l.upper - l.lower \in Int
  BY DEF SlotRecord
<1>2. CDiv(l.upper - l.lower, l.inc) \in Int
  BY <1>1, DivisionType
<1> QED BY <1>2 DEF Size

LEMMA BlockType ==
    ASSUME NEW l \in SlotRecord, NEW n \in Nat \ {0}, NEW t \in Nat
    PROVE  Block(l, n, t) \in [lower : Int, upper : Int]
<1> DEFINE c == CDiv(Size(l) - 1, n)
           w == (c + 1) * l.inc
           low == l.lower + t * w
<1>1. l.inc \in Int /\ l.lower \in Int /\ l.upper \in Int
  BY DEF SlotRecord
<1>2. c \in Int
  <2>1. Size(l) - 1 \in Int
    BY SizeType
  <2> QED BY <2>1, DivisionType
<1> HIDE DEF c
<1>3. w \in Int
  BY <1>1, <1>2
<1>4. Block(l, n, t) = [lower |-> low, upper |-> LoopMin(l.inc, low + w - l.inc, l.upper)]
  BY DEF Block, c
<1> HIDE DEF w
<1>5. low \in Int
  BY <1>1, <1>3
<1> HIDE DEF low
<1>6. low + w - l.inc \in Int
  BY <1>1, <1>3, <1>5
<1>7. LoopMin(l.inc, low + w - l.inc, l.upper) \in Int
  BY <1>1, <1>6, BoundType
<1> QED BY <1>4, <1>5, <1>7

LEMMA NextStaticType ==
    ASSUME NEW l \in SlotRecord, NEW n \in Nat \ {0}, NEW t \in Nat, NEW i \in Nat
    PROVE  IsReply(NextStatic(l, n, t, i))
<1> DEFINE block == Block(l, n, t)
           lower == block.lower + i * l.chunk * l.inc
           upper == lower + (l.chunk - 1) * l.inc
<1>1. l.inc \in Int /\ l.chunk \in Int
  BY DEF SlotRecord
<1>2. block.lower \in Int /\ block.upper \in Int
  BY BlockType
<1> HIDE DEF block
<1>3. lower \in Int
  BY <1>1, <1>2
<1> HIDE DEF lower
<1>4. upper \in Int
  BY <1>1, <1>3
<1> HIDE DEF upper
<1>5. LoopMin(l.inc, upper, block.upper) \in Int
  BY <1>1, <1>2, <1>3, <1>4, BoundType
<1>6. NextStatic(l, n, t, i) = Reply(Within(l.inc, lower, block.upper), lower,
                                     LoopMin(l.inc, upper, block.upper))
  BY DEF NextStatic, block, lower, upper
<1> QED BY <1>3, <1>5, <1>6 DEF Reply, IsReply

LEMMA FairShareType ==
    ASSUME NEW size \in Int, NEW n \in Nat \ {0}, NEW t \in Nat
    PROVE  FairShare(size, n, t) \in [index : Int, chunk : Int]
<1> DEFINE chunk == CDiv(size, n)
           remainder == size - chunk * n
<1>1. chunk \in Int
  BY DivisionType
<1> HIDE DEF chunk
<1>2. remainder \in Int
  BY <1>1
<1> HIDE DEF remainder
<1>3. MinOf(t, remainder) \in Int
  BY <1>2, BoundType
<1>4. MinOf(t, remainder) * (chunk + 1) \in Int
  BY <1>1, <1>3
<1>5. (t - remainder) * chunk \in Int
  BY <1>1, <1>2
<1>6. FairShare(size, n, t) =
        [index |-> MinOf(t, remainder) * (chunk + 1)
                     + (IF t > remainder THEN (t - remainder) * chunk ELSE 0),
         chunk |-> IF t < remainder THEN chunk + 1 ELSE chunk]
  BY DEF FairShare, chunk, remainder
<1> DEFINE x == MinOf(t, remainder) * (chunk + 1)
           y == (t - remainder) * chunk
<1> HIDE DEF x, y
<1>7. x + (IF t > remainder THEN y ELSE 0) \in Int
  BY <1>4, <1>5 DEF x, y
<1> QED BY <1>1, <1>6, <1>7 DEF x, y

LEMMA NextStaticEvenType ==
    ASSUME NEW l \in SlotRecord, NEW n \in Nat \ {0}, NEW t \in Nat, NEW i \in Nat,
           NEW fair \in BOOLEAN
    PROVE  IsReply(NextStaticEven(l, fair, n, t, i))
<1> DEFINE share == FairShare(Size(l), n, t)
           fairLower == l.lower + share.index * l.inc
           fairUpper == fairLower + (share.chunk - 1) * l.inc
           block == IF fair THEN [lower |-> fairLower,
                                  upper |-> LoopMin(l.inc, fairUpper, l.upper)]
                            ELSE Block(l, n, t)
<1>1. l.inc \in Int /\ l.lower \in Int /\ l.upper \in Int
  BY DEF SlotRecord
<1>2. share.index \in Int /\ share.chunk \in Int
  BY SizeType, FairShareType
<1> HIDE DEF share
<1>3. fairLower \in Int
  BY <1>1, <1>2
<1> HIDE DEF fairLower
<1>4. fairUpper \in Int
  BY <1>1, <1>2, <1>3
<1> HIDE DEF fairUpper
<1>5. LoopMin(l.inc, fairUpper, l.upper) \in Int
  BY <1>1, <1>4, BoundType
<1>6. block.lower \in Int /\ block.upper \in Int
  BY <1>3, <1>5, BlockType
<1>7. NextStaticEven(l, fair, n, t, i) =
        Reply(i = 0 /\ Within(l.inc, block.lower, block.upper), block.lower, block.upper)
  BY DEF NextStaticEven, share, fairLower, fairUpper
<1> HIDE DEF block
<1> QED BY <1>6, <1>7 DEF Reply, IsReply

LEMMA FinalType ==
    ASSUME NEW lower \in Int, NEW upper \in Int, NEW inc \in Int \ {0}
    PROVE  Final(lower, upper, inc) \in Int
<1> DEFINE d == CDiv(upper - lower, inc)
<1>1. d \in Int
  BY DivisionType
<1> HIDE DEF d
<1>2. lower + (d + 1) * inc \in Int
  BY <1>1
<1> DEFINE e == lower + (d + 1) * inc
<1> HIDE DEF e
<1>3. Final(lower, upper, inc) = IF Within(inc, lower, upper) THEN e ELSE lower
  BY DEF Final, d, e
<1> QED BY <1>2, <1>3 DEF e
-----------------------------------------------------------------------------
(***************************************************************************)
(* The direction of a loop: x comes before y, and x is not beyond a limit  *)
(***************************************************************************)
\* x comes before y in the direction of the loop.
Before(inc, x, y) == IF inc > 0 THEN x < y ELSE x > y

LEMMA Along ==
    ASSUME NEW lower \in Int, NEW inc \in Int \ {0}, NEW a \in Int, NEW b \in Int
    PROVE  /\ lower + a * inc \in Int
           /\ Within(inc, lower + a * inc, lower + b * inc) <=> a <= b
           /\ Before(inc, lower + a * inc, lower + b * inc) <=> a < b
<1> DEFINE x == a * inc
           y == b * inc
           d == (b - a) * inc
           e == (a - b) * inc
<1>1. x \in Int /\ y \in Int /\ d \in Int /\ e \in Int
  BY ProductType
<1>2. y - x = d /\ x - y = e
  OBVIOUS
<1>3. CASE inc > 0
  <2>1. b - a >= 0 => d >= 0
    BY <1>3
  <2>2. b - a >= 1 => d >= inc
    BY <1>3, TimesAtLeast
  <2>3. a - b >= 1 => e >= inc
    BY <1>3, TimesAtLeast
  <2>4. a - b >= 0 => e >= 0
    BY <1>3
  <2> HIDE DEF x, y, d, e
  <2>5. x <= y <=> a <= b
    BY <1>1, <1>2, <1>3, <2>1, <2>3
  <2>6. x < y <=> a < b
    BY <1>1, <1>2, <1>3, <2>2, <2>4
  <2> QED BY <1>1, <1>3, <2>5, <2>6 DEF Within, Before, x, y
<1>4. CASE inc < 0
  <2> DEFINE m == 0 - inc
  <2>0. m \in Int /\ m > 0 /\ d = (a - b) * m /\ e = (b - a) * m
    BY <1>4
  <2>1. a - b >= 0 => d >= 0
    BY <2>0
  <2>2. a - b >= 1 => d >= m
    BY <2>0, TimesAtLeast
  <2>3. b - a >= 1 => e >= m
    BY <2>0, TimesAtLeast
  <2>4. b - a >= 0 => e >= 0
    BY <2>0
  <2> HIDE DEF x, y, d, e, m
  <2>5. x >= y <=> a <= b
    BY <1>1, <1>2, <2>0, <2>2, <2>4
  <2>6. x > y <=> a < b
    BY <1>1, <1>2, <2>0, <2>1, <2>3
  <2> QED BY <1>1, <1>4, <2>5, <2>6 DEF Within, Before, x, y
<1> QED BY <1>3, <1>4

LEMMA WithinFacts ==
    ASSUME NEW inc \in Int \ {0}, NEW x \in Int, NEW y \in Int, NEW z \in Int
    PROVE  /\ Within(inc, x, y) /\ Within(inc, y, z) => Within(inc, x, z)
           /\ Within(inc, x, y) /\ Before(inc, y, z) => Before(inc, x, z)
           /\ Before(inc, x, y) /\ Within(inc, y, z) => Before(inc, x, z)
BY DEF Within, Before

LEMMA WithinMin ==
    ASSUME NEW inc \in Int \ {0}, NEW x \in Int, NEW y \in Int, NEW z \in Int
    PROVE  /\ Within(inc, x, LoopMin(inc, y, z)) <=> Within(inc, x, y) /\ Within(inc, x, z)
           /\ Within(inc, LoopMin(inc, y, z), y)
           /\ Within(inc, LoopMin(inc, y, z), z)
           /\ LoopMin(inc, y, z) \in Int
<1>1. CASE inc > 0
  BY <1>1 DEF Within, LoopMin, MinOf
<1>2. CASE inc < 0
  BY <1>2 DEF Within, LoopMin, MaxOf
<1> QED BY <1>1, <1>2

LEMMA WithinSelf ==
    ASSUME NEW inc \in Int \ {0}, NEW x \in Int
    PROVE  Within(inc, x, x) /\ Within(inc, x, x + inc) /\ ~Before(inc, x, x)
BY DEF Within, Before

LEMMA WithinPair ==
    ASSUME NEW inc \in Int \ {0}, NEW x \in Int, NEW y \in Int
    PROVE  /\ Before(inc, x, y) => Within(inc, x, y)
           /\ Before(inc, x, y) <=> ~Within(inc, y, x)
           /\ Within(inc, x, y) /\ Within(inc, y, x) => x = y
           /\ Within(inc, x, y) <=> Within(inc, x + inc, y + inc)
BY DEF Within, Before

LEMMA WithinChain ==
    ASSUME NEW inc \in Int \ {0}, NEW w \in Int, NEW x \in Int, NEW y \in Int, NEW z \in Int,
           Within(inc, w, x), Within(inc, x, y), Within(inc, y, z)
    PROVE  Within(inc, w, z)
BY DEF Within

LEMMA BeforeChain ==
    ASSUME NEW inc \in Int \ {0}, NEW w \in Int, NEW x \in Int, NEW y \in Int, NEW z \in Int,
           Within(inc, w, x), Before(inc, x, y), Within(inc, y, z)
    PROVE  Before(inc, w, z)
BY DEF Within, Before

LEMMA Forward ==
    ASSUME NEW inc \in Int \ {0}, NEW stride \in Int, NEW x \in Int, Within(inc, inc, stride)
    PROVE  Within(inc, x, x + stride)
BY DEF Within

LEMMA BeforeNot ==
    ASSUME NEW inc \in Int \ {0}, NEW x \in Int, NEW y \in Int
    PROVE  Before(inc, x, y) <=> ~Within(inc, y, x)
BY WithinPair

LEMMA BeforeWithin ==
    ASSUME NEW inc \in Int \ {0}, NEW x \in Int, NEW y \in Int
    PROVE  Before(inc, x, y) => Within(inc, x, y)
BY DEF Before, Within

LEMMA NotBoth ==
    ASSUME NEW inc \in Int \ {0}, NEW a \in Int, NEW b \in Int, NEW c \in Int, NEW d \in Int, NEW x \in Int,
           Before(inc, b, c) \/ Before(inc, d, a),
           Within(inc, a, x), Within(inc, x, b), Within(inc, c, x), Within(inc, x, d)
    PROVE  FALSE
BY DEF Before, Within
-----------------------------------------------------------------------------
(***************************************************************************)
(* Iterations by their number: the a-th one is lower + a * inc             *)
(***************************************************************************)
LEMMA Ahead ==
    ASSUME NEW inc \in Int \ {0}, NEW x \in Int, NEW m \in Nat
    PROVE  /\ x + m * inc \in Int
           /\ Within(inc, x, x + m * inc)
           /\ m >= 1 => Within(inc, inc, m * inc)
<1> DEFINE zero == 0
           one == 1
<1>1. zero \in Int /\ one \in Int /\ m \in Int /\ zero <= m
  OBVIOUS
<1>2. x + zero * inc = x /\ zero + one * inc = inc
  OBVIOUS
<1> HIDE DEF zero, one
<1>3. Within(inc, x + zero * inc, x + m * inc) /\ x + m * inc \in Int
  BY <1>1, Along
<1>4. Within(inc, zero + one * inc, zero + m * inc) <=> one <= m
  BY <1>1, Along
<1>5. zero + m * inc = m * inc
  BY DEF zero
<1>6. m >= 1 => one <= m
  BY DEF one
<1> QED BY <1>2, <1>3, <1>4, <1>5, <1>6

\* x is an iteration of a loop from lower that has no limit.
On(lower, inc, x) == \E a \in Nat : x = lower + a * inc

LEMMA OnFacts ==
    ASSUME NEW lo \in Int, NEW inc \in Int \ {0}, NEW x, On(lo, inc, x)
    PROVE  /\ x \in Int
           /\ Within(inc, lo, x)
<1>1. PICK a \in Nat : x = lo + a * inc
  BY DEF On
<1> QED BY <1>1, Ahead

LEMMA OnStart ==
    ASSUME NEW lo \in Int, NEW inc \in Int \ {0}
    PROVE  On(lo, inc, lo)
<1>1. lo = lo + 0 * inc
  OBVIOUS
<1> QED BY <1>1 DEF On

LEMMA OnAhead ==
    ASSUME NEW lo \in Int, NEW inc \in Int \ {0}, NEW x, On(lo, inc, x), NEW m \in Nat
    PROVE  On(lo, inc, x + m * inc)
<1>1. PICK a \in Nat : x = lo + a * inc
  BY DEF On
<1>2. lo + a * inc + m * inc = lo + (a + m) * inc /\ a + m \in Nat
  BY <1>1
<1> QED BY <1>1, <1>2 DEF On

LEMMA OnStep ==
    ASSUME NEW lo \in Int, NEW inc \in Int \ {0}, NEW x, On(lo, inc, x)
    PROVE  On(lo, inc, x + inc)
<1> DEFINE one == 1
<1>1. one \in Nat /\ one * inc = inc
  OBVIOUS
<1> HIDE DEF one
<1>2. On(lo, inc, x + one * inc)
  BY <1>1, OnAhead
<1> QED BY <1>1, <1>2

\* From one iteration to a later one.
LEMMA OnFrom ==
    ASSUME NEW lo \in Int, NEW inc \in Int \ {0}, NEW x, On(lo, inc, x), NEW y, On(lo, inc, y),
           Within(inc, x, y)
    PROVE  On(x, inc, y)
<1>1. PICK a \in Nat : x = lo + a * inc
  BY DEF On
<1>2. PICK b \in Nat : y = lo + b * inc
  BY DEF On
<1>3. Within(inc, lo + a * inc, lo + b * inc)
  BY <1>1, <1>2
<1>4. a <= b
  BY <1>1, <1>2, <1>3, Along
<1>5. lo + b * inc = lo + a * inc + (b - a) * inc /\ b - a \in Nat
  BY <1>1, <1>2, <1>4
<1> QED BY <1>1, <1>2, <1>5 DEF On

\* There is nothing between an iteration and the next.
LEMMA OnNext ==
    ASSUME NEW lo \in Int, NEW inc \in Int \ {0}, NEW x, On(lo, inc, x), NEW y, On(lo, inc, y),
           Before(inc, x, y)
    PROVE  Within(inc, x + inc, y)
<1>1. PICK a \in Nat : x = lo + a * inc
  BY DEF On
<1>2. PICK b \in Nat : y = lo + b * inc
  BY DEF On
<1>3. Before(inc, lo + a * inc, lo + b * inc)
  BY <1>1, <1>2
<1>4. a < b
  BY <1>1, <1>2, <1>3, Along
<1>5. a + 1 \in Int /\ b \in Int /\ a + 1 <= b
  BY <1>1, <1>2, <1>4
<1>6. Within(inc, lo + (a + 1) * inc, lo + b * inc)
  BY <1>5, Along
<1>7. lo + (a + 1) * inc = lo + a * inc + inc
  BY <1>1
<1> QED BY <1>1, <1>2, <1>6, <1>7

\* For iterations there is nothing between y and the next.
LEMMA BeforeNext ==
    ASSUME NEW lo \in Int, NEW inc \in Int \ {0}, NEW x, On(lo, inc, x), NEW y, On(lo, inc, y)
    PROVE  /\ y + inc \in Int /\ Before(inc, y, y + inc)
           /\ Before(inc, x, y + inc) <=> Before(inc, x, y) \/ x = y
<1>1. x \in Int /\ y \in Int
  BY OnFacts
<1>2. y + inc \in Int /\ Before(inc, y, y + inc) /\ Within(inc, y, y + inc)
  BY <1>1 DEF Before, Within
<1> DEFINE z == y + inc
<1>3. z \in Int /\ Before(inc, y, z) /\ Within(inc, y, z)
  BY <1>2
<1>4. ASSUME Before(inc, x, z), ~Before(inc, x, y) PROVE x = y
  <2>1. Within(inc, y, x)
    BY <1>1, <1>4, BeforeNot
  <2>2. ASSUME x # y PROVE FALSE
    <3>1. Before(inc, y, x)
      BY <1>1, <2>1, <2>2 DEF Before, Within
    <3>2. Within(inc, z, x)
      BY <3>1, OnNext
    <3> HIDE DEF z
    <3> QED BY <1>1, <1>3, <1>4, <3>2, BeforeNot
  <2> QED BY <2>2
<1>5. ASSUME Before(inc, x, y) PROVE Before(inc, x, z)
  <2> HIDE DEF z
  <2> QED BY <1>1, <1>3, <1>5, WithinFacts
<1> QED BY <1>2, <1>3, <1>4, <1>5

\* The division of C by a positive number.
LEMMA DivisionFacts ==
    ASSUME NEW a \in Int, NEW n \in Int, n > 0
    PROVE  /\ CDiv(a, n) \in Int
           /\ a >= 0 => CDiv(a, n) >= 0 /\ CDiv(a, n) * n <= a /\ a < CDiv(a, n) * n + n
           /\ a <= 0 => CDiv(a, n) <= 0
           /\ CDiv(a, n) >= 1 => a >= 1
<1>1. Abs(n) = n /\ Abs(a) \in Int /\ Abs(a) >= 0
  BY DEF Abs
<1> DEFINE q == Abs(a) \div n
           r == Abs(a) % n
<1>2. Abs(a) = n * q + r /\ q \in Int /\ r \in 0 .. n - 1
  BY <1>1, DivMod
<1>3. CDiv(a, n) = IF a < 0 THEN -q ELSE q
  BY <1>1 DEF CDiv
<1> HIDE DEF q, r
<1>4. q >= 0
  <2> SUFFICES ASSUME q <= -1 PROVE FALSE
    BY <1>2
  <2> DEFINE k == 0 - q
  <2>1. k \in Int /\ k >= 1 /\ n * q = 0 - k * n
    BY <1>2
  <2> HIDE DEF k
  <2>2. k * n >= n
    BY <2>1, TimesAtLeast
  <2> QED BY <2>1, <2>2, <1>1, <1>2
<1>5. q * n = n * q
  BY <1>2
<1>6. a >= 0 => CDiv(a, n) >= 0 /\ CDiv(a, n) * n <= a /\ a < CDiv(a, n) * n + n
  <2> HAVE a >= 0
  <2>1. CDiv(a, n) = q /\ Abs(a) = a
    BY <1>3 DEF Abs
  <2> DEFINE w == n * q
  <2>2. w \in Int /\ a = w + r /\ CDiv(a, n) * n = w
    BY <2>1, <1>2, <1>5, ProductType
  <2> HIDE DEF w
  <2> QED BY <2>1, <2>2, <1>2, <1>4
<1>7. a = 0 => q = 0
  <2> HAVE a = 0
  <2>1. n * q + r = 0
    BY <1>2 DEF Abs
  <2> SUFFICES ASSUME q >= 1 PROVE FALSE
    BY <1>2, <1>4
  <2>2. q * n >= n
    BY <1>2, TimesAtLeast
  <2> QED BY <2>1, <2>2, <1>2, <1>5
<1> QED BY <1>2, <1>3, <1>4, <1>6, <1>7

\* How many iterations lead to the limit.
LEMMA CountFacts ==
    ASSUME NEW inc \in Int \ {0}, NEW d \in Int, Within(inc, 0, d)
    PROVE  /\ CDiv(d, inc) \in Nat
           /\ \A a \in Nat : a <= CDiv(d, inc) <=> Within(inc, a * inc, d)
<1> DEFINE n == IF inc > 0 THEN inc ELSE 0 - inc
           e == IF inc > 0 THEN d ELSE 0 - d
           q == CDiv(e, n)
<1>1. n \in Int /\ n > 0 /\ e \in Int /\ e >= 0
  BY DEF Within
<1>2. CDiv(d, inc) = q
  <2>1. CASE inc > 0
    BY <2>1
  <2>2. CASE inc < 0
    <3>1. n = Abs(inc) /\ e = Abs(d) /\ Abs(n) = n /\ Abs(e) = e
      BY <2>2 DEF Abs, Within
    <3>2. q = Abs(e) \div Abs(n)
      BY <1>1 DEF CDiv
    <3>3. CASE d < 0
      BY <2>2, <3>1, <3>2, <3>3 DEF CDiv
    <3>4. CASE d = 0
      <4>1. e = 0
        BY <2>2, <3>4
      <4>2. Abs(e) \div Abs(n) = 0
        <5>1. CDiv(e, n) >= 0 /\ CDiv(e, n) <= 0 /\ CDiv(e, n) \in Int
          BY <1>1, <4>1, DivisionFacts
        <5> QED BY <3>2, <5>1
      <4>3. Abs(d) \div Abs(inc) = 0
        BY <3>1, <4>2
      <4> QED BY <2>2, <3>2, <3>4, <4>2, <4>3 DEF CDiv
    <3> QED BY <2>2, <3>3, <3>4 DEF Within
  <2> QED BY <2>1, <2>2
<1>3. q \in Int /\ q >= 0 /\ q * n <= e /\ e < q * n + n
  BY <1>1, DivisionFacts
<1>4. ASSUME NEW a \in Nat PROVE Within(inc, a * inc, d) <=> a * n <= e
  <2>1. CASE inc > 0
    BY <2>1 DEF Within
  <2>2. CASE inc < 0
    <3>1. a * (0 - inc) = 0 - a * inc /\ a * inc \in Int
      OBVIOUS
    <3>2. n = 0 - inc /\ e = 0 - d
      BY <2>2
    <3> HIDE DEF n, e
    <3>3. a * n = 0 - a * inc
      BY <3>1, <3>2
    <3> DEFINE w == a * inc
    <3>4. w \in Int /\ a * n = 0 - w
      BY <3>1, <3>3
    <3> HIDE DEF w
    <3>5. w >= d <=> a * n <= e
      BY <3>2, <3>4
    <3> QED BY <2>2, <3>5 DEF Within, w
  <2> QED BY <2>1, <2>2
<1> HIDE DEF n, e, q
<1>5. ASSUME NEW a \in Nat PROVE a <= q <=> a * n <= e
  <2> DEFINE w == a * n
             z == q * n
             v == (q - a) * n
             u == (a - q) * n
  <2>1. w \in Int /\ z \in Int /\ v \in Int /\ u \in Int /\ v = z - w /\ u = w - z
    BY <1>1, <1>3
  <2>2. q - a >= 0 => v >= 0
    BY <1>1, <1>3
  <2>3. a - q >= 1 => u >= n
    BY <1>1, <1>3, TimesAtLeast
  <2>4. z <= e /\ e < z + n
    BY <1>3
  <2> HIDE DEF w, z, v, u
  <2>5. a <= q <=> w <= e
    BY <1>1, <1>3, <2>1, <2>2, <2>3, <2>4
  <2> QED BY <2>5 DEF w
<1> QED BY <1>2, <1>3, <1>4, <1>5

\* The reference set of Schedule.
LEMMA IterationsOn ==
    ASSUME NEW lo \in Int, NEW up \in Int, NEW inc \in Int \ {0}, NEW x
    PROVE  x \in Iterations(lo, up, inc) <=> On(lo, inc, x) /\ Within(inc, x, up)
<1> DEFINE d == up - lo
           c == CDiv(d, inc)
<1>1. d \in Int /\ (Within(inc, lo, up) <=> Within(inc, 0, d))
  BY DEF Within
<1>2. CASE Within(inc, lo, up)
  <2>1. c \in Nat /\ \A a \in Nat : a <= c <=> Within(inc, a * inc, d)
    BY <1>1, <1>2, CountFacts
  <2>2. Iterations(lo, up, inc) = {lo + a * inc : a \in 0 .. (c + 1) - 1}
    BY <1>2 DEF Iterations
  <2>3. ASSUME NEW a \in Nat PROVE Within(inc, a * inc, d) <=> Within(inc, lo + a * inc, up)
    <3> DEFINE w == a * inc
    <3>1. w \in Int
      OBVIOUS
    <3> HIDE DEF w
    <3>2. Within(inc, w, d) <=> Within(inc, lo + w, up)
      BY <3>1 DEF Within
    <3> QED BY <3>2 DEF w
  <2> HIDE DEF c, d
  <2>4. 0 .. (c + 1) - 1 = {a \in Nat : a <= c}
    BY <2>1
  <2>5. x \in Iterations(lo, up, inc) <=> \E a \in Nat : a <= c /\ x = lo + a * inc
    BY <2>2, <2>4
  <2>6. x \in Iterations(lo, up, inc) => On(lo, inc, x) /\ Within(inc, x, up)
    <3> HAVE x \in Iterations(lo, up, inc)
    <3>1. PICK a \in Nat : a <= c /\ x = lo + a * inc
      BY <2>5
    <3> QED BY <3>1, <2>1, <2>3 DEF On
  <2>7. On(lo, inc, x) /\ Within(inc, x, up) => x \in Iterations(lo, up, inc)
    <3> HAVE On(lo, inc, x) /\ Within(inc, x, up)
    <3>1. PICK a \in Nat : x = lo + a * inc
      BY DEF On
    <3>2. Within(inc, a * inc, d)
      BY <3>1, <2>3
    <3> QED BY <3>1, <3>2, <2>1, <2>5
  <2> QED BY <2>6, <2>7
<1>3. CASE ~Within(inc, lo, up)
  <2>1. Iterations(lo, up, inc) = {lo + a * inc : a \in 0 .. 0 - 1}
    BY <1>3 DEF Iterations
  <2>2. 0 .. 0 - 1 = {}
    OBVIOUS
  <2>3. Iterations(lo, up, inc) = {}
    BY <2>1, <2>2
  <2>4. ~(On(lo, inc, x) /\ Within(inc, x, up))
    <3> SUFFICES ASSUME On(lo, inc, x), Within(inc, x, up) PROVE FALSE
      OBVIOUS
    <3>1. x \in Int /\ Within(inc, lo, x)
      BY OnFacts
    <3>2. Within(inc, lo, up)
      BY <3>1, WithinFacts
    <3> QED BY <3>2, <1>3
  <2> QED BY <2>3, <2>4
<1> QED BY <1>2, <1>3

LEMMA LastFacts ==
    ASSUME NEW lo \in Int, NEW up \in Int, NEW inc \in Int \ {0}, Within(inc, lo, up),
           NEW n, n = CDiv(up - lo, inc)
    PROVE  /\ n \in Nat /\ lo + n * inc \in Int
           /\ On(lo, inc, lo + n * inc) /\ Within(inc, lo + n * inc, up)
           /\ ~Within(inc, (lo + n * inc) + inc, up)
           /\ lo + (n + 1) * inc = (lo + n * inc) + inc
<1> DEFINE d == up - lo
<1>1. d \in Int /\ Within(inc, 0, d)
  BY DEF Within
<1>2. n \in Nat /\ \A a \in Nat : a <= n <=> Within(inc, a * inc, d)
  <2> HIDE DEF d
  <2>1. n = CDiv(d, inc)
    BY DEF d
  <2> QED BY <1>1, <2>1, CountFacts
<1>3. Within(inc, n * inc, d) /\ ~Within(inc, (n + 1) * inc, d)
  BY <1>2
<1> DEFINE a == n * inc
           b == (n + 1) * inc
<1>4. a \in Int /\ b \in Int /\ b = a + inc
  BY <1>2
<1>5. On(lo, inc, lo + n * inc)
  BY <1>2 DEF On
<1> HIDE DEF a, b
<1>6. Within(inc, lo + a, up) /\ ~Within(inc, (lo + a) + inc, up) /\ lo + b = (lo + a) + inc
  BY <1>1, <1>3, <1>4 DEF Within, a, b, d
<1> QED BY <1>2, <1>4, <1>5, <1>6 DEF a, b

\* The DO variable after a range with iterations.
LEMMA FinalFacts ==
    ASSUME NEW lo \in Int, NEW up \in Int, NEW inc \in Int \ {0}, Within(inc, lo, up)
    PROVE  \E y \in Int : /\ On(lo, inc, y) /\ Within(inc, y, up) /\ ~Within(inc, y + inc, up)
                          /\ Final(lo, up, inc) = y + inc
<1> DEFINE n == CDiv(up - lo, inc)
           y == lo + n * inc
<1>1. /\ y \in Int /\ On(lo, inc, y) /\ Within(inc, y, up) /\ ~Within(inc, y + inc, up)
      /\ lo + (n + 1) * inc = y + inc
  <2> DEFINE m == n
  <2>1. m = CDiv(up - lo, inc)
    OBVIOUS
  <2> HIDE DEF m
  <2> QED BY <2>1, LastFacts
<1>2. Final(lo, up, inc) = y + inc
  BY <1>1 DEF Final
<1> QED BY <1>1, <1>2

\* An iteration that is followed by none is the last.
LEMMA LastIsLast ==
    ASSUME NEW lo \in Int, NEW up \in Int, NEW inc \in Int \ {0},
           NEW y, On(lo, inc, y), ~Within(inc, y + inc, up),
           NEW z, On(lo, inc, z), Within(inc, z, up)
    PROVE  Within(inc, z, y)
<1>1. y \in Int /\ z \in Int
  BY OnFacts
<1> SUFFICES ASSUME ~Within(inc, z, y) PROVE FALSE
  OBVIOUS
<1>2. Before(inc, y, z)
  BY <1>1, BeforeNot
<1>3. Within(inc, y + inc, z)
  BY <1>2, OnNext
<1>4. y + inc \in Int
  BY <1>1
<1> QED
  <2> DEFINE w == y + inc
  <2> HIDE DEF w
  <2>1. w \in Int /\ Within(inc, w, z) /\ ~Within(inc, w, up)
    BY <1>3, <1>4 DEF w
  <2> QED BY <1>1, <2>1, WithinFacts

\* The number of an iteration is below the size of the loop.
LEMMA NumberBelow ==
    ASSUME NEW l \in SlotRecord, NEW a \in Nat, Within(l.inc, l.lower + a * l.inc, l.upper)
    PROVE  Size(l) \in Nat /\ a <= Size(l) - 1
<1> DEFINE inc == l.inc
           low == l.lower
           d == l.upper - l.lower
           w == a * inc
<1>1. inc \in Int \ {0} /\ low \in Int /\ l.upper \in Int /\ d \in Int
  BY DEF SlotRecord
<1>2. Within(inc, low + w, l.upper)
  OBVIOUS
<1>3. Size(l) = CDiv(d, inc) + 1
  BY DEF Size
<1> HIDE DEF inc, low
<1>4. Within(inc, 0 + w, d)
  <2>1. w \in Int
    BY <1>1
  <2> HIDE DEF w
  <2> QED BY <1>1, <1>2, <2>1 DEF Within, low
<1>5. Within(inc, 0, 0 + w) /\ 0 + w \in Int
  <2> DEFINE zero == 0
  <2>1. zero \in Int
    OBVIOUS
  <2> HIDE DEF zero
  <2>2. Within(inc, zero, zero + a * inc) /\ zero + a * inc \in Int
    BY <1>1, <2>1, Ahead
  <2> QED BY <2>2 DEF zero
<1> HIDE DEF d
<1>6. Within(inc, 0, d)
  BY <1>1, <1>4, <1>5, WithinFacts
<1>7. 0 + w = a * inc
  BY <1>1
<1>8. Within(inc, a * inc, d)
  BY <1>4, <1>7
<1>9. CDiv(d, inc) \in Nat /\ a <= CDiv(d, inc)
  BY <1>1, <1>6, <1>8, CountFacts
<1> QED BY <1>3, <1>9
-----------------------------------------------------------------------------
(***************************************************************************)
(* The shares of the threads: they are apart, and cover the loop           *)
(***************************************************************************)
\* The iterations that a static schedule leaves to thread t.
FairBlock(l, n, t) ==
    LET share == FairShare(Size(l), n, t)
        lower == l.lower + share.index * l.inc
    IN [lower |-> lower,
        upper |-> LoopMin(l.inc, lower + (share.chunk - 1) * l.inc, l.upper)]

StaticShare(l, fair, n, t) ==
    IF l.sched = "STATIC_EVEN" /\ fair THEN FairBlock(l, n, t) ELSE Block(l, n, t)

\* The shares of the threads are apart: equal blocks ...
LEMMA BlocksApart ==
    ASSUME NEW l \in SlotRecord, NEW n \in Nat \ {0}, NEW t \in Nat, NEW u \in Nat, t < u,
           Within(l.inc, Block(l, n, t).lower, Block(l, n, t).upper)
    PROVE  Before(l.inc, Block(l, n, t).upper, Block(l, n, u).lower)
<1> DEFINE s == CDiv(Size(l) - 1, n) + 1
           inc == l.inc
           a == t * s
           b == u * s
           top == l.lower + (a + s - 1) * inc
<1>1. inc \in Int \ {0} /\ l.lower \in Int /\ l.upper \in Int
  BY DEF SlotRecord
<1>2. s \in Int
  <2>1. Size(l) - 1 \in Int
    BY SizeType
  <2>2. CDiv(Size(l) - 1, n) \in Int
    BY <2>1, DivisionType
  <2> QED BY <2>2
<1>3. /\ Block(l, n, t).lower = l.lower + t * (s * inc)
      /\ Block(l, n, t).upper = LoopMin(inc, l.lower + t * (s * inc) + (s * inc) - inc, l.upper)
      /\ Block(l, n, u).lower = l.lower + u * (s * inc)
  BY DEF Block
<1> HIDE DEF s, inc
<1>4. a \in Int /\ b \in Int
  BY <1>2, ProductType
<1>5. t * (s * inc) = a * inc /\ u * (s * inc) = b * inc
  BY <1>1, <1>2
<1>6. (a + s - 1) * inc = a * inc + s * inc - inc
  BY <1>1, <1>2, <1>4
<1> HIDE DEF a, b
<1>7. a + s - 1 \in Int /\ top \in Int
  <2>1. a + s - 1 \in Int
    BY <1>2, <1>4
  <2> QED BY <2>1, <1>1, Along
<1>8. /\ Block(l, n, t).lower = l.lower + a * inc
      /\ Block(l, n, t).upper = LoopMin(inc, top, l.upper)
      /\ Block(l, n, u).lower = l.lower + b * inc
  <2> DEFINE x == a * inc
             y == s * inc
  <2>1. x \in Int /\ y \in Int
    BY <1>1, <1>2, <1>4, ProductType
  <2>2. l.lower + x + y - inc = l.lower + (x + y - inc)
    BY <2>1, <1>1
  <2> QED BY <2>2, <1>3, <1>5, <1>6
<1>9. Within(inc, l.lower + a * inc, top)
  <2>1. l.lower + a * inc \in Int
    BY <1>1, <1>4, Along
  <2> DEFINE x == l.lower + a * inc
  <2>2. Within(inc, x, LoopMin(inc, top, l.upper))
    BY <1>8 DEF inc
  <2>3. x \in Int /\ top \in Int
    BY <2>1, <1>7
  <2> HIDE DEF top, x
  <2>4. Within(inc, x, top)
    BY <2>2, <2>3, <1>1, WithinMin
  <2> QED BY <2>4 DEF x
<1>10. s >= 1
  <2>1. a <= a + s - 1
    BY <1>1, <1>4, <1>7, <1>9, Along
  <2> QED BY <2>1, <1>2, <1>4
<1>11. a + s - 1 < b
  <2>1. (u - t) * s >= s
    BY <1>2, <1>10, TimesAtLeast
  <2>2. (u - t) * s = b - a
    BY <1>2 DEF a, b
  <2> QED BY <2>1, <2>2, <1>2, <1>4
<1>12. Before(inc, top, l.lower + b * inc)
  BY <1>1, <1>4, <1>7, <1>11, Along
<1>13. l.lower + b * inc \in Int
  BY <1>1, <1>4, Along
<1> HIDE DEF top
<1>14. Within(inc, LoopMin(inc, top, l.upper), top) /\ LoopMin(inc, top, l.upper) \in Int
  BY <1>1, <1>7, WithinMin
<1>15. Before(inc, LoopMin(inc, top, l.upper), l.lower + b * inc)
  <2> DEFINE x == l.lower + b * inc
             y == LoopMin(inc, top, l.upper)
  <2>1. x \in Int /\ y \in Int /\ Within(inc, y, top) /\ Before(inc, top, x)
    BY <1>12, <1>13, <1>14
  <2> HIDE DEF x, y
  <2>2. Before(inc, y, x)
    BY <2>1, <1>1, <1>7, WithinFacts
  <2> QED BY <2>2 DEF x, y
<1> QED BY <1>8, <1>15 DEF inc

\* ... and fair ones, which differ by one iteration at most.
LEMMA FairSharesApart ==
    ASSUME NEW size \in Int, NEW n \in Nat \ {0}, NEW t \in Nat, NEW u \in Nat, t < u,
           FairShare(size, n, t).chunk >= 1
    PROVE  FairShare(size, n, t).index + FairShare(size, n, t).chunk <= FairShare(size, n, u).index
<1> DEFINE c == CDiv(size, n)
           r == size - c * n
           f(i) == FairShare(size, n, i)
<1>1. c \in Int /\ (size >= 0 => c >= 0 /\ c * n <= size) /\ (size <= 0 => c <= 0) /\ (c >= 1 => size >= 1)
  BY DivisionFacts
<1>2. \A i \in Nat :
        /\ f(i).index = MinOf(i, r) * (c + 1) + (IF i > r THEN (i - r) * c ELSE 0)
        /\ f(i).chunk = IF i < r THEN c + 1 ELSE c
  BY DEF FairShare
<1> HIDE DEF c, f
<1>3. c * n \in Int
  BY <1>1, ProductType
<1>4. r \in Int
  BY <1>3
<1>5. c >= 0 /\ r >= 0
  <2>1. c >= 1 \/ (c + 1 >= 1 /\ t < r)
    <3>1. f(t).chunk >= 1 /\ f(t).chunk = IF t < r THEN c + 1 ELSE c
      BY <1>2 DEF f
    <3> QED BY <3>1, <1>1, <1>4
  <2>2. CASE size >= 0
    BY <2>2, <1>1, <1>3
  <2>3. CASE size < 0
    <3>1. c <= 0
      BY <2>3, <1>1
    <3>2. c = 0 /\ t < r
      BY <2>1, <3>1, <1>1
    <3>3. r = size
      BY <3>2
    <3> QED BY <2>3, <3>2, <3>3
  <2> QED BY <2>2, <2>3
<1> HIDE DEF r
<1>6. CASE u <= r
  <2>1. f(t).index = t * (c + 1) /\ f(t).chunk = c + 1 /\ f(u).index = u * (c + 1)
    <3>1. t < r /\ ~(t > r) /\ ~(u > r) /\ MinOf(t, r) = t /\ MinOf(u, r) = u
      BY <1>4, <1>6 DEF MinOf
    <3> QED BY <3>1, <1>1, <1>2
  <2> DEFINE m == c + 1
  <2>2. m \in Int /\ m >= 0
    BY <1>1, <1>5
  <2>3. f(t).index = t * m /\ f(t).chunk = m /\ f(u).index = u * m
    BY <2>1
  <2> HIDE DEF m
  <2>4. (u - t) * m >= m
    BY <2>2, TimesAtLeast
  <2>5. (u - t) * m = u * m - t * m /\ u * m \in Int /\ t * m \in Int
    BY <2>2
  <2>6. t * m + m <= u * m
    BY <2>2, <2>4, <2>5
  <2> QED BY <2>3, <2>6 DEF f
<1>7. CASE u > r /\ t < r
  <2>1. f(t).index = t * (c + 1) /\ f(t).chunk = c + 1 /\ f(u).index = r * (c + 1) + (u - r) * c
    <3>1. ~(t > r) /\ MinOf(t, r) = t /\ MinOf(u, r) = r
      BY <1>4, <1>7 DEF MinOf
    <3> QED BY <3>1, <1>1, <1>2, <1>7
  <2> DEFINE m == c + 1
  <2>2. m \in Int /\ m >= 0
    BY <1>1, <1>5
  <2>3. f(t).index = t * m /\ f(t).chunk = m /\ f(u).index = r * m + (u - r) * c
    BY <2>1
  <2> HIDE DEF m
  <2>4. (r - t) * m >= m
    BY <2>2, <1>4, <1>7, TimesAtLeast
  <2>5. (r - t) * m = r * m - t * m /\ r * m \in Int /\ t * m \in Int
    BY <2>2, <1>4
  <2>6. (u - r) * c >= 0 /\ (u - r) * c \in Int
    BY <1>1, <1>4, <1>5, <1>7
  <2>7. t * m + m <= r * m + (u - r) * c
    BY <2>2, <2>4, <2>5, <2>6
  <2> QED BY <2>3, <2>7 DEF f
<1>8. CASE t >= r
  <2>1. f(t).index = r * (c + 1) + (t - r) * c /\ f(t).chunk = c /\ f(u).index = r * (c + 1) + (u - r) * c
    <3>1. ~(t < r) /\ MinOf(t, r) = r /\ MinOf(u, r) = r /\ u > r
      BY <1>4, <1>8 DEF MinOf
    <3>2. t = r => (t - r) * c = 0
      BY <1>1, <1>4
    <3>3. r * (c + 1) \in Int
      BY <1>1, <1>4
    <3> QED BY <3>1, <3>2, <3>3, <1>1, <1>2, <1>4, <1>8
  <2>2. (u - t) * c >= c
    BY <1>1, <1>5, TimesAtLeast
  <2>3. (u - t) * c = (u - r) * c - (t - r) * c
    BY <1>1, <1>4
  <2>4. (u - r) * c \in Int /\ (t - r) * c \in Int /\ r * (c + 1) \in Int
    BY <1>1, <1>4
  <2>5. r * (c + 1) + (t - r) * c + c <= r * (c + 1) + (u - r) * c
    BY <2>2, <2>3, <2>4, <1>1
  <2> QED BY <2>1, <2>5 DEF f
<1> QED BY <1>4, <1>6, <1>7, <1>8

LEMMA SharesApart ==
    ASSUME NEW l \in SlotRecord, NEW n \in Nat \ {0}, NEW t \in Nat, NEW u \in Nat, t < u,
           NEW fair \in BOOLEAN,
           Within(l.inc, StaticShare(l, fair, n, t).lower, StaticShare(l, fair, n, t).upper)
    PROVE  Before(l.inc, StaticShare(l, fair, n, t).upper, StaticShare(l, fair, n, u).lower)
<1>1. CASE ~(l.sched = "STATIC_EVEN" /\ fair)
  <2>1. StaticShare(l, fair, n, t) = Block(l, n, t) /\ StaticShare(l, fair, n, u) = Block(l, n, u)
    BY <1>1 DEF StaticShare
  <2> QED BY <2>1, BlocksApart
<1>2. CASE l.sched = "STATIC_EVEN" /\ fair
  <2> DEFINE inc == l.inc
             low == l.lower
             a == FairShare(Size(l), n, t).index
             c == FairShare(Size(l), n, t).chunk
             g == FairShare(Size(l), n, u).index
             x == low + a * inc
             top == low + (a + c - 1) * inc
             y == low + g * inc
             up == LoopMin(inc, top, l.upper)
  <2>1. /\ StaticShare(l, fair, n, t) = FairBlock(l, n, t)
        /\ StaticShare(l, fair, n, u) = FairBlock(l, n, u)
    BY <1>2 DEF StaticShare
  <2>2. inc \in Int \ {0} /\ low \in Int /\ l.upper \in Int
    BY DEF SlotRecord
  <2>3. Size(l) \in Int
    BY SizeType
  <2>4. a \in Int /\ c \in Int /\ g \in Int
    BY <2>3, FairShareType
  <2>5. FairBlock(l, n, t).lower = x /\ FairBlock(l, n, u).lower = y
    BY DEF FairBlock
  <2>6. FairBlock(l, n, t).upper = LoopMin(inc, x + (c - 1) * inc, l.upper)
    BY DEF FairBlock
  <2>7. c >= 1 => a + c <= g
    BY <2>3, FairSharesApart
  <2> HIDE DEF inc, low, a, c, g
  <2>8. x + (c - 1) * inc = top
    <3>1. (a + c - 1) * inc = a * inc + (c - 1) * inc /\ a * inc \in Int /\ (c - 1) * inc \in Int
      BY <2>2, <2>4
    <3> QED BY <3>1, <2>2
  <2>9. a + c - 1 \in Int
    BY <2>4
  <2>10. /\ x \in Int /\ top \in Int /\ y \in Int
         /\ Within(inc, x, top) <=> a <= a + c - 1
         /\ Before(inc, top, y) <=> a + c - 1 < g
    BY <2>2, <2>4, <2>9, Along
  <2>11. Within(inc, x, up)
    BY <2>1, <2>5, <2>6, <2>8 DEF inc
  <2>12. FairBlock(l, n, t).upper = up
    BY <2>6, <2>8
  <2> HIDE DEF x, top, y
  <2>13. up \in Int /\ Within(inc, up, top) /\ Within(inc, x, top)
    BY <2>2, <2>10, <2>11, WithinMin
  <2> HIDE DEF up
  <2>14. a + c - 1 < g
    BY <2>4, <2>7, <2>10, <2>13
  <2>15. Before(inc, up, y)
    BY <2>2, <2>10, <2>13, <2>14, WithinFacts
  <2> QED BY <2>1, <2>5, <2>12, <2>15 DEF inc
<1> QED BY <1>1, <1>2

\* The ranges that a static schedule replies are in the share of the thread.
InShare(l, own, reply) ==
    /\ Within(l.inc, own.lower, reply.lower)
    /\ Within(l.inc, reply.lower, reply.upper)
    /\ Within(l.inc, reply.upper, own.upper)

LEMMA NextStaticShare ==
    ASSUME NEW l \in SlotRecord, NEW n \in Nat \ {0}, NEW t \in Nat, NEW i \in Nat,
           NextStatic(l, n, t, i).more
    PROVE  InShare(l, Block(l, n, t), NextStatic(l, n, t, i))
<1> DEFINE inc == l.inc
           low == Block(l, n, t).lower
           top == Block(l, n, t).upper
           m == i * l.chunk
           c == l.chunk - 1
           x == low + m * inc
           y == x + c * inc
           reply == NextStatic(l, n, t, i)
<1>1. /\ reply.more = Within(inc, x, top)
      /\ reply.lower = x /\ reply.upper = LoopMin(inc, y, top)
  BY DEF NextStatic, Reply
<1>2. inc \in Int \ {0} /\ m \in Nat /\ c \in Nat
  BY DEF SlotRecord
<1>3. low \in Int /\ top \in Int
  BY BlockType
<1> HIDE DEF inc, low, top, m, c
<1>4. x \in Int /\ Within(inc, low, x)
  BY <1>2, <1>3, Ahead
<1> HIDE DEF x
<1>5. y \in Int /\ Within(inc, x, y)
  BY <1>2, <1>4, Ahead
<1> HIDE DEF y
<1>6. Within(inc, x, LoopMin(inc, y, top)) /\ Within(inc, LoopMin(inc, y, top), top)
  BY <1>1, <1>2, <1>3, <1>4, <1>5, WithinMin
<1> QED BY <1>1, <1>4, <1>6 DEF InShare, inc, low, top

LEMMA NextStaticEvenShare ==
    ASSUME NEW l \in SlotRecord, l.sched = "STATIC_EVEN", NEW n \in Nat \ {0}, NEW t \in Nat,
           NEW i \in Nat, NEW fair \in BOOLEAN, NextStaticEven(l, fair, n, t, i).more
    PROVE  InShare(l, StaticShare(l, fair, n, t), NextStaticEven(l, fair, n, t, i))
<1> DEFINE own == StaticShare(l, fair, n, t)
           reply == NextStaticEven(l, fair, n, t, i)
<1>1. reply = Reply(i = 0 /\ Within(l.inc, own.lower, own.upper), own.lower, own.upper)
  BY DEF StaticShare, NextStaticEven, FairBlock
<1> HIDE DEF own, reply
<1>2. /\ reply.more = (i = 0 /\ Within(l.inc, own.lower, own.upper))
      /\ reply.lower = own.lower /\ reply.upper = own.upper
  BY <1>1 DEF Reply
<1>3. l.inc \in Int \ {0} /\ reply.lower \in Int /\ reply.upper \in Int
  BY NextStaticEvenType DEF IsReply, SlotRecord, reply
<1>4. Within(l.inc, own.lower, own.lower) /\ Within(l.inc, own.upper, own.upper)
  BY <1>2, <1>3, WithinSelf
<1> QED BY <1>2, <1>4 DEF InShare, own, reply

LEMMA StaticShareType ==
    ASSUME NEW l \in SlotRecord, NEW n \in Nat \ {0}, NEW t \in Nat, NEW fair \in BOOLEAN
    PROVE  StaticShare(l, fair, n, t).lower \in Int /\ StaticShare(l, fair, n, t).upper \in Int
<1>1. CASE ~(l.sched = "STATIC_EVEN" /\ fair)
  <2>1. StaticShare(l, fair, n, t) = Block(l, n, t)
    BY <1>1 DEF StaticShare
  <2> QED BY <2>1, BlockType
<1>2. CASE l.sched = "STATIC_EVEN" /\ fair
  <2> DEFINE i == 0
             reply == NextStaticEven(l, fair, n, t, i)
  <2>1. IsReply(reply)
    BY NextStaticEvenType
  <2>2. reply.lower = StaticShare(l, fair, n, t).lower /\ reply.upper = StaticShare(l, fair, n, t).upper
    BY <1>2 DEF StaticShare, NextStaticEven, FairBlock, Reply
  <2> QED BY <2>1, <2>2 DEF IsReply
<1> QED BY <1>1, <1>2

LEMMA ShareSame ==
    ASSUME NEW l, NEW m, NEW fair, NEW n, NEW t,
           m.sched = l.sched, m.inc = l.inc, m.lower = l.lower, m.upper = l.upper
    PROVE  StaticShare(m, fair, n, t) = StaticShare(l, fair, n, t)
<1>1. Size(m) = Size(l)
  BY DEF Size
<1>2. Block(m, n, t) = Block(l, n, t)
  BY <1>1 DEF Block
<1>3. FairBlock(m, n, t) = FairBlock(l, n, t)
  BY <1>1 DEF FairBlock
<1> QED BY <1>2, <1>3 DEF StaticShare

\* The chunk of a dynamic schedule leads forward.
LEMMA DynamicStride ==
    ASSUME NEW l \in SlotRecord
    PROVE  /\ l.inc * l.chunk \in Int
           /\ Within(l.inc, l.inc, l.inc * l.chunk)
<1> DEFINE inc == l.inc
           c == l.chunk
           zero == 0
<1>1. inc \in Int \ {0} /\ c \in Nat /\ c >= 1 /\ zero \in Int
  BY DEF SlotRecord
<1> HIDE DEF inc, c, zero
<1>2. Within(inc, inc, c * inc)
  BY <1>1, Ahead
<1>3. inc * c = c * inc /\ inc * c \in Int
  BY <1>1
<1> QED BY <1>2, <1>3 DEF inc, c

Matches(l, d) ==
    /\ l.sched = d.sched
    /\ l.inc = d.inc
    /\ l.lower = d.lower
    /\ l.upper = d.upper
    /\ l.sched # "GUIDED" => l.chunk = d.chunk

LEMMA FairIndex ==
    ASSUME NEW size \in Int, NEW n \in Nat \ {0}, NEW t \in Nat,
           FairShare(size, n, t).chunk >= 1
    PROVE  FairShare(size, n, t).index >= 0
<1> DEFINE c == CDiv(size, n)
           r == size - c * n
           f == FairShare(size, n, t)
<1>1. c \in Int /\ (size >= 0 => c >= 0 /\ c * n <= size) /\ (size <= 0 => c <= 0) /\ (c >= 1 => size >= 1)
  BY DivisionFacts
<1>2. /\ f.index = MinOf(t, r) * (c + 1) + (IF t > r THEN (t - r) * c ELSE 0)
      /\ f.chunk = IF t < r THEN c + 1 ELSE c
  BY DEF FairShare
<1>3. f.chunk >= 1
  OBVIOUS
<1> HIDE DEF c, f
<1>4. c * n \in Int
  BY <1>1, ProductType
<1>5. r \in Int
  BY <1>4
<1>6. c >= 0 /\ r >= 0
  <2>1. c >= 1 \/ (c + 1 >= 1 /\ t < r)
    BY <1>1, <1>2, <1>3, <1>5
  <2>2. CASE size >= 0
    BY <2>2, <1>1, <1>4
  <2>3. CASE size < 0
    <3>1. c <= 0
      BY <2>3, <1>1
    <3>2. c = 0 /\ t < r
      BY <2>1, <3>1, <1>1
    <3>3. r = size
      BY <3>2
    <3> QED BY <2>3, <3>2, <3>3
  <2> QED BY <2>2, <2>3
<1> HIDE DEF r
<1> DEFINE m == MinOf(t, r)
           d == c + 1
           e == IF t > r THEN t - r ELSE 0
<1>7. m \in Nat /\ d \in Nat /\ e \in Nat /\ c \in Nat
  BY <1>1, <1>5, <1>6 DEF MinOf
<1>8. f.index = m * d + (IF t > r THEN e * c ELSE 0)
  BY <1>2
<1> HIDE DEF m, d, e
<1>9. m * d \in Nat /\ e * c \in Nat
  BY <1>7
<1>10. f.index >= 0
  BY <1>8, <1>9
<1> QED BY <1>10 DEF f

\* A share that is not empty starts at an iteration and ends within the loop.
LEMMA ShareOn ==
    ASSUME NEW l \in SlotRecord, NEW n \in Nat \ {0}, NEW t \in Nat, NEW fair \in BOOLEAN,
           Within(l.inc, StaticShare(l, fair, n, t).lower, StaticShare(l, fair, n, t).upper)
    PROVE  On(l.lower, l.inc, StaticShare(l, fair, n, t).lower)
<1> DEFINE inc == l.inc
           low == l.lower
<1>0. inc \in Int \ {0} /\ low \in Int /\ l.upper \in Int /\ Size(l) \in Int
  BY SizeType DEF SlotRecord
<1>1. CASE ~(l.sched = "STATIC_EVEN" /\ fair)
  <2> DEFINE s == CDiv(Size(l) - 1, n) + 1
             x == Block(l, n, t).lower
             w == s * inc
  <2>1. StaticShare(l, fair, n, t) = Block(l, n, t)
    BY <1>1 DEF StaticShare
  <2>2. /\ x = low + t * w
        /\ Block(l, n, t).upper = LoopMin(inc, x + w - inc, l.upper)
    BY DEF Block
  <2>3. s \in Int
    <3>1. Size(l) - 1 \in Int
      BY <1>0
    <3>2. CDiv(Size(l) - 1, n) \in Int
      BY <3>1, DivisionType
    <3> QED BY <3>2
  <2>4. Within(inc, x, LoopMin(inc, x + w - inc, l.upper))
    BY <2>1, <2>2
  <2>5. x \in Int
    BY BlockType
  <2> HIDE DEF s, x, inc, low
  <2>6. w \in Int
    BY <1>0, <2>3
  <2> HIDE DEF w
  <2>7. x + w - inc \in Int
    BY <1>0, <2>5, <2>6
  <2>8. Within(inc, x, x + w - inc)
    BY <1>0, <2>4, <2>5, <2>7, WithinMin
  <2>9. Within(inc, inc, w)
    BY <1>0, <2>5, <2>6, <2>8 DEF Within
  <2>10. s >= 1
    <3> DEFINE one == 1
               zero == 0
    <3>1. zero + one * inc = inc /\ zero + s * inc = w /\ one \in Int /\ zero \in Int
      BY <1>0, <2>3 DEF w
    <3> HIDE DEF one, zero
    <3>2. Within(inc, zero + one * inc, zero + s * inc)
      BY <3>1, <2>9
    <3>3. one <= s
      BY <3>1, <3>2, <2>3, <1>0, Along
    <3> QED BY <3>3, <2>3 DEF one
  <2>11. t * s \in Nat
    BY <2>3, <2>10
  <2>12. t * (s * inc) = (t * s) * inc
    BY <1>0, <2>3
  <2>13. x = low + (t * s) * inc
    BY <2>2, <2>12 DEF w
  <2>14. On(low, inc, x)
    BY <2>11, <2>13 DEF On
  <2> QED BY <2>1, <2>14 DEF x, low, inc
<1>2. CASE l.sched = "STATIC_EVEN" /\ fair
  <2> DEFINE f == FairShare(Size(l), n, t)
             a == f.index
             c == f.chunk
             x == low + a * inc
  <2>1. StaticShare(l, fair, n, t) = FairBlock(l, n, t)
    BY <1>2 DEF StaticShare
  <2>2. /\ FairBlock(l, n, t).lower = x
        /\ FairBlock(l, n, t).upper = LoopMin(inc, x + (c - 1) * inc, l.upper)
    BY DEF FairBlock
  <2>3. a \in Int /\ c \in Int
    BY <1>0, FairShareType
  <2>4. c >= 1 => a >= 0
    BY <1>0, FairIndex
  <2>5. Within(inc, x, LoopMin(inc, x + (c - 1) * inc, l.upper))
    BY <2>1, <2>2
  <2> HIDE DEF inc, low, a, c
  <2>6. x \in Int
    BY <1>0, <2>3, Along
  <2> HIDE DEF x
  <2>7. c - 1 \in Int /\ x + (c - 1) * inc \in Int
    BY <1>0, <2>3, <2>6
  <2>8. Within(inc, x, x + (c - 1) * inc)
    <3> DEFINE y == x + (c - 1) * inc
    <3>1. y \in Int /\ Within(inc, x, LoopMin(inc, y, l.upper))
      BY <2>5, <2>7
    <3> HIDE DEF y
    <3>2. Within(inc, x, y)
      BY <3>1, <1>0, <2>6, WithinMin
    <3> QED BY <3>2 DEF y
  <2>9. c >= 1
    <3> DEFINE zero == 0
               e == c - 1
    <3>1. x + zero * inc = x /\ zero \in Int /\ e \in Int
      BY <1>0, <2>6, <2>7
    <3>2. Within(inc, x + zero * inc, x + e * inc)
      BY <2>8, <3>1
    <3> HIDE DEF zero, e
    <3>3. zero <= e
      BY <3>1, <3>2, <2>6, <1>0, Along
    <3> QED BY <3>3, <2>3 DEF zero, e
  <2>10. a \in Nat
    BY <2>3, <2>4, <2>9
  <2>11. On(low, inc, x)
    BY <2>10 DEF On, x
  <2> QED BY <2>1, <2>2, <2>11 DEF low, inc
<1> QED BY <1>1, <1>2

LEMMA BlockForm ==
    ASSUME NEW l \in SlotRecord, NEW n \in Nat \ {0}, NEW t \in Nat,
           NEW s \in Int, s = CDiv(Size(l) - 1, n) + 1
    PROVE  /\ Block(l, n, t).lower = l.lower + (t * s) * l.inc
           /\ Block(l, n, t).upper = LoopMin(l.inc, l.lower + (t * s + s - 1) * l.inc, l.upper)
<1> DEFINE inc == l.inc
           low == l.lower
           x == (t * s) * inc
           y == s * inc
<1>1. inc \in Int \ {0} /\ low \in Int
  BY DEF SlotRecord
<1>2. /\ Block(l, n, t).lower = low + t * (s * inc)
      /\ Block(l, n, t).upper = LoopMin(inc, low + t * (s * inc) + s * inc - inc, l.upper)
  BY DEF Block
<1> HIDE DEF inc, low
<1>3. /\ t * (s * inc) = x /\ x \in Int /\ y \in Int
      /\ (t * s + s - 1) * inc = x + y - inc
  BY <1>1
<1>4. low + x + y - inc = low + (x + y - inc)
  BY <1>1, <1>3
<1> QED BY <1>2, <1>3, <1>4 DEF inc, low

LEMMA BlockCover ==
    ASSUME NEW l \in SlotRecord, NEW n \in Nat \ {0}, NEW a \in Nat,
           Within(l.inc, l.lower + a * l.inc, l.upper)
    PROVE  \E t \in 0 .. n - 1 :
             /\ Within(l.inc, Block(l, n, t).lower, l.lower + a * l.inc)
             /\ Within(l.inc, l.lower + a * l.inc, Block(l, n, t).upper)
<1> DEFINE size == Size(l)
           c == size - 1
           s == CDiv(c, n) + 1
           inc == l.inc
           low == l.lower
           x == low + a * inc
<1>1. size \in Nat /\ a <= c /\ c \in Nat
  BY NumberBelow
<1>2. inc \in Int \ {0} /\ low \in Int /\ l.upper \in Int
  BY DEF SlotRecord
<1>3. Within(inc, x, l.upper)
  OBVIOUS
<1>4. \A t \in Nat :
        /\ Block(l, n, t).lower = low + (t * s) * inc
        /\ Block(l, n, t).upper = LoopMin(inc, low + (t * s + s - 1) * inc, l.upper)
  <2>1. s \in Int
    BY <1>1, DivisionFacts
  <2> HIDE DEF c
  <2>2. s = CDiv(Size(l) - 1, n) + 1
    BY DEF c
  <2> HIDE DEF s
  <2> QED BY <2>1, <2>2, BlockForm
<1> HIDE DEF size, c, inc, low
<1>5. CDiv(c, n) \in Int /\ CDiv(c, n) >= 0 /\ c < CDiv(c, n) * n + n
  BY <1>1, DivisionFacts
<1>6. s \in Int /\ s >= 1 /\ c < n * s
  <2>1. s \in Int /\ s >= 1
    BY <1>5
  <2>2. n * s = CDiv(c, n) * n + n
    BY <1>5
  <2> QED BY <1>5, <2>1, <2>2
<1> HIDE DEF s
<1>7. PICK t \in Nat : t * s <= a /\ a <= t * s + s - 1
  BY <1>6, Quotient
<1>8. n * s \in Int /\ a < n * s
  BY <1>1, <1>6
<1>9. t < n
  BY <1>6, <1>7, <1>8, QuotientBelow
<1>10. t * s \in Int /\ t * s + s - 1 \in Int
  BY <1>6, <1>7
<1>11. Within(inc, low + (t * s) * inc, x)
  <2> DEFINE e == t * s
  <2>1. e \in Int /\ a \in Int /\ e <= a
    BY <1>7, <1>10
  <2> HIDE DEF e
  <2>2. Within(inc, low + e * inc, low + a * inc)
    BY <1>2, <2>1, Along
  <2> QED BY <2>2 DEF e
<1>12. Within(inc, x, low + (t * s + s - 1) * inc) /\ low + (t * s + s - 1) * inc \in Int /\ x \in Int
  <2> DEFINE g == t * s + s - 1
  <2>1. g \in Int /\ a \in Int /\ a <= g
    BY <1>7, <1>10
  <2> HIDE DEF g
  <2>2. /\ Within(inc, low + a * inc, low + g * inc)
        /\ low + g * inc \in Int /\ low + a * inc \in Int
    BY <1>2, <2>1, Along
  <2> QED BY <2>2 DEF g
<1> DEFINE y == low + (t * s + s - 1) * inc
<1>13. y \in Int /\ Within(inc, x, y) /\ x \in Int
  BY <1>12
<1> HIDE DEF x, y
<1>14. Within(inc, x, LoopMin(inc, y, l.upper))
  BY <1>2, <1>3, <1>13, WithinMin
<1>15. t \in 0 .. n - 1
  BY <1>7, <1>9
<1> QED BY <1>4, <1>7, <1>11, <1>14, <1>15 DEF x, y, inc, low

LEMMA FairCover ==
    ASSUME NEW size \in Nat, NEW n \in Nat \ {0}, NEW a \in Nat, a < size
    PROVE  \E t \in 0 .. n - 1 :
             /\ FairShare(size, n, t).index <= a
             /\ a <= FairShare(size, n, t).index + FairShare(size, n, t).chunk - 1
<1> DEFINE c == CDiv(size, n)
           r == size - c * n
           d == c + 1
<1>1. c \in Int /\ c >= 0 /\ c * n <= size /\ size < c * n + n
  BY DivisionFacts
<1>2. \A t \in Nat :
        /\ FairShare(size, n, t).index = MinOf(t, r) * (c + 1) + (IF t > r THEN (t - r) * c ELSE 0)
        /\ FairShare(size, n, t).chunk = IF t < r THEN c + 1 ELSE c
  BY DEF FairShare
<1> HIDE DEF c
<1>3. c * n \in Int /\ c \in Nat
  BY <1>1
<1>4. r \in Nat /\ r < n /\ size = c * n + r
  <2> DEFINE w == c * n
  <2>1. w \in Int /\ w <= size /\ size < w + n /\ r = size - w
    BY <1>1, <1>3
  <2> HIDE DEF w, r
  <2>2. r \in Nat /\ r < n /\ size = w + r
    BY <2>1
  <2> QED BY <2>2 DEF w
<1> HIDE DEF r
<1>5. d \in Nat /\ d >= 1 /\ r * d \in Nat
  BY <1>3, <1>4
<1>6. CASE a < r * d
  <2>0. d \in Int /\ d >= 1
    BY <1>5
  <2> HIDE DEF d
  <2>1. PICK t \in Nat : t * d <= a /\ a <= t * d + d - 1
    BY <2>0, Quotient
  <2>2. t < r
    BY <1>4, <1>5, <1>6, <2>1, QuotientBelow
  <2>3. FairShare(size, n, t).index = t * d /\ FairShare(size, n, t).chunk = d
    <3>1. MinOf(t, r) = t /\ ~(t > r)
      BY <1>4, <2>2 DEF MinOf
    <3>2. t * d \in Int
      BY <1>5
    <3> QED BY <1>2, <2>2, <3>1, <3>2 DEF d
  <2>4. t \in 0 .. n - 1
    BY <1>4, <2>1, <2>2
  <2> QED BY <2>1, <2>3, <2>4
<1>7. CASE a >= r * d
  <2> DEFINE b == a - r * d
  <2>1. b \in Nat
    BY <1>5, <1>7
  <2>2. size = r * d + (n - r) * c
    <3>1. r * d = r * c + r /\ (n - r) * c = n * c - r * c
      BY <1>3, <1>4
    <3>2. n * c = c * n /\ r * c \in Int /\ n * c \in Int
      BY <1>3, <1>4
    <3> QED BY <3>1, <3>2, <1>4
  <2>3. (n - r) * c \in Int /\ n - r \in Nat
    BY <1>3, <1>4
  <2>4. b < (n - r) * c
    <3> DEFINE v == (n - r) * c
               w == r * d
    <3>1. v \in Int /\ w \in Int /\ size = w + v /\ b = a - w
      BY <1>5, <2>2, <2>3
    <3> HIDE DEF v, w, b
    <3>2. b < v
      BY <3>1
    <3> QED BY <3>2 DEF v
  <2>5. c >= 1
    <3> SUFFICES ASSUME c = 0 PROVE FALSE
      BY <1>3
    <3>1. (n - r) * c = 0
      BY <2>3
    <3> QED BY <2>1, <2>4, <3>1
  <2> HIDE DEF b
  <2>6. PICK q \in Nat : q * c <= b /\ b <= q * c + c - 1
    <3>1. c \in Int /\ c >= 1
      BY <1>3, <2>5
    <3> QED BY <2>1, <3>1, Quotient
  <2>7. q < n - r
    BY <1>3, <2>1, <2>3, <2>4, <2>5, <2>6, QuotientBelow
  <2> DEFINE t == r + q
  <2>8. t \in Nat /\ t \in 0 .. n - 1 /\ ~(t < r) /\ MinOf(t, r) = r /\ t - r = q /\ (t > r <=> q > 0)
    BY <1>4, <2>6, <2>7 DEF MinOf
  <2> HIDE DEF t
  <2>9. q * c \in Int /\ (q = 0 => q * c = 0)
    BY <1>3, <2>6
  <2>10. FairShare(size, n, t).index = r * d + q * c /\ FairShare(size, n, t).chunk = c
    <3>1. /\ FairShare(size, n, t).index = r * d + (IF q > 0 THEN q * c ELSE 0)
          /\ FairShare(size, n, t).chunk = c
      BY <1>2, <2>8
    <3> QED BY <3>1, <2>6, <2>9, <1>5
  <2>11. r * d + q * c <= a /\ a <= r * d + q * c + c - 1
    <3> DEFINE v == q * c
               w == r * d
    <3>1. v \in Int /\ w \in Int /\ b = a - w /\ v <= b /\ b <= v + c - 1
      BY <1>5, <2>6, <2>9 DEF b
    <3> HIDE DEF v, w
    <3>2. w + v <= a /\ a <= w + v + c - 1
      BY <3>1, <1>3, <2>1
    <3> QED BY <3>2 DEF v, w
  <2> QED BY <2>8, <2>10, <2>11
<1> QED BY <1>5, <1>6, <1>7

LEMMA FairBlockCover ==
    ASSUME NEW l \in SlotRecord, NEW n \in Nat \ {0}, NEW a \in Nat,
           Within(l.inc, l.lower + a * l.inc, l.upper)
    PROVE  \E t \in 0 .. n - 1 :
             /\ Within(l.inc, FairBlock(l, n, t).lower, l.lower + a * l.inc)
             /\ Within(l.inc, l.lower + a * l.inc, FairBlock(l, n, t).upper)
<1>1. Size(l) \in Nat /\ a < Size(l)
  BY NumberBelow
<1>2. PICK t \in 0 .. n - 1 :
        /\ FairShare(Size(l), n, t).index <= a
        /\ a <= FairShare(Size(l), n, t).index + FairShare(Size(l), n, t).chunk - 1
  BY <1>1, FairCover
<1> DEFINE i == FairShare(Size(l), n, t).index
           c == FairShare(Size(l), n, t).chunk
           inc == l.inc
           low == l.lower
           x == low + a * inc
           y == low + (i + c - 1) * inc
<1>3. i \in Int /\ c \in Int /\ t \in Nat
  BY <1>1, <1>2, FairShareType
<1>4. inc \in Int \ {0} /\ low \in Int /\ l.upper \in Int
  BY DEF SlotRecord
<1>5. i <= a /\ a <= i + c - 1
  BY <1>2
<1>6. /\ FairBlock(l, n, t).lower = low + i * inc
      /\ FairBlock(l, n, t).upper = LoopMin(inc, low + i * inc + (c - 1) * inc, l.upper)
  BY DEF FairBlock
<1>7. Within(inc, x, l.upper)
  OBVIOUS
<1> HIDE DEF i, c, inc, low
<1>8. low + i * inc + (c - 1) * inc = y
  <2>1. (i + c - 1) * inc = i * inc + (c - 1) * inc /\ i * inc \in Int /\ (c - 1) * inc \in Int
    BY <1>3, <1>4
  <2> QED BY <2>1, <1>4
<1>9. i + c - 1 \in Int
  BY <1>3
<1>10. Within(inc, low + i * inc, x) /\ Within(inc, x, y) /\ x \in Int /\ y \in Int
  <2> DEFINE g == i + c - 1
  <2>1. g \in Int /\ a \in Int /\ a <= g
    BY <1>5, <1>9
  <2> HIDE DEF g
  <2>2. /\ Within(inc, low + a * inc, low + g * inc)
        /\ low + g * inc \in Int /\ low + a * inc \in Int
    BY <1>4, <2>1, Along
  <2>3. Within(inc, low + i * inc, low + a * inc)
    BY <1>3, <1>4, <1>5, <2>1, Along
  <2> QED BY <2>2, <2>3 DEF g
<1> HIDE DEF x, y
<1>11. Within(inc, x, LoopMin(inc, y, l.upper))
  BY <1>4, <1>7, <1>10, WithinMin
<1> QED BY <1>2, <1>6, <1>8, <1>10, <1>11 DEF x, inc, low

LEMMA ShareUpper ==
    ASSUME NEW l \in SlotRecord, NEW n \in Nat \ {0}, NEW t \in Nat, NEW fair \in BOOLEAN
    PROVE  Within(l.inc, StaticShare(l, fair, n, t).upper, l.upper)
<1> DEFINE inc == l.inc
<1>1. inc \in Int \ {0} /\ l.upper \in Int
  BY DEF SlotRecord
<1>2. \A y \in Int : Within(inc, LoopMin(inc, y, l.upper), l.upper)
  BY <1>1, WithinMin
<1>3. CASE l.sched = "STATIC_EVEN" /\ fair
  <2> DEFINE f == FairShare(Size(l), n, t)
             y == l.lower + f.index * inc + (f.chunk - 1) * inc
  <2>1. f \in [index : Int, chunk : Int] /\ l.lower \in Int
    BY SizeType, FairShareType DEF SlotRecord
  <2>2. y \in Int
    <3> DEFINE a == f.index
               c == f.chunk
    <3>1. a \in Int /\ c \in Int
      BY <2>1
    <3> HIDE DEF a, c, inc
    <3>2. a * inc \in Int /\ (c - 1) * inc \in Int
      BY <1>1, <3>1
    <3> QED BY <2>1, <3>2 DEF a, c
  <2>3. StaticShare(l, fair, n, t).upper = LoopMin(inc, y, l.upper)
    BY <1>3 DEF StaticShare, FairBlock
  <2> QED BY <1>2, <2>2, <2>3
<1>4. CASE ~(l.sched = "STATIC_EVEN" /\ fair)
  <2> DEFINE s == CDiv(Size(l) - 1, n) + 1
             y == l.lower + (t * s + s - 1) * inc
  <2>1. s \in Int /\ l.lower \in Int
    <3>1. Size(l) - 1 \in Int /\ n \in Int /\ n # 0
      BY SizeType
    <3>2. CDiv(Size(l) - 1, n) \in Int
      BY <3>1, DivisionType
    <3> QED BY <3>2 DEF SlotRecord
  <2>2. Block(l, n, t).upper = LoopMin(inc, y, l.upper)
    BY <2>1, BlockForm
  <2>3. y \in Int
    <3> HIDE DEF s, inc
    <3> QED BY <1>1, <2>1
  <2>4. StaticShare(l, fair, n, t) = Block(l, n, t)
    BY <1>4 DEF StaticShare
  <2> QED BY <1>2, <2>2, <2>3, <2>4
<1> QED BY <1>3, <1>4

\* Where a thread of a static schedule is when it asks for the i-th time.
LEMMA StaticNext ==
    ASSUME NEW i \in Nat, NEW c \in Nat \ {0}, NEW inc \in Int \ {0}, NEW b \in Int
    PROVE  LET x0 == b + (i * c) * inc
               x1 == b + ((i + 1) * c) * inc
               e == x0 + (c - 1) * inc
           IN /\ x0 \in Int /\ x1 \in Int /\ e \in Int
              /\ i * c \in Nat /\ (i + 1) * c \in Nat
              /\ Within(inc, b, x0) /\ Within(inc, x0, x1)
              /\ e = x1 - inc
              /\ i = 0 => x0 = b
<1> DEFINE m == i * c
           n == (i + 1) * c
           p == m * inc
           w == c * inc
           v == (c - 1) * inc
           z == n * inc
           x0 == b + p
           x1 == b + z
           e == x0 + v
<1>1. m \in Nat /\ n \in Nat /\ n = m + c /\ (i = 0 => m = 0)
  OBVIOUS
<1> HIDE DEF m, n
<1>2. z = p + w /\ p \in Int /\ z \in Int /\ (m = 0 => p = 0)
  BY <1>1
<1>3. v = w - inc /\ w \in Int /\ v \in Int
  OBVIOUS
<1>4. Within(inc, b, b + m * inc)
  BY <1>1, Ahead
<1>5. \A y \in Int : Within(inc, y, y + c * inc)
  BY Ahead
<1>6. Within(inc, b, x0) /\ \A y \in Int : Within(inc, y, y + w)
  BY <1>4, <1>5
<1> HIDE DEF p, w, v, z
<1>7. /\ x0 \in Int /\ x1 \in Int /\ e \in Int /\ x1 = x0 + w
      /\ e = x1 - inc /\ (i = 0 => x0 = b)
  BY <1>1, <1>2, <1>3
<1>8. Within(inc, x0, x1)
  BY <1>6, <1>7
<1> QED BY <1>1, <1>6, <1>7, <1>8 DEF p, v, z, m, n
=============================================================================
