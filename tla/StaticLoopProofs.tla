-------------------------- MODULE StaticLoopProofs --------------------------
(***************************************************************************)
(* Proofs about the statically scheduled loops, for any team, any loop and *)
(* any width of the DO variable: as long as the DO variable does not       *)
(* overflow, every iteration is run exactly once, and the thread that has  *)
(* run the last one finds out, but for the loops of LimitMissed.           *)
(***************************************************************************)
EXTENDS StaticLoop, ScheduleLemmas, TLAPS

Representable == MinInt .. MaxInt
Lo == loop.lower
Up == loop.upper
Inc == loop.inc

\* Iterations are told apart by their number: k is the number of one.
IsNumber(k) == k \in Nat /\ Within(Inc, Lo + k * Inc, Up)

\* The j-th chunk of thread t starts at this number.
Start(t, j) == (t + j * team_size) * loop.chunk

\* The share of thread t in an even schedule.
EvenOf(t) == IF static_fair THEN FairShare(Size(loop), team_size, t)
                            ELSE EvenShare(Size(loop), team_size, t)

InChunk(t, j, k) == Start(t, j) <= k /\ k <= Start(t, j) + loop.chunk - 1

InEven(t, k) == EvenOf(t).index <= k /\ k <= EvenOf(t).index + EvenOf(t).chunk - 1

\* Iteration k is one that thread t has to run.
Owns(t, k) ==
    \/ team_size = 1
    \/ team_size > 1 /\ loop.sched = "STATIC_EVEN" /\ InEven(t, k)
    \/ team_size > 1 /\ loop.sched = "STATIC" /\ \E j \in Nat : InChunk(t, j, k)

\* Iteration k is behind the thread that runs now, if it owns it.
Passed(k) == pc = "done" \/ (pc = "STATIC" /\ Before(Inc, Lo + k * Inc, lower))

HasRun(t, k) == t < local_id \/ (t = local_id /\ Passed(k))

RanRight ==
    /\ ran \subseteq (0 .. team_size - 1) \X Int
    /\ \A t \in 0 .. team_size - 1, x \in Int :
        <<t, x>> \in ran <=>
            \E k \in Nat : x = Lo + k * Inc /\ IsNumber(k) /\ Owns(t, k) /\ HasRun(t, k)

\* The last iteration.
IsLast(k) == IsNumber(k) /\ ~IsNumber(k + 1)

Through(t) == t < local_id \/ (t = local_id /\ pc = "done")

LastRight ==
    \A k \in Nat : IsLast(k) =>
        \A t \in 0 .. team_size - 1 : t \in last <=> Through(t) /\ ~LimitMissed /\ Owns(t, k)

\* The number of the first iteration that thread t may run, in a team of more
\* than one; a thread for which there is none is idle.
FirstNumber(t) == IF loop.sched = "STATIC" THEN Start(t, 0) ELSE EvenOf(t).index

Busy == IsNumber(FirstNumber(local_id))

Stride == team_size * loop.chunk * Inc

\* A team of one: the whole loop, or the end.
AloneRight ==
    /\ stride = Wrap(AloneStride(loop))
    /\ \/ lower = Lo /\ upper = Up
       \/ /\ lower = Up + (IF Inc > 0 THEN 1 ELSE -1)
          /\ upper = Wrap(Up + AloneStride(loop))

\* A thread at its j-th chunk.
ChunkRight(j) ==
    /\ lower = Lo + Start(local_id, j) * Inc
    /\ j = 0 => upper = LoopMin(Inc, lower + (loop.chunk - 1) * Inc, Up)
    /\ j > 0 => /\ IsNumber(Start(local_id, j - 1))
                /\ upper = LoopMin(Inc, lower + (loop.chunk - 1) * Inc, Up + Stride)

\* A thread that is idle moves an empty range through the loop.
IdleRight ==
    /\ stride = Wrap(Inc)
    /\ upper = lower - Inc
    /\ {lower, upper} \subseteq Representable
    /\ lower = Lo - Inc \/ lower - 2 * Inc \in Representable

StaticRight ==
    /\ team_size = 1 => AloneRight
    /\ team_size > 1 /\ Busy => stride = Wrap(Stride) /\ \E j \in Nat : ChunkRight(j)
    /\ team_size > 1 /\ ~Busy => IdleRight

EvenRight ==
    /\ team_size = 1 => lower = Lo /\ upper = Up
    /\ team_size > 1 /\ Busy =>
        /\ lower = Lo + FirstNumber(local_id) * Inc
        /\ upper = LoopMin(Inc, lower + (EvenOf(local_id).chunk - 1) * Inc, Up)
    /\ team_size > 1 /\ ~Busy => lower = Lo - Inc /\ upper = Lo - 2 * Inc

RangeRight ==
    /\ pc = "STATIC" => StaticRight
    /\ pc = "STATIC_EVEN" => EvenRight

Types ==
    /\ loop \in Loops
    /\ team_size \in Teams
    /\ static_fair \in BOOLEAN
    /\ local_id \in 0 .. team_size - 1
    /\ pc \in {"init", "STATIC", "STATIC_EVEN", "done", "abort"}
    /\ pc \in {"STATIC", "STATIC_EVEN"} => pc = loop.sched
    /\ pc = "STATIC_EVEN" /\ team_size > 1 => Size(loop) >= 0
    /\ pc = "abort" => team_size > 1 /\ loop.sched = "STATIC_EVEN" /\ Size(loop) < 0
    /\ lower \in Int /\ upper \in Int /\ stride \in Int
    /\ last \subseteq 0 .. team_size - 1

\* The inductive invariant.
StaticInv ==
    /\ Types
    /\ Headroom => twice = {} /\ RanRight /\ LastRight /\ RangeRight
-----------------------------------------------------------------------------
(***************************************************************************)
(* The conversion to the type of the DO variable                           *)
(***************************************************************************)
LEMMA WidthFacts ==
    /\ MinInt \in Int /\ MaxInt \in Int
    /\ 2 ^ Bits \in Int /\ 2 ^ Bits > 0
    /\ MaxInt - MinInt = 2 ^ Bits - 1
    /\ Representable \subseteq Int
<1> DEFINE h == 2 ^ (Bits - 1)
           m == 2 ^ Bits
<1>1. h \in Nat \ {0} /\ m = 2 * h
  BY PowerAssumption
<1>2. MinInt = 0 - h /\ MaxInt = h - 1
  BY <1>1 DEF MinInt, MaxInt
<1> HIDE DEF h, m
<1>3. m \in Int /\ m > 0 /\ MinInt \in Int /\ MaxInt \in Int /\ MaxInt - MinInt = m - 1
  BY <1>1, <1>2
<1> QED BY <1>3 DEF m, Representable

LEMMA WrapForm ==
    ASSUME NEW x \in Int
    PROVE  Wrap(x) \in Int /\ \E q \in Int : Wrap(x) = x + 2 ^ Bits * q
<1> DEFINE m == 2 ^ Bits
           a == x - MinInt
           d == a \div m
           r == a % m
<1>1. m \in Int /\ m > 0 /\ MinInt \in Int
  BY WidthFacts
<1> HIDE DEF m
<1>2. a \in Int
  BY <1>1
<1> HIDE DEF a
<1>3. a = m * d + r /\ d \in Int /\ r \in 0 .. m - 1
  BY <1>1, <1>2, DivMod
<1>4. Wrap(x) = r + MinInt
  BY DEF Wrap, a, m
<1> HIDE DEF d, r
<1> DEFINE q == 0 - d
<1>5. q \in Int /\ m * q = 0 - m * d /\ m * d \in Int
  BY <1>1, <1>3
<1> HIDE DEF q
<1>6. r + MinInt = x + m * q
  BY <1>1, <1>3, <1>5 DEF a
<1> QED BY <1>1, <1>3, <1>4, <1>5, <1>6 DEF m

LEMMA WrapShift ==
    ASSUME NEW x \in Int, NEW q \in Int
    PROVE  Wrap(x + 2 ^ Bits * q) = Wrap(x)
<1> DEFINE m == 2 ^ Bits
           a == x - MinInt
<1>1. m \in Int /\ m > 0 /\ MinInt \in Int
  BY WidthFacts
<1> HIDE DEF m
<1>2. a \in Int
  BY <1>1
<1> DEFINE p == m * q
<1>3. p \in Int /\ (x + p) - MinInt = a + p
  BY <1>1, ProductType
<1> HIDE DEF a
<1>4. (a + m * q) % m = a % m
  BY <1>1, <1>2, ModShift
<1>5. Wrap(x + p) = ((a + p) % m) + MinInt
  BY <1>3 DEF Wrap, m
<1>6. Wrap(x) = (a % m) + MinInt
  BY DEF Wrap, m, a
<1> QED BY <1>4, <1>5, <1>6 DEF m

LEMMA WrapSame ==
    ASSUME NEW x \in Representable
    PROVE  Wrap(x) = x
<1> DEFINE m == 2 ^ Bits
           a == x - MinInt
<1>1. m \in Int /\ m > 0 /\ MinInt \in Int /\ MaxInt \in Int /\ MaxInt - MinInt = m - 1
  BY WidthFacts
<1> HIDE DEF m
<1>2. a \in Int /\ 0 <= a /\ a < m /\ x = a + MinInt
  BY <1>1 DEF Representable
<1>3. Wrap(x) = (a % m) + MinInt
  BY DEF Wrap, m, a
<1> HIDE DEF a
<1> DEFINE zero == 0
<1>4. zero \in Int /\ m * zero + a = a
  BY <1>1, <1>2
<1> HIDE DEF zero
<1>5. (m * zero + a) % m = a
  BY <1>1, <1>2, <1>4, ModUnique
<1> QED BY <1>2, <1>3, <1>4, <1>5

\* Sums and differences of converted values can be converted at the end.
LEMMA WrapSum ==
    ASSUME NEW x \in Int, NEW y \in Int
    PROVE  /\ Wrap(x + Wrap(y)) = Wrap(x + y)
           /\ Wrap(x - Wrap(y)) = Wrap(x - y)
           /\ Wrap(Wrap(x) - Wrap(y)) = Wrap(x - y)
<1> DEFINE m == 2 ^ Bits
<1>1. PICK q \in Int : Wrap(y) = y + m * q
  BY WrapForm
<1>2. PICK p \in Int : Wrap(x) = x + m * p
  BY WrapForm
<1>3. m \in Int
  BY WidthFacts
<1>4. \A z \in Int, k \in Int : Wrap(z + m * k) = Wrap(z)
  BY WrapShift
<1> HIDE DEF m
<1>5. /\ x + (y + m * q) = (x + y) + m * q
      /\ x - (y + m * q) = (x - y) + m * (0 - q)
      /\ (x + m * p) - (y + m * q) = (x - y) + m * (p - q)
      /\ x + y \in Int /\ x - y \in Int /\ 0 - q \in Int /\ p - q \in Int
  BY <1>1, <1>2, <1>3
<1> DEFINE v == 0 - q
           w == p - q
           s == x + y
           e == x - y
<1>6. v \in Int /\ w \in Int /\ s \in Int /\ e \in Int
  BY <1>5
<1>7. /\ x + Wrap(y) = s + m * q
      /\ x - Wrap(y) = e + m * v
      /\ Wrap(x) - Wrap(y) = e + m * w
  BY <1>1, <1>2, <1>5
<1> HIDE DEF v, w, s, e
<1>8. /\ Wrap(s + m * q) = Wrap(s) /\ Wrap(e + m * v) = Wrap(e)
      /\ Wrap(e + m * w) = Wrap(e)
  BY <1>4, <1>6
<1> QED BY <1>7, <1>8 DEF s, e

\* What lies between representable values is representable.
LEMMA Between ==
    ASSUME NEW x \in Representable, NEW y \in Representable, NEW z \in Int,
           NEW inc \in Int \ {0}, Within(inc, x, z), Within(inc, z, y)
    PROVE  z \in Representable
<1>1. MinInt \in Int /\ MaxInt \in Int
  BY WidthFacts
<1> QED BY <1>1 DEF Representable, Within
-----------------------------------------------------------------------------
(***************************************************************************)
(* Iterations by their number                                              *)
(***************************************************************************)
LEMMA LoopFacts ==
    ASSUME Types
    PROVE  /\ Inc \in Int \ {0} /\ loop.chunk \in Nat \ {0}
           /\ loop.sched \in {"STATIC", "STATIC_EVEN"}
           /\ Lo \in Representable /\ Up \in Representable /\ Up + Inc \in Representable
           /\ Lo \in Int /\ Up \in Int
           /\ team_size \in Nat \ {0} /\ static_fair \in BOOLEAN
           /\ local_id \in Nat /\ local_id < team_size
<1>1. loop \in Loops /\ team_size \in Teams /\ static_fair \in BOOLEAN
      /\ local_id \in 0 .. team_size - 1
  BY DEF Types
<1>2. /\ Inc \in Int \ {0} /\ loop.chunk \in Nat \ {0}
      /\ loop.sched \in {"STATIC", "STATIC_EVEN"}
      /\ Lo \in Representable /\ Up \in Representable /\ Up + Inc \in Representable
  BY <1>1, StaticLoopAssumption DEF Lo, Up, Inc, Representable
<1>3. team_size \in Nat \ {0}
  BY <1>1, StaticLoopAssumption
<1> QED BY <1>1, <1>2, <1>3, WidthFacts

\* The k-th iterations of two numbers are in the order of the numbers.
LEMMA NumberOrder ==
    ASSUME Types, NEW a \in Int, NEW b \in Int
    PROVE  /\ Lo + a * Inc \in Int
           /\ Within(Inc, Lo + a * Inc, Lo + b * Inc) <=> a <= b
           /\ Before(Inc, Lo + a * Inc, Lo + b * Inc) <=> a < b
           /\ Lo + a * Inc = Lo + b * Inc => a = b
<1>1. Lo \in Int /\ Inc \in Int \ {0}
  BY LoopFacts
<1>2. /\ Lo + a * Inc \in Int /\ Lo + b * Inc \in Int
      /\ Within(Inc, Lo + a * Inc, Lo + b * Inc) <=> a <= b
      /\ Within(Inc, Lo + b * Inc, Lo + a * Inc) <=> b <= a
      /\ Before(Inc, Lo + a * Inc, Lo + b * Inc) <=> a < b
  BY <1>1, Along
<1> DEFINE x == Lo + a * Inc
           y == Lo + b * Inc
<1>3. x = y => Within(Inc, x, y) /\ Within(Inc, y, x)
  <2> HIDE DEF x
  <2> QED BY <1>1, <1>2, WithinSelf
<1> QED BY <1>2, <1>3

LEMMA NumberDown ==
    ASSUME Types, NEW a \in Nat, NEW b \in Int, a <= b, Within(Inc, Lo + b * Inc, Up)
    PROVE  IsNumber(a)
<1> DEFINE x == Lo + a * Inc
           y == Lo + b * Inc
<1>1. x \in Int /\ y \in Int /\ Within(Inc, x, y)
  BY NumberOrder
<1>2. Within(Inc, y, Up)
  OBVIOUS
<1>3. Inc \in Int \ {0} /\ Up \in Int
  BY LoopFacts
<1> HIDE DEF x, y
<1>4. Within(Inc, x, Up)
  BY <1>1, <1>2, <1>3, WithinFacts
<1> QED BY <1>4 DEF IsNumber, x

\* The numbers of the iterations.
LEMMA NumberSize ==
    ASSUME Types
    PROVE  /\ Size(loop) \in Int
           /\ Within(Inc, Lo, Up) =>
                /\ Size(loop) \in Nat \ {0}
                /\ \A k \in Nat : IsNumber(k) <=> k <= Size(loop) - 1
           /\ ~Within(Inc, Lo, Up) => \A k \in Nat : ~IsNumber(k)
<1>1. Lo \in Int /\ Up \in Int /\ Inc \in Int \ {0}
  BY LoopFacts
<1> DEFINE d == Up - Lo
           q == CDiv(d, Inc)
<1>2. d \in Int /\ Size(loop) = q + 1
  BY <1>1 DEF Size, Lo, Up, Inc
<1>3. q \in Int
  BY <1>1, <1>2, DivisionType
<1>4. ASSUME Within(Inc, Lo, Up)
      PROVE  q \in Nat /\ \A k \in Nat : IsNumber(k) <=> k <= q
  <2>1. Within(Inc, 0, d)
    BY <1>1, <1>4 DEF Within
  <2> HIDE DEF d
  <2>2. q \in Nat /\ \A k \in Nat : k <= q <=> Within(Inc, k * Inc, d)
    BY <1>1, <1>2, <2>1, CountFacts
  <2>3. ASSUME NEW k \in Nat PROVE Within(Inc, k * Inc, d) <=> Within(Inc, Lo + k * Inc, Up)
    <3> DEFINE x == k * Inc
    <3>1. x \in Int
      BY <1>1, ProductType
    <3> HIDE DEF x
    <3>2. Within(Inc, x, d) <=> Within(Inc, Lo + x, Up)
      BY <1>1, <3>1 DEF Within, d
    <3> QED BY <3>2 DEF x
  <2> QED BY <2>2, <2>3 DEF IsNumber
<1>5. ASSUME ~Within(Inc, Lo, Up), NEW k \in Nat, IsNumber(k) PROVE FALSE
  <2> DEFINE zero == 0
  <2>1. zero \in Nat /\ zero <= k /\ Lo + zero * Inc = Lo
    BY <1>1
  <2> HIDE DEF zero
  <2>2. IsNumber(zero)
    BY <1>5, <2>1, NumberDown DEF IsNumber
  <2> QED BY <1>5, <2>1, <2>2 DEF IsNumber
<1> HIDE DEF q
<1>6. q \in Nat => q + 1 \in Nat \ {0} /\ (q + 1) - 1 = q
  OBVIOUS
<1> QED BY <1>2, <1>3, <1>4, <1>5, <1>6

LEMMA AllAre ==
    ASSUME Types, NEW x
    PROVE  x \in AllIterations <=> \E k \in Nat : x = Lo + k * Inc /\ IsNumber(k)
<1>1. Lo \in Int /\ Up \in Int /\ Inc \in Int \ {0}
  BY LoopFacts
<1>2. x \in Iterations(Lo, Up, Inc) <=> On(Lo, Inc, x) /\ Within(Inc, x, Up)
  BY <1>1, IterationsOn
<1> QED BY <1>2 DEF AllIterations, On, IsNumber, Lo, Up, Inc

\* The DO loop from the a-th iteration to the b-th.
LEMMA BodyAre ==
    ASSUME Types, NEW a \in Nat, NEW b \in Int, NEW x
    PROVE  x \in Iterations(Lo + a * Inc, LoopMin(Inc, Lo + b * Inc, Up), Inc) <=>
             \E k \in Nat : x = Lo + k * Inc /\ IsNumber(k) /\ a <= k /\ k <= b
<1>1. Lo \in Int /\ Up \in Int /\ Inc \in Int \ {0}
  BY LoopFacts
<1> DEFINE from == Lo + a * Inc
           to == Lo + b * Inc
<1>2. from \in Int /\ to \in Int
  BY NumberOrder
<1>3. /\ LoopMin(Inc, to, Up) \in Int
      /\ \A y \in Int : Within(Inc, y, LoopMin(Inc, to, Up)) <=> Within(Inc, y, to) /\ Within(Inc, y, Up)
  <2> HIDE DEF to
  <2> QED BY <1>1, <1>2, WithinMin
<1>4. x \in Iterations(from, LoopMin(Inc, to, Up), Inc) <=>
        On(from, Inc, x) /\ Within(Inc, x, LoopMin(Inc, to, Up))
  <2> HIDE DEF from
  <2> QED BY <1>1, <1>2, <1>3, IterationsOn
<1>5. ASSUME NEW k \in Nat, x = Lo + k * Inc, IsNumber(k), a <= k, k <= b
      PROVE  On(from, Inc, x) /\ Within(Inc, x, LoopMin(Inc, to, Up))
  <2>1. from + (k - a) * Inc = Lo + k * Inc /\ k - a \in Nat
    BY <1>1, <1>5
  <2>2. On(from, Inc, x)
    BY <2>1, <1>5 DEF On
  <2>3. x \in Int /\ Within(Inc, x, to)
    BY <1>5, NumberOrder
  <2>4. Within(Inc, x, Up)
    BY <1>5 DEF IsNumber
  <2> QED BY <1>3, <2>2, <2>3, <2>4
<1>6. ASSUME On(from, Inc, x), Within(Inc, x, LoopMin(Inc, to, Up))
      PROVE  \E k \in Nat : x = Lo + k * Inc /\ IsNumber(k) /\ a <= k /\ k <= b
  <2>1. PICK i \in Nat : x = from + i * Inc
    BY <1>6 DEF On
  <2> DEFINE k == a + i
  <2>2. k \in Nat /\ a <= k /\ x = Lo + k * Inc
    BY <1>1, <2>1
  <2> HIDE DEF k
  <2>3. x \in Int
    BY <2>2, NumberOrder
  <2>4. Within(Inc, x, to) /\ Within(Inc, x, Up)
    BY <1>3, <1>6, <2>3
  <2>5. k <= b
    BY <2>2, <2>4, NumberOrder
  <2> QED BY <2>2, <2>4, <2>5 DEF IsNumber
<1> QED BY <1>4, <1>5, <1>6
-----------------------------------------------------------------------------
(***************************************************************************)
(* Every iteration belongs to exactly one thread                           *)
(***************************************************************************)
LEMMA StartType ==
    ASSUME Types, NEW t \in Nat, NEW j \in Nat
    PROVE  /\ Start(t, j) \in Nat
           /\ Start(t, j + 1) = Start(t, j) + team_size * loop.chunk
           /\ team_size * loop.chunk \in Nat /\ team_size * loop.chunk >= loop.chunk
<1> DEFINE c == loop.chunk
           n == team_size
           a == t + j * n
<1>1. c \in Nat \ {0} /\ n \in Nat \ {0}
  BY LoopFacts
<1> HIDE DEF c, n
<1>2. a \in Nat /\ t + (j + 1) * n = a + n
  BY <1>1
<1>3. Start(t, j) = a * c /\ Start(t, j + 1) = (t + (j + 1) * n) * c
  BY DEF Start, a, c, n
<1> HIDE DEF a
<1>4. a * c \in Nat /\ (a + n) * c = a * c + n * c /\ n * c \in Nat
  BY <1>1, <1>2
<1>5. n * c >= c
  BY <1>1, TimesAtLeast
<1> QED BY <1>2, <1>3, <1>4, <1>5 DEF n, c

\* The chunks of a thread are in the order of their numbers, and apart.
LEMMA StartOrder ==
    ASSUME Types, NEW t \in Nat, NEW i \in Nat, NEW j \in Nat, i < j
    PROVE  Start(t, i) + team_size * loop.chunk <= Start(t, j)
<1> DEFINE c == loop.chunk
           n == team_size
           a == t + i * n
           b == t + j * n
           d == j - i
<1>1. c \in Nat \ {0} /\ n \in Nat \ {0}
  BY LoopFacts
<1>2. Start(t, i) = a * c /\ Start(t, j) = b * c
  BY DEF Start
<1> HIDE DEF c, n
<1>3. b - a = d * n /\ a \in Int /\ b \in Int /\ d \in Int /\ d >= 1
  BY <1>1
<1>4. d * n >= n
  BY <1>1, <1>3, TimesAtLeast
<1> DEFINE e == b - a - n
<1>5. e \in Nat /\ b = a + n + e
  BY <1>1, <1>3, <1>4
<1> HIDE DEF a, b, e
<1>6. (a + n + e) * c = a * c + n * c + e * c /\ e * c \in Nat /\ a * c \in Int /\ n * c \in Int
  BY <1>1, <1>3, <1>5
<1> DEFINE u == a * c
           v == n * c
           w == e * c
<1>7. w \in Nat /\ u \in Int /\ v \in Int /\ b * c = u + v + w
  BY <1>5, <1>6
<1> HIDE DEF u, v, w
<1>8. u + v <= u + v + w
  BY <1>7
<1> QED BY <1>2, <1>7, <1>8 DEF u, v, n, c

\* The shares of the even schedules.
LEMMA EvenType ==
    ASSUME Types, NEW t \in Nat
    PROVE  /\ EvenOf(t).index \in Int /\ EvenOf(t).chunk \in Int
           /\ Size(loop) >= 0 => EvenOf(t).index >= 0 /\ EvenOf(t).chunk >= 0
<1> DEFINE s == Size(loop)
           n == team_size
<1>1. s \in Int /\ n \in Nat \ {0} /\ static_fair \in BOOLEAN
  BY LoopFacts, NumberSize
<1>2. EvenOf(t) = IF static_fair THEN FairShare(s, n, t) ELSE EvenShare(s, n, t)
  BY DEF EvenOf
<1> HIDE DEF s, n
<1>3. CASE static_fair
  <2> DEFINE c == CDiv(s, n)
             r == s - c * n
             f == FairShare(s, n, t)
  <2>1. f.index \in Int /\ f.chunk \in Int
    BY <1>1, FairShareType
  <2>2. c \in Int /\ (s >= 0 => c >= 0 /\ c * n <= s)
    BY <1>1, DivisionFacts
  <2>3. /\ f.index = MinOf(t, r) * (c + 1) + (IF t > r THEN (t - r) * c ELSE 0)
        /\ f.chunk = IF t < r THEN c + 1 ELSE c
    BY DEF FairShare
  <2> HIDE DEF c, f
  <2>4. ASSUME s >= 0 PROVE f.index >= 0 /\ f.chunk >= 0
    <3>1. c \in Nat /\ r \in Nat
      <4> DEFINE p == c * n
      <4>1. p \in Int /\ p <= s
        BY <1>1, <2>2, <2>4
      <4> HIDE DEF p
      <4>2. s - p \in Nat
        BY <1>1, <4>1
      <4> QED BY <2>2, <2>4, <4>2 DEF p
    <3> HIDE DEF r
    <3>2. MinOf(t, r) \in Nat
      BY <3>1 DEF MinOf
    <3> DEFINE x == MinOf(t, r)
               y == c + 1
    <3>3. x \in Nat /\ y \in Nat
      BY <3>1, <3>2
    <3> HIDE DEF x, y
    <3>4. x * y \in Nat
      BY <3>3
    <3> DEFINE z == t - r
    <3>5. t > r => z \in Nat
      BY <3>1
    <3> HIDE DEF z
    <3>6. t > r => z * c \in Nat
      BY <3>1, <3>5
    <3> DEFINE v == x * y
               w == z * c
    <3>7. v \in Nat /\ (t > r => w \in Nat) /\ f.index = v + (IF t > r THEN w ELSE 0)
      BY <2>3, <3>4, <3>6 DEF x, y, z
    <3> HIDE DEF v, w
    <3>8. f.index >= 0
      BY <3>7
    <3>9. f.chunk >= 0
      BY <2>3, <3>1
    <3> QED BY <3>8, <3>9
  <2> QED BY <1>2, <1>3, <2>1, <2>4 DEF s, f
<1>4. CASE ~static_fair
  <2> DEFINE c == CDiv(s + n - 1, n)
             f == EvenShare(s, n, t)
  <2>1. s + n - 1 \in Int /\ (s >= 0 => s + n - 1 >= 0)
    BY <1>1
  <2>2. c \in Int /\ (s >= 0 => c >= 0)
    BY <1>1, <2>1, DivisionFacts
  <2>3. f.index = t * c /\ f.chunk = c
    BY DEF EvenShare
  <2> HIDE DEF c, f
  <2>4. t * c \in Int /\ (c >= 0 => t * c >= 0)
    BY <2>2
  <2> QED BY <1>2, <1>4, <2>2, <2>3, <2>4 DEF s, f
<1> QED BY <1>1, <1>3, <1>4

LEMMA EvenApart ==
    ASSUME Types, NEW t \in Nat, NEW u \in Nat, t < u, EvenOf(t).chunk >= 1
    PROVE  EvenOf(t).index + EvenOf(t).chunk <= EvenOf(u).index
<1> DEFINE s == Size(loop)
           n == team_size
<1>1. s \in Int /\ n \in Nat \ {0} /\ static_fair \in BOOLEAN
  BY LoopFacts, NumberSize
<1>2. \A i \in Nat : EvenOf(i) = IF static_fair THEN FairShare(s, n, i) ELSE EvenShare(s, n, i)
  BY DEF EvenOf
<1> HIDE DEF s, n
<1>3. CASE static_fair
  <2>1. EvenOf(t) = FairShare(s, n, t) /\ EvenOf(u) = FairShare(s, n, u)
    BY <1>2, <1>3
  <2>2. FairShare(s, n, t).index + FairShare(s, n, t).chunk <= FairShare(s, n, u).index
    BY <1>1, <2>1, FairSharesApart
  <2> QED BY <2>1, <2>2
<1>4. CASE ~static_fair
  <2> DEFINE c == CDiv(s + n - 1, n)
  <2>1. /\ EvenOf(t).index = t * c /\ EvenOf(t).chunk = c /\ EvenOf(u).index = u * c
    BY <1>2, <1>4 DEF EvenShare
  <2>2. c \in Int
    <3>1. s + n - 1 \in Int
      BY <1>1
    <3> QED BY <1>1, <3>1, DivisionFacts
  <2> HIDE DEF c
  <2> DEFINE d == u - t
  <2>3. d \in Int /\ d >= 1 /\ c >= 1 /\ u * c = t * c + d * c
    BY <2>1, <2>2
  <2> HIDE DEF d
  <2>4. d * c >= c /\ d * c \in Int /\ t * c \in Int
    BY <2>2, <2>3, TimesAtLeast
  <2> DEFINE x == t * c
             y == d * c
  <2>5. x \in Int /\ y \in Int /\ y >= c /\ u * c = x + y
    BY <2>3, <2>4
  <2> HIDE DEF x, y
  <2>6. x + c <= x + y
    BY <2>2, <2>5
  <2> QED BY <2>1, <2>5, <2>6 DEF x
<1> QED BY <1>1, <1>3, <1>4

\* Chunks of the same size that share a number are the same.
LEMMA ChunkUnique ==
    ASSUME NEW a \in Int, NEW b \in Int, NEW c \in Nat \ {0}, NEW k \in Int,
           a * c <= k, k <= a * c + c - 1, b * c <= k, k <= b * c + c - 1
    PROVE  a = b
<1>1. ASSUME NEW x \in Int, NEW y \in Int, x < y, k <= x * c + c - 1, y * c <= k
      PROVE  FALSE
  <2> DEFINE d == y - x
  <2>1. d \in Int /\ d >= 1 /\ y * c = x * c + d * c
    BY <1>1
  <2> HIDE DEF d
  <2>2. d * c >= c /\ d * c \in Int /\ x * c \in Int
    BY <2>1, TimesAtLeast
  <2> DEFINE v == x * c
             w == d * c
  <2>3. v \in Int /\ w \in Int /\ w >= c /\ y * c = v + w /\ k <= v + c - 1
    BY <1>1, <2>1, <2>2
  <2> HIDE DEF v, w
  <2> QED BY <1>1, <2>3
<1>2. ~(a < b) /\ ~(b < a)
  BY <1>1
<1> QED BY <1>2

LEMMA OwnsApart ==
    ASSUME Types, NEW t \in 0 .. team_size - 1, NEW u \in 0 .. team_size - 1, NEW k \in Nat,
           Owns(t, k), Owns(u, k)
    PROVE  t = u
<1> DEFINE n == team_size
           c == loop.chunk
<1>1. n \in Nat \ {0} /\ c \in Nat \ {0}
  BY LoopFacts
<1>2. t \in Nat /\ u \in Nat /\ t < n /\ u < n
  BY <1>1
<1>3. CASE n = 1
  BY <1>2, <1>3
<1>4. CASE n > 1 /\ loop.sched = "STATIC_EVEN"
  <2>1. InEven(t, k) /\ InEven(u, k)
    BY <1>1, <1>4 DEF Owns
  <2>2. ASSUME NEW v \in Nat, NEW w \in Nat, v < w, InEven(v, k), InEven(w, k) PROVE FALSE
    <3>1. /\ EvenOf(v).index \in Int /\ EvenOf(v).chunk \in Int
          /\ EvenOf(w).index \in Int /\ EvenOf(w).chunk \in Int
      BY EvenType
    <3>2. /\ EvenOf(v).index <= k /\ k <= EvenOf(v).index + EvenOf(v).chunk - 1
          /\ EvenOf(w).index <= k
      BY <2>2 DEF InEven
    <3>3. EvenOf(v).chunk >= 1
      BY <3>1, <3>2
    <3>4. EvenOf(v).index + EvenOf(v).chunk <= EvenOf(w).index
      BY <2>2, <3>3, EvenApart
    <3> QED BY <3>1, <3>2, <3>4
  <2> QED BY <1>2, <2>1, <2>2
<1>5. CASE n > 1 /\ loop.sched = "STATIC"
  <2>1. PICK i \in Nat : InChunk(t, i, k)
    BY <1>1, <1>5 DEF Owns
  <2>2. PICK j \in Nat : InChunk(u, j, k)
    BY <1>1, <1>5 DEF Owns
  <2> DEFINE a == t + i * n
             b == u + j * n
  <2>3. /\ a * c <= k /\ k <= a * c + c - 1
        /\ b * c <= k /\ k <= b * c + c - 1
    BY <2>1, <2>2 DEF InChunk, Start
  <2> HIDE DEF n, c
  <2>4. a \in Int /\ b \in Int
    BY <1>1, <1>2
  <2>5. a = b
    <3> HIDE DEF a, b
    <3> QED BY <1>1, <2>3, <2>4, ChunkUnique
  <2>6. (n * i + t) % n = t /\ (n * j + u) % n = u
    BY <1>1, <1>2, ModUnique
  <2>7. a = n * i + t /\ b = n * j + u
    BY <1>1, <1>2
  <2> QED BY <2>5, <2>6, <2>7
<1> QED BY <1>1, <1>3, <1>4, <1>5, LoopFacts

LEMMA OwnsCover ==
    ASSUME Types, NEW k \in Nat, IsNumber(k)
    PROVE  \E t \in 0 .. team_size - 1 : Owns(t, k)
<1> DEFINE n == team_size
           c == loop.chunk
           s == Size(loop)
<1>1. n \in Nat \ {0} /\ c \in Nat \ {0} /\ static_fair \in BOOLEAN
  BY LoopFacts
<1>2. s \in Nat /\ k < s
  <2>1. Within(Inc, Lo, Up)
    BY NumberSize
  <2>2. s \in Nat \ {0} /\ k <= s - 1
    BY <2>1, NumberSize
  <2> HIDE DEF s
  <2> QED BY <2>2
<1>3. CASE n = 1
  <2>1. 0 \in 0 .. team_size - 1 /\ Owns(0, k)
    BY <1>3 DEF Owns
  <2> QED BY <2>1
<1>4. CASE n > 1 /\ loop.sched = "STATIC_EVEN"
  <2>1. \E t \in 0 .. n - 1 : InEven(t, k)
    <3>1. \A t : EvenOf(t) = IF static_fair THEN FairShare(s, n, t) ELSE EvenShare(s, n, t)
      BY DEF EvenOf
    <3> HIDE DEF s, n
    <3>2. CASE static_fair
      <4>1. PICK t \in 0 .. n - 1 : /\ FairShare(s, n, t).index <= k
                                    /\ k <= FairShare(s, n, t).index + FairShare(s, n, t).chunk - 1
        BY <1>1, <1>2, FairCover
      <4> QED BY <3>1, <3>2, <4>1 DEF InEven
    <3>3. CASE ~static_fair
      <4> DEFINE a == s + n - 1
                 d == CDiv(a, n)
      <4>1. a \in Int /\ a >= n /\ n > 0
        BY <1>1, <1>2
      <4>2. d \in Int /\ d >= 0 /\ a < d * n + n
        <5> HIDE DEF a
        <5> QED BY <1>1, <4>1, DivisionFacts
      <4> HIDE DEF d
      <4>3. d >= 1
        <5> SUFFICES ASSUME d = 0 PROVE FALSE
          BY <4>2
        <5> QED BY <4>1, <4>2, <1>1
      <4>4. k < n * d
        <5> DEFINE p == d * n
        <5>1. p \in Int /\ n * d = p
          BY <1>1, <4>2
        <5> HIDE DEF p
        <5>2. k < p
          BY <1>1, <1>2, <4>2, <5>1 DEF p
        <5> QED BY <5>1, <5>2
      <4>5. PICK q \in Nat : q * d <= k /\ k <= q * d + d - 1
        BY <4>2, <4>3, Quotient
      <4>6. q < n
        BY <1>1, <4>2, <4>3, <4>4, <4>5, QuotientBelow
      <4>7. EvenOf(q).index = q * d /\ EvenOf(q).chunk = d
        BY <3>1, <3>3 DEF EvenShare, d
      <4>8. q \in 0 .. n - 1 /\ InEven(q, k)
        BY <1>1, <4>5, <4>6, <4>7 DEF InEven
      <4> QED BY <4>8
    <3> QED BY <1>1, <3>2, <3>3
  <2> QED BY <1>4, <2>1 DEF Owns
<1>5. CASE n > 1 /\ loop.sched = "STATIC"
  <2> HIDE DEF n, c
  <2>0. c \in Int /\ c >= 1 /\ n \in Int /\ n >= 1
    BY <1>1
  <2>1. PICK q \in Nat : q * c <= k /\ k <= q * c + c - 1
    BY <2>0, Quotient
  <2>2. PICK j \in Nat : j * n <= q /\ q <= j * n + n - 1
    BY <2>0, <2>1, Quotient
  <2> DEFINE t == q - j * n
  <2>3. t \in 0 .. n - 1 /\ t + j * n = q
    <3> DEFINE p == j * n
    <3>1. p \in Int /\ p <= q /\ q <= p + n - 1
      BY <1>1, <2>2
    <3> HIDE DEF p
    <3>2. q - p \in 0 .. n - 1 /\ (q - p) + p = q
      BY <1>1, <2>1, <3>1
    <3> QED BY <3>2 DEF p
  <2> HIDE DEF t
  <2>4. InChunk(t, j, k)
    BY <2>1, <2>3 DEF InChunk, Start, n, c
  <2>5. Owns(t, k)
    BY <1>5, <2>2, <2>4 DEF Owns, n
  <2> QED BY <2>3, <2>5 DEF n
<1> QED BY <1>1, <1>3, <1>4, <1>5, LoopFacts
-----------------------------------------------------------------------------
(***************************************************************************)
(* What a step leaves alone                                                *)
(***************************************************************************)
LEMMA InputFrame ==
    ASSUME UNCHANGED input
    PROVE  /\ loop' = loop /\ team_size' = team_size /\ static_fair' = static_fair
           /\ Lo' = Lo /\ Up' = Up /\ Inc' = Inc /\ Stride' = Stride
           /\ (Headroom' <=> Headroom) /\ (LimitMissed' <=> LimitMissed)
           /\ \A k : (IsNumber(k)' <=> IsNumber(k)) /\ (IsLast(k)' <=> IsLast(k))
           /\ \A t, k : Owns(t, k)' <=> Owns(t, k)
           /\ \A t, j : Start(t, j)' = Start(t, j)
           /\ \A t : EvenOf(t)' = EvenOf(t) /\ FirstNumber(t)' = FirstNumber(t)
<1>1. loop' = loop /\ team_size' = team_size /\ static_fair' = static_fair
  BY DEF input
<1>2. Lo' = Lo /\ Up' = Up /\ Inc' = Inc /\ Stride' = Stride
  BY <1>1 DEF Lo, Up, Inc, Stride
<1>3. (Headroom' <=> Headroom) /\ (LimitMissed' <=> LimitMissed)
  BY <1>1 DEF Headroom, LimitMissed
<1>4. \A k : IsNumber(k)' <=> IsNumber(k)
  BY <1>2 DEF IsNumber
<1>5. \A k : IsLast(k)' <=> IsLast(k)
  BY <1>4 DEF IsLast
<1>6. \A t, j : Start(t, j)' = Start(t, j)
  BY <1>1 DEF Start
<1>7. \A t : EvenOf(t)' = EvenOf(t)
  BY <1>1 DEF EvenOf
<1>8. \A t : FirstNumber(t)' = FirstNumber(t)
  BY <1>1, <1>6, <1>7 DEF FirstNumber
<1>9. \A t, k : Owns(t, k)' <=> Owns(t, k)
  BY <1>1, <1>6, <1>7 DEF Owns, InEven, InChunk
<1> QED BY <1>1, <1>2, <1>3, <1>4, <1>5, <1>6, <1>7, <1>8, <1>9

\* A step that runs nothing.
LEMMA RanKept ==
    ASSUME Types, RanRight, UNCHANGED input, ran' = ran,
           \A t \in 0 .. team_size - 1, k \in Nat :
               IsNumber(k) /\ Owns(t, k) => (HasRun(t, k)' <=> HasRun(t, k))
    PROVE  RanRight'
<1>1. /\ team_size' = team_size /\ Lo' = Lo /\ Inc' = Inc
      /\ \A k : IsNumber(k)' <=> IsNumber(k)
      /\ \A t, k : Owns(t, k)' <=> Owns(t, k)
  BY InputFrame
<1>2. ran' \subseteq (0 .. team_size' - 1) \X Int
  BY <1>1 DEF RanRight
<1>3. ASSUME NEW t \in 0 .. team_size - 1, NEW x \in Int
      PROVE  <<t, x>> \in ran' <=>
               \E k \in Nat : /\ x = Lo' + k * Inc' /\ IsNumber(k)' /\ Owns(t, k)'
                              /\ HasRun(t, k)'
  <2>1. <<t, x>> \in ran <=>
          \E k \in Nat : x = Lo + k * Inc /\ IsNumber(k) /\ Owns(t, k) /\ HasRun(t, k)
    BY DEF RanRight
  <2> QED BY <1>1, <2>1
<1> QED BY <1>1, <1>2, <1>3 DEF RanRight

\* A DO loop over the iterations with the numbers of S.
LEMMA RanMore ==
    ASSUME Types, RanRight, twice = {}, UNCHANGED <<input, local_id>>, DoLoop,
           NEW S \in SUBSET Nat,
           \A x : x \in Iterations(lower, LoopMin(loop.inc, upper, loop.upper), loop.inc) <=>
                    \E k \in S : x = Lo + k * Inc,
           \A k \in S : IsNumber(k) /\ Owns(local_id, k) /\ ~Passed(k),
           \A k \in Nat : IsNumber(k) /\ Owns(local_id, k) =>
               (Passed(k)' <=> Passed(k) \/ k \in S)
    PROVE  RanRight' /\ twice' = {}
<1> DEFINE body == Iterations(lower, LoopMin(loop.inc, upper, loop.upper), loop.inc)
<1>1. /\ team_size' = team_size /\ Lo' = Lo /\ Inc' = Inc
      /\ \A k : IsNumber(k)' <=> IsNumber(k)
      /\ \A t, k : Owns(t, k)' <=> Owns(t, k)
  BY InputFrame
<1>2. /\ ran' = ran \cup {<<local_id, i>> : i \in body}
      /\ twice' = twice \cup (body \cap {r[2] : r \in ran})
  BY DEF DoLoop
<1>3. \A x : x \in body <=> \E k \in S : x = Lo + k * Inc
  OBVIOUS
<1> HIDE DEF body
<1>4. local_id \in 0 .. team_size - 1 /\ local_id' = local_id /\ team_size \in Nat \ {0}
  BY LoopFacts DEF Types
<1>5. body \subseteq Int
  BY <1>3, NumberOrder
<1>6. ran' \subseteq (0 .. team_size' - 1) \X Int
  BY <1>1, <1>2, <1>4, <1>5 DEF RanRight
<1>7. ASSUME NEW t \in 0 .. team_size - 1, NEW x \in Int
      PROVE  <<t, x>> \in ran' <=>
               \E k \in Nat : /\ x = Lo' + k * Inc' /\ IsNumber(k)' /\ Owns(t, k)'
                              /\ HasRun(t, k)'
  <2>1. <<t, x>> \in ran <=>
          \E k \in Nat : x = Lo + k * Inc /\ IsNumber(k) /\ Owns(t, k) /\ HasRun(t, k)
    BY DEF RanRight
  <2>2. CASE t = local_id
    <3>1. \A k \in Nat : (HasRun(t, k) <=> Passed(k)) /\ (HasRun(t, k)' <=> Passed(k)')
      BY <1>4, <2>2 DEF HasRun
    <3>2. <<t, x>> \in ran' <=> <<t, x>> \in ran \/ x \in body
      BY <1>2, <2>2
    <3> QED BY <1>1, <1>3, <2>1, <2>2, <3>1, <3>2
  <2>3. CASE t # local_id
    <3>1. \A k \in Nat : HasRun(t, k)' <=> HasRun(t, k)
      BY <1>4, <2>3 DEF HasRun
    <3>2. <<t, x>> \in ran' <=> <<t, x>> \in ran
      BY <1>2, <2>3
    <3> QED BY <1>1, <2>1, <3>1, <3>2
  <2> QED BY <2>2, <2>3
<1>8. ASSUME NEW r \in ran, r[2] \in body PROVE FALSE
  <2>1. PICK t \in 0 .. team_size - 1, x \in Int : r = <<t, x>>
    BY DEF RanRight
  <2>2. PICK k \in Nat : x = Lo + k * Inc /\ IsNumber(k) /\ Owns(t, k) /\ HasRun(t, k)
    BY <1>8, <2>1 DEF RanRight
  <2>3. PICK i \in S : x = Lo + i * Inc
    BY <1>3, <1>8, <2>1
  <2>4. i \in Nat /\ i = k
    BY <2>2, <2>3, NumberOrder
  <2>5. Owns(local_id, k) /\ ~Passed(k)
    BY <2>3, <2>4
  <2>6. t = local_id
    BY <1>4, <2>1, <2>2, <2>5, OwnsApart
  <2> QED BY <1>4, <2>2, <2>5, <2>6 DEF HasRun
<1>9. twice' = {}
  BY <1>2, <1>8
<1> QED BY <1>1, <1>6, <1>7, <1>9 DEF RanRight

LEMMA LastKept ==
    ASSUME Types, LastRight, UNCHANGED input, last' = last,
           \A t \in 0 .. team_size - 1 : Through(t)' <=> Through(t)
    PROVE  LastRight'
<1>1. /\ team_size' = team_size
      /\ LimitMissed' <=> LimitMissed
      /\ \A k : IsLast(k)' <=> IsLast(k)
      /\ \A t, k : Owns(t, k)' <=> Owns(t, k)
  BY InputFrame
<1> SUFFICES ASSUME NEW k \in Nat, IsLast(k), NEW t \in 0 .. team_size - 1
             PROVE  t \in last' <=> Through(t)' /\ ~LimitMissed' /\ Owns(t, k)'
  BY <1>1 DEF LastRight
<1>2. t \in last <=> Through(t) /\ ~LimitMissed /\ Owns(t, k)
  BY DEF LastRight
<1> QED BY <1>1, <1>2

\* The last step of a thread.
LEMMA LastMore ==
    ASSUME Types, LastRight, UNCHANGED <<input, local_id>>, pc # "done", pc' = "done",
           NEW B \in BOOLEAN, last' = IF B THEN last \cup {local_id} ELSE last,
           \A k \in Nat : IsLast(k) => (B <=> ~LimitMissed /\ Owns(local_id, k))
    PROVE  LastRight'
<1>1. /\ team_size' = team_size
      /\ LimitMissed' <=> LimitMissed
      /\ \A k : IsLast(k)' <=> IsLast(k)
      /\ \A t, k : Owns(t, k)' <=> Owns(t, k)
  BY InputFrame
<1> SUFFICES ASSUME NEW k \in Nat, IsLast(k), NEW t \in 0 .. team_size - 1
             PROVE  t \in last' <=> Through(t)' /\ ~LimitMissed' /\ Owns(t, k)'
  BY <1>1 DEF LastRight
<1>2. t \in last <=> Through(t) /\ ~LimitMissed /\ Owns(t, k)
  BY DEF LastRight
<1>3. local_id \in Nat /\ local_id' = local_id /\ t \in Int
  BY LoopFacts
<1>4. CASE t = local_id
  <2>1. ~Through(t) /\ Through(t)'
    BY <1>3, <1>4 DEF Through
  <2>2. t \in last' <=> B
    BY <1>2, <1>4, <2>1
  <2> QED BY <1>1, <1>4, <2>1, <2>2
<1>5. CASE t # local_id
  <2>1. Through(t)' <=> Through(t)
    BY <1>3, <1>5 DEF Through
  <2> QED BY <1>1, <1>2, <1>5, <2>1
<1> QED BY <1>4, <1>5

\* A thread that is idle owns no iteration.
LEMMA IdleOwns ==
    ASSUME Types, team_size > 1, ~Busy, loop.sched = "STATIC_EVEN" => Size(loop) >= 0,
           NEW k \in Nat, IsNumber(k)
    PROVE  ~Owns(local_id, k)
<1> SUFFICES ASSUME Owns(local_id, k) PROVE FALSE
  OBVIOUS
<1>0. local_id \in Nat /\ team_size # 1 /\ loop.chunk \in Nat \ {0}
  BY LoopFacts
<1>1. FirstNumber(local_id) \in Nat /\ FirstNumber(local_id) <= k
  <2>1. CASE loop.sched = "STATIC"
    <3>1. PICK j \in Nat : InChunk(local_id, j, k)
      BY <1>0, <2>1 DEF Owns
    <3>2. Start(local_id, 0) \in Nat /\ Start(local_id, j) \in Nat /\ Start(local_id, j) <= k
      BY <1>0, <3>1, StartType DEF InChunk
    <3>3. j > 0 => Start(local_id, 0) <= Start(local_id, j)
      <4> HAVE j > 0
      <4>1. Start(local_id, 0) + team_size * loop.chunk <= Start(local_id, j)
        BY <1>0, StartOrder
      <4>2. team_size * loop.chunk \in Nat
        BY <1>0, StartType
      <4> DEFINE p == team_size * loop.chunk
      <4> HIDE DEF p
      <4> QED BY <3>2, <4>1, <4>2 DEF p
    <3>4. FirstNumber(local_id) = Start(local_id, 0)
      BY <2>1 DEF FirstNumber
    <3>5. j = 0 \/ j > 0
      BY <3>1
    <3> QED BY <3>2, <3>3, <3>4, <3>5
  <2>2. CASE loop.sched = "STATIC_EVEN"
    <3>1. InEven(local_id, k) /\ FirstNumber(local_id) = EvenOf(local_id).index
      BY <1>0, <2>2 DEF Owns, FirstNumber
    <3>2. EvenOf(local_id).index \in Int /\ EvenOf(local_id).index >= 0
      BY <1>0, <2>2, EvenType
    <3> QED BY <3>1, <3>2 DEF InEven
  <2> QED BY <2>1, <2>2, LoopFacts
<1>2. IsNumber(FirstNumber(local_id))
  BY <1>1, NumberDown DEF IsNumber
<1> QED BY <1>2 DEF Busy
-----------------------------------------------------------------------------
(***************************************************************************)
(* Ranges                                                                  *)
(***************************************************************************)
LEMMA MinFacts ==
    ASSUME NEW inc \in Int \ {0}, NEW x \in Int, NEW y \in Int
    PROVE  /\ LoopMin(inc, x, x) = x
           /\ LoopMin(inc, LoopMin(inc, x, y), y) = LoopMin(inc, x, y)
           /\ Within(inc, x, y) => LoopMin(inc, x, y) = x
           /\ Within(inc, y, x) => LoopMin(inc, x, y) = y
BY DEF LoopMin, MinOf, MaxOf, Within

LEMMA HeadroomFacts ==
    ASSUME Types, Headroom
    PROVE  /\ team_size > 1 => Up + Stride \in Representable
           /\ Lo - 2 * Inc \in Representable /\ Lo - Inc \in Representable
           /\ Stride \in Int
           /\ \A x \in Int : Within(Inc, x, x + Stride)
<1> DEFINE m == team_size * loop.chunk
<1>1. Inc \in Int \ {0} /\ Lo \in Int /\ Lo \in Representable /\ m \in Nat /\ team_size \in Nat
  BY LoopFacts, StartType
<1>2. Stride = m * Inc
  BY DEF Stride
<1> HIDE DEF m
<1>3. Stride \in Int
  BY <1>1, <1>2
<1>4. \A x \in Int : Within(Inc, x, x + Stride)
  BY <1>1, <1>2, Ahead
<1>5. Lo - 2 * Inc \in Representable /\ (team_size > 1 => Up + Stride \in Representable)
  BY <1>1 DEF Headroom, Representable, Lo, Up, Inc, Stride
<1>6. Lo - Inc \in Int /\ Within(Inc, Lo - 2 * Inc, Lo - Inc) /\ Within(Inc, Lo - Inc, Lo)
  BY <1>1 DEF Within
<1>7. Lo - Inc \in Representable
  BY <1>1, <1>5, <1>6, Between
<1> QED BY <1>3, <1>4, <1>5, <1>7

\* What __pmp_static_init returns.
LEMMA InitForm ==
    ASSUME Types, NEW first, first = StaticInit(loop, static_fair, team_size, local_id)
    PROVE  /\ team_size = 1 =>
                first.lower = Lo /\ first.upper = Up /\ first.stride = AloneStride(loop)
           /\ team_size > 1 =>
                LET x == Lo + FirstNumber(local_id) * Inc
                    c == IF loop.sched = "STATIC" THEN loop.chunk ELSE EvenOf(local_id).chunk
                IN  /\ Within(Inc, x, Up) =>
                         /\ first.lower = x
                         /\ first.upper = LoopMin(Inc, x + (c - 1) * Inc, Up)
                         /\ loop.sched = "STATIC" => first.stride = Stride
                    /\ ~Within(Inc, x, Up) =>
                         /\ first.lower = Lo - Inc
                         /\ first.upper = Lo - 2 * Inc
                         /\ first.stride = Inc
<1> DEFINE n == team_size
           c == loop.chunk
           i == loop.inc
           t == local_id
<1>1. /\ n \in Nat \ {0} /\ c \in Nat \ {0} /\ i \in Int \ {0} /\ t \in Nat
      /\ loop.sched \in {"STATIC", "STATIC_EVEN"}
  BY LoopFacts DEF Inc
<1>2. CASE n = 1
  <2>1. first = [lower |-> loop.lower, upper |-> loop.upper, stride |-> AloneStride(loop)]
    BY <1>2 DEF StaticInit
  <2> QED BY <1>2, <2>1 DEF Lo, Up
<1>3. CASE n > 1 /\ loop.sched = "STATIC"
  <2>1. first = FirstRange(loop, loop.lower + t * (c * i), c, c * i * n)
    BY <1>3 DEF StaticInit
  <2>2. FirstNumber(t) * Inc = t * (c * i)
    <3>1. FirstNumber(t) = (t + 0 * n) * c
      BY <1>3 DEF FirstNumber, Start
    <3> HIDE DEF t, c, n
    <3> DEFINE e == t + 0 * n
    <3>2. e = t
      BY <1>1
    <3> HIDE DEF e, i
    <3>3. (t * c) * i = t * (c * i)
      BY <1>1
    <3> QED BY <3>1, <3>2, <3>3 DEF e, i, Inc, t
  <2>3. c * i * n = Stride
    <3>1. Stride = n * c * i
      BY DEF Stride, Inc
    <3> HIDE DEF n, c, i
    <3> QED BY <1>1, <3>1
  <2> QED BY <1>3, <2>1, <2>2, <2>3 DEF FirstRange, Lo, Up, Inc
<1>4. CASE n > 1 /\ loop.sched = "STATIC_EVEN"
  <2>1. first = FirstRange(loop, loop.lower + EvenOf(t).index * i, EvenOf(t).chunk, Size(loop) * i)
    BY <1>4 DEF StaticInit, EvenOf
  <2>2. FirstNumber(t) = EvenOf(t).index
    BY <1>4 DEF FirstNumber
  <2> QED BY <1>4, <2>1, <2>2 DEF FirstRange, Lo, Up, Inc
<1> QED BY <1>1, <1>2, <1>3, <1>4

\* A thread that is busy starts at an iteration, and its range is in the loop.
LEMMA BusyForm ==
    ASSUME Types, Headroom, team_size > 1, loop.sched = "STATIC_EVEN" => Size(loop) >= 0
    PROVE  LET x == Lo + FirstNumber(local_id) * Inc
               c == IF loop.sched = "STATIC" THEN loop.chunk ELSE EvenOf(local_id).chunk
           IN  /\ x \in Int /\ (Busy <=> Within(Inc, x, Up))
               /\ c \in Int /\ x + (c - 1) * Inc \in Int
               /\ Busy => x \in Representable /\ LoopMin(Inc, x + (c - 1) * Inc, Up) \in Representable
<1> DEFINE a == FirstNumber(local_id)
           x == Lo + a * Inc
           c == IF loop.sched = "STATIC" THEN loop.chunk ELSE EvenOf(local_id).chunk
           b == a + c - 1
           y == Lo + b * Inc
<1>0. /\ Inc \in Int \ {0} /\ Lo \in Int /\ Up \in Int /\ Up \in Representable /\ local_id \in Nat
      /\ Lo - Inc \in Representable
  BY LoopFacts, HeadroomFacts
<1>1. a \in Nat /\ c \in Int /\ c >= 0
  <2>1. CASE loop.sched = "STATIC"
    <3>1. Start(local_id, 0) \in Nat
      BY <1>0, StartType
    <3>2. loop.chunk \in Nat \ {0}
      BY LoopFacts
    <3>3. a = Start(local_id, 0) /\ c = loop.chunk
      BY <2>1 DEF FirstNumber
    <3> HIDE DEF a, c
    <3> QED BY <3>1, <3>2, <3>3
  <2>2. CASE loop.sched = "STATIC_EVEN"
    BY <1>0, <2>2, EvenType DEF FirstNumber
  <2> QED BY <2>1, <2>2, LoopFacts
<1> HIDE DEF a, c
<1>2. x \in Int /\ x + (c - 1) * Inc = y /\ b \in Int /\ b >= a - 1
  BY <1>0, <1>1
<1> HIDE DEF b
<1>3. y \in Int
  BY <1>2, NumberOrder
<1>4. Busy <=> Within(Inc, x, Up)
  BY <1>1 DEF Busy, IsNumber, a
<1>5. ASSUME Busy PROVE x \in Representable /\ LoopMin(Inc, y, Up) \in Representable
  <2> DEFINE e == 0 - 1
             z == Lo + e * Inc
  <2>1. e \in Int /\ e <= a /\ e <= b /\ z = Lo - Inc
    BY <1>0, <1>1, <1>2
  <2> HIDE DEF e
  <2>2. Within(Inc, z, x) /\ Within(Inc, z, y)
    BY <1>1, <1>2, <2>1, NumberOrder
  <2>3. Within(Inc, x, Up)
    BY <1>4, <1>5
  <2> HIDE DEF x, y, z
  <2>4. z \in Representable /\ z \in Int
    BY <1>0, <2>1, WidthFacts
  <2>5. x \in Representable
    BY <1>0, <1>2, <2>2, <2>3, <2>4, Between
  <2>6. Within(Inc, z, Up)
    BY <1>0, <1>2, <2>2, <2>3, <2>4, WithinFacts
  <2>7. LoopMin(Inc, y, Up) \in Int /\ Within(Inc, z, LoopMin(Inc, y, Up))
        /\ Within(Inc, LoopMin(Inc, y, Up), Up)
    BY <1>0, <1>3, <2>2, <2>4, <2>6, WithinMin
  <2>8. LoopMin(Inc, y, Up) \in Representable
    BY <1>0, <2>4, <2>7, Between
  <2> QED BY <2>5, <2>8
<1> QED BY <1>1, <1>2, <1>3, <1>4, <1>5 DEF a, c
-----------------------------------------------------------------------------
(***************************************************************************)
(* The step of the runtime                                                 *)
(***************************************************************************)
LEMMA TypesFrame ==
    ASSUME Types, UNCHANGED <<input, local_id>>,
           pc' \in {"init", "STATIC", "STATIC_EVEN", "done", "abort"},
           pc' \in {"STATIC", "STATIC_EVEN"} => pc' = loop.sched,
           pc' = "STATIC_EVEN" /\ team_size > 1 => Size(loop) >= 0,
           pc' = "abort" => team_size > 1 /\ loop.sched = "STATIC_EVEN" /\ Size(loop) < 0,
           lower' \in Int, upper' \in Int, stride' \in Int,
           last' \subseteq last \cup {local_id}
    PROVE  Types'
<1>1. loop' = loop /\ team_size' = team_size /\ static_fair' = static_fair /\ local_id' = local_id
  BY DEF input
<1>2. local_id \in 0 .. team_size - 1 /\ last' \subseteq 0 .. team_size - 1
  BY DEF Types
<1> QED BY <1>1, <1>2 DEF Types

LEMMA InitType ==
    ASSUME Types, NEW first, first = StaticInit(loop, static_fair, team_size, local_id),
           ~(team_size > 1 /\ loop.sched = "STATIC_EVEN" /\ Size(loop) < 0)
    PROVE  first.lower \in Int /\ first.upper \in Int /\ first.stride \in Int
<1>1. /\ Inc \in Int \ {0} /\ Lo \in Int /\ Up \in Int /\ local_id \in Nat
      /\ loop.chunk \in Nat \ {0} /\ team_size \in Nat \ {0}
      /\ loop.sched \in {"STATIC", "STATIC_EVEN"}
  BY LoopFacts
<1>2. CASE team_size = 1
  <2>1. first.lower = Lo /\ first.upper = Up /\ first.stride = AloneStride(loop)
    BY <1>2, InitForm
  <2> QED BY <1>1, <2>1 DEF AloneStride, Lo, Up, Inc
<1>3. CASE team_size > 1
  <2> DEFINE size == Size(loop)
             share == EvenOf(local_id)
             w == loop.chunk * Inc
  <2>1. /\ size \in Int /\ share.index \in Int /\ share.chunk \in Int /\ w \in Int
    BY <1>1, NumberSize, EvenType
  <2>2. CASE loop.sched = "STATIC"
    <3>1. first = FirstRange(loop, Lo + local_id * w, loop.chunk, w * team_size)
      BY <1>3, <2>2 DEF StaticInit, Lo, Inc
    <3> HIDE DEF w
    <3> DEFINE x == Lo + local_id * w
               y == x + (loop.chunk - 1) * Inc
    <3>2. x \in Int /\ w * team_size \in Int
      BY <1>1, <2>1
    <3>3. y \in Int
      <4> HIDE DEF x
      <4> QED BY <1>1, <3>2
    <3> HIDE DEF x
    <3>4. LoopMin(Inc, y, Up) \in Int
      <4> HIDE DEF y
      <4> QED BY <1>1, <3>3, BoundType
    <3>5. \/ first = [lower |-> x, stride |-> w * team_size, upper |-> LoopMin(Inc, y, Up)]
          \/ first = [lower |-> Lo - Inc, stride |-> Inc, upper |-> Lo - 2 * Inc]
      BY <3>1 DEF FirstRange, Lo, Up, Inc, x
    <3> HIDE DEF y
    <3> QED BY <1>1, <3>2, <3>4, <3>5
  <2>3. CASE loop.sched = "STATIC_EVEN"
    <3>1. first = FirstRange(loop, Lo + share.index * Inc, share.chunk, size * Inc)
      BY <1>3, <2>3 DEF StaticInit, EvenOf, Lo, Inc
    <3> HIDE DEF size, share
    <3> DEFINE x == Lo + share.index * Inc
               y == x + (share.chunk - 1) * Inc
    <3>2. x \in Int /\ size * Inc \in Int
      BY <1>1, <2>1
    <3>3. y \in Int
      <4> HIDE DEF x
      <4> QED BY <1>1, <2>1, <3>2
    <3> HIDE DEF x
    <3>4. LoopMin(Inc, y, Up) \in Int
      <4> HIDE DEF y
      <4> QED BY <1>1, <3>3, BoundType
    <3>5. \/ first = [lower |-> x, stride |-> size * Inc, upper |-> LoopMin(Inc, y, Up)]
          \/ first = [lower |-> Lo - Inc, stride |-> Inc, upper |-> Lo - 2 * Inc]
      BY <3>1 DEF FirstRange, Lo, Up, Inc, x
    <3> HIDE DEF y
    <3> QED BY <1>1, <3>2, <3>4, <3>5
  <2> QED BY <1>1, <2>2, <2>3
<1> QED BY <1>1, <1>2, <1>3

LEMMA StepCallStaticInit ==
    ASSUME StaticInv, CallStaticInit
    PROVE  StaticInv'
<1> DEFINE first == StaticInit(loop, static_fair, team_size, local_id)
           abort == team_size > 1 /\ loop.sched = "STATIC_EVEN" /\ Size(loop) < 0
<1>1. /\ Types /\ pc = "init"
      /\ UNCHANGED <<input, local_id>> /\ ran' = ran /\ twice' = twice /\ last' = last
  BY DEF StaticInv, CallStaticInit
<1>2. /\ abort => pc' = "abort" /\ UNCHANGED <<lower, upper, stride>>
      /\ ~abort => /\ pc' = loop.sched /\ lower' = Wrap(first.lower)
                   /\ upper' = Wrap(first.upper) /\ stride' = Wrap(first.stride)
  BY DEF CallStaticInit
<1>3. ~abort => first.lower \in Int /\ first.upper \in Int /\ first.stride \in Int
  <2> DEFINE f == first
  <2>1. f = StaticInit(loop, static_fair, team_size, local_id)
    OBVIOUS
  <2> HIDE DEF f
  <2>2. ~abort => f.lower \in Int /\ f.upper \in Int /\ f.stride \in Int
    BY <1>1, <2>1, InitType
  <2> QED BY <2>2 DEF f
<1>4. /\ team_size \in Nat \ {0} /\ local_id \in Nat /\ loop.sched \in {"STATIC", "STATIC_EVEN"}
      /\ Inc \in Int \ {0} /\ Lo \in Int /\ Up \in Int /\ Lo \in Representable /\ Up \in Representable
      /\ Size(loop) \in Int
  BY <1>1, LoopFacts, NumberSize
<1>5. lower' \in Int /\ upper' \in Int /\ stride' \in Int
  <2> HIDE DEF first
  <2> QED BY <1>1, <1>2, <1>3, WrapForm DEF Types
<1>6. Types'
  BY <1>1, <1>2, <1>4, <1>5, TypesFrame
<1>7. ASSUME Headroom, ~abort, team_size = 1
      PROVE  lower' = Lo /\ upper' = Up /\ stride' = Wrap(AloneStride(loop))
  <2> DEFINE f == first
  <2>1. f = StaticInit(loop, static_fair, team_size, local_id)
    OBVIOUS
  <2> HIDE DEF f
  <2>2. f.lower = Lo /\ f.upper = Up /\ f.stride = AloneStride(loop)
    BY <1>1, <1>7, <2>1, InitForm
  <2> QED BY <1>2, <1>4, <1>7, <2>2, WrapSame DEF f
<1> DEFINE x == Lo + FirstNumber(local_id) * Inc
           c == IF loop.sched = "STATIC" THEN loop.chunk ELSE EvenOf(local_id).chunk
<1>8. ASSUME Headroom, ~abort, team_size > 1
      PROVE  /\ x \in Int
             /\ Busy => /\ lower' = x
                        /\ upper' = LoopMin(Inc, x + (c - 1) * Inc, Up)
                        /\ loop.sched = "STATIC" => stride' = Wrap(Stride)
             /\ ~Busy => lower' = Lo - Inc /\ upper' = Lo - 2 * Inc /\ stride' = Wrap(Inc)
  <2> DEFINE f == first
  <2>1. f = StaticInit(loop, static_fair, team_size, local_id)
    OBVIOUS
  <2>0. /\ lower' = Wrap(f.lower) /\ upper' = Wrap(f.upper) /\ stride' = Wrap(f.stride)
    BY <1>2, <1>8
  <2> HIDE DEF f
  <2>2. /\ Within(Inc, x, Up) => /\ f.lower = x
                                 /\ f.upper = LoopMin(Inc, x + (c - 1) * Inc, Up)
                                 /\ loop.sched = "STATIC" => f.stride = Stride
        /\ ~Within(Inc, x, Up) => f.lower = Lo - Inc /\ f.upper = Lo - 2 * Inc /\ f.stride = Inc
    BY <1>1, <1>8, <2>1, InitForm
  <2>3. loop.sched = "STATIC_EVEN" => Size(loop) >= 0
    BY <1>4, <1>8
  <2>4. /\ x \in Int /\ (Busy <=> Within(Inc, x, Up))
        /\ Busy => x \in Representable /\ LoopMin(Inc, x + (c - 1) * Inc, Up) \in Representable
    BY <1>1, <1>8, <2>3, BusyForm
  <2>5. Lo - Inc \in Representable /\ Lo - 2 * Inc \in Representable
    BY <1>1, <1>8, HeadroomFacts
  <2> HIDE DEF x, c
  <2> QED BY <2>0, <2>2, <2>4, <2>5, WrapSame
<1>9. ASSUME Headroom PROVE RangeRight'
  <2>1. CASE abort
    BY <1>2, <2>1 DEF RangeRight
  <2>2. CASE ~abort /\ loop.sched = "STATIC"
    <3> USE <1>9, <2>2
    <3>0. /\ local_id' = local_id /\ team_size' = team_size /\ loop' = loop
          /\ Lo' = Lo /\ Up' = Up /\ Inc' = Inc /\ Stride' = Stride
          /\ \A t : FirstNumber(t)' = FirstNumber(t) /\ \A j : Start(t, j)' = Start(t, j)
          /\ \A k : IsNumber(k)' <=> IsNumber(k)
      BY <1>1, InputFrame
    <3>1. Busy' <=> Busy
      BY <3>0 DEF Busy
    <3>2. team_size = 1 => AloneRight'
      BY <1>7, <3>0 DEF AloneRight, Wrap, MinInt, AloneStride
    <3>3. team_size > 1 /\ Busy => stride' = Wrap(Stride) /\ ChunkRight(0)'
      <4> HAVE team_size > 1 /\ Busy
      <4>1. lower' = x /\ upper' = LoopMin(Inc, x + (c - 1) * Inc, Up) /\ stride' = Wrap(Stride)
        BY <1>8
      <4>2. x = Lo + Start(local_id, 0) * Inc /\ c = loop.chunk
        BY DEF FirstNumber
      <4> QED BY <3>0, <4>1, <4>2 DEF ChunkRight
    <3>4. team_size > 1 /\ ~Busy => IdleRight'
      <4> HAVE team_size > 1 /\ ~Busy
      <4>1. lower' = Lo - Inc /\ upper' = Lo - 2 * Inc /\ stride' = Wrap(Inc)
        BY <1>8
      <4>2. Lo - Inc \in Representable /\ Lo - 2 * Inc \in Representable
        BY <1>1, HeadroomFacts
      <4>3. Lo - 2 * Inc = (Lo - Inc) - Inc
        BY <1>4
      <4> QED BY <3>0, <4>1, <4>2, <4>3 DEF IdleRight, Wrap, MinInt, MaxInt, Representable
    <3>5. (stride = Wrap(Stride))' <=> stride' = Wrap(Stride)
      BY <3>0 DEF Wrap, MinInt
    <3> QED BY <1>2, <3>0, <3>1, <3>2, <3>3, <3>4, <3>5 DEF RangeRight, StaticRight
  <2>3. CASE ~abort /\ loop.sched = "STATIC_EVEN"
    <3> USE <1>9, <2>3
    <3>0. /\ local_id' = local_id /\ team_size' = team_size /\ Lo' = Lo /\ Up' = Up /\ Inc' = Inc
          /\ \A t : FirstNumber(t)' = FirstNumber(t) /\ EvenOf(t)' = EvenOf(t)
          /\ \A k : IsNumber(k)' <=> IsNumber(k)
      BY <1>1, InputFrame
    <3>1. Busy' <=> Busy
      BY <3>0 DEF Busy
    <3>2. team_size = 1 => lower' = Lo /\ upper' = Up
      BY <1>7
    <3>3. c = EvenOf(local_id).chunk
      OBVIOUS
    <3>4. team_size > 1 /\ Busy =>
            /\ lower' = x
            /\ upper' = LoopMin(Inc, x + (EvenOf(local_id).chunk - 1) * Inc, Up)
      BY <1>8, <3>3
    <3>5. team_size > 1 /\ ~Busy => lower' = Lo - Inc /\ upper' = Lo - 2 * Inc
      BY <1>8
    <3> QED BY <1>2, <3>0, <3>1, <3>2, <3>4, <3>5 DEF RangeRight, EvenRight
  <2> QED BY <1>4, <2>1, <2>2, <2>3
<1>10. ASSUME Headroom, NEW t \in 0 .. team_size - 1, NEW k \in Nat, IsNumber(k), Owns(t, k)
       PROVE  HasRun(t, k)' <=> HasRun(t, k)
  <2>1. ~Passed(k) /\ local_id' = local_id
    BY <1>1 DEF Passed
  <2>2. SUFFICES ASSUME t = local_id, Passed(k)' PROVE FALSE
    BY <2>1 DEF HasRun
  <2>3. pc' = "STATIC" /\ ~abort /\ loop.sched = "STATIC"
    BY <1>2, <1>4, <2>2 DEF Passed
  <2>4. Before(Inc, Lo + k * Inc, lower')
    <3>1. Lo' = Lo /\ Inc' = Inc
      BY <1>1, InputFrame
    <3> QED BY <2>2, <2>3, <3>1 DEF Passed
  <2>5. CASE team_size = 1
    <3>1. lower' = Lo
      BY <1>7, <1>10, <2>3, <2>5
    <3> DEFINE zero == 0
    <3>2. zero \in Int /\ Lo + zero * Inc = Lo /\ zero <= k
      BY <1>4
    <3> HIDE DEF zero
    <3>3. k < zero
      BY <1>1, <2>4, <3>1, <3>2, NumberOrder
    <3> QED BY <3>2, <3>3
  <2>6. CASE team_size > 1
    <3>1. Busy
      BY <1>1, <1>10, <2>2, <2>3, <2>6, IdleOwns
    <3>2. lower' = Lo + Start(local_id, 0) * Inc
      BY <1>8, <1>10, <2>3, <2>6, <3>1 DEF FirstNumber
    <3>3. Start(local_id, 0) \in Nat
      BY <1>1, <1>4, StartType
    <3>4. k < Start(local_id, 0)
      BY <1>1, <2>4, <3>2, <3>3, NumberOrder
    <3>5. PICK j \in Nat : InChunk(local_id, j, k)
      BY <1>10, <2>2, <2>3, <2>6 DEF Owns
    <3>6. Start(local_id, j) \in Nat /\ Start(local_id, j) <= k /\ j # 0
      BY <1>1, <1>4, <3>3, <3>4, <3>5, StartType DEF InChunk
    <3>7. Start(local_id, 0) + team_size * loop.chunk <= Start(local_id, j)
      BY <1>1, <1>4, <3>5, <3>6, StartOrder
    <3>8. team_size * loop.chunk \in Nat
      BY <1>1, <1>4, StartType
    <3> DEFINE p == team_size * loop.chunk
    <3> HIDE DEF p
    <3> QED BY <3>3, <3>4, <3>6, <3>7, <3>8 DEF p
  <2> QED BY <1>4, <2>5, <2>6
<1>11. ASSUME Headroom PROVE RanRight' /\ LastRight' /\ twice' = {}
  <2>1. RanRight /\ LastRight /\ twice = {}
    BY <1>11 DEF StaticInv
  <2>2. RanRight'
    BY <1>1, <1>10, <1>11, <2>1, RanKept
  <2>3. \A t \in 0 .. team_size - 1 : Through(t)' <=> Through(t)
    BY <1>1, <1>2, <1>4 DEF Through
  <2>4. LastRight'
    BY <1>1, <2>1, <2>3, LastKept
  <2> QED BY <1>1, <2>1, <2>2, <2>4
<1>12. Headroom' <=> Headroom
  BY <1>1, InputFrame
<1> QED BY <1>6, <1>9, <1>11, <1>12 DEF StaticInv
-----------------------------------------------------------------------------
(***************************************************************************)
(* The DO loop of the even schedule                                        *)
(***************************************************************************)
\* The DO variable after a range that starts at an iteration is beyond the
\* limit exactly when the range has held the last iteration.
LEMMA FinalNumber ==
    ASSUME Types, NEW k \in Nat, IsLast(k), NEW a \in Nat, a <= k, NEW b \in Int
    PROVE  ~Within(Inc, Final(Lo + a * Inc, LoopMin(Inc, Lo + b * Inc, Up), Inc), Up) <=> k <= b
<1> DEFINE low == Lo + a * Inc
           high == Lo + b * Inc
           to == LoopMin(Inc, high, Up)
<1>0. Inc \in Int \ {0} /\ Lo \in Int /\ Up \in Int
  BY LoopFacts
<1>1. Inc \in Int \ {0} /\ Lo \in Int /\ Up \in Int /\ low \in Int /\ high \in Int
  BY <1>0, ProductType
<1>2. IsNumber(k) /\ ~IsNumber(k + 1) /\ IsNumber(a)
  BY NumberDown DEF IsLast, IsNumber
<1>3. Within(Inc, low, Up)
  BY <1>2 DEF IsNumber
<1>4. Within(Inc, low, high) <=> a <= b
  BY NumberOrder
<1>5. /\ to \in Int
      /\ \A x \in Int : Within(Inc, x, to) <=> Within(Inc, x, high) /\ Within(Inc, x, Up)
  <2> HIDE DEF high
  <2> QED BY <1>1, WithinMin
<1>6. CASE b < a
  <2>1. ~Within(Inc, low, to)
    BY <1>1, <1>4, <1>5, <1>6
  <2>2. Final(low, to, Inc) = low
    <3> HIDE DEF low, to
    <3> QED BY <2>1 DEF Final
  <2> QED BY <1>3, <1>6, <2>2
<1>7. CASE a <= b
  <2>1. Within(Inc, low, to)
    BY <1>1, <1>3, <1>4, <1>5, <1>7
  <2>2. PICK y \in Int : /\ On(low, Inc, y) /\ Within(Inc, y, to) /\ ~Within(Inc, y + Inc, to)
                         /\ Final(low, to, Inc) = y + Inc
    <3> HIDE DEF low, to
    <3> QED BY <1>1, <1>5, <2>1, FinalFacts
  <2>3. PICK i \in Nat : y = low + i * Inc
    BY <2>2 DEF On
  <2> DEFINE m == a + i
             e == m + 1
  <2>4. m \in Nat /\ y = Lo + m * Inc /\ a <= m /\ e \in Nat /\ y + Inc = Lo + e * Inc
    BY <1>1, <2>3
  <2>5. e = m + 1
    OBVIOUS
  <2> HIDE DEF m, e
  <2>6. Within(Inc, y, high) /\ Within(Inc, y, Up)
    BY <1>5, <2>2
  <2>7. m <= b /\ IsNumber(m)
    BY <2>4, <2>6, NumberOrder DEF IsNumber
  <2>8. m <= k
    <3> SUFFICES ASSUME k + 1 <= m PROVE FALSE
      BY <2>4
    <3>1. IsNumber(k + 1)
      BY <2>4, <2>7, NumberDown DEF IsNumber
    <3> QED BY <1>2, <3>1
  <2>9. Lo + e * Inc \in Int /\ ~(e <= b /\ IsNumber(e))
    <3>1. Lo + e * Inc \in Int /\ (Within(Inc, Lo + e * Inc, high) <=> e <= b)
      BY <2>4, NumberOrder
    <3> QED BY <1>5, <2>2, <2>4, <3>1 DEF IsNumber
  <2>10. IsNumber(e) <=> e <= k
    <3>1. ASSUME e <= k PROVE IsNumber(e)
      BY <1>2, <2>4, <3>1, NumberDown DEF IsNumber
    <3>2. ASSUME k + 1 <= e, IsNumber(e) PROVE FALSE
      <4>1. IsNumber(k + 1)
        BY <2>4, <3>2, NumberDown DEF IsNumber
      <4> QED BY <1>2, <4>1
    <3> QED BY <2>4, <3>1, <3>2
  <2>11. Within(Inc, Final(low, to, Inc), Up) <=> IsNumber(e)
    BY <2>2, <2>4 DEF IsNumber
  <2>12. ~(e <= k) <=> k <= b
    BY <2>4, <2>5, <2>7, <2>8, <2>9, <2>10
  <2> QED BY <2>10, <2>11, <2>12
<1> QED BY <1>6, <1>7

\* There are iterations when there is a last one, and the first has number 0.
LEMMA LastExists ==
    ASSUME Types, NEW k \in Nat, IsLast(k)
    PROVE  /\ Within(Inc, Lo, Up) /\ Size(loop) = k + 1
           /\ Before(Inc, Up, Lo + (k + 1) * Inc) /\ Within(Inc, Lo + k * Inc, Up)
<1>1. IsNumber(k) /\ ~IsNumber(k + 1)
  BY DEF IsLast
<1>2. Within(Inc, Lo, Up)
  BY <1>1, NumberSize
<1>3. Size(loop) \in Nat \ {0} /\ k <= Size(loop) - 1 /\ ~(k + 1 <= Size(loop) - 1)
  BY <1>1, <1>2, NumberSize
<1>4. Size(loop) = k + 1
  BY <1>3
<1>5. Before(Inc, Up, Lo + (k + 1) * Inc)
  <2> DEFINE e == k + 1
             x == Lo + e * Inc
  <2>1. e \in Int /\ ~Within(Inc, x, Up)
    BY <1>1 DEF IsNumber
  <2>2. x \in Int
    <3> HIDE DEF e
    <3> QED BY <2>1, NumberOrder
  <2> HIDE DEF x
  <2>3. Before(Inc, Up, x)
    BY <2>1, <2>2, LoopFacts, WithinPair
  <2> QED BY <2>3 DEF x
<1> QED BY <1>1, <1>2, <1>4, <1>5 DEF IsNumber

LEMMA StepRunEven ==
    ASSUME StaticInv, RunEven
    PROVE  StaticInv'
<1> DEFINE to == LoopMin(loop.inc, upper, loop.upper)
           body == Iterations(lower, to, loop.inc)
           final == Final(lower, to, loop.inc)
           beyond == ~Within(Inc, final, Up)
<1>1. /\ Types /\ pc = "STATIC_EVEN" /\ pc' = "done" /\ DoLoop
      /\ UNCHANGED <<input, local_id>> /\ UNCHANGED <<lower, upper, stride>>
      /\ loop.sched = "STATIC_EVEN" /\ local_id' = local_id
      /\ team_size > 1 => Size(loop) >= 0
  BY DEF StaticInv, RunEven, Types
<1>2. last' = IF beyond THEN last \cup {local_id} ELSE last
  BY DEF RunEven, DoLoop, Inc, Up
<1>3. /\ team_size \in Nat \ {0} /\ local_id \in Nat
      /\ Inc \in Int \ {0} /\ Lo \in Int /\ Up \in Int
  BY <1>1, LoopFacts
<1>4. Types'
  BY <1>1, <1>2, TypesFrame DEF Types
<1>5. \A k \in Nat : ~Passed(k) /\ Passed(k)'
  BY <1>1 DEF Passed
<1>6. Headroom' <=> Headroom
  BY <1>1, InputFrame
<1> SUFFICES ASSUME Headroom
             PROVE  RanRight' /\ LastRight' /\ twice' = {} /\ RangeRight'
  BY <1>4, <1>6 DEF StaticInv
<1>7. RanRight /\ LastRight /\ twice = {} /\ EvenRight
  BY <1>1 DEF StaticInv, RangeRight
<1>8. RangeRight'
  BY <1>1 DEF RangeRight
<1>9. ~LimitMissed
  BY <1>1 DEF LimitMissed
<1> DEFINE S == {k \in Nat : IsNumber(k) /\ Owns(local_id, k)}
<1>10. /\ \A x : x \in body <=> \E k \in S : x = Lo + k * Inc
       /\ \A k \in Nat : IsLast(k) => (beyond <=> Owns(local_id, k))
  <2>1. CASE team_size = 1
    <3>1. lower = Lo /\ upper = Up /\ to = Up
      BY <1>3, <1>7, <2>1, MinFacts DEF EvenRight, Inc, Up
    <3>2. body = AllIterations
      BY <3>1 DEF AllIterations, Lo, Up
    <3>3. \A k : Owns(local_id, k)
      BY <2>1 DEF Owns
    <3>4. \A x : x \in body <=> \E k \in S : x = Lo + k * Inc
      BY <1>1, <3>2, <3>3, AllAre
    <3>5. ASSUME NEW k \in Nat, IsLast(k) PROVE beyond
      <4> DEFINE zero == 0
                 b == k + 1
                 high == Lo + b * Inc
      <4>1. zero \in Nat /\ zero <= k /\ Lo + zero * Inc = Lo /\ b \in Int /\ k <= b
        BY <1>3
      <4>2. Before(Inc, Up, high)
        BY <1>1, <3>5, LastExists
      <4> HIDE DEF zero, b
      <4>3. high \in Int
        BY <1>1, <4>1, NumberOrder
      <4>4. LoopMin(Inc, high, Up) = Up
        <5> HIDE DEF high
        <5>1. Within(Inc, Up, high)
          BY <1>3, <4>2, <4>3, WithinPair
        <5> QED BY <1>3, <4>3, <5>1, MinFacts
      <4>5. ~Within(Inc, Final(Lo + zero * Inc, LoopMin(Inc, Lo + b * Inc, Up), Inc), Up)
        BY <1>1, <3>5, <4>1, FinalNumber
      <4> QED BY <3>1, <4>1, <4>4, <4>5 DEF Inc
    <3> QED BY <3>3, <3>4, <3>5
  <2>2. CASE team_size > 1 /\ Busy
    <3> DEFINE a == FirstNumber(local_id)
               c == EvenOf(local_id).chunk
               b == a + c - 1
               high == Lo + b * Inc
    <3>1. lower = Lo + a * Inc /\ upper = LoopMin(Inc, lower + (c - 1) * Inc, Up)
      BY <1>7, <2>2 DEF EvenRight
    <3>2. a \in Nat /\ c \in Int /\ a = EvenOf(local_id).index /\ IsNumber(a)
      BY <1>1, <1>3, <2>2, EvenType DEF Busy, IsNumber, FirstNumber
    <3>3. ASSUME NEW k \in Nat PROVE Owns(local_id, k) <=> a <= k /\ k <= b
      BY <1>1, <1>3, <2>2, <3>2 DEF Owns, InEven
    <3> HIDE DEF a, c
    <3>4. b \in Int /\ lower + (c - 1) * Inc = high
      BY <1>3, <3>1, <3>2
    <3> HIDE DEF b
    <3>5. high \in Int
      BY <1>1, <3>4, NumberOrder
    <3>6. to = LoopMin(Inc, high, Up)
      <4>1. upper = LoopMin(Inc, high, Up)
        BY <3>1, <3>4
      <4> HIDE DEF high
      <4>2. LoopMin(Inc, LoopMin(Inc, high, Up), Up) = LoopMin(Inc, high, Up)
        BY <1>3, <3>5, MinFacts
      <4> QED BY <4>1, <4>2 DEF Inc, Up
    <3>7. body = Iterations(Lo + a * Inc, LoopMin(Inc, Lo + b * Inc, Up), Inc)
      BY <3>1, <3>6 DEF Inc
    <3>8. \A x : x \in body <=> \E k \in Nat : x = Lo + k * Inc /\ IsNumber(k) /\ a <= k /\ k <= b
      BY <1>1, <3>2, <3>4, <3>7, BodyAre
    <3>9. final = Final(Lo + a * Inc, LoopMin(Inc, Lo + b * Inc, Up), Inc)
      BY <3>1, <3>6 DEF Inc
    <3>10. ASSUME NEW k \in Nat, IsLast(k) PROVE a <= k /\ (beyond <=> k <= b)
      <4>1. a <= k
        <5> SUFFICES ASSUME k + 1 <= a PROVE FALSE
          BY <3>2
        <5>1. IsNumber(k + 1)
          BY <1>1, <3>2, NumberDown DEF IsNumber
        <5> QED BY <3>10, <5>1 DEF IsLast
      <4> QED BY <1>1, <3>2, <3>4, <3>9, <3>10, <4>1, FinalNumber
    <3>11. \A x : x \in body <=> \E k \in S : x = Lo + k * Inc
      BY <3>3, <3>8
    <3> HIDE DEF beyond
    <3> QED BY <3>3, <3>10, <3>11
  <2>3. CASE team_size > 1 /\ ~Busy
    <3>1. lower = Lo - Inc /\ upper = Lo - 2 * Inc
      BY <1>7, <2>3 DEF EvenRight
    <3>2. \A k \in Nat : IsNumber(k) => ~Owns(local_id, k)
      BY <1>1, <2>3, IdleOwns
    <3>3. to \in Int /\ Before(Inc, to, lower) /\ lower \in Int
      <4>1. upper \in Int /\ lower \in Int /\ Before(Inc, upper, lower)
        BY <1>3, <3>1 DEF Before
      <4>2. LoopMin(Inc, upper, Up) \in Int /\ Within(Inc, LoopMin(Inc, upper, Up), upper)
        BY <1>3, <4>1, WithinMin
      <4>3. Before(Inc, LoopMin(Inc, upper, Up), lower)
        BY <1>3, <4>1, <4>2, WithinFacts
      <4> QED BY <4>1, <4>2, <4>3 DEF Inc, Up
    <3>4. ~Within(Inc, lower, to)
      BY <1>3, <3>3, WithinPair
    <3>5. body = {}
      BY <3>4 DEF Iterations, Inc
    <3>6. final = lower
      BY <3>4 DEF Final, Inc
    <3>7. ASSUME NEW k \in Nat, IsLast(k) PROVE ~beyond
      <4>1. Within(Inc, Lo, Up)
        BY <1>1, <3>7, LastExists
      <4>2. Within(Inc, Lo - Inc, Up)
        BY <1>3, <4>1 DEF Within
      <4> QED BY <3>1, <3>6, <4>2
    <3>8. ASSUME NEW k \in Nat, IsLast(k) PROVE ~Owns(local_id, k)
      BY <3>2, <3>8 DEF IsLast
    <3> HIDE DEF beyond
    <3> QED BY <3>2, <3>5, <3>7, <3>8
  <2> QED BY <1>3, <2>1, <2>2, <2>3
<1>11. RanRight' /\ twice' = {}
  <2> HIDE DEF S
  <2>1. S \in SUBSET Nat /\ \A k \in Nat : k \in S <=> IsNumber(k) /\ Owns(local_id, k)
    BY DEF S
  <2>2. \A x : x \in Iterations(lower, LoopMin(loop.inc, upper, loop.upper), loop.inc) <=>
                 \E k \in S : x = Lo + k * Inc
    BY <1>10
  <2>3. \A k \in S : IsNumber(k) /\ Owns(local_id, k) /\ ~Passed(k)
    BY <1>5, <2>1
  <2>4. \A k \in Nat : IsNumber(k) /\ Owns(local_id, k) => (Passed(k)' <=> Passed(k) \/ k \in S)
    BY <1>5, <2>1
  <2> QED BY <1>1, <1>7, <2>1, <2>2, <2>3, <2>4, RanMore
<1>12. LastRight'
  <2>1. beyond \in BOOLEAN
    BY DEF Within
  <2>2. \A k \in Nat : IsLast(k) => (beyond <=> ~LimitMissed /\ Owns(local_id, k))
    BY <1>9, <1>10
  <2>3. pc # "done"
    BY <1>1
  <2> HIDE DEF beyond
  <2> QED BY <1>1, <1>2, <1>7, <2>1, <2>2, <2>3, LastMore
<1> QED BY <1>8, <1>11, <1>12
-----------------------------------------------------------------------------
(***************************************************************************)
(* The chunks of the static schedule                                       *)
(***************************************************************************)
LEMMA RunChunkFacts ==
    ASSUME StaticInv, RunChunk
    PROVE  /\ Types /\ Types' /\ pc = "STATIC" /\ pc' = "STATIC" /\ loop.sched = "STATIC" /\ DoLoop
           /\ UNCHANGED <<input, local_id>> /\ UNCHANGED <<stride, last>>
           /\ Within(Inc, lower, Up)
           /\ lower' = Wrap(lower + stride) /\ upper' = Wrap(LoopMin(Inc, upper, Up) + stride)
           /\ lower \in Int /\ upper \in Int /\ stride \in Int
           /\ \A k \in Nat : /\ Passed(k) <=> Before(Inc, Lo + k * Inc, lower)
                             /\ Passed(k)' <=> Before(Inc, Lo + k * Inc, lower')
           /\ Headroom => RanRight /\ LastRight /\ twice = {} /\ StaticRight
<1>1. /\ Types /\ pc = "STATIC" /\ pc' = "STATIC" /\ loop.sched = "STATIC" /\ DoLoop
      /\ UNCHANGED <<input, local_id>> /\ UNCHANGED <<stride, last>>
      /\ lower \in Int /\ upper \in Int /\ stride \in Int
  BY DEF StaticInv, RunChunk, Types
<1>2. /\ Within(Inc, lower, Up)
      /\ lower' = Wrap(lower + stride) /\ upper' = Wrap(LoopMin(Inc, upper, Up) + stride)
  BY DEF RunChunk, Inc, Up
<1>3. Up \in Int /\ Inc \in Int \ {0}
  BY <1>1, LoopFacts
<1>4. lower + stride \in Int /\ LoopMin(Inc, upper, Up) + stride \in Int
  <2>1. LoopMin(Inc, upper, Up) \in Int
    BY <1>1, <1>3, BoundType
  <2> DEFINE to == LoopMin(Inc, upper, Up)
  <2> HIDE DEF to
  <2>2. to + stride \in Int
    BY <1>1, <2>1 DEF to
  <2> QED BY <1>1, <2>2 DEF to
<1>5. lower' \in Int /\ upper' \in Int
  BY <1>2, <1>4, WrapForm
<1>6. Types'
  BY <1>1, <1>5, TypesFrame
<1>7. \A k \in Nat : /\ Passed(k) <=> Before(Inc, Lo + k * Inc, lower)
                     /\ Passed(k)' <=> Before(Inc, Lo + k * Inc, lower')
  BY <1>1, InputFrame DEF Passed
<1>8. Headroom => RanRight /\ LastRight /\ twice = {} /\ StaticRight
  BY <1>1 DEF StaticInv, RangeRight
<1> QED BY <1>1, <1>2, <1>6, <1>7, <1>8

\* What StaticRight says after a step that changes no input.
LEMMA StaticFrame ==
    ASSUME UNCHANGED <<input, local_id>>
    PROVE  /\ Busy' <=> Busy
           /\ (stride = Wrap(Stride))' <=> stride' = Wrap(Stride)
           /\ AloneRight' <=> /\ stride' = Wrap(AloneStride(loop))
                              /\ \/ lower' = Lo /\ upper' = Up
                                 \/ /\ lower' = Up + (IF Inc > 0 THEN 1 ELSE -1)
                                    /\ upper' = Wrap(Up + AloneStride(loop))
           /\ IdleRight' <=> /\ stride' = Wrap(Inc) /\ upper' = lower' - Inc
                             /\ {lower', upper'} \subseteq Representable
                             /\ lower' = Lo - Inc \/ lower' - 2 * Inc \in Representable
           /\ \A j \in Nat : ChunkRight(j)' <=>
                /\ lower' = Lo + Start(local_id, j) * Inc
                /\ j = 0 => upper' = LoopMin(Inc, lower' + (loop.chunk - 1) * Inc, Up)
                /\ j > 0 => /\ IsNumber(Start(local_id, j - 1))
                            /\ upper' = LoopMin(Inc, lower' + (loop.chunk - 1) * Inc, Up + Stride)
<1>1. /\ local_id' = local_id /\ loop' = loop
      /\ Lo' = Lo /\ Up' = Up /\ Inc' = Inc /\ Stride' = Stride
      /\ \A k : IsNumber(k)' <=> IsNumber(k)
      /\ \A t, j : Start(t, j)' = Start(t, j)
      /\ \A t : FirstNumber(t)' = FirstNumber(t)
  BY InputFrame
<1>2. Busy' <=> Busy
  BY <1>1 DEF Busy
<1>3. (stride = Wrap(Stride))' <=> stride' = Wrap(Stride)
  BY <1>1 DEF Wrap, MinInt
<1>4. AloneRight' <=> /\ stride' = Wrap(AloneStride(loop))
                      /\ \/ lower' = Lo /\ upper' = Up
                         \/ /\ lower' = Up + (IF Inc > 0 THEN 1 ELSE -1)
                            /\ upper' = Wrap(Up + AloneStride(loop))
  BY <1>1 DEF AloneRight, Wrap, MinInt, AloneStride
<1>5. IdleRight' <=> /\ stride' = Wrap(Inc) /\ upper' = lower' - Inc
                     /\ {lower', upper'} \subseteq Representable
                     /\ lower' = Lo - Inc \/ lower' - 2 * Inc \in Representable
  BY <1>1 DEF IdleRight, Wrap, MinInt, MaxInt, Representable
<1>6. ASSUME NEW j \in Nat
      PROVE  ChunkRight(j)' <=>
                /\ lower' = Lo + Start(local_id, j) * Inc
                /\ j = 0 => upper' = LoopMin(Inc, lower' + (loop.chunk - 1) * Inc, Up)
                /\ j > 0 => /\ IsNumber(Start(local_id, j - 1))
                            /\ upper' = LoopMin(Inc, lower' + (loop.chunk - 1) * Inc, Up + Stride)
  <2>1. IsNumber(Start(local_id, j - 1))' <=> IsNumber(Start(local_id, j - 1))
    BY <1>1 DEF IsNumber
  <2> QED BY <1>1, <2>1 DEF ChunkRight
<1> QED BY <1>2, <1>3, <1>4, <1>5, <1>6

\* The stride of a team of one leads out of the loop.
LEMMA AloneFacts ==
    ASSUME Types
    PROVE  LET d == IF Inc > 0 THEN 1 ELSE -1
           IN  /\ AloneStride(loop) \in Int /\ Lo + AloneStride(loop) = Up + d
               /\ Up + d \in Representable /\ Before(Inc, Up, Up + d)
<1>1. Inc \in Int \ {0} /\ Lo \in Int /\ Up \in Int
      /\ Up \in Representable /\ Up + Inc \in Representable
  BY LoopFacts
<1> DEFINE d == IF Inc > 0 THEN 1 ELSE -1
<1>2. AloneStride(loop) = Up - Lo + d
  BY DEF AloneStride, Up, Lo, Inc
<1>3. /\ d \in Int /\ Up + d \in Int /\ Before(Inc, Up, Up + d)
      /\ Within(Inc, Up, Up + d) /\ Within(Inc, Up + d, Up + Inc)
  BY <1>1 DEF Before, Within
<1> HIDE DEF d
<1>4. Up + d \in Representable
  BY <1>1, <1>3, Between
<1> QED BY <1>1, <1>2, <1>3, <1>4 DEF d

LEMMA ChunkAlone ==
    ASSUME StaticInv, RunChunk, Headroom, team_size = 1
    PROVE  RanRight' /\ twice' = {} /\ StaticRight'
<1>0. /\ Types /\ DoLoop /\ UNCHANGED <<input, local_id>> /\ stride' = stride
      /\ Within(Inc, lower, Up) /\ RanRight /\ twice = {} /\ StaticRight
      /\ lower' = Wrap(lower + stride) /\ upper' = Wrap(LoopMin(Inc, upper, Up) + stride)
  BY RunChunkFacts
<1>1. Inc \in Int \ {0} /\ Lo \in Int /\ Up \in Int
  BY <1>0, LoopFacts
<1> DEFINE d == IF Inc > 0 THEN 1 ELSE -1
           s == AloneStride(loop)
<1>2. s \in Int /\ Lo + s = Up + d /\ Up + d \in Representable /\ Before(Inc, Up, Up + d) /\ d \in Int
  BY <1>0, AloneFacts
<1>3. stride = Wrap(s) /\ (lower = Up + d \/ (lower = Lo /\ upper = Up))
  BY <1>0 DEF StaticRight, AloneRight
<1> HIDE DEF d, s
<1>4. lower = Lo /\ upper = Up
  <2>1. lower # Up + d
    <3> DEFINE e == Up + d
    <3>1. e \in Int /\ Before(Inc, Up, e)
      BY <1>1, <1>2
    <3> HIDE DEF e
    <3>2. ~Within(Inc, e, Up)
      BY <1>1, <3>1, WithinPair
    <3> QED BY <1>0, <3>2 DEF e
  <2> QED BY <1>3, <2>1
<1>5. LoopMin(Inc, upper, Up) = Up
  BY <1>1, <1>4, MinFacts
<1>6. lower' = Up + d
  <2>1. Wrap(Lo + Wrap(s)) = Wrap(Lo + s)
    BY <1>1, <1>2, WrapSum
  <2> QED BY <1>0, <1>2, <1>3, <1>4, <2>1, WrapSame
<1>7. upper' = Wrap(Up + s)
  <2>1. Wrap(Up + Wrap(s)) = Wrap(Up + s)
    BY <1>1, <1>2, WrapSum
  <2> QED BY <1>0, <1>3, <1>5, <2>1
<1>8. StaticRight'
  <2>1. AloneRight'
    BY <1>0, <1>3, <1>6, <1>7, StaticFrame DEF d, s
  <2>2. team_size' = 1
    BY <1>0, InputFrame
  <2> QED BY <2>1, <2>2 DEF StaticRight
<1> DEFINE S == {k \in Nat : IsNumber(k)}
<1>9. \A k : Owns(local_id, k)
  BY DEF Owns
<1>10. \A x : x \in Iterations(lower, LoopMin(loop.inc, upper, loop.upper), loop.inc) <=>
                \E k \in S : x = Lo + k * Inc
  <2>1. Iterations(lower, LoopMin(loop.inc, upper, loop.upper), loop.inc) = AllIterations
    BY <1>4, <1>5 DEF AllIterations, Lo, Up, Inc
  <2> QED BY <1>0, <2>1, AllAre
<1>11. ASSUME NEW k \in Nat, IsNumber(k) PROVE ~Passed(k) /\ Passed(k)'
  <2> DEFINE x == Lo + k * Inc
             zero == 0
             e == Up + d
  <2>1. zero \in Int /\ Lo + zero * Inc = Lo /\ zero <= k
    BY <1>1
  <2> HIDE DEF zero
  <2>2. x \in Int /\ ~Before(Inc, x, Lo)
    BY <1>0, <2>1, NumberOrder
  <2>3. Within(Inc, x, Up)
    BY <1>11 DEF IsNumber
  <2>4. e \in Int /\ Before(Inc, Up, e)
    BY <1>1, <1>2
  <2>5. Before(Inc, x, e)
    <3> HIDE DEF x, e
    <3> QED BY <1>1, <2>2, <2>3, <2>4, WithinFacts
  <2> QED BY <1>4, <1>6, <2>2, <2>5, RunChunkFacts
<1>12. RanRight' /\ twice' = {}
  <2>1. S \in SUBSET Nat /\ \A k \in Nat : k \in S <=> IsNumber(k)
    OBVIOUS
  <2> HIDE DEF S
  <2>2. \A k \in S : IsNumber(k) /\ Owns(local_id, k) /\ ~Passed(k)
    BY <1>9, <1>11, <2>1
  <2>3. \A k \in Nat : IsNumber(k) /\ Owns(local_id, k) => (Passed(k)' <=> Passed(k) \/ k \in S)
    BY <1>11, <2>1
  <2> QED BY <1>0, <1>10, <2>1, <2>2, <2>3, RanMore
<1> QED BY <1>8, <1>12

LEMMA ChunkIdle ==
    ASSUME StaticInv, RunChunk, Headroom, team_size > 1, ~Busy
    PROVE  RanRight' /\ twice' = {} /\ StaticRight'
<1>0. /\ Types /\ DoLoop /\ UNCHANGED <<input, local_id>> /\ stride' = stride
      /\ Within(Inc, lower, Up) /\ RanRight /\ twice = {} /\ StaticRight
      /\ lower' = Wrap(lower + stride) /\ upper' = Wrap(LoopMin(Inc, upper, Up) + stride)
      /\ lower \in Int /\ upper \in Int /\ loop.sched = "STATIC"
  BY RunChunkFacts
<1>1. Inc \in Int \ {0} /\ Lo \in Int /\ Up \in Int /\ Up + Inc \in Representable
  BY <1>0, LoopFacts
<1>2. /\ stride = Wrap(Inc) /\ upper = lower - Inc
      /\ lower \in Representable /\ upper \in Representable
  BY <1>0 DEF StaticRight, IdleRight
<1>3. LoopMin(Inc, upper, Up) = upper /\ Before(Inc, upper, lower)
  <2>1. Within(Inc, upper, Up) /\ Before(Inc, upper, lower)
    BY <1>0, <1>1, <1>2 DEF Within, Before
  <2> QED BY <1>0, <1>1, <2>1, MinFacts
<1>4. lower + Inc \in Representable
  <2> DEFINE x == lower + Inc
             y == Up + Inc
  <2>1. x \in Int /\ Within(Inc, lower, x) /\ Within(Inc, x, y)
    BY <1>0, <1>1 DEF Within
  <2> HIDE DEF x, y
  <2>2. y \in Representable
    BY <1>1 DEF y
  <2>3. x \in Representable
    BY <1>1, <1>2, <2>1, <2>2, Between
  <2> QED BY <2>3 DEF x
<1>5. lower' = lower + Inc
  <2>1. Wrap(lower + Wrap(Inc)) = Wrap(lower + Inc)
    BY <1>0, <1>1, WrapSum
  <2> QED BY <1>0, <1>2, <1>4, <2>1, WrapSame
<1>6. upper' = lower
  <2>1. Wrap(upper + Wrap(Inc)) = Wrap(upper + Inc)
    BY <1>0, <1>1, WrapSum
  <2>2. upper + Inc = lower
    BY <1>0, <1>1, <1>2
  <2> QED BY <1>0, <1>2, <1>3, <2>1, <2>2, WrapSame
<1>7. StaticRight'
  <2>1. upper' = lower' - Inc /\ lower' - 2 * Inc = upper
    BY <1>0, <1>1, <1>2, <1>5, <1>6
  <2>2. {lower', upper'} \subseteq Representable
    BY <1>2, <1>4, <1>5, <1>6
  <2>3. IdleRight' /\ (Busy' <=> Busy)
    BY <1>0, <1>2, <2>1, <2>2, StaticFrame
  <2>4. team_size' = team_size /\ team_size # 1
    BY <1>0, InputFrame, LoopFacts
  <2> QED BY <2>3, <2>4 DEF StaticRight
<1>8. Iterations(lower, LoopMin(loop.inc, upper, loop.upper), loop.inc) = {}
  <2>1. ~Within(Inc, lower, upper)
    BY <1>0, <1>1, <1>3, WithinPair
  <2>2. LoopMin(loop.inc, upper, loop.upper) = upper
    BY <1>3 DEF Inc, Up
  <2> QED BY <2>1, <2>2 DEF Iterations, Inc
<1>9. \A k \in Nat : IsNumber(k) => ~Owns(local_id, k)
  BY <1>0, IdleOwns
<1>10. RanRight' /\ twice' = {}
  <2> DEFINE S == {}
  <2>1. S \in SUBSET Nat /\ \A k \in Nat : k \notin S
    OBVIOUS
  <2>2. \A x : x \in Iterations(lower, LoopMin(loop.inc, upper, loop.upper), loop.inc) <=>
                 \E k \in S : x = Lo + k * Inc
    BY <1>8
  <2>3. \A k \in S : IsNumber(k) /\ Owns(local_id, k) /\ ~Passed(k)
    OBVIOUS
  <2>4. \A k \in Nat : IsNumber(k) /\ Owns(local_id, k) => (Passed(k)' <=> Passed(k) \/ k \in S)
    BY <1>9
  <2> HIDE DEF S
  <2> QED BY <1>0, <2>1, <2>2, <2>3, <2>4, RanMore
<1> QED BY <1>7, <1>10

\* The place of an iteration among the chunks of its thread.
LEMMA ChunkPlace ==
    ASSUME Types, NEW t \in Nat, NEW i \in Nat, NEW j \in Nat, NEW k \in Nat, InChunk(t, i, k)
    PROVE  k < Start(t, j) <=> i < j
<1> DEFINE p == team_size * loop.chunk
           a == Start(t, i)
           b == Start(t, j)
<1>1. loop.chunk \in Nat \ {0}
  BY LoopFacts
<1>2. a \in Nat /\ b \in Nat /\ p \in Nat /\ p >= loop.chunk
  BY StartType
<1>3. a <= k /\ k <= a + loop.chunk - 1
  BY DEF InChunk
<1>4. i < j => a + p <= b
  BY StartOrder
<1>5. j < i => b + p <= a
  BY StartOrder
<1>6. i = j => a = b
  OBVIOUS
<1> HIDE DEF a, b, p
<1>7. k < b <=> i < j
  BY <1>1, <1>2, <1>3, <1>4, <1>5, <1>6
<1> QED BY <1>7 DEF b

\* A busy thread at chunk j: what its range is, and what the next one is.
LEMMA ChunkFacts ==
    ASSUME Types, Headroom, team_size > 1, loop.sched = "STATIC", NEW j \in Nat,
           NEW p, p = Start(local_id, j), IsNumber(p)
    PROVE  LET x == Lo + p * Inc
               y == Lo + (p + loop.chunk - 1) * Inc
               z == LoopMin(Inc, y, Up)
           IN  /\ x \in Representable /\ x \in Int /\ y \in Int
               /\ x + (loop.chunk - 1) * Inc = y
               /\ z \in Representable /\ z \in Int
               /\ x + Stride \in Representable /\ z + Stride \in Representable
               /\ x + Stride = Lo + Start(local_id, j + 1) * Inc
               /\ z + Stride = LoopMin(Inc, (x + Stride) + (loop.chunk - 1) * Inc, Up + Stride)
               /\ Within(Inc, x, z)
<1> DEFINE c == loop.chunk
           m == team_size * c
           e == p + c - 1
           x == Lo + p * Inc
           y == Lo + e * Inc
           z == LoopMin(Inc, y, Up)
<1>1. /\ Inc \in Int \ {0} /\ Lo \in Int /\ Up \in Int /\ c \in Nat \ {0} /\ local_id \in Nat
      /\ Lo \in Representable /\ Up \in Representable
  BY LoopFacts
<1>2. /\ p \in Nat /\ m \in Nat /\ Start(local_id, j + 1) = p + m
  BY <1>1, StartType
<1>3. /\ Stride = m * Inc /\ Stride \in Int /\ Up + Stride \in Representable
      /\ \A v \in Int : Within(Inc, v, v + Stride)
  BY HeadroomFacts DEF Stride
<1>4. Within(Inc, x, Up)
  BY DEF IsNumber
<1> HIDE DEF c, m
<1>5. e \in Int /\ p <= e /\ x \in Int /\ y \in Int /\ x + (c - 1) * Inc = y
  <2>1. e \in Int /\ p <= e
    BY <1>1, <1>2
  <2>2. x + (c - 1) * Inc = y /\ x \in Int
    BY <1>1, <1>2
  <2>3. y \in Int
    <3> HIDE DEF e
    <3> QED BY <1>1, <2>1
  <2> QED BY <2>1, <2>2, <2>3
<1>6. Within(Inc, x, y)
  <2> HIDE DEF e
  <2> QED BY <1>2, <1>5, NumberOrder
<1>7. Within(Inc, Lo, x)
  <2> DEFINE zero == 0
  <2>1. zero \in Int /\ Lo + zero * Inc = Lo /\ zero <= p
    BY <1>1, <1>2
  <2> HIDE DEF zero
  <2> QED BY <1>2, <2>1, NumberOrder
<1>8. x + Stride = Lo + Start(local_id, j + 1) * Inc
  BY <1>1, <1>2, <1>3
<1>9. x + Stride \in Int /\ (x + Stride) + (c - 1) * Inc = y + Stride
  <2> DEFINE w == (c - 1) * Inc
  <2>1. w \in Int /\ x + w = y
    BY <1>1, <1>5
  <2> HIDE DEF w, x, y
  <2> QED BY <1>3, <1>5, <2>1 DEF w
<1> HIDE DEF x, y
<1>10. x \in Representable
  BY <1>1, <1>4, <1>5, <1>7, Between
<1>11. z \in Int /\ Within(Inc, x, z) /\ Within(Inc, z, Up)
  BY <1>1, <1>4, <1>5, <1>6, WithinMin
<1>12. z + Stride = LoopMin(Inc, y + Stride, Up + Stride)
  <2> DEFINE w == Stride
  <2>1. w \in Int /\ y \in Int
    BY <1>3, <1>5
  <2> HIDE DEF w
  <2>2. LoopMin(Inc, y, Up) + w = LoopMin(Inc, y + w, Up + w)
    BY <1>1, <2>1 DEF LoopMin, MinOf, MaxOf
  <2> QED BY <2>2 DEF w
<1> HIDE DEF z
<1>13. z \in Representable
  BY <1>1, <1>10, <1>11, Between
<1>14. x + Stride \in Representable /\ z + Stride \in Representable
  <2> DEFINE v == x + Stride
             w == z + Stride
             u == Up + Stride
  <2>1. v \in Int /\ w \in Int /\ u \in Int
    BY <1>1, <1>3, <1>5, <1>11
  <2>2. Within(Inc, x, v) /\ Within(Inc, z, w)
    BY <1>3, <1>5, <1>11
  <2>3. Within(Inc, v, u) /\ Within(Inc, w, u)
    BY <1>1, <1>3, <1>4, <1>5, <1>11 DEF Within
  <2>4. u \in Representable
    BY <1>3
  <2> HIDE DEF u, v, w
  <2>5. v \in Representable /\ w \in Representable
    BY <1>1, <1>10, <1>13, <2>1, <2>2, <2>3, <2>4, Between
  <2> QED BY <2>5 DEF v, w
<1> QED BY <1>5, <1>8, <1>9, <1>10, <1>11, <1>12, <1>13, <1>14 DEF x, y, z, e, c

LEMMA ChunkBusy ==
    ASSUME StaticInv, RunChunk, Headroom, team_size > 1, Busy
    PROVE  RanRight' /\ twice' = {} /\ StaticRight'
<1>0. /\ Types /\ DoLoop /\ UNCHANGED <<input, local_id>> /\ stride' = stride
      /\ Within(Inc, lower, Up) /\ RanRight /\ twice = {} /\ StaticRight
      /\ lower' = Wrap(lower + stride) /\ upper' = Wrap(LoopMin(Inc, upper, Up) + stride)
      /\ lower \in Int /\ upper \in Int /\ loop.sched = "STATIC"
  BY RunChunkFacts
<1>1. /\ Inc \in Int \ {0} /\ Lo \in Int /\ Up \in Int /\ local_id \in Nat
      /\ loop.chunk \in Nat \ {0} /\ Stride \in Int /\ team_size \in Nat
  BY <1>0, LoopFacts, HeadroomFacts
<1>2. stride = Wrap(Stride)
  BY <1>0 DEF StaticRight
<1>3. PICK j \in Nat : ChunkRight(j)
  BY <1>0 DEF StaticRight
<1> DEFINE p == Start(local_id, j)
           e == p + loop.chunk - 1
           x == Lo + p * Inc
           y == Lo + e * Inc
           z == LoopMin(Inc, y, Up)
<1>4. p \in Nat /\ e \in Int /\ lower = x /\ IsNumber(p)
  <2>1. p \in Nat
    BY <1>0, <1>1, <1>3, StartType
  <2>2. lower = x
    BY <1>3 DEF ChunkRight
  <2>3. IsNumber(p)
    BY <1>0, <2>1, <2>2 DEF IsNumber
  <2> HIDE DEF p
  <2>4. e \in Int
    BY <1>1, <2>1
  <2> QED BY <2>1, <2>2, <2>3, <2>4
<1>5. /\ x \in Int /\ y \in Int /\ x + (loop.chunk - 1) * Inc = y
      /\ z \in Representable /\ z \in Int
      /\ x + Stride \in Representable /\ z + Stride \in Representable
      /\ x + Stride = Lo + Start(local_id, j + 1) * Inc
      /\ z + Stride = LoopMin(Inc, (x + Stride) + (loop.chunk - 1) * Inc, Up + Stride)
  <2> DEFINE q == p
  <2>1. q = Start(local_id, j) /\ IsNumber(q)
    BY <1>4
  <2> HIDE DEF q
  <2>2. LET v == Lo + q * Inc
            w == Lo + (q + loop.chunk - 1) * Inc
            r == LoopMin(Inc, w, Up)
        IN  /\ v \in Int /\ w \in Int /\ v + (loop.chunk - 1) * Inc = w
            /\ r \in Representable /\ r \in Int
            /\ v + Stride \in Representable /\ r + Stride \in Representable
            /\ v + Stride = Lo + Start(local_id, j + 1) * Inc
            /\ r + Stride = LoopMin(Inc, (v + Stride) + (loop.chunk - 1) * Inc, Up + Stride)
    BY <1>0, <1>3, <2>1, ChunkFacts
  <2> QED BY <2>2 DEF q
<1> HIDE DEF p
<1>6. LoopMin(Inc, upper, Up) = z
  <2>1. CASE j = 0
    <3>1. upper = z /\ y \in Int
      BY <1>3, <1>4, <1>5, <2>1 DEF ChunkRight
    <3> HIDE DEF y
    <3>2. LoopMin(Inc, LoopMin(Inc, y, Up), Up) = LoopMin(Inc, y, Up)
      BY <1>1, <3>1, MinFacts
    <3> QED BY <3>1, <3>2
  <2>2. CASE j > 0
    <3> DEFINE u == Up + Stride
    <3>1. upper = LoopMin(Inc, y, u)
      BY <1>3, <1>4, <1>5, <2>2 DEF ChunkRight
    <3>2. u \in Int /\ Within(Inc, Up, u) /\ y \in Int
      BY <1>0, <1>1, <1>5, HeadroomFacts
    <3> HIDE DEF u, y
    <3>3. LoopMin(Inc, LoopMin(Inc, y, u), Up) = LoopMin(Inc, y, Up)
      BY <1>1, <3>2 DEF LoopMin, MinOf, MaxOf, Within
    <3> QED BY <3>1, <3>3
  <2> QED BY <1>3, <2>1, <2>2
<1>7. lower' = x + Stride
  <2> HIDE DEF x
  <2>1. Wrap(x + Wrap(Stride)) = Wrap(x + Stride)
    BY <1>1, <1>5, WrapSum
  <2> QED BY <1>0, <1>2, <1>4, <1>5, <2>1, WrapSame
<1>8. upper' = z + Stride
  <2> HIDE DEF z
  <2>1. Wrap(z + Wrap(Stride)) = Wrap(z + Stride)
    BY <1>1, <1>5, WrapSum
  <2> QED BY <1>0, <1>2, <1>5, <1>6, <2>1, WrapSame
<1>9. StaticRight'
  <2> DEFINE i == j + 1
  <2>1. i \in Nat /\ i > 0 /\ i - 1 = j
    BY <1>3
  <2>2. /\ lower' = Lo + Start(local_id, i) * Inc
        /\ upper' = LoopMin(Inc, lower' + (loop.chunk - 1) * Inc, Up + Stride)
    BY <1>5, <1>7, <1>8
  <2> HIDE DEF i
  <2>3. IsNumber(Start(local_id, i - 1))
    BY <1>4, <2>1 DEF p
  <2>4. ChunkRight(i)'
    <3>1. i # 0
      BY <2>1
    <3> QED BY <1>0, <2>1, <2>2, <2>3, <3>1, StaticFrame
  <2>5. (stride = Wrap(Stride))' /\ (Busy' <=> Busy)
    BY <1>0, <1>2, StaticFrame
  <2>6. team_size' = team_size /\ team_size # 1
    BY <1>0, <1>1, InputFrame
  <2> QED BY <2>1, <2>4, <2>5, <2>6 DEF StaticRight
<1>10. ASSUME NEW k \in Nat
       PROVE  /\ Passed(k) <=> k < Start(local_id, j)
              /\ Passed(k)' <=> k < Start(local_id, j + 1)
  <2> DEFINE q == Start(local_id, j + 1)
  <2>1. q \in Nat
    <3>1. j + 1 \in Nat
      BY <1>3
    <3> QED BY <1>0, <1>1, <3>1, StartType
  <2>2. lower' = Lo + q * Inc
    BY <1>5, <1>7
  <2> HIDE DEF q
  <2>3. Before(Inc, Lo + k * Inc, Lo + q * Inc) <=> k < q
    BY <1>0, <2>1, NumberOrder
  <2>4. Before(Inc, Lo + k * Inc, Lo + p * Inc) <=> k < p
    BY <1>0, <1>4, NumberOrder
  <2> QED BY <1>4, <2>2, <2>3, <2>4, RunChunkFacts DEF p, q
<1> DEFINE S == {k \in Nat : IsNumber(k) /\ p <= k /\ k <= e}
<1>11. \A v : v \in Iterations(lower, LoopMin(loop.inc, upper, loop.upper), loop.inc) <=>
                \E k \in S : v = Lo + k * Inc
  <2>1. Iterations(lower, LoopMin(loop.inc, upper, loop.upper), loop.inc)
          = Iterations(Lo + p * Inc, LoopMin(Inc, Lo + e * Inc, Up), Inc)
    BY <1>4, <1>6 DEF Inc, Up
  <2> HIDE DEF e
  <2>2. \A v : v \in Iterations(Lo + p * Inc, LoopMin(Inc, Lo + e * Inc, Up), Inc) <=>
                 \E k \in Nat : v = Lo + k * Inc /\ IsNumber(k) /\ p <= k /\ k <= e
    BY <1>0, <1>4, BodyAre
  <2> QED BY <2>1, <2>2
<1>12. ASSUME NEW k \in Nat PROVE InChunk(local_id, j, k) <=> p <= k /\ k <= e
  BY DEF InChunk, p
<1>13. \A k \in S : IsNumber(k) /\ Owns(local_id, k) /\ ~Passed(k)
  <2> TAKE k \in S
  <2>1. k \in Nat /\ IsNumber(k) /\ p <= k /\ InChunk(local_id, j, k)
    BY <1>12
  <2>2. Owns(local_id, k)
    BY <1>0, <1>3, <2>1 DEF Owns
  <2>3. ~Passed(k)
    BY <1>4, <1>10, <2>1 DEF p
  <2> QED BY <2>1, <2>2, <2>3
<1>14. ASSUME NEW k \in Nat, IsNumber(k), Owns(local_id, k)
       PROVE  Passed(k)' <=> Passed(k) \/ k \in S
  <2>1. PICK i \in Nat : InChunk(local_id, i, k)
    BY <1>0, <1>1, <1>14 DEF Owns
  <2>2. (Passed(k) <=> i < j) /\ (Passed(k)' <=> i < j + 1)
    BY <1>0, <1>1, <1>3, <1>10, <2>1, ChunkPlace
  <2>3. i = j => k \in S
    BY <1>12, <1>14, <2>1
  <2>4. k \in S => ~(i < j) /\ i < j + 1
    <3> HAVE k \in S
    <3>1. InChunk(local_id, j, k)
      BY <1>12
    <3>2. k < Start(local_id, j) <=> j < j
      BY <1>0, <1>1, <1>3, <3>1, ChunkPlace
    <3>3. k < Start(local_id, j + 1) <=> j < j + 1
      BY <1>0, <1>1, <1>3, <3>1, ChunkPlace
    <3>4. k < Start(local_id, j) <=> i < j
      BY <1>0, <1>1, <1>3, <2>1, ChunkPlace
    <3>5. k < Start(local_id, j + 1) <=> i < j + 1
      BY <1>0, <1>1, <1>3, <2>1, ChunkPlace
    <3> QED BY <1>3, <2>1, <3>2, <3>3, <3>4, <3>5
  <2>5. i < j + 1 <=> i < j \/ i = j
    BY <1>3, <2>1
  <2> HIDE DEF S
  <2> QED BY <2>2, <2>3, <2>4, <2>5
<1>15. RanRight' /\ twice' = {}
  <2>1. S \in SUBSET Nat
    OBVIOUS
  <2> HIDE DEF S
  <2> QED BY <1>0, <1>11, <1>13, <1>14, <2>1, RanMore
<1> QED BY <1>9, <1>15

LEMMA StepRunChunk ==
    ASSUME StaticInv, RunChunk
    PROVE  StaticInv'
<1>1. /\ Types /\ Types' /\ pc = "STATIC" /\ pc' = "STATIC"
      /\ UNCHANGED <<input, local_id>> /\ last' = last
      /\ Headroom => LastRight
  BY RunChunkFacts
<1>2. Headroom' <=> Headroom
  BY <1>1, InputFrame
<1>3. team_size = 1 \/ team_size > 1
  BY <1>1, LoopFacts
<1>4. Headroom => RanRight' /\ twice' = {} /\ StaticRight'
  BY <1>3, ChunkAlone, ChunkBusy, ChunkIdle
<1>5. \A t \in 0 .. team_size - 1 : Through(t)' <=> Through(t)
  BY <1>1 DEF Through
<1>6. Headroom => LastRight'
  BY <1>1, <1>5, LastKept
<1> QED BY <1>1, <1>2, <1>4, <1>6 DEF StaticInv, RangeRight
-----------------------------------------------------------------------------
(***************************************************************************)
(* The end of the chunks, and the test for the last iteration              *)
(***************************************************************************)
\* Whether the step leads to the limit.
LEMMA Divides ==
    ASSUME Types, NEW k \in Nat, IsLast(k)
    PROVE  (Up - Lo) % Abs(Inc) = 0 <=> Up = Lo + k * Inc
<1>1. Inc \in Int \ {0} /\ Lo \in Int /\ Up \in Int
  BY LoopFacts
<1>2. Before(Inc, Up, Lo + (k + 1) * Inc) /\ Within(Inc, Lo + k * Inc, Up)
  BY LastExists
<1> DEFINE w == k * Inc
<1>3. w \in Int /\ (k + 1) * Inc = w + Inc
  BY <1>1
<1>4. CASE Inc > 0
  <2> DEFINE r == Up - Lo - w
  <2>1. r \in Int /\ 0 <= r /\ r < Inc
    <3> HIDE DEF w
    <3> QED BY <1>1, <1>2, <1>3, <1>4 DEF Before, Within, w
  <2>2. Up - Lo = Inc * k + r
    BY <1>1
  <2>3. r = 0 <=> Up = Lo + k * Inc
    <3> HIDE DEF w
    <3> QED BY <1>1, <1>3 DEF w
  <2> HIDE DEF r
  <2>4. (Inc * k + r) % Inc = r
    BY <1>1, <2>1, ModUnique
  <2>5. Abs(Inc) = Inc
    BY <1>1, <1>4 DEF Abs
  <2> QED BY <2>2, <2>3, <2>4, <2>5
<1>5. CASE Inc < 0
  <2> DEFINE m == 0 - Inc
             r == w - (Up - Lo)
  <2>1. m \in Int /\ m > 0 /\ Abs(Inc) = m
    BY <1>1, <1>5 DEF Abs
  <2>2. r \in Int /\ 0 <= r /\ r < m
    <3> HIDE DEF w
    <3> QED BY <1>1, <1>2, <1>3, <1>5 DEF Before, Within, w
  <2>3. Up - Lo = m * (0 - k) - r
    BY <1>1
  <2>4. r = 0 <=> Up = Lo + k * Inc
    <3> HIDE DEF w
    <3> QED BY <1>1, <1>3 DEF w
  <2> HIDE DEF m, r
  <2>5. CASE r = 0
    <3> DEFINE q == 0 - k
               zero == 0
    <3>1. q \in Int /\ zero \in Int /\ 0 <= zero /\ zero < m
      BY <2>1
    <3>2. Up - Lo = m * q + zero
      BY <2>1, <2>3, <2>5
    <3>3. zero = 0
      OBVIOUS
    <3> HIDE DEF q, zero
    <3>4. (m * q + zero) % m = zero
      BY <2>1, <3>1, ModUnique
    <3> QED BY <2>1, <2>4, <2>5, <3>2, <3>3, <3>4
  <2>6. CASE r > 0
    <3> DEFINE q == (0 - k) - 1
               v == m - r
    <3>1. q \in Int /\ v \in Int /\ 0 <= v /\ v < m /\ v # 0
      BY <2>1, <2>2, <2>6
    <3>2. Up - Lo = m * q + v
      BY <2>1, <2>2, <2>3
    <3> HIDE DEF q, v
    <3>3. (m * q + v) % m = v
      BY <2>1, <3>1, ModUnique
    <3>4. r # 0
      BY <2>2, <2>6
    <3> QED BY <2>1, <2>4, <3>1, <3>2, <3>3, <3>4
  <2> QED BY <2>2, <2>5, <2>6
<1> QED BY <1>1, <1>4, <1>5

\* The last chunk of a thread reaches the limit exactly when the thread owns
\* the last iteration, but for the loops of LimitMissed.
LEMMA LimitFacts ==
    ASSUME Types, team_size > 1, loop.sched = "STATIC", NEW k \in Nat, IsLast(k),
           NEW j \in Nat, NEW p, p = Start(local_id, j), IsNumber(p),
           ~IsNumber(Start(local_id, j + 1))
    PROVE  Within(Inc, Up, Lo + (p + loop.chunk - 1) * Inc) <=> ~LimitMissed /\ Owns(local_id, k)
<1> DEFINE c == loop.chunk
           e == p + c - 1
           a == local_id + j * team_size
           x == Lo + k * Inc
           y == Lo + e * Inc
           b == k + 1
           z == Lo + b * Inc
<1>1. /\ Inc \in Int \ {0} /\ Lo \in Int /\ Up \in Int /\ c \in Nat \ {0} /\ local_id \in Nat
      /\ team_size \in Nat
  BY LoopFacts
<1>2. p \in Nat /\ p = a * c /\ a \in Int
  BY <1>1, StartType DEF Start
<1>3. Size(loop) = b /\ Before(Inc, Up, z) /\ Within(Inc, x, Up)
  BY LastExists
<1>4. p <= k
  <2> SUFFICES ASSUME k + 1 <= p PROVE FALSE
    BY <1>2
  <2>1. IsNumber(k + 1)
    BY <1>2, NumberDown DEF IsNumber
  <2> QED BY <2>1 DEF IsLast
<1>5. Owns(local_id, k) <=> k <= e
  <2>1. ASSUME k <= e PROVE Owns(local_id, k)
    <3>1. InChunk(local_id, j, k)
      BY <1>4, <2>1 DEF InChunk
    <3> QED BY <3>1 DEF Owns
  <2>2. ASSUME Owns(local_id, k) PROVE k <= e
    <3>1. PICK i \in Nat : InChunk(local_id, i, k)
      BY <1>1, <2>2 DEF Owns
    <3> DEFINE q == Start(local_id, j + 1)
    <3>2. j + 1 \in Nat
      OBVIOUS
    <3>3. q \in Nat
      BY <1>1, <3>2, StartType
    <3>4. k < q
      <4> HIDE DEF q
      <4> SUFFICES ASSUME q <= k PROVE FALSE
        BY <3>3
      <4>1. IsNumber(q)
        BY <3>3, NumberDown DEF IsLast, IsNumber
      <4> QED BY <4>1 DEF q
    <3>5. i < j + 1
      BY <1>1, <3>1, <3>2, <3>4, ChunkPlace
    <3>6. ~(i < j)
      <4>1. k < p <=> i < j
        BY <1>1, <3>1, ChunkPlace
      <4> QED BY <1>2, <1>4, <4>1
    <3>7. i = j
      BY <3>1, <3>5, <3>6
    <3> QED BY <3>1, <3>7 DEF InChunk
  <2> QED BY <2>1, <2>2
<1>6. LimitMissed <=> Up # x /\ b % c = 0
  <2>1. LimitMissed <=> (Up - Lo) % Abs(Inc) # 0 /\ Size(loop) % c = 0
    BY <1>1 DEF LimitMissed, Up, Lo, Inc
  <2> QED BY <1>3, <2>1, Divides
<1> HIDE DEF c, a
<1>7. e \in Int /\ b \in Int /\ k \in Int
  BY <1>1, <1>2
<1>8. /\ x \in Int /\ y \in Int /\ z \in Int
      /\ Within(Inc, z, y) <=> b <= e
      /\ Before(Inc, y, x) <=> e < k
  <2> HIDE DEF e, b
  <2> QED BY <1>7, NumberOrder
<1>9. CASE e < k
  <2>1. Before(Inc, y, x)
    BY <1>8, <1>9
  <2> HIDE DEF x, y
  <2>2. ~Within(Inc, Up, y)
    BY <1>1, <1>3, <1>8, <2>1, WithinFacts, WithinPair
  <2>3. ~(k <= e)
    BY <1>7, <1>9
  <2> QED BY <1>5, <2>2, <2>3 DEF y, c
<1>10. CASE e > k
  <2>1. Within(Inc, z, y)
    BY <1>7, <1>8, <1>10
  <2> HIDE DEF x, y, z
  <2>2. Within(Inc, Up, y)
    <3>1. Before(Inc, Up, y)
      BY <1>1, <1>3, <1>8, <2>1, WithinFacts
    <3> QED BY <1>1, <1>8, <3>1, WithinPair
  <2> DEFINE r == b - p
  <2>3. r \in Int /\ 0 <= r /\ r < c /\ r # 0 /\ b = p + r
    BY <1>1, <1>2, <1>4, <1>10
  <2>4. p = c * a /\ p \in Int
    BY <1>1, <1>2
  <2> HIDE DEF r, b
  <2>5. (c * a + r) % c = r
    BY <1>1, <1>2, <2>3, ModUnique
  <2>6. b % c # 0
    BY <2>3, <2>4, <2>5
  <2>7. k <= e
    BY <1>7, <1>10
  <2> QED BY <1>5, <1>6, <2>2, <2>6, <2>7 DEF y, c
<1>11. CASE e = k
  <2>1. y = x
    BY <1>11
  <2>2. Within(Inc, Up, y) <=> Up = x
    <3> HIDE DEF x, y
    <3> QED BY <1>1, <1>3, <1>8, <2>1, WithinPair, WithinSelf
  <2> DEFINE q == a + 1
             zero == 0
  <2>3. q \in Int /\ zero \in Int /\ 0 <= zero /\ zero < c /\ b = c * q + zero
    BY <1>1, <1>2, <1>11
  <2>4. zero = 0
    OBVIOUS
  <2> HIDE DEF q, zero, b
  <2>5. (c * q + zero) % c = zero
    BY <1>1, <2>3, ModUnique
  <2>6. b % c = 0
    BY <2>3, <2>4, <2>5
  <2>7. k <= e
    BY <1>7, <1>11
  <2> QED BY <1>5, <1>6, <2>2, <2>6, <2>7 DEF y, c
<1> QED BY <1>7, <1>9, <1>10, <1>11

\* The test in a thread that has gone through its chunks.
LEMMA LimitTest ==
    ASSUME StaticInv, EndChunks, Headroom, NEW k \in Nat, IsLast(k)
    PROVE  Limit(lower', upper') <=> ~LimitMissed /\ Owns(local_id, k)
<1>0. /\ Types /\ StaticRight /\ loop.sched = "STATIC" /\ ~Within(Inc, lower, Up)
      /\ lower' = Wrap(lower - stride) /\ upper' = Wrap(upper - stride)
      /\ lower \in Int /\ upper \in Int /\ stride \in Int
  BY DEF StaticInv, EndChunks, RangeRight, Types, Inc, Up
<1>1. /\ Inc \in Int \ {0} /\ Lo \in Int /\ Up \in Int /\ team_size \in Nat \ {0}
      /\ Lo \in Representable /\ Up \in Representable /\ local_id \in Nat
      /\ loop.chunk \in Nat \ {0} /\ Stride \in Int
  BY <1>0, LoopFacts, HeadroomFacts
<1>2. Within(Inc, Lo, Up)
  BY <1>0, LastExists
<1>3. \A u \in Int, v \in Int : Limit(u, v) <=> Within(Inc, u, Up) /\ Within(Inc, Up, v)
  <2> TAKE u \in Int, v \in Int
  <2>1. Within(0 - Inc, v, Up) <=> Within(Inc, Up, v)
    BY <1>1 DEF Within
  <2>2. -Inc = 0 - Inc
    BY <1>1
  <2> QED BY <2>1, <2>2 DEF Limit, Inc, Up
<1>4. CASE team_size = 1
  <2> DEFINE d == IF Inc > 0 THEN 1 ELSE -1
             s == AloneStride(loop)
  <2>1. s \in Int /\ Lo + s = Up + d /\ d \in Int
    BY <1>0, AloneFacts
  <2>2. stride = Wrap(s) /\ (lower = Lo \/ (lower = Up + d /\ upper = Wrap(Up + s)))
    BY <1>0, <1>4 DEF StaticRight, AloneRight
  <2> HIDE DEF d, s
  <2>3. lower = Up + d /\ upper = Wrap(Up + s)
    BY <1>0, <1>2, <2>2
  <2>4. lower' = Lo
    <3>1. Wrap(lower - Wrap(s)) = Wrap(lower - s)
      BY <1>0, <2>1, WrapSum
    <3>2. lower - s = Lo
      BY <1>1, <2>1, <2>3
    <3> QED BY <1>0, <1>1, <2>2, <3>1, <3>2, WrapSame
  <2>5. upper' = Up
    <3> DEFINE u == Up + s
    <3>1. u \in Int /\ u - s = Up
      BY <1>1, <2>1
    <3>2. upper = Wrap(u)
      BY <2>3
    <3> HIDE DEF u
    <3>3. Wrap(Wrap(u) - Wrap(s)) = Wrap(u - s)
      BY <2>1, <3>1, WrapSum
    <3> QED BY <1>0, <1>1, <2>2, <3>1, <3>2, <3>3, WrapSame
  <2>6. Within(Inc, Up, Up)
    BY <1>1, WithinSelf
  <2>7. Limit(lower', upper')
    BY <1>1, <1>2, <1>3, <2>4, <2>5, <2>6
  <2>8. ~LimitMissed /\ Owns(local_id, k)
    BY <1>4 DEF LimitMissed, Owns
  <2> QED BY <2>7, <2>8
<1>5. CASE team_size > 1 /\ Busy
  <2>1. PICK i \in Nat : ChunkRight(i)
    BY <1>0, <1>5 DEF StaticRight
  <2>2. stride = Wrap(Stride)
    BY <1>0, <1>5 DEF StaticRight
  <2>3. i # 0
    <3> SUFFICES ASSUME i = 0 PROVE FALSE
      OBVIOUS
    <3>1. lower = Lo + FirstNumber(local_id) * Inc
      BY <1>0, <2>1 DEF ChunkRight, FirstNumber
    <3> QED BY <1>0, <1>5, <3>1 DEF Busy, IsNumber
  <2> DEFINE j == i - 1
             p == Start(local_id, j)
             x == Lo + p * Inc
             y == Lo + (p + loop.chunk - 1) * Inc
             z == LoopMin(Inc, y, Up)
  <2>4. j \in Nat /\ j + 1 = i
    BY <2>1, <2>3
  <2> HIDE DEF j
  <2>5. /\ IsNumber(p) /\ lower = Lo + Start(local_id, j + 1) * Inc
        /\ upper = LoopMin(Inc, lower + (loop.chunk - 1) * Inc, Up + Stride)
    <3>1. i > 0
      BY <2>1, <2>3
    <3> QED BY <2>1, <2>4, <3>1 DEF ChunkRight, j
  <2>6. ~IsNumber(Start(local_id, j + 1))
    BY <1>0, <2>5 DEF IsNumber
  <2>7. /\ x \in Representable /\ x \in Int /\ y \in Int /\ z \in Representable /\ z \in Int
        /\ x + Stride = Lo + Start(local_id, j + 1) * Inc
        /\ z + Stride = LoopMin(Inc, (x + Stride) + (loop.chunk - 1) * Inc, Up + Stride)
    <3> DEFINE q == p
    <3>1. q = Start(local_id, j) /\ IsNumber(q)
      BY <2>5
    <3> HIDE DEF q
    <3>2. LET v == Lo + q * Inc
              w == Lo + (q + loop.chunk - 1) * Inc
              r == LoopMin(Inc, w, Up)
          IN  /\ v \in Representable /\ v \in Int /\ w \in Int /\ r \in Representable /\ r \in Int
              /\ v + Stride = Lo + Start(local_id, j + 1) * Inc
              /\ r + Stride = LoopMin(Inc, (v + Stride) + (loop.chunk - 1) * Inc, Up + Stride)
      BY <1>0, <1>5, <2>4, <3>1, ChunkFacts
    <3> QED BY <3>2 DEF q
  <2>8. lower = x + Stride /\ upper = z + Stride
    BY <2>5, <2>7
  <2>9. Within(Inc, x, Up)
    BY <2>5 DEF IsNumber
  <2>10. Within(Inc, Up, y) <=> ~LimitMissed /\ Owns(local_id, k)
    <3> DEFINE q == p
    <3>1. q = Start(local_id, j) /\ IsNumber(q)
      BY <2>5
    <3> HIDE DEF q
    <3>2. Within(Inc, Up, Lo + (q + loop.chunk - 1) * Inc) <=> ~LimitMissed /\ Owns(local_id, k)
      BY <1>0, <1>5, <2>4, <2>6, <3>1, LimitFacts
    <3> QED BY <3>2 DEF q
  <2>11. y \in Int
    BY <2>7
  <2> HIDE DEF x, y
  <2>12. Within(Inc, Up, z) <=> Within(Inc, Up, y)
    <3>1. Within(Inc, Up, Up)
      BY <1>1, WithinSelf
    <3> QED BY <1>1, <2>11, <3>1, WithinMin
  <2> HIDE DEF z
  <2>13. lower' = x
    <3>1. Wrap(lower - Wrap(Stride)) = Wrap(lower - Stride)
      BY <1>0, <1>1, WrapSum
    <3>2. lower - Stride = x
      BY <1>1, <2>7, <2>8
    <3> QED BY <1>0, <2>2, <2>7, <3>1, <3>2, WrapSame
  <2>14. upper' = z
    <3>1. Wrap(upper - Wrap(Stride)) = Wrap(upper - Stride)
      BY <1>0, <1>1, WrapSum
    <3>2. upper - Stride = z
      BY <1>1, <2>7, <2>8
    <3> QED BY <1>0, <2>2, <2>7, <3>1, <3>2, WrapSame
  <2> QED BY <1>3, <2>7, <2>9, <2>10, <2>12, <2>13, <2>14
<1>6. CASE team_size > 1 /\ ~Busy
  <2>1. /\ stride = Wrap(Inc) /\ upper = lower - Inc
        /\ lower \in Representable /\ upper \in Representable
        /\ lower = Lo - Inc \/ lower - 2 * Inc \in Representable
    BY <1>0, <1>6 DEF StaticRight, IdleRight
  <2>2. lower # Lo - Inc
    BY <1>0, <1>1, <1>2 DEF Within
  <2>3. lower' = lower - Inc
    <3>1. Wrap(lower - Wrap(Inc)) = Wrap(lower - Inc)
      BY <1>0, <1>1, WrapSum
    <3> QED BY <1>0, <2>1, <3>1, WrapSame
  <2>4. upper' = lower - 2 * Inc
    <3>1. Wrap(upper - Wrap(Inc)) = Wrap(upper - Inc)
      BY <1>0, <1>1, WrapSum
    <3>2. upper - Inc = lower - 2 * Inc
      BY <1>0, <1>1, <2>1
    <3> QED BY <1>0, <2>1, <2>2, <3>1, <3>2, WrapSame
  <2>5. ~(Within(Inc, lower - Inc, Up) /\ Within(Inc, Up, lower - 2 * Inc))
    BY <1>0, <1>1 DEF Within
  <2>6. lower - Inc \in Int /\ lower - 2 * Inc \in Int
    BY <1>0, <1>1
  <2>7. ~Limit(lower', upper')
    BY <1>3, <2>3, <2>4, <2>5, <2>6
  <2>8. ~Owns(local_id, k)
    BY <1>0, <1>6, IdleOwns DEF IsLast
  <2> QED BY <2>7, <2>8
<1> QED BY <1>1, <1>4, <1>5, <1>6

LEMMA StepEndChunks ==
    ASSUME StaticInv, EndChunks
    PROVE  StaticInv'
<1>1. /\ Types /\ pc = "STATIC" /\ pc' = "done" /\ UNCHANGED <<input, local_id>>
      /\ stride' = stride /\ ran' = ran /\ twice' = twice
      /\ lower \in Int /\ upper \in Int /\ stride \in Int
      /\ lower' = Wrap(lower - stride) /\ upper' = Wrap(upper - stride)
      /\ last' = IF Limit(lower', upper') THEN last \cup {local_id} ELSE last
      /\ ~Within(Inc, lower, Up)
  BY DEF StaticInv, EndChunks, Types, Inc, Up
<1>2. Inc \in Int \ {0} /\ Lo \in Int /\ Up \in Int
  BY <1>1, LoopFacts
<1>3. lower' \in Int /\ upper' \in Int
  <2>1. lower - stride \in Int /\ upper - stride \in Int
    BY <1>1
  <2> QED BY <1>1, <2>1, WrapForm
<1>4. Types'
  BY <1>1, <1>3, TypesFrame
<1>5. Headroom' <=> Headroom
  BY <1>1, InputFrame
<1> SUFFICES ASSUME Headroom
             PROVE  RanRight' /\ LastRight' /\ twice' = {} /\ RangeRight'
  BY <1>4, <1>5 DEF StaticInv
<1>6. RanRight /\ LastRight /\ twice = {}
  BY DEF StaticInv
<1>7. RangeRight'
  BY <1>1 DEF RangeRight
<1>8. ASSUME NEW t \in 0 .. team_size - 1, NEW k \in Nat, IsNumber(k), Owns(t, k)
      PROVE  HasRun(t, k)' <=> HasRun(t, k)
  <2> DEFINE x == Lo + k * Inc
  <2>1. x \in Int /\ Within(Inc, x, Up)
    BY <1>1, <1>8, NumberOrder DEF IsNumber
  <2> HIDE DEF x
  <2>2. Before(Inc, Up, lower)
    BY <1>1, <1>2, WithinPair
  <2>3. Before(Inc, x, lower)
    BY <1>1, <1>2, <2>1, <2>2, WithinFacts
  <2>4. Passed(k) /\ Passed(k)'
    BY <1>1, <2>3 DEF Passed, x
  <2> QED BY <1>1, <2>4 DEF HasRun
<1>9. RanRight'
  BY <1>1, <1>6, <1>8, RanKept
<1>10. LastRight'
  <2> DEFINE B == Limit(lower', upper')
  <2>1. B \in BOOLEAN
    BY DEF Limit
  <2>2. \A k \in Nat : IsLast(k) => (B <=> ~LimitMissed /\ Owns(local_id, k))
    BY LimitTest
  <2>3. last' = IF B THEN last \cup {local_id} ELSE last
    BY <1>1
  <2> HIDE DEF B
  <2>4. pc # "done"
    BY <1>1
  <2> QED BY <1>1, <1>6, <2>1, <2>2, <2>3, <2>4, LastMore
<1> QED BY <1>1, <1>6, <1>7, <1>9, <1>10
-----------------------------------------------------------------------------
LEMMA StepNextThread ==
    ASSUME StaticInv, NextThread
    PROVE  StaticInv'
<1>1. /\ Types /\ pc = "done" /\ pc' = "init" /\ UNCHANGED input
      /\ local_id' = local_id + 1 /\ local_id < team_size - 1
      /\ lower' = Lo /\ upper' = Up /\ stride' = 0
      /\ ran' = ran /\ twice' = twice /\ last' = last
  BY DEF StaticInv, NextThread, Lo, Up
<1>2. Lo \in Int /\ Up \in Int /\ local_id \in Nat /\ team_size \in Nat \ {0}
  BY <1>1, LoopFacts
<1>3. loop' = loop /\ team_size' = team_size /\ static_fair' = static_fair
  BY <1>1, InputFrame
<1>4. local_id' \in 0 .. team_size - 1
  BY <1>1, <1>2
<1>5. Types'
  BY <1>1, <1>2, <1>3, <1>4 DEF Types
<1>6. Headroom' <=> Headroom
  BY <1>1, InputFrame
<1>7. RangeRight'
  BY <1>1 DEF RangeRight
<1>8. \A t \in 0 .. team_size - 1 : Through(t)' <=> Through(t)
  BY <1>1, <1>2 DEF Through
<1>9. \A t \in 0 .. team_size - 1, k \in Nat : HasRun(t, k)' <=> HasRun(t, k)
  <2> TAKE t \in 0 .. team_size - 1, k \in Nat
  <2>1. Passed(k) /\ ~Passed(k)'
    BY <1>1 DEF Passed
  <2>2. t \in Int
    BY <1>2
  <2> QED BY <1>1, <1>2, <2>1, <2>2 DEF HasRun
<1>10. Headroom => RanRight' /\ LastRight' /\ twice' = {}
  <2> HAVE Headroom
  <2>1. RanRight /\ LastRight /\ twice = {}
    BY DEF StaticInv
  <2> QED BY <1>1, <1>8, <1>9, <2>1, RanKept, LastKept
<1> QED BY <1>5, <1>6, <1>7, <1>10 DEF StaticInv

LEMMA InitInv == Init => StaticInv
<1> SUFFICES ASSUME Init PROVE StaticInv
  OBVIOUS
<1>1. /\ loop \in Loops /\ team_size \in Teams /\ static_fair \in BOOLEAN
      /\ local_id = 0 /\ pc = "init" /\ lower = Lo /\ upper = Up /\ stride = 0
      /\ ran = {} /\ twice = {} /\ last = {}
  BY DEF Init, Lo, Up
<1>2. team_size \in Nat \ {0} /\ Lo \in Int /\ Up \in Int
  BY <1>1, StaticLoopAssumption, WidthFacts DEF Lo, Up, Representable
<1>3. Types
  BY <1>1, <1>2 DEF Types
<1>4. RangeRight
  BY <1>1 DEF RangeRight
<1>5. \A t \in 0 .. team_size - 1 : ~Through(t) /\ \A k \in Nat : ~HasRun(t, k)
  BY <1>1, <1>2 DEF Through, HasRun, Passed
<1>6. RanRight
  BY <1>1, <1>5 DEF RanRight
<1>7. LastRight
  BY <1>1, <1>5 DEF LastRight
<1> QED BY <1>1, <1>3, <1>4, <1>6, <1>7 DEF StaticInv

LEMMA NextInv == StaticInv /\ [Next]_vars => StaticInv'
<1> SUFFICES ASSUME StaticInv, [Next]_vars PROVE StaticInv'
  OBVIOUS
<1>1. CASE UNCHANGED vars
  <2>1. UNCHANGED <<input, local_id, pc, lower, upper, stride, index, ran, twice, last>>
    BY <1>1 DEF vars
  <2>2. Types /\ (Headroom => twice = {} /\ RanRight /\ LastRight /\ RangeRight)
    BY DEF StaticInv
  <2>3. Types'
    BY <2>1, <2>2, TypesFrame DEF Types
  <2>4. Headroom' <=> Headroom
    BY <2>1, InputFrame
  <2>5. \A k \in Nat : Passed(k)' <=> Passed(k)
    BY <2>1, InputFrame DEF Passed
  <2>6. \A t \in 0 .. team_size - 1 : (Through(t)' <=> Through(t))
                                      /\ \A k \in Nat : HasRun(t, k)' <=> HasRun(t, k)
    BY <2>1, <2>5 DEF Through, HasRun
  <2>7. Headroom => RanRight'
    BY <2>1, <2>2, <2>6, RanKept
  <2>8. Headroom => LastRight'
    BY <2>1, <2>2, <2>6, LastKept
  <2>9. RangeRight' <=> RangeRight
    <3>1. StaticRight' <=> StaticRight
      BY <2>1, StaticFrame, InputFrame DEF StaticRight, AloneRight, IdleRight, ChunkRight
    <3>2. EvenRight' <=> EvenRight
      BY <2>1, StaticFrame, InputFrame DEF EvenRight
    <3> QED BY <2>1, <3>1, <3>2 DEF RangeRight
  <2> QED BY <2>1, <2>2, <2>3, <2>4, <2>7, <2>8, <2>9 DEF StaticInv
<1>2. CASE Next
  BY <1>2, StepCallStaticInit, StepRunEven, StepRunChunk, StepEndChunks, StepNextThread DEF Next
<1> QED BY <1>1, <1>2
-----------------------------------------------------------------------------
(***************************************************************************)
(* The theorems                                                            *)
(***************************************************************************)
\* The invariant holds in every behaviour of the lowered loop.
THEOREM StaticInvHolds == Spec => []StaticInv
<1>1. Init => StaticInv
  BY InitInv
<1>2. StaticInv /\ [Next]_vars => StaticInv'
  BY NextInv
<1> QED BY <1>1, <1>2, PTL DEF Spec

LEMMA ExactlyOnceFollows == StaticInv => ExactlyOnce
<1> SUFFICES ASSUME StaticInv, Headroom
             PROVE  /\ twice = {}
                    /\ {r[2] : r \in ran} \subseteq AllIterations
                    /\ Finished => {r[2] : r \in ran} = AllIterations
                    /\ pc = "abort" => AllIterations = {}
  BY DEF ExactlyOnce
<1>1. Types /\ twice = {} /\ RanRight
  BY DEF StaticInv
<1>2. {r[2] : r \in ran} \subseteq AllIterations
  <2> SUFFICES ASSUME NEW r \in ran PROVE r[2] \in AllIterations
    OBVIOUS
  <2>1. PICK t \in 0 .. team_size - 1, x \in Int : r = <<t, x>>
    BY <1>1 DEF RanRight
  <2>2. \E k \in Nat : x = Lo + k * Inc /\ IsNumber(k)
    BY <1>1, <2>1 DEF RanRight
  <2>3. x \in AllIterations
    BY <1>1, <2>2, AllAre
  <2> QED BY <2>1, <2>3
<1>3. ASSUME Finished, NEW x \in AllIterations PROVE x \in {r[2] : r \in ran}
  <2>1. PICK k \in Nat : x = Lo + k * Inc /\ IsNumber(k)
    BY <1>1, <1>3, AllAre
  <2>2. PICK t \in 0 .. team_size - 1 : Owns(t, k)
    BY <1>1, <2>1, OwnsCover
  <2>3. x \in Int
    BY <1>1, <2>1, NumberOrder
  <2>4. HasRun(t, k)
    <3>1. team_size \in Nat \ {0} /\ local_id \in Nat
      BY <1>1, LoopFacts
    <3> QED BY <1>3, <2>2, <3>1 DEF HasRun, Passed, Finished
  <2>5. <<t, x>> \in ran
    BY <1>1, <2>1, <2>2, <2>3, <2>4 DEF RanRight
  <2>6. <<t, x>>[2] = x
    OBVIOUS
  <2> QED BY <2>5, <2>6
<1>4. ASSUME pc = "abort" PROVE AllIterations = {}
  <2>1. Size(loop) < 0
    BY <1>1, <1>4 DEF Types
  <2>2. ~Within(Inc, Lo, Up)
    BY <1>1, <2>1, NumberSize
  <2>3. \A k \in Nat : ~IsNumber(k)
    BY <1>1, <2>2, NumberSize
  <2> QED BY <1>1, <2>3, AllAre
<1> QED BY <1>1, <1>2, <1>3, <1>4

\* As long as the DO variable does not overflow, no two threads run the same
\* iteration of a statically scheduled loop, in the end every iteration has
\* been run, and the assertion of __pmp_static_init fails only on loops
\* without iterations - for all loops, teams and widths of the DO variable.
THEOREM ExactlyOnceHolds == Spec => []ExactlyOnce
<1>1. StaticInv => ExactlyOnce
  BY ExactlyOnceFollows
<1> QED BY <1>1, StaticInvHolds, PTL

LEMMA OneLastFollows == StaticInv => OneLast
<1> DEFINE final == Lo + (Size(loop) - 1) * Inc
<1> SUFFICES ASSUME StaticInv, Headroom, Finished, AllIterations # {}
             PROVE  last = IF LimitMissed THEN {}
                           ELSE {r[1] : r \in {x \in ran : x[2] = final}}
  BY DEF OneLast, Lo, Inc
<1>1. Types /\ RanRight /\ LastRight /\ last \subseteq 0 .. team_size - 1
  BY DEF StaticInv, Types
<1>2. team_size \in Nat \ {0} /\ local_id = team_size - 1 /\ pc = "done"
  BY <1>1, LoopFacts DEF Finished
<1>3. Within(Inc, Lo, Up)
  BY <1>1, AllAre, NumberSize
<1> DEFINE k == Size(loop) - 1
<1>4. k \in Nat /\ \A i \in Nat : IsNumber(i) <=> i <= k
  BY <1>1, <1>3, NumberSize
<1> HIDE DEF k
<1>5. IsLast(k)
  BY <1>4 DEF IsLast
<1>6. final = Lo + k * Inc
  BY DEF k
<1> HIDE DEF final
<1>7. \A t \in 0 .. team_size - 1 : Through(t) /\ \A i \in Nat : HasRun(t, i)
  BY <1>2 DEF Through, HasRun, Passed
<1>8. \A t \in 0 .. team_size - 1 : t \in last <=> ~LimitMissed /\ Owns(t, k)
  BY <1>1, <1>4, <1>5, <1>7 DEF LastRight
<1>9. \A t \in 0 .. team_size - 1 : <<t, final>> \in ran <=> Owns(t, k)
  <2> TAKE t \in 0 .. team_size - 1
  <2>1. final \in Int
    BY <1>1, <1>4, <1>6, NumberOrder
  <2>2. \A i \in Nat : final = Lo + i * Inc => i = k
    BY <1>1, <1>4, <1>6, NumberOrder
  <2>3. <<t, final>> \in ran <=>
          \E i \in Nat : final = Lo + i * Inc /\ IsNumber(i) /\ Owns(t, i) /\ HasRun(t, i)
    BY <1>1, <2>1 DEF RanRight
  <2> QED BY <1>4, <1>6, <1>7, <2>2, <2>3
<1> DEFINE W == {r[1] : r \in {x \in ran : x[2] = final}}
<1>10. \A t : t \in W <=> t \in 0 .. team_size - 1 /\ <<t, final>> \in ran
  <2>1. ASSUME NEW t, t \in W PROVE t \in 0 .. team_size - 1 /\ <<t, final>> \in ran
    <3>1. PICK r \in ran : r[2] = final /\ t = r[1]
      BY <2>1
    <3>2. PICK u \in 0 .. team_size - 1, x \in Int : r = <<u, x>>
      BY <1>1, <3>1 DEF RanRight
    <3> QED BY <3>1, <3>2
  <2>2. ASSUME NEW t \in 0 .. team_size - 1, <<t, final>> \in ran PROVE t \in W
    <3>1. <<t, final>>[2] = final /\ <<t, final>>[1] = t
      OBVIOUS
    <3> QED BY <2>2, <3>1
  <2> QED BY <2>1, <2>2
<1> HIDE DEF W
<1>11. ASSUME LimitMissed PROVE last = {}
  BY <1>1, <1>8, <1>11
<1>12. ASSUME ~LimitMissed PROVE last = W
  BY <1>1, <1>8, <1>9, <1>10, <1>12
<1> QED BY <1>11, <1>12 DEF W

\* As long as the DO variable does not overflow, the LASTPRIVATE test of the
\* lowered loop succeeds in the thread that has run the last iteration and in
\* no other, and in no thread at all exactly for the loops of LimitMissed.
THEOREM OneLastHolds == Spec => []OneLast
<1>1. StaticInv => OneLast
  BY OneLastFollows
<1> QED BY <1>1, StaticInvHolds, PTL
=============================================================================
