--------------------------- MODULE LoopRingProofs ---------------------------
(***************************************************************************)
(* Proofs about the loops that a team schedules at run time, for any       *)
(* number of threads, slots and regions, any programs of loops and any     *)
(* width of the counters: a thread never works with the descriptor of      *)
(* another loop, no assertion of the runtime fails, every iteration of a   *)
(* loop is run exactly once, the thread that has run the last one finds    *)
(* out, and ordered regions are run one at a time and in order.            *)
(***************************************************************************)
EXTENDS LoopRing, ScheduleLemmas, FiniteSetTheorems, TLAPS

(***************************************************************************)
(* Types                                                                   *)
(***************************************************************************)
Entering == {"fill", "publish", "attach"}
Working == {"next", "estimate", "take", "adjust", "body", "iterate", "inside", "free"}
Label == {"absent", "begin", "unuse", "after", "done", "abort"} \cup Entering \cup Working

\* The threads of the team.
Active == 0 .. N - 1

Types ==
    /\ region \in Regions
    /\ team_count \in Int
    /\ slots \in [0 .. Slots - 1 -> SlotRecord]
    /\ pc \in [Threads -> Label]
    /\ at \in [Threads -> 1 .. Len(program)]
    /\ loop_count \in [Threads -> Int]
    /\ loop \in [Threads -> Int]
    /\ iteration \in [Threads -> Nat]
    /\ ticket_number \in [Threads -> Int]
    /\ range \in [Threads -> [lower : Int, upper : Int]]
    /\ index \in [Threads -> Int]
    /\ guess \in [Threads -> [chunk : Int, stride : Int]]
    /\ \A t \in Threads :
        /\ pc[t] = "absent" <=> t \notin Active
        /\ pc[t] \in Working \cup {"unuse"} => loop[t] \in 0 .. Slots - 1
        /\ pc[t] \notin Working \cup {"unuse", "abort"} => loop[t] = NoLoop

(***************************************************************************)
(* The ring.  Loops are numbered from 1 in each region; b loops have been  *)
(* counted before the region, p have been counted in it by some thread and *)
(* the first q of these, p or p - 1, have been published.                  *)
(***************************************************************************)
Ring == IF Orphan THEN 1 ELSE Slots
IdRange == CountRange \div 2

Place(b, k) == (b + k - 1) % Ring
Id(b, k) == (b + k - 1) % IdRange

\* How many loops thread t has counted, entered, left, and will not touch again.
Counted(t) == IF pc[t] = "begin" THEN at[t] - 1 ELSE at[t]
Entered(t) == IF pc[t] \in {"begin"} \cup Entering THEN at[t] - 1 ELSE at[t]
Left(t) == IF pc[t] \in {"unuse", "after", "done"} THEN at[t] ELSE at[t] - 1
Released(t) == IF pc[t] \in {"after", "done"} THEN at[t] ELSE at[t] - 1

Staying(k) == {t \in Active : Left(t) < k}

\* What thread t knows of its own place.
CountRight(t, b, p, q) ==
    /\ Counted(t) <= p
    /\ loop_count[t] = (b + Counted(t)) % CountRange
    /\ Orphan => Counted(t) = p
    /\ Entered(t) <= q
    /\ q <= Released(t) + Ring
    /\ pc[t] \in Working \cup {"unuse", "abort"} => loop[t] = Place(b, at[t])
    /\ pc[t] = "done" => at[t] = Len(program)

\* The one thread that fills a slot; it has the slot for itself.
FillRight(t, b, p, q) ==
    /\ pc[t] \in {"fill", "publish"} =>
        /\ at[t] = p
        /\ q = p - 1
        /\ \A u \in Active : pc[u] \in {"fill", "publish"} => u = t
    /\ pc[t] = "publish" =>
        /\ slots[Place(b, p)].loop_id = Unused
        /\ slots[Place(b, p)].number = p
        /\ slots[Place(b, p)].looping_threads = N
        /\ \A u \in Active : p <= Released(u) + Ring

\* The last thread to leave is alone with the slot.
UnuseRight(t) ==
    pc[t] = "unuse" => \A u \in Active : u # t => at[t] <= Released(u)

\* A published loop that some thread has not left has its slot.
Holds(b, k) ==
    (\E t \in Active : Released(t) < k) =>
        /\ slots[Place(b, k)].loop_id = Id(b, k)
        /\ slots[Place(b, k)].number = k
        /\ slots[Place(b, k)].looping_threads = Cardinality(Staying(k))

\* A slot that is in use belongs to a loop that some thread has not left.
Belongs(b, q, s) ==
    slots[s].loop_id # Unused =>
        \E k \in 1 .. q : Place(b, k) = s /\ \E t \in Active : Released(t) < k

RingInv(b, p, q) ==
    /\ q \in {p - 1, p} /\ p <= Len(program)
    /\ Orphan \/ team_count = (b + p) % CountRange
    /\ \A t \in Active : CountRight(t, b, p, q)
    /\ \A t \in Active : FillRight(t, b, p, q)
    /\ \A t \in Active : UnuseRight(t)
    /\ \A k \in 1 .. q : Holds(b, k)
    /\ \A s \in 0 .. Slots - 1 : Belongs(b, q, s)

RingRight == \E b, p, q \in Nat : RingInv(b, p, q)

(***************************************************************************)
(* Types of the chunks, the regions and the loops                          *)
(***************************************************************************)
LEMMA ChunkAtType ==
    ASSUME NEW l \in SlotRecord, NEW current \in Int, NEW stride \in Int
    PROVE  IsReply(ChunkAt(l, current, stride))
<1>1. l.inc \in Int /\ l.upper \in Int
  BY DEF SlotRecord
<1>3. current + stride - l.inc \in Int
  BY <1>1
<1>4. LoopMin(l.inc, l.upper, current + stride - l.inc) \in Int
  BY <1>1, <1>3, BoundType
<1> QED BY <1>4 DEF ChunkAt, Reply, IsReply

\* The chunk of a guided loop is never smaller than its minimum.
LEMMA GuidedType ==
    ASSUME NEW l \in SlotRecord, NEW n \in Nat \ {0}, NEW min \in Nat \ {0},
           NEW a \in Int, NEW r, r.lower \in Int, r.upper \in Int
    PROVE  /\ GuidedFirst(r, min, n, param) \in Nat \ {0}
           /\ GuidedNext(l.upper, a, min, n, param) \in Nat \ {0}
<1> DEFINE divisor == n * guided_chunk_divisor
<1>1. guided_chunk_divisor \in Nat \ {0} /\ guided_chunk_max \in Nat \ {0}
  BY LoopRingAssumption
<1>2. divisor \in Int /\ divisor > 0
  BY <1>1
<1>3. param.guided_chunk_divisor = guided_chunk_divisor /\ param.guided_chunk_max = guided_chunk_max
  BY DEF param
<1> HIDE DEF divisor
<1>4. \A x \in Int : MaxOf(min, MinOf(guided_chunk_max, CDiv(x, divisor))) \in Nat \ {0}
  <2> TAKE x \in Int
  <2> DEFINE q == CDiv(x, divisor)
  <2>1. q \in Int
    BY <1>2, DivisionType
  <2> HIDE DEF q
  <2>2. MaxOf(min, MinOf(guided_chunk_max, q)) \in Nat \ {0}
    BY <2>1, <1>1 DEF MaxOf, MinOf
  <2> QED BY <2>2 DEF q
<1>5. r.upper - r.lower + divisor \in Int
  BY <1>2
<1>6. l.upper - a + divisor - 1 \in Int
  BY <1>2 DEF SlotRecord
<1>7. GuidedFirst(r, min, n, param) =
        MaxOf(min, MinOf(guided_chunk_max, CDiv(r.upper - r.lower + divisor, divisor)))
  BY <1>3 DEF GuidedFirst, divisor
<1>8. GuidedNext(l.upper, a, min, n, param) =
        MaxOf(min, MinOf(guided_chunk_max, CDiv(l.upper - a + divisor - 1, divisor)))
  BY <1>3 DEF GuidedNext, divisor
<1> QED BY <1>4, <1>5, <1>6, <1>7, <1>8

LEMMA RegionFacts ==
    ASSUME region \in Regions
    PROVE  /\ N \in 1 .. MaxTeam /\ MaxTeam \in Nat \ {0} /\ N \in Nat \ {0}
           /\ Orphan \in BOOLEAN /\ (Orphan => N = 1)
           /\ program \in Seq(LoopRecord) /\ Len(program) \in Nat \ {0}
           /\ region.static_fair \in BOOLEAN
           /\ region.start \in 0 .. CountRange - 1
           /\ Active \subseteq Threads
           /\ Slots \in Nat \ {0} /\ CountRange \in Nat \ {0}
<1>1. MaxTeam \in Nat \ {0} /\ Slots \in Nat \ {0} /\ CountRange \in Nat /\ CountRange > 2 * Slots
  BY LoopRingAssumption
<1>2. /\ region.team_size \in 1 .. MaxTeam
      /\ region.orphan \in BOOLEAN /\ (region.orphan => region.team_size = 1)
      /\ region.start \in 0 .. CountRange - 1
      /\ region.static_fair \in BOOLEAN
      /\ region.program \in Seq(LoopRecord) /\ region.program # <<>>
  BY LoopRingAssumption
<1>3. Len(program) \in Nat \ {0}
  BY <1>2 DEF program
<1>4. Active \subseteq Threads
  BY <1>1, <1>2 DEF Active, Threads, N
<1>5. CountRange # 0
  BY <1>1
<1>6. N \in Nat \ {0}
  BY <1>1, <1>2 DEF N
<1> QED BY <1>1, <1>2, <1>3, <1>4, <1>5, <1>6 DEF N, Orphan, program

\* The loop a thread is in.
LEMMA LoopFacts ==
    ASSUME Types, NEW t \in Threads
    PROVE  /\ program[at[t]] \in LoopRecord
           /\ at[t] \in 1 .. Len(program) /\ at[t] \in Nat \ {0}
           /\ Resolve(program[at[t]]) \in LoopRecord
           /\ Resolve(program[at[t]]).sched \in Schedules
           /\ MaxOf(1, program[at[t]].chunk) \in Nat \ {0}
<1>1. program \in Seq(LoopRecord) /\ Len(program) \in Nat
  BY RegionFacts DEF Types
<1>2. at[t] \in 1 .. Len(program)
  BY DEF Types
<1>3. program[at[t]] \in LoopRecord
  BY <1>1, <1>2
<1> DEFINE l == program[at[t]]
<1>4. l \in LoopRecord
  BY <1>3
<1> HIDE DEF l
<1>5. runtime_schedule \in Schedules /\ runtime_chunk \in Nat \ {0}
  BY LoopRingAssumption
<1>6. Resolve(l) \in LoopRecord /\ Resolve(l).sched \in Schedules
  BY <1>4, <1>5 DEF Resolve, LoopRecord
<1>7. MaxOf(1, l.chunk) \in Nat \ {0}
  BY <1>4 DEF LoopRecord, MaxOf
<1>8. at[t] \in Nat \ {0}
  BY <1>1, <1>2
<1> QED BY <1>2, <1>3, <1>6, <1>7, <1>8 DEF l

LEMMA SlotUpdate ==
    ASSUME NEW r \in SlotRecord, NEW i \in Int, NEW c \in Nat \ {0}
    PROVE  /\ [r EXCEPT !.loop_id = i] \in SlotRecord
           /\ [r EXCEPT !.looping_threads = i] \in SlotRecord
           /\ [r EXCEPT !.now_serving = i] \in SlotRecord
           /\ [r EXCEPT !.current = i] \in SlotRecord
           /\ [r EXCEPT !.chunk = c] \in SlotRecord
BY DEF SlotRecord

LEMMA SlotsUpdate ==
    ASSUME NEW f \in [0 .. Slots - 1 -> SlotRecord], NEW s \in 0 .. Slots - 1,
           NEW r \in SlotRecord
    PROVE  [f EXCEPT ![s] = r] \in [0 .. Slots - 1 -> SlotRecord]
OBVIOUS

Where(t) ==
    /\ pc[t] = "absent" <=> t \notin Active
    /\ pc[t] \in Working \cup {"unuse"} => loop[t] \in 0 .. Slots - 1
    /\ pc[t] \notin Working \cup {"unuse", "abort"} => loop[t] = NoLoop

LocalTypes ==
    /\ at \in [Threads -> 1 .. Len(program)]
    /\ loop_count \in [Threads -> Int]
    /\ iteration \in [Threads -> Nat]
    /\ ticket_number \in [Threads -> Int]
    /\ range \in [Threads -> [lower : Int, upper : Int]]
    /\ index \in [Threads -> Int]
    /\ guess \in [Threads -> [chunk : Int, stride : Int]]

SharedTypes ==
    /\ region \in Regions
    /\ team_count \in Int
    /\ slots \in [0 .. Slots - 1 -> SlotRecord]

PlaceTypes ==
    /\ pc \in [Threads -> Label]
    /\ loop \in [Threads -> Int]
    /\ \A t \in Threads : Where(t)

LEMMA TypesParts == Types <=> SharedTypes /\ LocalTypes /\ PlaceTypes
BY DEF Types, SharedTypes, LocalTypes, PlaceTypes, Where

LEMMA TypesInit == ASSUME Init PROVE Types
<1>1. region \in Regions
  BY DEF Init
<1>2. /\ N \in Nat /\ Len(program) \in Nat \ {0} /\ region.start \in Int
      /\ MaxTeam \in Nat /\ Active \subseteq Threads
  BY <1>1, RegionFacts
<1>3. FreeSlot \in SlotRecord
  BY DEF FreeSlot, SlotRecord, Schedules, Unused
<1>4. SharedTypes
  BY <1>1, <1>2, <1>3 DEF Init, SharedTypes
<1>5. team_count \in Int
  BY <1>4 DEF SharedTypes
<1>6. LocalTypes
  BY <1>2, <1>5 DEF Init, LocalTypes, EmptyRange, NoGuess
<1>7. pc \in [Threads -> Label] /\ loop \in [Threads -> Int]
  BY DEF Init, Label, NoLoop
<1>8. \A t \in Threads : Where(t)
  <2> TAKE t \in Threads
  <2>1. pc[t] = IF t < N THEN "begin" ELSE "absent"
    BY DEF Init
  <2>2. loop[t] = NoLoop
    BY DEF Init
  <2>3. t \in Active <=> t < N
    BY <1>2 DEF Threads, Active
  <2> QED BY <2>1, <2>2, <2>3 DEF Where, Working
<1> QED BY <1>4, <1>6, <1>7, <1>8, TypesParts DEF PlaceTypes

\* Only thread t moves, from one label to another.
LEMMA PlaceStep ==
    ASSUME Types, NEW t \in Threads, NEW label \in Label \ {"absent"},
           pc[t] # "absent", Goto(t, label), UNCHANGED region,
           \/ /\ UNCHANGED loop
              /\ label \in Working \cup {"unuse"} => pc[t] \in Working \cup {"unuse"}
              /\ label \notin Working \cup {"unuse", "abort"} =>
                   pc[t] \notin Working \cup {"unuse", "abort"}
           \/ /\ \E s \in 0 .. Slots - 1 : loop' = [loop EXCEPT ![t] = s]
              /\ label \in Working
           \/ /\ loop' = [loop EXCEPT ![t] = NoLoop]
              /\ label \notin Working \cup {"unuse"}
    PROVE  PlaceTypes'
<1>1. pc' = [pc EXCEPT ![t] = label] /\ pc \in [Threads -> Label] /\ loop \in [Threads -> Int]
  BY DEF Goto, Types
<1>2. NoLoop \in Int /\ 0 .. Slots - 1 \subseteq Int
  BY LoopRingAssumption DEF NoLoop
<1>3. pc' \in [Threads -> Label] /\ loop' \in [Threads -> Int]
  BY <1>1, <1>2
<1>4. Active' = Active
  BY DEF Active, N
<1>5. ASSUME NEW u \in Threads PROVE Where(u)'
  <2>1. Where(u)
    BY TypesParts DEF PlaceTypes
  <2>2. CASE u # t
    <3>1. pc'[u] = pc[u] /\ loop'[u] = loop[u]
      BY <1>1, <2>2
    <3> QED BY <2>1, <3>1, <1>4 DEF Where
  <2>3. CASE u = t
    <3>1. pc'[t] = label
      BY <1>1
    <3>2. t \in Active
      BY <2>1, <2>3 DEF Where
    <3>3. CASE UNCHANGED loop
      <4>1. \/ /\ label \in Working \cup {"unuse"} => pc[t] \in Working \cup {"unuse"}
               /\ label \notin Working \cup {"unuse", "abort"} =>
                    pc[t] \notin Working \cup {"unuse", "abort"}
            \/ loop'[t] \in 0 .. Slots - 1 /\ label \in Working
            \/ loop'[t] = NoLoop /\ label \notin Working \cup {"unuse"}
        BY <1>1
      <4> QED BY <2>1, <2>3, <3>1, <3>2, <3>3, <4>1, <1>4 DEF Where
    <3>4. CASE \E s \in 0 .. Slots - 1 : loop' = [loop EXCEPT ![t] = s] /\ label \in Working
      <4>1. loop'[t] \in 0 .. Slots - 1 /\ label \in Working
        BY <3>4, <1>1
      <4> QED BY <2>3, <3>1, <3>2, <4>1, <1>4 DEF Where
    <3>5. CASE loop' = [loop EXCEPT ![t] = NoLoop] /\ label \notin Working \cup {"unuse"}
      <4>1. loop'[t] = NoLoop
        BY <3>5, <1>1
      <4> QED BY <2>3, <3>1, <3>2, <3>5, <4>1, <1>4 DEF Where
    <3> QED BY <3>3, <3>4, <3>5
  <2> QED BY <2>2, <2>3
<1> QED BY <1>3, <1>5 DEF PlaceTypes

LEMMA IndexType ==
    ASSUME Types, NEW count \in Int
    PROVE  /\ LoopIndex(count) \in 0 .. Slots - 1
           /\ LoopId(count) \in Int
           /\ Succ(count) \in Int
           /\ Pred(count) \in Int
<1>1. Slots \in Nat \ {0} /\ CountRange \in Nat \ {0}
  BY RegionFacts DEF Types
<1>2. CountRange \div 2 \in Int /\ CountRange \div 2 > 0
  BY LoopRingAssumption
<1>3. LoopIndex(count) \in 0 .. Slots - 1
  BY <1>1, DivMod DEF LoopIndex
<1>4. LoopId(count) \in Int
  BY <1>2, DivMod DEF LoopId
<1>5. Succ(count) \in Int /\ Pred(count) \in Int
  BY <1>1, DivMod DEF Succ, Pred
<1> QED BY <1>3, <1>4, <1>5

LEMMA MySlotType ==
    ASSUME Types, NEW t \in Threads
    PROVE  MySlot(t) \in 0 .. Slots - 1 /\ MyId(t) \in Int
<1>1. loop_count[t] \in Int
  BY DEF Types
<1>2. Pred(loop_count[t]) \in Int
  BY <1>1, IndexType
<1> QED BY <1>2, IndexType DEF MySlot, MyId

LEMMA TypesAlloc == ASSUME Types, NEW t \in Threads, Alloc(t) PROVE Types'
<1> DEFINE count == loop_count[t]
           first == Orphan \/ team_count = count
<1>1. count \in Int /\ team_count \in Int /\ loop[t] = NoLoop /\ pc[t] = "begin"
  BY DEF Types, Alloc, Working
<1>2. Succ(count) \in Int
  BY <1>1, IndexType
<1>3. program[at[t]].lower \in Int
  BY LoopFacts DEF LoopRecord
<1>4. /\ team_count' \in Int
      /\ loop_count' = [loop_count EXCEPT ![t] = Succ(count)]
      /\ index' = [index EXCEPT ![t] = program[at[t]].lower]
      /\ UNCHANGED <<region, slots, at, loop, iteration, ticket_number, range, guess>>
  BY <1>1, <1>2 DEF Alloc
<1>5. SharedTypes'
  BY <1>4, TypesParts DEF SharedTypes
<1>6. LocalTypes'
  BY <1>2, <1>3, <1>4, TypesParts DEF LocalTypes, program
<1>7. PICK label \in {"attach", "abort", "fill"} : Goto(t, label)
  BY <1>1 DEF Alloc
<1>8. PlaceTypes'
  BY <1>1, <1>4, <1>7, PlaceStep DEF Label, Entering, Working
<1> QED BY <1>5, <1>6, <1>8, TypesParts, PTL

LEMMA TypesFill == ASSUME Types, NEW t \in Threads, Fill(t) PROVE Types'
<1> DEFINE s == MySlot(t)
           l == Resolve(program[at[t]])
           min_chunk == MaxOf(1, program[at[t]].chunk)
           r == [loop_id |-> slots[s].loop_id, looping_threads |-> N,
                 now_serving |-> l.lower, sched |-> l.sched, ordered |-> l.ordered,
                 lower |-> l.lower, upper |-> l.upper, inc |-> l.inc,
                 chunk |-> IF l.sched = "GUIDED" THEN GuidedFirst(l, min_chunk, N, param)
                                                 ELSE l.chunk,
                 current |-> l.lower, min_chunk |-> min_chunk, number |-> at[t]]
<1>1. s \in 0 .. Slots - 1
  BY MySlotType
<1>2. /\ l \in LoopRecord /\ l.sched \in Schedules /\ min_chunk \in Nat \ {0}
      /\ at[t] \in Nat
  BY LoopFacts
<1>3. slots' = [slots EXCEPT ![s] = r]
  BY DEF Fill, FillSlot
<1>4. slots \in [0 .. Slots - 1 -> SlotRecord] /\ slots[s].loop_id \in Int
  BY <1>1 DEF Types, SlotRecord
<1>5. N \in Nat \ {0}
  BY RegionFacts DEF Types
<1> HIDE DEF s, l, min_chunk
<1>6. GuidedFirst(l, min_chunk, N, param) \in Nat \ {0}
  <2>1. l.lower \in Int /\ l.upper \in Int
    BY <1>2 DEF LoopRecord
  <2>2. slots[s] \in SlotRecord
    BY <1>1, <1>4
  <2> QED BY <2>1, <2>2, <1>2, <1>5, GuidedType
<1>7. r \in SlotRecord
  BY <1>2, <1>4, <1>5, <1>6 DEF SlotRecord, LoopRecord
<1> HIDE DEF r
<1>8. slots' \in [0 .. Slots - 1 -> SlotRecord]
  BY <1>1, <1>3, <1>4, <1>7, SlotsUpdate
<1>9. SharedTypes'
  BY <1>8, TypesParts DEF SharedTypes, Fill
<1>10. LocalTypes'
  BY TypesParts DEF LocalTypes, Fill, locals, program
<1>11. PlaceTypes'
  BY PlaceStep DEF Fill, locals, Label, Entering, Working
<1> QED BY <1>9, <1>10, <1>11, TypesParts, PTL

LEMMA TypesPublish == ASSUME Types, NEW t \in Threads, Publish(t) PROVE Types'
<1> DEFINE s == MySlot(t)
<1>1. s \in 0 .. Slots - 1 /\ MyId(t) \in Int
  BY MySlotType
<1>2. slots \in [0 .. Slots - 1 -> SlotRecord] /\ pc[t] = "publish"
  BY DEF Types, Publish
<1>3. CASE slots[s].loop_id = Unused
  <2>1. /\ slots' = [slots EXCEPT ![s].loop_id = MyId(t)]
        /\ Enter(t) /\ Goto(t, "next")
        /\ UNCHANGED <<region, team_count, at, loop_count, ticket_number, range, index, guess>>
    BY <1>3 DEF Publish
  <2>2. slots' \in [0 .. Slots - 1 -> SlotRecord]
    <3>1. [slots[s] EXCEPT !.loop_id = MyId(t)] \in SlotRecord
      <4>1. slots[s] \in SlotRecord /\ 1 \in Nat \ {0}
        BY <1>1, <1>2
      <4> QED BY <1>1, <4>1, SlotUpdate
    <3>2. slots' = [slots EXCEPT ![s] = [slots[s] EXCEPT !.loop_id = MyId(t)]]
      BY <2>1
    <3> QED BY <1>1, <1>2, <3>1, <3>2, SlotsUpdate
  <2>3. SharedTypes'
    BY <2>1, <2>2, TypesParts DEF SharedTypes
  <2>4. LocalTypes'
    BY <2>1, TypesParts DEF LocalTypes, Enter, program
  <2>5. PlaceTypes'
    <3>1. loop' = [loop EXCEPT ![t] = s]
      BY <2>1 DEF Enter
    <3> HIDE DEF s
    <3> QED BY <1>1, <1>2, <2>1, <3>1, PlaceStep DEF Label, Entering, Working
  <2> QED BY <2>3, <2>4, <2>5, TypesParts, PTL
<1>4. CASE slots[s].loop_id # Unused
  <2>1. /\ Goto(t, "abort")
        /\ UNCHANGED <<region, shared, at, loop_count, loop, iteration, ticket_number,
                       range, index, guess>>
    BY <1>4 DEF Publish, shared
  <2>2. SharedTypes' /\ LocalTypes'
    BY <2>1, TypesParts DEF SharedTypes, LocalTypes, shared, program
  <2>3. PlaceTypes'
    BY <1>2, <2>1, PlaceStep DEF Label, Entering, Working
  <2> QED BY <2>2, <2>3, TypesParts, PTL
<1> QED BY <1>3, <1>4

LEMMA TypesAttach == ASSUME Types, NEW t \in Threads, Attach(t) PROVE Types'
<1> DEFINE s == MySlot(t)
<1>1. s \in 0 .. Slots - 1
  BY MySlotType
<1>2. /\ pc[t] = "attach" /\ Goto(t, "next")
      /\ loop' = [loop EXCEPT ![t] = s]
      /\ iteration' = [iteration EXCEPT ![t] = 0]
      /\ UNCHANGED <<region, shared, at, loop_count, ticket_number, range, index, guess>>
  BY DEF Attach, Enter
<1> HIDE DEF s
<1>3. SharedTypes' /\ LocalTypes'
  BY <1>2, TypesParts DEF SharedTypes, LocalTypes, shared, program
<1>4. PlaceTypes'
  BY <1>1, <1>2, PlaceStep DEF Label, Entering, Working
<1> QED BY <1>3, <1>4, TypesParts, PTL

\* A step that moves thread t within the loop changes at most its own locals
\* and the fields of its slot that the schedules use.
LEMMA TypesHand ==
    ASSUME Types, NEW t \in Threads, NEW reply, IsReply(reply), Hand(t, reply),
           pc[t] \in Working, SharedTypes',
           UNCHANGED <<region, at, loop_count, loop, index, guess>>
    PROVE  Types'
<1>1. LocalTypes'
  <2>1. CASE reply.more
    <3>1. [lower |-> reply.lower, upper |-> reply.upper] \in [lower : Int, upper : Int]
      BY DEF IsReply
    <3>2. /\ range' = [range EXCEPT ![t] = [lower |-> reply.lower, upper |-> reply.upper]]
          /\ ticket_number' = [ticket_number EXCEPT ![t] = reply.lower]
          /\ iteration' = [iteration EXCEPT ![t] = iteration[t] + 1]
      BY <2>1 DEF Hand
    <3>3. iteration[t] + 1 \in Nat /\ reply.lower \in Int
      BY DEF Types, IsReply
    <3> QED BY <3>1, <3>2, <3>3, TypesParts DEF LocalTypes, program
  <2>2. CASE ~reply.more
    BY <2>2, TypesParts DEF Hand, LocalTypes, program
  <2> QED BY <2>1, <2>2
<1>2. PICK label \in {"body", "free"} : Goto(t, label)
  BY DEF Hand
<1>3. PlaceTypes'
  BY <1>2, PlaceStep DEF Label, Working
<1> QED BY <1>1, <1>3, TypesParts, PTL

LEMMA MyLoop ==
    ASSUME Types, NEW t \in Threads, pc[t] \in Working \cup {"unuse"}
    PROVE  /\ loop[t] \in 0 .. Slots - 1
           /\ slots[loop[t]] \in SlotRecord
           /\ slots \in [0 .. Slots - 1 -> SlotRecord]
           /\ t \in Active /\ t \in Nat
<1>1. Where(t) /\ slots \in [0 .. Slots - 1 -> SlotRecord]
  BY TypesParts DEF PlaceTypes, Types
<1>2. loop[t] \in 0 .. Slots - 1 /\ t \in Active
  BY <1>1 DEF Where, Working
<1>3. t \in Nat
  BY <1>2 DEF Active
<1> QED BY <1>1, <1>2, <1>3

LEMMA TypesNextFixed == ASSUME Types, NEW t \in Threads, NextFixed(t) PROVE Types'
<1> DEFINE l == slots[loop[t]]
<1>1. pc[t] \in Working
  BY DEF NextFixed, Working
<1>2. l \in SlotRecord /\ t \in Nat
  BY <1>1, MyLoop
<1>3. iteration[t] \in Nat
  BY DEF Types
<1>4. N \in Nat \ {0} /\ region.static_fair \in BOOLEAN
  BY RegionFacts DEF Types
<1> HIDE DEF l
<1>5. IsReply(Reply(iteration[t] = 0, l.lower, l.upper))
  BY <1>2 DEF Reply, IsReply, SlotRecord
<1>6. IsReply(NextStatic(l, N, t, iteration[t]))
  BY <1>2, <1>3, <1>4, NextStaticType
<1>7. IsReply(NextStaticEven(l, region.static_fair, N, t, iteration[t]))
  BY <1>2, <1>3, <1>4, NextStaticEvenType
<1>8. UNCHANGED <<region, shared, at, loop_count, loop, index, guess>>
  BY DEF NextFixed
<1>9. SharedTypes'
  BY <1>8, TypesParts DEF SharedTypes, shared
<1>10. \/ Hand(t, Reply(iteration[t] = 0, l.lower, l.upper))
       \/ Hand(t, NextStatic(l, N, t, iteration[t]))
       \/ Hand(t, NextStaticEven(l, region.static_fair, N, t, iteration[t]))
  BY DEF NextFixed, l
<1>11. PICK reply : IsReply(reply) /\ Hand(t, reply)
  BY <1>5, <1>6, <1>7, <1>10
<1> QED BY <1>1, <1>8, <1>9, <1>11, TypesHand

\* A step of the schedules on one slot.
LEMMA SharedStep ==
    ASSUME Types, NEW s \in 0 .. Slots - 1, NEW r \in SlotRecord,
           slots' = [slots EXCEPT ![s] = r], UNCHANGED <<region, team_count>>
    PROVE  SharedTypes'
<1>1. slots' \in [0 .. Slots - 1 -> SlotRecord]
  BY SlotsUpdate DEF Types
<1> QED BY <1>1, TypesParts DEF SharedTypes

LEMMA TypesNextDynamic == ASSUME Types, NEW t \in Threads, NextDynamic(t) PROVE Types'
<1> DEFINE s == loop[t]
           l == slots[s]
           stride == l.inc * l.chunk
<1>1. pc[t] \in Working
  BY DEF NextDynamic, Working
<1>2. s \in 0 .. Slots - 1 /\ l \in SlotRecord
  BY <1>1, MyLoop
<1>3. /\ slots' = [slots EXCEPT ![s] = [l EXCEPT !.current = l.current + stride]]
      /\ Hand(t, ChunkAt(l, l.current, stride))
      /\ UNCHANGED <<region, team_count, at, loop_count, loop, index, guess>>
  BY DEF NextDynamic
<1> HIDE DEF s, l
<1>4. stride \in Int
  BY <1>2 DEF SlotRecord
<1> HIDE DEF stride
<1>5. l.current \in Int
  BY <1>2 DEF SlotRecord
<1>6. l.current + stride \in Int /\ 1 \in Nat \ {0}
  BY <1>4, <1>5
<1>7. IsReply(ChunkAt(l, l.current, stride))
  BY <1>2, <1>4, <1>5, ChunkAtType
<1>8. [l EXCEPT !.current = l.current + stride] \in SlotRecord
  BY <1>2, <1>6, SlotUpdate
<1>9. SharedTypes'
  BY <1>2, <1>3, <1>8, SharedStep
<1> QED BY <1>1, <1>3, <1>7, <1>9, TypesHand

LEMMA TypesGuidedRead == ASSUME Types, NEW t \in Threads, GuidedRead(t) PROVE Types'
<1>1. pc[t] \in Working
  BY DEF GuidedRead, Working
<1>2. slots[loop[t]].chunk \in Int
  BY <1>1, MyLoop DEF SlotRecord
<1>3. /\ guess' = [guess EXCEPT ![t].chunk = slots[loop[t]].chunk]
      /\ Goto(t, "estimate")
      /\ UNCHANGED <<region, shared, at, loop_count, loop, iteration, ticket_number,
                     range, index>>
  BY DEF GuidedRead
<1>4. guess' \in [Threads -> [chunk : Int, stride : Int]]
  BY <1>2, <1>3 DEF Types
<1>5. SharedTypes' /\ LocalTypes'
  BY <1>3, <1>4, TypesParts DEF SharedTypes, LocalTypes, shared, program
<1>6. PlaceTypes'
  BY <1>1, <1>3, PlaceStep DEF Label, Working
<1> QED BY <1>5, <1>6, TypesParts, PTL

LEMMA TypesGuidedEstimate == ASSUME Types, NEW t \in Threads, GuidedEstimate(t) PROVE Types'
<1> DEFINE l == slots[loop[t]]
           remaining == l.upper - l.current + 1
           my_chunk == MaxOf(l.min_chunk, MinOf(guess[t].chunk, remaining))
           stride == l.inc * my_chunk
<1>1. pc[t] \in Working
  BY DEF GuidedEstimate, Working
<1>2. l \in SlotRecord
  BY <1>1, MyLoop
<1>3. /\ guess' = [guess EXCEPT ![t].stride = stride]
      /\ Goto(t, "take")
      /\ UNCHANGED <<region, shared, at, loop_count, loop, iteration, ticket_number,
                     range, index>>
  BY DEF GuidedEstimate
<1> HIDE DEF l
<1>4. remaining \in Int /\ l.inc \in Int /\ l.min_chunk \in Int
  BY <1>2 DEF SlotRecord
<1> HIDE DEF remaining
<1>5. guess[t].chunk \in Int
  BY DEF Types
<1>6. my_chunk \in Int
  BY <1>4, <1>5, BoundType
<1> HIDE DEF my_chunk
<1>7. stride \in Int
  BY <1>4, <1>6
<1> HIDE DEF stride
<1>8. guess' \in [Threads -> [chunk : Int, stride : Int]]
  BY <1>7, <1>3 DEF Types
<1>9. SharedTypes' /\ LocalTypes'
  BY <1>3, <1>8, TypesParts DEF SharedTypes, LocalTypes, shared, program
<1>10. PlaceTypes'
  BY <1>1, <1>3, PlaceStep DEF Label, Working
<1> QED BY <1>9, <1>10, TypesParts, PTL

LEMMA TypesGuidedTake == ASSUME Types, NEW t \in Threads, GuidedTake(t) PROVE Types'
<1> DEFINE s == loop[t]
           l == slots[s]
           stride == guess[t].stride
           reply == ChunkAt(l, l.current, stride)
<1>1. pc[t] \in Working
  BY DEF GuidedTake, Working
<1>2. s \in 0 .. Slots - 1 /\ l \in SlotRecord
  BY <1>1, MyLoop
<1>3. /\ slots' = [slots EXCEPT ![s] = [l EXCEPT !.current = l.current + stride]]
      /\ \/ /\ range' = [range EXCEPT ![t] = [lower |-> reply.lower, upper |-> reply.upper]]
            /\ Goto(t, "adjust")
         \/ Goto(t, "free") /\ UNCHANGED range
      /\ UNCHANGED <<region, team_count, at, loop_count, loop, iteration, ticket_number,
                     index, guess>>
  BY DEF GuidedTake
<1>4. stride \in Int
  BY DEF Types
<1> HIDE DEF s, l, stride
<1>5. l.current \in Int
  BY <1>2 DEF SlotRecord
<1>6. l.current + stride \in Int /\ 1 \in Nat \ {0}
  BY <1>4, <1>5
<1>7. IsReply(reply)
  BY <1>2, <1>4, <1>5, ChunkAtType
<1>8. [l EXCEPT !.current = l.current + stride] \in SlotRecord
  BY <1>2, <1>6, SlotUpdate
<1>9. SharedTypes'
  BY <1>2, <1>3, <1>8, SharedStep
<1> HIDE DEF reply
<1>10. range' \in [Threads -> [lower : Int, upper : Int]]
  <2>1. range \in [Threads -> [lower : Int, upper : Int]]
    BY DEF Types
  <2>2. [lower |-> reply.lower, upper |-> reply.upper] \in [lower : Int, upper : Int]
    BY <1>7 DEF IsReply
  <2> QED BY <1>3, <2>1, <2>2
<1>11. LocalTypes'
  BY <1>3, <1>10, TypesParts DEF LocalTypes, program
<1>12. PICK label \in {"adjust", "free"} : Goto(t, label)
  BY <1>3
<1>13. PlaceTypes'
  BY <1>1, <1>3, <1>12, PlaceStep DEF Label, Working
<1> QED BY <1>9, <1>11, <1>13, TypesParts, PTL

LEMMA TypesGuidedAdjust == ASSUME Types, NEW t \in Threads, GuidedAdjust(t) PROVE Types'
<1> DEFINE s == loop[t]
           l == slots[s]
           new_chunk == GuidedNext(l.upper, range[t].upper, l.min_chunk, N, param)
<1>1. pc[t] \in Working
  BY DEF GuidedAdjust, Working
<1>2. s \in 0 .. Slots - 1 /\ l \in SlotRecord
  BY <1>1, MyLoop
<1>3. /\ \/ slots' = [slots EXCEPT ![s] = [l EXCEPT !.chunk = new_chunk]]
         \/ slots' = slots
      /\ Hand(t, Reply(TRUE, range[t].lower, range[t].upper))
      /\ UNCHANGED <<region, team_count, at, loop_count, loop, index, guess>>
  BY DEF GuidedAdjust
<1>4. range[t].lower \in Int /\ range[t].upper \in Int
  BY DEF Types
<1>5. N \in Nat \ {0}
  BY RegionFacts DEF Types
<1> HIDE DEF s, l
<1>6. l.min_chunk \in Nat \ {0} /\ l.lower \in Int /\ l.upper \in Int
  BY <1>2 DEF SlotRecord
<1>7. new_chunk \in Nat \ {0}
  BY <1>2, <1>4, <1>5, <1>6, GuidedType
<1> HIDE DEF new_chunk
<1>8. IsReply(Reply(TRUE, range[t].lower, range[t].upper))
  BY <1>4 DEF Reply, IsReply
<1>9. [l EXCEPT !.chunk = new_chunk] \in SlotRecord
  <2>1. 1 \in Int
    OBVIOUS
  <2> QED BY <2>1, <1>2, <1>7, SlotUpdate
<1>10. SharedTypes'
  <2>1. CASE slots' = slots
    BY <2>1, <1>3, TypesParts DEF SharedTypes
  <2>2. CASE slots' = [slots EXCEPT ![s] = [l EXCEPT !.chunk = new_chunk]]
    BY <2>2, <1>2, <1>3, <1>9, SharedStep
  <2> QED BY <2>1, <2>2, <1>3
<1> QED BY <1>1, <1>3, <1>8, <1>10, TypesHand

\* A step of the body: only the DO variable, the ticket and now_serving change.
LEMMA TypesBodyStep ==
    ASSUME Types, NEW t \in Threads, NEW i \in Int, NEW n \in Int,
           NEW label \in Working \cup {"abort"},
           pc[t] \in Working, Goto(t, label),
           index' = [index EXCEPT ![t] = i] \/ UNCHANGED index,
           ticket_number' = [ticket_number EXCEPT ![t] = n] \/ UNCHANGED ticket_number,
           SharedTypes',
           UNCHANGED <<region, at, loop_count, loop, iteration, range, guess>>
    PROVE  Types'
<1>1. index' \in [Threads -> Int] /\ ticket_number' \in [Threads -> Int]
  BY DEF Types
<1>2. LocalTypes'
  BY <1>1, TypesParts DEF LocalTypes, program
<1>3. PlaceTypes'
  BY PlaceStep DEF Label, Working
<1> QED BY <1>2, <1>3, TypesParts, PTL

LEMMA TypesBody == ASSUME Types, NEW t \in Threads, Body(t) PROVE Types'
<1> DEFINE l == program[at[t]]
           to == LoopMin(l.inc, range[t].upper, l.upper)
           i == Final(range[t].lower, to, l.inc)
<1>1. l \in LoopRecord
  BY LoopFacts
<1>2. range[t].lower \in Int /\ range[t].upper \in Int
  BY DEF Types
<1>3. /\ pc[t] \in Working /\ Goto(t, "next") /\ index' = [index EXCEPT ![t] = i]
      /\ UNCHANGED <<region, shared, at, loop_count, loop, iteration, ticket_number,
                     range, guess>>
  BY DEF Body, Working
<1> HIDE DEF l
<1>4. l.inc \in Int \ {0} /\ l.upper \in Int
  BY <1>1 DEF LoopRecord
<1>5. to \in Int
  BY <1>2, <1>4, BoundType
<1> HIDE DEF to
<1>6. i \in Int
  BY <1>2, <1>4, <1>5, FinalType
<1> HIDE DEF i
<1>7. SharedTypes'
  BY <1>3, TypesParts DEF SharedTypes, shared
<1> QED BY <1>3, <1>6, <1>7, TypesBodyStep DEF Working

LEMMA TypesOrderedBegin == ASSUME Types, NEW t \in Threads, OrderedBegin(t) PROVE Types'
<1>1. range[t].lower \in Int
  BY DEF Types
<1>2. SharedTypes'
  BY TypesParts DEF SharedTypes, shared, OrderedBegin
<1>3. pc[t] \in Working /\ "iterate" \in Working
  BY DEF OrderedBegin, Working
<1> QED BY <1>1, <1>2, <1>3, TypesBodyStep DEF OrderedBegin

LEMMA TypesOrdered == ASSUME Types, NEW t \in Threads, Ordered(t) PROVE Types'
<1>1. SharedTypes'
  BY TypesParts DEF SharedTypes, shared, Ordered
<1>2. pc[t] \in Working /\ "inside" \in Working /\ 0 \in Int
  BY DEF Ordered, Working
<1> QED BY <1>1, <1>2, TypesBodyStep DEF Ordered, locals

LEMMA TypesEndOrdered == ASSUME Types, NEW t \in Threads, EndOrdered(t) PROVE Types'
<1> DEFINE s == loop[t]
           l == slots[s]
<1>1. pc[t] \in Working
  BY DEF EndOrdered, Working
<1>2. s \in 0 .. Slots - 1 /\ l \in SlotRecord
  BY <1>1, MyLoop
<1>3. /\ \/ slots' = [slots EXCEPT ![s] = [l EXCEPT !.now_serving = l.now_serving + l.inc]]
         \/ slots' = slots
      /\ \/ ticket_number' = [ticket_number EXCEPT ![t] = ticket_number[t] + l.inc]
         \/ UNCHANGED ticket_number
      /\ \/ index' = [index EXCEPT ![t] = index[t] + l.inc]
         \/ UNCHANGED index
      /\ Goto(t, "abort") \/ Goto(t, "iterate")
      /\ UNCHANGED <<region, team_count, at, loop_count, loop, iteration, range, guess>>
  BY DEF EndOrdered
<1> HIDE DEF s, l
<1>4. l.inc \in Int /\ l.now_serving \in Int
  BY <1>2 DEF SlotRecord
<1>5. index[t] + l.inc \in Int /\ ticket_number[t] + l.inc \in Int
  BY <1>4 DEF Types
<1>6. SharedTypes'
  <2>1. CASE slots' = slots
    BY <2>1, <1>3, TypesParts DEF SharedTypes
  <2>2. CASE slots' = [slots EXCEPT ![s] = [l EXCEPT !.now_serving = l.now_serving + l.inc]]
    <3>1. l.now_serving + l.inc \in Int /\ 1 \in Nat \ {0}
      BY <1>4
    <3>2. [l EXCEPT !.now_serving = l.now_serving + l.inc] \in SlotRecord
      BY <3>1, <1>2, SlotUpdate
    <3> QED BY <2>2, <3>2, <1>2, <1>3, SharedStep
  <2> QED BY <2>1, <2>2, <1>3
<1>7. "abort" \in Working \cup {"abort"} /\ "iterate" \in Working \cup {"abort"}
  BY DEF Working
<1> QED BY <1>1, <1>3, <1>5, <1>6, <1>7, TypesBodyStep

LEMMA TypesSkipOrdered == ASSUME Types, NEW t \in Threads, SkipOrdered(t) PROVE Types'
<1>1. pc[t] \in Working
  BY DEF SkipOrdered, Working
<1>2. slots[loop[t]].inc \in Int
  BY <1>1, MyLoop DEF SlotRecord
<1>3. index[t] + slots[loop[t]].inc \in Int
  BY <1>2 DEF Types
<1>4. index' = [index EXCEPT ![t] = index[t] + slots[loop[t]].inc]
  BY DEF SkipOrdered
<1>5. index' \in [Threads -> Int]
  BY <1>3, <1>4 DEF Types
<1>6. SharedTypes' /\ LocalTypes'
  BY <1>5, TypesParts DEF SharedTypes, shared, LocalTypes, SkipOrdered, program
<1>7. PlaceTypes'
  BY TypesParts DEF SkipOrdered, PlaceTypes, Where, Active, N
<1> QED BY <1>6, <1>7, TypesParts, PTL

LEMMA TypesOrderedEnd == ASSUME Types, NEW t \in Threads, OrderedEnd(t) PROVE Types'
<1>1. SharedTypes'
  BY TypesParts DEF SharedTypes, shared, OrderedEnd
<1>2. pc[t] \in Working /\ "next" \in Working /\ 0 \in Int
  BY DEF OrderedEnd, Working
<1> QED BY <1>1, <1>2, TypesBodyStep DEF OrderedEnd, locals

LEMMA TypesFreeCount == ASSUME Types, NEW t \in Threads, FreeCount(t) PROVE Types'
<1> DEFINE s == loop[t]
           l == slots[s]
           count == l.looping_threads
<1>1. pc[t] = "free"
  BY DEF FreeCount, FreeWhen
<1>2. s \in 0 .. Slots - 1 /\ l \in SlotRecord
  BY <1>1, MyLoop DEF Working
<1>3. /\ \/ slots' = [slots EXCEPT ![s] = [l EXCEPT !.looping_threads = count - 1]]
         \/ slots' = slots
      /\ \/ Goto(t, "abort") /\ UNCHANGED loop
         \/ Goto(t, "unuse") /\ UNCHANGED loop
         \/ Goto(t, "after") /\ loop' = [loop EXCEPT ![t] = NoLoop]
      /\ UNCHANGED <<region, team_count, at, loop_count, iteration, ticket_number,
                     range, index, guess>>
  BY DEF FreeCount, FreeWhen, Leave
<1> HIDE DEF s, l
<1>4. count - 1 \in Int /\ 1 \in Nat \ {0}
  BY <1>2 DEF SlotRecord
<1>5. [l EXCEPT !.looping_threads = count - 1] \in SlotRecord
  BY <1>2, <1>4, SlotUpdate
<1>6. SharedTypes'
  <2>1. CASE slots' = slots
    BY <2>1, <1>3, TypesParts DEF SharedTypes
  <2>2. CASE slots' = [slots EXCEPT ![s] = [l EXCEPT !.looping_threads = count - 1]]
    BY <2>2, <1>2, <1>3, <1>5, SharedStep
  <2> QED BY <2>1, <2>2, <1>3
<1>7. LocalTypes'
  BY <1>3, TypesParts DEF LocalTypes, program
<1>8. PlaceTypes'
  <2>1. CASE Goto(t, "abort") /\ UNCHANGED loop
    BY <2>1, <1>1, <1>3, PlaceStep DEF Label, Working
  <2>2. CASE Goto(t, "unuse") /\ UNCHANGED loop
    BY <2>2, <1>1, <1>3, PlaceStep DEF Label, Working
  <2>3. CASE Goto(t, "after") /\ loop' = [loop EXCEPT ![t] = NoLoop]
    BY <2>3, <1>1, <1>3, PlaceStep DEF Label, Working, Entering
  <2> QED BY <2>1, <2>2, <2>3, <1>3
<1> QED BY <1>6, <1>7, <1>8, TypesParts, PTL

LEMMA TypesFreeLast == ASSUME Types, NEW t \in Threads, FreeLast(t) PROVE Types'
<1> DEFINE s == loop[t]
           l == slots[s]
<1>1. pc[t] = "unuse"
  BY DEF FreeLast
<1>2. s \in 0 .. Slots - 1 /\ l \in SlotRecord
  BY <1>1, MyLoop
<1>3. /\ slots' = [slots EXCEPT ![s] = [l EXCEPT !.loop_id = Unused]]
      /\ Goto(t, "after") /\ loop' = [loop EXCEPT ![t] = NoLoop]
      /\ UNCHANGED <<region, team_count, at, loop_count, iteration, ticket_number,
                     range, index, guess>>
  BY DEF FreeLast, Leave
<1> HIDE DEF s, l
<1>4. [l EXCEPT !.loop_id = Unused] \in SlotRecord
  <2>1. Unused \in Int /\ 1 \in Nat \ {0}
    BY DEF Unused
  <2> QED BY <2>1, <1>2, SlotUpdate
<1>5. SharedTypes'
  BY <1>2, <1>3, <1>4, SharedStep
<1>6. LocalTypes'
  BY <1>3, TypesParts DEF LocalTypes, program
<1>7. PlaceTypes'
  BY <1>1, <1>3, PlaceStep DEF Label, Working, Entering
<1> QED BY <1>5, <1>6, <1>7, TypesParts, PTL

LEMMA TypesEndLoop == ASSUME Types, NEW t \in Threads, EndLoop(t) PROVE Types'
<1>1. SharedTypes'
  BY TypesParts DEF SharedTypes, shared, EndLoop
<1>2. PICK label \in {"done", "begin"} : Goto(t, label)
  BY DEF EndLoop
<1>3. PlaceTypes'
  <2>1. pc[t] = "after" /\ UNCHANGED <<region, loop>>
    BY DEF EndLoop
  <2> QED BY <2>1, <1>2, PlaceStep DEF Label, Working, Entering
<1>4. at' \in [Threads -> 1 .. Len(program)]
  <2>1. at \in [Threads -> 1 .. Len(program)] /\ Len(program) \in Nat
    BY RegionFacts DEF Types
  <2> QED BY <2>1 DEF EndLoop
<1>5. LocalTypes'
  BY <1>4, TypesParts DEF LocalTypes, EndLoop, Forget, EmptyRange, NoGuess, program
<1> QED BY <1>1, <1>3, <1>5, TypesParts, PTL

LEMMA TypesNewRegion == ASSUME Types, NewRegion PROVE Types'
<1>1. /\ N \in Nat /\ Len(program) \in Nat \ {0} /\ MaxTeam \in Nat
  BY RegionFacts DEF Types
<1>2. SharedTypes'
  BY TypesParts DEF SharedTypes, NewRegion
<1>3. LocalTypes'
  <2>1. at' \in [Threads -> 1 .. Len(program)] /\ loop_count' \in [Threads -> Int]
    BY <1>1 DEF NewRegion, Types
  <2> QED BY <2>1, TypesParts DEF LocalTypes, NewRegion, program
<1>4. pc' \in [Threads -> Label] /\ loop' \in [Threads -> Int]
  BY DEF NewRegion, Label, Types
<1>5. \A t \in Threads : Where(t)'
  <2> TAKE t \in Threads
  <2>1. pc'[t] = IF t < N THEN "begin" ELSE "absent"
    BY DEF NewRegion
  <2>2. Active' = Active /\ loop' = loop
    BY DEF Active, N, NewRegion
  <2>3. t \in Active <=> t < N
    BY <1>1 DEF Threads, Active
  <2>4. loop[t] = NoLoop
    <3>1. pc[t] \in {"done", "absent"}
      BY DEF NewRegion
    <3> QED BY <3>1 DEF Types, Working
  <2> QED BY <2>1, <2>2, <2>3, <2>4 DEF Where, Working
<1>6. PlaceTypes'
  BY <1>4, <1>5 DEF PlaceTypes
<1> QED BY <1>2, <1>3, <1>6, TypesParts, PTL

LEMMA TypesStep == ASSUME Types, [Next]_vars PROVE Types'
<1>1. CASE NewRegion
  BY <1>1, TypesNewRegion
<1>2. ASSUME NEW t \in Threads, Step(t) PROVE Types'
  BY <1>2, TypesAlloc, TypesFill, TypesPublish, TypesAttach, TypesNextFixed,
     TypesNextDynamic, TypesGuidedRead, TypesGuidedEstimate, TypesGuidedTake,
     TypesGuidedAdjust, TypesBody, TypesOrderedBegin, TypesOrdered, TypesEndOrdered,
     TypesSkipOrdered, TypesOrderedEnd, TypesFreeCount, TypesFreeLast, TypesEndLoop
     DEF Step
<1>3. CASE UNCHANGED vars
  <2>1. SharedTypes' /\ LocalTypes'
    BY <1>3, TypesParts DEF vars, shared, locals, SharedTypes, LocalTypes, program
  <2>2. PlaceTypes'
    BY <1>3, TypesParts DEF vars, shared, locals, PlaceTypes, Where, Active, N
  <2> QED BY <2>1, <2>2, TypesParts, PTL
<1> QED BY <1>1, <1>2, <1>3 DEF Next

(***************************************************************************)
(* Loop numbers, slots and ids                                             *)
(***************************************************************************)
LEMMA WidthFacts ==
    ASSUME region \in Regions
    PROVE  /\ Ring \in Nat \ {0} /\ Ring <= Slots
           /\ IdRange \in Nat \ {0} /\ Ring < IdRange
           /\ CountRange = IdRange * 2
           /\ Ring + 1 < CountRange
           /\ \E d \in Nat \ {0} : CountRange = Ring * d
<1>1. Slots \in Nat \ {0} /\ CountRange \in Nat \ {0} /\ Orphan \in BOOLEAN
  BY RegionFacts
<1>2. Ring \in Nat \ {0} /\ Ring <= Slots
  BY <1>1 DEF Ring
<1>3. CountRange % (2 * Slots) = 0 /\ CountRange > 2 * Slots
  BY LoopRingAssumption
<1> DEFINE m == 2 * Slots
           e == CountRange \div m
<1>4. m \in Nat \ {0}
  BY <1>1
<1> HIDE DEF m
<1>5. CountRange = m * e /\ e \in Int
  BY <1>1, <1>3, <1>4, DivMod DEF m
<1> HIDE DEF e
<1>6. e > 0
  <2> SUFFICES ASSUME e <= 0 PROVE FALSE
    BY <1>5
  <2>1. m * e <= 0
    BY <1>4, <1>5
  <2> QED BY <2>1, <1>1, <1>5
<1>7. CountRange = 2 * (Slots * e) /\ CountRange = Slots * (2 * e)
  BY <1>1, <1>5 DEF m
<1> DEFINE h == Slots * e
           f == 2 * e
<1>8. h \in Int /\ CountRange = 2 * h /\ CountRange = Slots * f /\ f \in Nat \ {0}
  BY <1>1, <1>5, <1>6, <1>7
<1> HIDE DEF h, f
<1>9. IdRange = h
  BY <1>8 DEF IdRange
<1>10. h > Slots /\ h \in Nat
  BY <1>1, <1>3, <1>8
<1>11. \E d \in Nat \ {0} : CountRange = Ring * d
  <2>1. CASE Orphan
    <3>1. Ring = 1
      BY <2>1 DEF Ring
    <3>2. CountRange = Ring * CountRange
      BY <3>1, <1>1
    <3> QED BY <3>2, <1>1
  <2>2. CASE ~Orphan
    <3>1. Ring = Slots
      BY <2>2 DEF Ring
    <3> QED BY <3>1, <1>8
  <2> QED BY <2>1, <2>2
<1>12. Ring + 1 < CountRange
  BY <1>1, <1>2, <1>8, <1>10
<1> QED BY <1>1, <1>2, <1>8, <1>9, <1>10, <1>11, <1>12

\* The counts wrap around, and still name the slot and the id of the loop.
LEMMA CountNames ==
    ASSUME region \in Regions, NEW b \in Nat, NEW k \in Nat
    PROVE  /\ LoopIndex((b + k) % CountRange) = Place(b, k + 1)
           /\ LoopId((b + k) % CountRange) = Id(b, k + 1)
           /\ Succ((b + k) % CountRange) = (b + k + 1) % CountRange
           /\ Pred((b + k + 1) % CountRange) = (b + k) % CountRange
<1> DEFINE x == b + k
<1>1. x \in Nat /\ x \in Int
  OBVIOUS
<1>2. b + (k + 1) - 1 = x
  OBVIOUS
<1> HIDE DEF x
<1>3. /\ Ring \in Nat \ {0} /\ IdRange \in Nat \ {0} /\ CountRange = IdRange * 2
      /\ CountRange \in Nat \ {0} /\ CountRange \in Int /\ CountRange > 1
      /\ Slots \in Nat \ {0}
  BY WidthFacts, RegionFacts
<1>4. PICK d \in Nat \ {0} : CountRange = Ring * d
  BY WidthFacts
<1>5. (x % CountRange) % Ring = x % Ring
  <2>1. d \in Int /\ d > 0 /\ Ring \in Int /\ Ring > 0
    BY <1>3, <1>4
  <2>2. (x % (Ring * d)) % Ring = x % Ring
    BY <1>1, <2>1, ModMod
  <2> QED BY <2>2, <1>4
<1>6. (x % CountRange) % IdRange = x % IdRange
  <2>1. (x % (IdRange * 2)) % IdRange = x % IdRange
    BY <1>1, <1>3, ModMod
  <2> QED BY <2>1, <1>3
<1>7. LoopId(x % CountRange) = Id(b, k + 1)
  BY <1>2, <1>6 DEF LoopId, Id, IdRange
<1>8. LoopIndex(x % CountRange) = Place(b, k + 1)
  <2>1. CASE Orphan
    <3>1. Ring = 1
      BY <2>1 DEF Ring
    <3>2. x % 1 = 0
      BY <1>1
    <3> QED BY <2>1, <3>1, <3>2, <1>2 DEF LoopIndex, Place
  <2>2. CASE ~Orphan
    <3>1. Ring = Slots
      BY <2>2 DEF Ring
    <3> QED BY <2>2, <3>1, <1>2, <1>5 DEF LoopIndex, Place
  <2> QED BY <2>1, <2>2
<1> DEFINE c == CountRange
           q == x \div c
           r == x % c
<1>9. x = c * q + r /\ q \in Int /\ r \in 0 .. c - 1
  BY <1>1, <1>3, DivMod
<1>10. c \in Int /\ c > 1
  BY <1>3
<1> HIDE DEF c, q, r
<1>11. (r + 1) % c = (x + 1) % c
  <2> DEFINE y == r + 1
  <2>1. y \in Int /\ x + 1 = y + c * q
    BY <1>9, <1>10
  <2> HIDE DEF y
  <2>2. (y + c * q) % c = y % c
    <3>1. c > 0
      BY <1>10
    <3> QED BY <2>1, <3>1, <1>9, <1>10, ModShift
  <2> QED BY <2>1, <2>2 DEF y
<1>12. (((x + 1) % c) + c - 1) % c = r
  <2>1. CASE r + 1 < c
    <3>1. (r + 1) % c = r + 1
      <4> DEFINE y == r + 1
      <4>1. y \in Int /\ 0 <= y /\ y < c /\ y = c * 0 + y
        BY <2>1, <1>9, <1>10
      <4> HIDE DEF y
      <4>2. (c * 0 + y) % c = y
        BY <4>1, <1>10, ModUnique
      <4>3. y % c = y
        BY <4>1, <4>2
      <4> QED BY <4>3 DEF y
    <3>2. (((x + 1) % c) + c - 1) = c * 1 + r
      BY <3>1, <1>9, <1>10, <1>11
    <3>3. (c * 1 + r) % c = r
      BY <1>9, <1>10, ModUnique
    <3> QED BY <3>2, <3>3
  <2>2. CASE r + 1 = c
    <3>1. (r + 1) % c = 0
      <4>1. (c * 1 + 0) % c = 0
        BY <1>10, ModUnique
      <4>2. c * 1 + 0 = c
        BY <1>10
      <4> QED BY <2>2, <4>1, <4>2
    <3>2. (((x + 1) % c) + c - 1) = c * 0 + r
      BY <3>1, <2>2, <1>9, <1>10, <1>11
    <3>3. (c * 0 + r) % c = r
      BY <1>9, <1>10, ModUnique
    <3> QED BY <3>2, <3>3
  <2> QED BY <2>1, <2>2, <1>9, <1>10
<1> QED BY <1>7, <1>8, <1>11, <1>12 DEF Succ, Pred, x, c, r

LEMMA PlaceFacts ==
    ASSUME region \in Regions, NEW b \in Nat, NEW k \in Nat
    PROVE  /\ Place(b, k) \in 0 .. Slots - 1
           /\ Place(b, k) \in Int
           /\ Id(b, k) \in Nat
           /\ Id(b, k) # Unused
<1>1. /\ Ring \in Nat \ {0} /\ Ring <= Slots /\ IdRange \in Nat \ {0}
      /\ Slots \in Nat
  BY WidthFacts, RegionFacts
<1>2. b + k - 1 \in Int
  OBVIOUS
<1>3. (b + k - 1) % Ring \in 0 .. Ring - 1
  BY <1>1, <1>2, DivMod
<1>4. (b + k - 1) % IdRange \in 0 .. IdRange - 1
  BY <1>1, <1>2, DivMod
<1> QED BY <1>1, <1>3, <1>4 DEF Place, Id, Unused

\* Two loops that share a slot are at least a ring apart.
LEMMA PlaceSame ==
    ASSUME region \in Regions, NEW b \in Nat, NEW j \in Nat, NEW k \in Nat, j < k,
           Place(b, j) = Place(b, k)
    PROVE  k - j >= Ring
<1>1. Ring \in Nat \ {0}
  BY WidthFacts
<1>2. b + j - 1 \in Int /\ b + k - 1 \in Int /\ b + j - 1 < b + k - 1
  OBVIOUS
<1>3. (b + k - 1) - (b + j - 1) >= Ring
  BY <1>1, <1>2, ModEqual DEF Place
<1> QED BY <1>1, <1>3

\* Two loops that are no more than a ring apart have different ids.
LEMMA IdDiffers ==
    ASSUME region \in Regions, NEW b \in Nat, NEW j \in Nat, NEW k \in Nat, j < k,
           k - j <= Ring
    PROVE  Id(b, j) # Id(b, k)
<1>1. Ring \in Nat \ {0} /\ IdRange \in Nat \ {0} /\ Ring < IdRange
  BY WidthFacts
<1>2. b + j - 1 \in Int /\ b + k - 1 \in Int /\ b + j - 1 < b + k - 1
  OBVIOUS
<1> SUFFICES ASSUME Id(b, j) = Id(b, k) PROVE FALSE
  OBVIOUS
<1>3. (b + k - 1) - (b + j - 1) >= IdRange
  BY <1>1, <1>2, ModEqual DEF Id
<1> QED BY <1>1, <1>3

\* Two counts that are no more than a ring and one apart differ.
LEMMA CountDiffers ==
    ASSUME region \in Regions, NEW b \in Nat, NEW j \in Nat, NEW k \in Nat, j <= k,
           k - j <= Ring + 1, (b + j) % CountRange = (b + k) % CountRange
    PROVE  j = k
<1>1. Ring \in Nat /\ CountRange \in Nat \ {0} /\ Ring + 1 < CountRange
  BY WidthFacts, RegionFacts
<1> SUFFICES ASSUME j < k PROVE FALSE
  OBVIOUS
<1>2. b + j \in Int /\ b + k \in Int /\ b + j < b + k
  OBVIOUS
<1>3. (b + k) - (b + j) >= CountRange
  BY <1>1, <1>2, ModEqual
<1> QED BY <1>1, <1>3

(***************************************************************************)
(* Positions of the threads                                                *)
(***************************************************************************)
LEMMA ThreadFacts ==
    ASSUME Types, NEW t \in Active
    PROVE  /\ t \in Threads /\ at[t] \in Nat \ {0} /\ pc[t] # "absent"
           /\ Counted(t) \in Nat /\ Entered(t) \in Nat /\ Left(t) \in Nat /\ Released(t) \in Nat
           /\ Released(t) <= Left(t) /\ Left(t) <= Entered(t) /\ Entered(t) <= Counted(t)
           /\ Counted(t) <= at[t] /\ at[t] - 1 <= Released(t)
           /\ Released(t) < Left(t) <=> pc[t] = "unuse"
<1>1. t \in Threads
  BY RegionFacts DEF Types
<1>2. at[t] \in Nat \ {0}
  BY <1>1, LoopFacts
<1>3. pc[t] # "absent"
  BY <1>1 DEF Types
<1>4. at[t] \in Int /\ at[t] >= 1
  BY <1>2
<1> QED BY <1>1, <1>2, <1>3, <1>4 DEF Counted, Entered, Left, Released, Entering

\* The positions of a thread that does not move.
Stays(u) ==
    /\ Counted(u)' = Counted(u)
    /\ Entered(u)' = Entered(u)
    /\ Left(u)' = Left(u)
    /\ Released(u)' = Released(u)
    /\ pc'[u] = pc[u]
    /\ at'[u] = at[u]

\* Only thread t moves.
Moves(t) ==
    /\ pc' = [pc EXCEPT ![t] = pc'[t]]
    /\ at' = [at EXCEPT ![t] = at'[t]]
    /\ UNCHANGED region

LEMMA OthersStay ==
    ASSUME Types, NEW t \in Active, Moves(t), NEW u \in Active, u # t
    PROVE  Stays(u)
<1>1. u \in Threads /\ t \in Threads
  BY ThreadFacts
<1>2. pc \in [Threads -> Label] /\ at \in [Threads -> 1 .. Len(program)]
  BY DEF Types
<1>3. pc'[u] = pc[u] /\ at'[u] = at[u]
  BY <1>1, <1>2 DEF Moves
<1> QED BY <1>3 DEF Stays, Counted, Entered, Left, Released

\* The ring knows a slot by these three fields.
KeepsSlot(s) ==
    /\ slots'[s].loop_id = slots[s].loop_id
    /\ slots'[s].number = slots[s].number
    /\ slots'[s].looping_threads = slots[s].looping_threads

LEMMA RegionFrame ==
    ASSUME UNCHANGED region
    PROVE  /\ Active' = Active /\ N' = N /\ Orphan' = Orphan /\ Ring' = Ring
           /\ program' = program /\ Len(program)' = Len(program)
           /\ \A b, k : Place(b, k)' = Place(b, k)
BY DEF Active, N, Orphan, Ring, program, Place

\* The slot of a thread that has counted its loop.
LEMMA MyPlace ==
    ASSUME Types, NEW b \in Nat, NEW p \in Nat, NEW q \in Nat, RingInv(b, p, q),
           NEW t \in Active, pc[t] # "begin"
    PROVE  MySlot(t) = Place(b, at[t]) /\ MyId(t) = Id(b, at[t])
<1>1. at[t] \in Nat \ {0}
  BY ThreadFacts
<1>2. loop_count[t] = (b + at[t]) % CountRange
  BY DEF RingInv, CountRight, Counted
<1> DEFINE k == at[t] - 1
<1>3. k \in Nat /\ at[t] = k + 1
  BY <1>1
<1> HIDE DEF k
<1>4. region \in Regions
  BY DEF Types
<1>5. b + at[t] = b + k + 1
  BY <1>3
<1>6. Pred((b + k + 1) % CountRange) = (b + k) % CountRange
  BY <1>3, <1>4, CountNames
<1>7. Pred(loop_count[t]) = (b + k) % CountRange
  BY <1>2, <1>5, <1>6
<1> QED BY <1>3, <1>4, <1>7, CountNames DEF MySlot, MyId

\* The slot of a thread that is in a loop.
LEMMA InLoop ==
    ASSUME Types, NEW b \in Nat, NEW p \in Nat, NEW q \in Nat, RingInv(b, p, q),
           NEW t \in Active, pc[t] \in Working \cup {"unuse", "abort"}
    PROVE  /\ at[t] \in 1 .. q /\ loop[t] = Place(b, at[t]) /\ Released(t) = at[t] - 1
           /\ slots[loop[t]].loop_id = Id(b, at[t])
           /\ slots[loop[t]].number = at[t]
           /\ slots[loop[t]].looping_threads = Cardinality(Staying(at[t]))
<1>1. at[t] \in Nat \ {0}
  BY ThreadFacts
<1>2. Entered(t) <= q /\ loop[t] = Place(b, at[t])
  BY DEF RingInv, CountRight
<1>3. Entered(t) = at[t] /\ Released(t) = at[t] - 1
  BY DEF Entered, Released, Working, Entering
<1>4. at[t] \in 1 .. q /\ Released(t) < at[t]
  BY <1>1, <1>2, <1>3
<1>5. Holds(b, at[t])
  BY <1>4 DEF RingInv
<1> QED BY <1>2, <1>3, <1>4, <1>5 DEF Holds

\* Two published loops that have not been left by everybody have two slots.
LEMMA LiveApart ==
    ASSUME Types, NEW b \in Nat, NEW p \in Nat, NEW q \in Nat, RingInv(b, p, q),
           NEW j \in 1 .. q, NEW k \in 1 .. q, NEW t \in Active, NEW u \in Active,
           Released(t) < j, Released(u) < k, Place(b, j) = Place(b, k)
    PROVE  j = k
<1>1. Released(t) \in Nat /\ Released(u) \in Nat
  BY ThreadFacts
<1>2. q <= Released(t) + Ring /\ q <= Released(u) + Ring
  BY DEF RingInv, CountRight
<1>3. region \in Regions
  BY DEF Types
<1>4. Ring \in Nat
  BY <1>3, WidthFacts
<1>5. CASE j < k
  <2>1. k - j >= Ring
    BY <1>3, <1>5, PlaceSame
  <2> QED BY <2>1, <1>1, <1>2, <1>4
<1>6. CASE k < j
  <2>1. j - k >= Ring
    BY <1>3, <1>6, PlaceSame
  <2> QED BY <2>1, <1>1, <1>2, <1>4
<1> QED BY <1>5, <1>6

\* The steps that leave the ring as it is.
LEMMA KeepRing ==
    ASSUME Types, NEW b \in Nat, NEW p \in Nat, NEW q \in Nat, RingInv(b, p, q),
           NEW t \in Active, Moves(t), UNCHANGED team_count,
           \A u \in Active : u # t => loop_count'[u] = loop_count[u] /\ loop'[u] = loop[u],
           CountRight(t, b, p, q)', Left(t)' = Left(t), Released(t)' = Released(t),
           pc'[t] \notin {"fill", "publish", "unuse"},
           \A s \in 0 .. Slots - 1 : KeepsSlot(s)
    PROVE  RingInv(b, p, q)'
<1>0. Active' = Active /\ N' = N /\ Orphan' = Orphan /\ Ring' = Ring /\ Len(program)' = Len(program)
  BY RegionFrame DEF Moves
<1>1. \A k : Place(b, k)' = Place(b, k) /\ Id(b, k)' = Id(b, k)
  BY RegionFrame DEF Moves, Id, IdRange
<1>2. \A u \in Active : u # t => Stays(u)
  BY OthersStay
<1>3. \A u \in Active : Left(u)' = Left(u) /\ Released(u)' = Released(u)
  BY <1>2 DEF Stays
<1>4. \A k : Staying(k)' = Staying(k)
  BY <1>0, <1>3 DEF Staying
<1>5. region \in Regions
  BY DEF Types
<1>6. q \in {p - 1, p} /\ p <= Len(program)' /\ (Orphan' \/ team_count' = (b + p) % CountRange)
  BY <1>0 DEF RingInv
<1>7. \A u \in Active : CountRight(u, b, p, q)'
  <2> TAKE u \in Active
  <2>1. CASE u # t
    <3>1. CountRight(u, b, p, q) /\ Stays(u) /\ loop_count'[u] = loop_count[u] /\ loop'[u] = loop[u]
      BY <1>2, <2>1 DEF RingInv
    <3> QED BY <3>1, <1>0, <1>1 DEF CountRight, Stays
  <2> QED BY <2>1
<1>8. \A u \in Active : FillRight(u, b, p, q)'
  <2> TAKE u \in Active
  <2>1. CASE u # t
    <3>1. FillRight(u, b, p, q) /\ Stays(u)
      BY <1>2, <2>1 DEF RingInv
    <3>2. \A w \in Active : pc'[w] \in {"fill", "publish"} => pc[w] \in {"fill", "publish"}
      BY <1>2 DEF Stays
    <3>3. pc[u] \in {"fill", "publish"} => Place(b, p) \in 0 .. Slots - 1
      BY <1>5, PlaceFacts
    <3> QED BY <3>1, <3>2, <3>3, <1>0, <1>1, <1>3 DEF FillRight, Stays, KeepsSlot
  <2>2. CASE u = t
    BY <2>2 DEF FillRight
  <2> QED BY <2>1, <2>2
<1>9. \A u \in Active : UnuseRight(u)'
  BY <1>0, <1>2, <1>3 DEF RingInv, UnuseRight, Stays
<1>10. \A k \in 1 .. q : Holds(b, k)'
  <2> TAKE k \in 1 .. q
  <2>1. Holds(b, k) /\ k \in Nat
    BY DEF RingInv
  <2>2. Place(b, k) \in 0 .. Slots - 1
    BY <2>1, <1>5, PlaceFacts
  <2> QED BY <2>1, <2>2, <1>0, <1>1, <1>3, <1>4 DEF Holds, KeepsSlot
<1>11. \A s \in 0 .. Slots - 1 : Belongs(b, q, s)'
  <2> TAKE s \in 0 .. Slots - 1
  <2>1. Belongs(b, q, s)
    BY DEF RingInv
  <2>2. slots'[s].loop_id = slots[s].loop_id
    BY DEF KeepsSlot
  <2> SUFFICES ASSUME slots[s].loop_id # Unused
               PROVE  \E k \in 1 .. q : Place(b, k)' = s /\ \E u \in Active : Released(u)' < k
    BY <2>2, <1>0 DEF Belongs
  <2>3. PICK k \in 1 .. q : Place(b, k) = s /\ \E u \in Active : Released(u) < k
    BY <2>1 DEF Belongs
  <2> QED BY <2>3, <1>1, <1>3
<1> QED BY <1>0, <1>6, <1>7, <1>8, <1>9, <1>10, <1>11 DEF RingInv

(***************************************************************************)
(* Every step keeps the ring right                                         *)
(***************************************************************************)
\* A step within the loop.
LEMMA QuietRing ==
    ASSUME Types, NEW b \in Nat, NEW p \in Nat, NEW q \in Nat, RingInv(b, p, q),
           NEW t \in Active, pc[t] \in Working,
           NEW label \in Working \cup {"abort"}, pc' = [pc EXCEPT ![t] = label],
           UNCHANGED <<region, team_count, at, loop_count, loop>>,
           \A s \in 0 .. Slots - 1 : KeepsSlot(s)
    PROVE  RingInv(b, p, q)'
<1>1. t \in Threads /\ pc \in [Threads -> Label] /\ at \in [Threads -> 1 .. Len(program)]
  BY ThreadFacts DEF Types
<1>2. pc'[t] = label /\ Moves(t)
  BY <1>1 DEF Moves
<1>3. /\ Counted(t)' = Counted(t) /\ Entered(t)' = Entered(t)
      /\ Left(t)' = Left(t) /\ Released(t)' = Released(t)
      /\ pc'[t] \notin {"fill", "publish", "unuse", "done"}
  BY <1>2 DEF Counted, Entered, Left, Released, Working, Entering
<1>4. Place(b, at[t])' = Place(b, at[t]) /\ Ring' = Ring /\ Orphan' = Orphan
  BY RegionFrame
<1>5. CountRight(t, b, p, q)
  BY DEF RingInv
<1>6. CountRight(t, b, p, q)'
  BY <1>3, <1>4, <1>5 DEF CountRight
<1> QED BY <1>2, <1>3, <1>6, KeepRing

LEMMA AttachRing ==
    ASSUME Types, NEW b \in Nat, NEW p \in Nat, NEW q \in Nat, RingInv(b, p, q),
           NEW t \in Active, Attach(t)
    PROVE  RingInv(b, p, q)'
<1>1. /\ t \in Threads /\ pc \in [Threads -> Label] /\ loop \in [Threads -> Int]
      /\ at \in [Threads -> 1 .. Len(program)] /\ at[t] \in Nat \ {0}
  BY ThreadFacts DEF Types
<1>2. /\ pc[t] = "attach" /\ pc' = [pc EXCEPT ![t] = "next"]
      /\ loop' = [loop EXCEPT ![t] = MySlot(t)]
      /\ slots[MySlot(t)].loop_id = MyId(t)
      /\ UNCHANGED <<region, team_count, slots, at, loop_count>>
  BY DEF Attach, Goto, Enter, shared
<1>3. MySlot(t) = Place(b, at[t]) /\ MyId(t) = Id(b, at[t])
  BY <1>2, MyPlace
<1>4. pc'[t] = "next" /\ Moves(t)
  BY <1>1, <1>2 DEF Moves
<1>5. /\ Counted(t)' = at[t] /\ Counted(t) = at[t] /\ Entered(t)' = at[t]
      /\ Left(t)' = Left(t) /\ Released(t)' = Released(t)
  BY <1>2, <1>4 DEF Counted, Entered, Left, Released, Entering
<1>6. region \in Regions
  BY DEF Types
<1>7. at[t] <= q
  <2> SUFFICES ASSUME at[t] > q PROVE FALSE
    BY <1>1
  <2>1. at[t] = p /\ q = p - 1
    BY <1>1, <1>5 DEF RingInv, CountRight
  <2> DEFINE s == Place(b, p)
  <2>2. s \in 0 .. Slots - 1 /\ Id(b, p) # Unused
    BY <1>6, PlaceFacts
  <2>3. slots[s].loop_id = Id(b, p)
    BY <1>2, <1>3, <2>1
  <2>4. Belongs(b, q, s)
    BY <2>2 DEF RingInv
  <2>5. PICK j \in 1 .. q : Place(b, j) = s /\ \E u \in Active : Released(u) < j
    BY <2>2, <2>3, <2>4 DEF Belongs
  <2>6. PICK u \in Active : Released(u) < j
    BY <2>5
  <2>7. Holds(b, j) /\ q <= Released(u) + Ring /\ Released(u) \in Nat
    BY ThreadFacts DEF RingInv, CountRight
  <2>8. slots[s].loop_id = Id(b, j)
    BY <2>5, <2>7 DEF Holds
  <2>9. Ring \in Nat
    BY <1>6, WidthFacts
  <2>10. j \in Nat /\ j < p /\ p - j <= Ring
    BY <2>1, <2>6, <2>7, <2>9
  <2> QED BY <2>3, <2>8, <2>10, <1>6, IdDiffers
<1>8. CountRight(t, b, p, q)'
  <2>1. CountRight(t, b, p, q)
    BY DEF RingInv
  <2>2. Place(b, at[t])' = Place(b, at[t]) /\ Ring' = Ring /\ Orphan' = Orphan
    BY <1>2, RegionFrame
  <2>3. loop'[t] = Place(b, at[t])
    BY <1>1, <1>2, <1>3
  <2> QED BY <2>1, <2>2, <2>3, <1>2, <1>4, <1>5, <1>7 DEF CountRight
<1>9. \A u \in Active : u # t => loop_count'[u] = loop_count[u] /\ loop'[u] = loop[u]
  BY <1>1, <1>2, ThreadFacts
<1>10. \A s \in 0 .. Slots - 1 : KeepsSlot(s)
  BY <1>2 DEF KeepsSlot
<1> QED BY <1>2, <1>4, <1>5, <1>8, <1>9, <1>10, KeepRing

LEMMA EndLoopRing ==
    ASSUME Types, NEW b \in Nat, NEW p \in Nat, NEW q \in Nat, RingInv(b, p, q),
           NEW t \in Active, EndLoop(t)
    PROVE  RingInv(b, p, q)'
<1>1. /\ t \in Threads /\ pc \in [Threads -> Label]
      /\ at \in [Threads -> 1 .. Len(program)] /\ at[t] \in Nat \ {0}
  BY ThreadFacts DEF Types
<1>2. /\ pc[t] = "after"
      /\ pc' = [pc EXCEPT ![t] = IF at[t] = Len(program) THEN "done" ELSE "begin"]
      /\ at' = [at EXCEPT ![t] = IF at[t] = Len(program) THEN at[t] ELSE at[t] + 1]
      /\ UNCHANGED <<region, team_count, slots, loop_count, loop>>
  BY DEF EndLoop, Goto, shared
<1>3. Moves(t)
  BY <1>1, <1>2 DEF Moves
<1>4. \/ pc'[t] = "done" /\ at'[t] = at[t] /\ at[t] = Len(program)
      \/ pc'[t] = "begin" /\ at'[t] = at[t] + 1
  BY <1>1, <1>2
<1>5. /\ Counted(t)' = Counted(t) /\ Entered(t)' = Entered(t)
      /\ Left(t)' = Left(t) /\ Released(t)' = Released(t)
  BY <1>1, <1>2, <1>4 DEF Counted, Entered, Left, Released, Entering
<1>6. CountRight(t, b, p, q)
  BY DEF RingInv
<1>7. Ring' = Ring /\ Orphan' = Orphan /\ Len(program)' = Len(program)
  BY <1>2, RegionFrame
<1>8. CountRight(t, b, p, q)'
  BY <1>2, <1>4, <1>5, <1>6, <1>7 DEF CountRight, Working
<1>9. \A s \in 0 .. Slots - 1 : KeepsSlot(s)
  BY <1>2 DEF KeepsSlot
<1> QED BY <1>2, <1>3, <1>4, <1>5, <1>8, <1>9, KeepRing

\* A thread that is the first to count a loop has been through all the others.
LEMMA FirstCounts ==
    ASSUME Types, NEW b \in Nat, NEW p \in Nat, NEW q \in Nat, RingInv(b, p, q),
           NEW t \in Active, pc[t] = "begin"
    PROVE  /\ Counted(t) = at[t] - 1 /\ Entered(t) = Counted(t)
           /\ (Orphan \/ team_count = loop_count[t]) <=> Counted(t) = p
           /\ Counted(t) = p => q = p
<1>1. /\ Counted(t) = at[t] - 1 /\ Entered(t) = at[t] - 1 /\ Released(t) = at[t] - 1
      /\ Counted(t) \in Nat
  BY ThreadFacts DEF Counted, Entered, Released
<1>2. /\ Counted(t) <= p /\ loop_count[t] = (b + Counted(t)) % CountRange
      /\ Orphan => Counted(t) = p
      /\ Entered(t) <= q /\ q <= Released(t) + Ring
      /\ q \in {p - 1, p}
      /\ Orphan \/ team_count = (b + p) % CountRange
  BY DEF RingInv, CountRight
<1>3. region \in Regions
  BY DEF Types
<1>4. Ring \in Nat
  BY <1>3, WidthFacts
<1>5. p - Counted(t) <= Ring + 1
  BY <1>1, <1>2, <1>4
<1>6. (Orphan \/ team_count = loop_count[t]) => Counted(t) = p
  BY <1>1, <1>2, <1>3, <1>5, CountDiffers
<1>7. Counted(t) = p => (Orphan \/ team_count = loop_count[t])
  BY <1>2
<1>8. Counted(t) = p => q = p
  BY <1>1, <1>2
<1> QED BY <1>1, <1>6, <1>7, <1>8

\* The slot that is due next does not hold the id of the next loop.
LEMMA NextIdFree ==
    ASSUME Types, NEW b \in Nat, NEW p \in Nat, RingInv(b, p, p)
    PROVE  slots[Place(b, p + 1)].loop_id # Id(b, p + 1)
<1> DEFINE s == Place(b, p + 1)
<1>1. region \in Regions /\ p + 1 \in Nat
  BY DEF Types
<1>2. s \in 0 .. Slots - 1 /\ Id(b, p + 1) # Unused
  BY <1>1, PlaceFacts
<1>3. Belongs(b, p, s)
  BY <1>2 DEF RingInv
<1> SUFFICES ASSUME slots[s].loop_id = Id(b, p + 1) PROVE FALSE
  OBVIOUS
<1>4. PICK j \in 1 .. p : Place(b, j) = s /\ \E u \in Active : Released(u) < j
  BY <1>2, <1>3 DEF Belongs
<1>5. PICK u \in Active : Released(u) < j
  BY <1>4
<1>6. Holds(b, j) /\ p <= Released(u) + Ring /\ Released(u) \in Nat
  BY ThreadFacts DEF RingInv, CountRight
<1>7. slots[s].loop_id = Id(b, j)
  BY <1>4, <1>5, <1>6 DEF Holds
<1>8. Ring \in Nat
  BY <1>1, WidthFacts
<1>9. j \in Nat /\ j < p + 1 /\ (p + 1) - j <= Ring
  BY <1>5, <1>6, <1>8
<1> QED BY <1>1, <1>7, <1>9, IdDiffers

LEMMA AllocEffect ==
    ASSUME Types, NEW b \in Nat, NEW p \in Nat, NEW q \in Nat, RingInv(b, p, q),
           NEW t \in Active, Alloc(t)
    PROVE  /\ pc[t] = "begin" /\ UNCHANGED <<region, slots, at, loop>>
           /\ loop_count' = [loop_count EXCEPT ![t] = (b + Counted(t) + 1) % CountRange]
           /\ \/ /\ Counted(t) = p
                 /\ pc' = [pc EXCEPT ![t] = "fill"]
                 /\ Orphan \/ team_count' = (b + p + 1) % CountRange
              \/ /\ Counted(t) # p
                 /\ pc' = [pc EXCEPT ![t] = "attach"]
                 /\ UNCHANGED team_count
<1> DEFINE count == loop_count[t]
           first == Orphan \/ team_count = count
<1>1. pc[t] = "begin" /\ UNCHANGED <<region, slots, at, loop>>
  BY DEF Alloc
<1>2. t \in Threads /\ Counted(t) \in Nat
  BY ThreadFacts
<1>3. loop[t] = NoLoop /\ region \in Regions
  BY <1>1, <1>2 DEF Types, Working
<1>4. count = (b + Counted(t)) % CountRange
  BY DEF RingInv, CountRight
<1>5. first <=> Counted(t) = p
  BY <1>1, FirstCounts
<1>6. Succ(count) = (b + Counted(t) + 1) % CountRange
  BY <1>2, <1>3, <1>4, CountNames
<1>7. /\ team_count' = IF first /\ ~Orphan THEN Succ(count) ELSE team_count
      /\ loop_count' = [loop_count EXCEPT ![t] = Succ(count)]
      /\ pc' = [pc EXCEPT ![t] = IF ~first THEN "attach"
                                 ELSE IF slots[LoopIndex(count)].loop_id = LoopId(count)
                                        THEN "abort" ELSE "fill"]
  BY <1>3 DEF Alloc, Goto
<1>8. CASE first
  <2>1. Counted(t) = p /\ q = p
    BY <1>1, <1>5, <1>8, FirstCounts
  <2>2. LoopIndex(count) = Place(b, p + 1) /\ LoopId(count) = Id(b, p + 1)
    BY <1>3, <1>4, <2>1, CountNames
  <2>3. slots[LoopIndex(count)].loop_id # LoopId(count)
    BY <2>1, <2>2, NextIdFree
  <2>4. pc' = [pc EXCEPT ![t] = "fill"]
    BY <1>7, <1>8, <2>3
  <2>5. Orphan \/ team_count' = (b + p + 1) % CountRange
    BY <1>6, <1>7, <1>8, <2>1
  <2> HIDE DEF first
  <2> QED BY <1>1, <1>6, <1>7, <2>1, <2>4, <2>5
<1>9. CASE ~first
  <2>1. Counted(t) # p
    BY <1>5, <1>9
  <2>2. pc' = [pc EXCEPT ![t] = "attach"] /\ UNCHANGED team_count
    BY <1>7, <1>9
  <2> HIDE DEF first
  <2> QED BY <1>1, <1>6, <1>7, <2>1, <2>2
<1> QED BY <1>8, <1>9

LEMMA AllocRing ==
    ASSUME Types, NEW b \in Nat, NEW p \in Nat, NEW q \in Nat, RingInv(b, p, q),
           NEW t \in Active, Alloc(t)
    PROVE  \E p1 \in Nat : RingInv(b, p1, q)'
<1>1. /\ t \in Threads /\ pc \in [Threads -> Label] /\ loop_count \in [Threads -> Int]
      /\ at \in [Threads -> 1 .. Len(program)] /\ at[t] \in Nat \ {0}
      /\ Counted(t) \in Nat /\ region \in Regions /\ Active \subseteq Threads
  BY ThreadFacts, RegionFacts DEF Types
<1>2. /\ pc[t] = "begin" /\ UNCHANGED <<region, slots, at, loop>>
      /\ loop_count' = [loop_count EXCEPT ![t] = (b + Counted(t) + 1) % CountRange]
      /\ \/ /\ Counted(t) = p
            /\ pc' = [pc EXCEPT ![t] = "fill"]
            /\ Orphan \/ team_count' = (b + p + 1) % CountRange
         \/ /\ Counted(t) # p
            /\ pc' = [pc EXCEPT ![t] = "attach"]
            /\ UNCHANGED team_count
  BY AllocEffect
<1>3. pc'[t] \in {"fill", "attach"} /\ Moves(t)
  BY <1>1, <1>2 DEF Moves
<1>4. /\ Counted(t)' = Counted(t) + 1 /\ Counted(t)' = at[t] /\ Entered(t)' = Entered(t)
      /\ Left(t)' = Left(t) /\ Released(t)' = Released(t)
  BY <1>1, <1>2, <1>3 DEF Counted, Entered, Left, Released, Entering
<1>5. loop_count'[t] = (b + Counted(t)') % CountRange
  <2>1. b + Counted(t) + 1 = b + Counted(t)'
    BY <1>1, <1>4
  <2>2. loop_count'[t] = (b + Counted(t) + 1) % CountRange
    BY <1>1, <1>2
  <2> QED BY <2>1, <2>2
<1>6. \A u \in Active : u # t => loop_count'[u] = loop_count[u] /\ loop'[u] = loop[u]
  BY <1>1, <1>2
<1>7. \A s \in 0 .. Slots - 1 : KeepsSlot(s)
  BY <1>2 DEF KeepsSlot
<1>8. /\ Ring' = Ring /\ Orphan' = Orphan /\ Len(program)' = Len(program)
      /\ Active' = Active /\ N' = N
      /\ \A k : Place(b, k)' = Place(b, k) /\ Id(b, k)' = Id(b, k)
  BY <1>2, RegionFrame DEF Id, IdRange
<1>9. CountRight(t, b, p, q) /\ q \in {p - 1, p} /\ p <= Len(program)
  BY DEF RingInv
<1>10. CASE Counted(t) # p
  <2>1. pc'[t] = "attach" /\ UNCHANGED team_count
    BY <1>1, <1>2, <1>10
  <2>2. Counted(t)' <= p /\ ~Orphan
    BY <1>1, <1>4, <1>9, <1>10 DEF CountRight
  <2>3. CountRight(t, b, p, q)'
    BY <2>1, <2>2, <1>4, <1>5, <1>8, <1>9 DEF CountRight, Working
  <2> QED BY <2>1, <2>3, <1>3, <1>4, <1>6, <1>7, KeepRing
<1>11. CASE Counted(t) = p
  <2>1. pc'[t] = "fill" /\ (Orphan \/ team_count' = (b + p + 1) % CountRange)
    BY <1>1, <1>2, <1>11
  <2>2. q = p
    BY <1>2, <1>11, FirstCounts
  <2> DEFINE p1 == p + 1
  <2>3. p1 \in Nat /\ q = p1 - 1 /\ at[t] = p1 /\ Counted(t)' = p1
    BY <1>1, <1>4, <1>11, <2>2
  <2>4. b + p + 1 = b + p1
    OBVIOUS
  <2>5. p1 <= Len(program)'
    BY <1>1, <1>8, <2>3
  <2> HIDE DEF p1
  <2>6. \A u \in Active : u # t => Stays(u)
    BY <1>3, OthersStay
  <2>7. \A u \in Active : Left(u)' = Left(u) /\ Released(u)' = Released(u)
    BY <1>4, <2>6 DEF Stays
  <2>8. \A u \in Active : pc[u] \notin {"fill", "publish"}
    <3> TAKE u \in Active
    <3>1. FillRight(u, b, p, q)
      BY DEF RingInv
    <3> QED BY <3>1, <2>2 DEF FillRight
  <2>9. \A u \in Active : CountRight(u, b, p1, q)'
    <3> TAKE u \in Active
    <3>1. CASE u # t
      <4>1. CountRight(u, b, p, q) /\ Stays(u) /\ loop_count'[u] = loop_count[u] /\ loop'[u] = loop[u]
        BY <1>6, <2>6, <3>1 DEF RingInv
      <4>2. ~Orphan
        BY <1>1, <3>1, RegionFacts DEF Active
      <4>3. Counted(u) <= p1
        <5>1. Counted(u) \in Nat /\ Counted(u) <= p
          BY <4>1, ThreadFacts DEF CountRight
        <5> QED BY <5>1 DEF p1
      <4> QED BY <4>1, <4>2, <4>3, <1>8 DEF CountRight, Stays
    <3>2. CASE u = t
      <4>1. Counted(t)' <= p1
        BY <2>3
      <4> QED BY <3>2, <4>1, <2>1, <2>3, <1>4, <1>5, <1>8, <1>9 DEF CountRight, Working
    <3> QED BY <3>1, <3>2
  <2>10. \A u \in Active : FillRight(u, b, p1, q)'
    <3> TAKE u \in Active
    <3>1. \A w \in Active : pc'[w] \in {"fill", "publish"} => w = t
      BY <2>6, <2>8 DEF Stays
    <3> QED BY <3>1, <2>1, <2>3, <1>2, <1>8 DEF FillRight
  <2>11. \A u \in Active : UnuseRight(u)'
    BY <1>8, <2>1, <2>6, <2>7 DEF RingInv, UnuseRight, Stays
  <2>12. \A k \in 1 .. q : Holds(b, k)'
    <3> TAKE k \in 1 .. q
    <3>1. Holds(b, k)
      BY DEF RingInv
    <3>2. Staying(k)' = Staying(k)
      BY <1>8, <2>7 DEF Staying
    <3> QED BY <3>1, <3>2, <1>2, <1>8, <2>7 DEF Holds
  <2>13. \A s \in 0 .. Slots - 1 : Belongs(b, q, s)'
    <3> TAKE s \in 0 .. Slots - 1
    <3>1. Belongs(b, q, s)
      BY DEF RingInv
    <3> QED BY <3>1, <1>2, <1>8, <2>7 DEF Belongs
  <2>14. Orphan' \/ team_count' = (b + p1) % CountRange
    BY <1>8, <2>1, <2>4
  <2>15. RingInv(b, p1, q)'
    BY <1>8, <2>3, <2>5, <2>9, <2>10, <2>11, <2>12, <2>13, <2>14 DEF RingInv
  <2> QED BY <2>3, <2>15
<1> QED BY <1>10, <1>11

\* A slot comes round again after a ring of loops.
LEMMA PlaceAgain ==
    ASSUME region \in Regions, NEW b \in Nat, NEW k \in Nat
    PROVE  Place(b, k + Ring) = Place(b, k)
<1>1. Ring \in Nat \ {0}
  BY WidthFacts
<1> DEFINE x == b + k - 1
           one == 1
<1>2. x \in Int /\ one \in Int /\ b + (k + Ring) - 1 = x + Ring * one
  BY <1>1
<1> HIDE DEF x, one
<1>3. (x + Ring * one) % Ring = x % Ring
  <2>1. Ring \in Int /\ Ring > 0
    BY <1>1
  <2> QED BY <2>1, <1>2, ModShift
<1> QED BY <1>2, <1>3 DEF Place, x

LEMMA FillRing ==
    ASSUME Types, NEW b \in Nat, NEW p \in Nat, NEW q \in Nat, RingInv(b, p, q),
           NEW t \in Active, Fill(t)
    PROVE  RingInv(b, p, q)'
<1> DEFINE s == Place(b, p)
<1>1. /\ t \in Threads /\ pc \in [Threads -> Label]
      /\ at \in [Threads -> 1 .. Len(program)] /\ at[t] \in Nat \ {0}
      /\ region \in Regions /\ slots \in [0 .. Slots - 1 -> SlotRecord]
      /\ N \in Nat
  BY ThreadFacts, RegionFacts DEF Types
<1>2. /\ pc[t] = "fill" /\ pc' = [pc EXCEPT ![t] = "publish"]
      /\ UNCHANGED <<region, team_count, at, loop_count, loop>>
  BY DEF Fill, Goto, locals
<1>3. /\ at[t] = p /\ q = p - 1
      /\ \A u \in Active : pc[u] \in {"fill", "publish"} => u = t
  BY <1>2 DEF RingInv, FillRight
<1>4. MySlot(t) = s
  BY <1>2, <1>3, MyPlace
<1>5. s \in 0 .. Slots - 1
  BY <1>1, PlaceFacts
<1>6. slots[s].loop_id = Unused
  BY <1>4 DEF Fill
<1>7. /\ slots'[s].loop_id = slots[s].loop_id /\ slots'[s].number = p
      /\ slots'[s].looping_threads = N
      /\ \A r \in 0 .. Slots - 1 : r # s => slots'[r] = slots[r]
  <2>1. FillSlot(t, s)
    BY <1>4 DEF Fill
  <2> HIDE DEF s
  <2> QED BY <2>1, <1>1, <1>3, <1>5 DEF FillSlot
<1>8. /\ Ring' = Ring /\ Orphan' = Orphan /\ Len(program)' = Len(program)
      /\ Active' = Active /\ N' = N
      /\ \A k : Place(b, k)' = Place(b, k) /\ Id(b, k)' = Id(b, k)
  BY <1>2, RegionFrame DEF Id, IdRange
<1>9. pc'[t] = "publish" /\ Moves(t)
  BY <1>1, <1>2 DEF Moves
<1>10. \A u \in Active : u # t => Stays(u)
  BY <1>9, OthersStay
<1>11. \A u \in Active : /\ Left(u)' = Left(u) /\ Released(u)' = Released(u)
                         /\ Counted(u)' = Counted(u) /\ Entered(u)' = Entered(u)
  <2>1. /\ Left(t)' = Left(t) /\ Released(t)' = Released(t)
        /\ Counted(t)' = Counted(t) /\ Entered(t)' = Entered(t)
    BY <1>2, <1>9 DEF Left, Released, Counted, Entered, Entering
  <2> QED BY <2>1, <1>10 DEF Stays
\* Every loop that has been in the slot is over.
<1>12. \A k \in 1 .. q : (\E u \in Active : Released(u) < k) => Place(b, k) # s
  <2> TAKE k \in 1 .. q
  <2> HAVE \E u \in Active : Released(u) < k
  <2>1. Holds(b, k) /\ k \in Nat
    BY DEF RingInv
  <2>2. slots[Place(b, k)].loop_id = Id(b, k) /\ Id(b, k) # Unused
    BY <2>1, <1>1, PlaceFacts DEF Holds
  <2> QED BY <2>2, <1>6
<1>13. \A u \in Active : p <= Released(u) + Ring
  <2> TAKE u \in Active
  <2>1. Released(u) \in Nat /\ Ring \in Nat \ {0}
    BY <1>1, ThreadFacts, WidthFacts
  <2> SUFFICES ASSUME p > Released(u) + Ring PROVE FALSE
    BY <2>1
  <2> DEFINE k == p - Ring
  <2>2. k \in Nat /\ k \in 1 .. q /\ Released(u) < k /\ p = k + Ring
    BY <2>1, <1>3
  <2> HIDE DEF k
  <2>3. Place(b, k) = s
    BY <2>2, <1>1, PlaceAgain
  <2> QED BY <2>2, <2>3, <1>12
<1> HIDE DEF s
<1>14. \A u \in Active : CountRight(u, b, p, q)'
  <2> TAKE u \in Active
  <2>1. CountRight(u, b, p, q) /\ (u # t => Stays(u))
    BY <1>10 DEF RingInv
  <2> QED BY <2>1, <1>2, <1>8, <1>9, <1>11 DEF CountRight, Stays, Working
<1>15. \A u \in Active : FillRight(u, b, p, q)'
  <2> TAKE u \in Active
  <2>1. \A w \in Active : pc'[w] \in {"fill", "publish"} => w = t
    BY <1>3, <1>10 DEF Stays
  <2>2. slots'[Place(b, p)].loop_id = Unused /\ slots'[Place(b, p)].number = p
        /\ slots'[Place(b, p)].looping_threads = N
    BY <1>6, <1>7 DEF s
  <2> QED BY <2>1, <2>2, <1>2, <1>3, <1>8, <1>11, <1>13 DEF FillRight
<1>16. \A u \in Active : UnuseRight(u)'
  BY <1>8, <1>9, <1>10, <1>11 DEF RingInv, UnuseRight, Stays
<1>17. \A k \in 1 .. q : Holds(b, k)'
  <2> TAKE k \in 1 .. q
  <2> SUFFICES ASSUME \E u \in Active : Released(u) < k
               PROVE  /\ slots'[Place(b, k)].loop_id = Id(b, k)
                      /\ slots'[Place(b, k)].number = k
                      /\ slots'[Place(b, k)].looping_threads = Cardinality(Staying(k)')
    BY <1>8, <1>11 DEF Holds
  <2>1. Holds(b, k) /\ k \in Nat
    BY DEF RingInv
  <2>2. Staying(k)' = Staying(k)
    BY <1>8, <1>11 DEF Staying
  <2>3. Place(b, k) # s /\ Place(b, k) \in 0 .. Slots - 1
    BY <2>1, <1>1, <1>12, PlaceFacts
  <2> QED BY <2>1, <2>2, <2>3, <1>7 DEF Holds
<1>18. \A r \in 0 .. Slots - 1 : Belongs(b, q, r)'
  <2> TAKE r \in 0 .. Slots - 1
  <2>1. Belongs(b, q, r) /\ slots'[r].loop_id = slots[r].loop_id
    BY <1>7 DEF RingInv
  <2> QED BY <2>1, <1>8, <1>11 DEF Belongs
<1>19. q \in {p - 1, p} /\ p <= Len(program)' /\ (Orphan' \/ team_count' = (b + p) % CountRange)
  BY <1>2, <1>8 DEF RingInv
<1> QED BY <1>8, <1>14, <1>15, <1>16, <1>17, <1>18, <1>19 DEF RingInv

LEMMA PublishRing ==
    ASSUME Types, NEW b \in Nat, NEW p \in Nat, NEW q \in Nat, RingInv(b, p, q),
           NEW t \in Active, Publish(t)
    PROVE  RingInv(b, p, p)'
<1> DEFINE s == Place(b, p)
<1>1. /\ t \in Threads /\ pc \in [Threads -> Label] /\ loop \in [Threads -> Int]
      /\ at \in [Threads -> 1 .. Len(program)] /\ at[t] \in Nat \ {0}
      /\ region \in Regions /\ slots \in [0 .. Slots - 1 -> SlotRecord]
      /\ N \in Nat /\ Active \subseteq Threads
  BY ThreadFacts, RegionFacts DEF Types
<1>2. pc[t] = "publish"
  BY DEF Publish
<1>3. /\ at[t] = p /\ q = p - 1
      /\ \A u \in Active : pc[u] \in {"fill", "publish"} => u = t
      /\ slots[s].loop_id = Unused /\ slots[s].number = p /\ slots[s].looping_threads = N
      /\ \A u \in Active : p <= Released(u) + Ring
  BY <1>2 DEF RingInv, FillRight
<1>4. MySlot(t) = s /\ MyId(t) = Id(b, p)
  BY <1>2, <1>3, MyPlace
<1>5. s \in 0 .. Slots - 1 /\ p \in 1 .. p
  BY <1>1, <1>3, PlaceFacts
<1>6. /\ slots' = [slots EXCEPT ![s].loop_id = Id(b, p)]
      /\ loop' = [loop EXCEPT ![t] = s]
      /\ pc' = [pc EXCEPT ![t] = "next"]
      /\ UNCHANGED <<region, team_count, at, loop_count>>
  BY <1>3, <1>4 DEF Publish, Enter, Goto
<1> HIDE DEF s
<1>7. /\ slots'[s].loop_id = Id(b, p) /\ slots'[s].number = p /\ slots'[s].looping_threads = N
      /\ \A r \in 0 .. Slots - 1 : r # s => slots'[r] = slots[r]
  <2>1. slots[s] \in SlotRecord
    BY <1>1, <1>5
  <2>2. slots' = [slots EXCEPT ![s] = [slots[s] EXCEPT !.loop_id = Id(b, p)]]
    BY <1>6
  <2>3. slots'[s] = [slots[s] EXCEPT !.loop_id = Id(b, p)]
    BY <2>2, <1>1, <1>5
  <2>4. /\ slots'[s].loop_id = Id(b, p) /\ slots'[s].number = slots[s].number
        /\ slots'[s].looping_threads = slots[s].looping_threads
    BY <2>1, <2>3 DEF SlotRecord
  <2>5. \A r \in 0 .. Slots - 1 : r # s => slots'[r] = slots[r]
    BY <2>2, <1>1
  <2> QED BY <2>4, <2>5, <1>3
<1>8. /\ Ring' = Ring /\ Orphan' = Orphan /\ Len(program)' = Len(program)
      /\ Active' = Active /\ N' = N
      /\ \A k : Place(b, k)' = Place(b, k) /\ Id(b, k)' = Id(b, k)
  BY <1>6, RegionFrame DEF Id, IdRange
<1>9. pc'[t] = "next" /\ Moves(t)
  BY <1>1, <1>6 DEF Moves
<1>10. \A u \in Active : u # t => Stays(u)
  BY <1>9, OthersStay
<1>11. \A u \in Active : /\ Left(u)' = Left(u) /\ Released(u)' = Released(u)
                         /\ Counted(u)' = Counted(u)
  <2>1. /\ Left(t)' = Left(t) /\ Released(t)' = Released(t) /\ Counted(t)' = Counted(t)
    BY <1>2, <1>6, <1>9 DEF Left, Released, Counted
  <2> QED BY <2>1, <1>10 DEF Stays
<1>12. Entered(t)' = p /\ Left(t) = p - 1 /\ Released(t) = p - 1
  BY <1>2, <1>3, <1>6, <1>9 DEF Entered, Left, Released, Entering
<1>13. \A u \in Active : u # t => Entered(u) <= p - 1 /\ Left(u) < p
  <2> TAKE u \in Active
  <2> HAVE u # t
  <2>1. Entered(u) <= q /\ Entered(u) \in Nat /\ Left(u) \in Nat /\ Left(u) <= Entered(u)
    BY ThreadFacts DEF RingInv, CountRight
  <2> QED BY <2>1, <1>3
<1>14. \A u \in Active : CountRight(u, b, p, p)'
  <2> TAKE u \in Active
  <2>1. CountRight(u, b, p, q) /\ p <= Released(u) + Ring
    BY <1>3 DEF RingInv
  <2>2. CASE u # t
    <3>1. Stays(u) /\ loop'[u] = loop[u] /\ loop_count'[u] = loop_count[u]
      BY <2>2, <1>1, <1>6, <1>10
    <3>2. Entered(u) <= p
      <4>1. Entered(u) <= p - 1 /\ Entered(u) \in Nat
        BY <2>2, <1>13, ThreadFacts
      <4> QED BY <4>1
    <3> QED BY <2>1, <3>1, <3>2, <1>8, <1>11 DEF CountRight, Stays
  <2>3. CASE u = t
    <3>1. loop'[t] = Place(b, at[t]) /\ at'[t] = at[t]
      BY <1>1, <1>3, <1>6 DEF s
    <3>2. Entered(t)' <= p
      BY <1>12
    <3> QED BY <2>1, <2>3, <3>1, <3>2, <1>6, <1>8, <1>9, <1>11 DEF CountRight
  <2> QED BY <2>2, <2>3
<1>15. \A u \in Active : FillRight(u, b, p, p)'
  <2> TAKE u \in Active
  <2>1. pc'[u] \notin {"fill", "publish"}
    BY <1>3, <1>9, <1>10 DEF Stays
  <2> QED BY <2>1 DEF FillRight
<1>16. \A u \in Active : UnuseRight(u)'
  BY <1>8, <1>9, <1>10, <1>11 DEF RingInv, UnuseRight, Stays
<1>17. \A k \in 1 .. p : Holds(b, k)'
  <2> TAKE k \in 1 .. p
  <2>0. k \in Nat /\ Staying(k)' = Staying(k)
    BY <1>8, <1>11 DEF Staying
  <2>1. CASE k = p
    <3>1. Staying(p) = Active
      <4>1. Left(t) < p
        BY <1>12
      <4> QED BY <4>1, <1>13 DEF Staying
    <3>2. Cardinality(Active) = N
      <4>1. 0 \in Int /\ N - 1 \in Int
        BY <1>1
      <4>2. Cardinality(0 .. N - 1) = IF 0 > N - 1 THEN 0 ELSE N - 1 - 0 + 1
        BY <4>1, FS_Interval
      <4> QED BY <4>2, <1>1 DEF Active
    <3> QED BY <2>0, <2>1, <3>1, <3>2, <1>7, <1>8 DEF Holds, s
  <2>2. CASE k # p
    <3> SUFFICES ASSUME \E u \in Active : Released(u) < k
                 PROVE  /\ slots'[Place(b, k)].loop_id = Id(b, k)
                        /\ slots'[Place(b, k)].number = k
                        /\ slots'[Place(b, k)].looping_threads = Cardinality(Staying(k)')
      BY <1>8, <1>11 DEF Holds
    <3>1. Holds(b, k)
      BY <2>2, <1>3 DEF RingInv
    <3>2. slots[Place(b, k)].loop_id = Id(b, k) /\ Id(b, k) # Unused
          /\ Place(b, k) \in 0 .. Slots - 1
      BY <2>0, <3>1, <1>1, PlaceFacts DEF Holds
    <3>3. slots'[Place(b, k)] = slots[Place(b, k)]
      BY <3>2, <1>3, <1>7
    <3> QED BY <2>0, <3>1, <3>3 DEF Holds
  <2> QED BY <2>1, <2>2
<1>18. \A r \in 0 .. Slots - 1 : Belongs(b, p, r)'
  <2> TAKE r \in 0 .. Slots - 1
  <2>1. CASE r = s
    <3>1. Released(t) < p
      BY <1>12
    <3>2. \E u \in Active : Released(u)' < p
      BY <3>1, <1>11
    <3> QED BY <2>1, <3>2, <1>5, <1>8 DEF Belongs, s
  <2>2. CASE r # s
    <3>1. slots'[r] = slots[r] /\ Belongs(b, q, r)
      BY <2>2, <1>7 DEF RingInv
    <3> SUFFICES ASSUME slots[r].loop_id # Unused
                 PROVE  \E k \in 1 .. p : Place(b, k)' = r /\ \E u \in Active : Released(u)' < k
      BY <3>1, <1>8 DEF Belongs
    <3>2. PICK k \in 1 .. q : Place(b, k) = r /\ \E u \in Active : Released(u) < k
      BY <3>1 DEF Belongs
    <3>3. k \in 1 .. p
      BY <3>2, <1>3
    <3> QED BY <3>2, <3>3, <1>8, <1>11
  <2> QED BY <2>1, <2>2
<1>19. p \in {p - 1, p} /\ p <= Len(program)' /\ (Orphan' \/ team_count' = (b + p) % CountRange)
  BY <1>6, <1>8 DEF RingInv
<1> QED BY <1>8, <1>14, <1>15, <1>16, <1>17, <1>18, <1>19 DEF RingInv

\* What a thread does to its slot when it leaves it concerns no other loop.
LEMMA LeaveRing ==
    ASSUME Types, NEW b \in Nat, NEW p \in Nat, NEW q \in Nat, RingInv(b, p, q),
           NEW t \in Active, Moves(t), pc[t] \in {"free", "unuse"},
           pc'[t] \in {"unuse", "after"},
           UNCHANGED <<team_count, at, loop_count>>,
           \A u \in Active : u # t => loop'[u] = loop[u],
           pc'[t] = "unuse" => loop'[t] = loop[t],
           \A r \in 0 .. Slots - 1 : r # loop[t] => slots'[r] = slots[r]
    PROVE  /\ q \in {p - 1, p} /\ p <= Len(program)'
           /\ Orphan' \/ team_count' = (b + p) % CountRange
           /\ \A u \in Active : CountRight(u, b, p, q)'
           /\ \A u \in Active : FillRight(u, b, p, q)'
           /\ \A u \in Active : u # t => UnuseRight(u)'
           /\ \A k \in 1 .. q : k # at[t] => Holds(b, k)'
           /\ \A r \in 0 .. Slots - 1 : r # loop[t] => Belongs(b, q, r)'
           /\ \A u \in Active : u # t => Stays(u)
           /\ Active' = Active /\ N' = N /\ Ring' = Ring
           /\ \A k : Place(b, k)' = Place(b, k) /\ Id(b, k)' = Id(b, k)
<1>1. /\ t \in Threads /\ at[t] \in Nat \ {0} /\ region \in Regions
  BY ThreadFacts DEF Types
<1>2. /\ at[t] \in 1 .. q /\ loop[t] = Place(b, at[t]) /\ Released(t) = at[t] - 1
      /\ slots[loop[t]].loop_id = Id(b, at[t])
  BY InLoop DEF Working
<1>3. /\ Ring' = Ring /\ Orphan' = Orphan /\ Len(program)' = Len(program)
      /\ Active' = Active /\ N' = N
      /\ \A k : Place(b, k)' = Place(b, k) /\ Id(b, k)' = Id(b, k)
  BY RegionFrame DEF Id, IdRange, Moves
<1>4. \A u \in Active : u # t => Stays(u)
  BY OthersStay
<1>5. /\ Counted(t)' = Counted(t) /\ Entered(t)' = Entered(t)
      /\ Left(t)' = at[t] /\ Released(t)' \in {at[t] - 1, at[t]}
  BY <1>1 DEF Counted, Entered, Left, Released, Entering
<1>6. Left(t) \in {at[t] - 1, at[t]}
  BY DEF Left
<1>7. \A u \in Active : /\ Released(u) \in Nat /\ Released(u)' \in Nat
                        /\ Released(u) <= Released(u)'
  <2> TAKE u \in Active
  <2>1. Released(u) \in Nat
    BY ThreadFacts
  <2>2. CASE u # t
    BY <2>1, <2>2, <1>4 DEF Stays
  <2>3. CASE u = t
    BY <2>3, <1>1, <1>2, <1>5
  <2> QED BY <2>1, <2>2, <2>3
<1>8. q \in {p - 1, p} /\ p <= Len(program)' /\ (Orphan' \/ team_count' = (b + p) % CountRange)
  BY <1>3 DEF RingInv
<1>9. Ring \in Nat
  BY <1>1, WidthFacts
<1>10. \A u \in Active : CountRight(u, b, p, q)'
  <2> TAKE u \in Active
  <2>1. CountRight(u, b, p, q)
    BY DEF RingInv
  <2>2. q <= Released(u)' + Ring
    BY <2>1, <1>7, <1>9 DEF CountRight
  <2>3. CASE u # t
    <3>1. Stays(u) /\ loop'[u] = loop[u]
      BY <2>3, <1>4
    <3> QED BY <2>1, <2>2, <3>1, <1>3 DEF CountRight, Stays
  <2>4. CASE u = t
    <3>1. pc'[t] \in Working \cup {"unuse", "abort"} => loop'[t] = Place(b, at[t])
      BY <1>2 DEF Working
    <3> QED BY <2>1, <2>2, <2>4, <3>1, <1>3, <1>5 DEF CountRight
  <2> QED BY <2>3, <2>4
<1>11. \A u \in Active : FillRight(u, b, p, q)'
  <2> TAKE u \in Active
  <2>1. CASE u # t
    <3>1. FillRight(u, b, p, q) /\ Stays(u)
      BY <2>1, <1>4 DEF RingInv
    <3>2. \A w \in Active : pc'[w] \in {"fill", "publish"} => pc[w] \in {"fill", "publish"}
      BY <1>4 DEF Stays
    <3>3. CASE pc[u] = "publish"
      <4>1. slots[Place(b, p)].loop_id = Unused /\ (\A w \in Active : p <= Released(w) + Ring)
        BY <3>1, <3>3 DEF FillRight
      <4>2. Place(b, p) # loop[t] /\ Place(b, p) \in 0 .. Slots - 1
        BY <4>1, <1>1, <1>2, PlaceFacts
      <4>3. slots'[Place(b, p)] = slots[Place(b, p)]
        BY <4>2
      <4>4. \A w \in Active : p <= Released(w)' + Ring
        BY <4>1, <1>7, <1>9
      <4> QED BY <3>1, <3>2, <4>3, <4>4, <1>3 DEF FillRight, Stays
    <3>4. CASE pc[u] # "publish"
      BY <3>1, <3>2, <3>4, <1>3 DEF FillRight, Stays
    <3> QED BY <3>3, <3>4
  <2>2. CASE u = t
    BY <2>2 DEF FillRight
  <2> QED BY <2>1, <2>2
<1>12. \A u \in Active : u # t => UnuseRight(u)'
  <2> TAKE u \in Active
  <2> HAVE u # t
  <2>1. UnuseRight(u) /\ Stays(u) /\ at[u] \in Nat
    BY <1>4, ThreadFacts DEF RingInv
  <2> SUFFICES ASSUME pc[u] = "unuse", NEW w \in Active, w # u
               PROVE  at[u] <= Released(w)'
    BY <2>1, <1>3 DEF UnuseRight, Stays
  <2>2. at[u] <= Released(w)
    BY <2>1 DEF UnuseRight
  <2> QED BY <2>1, <2>2, <1>7
<1>13. \A k \in 1 .. q : k # at[t] => Holds(b, k)'
  <2> TAKE k \in 1 .. q
  <2> HAVE k # at[t]
  <2> SUFFICES ASSUME NEW u \in Active, Released(u)' < k
               PROVE  /\ slots'[Place(b, k)].loop_id = Id(b, k)
                      /\ slots'[Place(b, k)].number = k
                      /\ slots'[Place(b, k)].looping_threads = Cardinality(Staying(k)')
    BY <1>3 DEF Holds
  <2>1. Holds(b, k) /\ k \in Nat
    BY DEF RingInv
  <2>2. Released(u) < k
    BY <2>1, <1>7
  <2>3. Released(t) < at[t]
    BY <1>1, <1>2
  <2>4. Place(b, k) # loop[t]
    BY <2>2, <2>3, <1>2, LiveApart
  <2>5. Place(b, k) \in 0 .. Slots - 1
    BY <2>1, <1>1, PlaceFacts
  <2>6. slots'[Place(b, k)] = slots[Place(b, k)]
    BY <2>4, <2>5
  <2>7. Left(t) < k <=> Left(t)' < k
    BY <2>1, <1>1, <1>5, <1>6
  <2>8. Staying(k)' = Staying(k)
    BY <2>7, <1>3, <1>4 DEF Staying, Stays
  <2> QED BY <2>1, <2>2, <2>6, <2>8 DEF Holds
<1>14. \A r \in 0 .. Slots - 1 : r # loop[t] => Belongs(b, q, r)'
  <2> TAKE r \in 0 .. Slots - 1
  <2> HAVE r # loop[t]
  <2>1. slots'[r] = slots[r] /\ Belongs(b, q, r)
    BY DEF RingInv
  <2> SUFFICES ASSUME slots[r].loop_id # Unused
               PROVE  \E k \in 1 .. q : Place(b, k)' = r /\ \E u \in Active : Released(u)' < k
    BY <2>1, <1>3 DEF Belongs
  <2>2. PICK k \in 1 .. q : Place(b, k) = r /\ \E u \in Active : Released(u) < k
    BY <2>1 DEF Belongs
  <2>3. PICK u \in Active : Released(u) < k
    BY <2>2
  <2>4. k # at[t]
    BY <2>2, <1>2
  <2>5. Released(u)' < k
    <3>1. CASE u = t
      BY <3>1, <2>3, <2>4, <1>1, <1>2, <1>5
    <3>2. CASE u # t
      BY <3>2, <2>3, <1>4 DEF Stays
    <3> QED BY <3>1, <3>2
  <2> QED BY <2>2, <2>5, <1>3
<1> QED BY <1>3, <1>4, <1>8, <1>10, <1>11, <1>12, <1>13, <1>14

LEMMA FreeCountRing ==
    ASSUME Types, NEW b \in Nat, NEW p \in Nat, NEW q \in Nat, RingInv(b, p, q),
           NEW t \in Active, FreeCount(t),
           NEW k \in Nat, k = at[t], NEW s \in Int, s = loop[t]
    PROVE  RingInv(b, p, q)'
<1> DEFINE count == Cardinality(Staying(k))
<1>1. /\ t \in Threads /\ k \in Nat \ {0} /\ region \in Regions
      /\ pc \in [Threads -> Label] /\ loop \in [Threads -> Int]
      /\ at \in [Threads -> 1 .. Len(program)] /\ Active \subseteq Threads
      /\ slots \in [0 .. Slots - 1 -> SlotRecord] /\ N \in Nat
  BY ThreadFacts, RegionFacts DEF Types
<1>2. pc[t] = "free"
  BY DEF FreeCount, FreeWhen
<1>3. /\ k \in 1 .. q /\ s = Place(b, k) /\ Released(t) = k - 1
      /\ slots[s].loop_id = Id(b, k) /\ slots[s].number = k
      /\ slots[s].looping_threads = count
  BY <1>2, InLoop DEF Working
<1>4. MyId(t) = Id(b, k)
  BY <1>2, MyPlace
<1>5. s \in 0 .. Slots - 1
  BY <1>1, <1>3, PlaceFacts
<1>6. Left(t) = k - 1
  BY <1>2 DEF Left
<1>7. IsFiniteSet(Staying(k)) /\ t \in Staying(k) /\ Staying(k) \subseteq Active
  <2>1. IsFiniteSet(Active)
    BY <1>1, FS_Interval DEF Active
  <2>2. Staying(k) \subseteq Active
    BY DEF Staying
  <2>3. Left(t) < k
    BY <1>1, <1>6
  <2> QED BY <2>1, <2>2, <2>3, FS_Subset DEF Staying
<1>8. count \in Nat /\ count >= 1 /\ Cardinality(Staying(k) \ {t}) = count - 1
  <2>1. count \in Nat
    BY <1>7, FS_CardinalityType
  <2>2. Cardinality(Staying(k) \ {t}) = count - 1 /\ IsFiniteSet(Staying(k) \ {t})
    BY <1>7, FS_RemoveElement
  <2>3. Cardinality(Staying(k) \ {t}) \in Nat
    BY <2>2, FS_CardinalityType
  <2> QED BY <2>1, <2>2, <2>3
<1>9. /\ slots' = [slots EXCEPT ![s].looping_threads = count - 1]
      /\ \/ /\ count = 1 /\ pc' = [pc EXCEPT ![t] = "unuse"] /\ loop' = loop
         \/ /\ count > 1 /\ pc' = [pc EXCEPT ![t] = "after"]
            /\ loop' = [loop EXCEPT ![t] = NoLoop]
      /\ UNCHANGED <<region, team_count, at, loop_count>>
  <2>1. slots[s].loop_id = MyId(t) /\ ~(slots[s].looping_threads < 1)
    BY <1>3, <1>4, <1>8
  <2>2. slots' = [slots EXCEPT ![s].looping_threads = slots[s].looping_threads - 1]
    BY <2>1 DEF FreeCount, FreeWhen
  <2>3. \/ slots[s].looping_threads = 1 /\ pc' = [pc EXCEPT ![t] = "unuse"] /\ loop' = loop
        \/ /\ slots[s].looping_threads # 1 /\ pc' = [pc EXCEPT ![t] = "after"]
           /\ loop' = [loop EXCEPT ![t] = NoLoop]
    BY <2>1 DEF FreeCount, FreeWhen, Goto, Leave
  <2>4. UNCHANGED <<region, team_count, at, loop_count>>
    BY DEF FreeCount, FreeWhen
  <2> HIDE DEF count
  <2> QED BY <2>2, <2>3, <2>4, <1>3, <1>8
<1> HIDE DEF count
<1>10. /\ slots'[s].loop_id = Id(b, k) /\ slots'[s].number = k
       /\ slots'[s].looping_threads = count - 1
       /\ \A r \in 0 .. Slots - 1 : r # s => slots'[r] = slots[r]
  <2>1. slots[s] \in SlotRecord
    BY <1>1, <1>5
  <2>2. slots' = [slots EXCEPT ![s] = [slots[s] EXCEPT !.looping_threads = count - 1]]
    BY <1>9
  <2>3. slots'[s] = [slots[s] EXCEPT !.looping_threads = count - 1]
    BY <2>2, <1>1, <1>5
  <2>4. /\ slots'[s].looping_threads = count - 1 /\ slots'[s].number = slots[s].number
        /\ slots'[s].loop_id = slots[s].loop_id
    BY <2>1, <2>3 DEF SlotRecord
  <2>5. \A r \in 0 .. Slots - 1 : r # s => slots'[r] = slots[r]
    BY <2>2, <1>1
  <2> QED BY <2>4, <2>5, <1>3
<1>11. /\ Moves(t) /\ pc'[t] \in {"unuse", "after"}
       /\ \A u \in Active : u # t => loop'[u] = loop[u]
       /\ pc'[t] = "unuse" => loop'[t] = loop[t]
  BY <1>1, <1>9 DEF Moves
<1>12. /\ q \in {p - 1, p} /\ p <= Len(program)'
       /\ Orphan' \/ team_count' = (b + p) % CountRange
       /\ \A u \in Active : CountRight(u, b, p, q)'
       /\ \A u \in Active : FillRight(u, b, p, q)'
       /\ \A u \in Active : u # t => UnuseRight(u)'
       /\ \A j \in 1 .. q : j # k => Holds(b, j)'
       /\ \A r \in 0 .. Slots - 1 : r # s => Belongs(b, q, r)'
       /\ \A u \in Active : u # t => Stays(u)
       /\ Active' = Active /\ N' = N /\ Ring' = Ring
       /\ \A j : Place(b, j)' = Place(b, j) /\ Id(b, j)' = Id(b, j)
  BY <1>2, <1>9, <1>10, <1>11, LeaveRing
<1>13. Left(t)' = k /\ ~(k < k)
  BY <1>1, <1>9, <1>11 DEF Left
<1>14. Staying(k)' = Staying(k) \ {t}
  BY <1>12, <1>13 DEF Staying, Stays
<1>15. UnuseRight(t)'
  <2> SUFFICES ASSUME pc'[t] = "unuse", NEW u \in Active, u # t
               PROVE  k <= Released(u)'
    BY <1>9, <1>12 DEF UnuseRight
  <2>1. count = 1
    BY <1>1, <1>9
  <2>2. Cardinality(Staying(k) \ {t}) = 0 /\ IsFiniteSet(Staying(k) \ {t})
    BY <2>1, <1>7, <1>8, FS_RemoveElement
  <2>3. Staying(k) \ {t} = {}
    BY <2>2, FS_EmptySet
  <2>4. ~(Left(u) < k)
    BY <2>3 DEF Staying
  <2>5. /\ Released(u)' = Released(u) /\ Released(u) \in Nat /\ Left(u) \in Nat
        /\ at[u] \in Nat /\ at[u] - 1 <= Released(u) /\ Left(u) <= at[u]
        /\ Released(u) < Left(u) <=> pc[u] = "unuse"
    BY <1>12, ThreadFacts DEF Stays
  <2>6. UnuseRight(u)
    BY DEF RingInv
  <2>7. CASE pc[u] = "unuse"
    <3>1. at[u] <= Released(t)
      BY <2>6, <2>7 DEF UnuseRight
    <3> QED BY <3>1, <2>4, <2>5, <1>1, <1>3
  <2>8. CASE pc[u] # "unuse"
    BY <2>4, <2>5, <2>8, <1>1
  <2> QED BY <2>7, <2>8
<1>16. Holds(b, k)'
  BY <1>3, <1>8, <1>10, <1>12, <1>14 DEF Holds
<1>17. Belongs(b, q, s)'
  <2>1. \E u \in Active : Released(u)' < k
    <3>1. CASE count = 1
      <4>1. pc'[t] = "unuse" /\ at'[t] = k
        BY <3>1, <1>1, <1>9
      <4>2. Released(t)' = k - 1
        BY <4>1 DEF Released
      <4> QED BY <4>2, <1>1
    <3>2. CASE count # 1
      <4>1. Staying(k) \ {t} # {}
        <5>1. Cardinality(Staying(k) \ {t}) # 0
          BY <3>2, <1>8
        <5> QED BY <5>1, FS_EmptySet
      <4>2. PICK u \in Active : u # t /\ Left(u) < k
        BY <4>1 DEF Staying
      <4>3. Released(u)' = Released(u) /\ Released(u) <= Left(u) /\ Released(u) \in Nat /\ Left(u) \in Nat
        BY <4>2, <1>12, ThreadFacts DEF Stays
      <4>4. Released(u)' < k
        BY <4>2, <4>3, <1>1
      <4> QED BY <4>4
    <3> QED BY <3>1, <3>2
  <2> QED BY <2>1, <1>3, <1>12 DEF Belongs
<1> QED BY <1>12, <1>15, <1>16, <1>17 DEF RingInv

LEMMA FreeLastRing ==
    ASSUME Types, NEW b \in Nat, NEW p \in Nat, NEW q \in Nat, RingInv(b, p, q),
           NEW t \in Active, FreeLast(t),
           NEW k \in Nat, k = at[t], NEW s \in Int, s = loop[t]
    PROVE  RingInv(b, p, q)'
<1>1. /\ t \in Threads /\ k \in Nat \ {0} /\ region \in Regions
      /\ pc \in [Threads -> Label] /\ loop \in [Threads -> Int]
      /\ at \in [Threads -> 1 .. Len(program)] /\ Active \subseteq Threads
      /\ slots \in [0 .. Slots - 1 -> SlotRecord]
  BY ThreadFacts, RegionFacts DEF Types
<1>2. pc[t] = "unuse"
  BY DEF FreeLast
<1>3. /\ k \in 1 .. q /\ s = Place(b, k)
  BY <1>2, InLoop
<1>4. s \in 0 .. Slots - 1
  BY <1>1, <1>3, PlaceFacts
<1>5. /\ slots' = [slots EXCEPT ![s].loop_id = Unused]
      /\ pc' = [pc EXCEPT ![t] = "after"]
      /\ loop' = [loop EXCEPT ![t] = NoLoop]
      /\ UNCHANGED <<region, team_count, at, loop_count>>
  BY DEF FreeLast, Leave, Goto
<1>6. slots'[s].loop_id = Unused /\ \A r \in 0 .. Slots - 1 : r # s => slots'[r] = slots[r]
  <2>1. slots' = [slots EXCEPT ![s] = [slots[s] EXCEPT !.loop_id = Unused]]
    BY <1>5
  <2>2. slots[s] \in SlotRecord
    BY <1>1, <1>4
  <2>3. slots'[s] = [slots[s] EXCEPT !.loop_id = Unused]
    BY <2>1, <1>1, <1>4
  <2>4. slots'[s].loop_id = Unused
    BY <2>2, <2>3 DEF SlotRecord
  <2>5. \A r \in 0 .. Slots - 1 : r # s => slots'[r] = slots[r]
    BY <2>1, <1>1
  <2> QED BY <2>4, <2>5
<1>7. /\ Moves(t) /\ pc'[t] = "after"
      /\ \A u \in Active : u # t => loop'[u] = loop[u]
  BY <1>1, <1>5 DEF Moves
<1>8. /\ q \in {p - 1, p} /\ p <= Len(program)'
      /\ Orphan' \/ team_count' = (b + p) % CountRange
      /\ \A u \in Active : CountRight(u, b, p, q)'
      /\ \A u \in Active : FillRight(u, b, p, q)'
      /\ \A u \in Active : u # t => UnuseRight(u)'
      /\ \A j \in 1 .. q : j # k => Holds(b, j)'
      /\ \A r \in 0 .. Slots - 1 : r # s => Belongs(b, q, r)'
      /\ \A u \in Active : u # t => Stays(u)
      /\ Active' = Active /\ N' = N /\ Ring' = Ring
      /\ \A j : Place(b, j)' = Place(b, j) /\ Id(b, j)' = Id(b, j)
  BY <1>2, <1>5, <1>6, <1>7, LeaveRing
<1>9. UnuseRight(t)'
  BY <1>7 DEF UnuseRight
<1>10. Holds(b, k)'
  <2>1. Released(t)' = k /\ ~(k < k)
    BY <1>1, <1>5, <1>7 DEF Released
  <2>2. \A u \in Active : u # t => k <= Released(u)' /\ Released(u)' \in Nat
    <3>1. UnuseRight(t)
      BY DEF RingInv
    <3> QED BY <3>1, <1>2, <1>8, ThreadFacts DEF UnuseRight, Stays
  <2>3. \A u \in Active : ~(Released(u)' < k)
    BY <2>1, <2>2, <1>1
  <2> QED BY <2>3, <1>8 DEF Holds
<1>11. Belongs(b, q, s)'
  BY <1>6 DEF Belongs
<1> QED BY <1>8, <1>9, <1>10, <1>11 DEF RingInv

\* When the region ends every loop is over and every slot is free.
LEMMA NewRegionRing ==
    ASSUME Types, NEW b \in Nat, NEW p \in Nat, NEW q \in Nat, RingInv(b, p, q), NewRegion
    PROVE  \E b1 \in Nat : RingInv(b1, 0, 0)'
<1>1. /\ region \in Regions /\ Active \subseteq Threads /\ N \in Nat /\ MaxTeam \in Nat
      /\ Len(program) \in Nat \ {0} /\ CountRange \in Nat \ {0}
  BY RegionFacts DEF Types
<1>2. \A u \in Active : pc[u] = "done"
  <2> TAKE u \in Active
  <2>1. u \in Threads /\ pc[u] # "absent"
    BY ThreadFacts
  <2> QED BY <2>1 DEF NewRegion
<1>3. \A u \in Active : Counted(u) = Len(program) /\ Released(u) = Len(program)
  <2> TAKE u \in Active
  <2>1. pc[u] = "done" /\ CountRight(u, b, p, q)
    BY <1>2 DEF RingInv
  <2>2. at[u] = Len(program)
    BY <2>1 DEF CountRight
  <2> QED BY <2>1, <2>2 DEF Counted, Released
<1>4. \A s \in 0 .. Slots - 1 : slots[s].loop_id = Unused
  <2> TAKE s \in 0 .. Slots - 1
  <2> SUFFICES ASSUME slots[s].loop_id # Unused PROVE FALSE
    OBVIOUS
  <2>1. Belongs(b, q, s) /\ q \in {p - 1, p} /\ p <= Len(program)
    BY DEF RingInv
  <2>2. PICK k \in 1 .. q : \E u \in Active : Released(u) < k
    BY <2>1 DEF Belongs
  <2>3. Len(program) < k
    BY <2>2, <1>3
  <2> QED BY <2>1, <2>2, <2>3, <1>1
<1>5. UNCHANGED <<region, slots, loop>>
  BY DEF NewRegion
<1>6. /\ Ring' = Ring /\ Orphan' = Orphan /\ Len(program)' = Len(program) /\ Active' = Active
  BY <1>5, RegionFrame
<1>7. \A u \in Active : pc'[u] = "begin" /\ at'[u] = 1
  <2> TAKE u \in Active
  <2>1. u \in Threads /\ u < N
    BY <1>1 DEF Active
  <2> QED BY <2>1 DEF NewRegion
<1>8. \A u \in Active : /\ Counted(u)' = 0 /\ Entered(u)' = 0 /\ Left(u)' = 0
                        /\ Released(u)' = 0
  BY <1>7 DEF Counted, Entered, Left, Released
<1>9. PICK b1 \in Nat : /\ Orphan \/ team_count' = (b1 + 0) % CountRange
                        /\ \A u \in Active : loop_count'[u] = (b1 + 0) % CountRange
  <2>1. CASE Orphan
    <3> DEFINE b1 == b + p
    <3>1. b1 \in Nat /\ b1 + 0 = b + p
      OBVIOUS
    <3>2. UNCHANGED loop_count
      BY <2>1 DEF NewRegion
    <3>3. \A u \in Active : loop_count[u] = (b + p) % CountRange
      BY <2>1 DEF RingInv, CountRight
    <3> QED BY <2>1, <3>1, <3>2, <3>3
  <2>2. CASE ~Orphan
    <3>1. team_count' = 0 /\ loop_count' = [u \in Threads |-> 0]
      BY <2>2 DEF NewRegion
    <3>2. (0 + 0) % CountRange = 0
      BY <1>1
    <3> QED BY <3>1, <3>2, <1>1
  <2> QED BY <2>1, <2>2
<1>10. Ring \in Nat
  BY <1>1, WidthFacts
<1>11. \A u \in Active : CountRight(u, b1, 0, 0)'
  <2> TAKE u \in Active
  <2>1. 0 <= 0 + Ring /\ 0 <= 0
    BY <1>10
  <2> QED BY <2>1, <1>6, <1>7, <1>8, <1>9 DEF CountRight, Working
<1>12. \A u \in Active : FillRight(u, b1, 0, 0)' /\ UnuseRight(u)'
  BY <1>7 DEF FillRight, UnuseRight
<1>13. \A s \in 0 .. Slots - 1 : Belongs(b1, 0, s)'
  BY <1>4, <1>5 DEF Belongs
<1>14. 1 .. 0 = {} /\ 0 \in {0 - 1, 0} /\ 0 <= Len(program)'
  BY <1>1, <1>6
<1>15. RingInv(b1, 0, 0)'
  BY <1>6, <1>9, <1>11, <1>12, <1>13, <1>14 DEF RingInv
<1> QED BY <1>15

LEMMA InitRing == ASSUME Init PROVE RingRight
<1>1. /\ region \in Regions /\ Active \subseteq Threads /\ N \in Nat /\ MaxTeam \in Nat
      /\ Len(program) \in Nat \ {0} /\ CountRange \in Nat \ {0}
      /\ region.start \in 0 .. CountRange - 1
  BY RegionFacts DEF Init
<1>2. PICK b \in Nat : b = region.start
  BY <1>1
<1>3. (b + 0) % CountRange = b
  BY <1>1, <1>2
<1>4. \A u \in Active : pc[u] = "begin" /\ at[u] = 1 /\ loop_count[u] = b
  <2> TAKE u \in Active
  <2>1. u \in Threads /\ u < N
    BY <1>1 DEF Active
  <2> QED BY <2>1, <1>2 DEF Init
<1>5. \A u \in Active : Counted(u) = 0 /\ Entered(u) = 0 /\ Left(u) = 0 /\ Released(u) = 0
  BY <1>4 DEF Counted, Entered, Left, Released
<1>6. Ring \in Nat
  BY <1>1, WidthFacts
<1>7. Orphan => Active = {0}
  BY <1>1, RegionFacts DEF Active
<1>8. \A u \in Active : CountRight(u, b, 0, 0)
  <2> TAKE u \in Active
  <2>1. 0 <= 0 + Ring /\ 0 <= 0
    BY <1>6
  <2> QED BY <2>1, <1>3, <1>4, <1>5 DEF CountRight, Working
<1>9. \A u \in Active : FillRight(u, b, 0, 0) /\ UnuseRight(u)
  BY <1>4 DEF FillRight, UnuseRight
<1>10. \A s \in 0 .. Slots - 1 : Belongs(b, 0, s)
  BY DEF Belongs, Init, FreeSlot
<1>11. 1 .. 0 = {} /\ 0 \in {0 - 1, 0} /\ 0 <= Len(program)
  BY <1>1
<1>12. team_count = (b + 0) % CountRange
  BY <1>2, <1>3 DEF Init
<1>13. RingInv(b, 0, 0)
  BY <1>8, <1>9, <1>10, <1>11, <1>12 DEF RingInv
<1> QED BY <1>13 DEF RingRight

\* The steps of the schedules and of the body touch no field of the ring.
LEMMA QuietSlots ==
    ASSUME Types, NEW t \in Threads, pc[t] \in Working,
           NEW x,
           \/ slots' = slots
           \/ slots' = [slots EXCEPT ![loop[t]].current = x]
           \/ slots' = [slots EXCEPT ![loop[t]].chunk = x]
           \/ slots' = [slots EXCEPT ![loop[t]].now_serving = x]
    PROVE  \A s \in 0 .. Slots - 1 : KeepsSlot(s)
<1> TAKE s \in 0 .. Slots - 1
<1>1. slots \in [0 .. Slots - 1 -> SlotRecord] /\ slots[s] \in SlotRecord
  BY DEF Types
<1>2. CASE s # loop[t]
  BY <1>1, <1>2 DEF KeepsSlot
<1>3. CASE s = loop[t]
  <2>1. \/ slots'[s] = slots[s]
        \/ slots'[s] = [slots[s] EXCEPT !.current = x]
        \/ slots'[s] = [slots[s] EXCEPT !.chunk = x]
        \/ slots'[s] = [slots[s] EXCEPT !.now_serving = x]
    BY <1>1, <1>3
  <2> DEFINE r == slots[s]
  <2>2. r \in SlotRecord
    BY <1>1
  <2>3. \/ slots'[s] = r
        \/ slots'[s] = [r EXCEPT !.current = x]
        \/ slots'[s] = [r EXCEPT !.chunk = x]
        \/ slots'[s] = [r EXCEPT !.now_serving = x]
    BY <2>1
  <2> HIDE DEF r
  <2>4. /\ slots'[s].loop_id = r.loop_id /\ slots'[s].number = r.number
        /\ slots'[s].looping_threads = r.looping_threads
    BY <2>2, <2>3 DEF SlotRecord
  <2> QED BY <2>4 DEF KeepsSlot, r
<1> QED BY <1>2, <1>3

\* The steps of a thread that is in a loop.
Inner(t) ==
    \/ NextFixed(t) \/ NextDynamic(t)
    \/ GuidedRead(t) \/ GuidedEstimate(t) \/ GuidedTake(t) \/ GuidedAdjust(t)
    \/ Body(t) \/ OrderedBegin(t) \/ Ordered(t) \/ EndOrdered(t)
    \/ SkipOrdered(t) \/ OrderedEnd(t)

LEMMA InnerEffect ==
    ASSUME Types, NEW t \in Threads, Inner(t)
    PROVE  /\ pc[t] \in Working \ {"free"}
           /\ \E label \in Working \cup {"abort"} : pc' = [pc EXCEPT ![t] = label]
           /\ UNCHANGED <<region, team_count, at, loop_count, loop>>
           /\ \A s \in 0 .. Slots - 1 : KeepsSlot(s)
<1>0. pc \in [Threads -> Label]
  BY DEF Types
<1>1. CASE NextFixed(t)
  <2>1. slots' = slots /\ pc[t] \in Working
    BY <1>1 DEF NextFixed, shared, Working
  <2>2. \A s \in 0 .. Slots - 1 : KeepsSlot(s)
    BY <2>1, QuietSlots
  <2> QED BY <1>1, <2>2 DEF NextFixed, Hand, Goto, Working, shared
<1>2. CASE NextDynamic(t)
  <2>1. /\ slots' = [slots EXCEPT ![loop[t]].current = slots[loop[t]].current
                                    + slots[loop[t]].inc * slots[loop[t]].chunk]
        /\ pc[t] \in Working
    BY <1>2 DEF NextDynamic, Working
  <2>2. \A s \in 0 .. Slots - 1 : KeepsSlot(s)
    BY <2>1, QuietSlots
  <2> QED BY <1>2, <2>2 DEF NextDynamic, Hand, Goto, Working
<1>3. CASE GuidedRead(t)
  <2>1. slots' = slots /\ pc[t] \in Working
    BY <1>3 DEF GuidedRead, shared, Working
  <2>2. \A s \in 0 .. Slots - 1 : KeepsSlot(s)
    BY <2>1, QuietSlots
  <2> QED BY <1>3, <2>2 DEF GuidedRead, Goto, Working, shared
<1>4. CASE GuidedEstimate(t)
  <2>1. slots' = slots /\ pc[t] \in Working
    BY <1>4 DEF GuidedEstimate, shared, Working
  <2>2. \A s \in 0 .. Slots - 1 : KeepsSlot(s)
    BY <2>1, QuietSlots
  <2> QED BY <1>4, <2>2 DEF GuidedEstimate, Goto, Working, shared
<1>5. CASE GuidedTake(t)
  <2>1. /\ slots' = [slots EXCEPT ![loop[t]].current = slots[loop[t]].current + guess[t].stride]
        /\ pc[t] \in Working
    BY <1>5 DEF GuidedTake, Working
  <2>2. \A s \in 0 .. Slots - 1 : KeepsSlot(s)
    BY <2>1, QuietSlots
  <2> QED BY <1>5, <2>2 DEF GuidedTake, Goto, Working
<1>6. CASE GuidedAdjust(t)
  <2>1. PICK x : \/ slots' = slots
                 \/ slots' = [slots EXCEPT ![loop[t]].chunk = x]
    BY <1>6 DEF GuidedAdjust
  <2>2. pc[t] \in Working
    BY <1>6 DEF GuidedAdjust, Working
  <2>3. \A s \in 0 .. Slots - 1 : KeepsSlot(s)
    BY <2>1, <2>2, QuietSlots
  <2> QED BY <1>6, <2>3 DEF GuidedAdjust, Hand, Goto, Working
<1>7. CASE Body(t)
  <2>1. slots' = slots /\ pc[t] \in Working
    BY <1>7 DEF Body, shared, Working
  <2>2. \A s \in 0 .. Slots - 1 : KeepsSlot(s)
    BY <2>1, QuietSlots
  <2> QED BY <1>7, <2>2 DEF Body, Goto, Working, shared
<1>8. CASE OrderedBegin(t)
  <2>1. slots' = slots /\ pc[t] \in Working
    BY <1>8 DEF OrderedBegin, shared, Working
  <2>2. \A s \in 0 .. Slots - 1 : KeepsSlot(s)
    BY <2>1, QuietSlots
  <2> QED BY <1>8, <2>2 DEF OrderedBegin, Goto, Working, shared
<1>9. CASE Ordered(t)
  <2>1. slots' = slots /\ pc[t] \in Working
    BY <1>9 DEF Ordered, shared, Working
  <2>2. \A s \in 0 .. Slots - 1 : KeepsSlot(s)
    BY <2>1, QuietSlots
  <2> QED BY <1>9, <2>2 DEF Ordered, Goto, Working, shared, locals
<1>10. CASE EndOrdered(t)
  <2>1. PICK x : \/ slots' = slots
                 \/ slots' = [slots EXCEPT ![loop[t]].now_serving = x]
    BY <1>10 DEF EndOrdered
  <2>2. pc[t] \in Working
    BY <1>10 DEF EndOrdered, Working
  <2>3. \A s \in 0 .. Slots - 1 : KeepsSlot(s)
    BY <2>1, <2>2, QuietSlots
  <2> QED BY <1>10, <2>3 DEF EndOrdered, Goto, Working
<1>11. CASE SkipOrdered(t)
  <2>1. slots' = slots /\ pc[t] \in Working
    BY <1>11 DEF SkipOrdered, shared, Working
  <2>2. \A s \in 0 .. Slots - 1 : KeepsSlot(s)
    BY <2>1, QuietSlots
  <2>3. pc[t] = "iterate" /\ pc' = pc
    BY <1>11 DEF SkipOrdered
  <2>4. pc' = [pc EXCEPT ![t] = "iterate"]
    BY <2>3, <1>0
  <2> QED BY <1>11, <2>2, <2>3, <2>4 DEF SkipOrdered, Working, shared
<1>12. CASE OrderedEnd(t)
  <2>1. slots' = slots /\ pc[t] \in Working
    BY <1>12 DEF OrderedEnd, shared, Working
  <2>2. \A s \in 0 .. Slots - 1 : KeepsSlot(s)
    BY <2>1, QuietSlots
  <2> QED BY <1>12, <2>2 DEF OrderedEnd, Goto, Working, shared, locals
<1> QED BY <1>1, <1>2, <1>3, <1>4, <1>5, <1>6, <1>7, <1>8, <1>9, <1>10, <1>11, <1>12
        DEF Inner

\* A thread that takes a step is a thread of the team.
LEMMA OnlyActive ==
    ASSUME Types, NEW t \in Threads, Step(t)
    PROVE  t \in Active
<1>1. pc[t] # "absent"
  BY DEF Step, Alloc, Fill, Publish, Attach, NextFixed, NextDynamic, GuidedRead,
         GuidedEstimate, GuidedTake, GuidedAdjust, Body, OrderedBegin, Ordered,
         EndOrdered, SkipOrdered, OrderedEnd, FreeCount, FreeWhen, FreeLast, EndLoop
<1> QED BY <1>1 DEF Types

LEMMA RingStep == ASSUME Types, RingRight, [Next]_vars PROVE RingRight'
<1>1. PICK b \in Nat, p \in Nat, q \in Nat : RingInv(b, p, q)
  BY DEF RingRight
<1>2. CASE NewRegion
  <2>1. PICK b1 \in Nat : RingInv(b1, 0, 0)'
    BY <1>1, <1>2, NewRegionRing
  <2> QED BY <2>1 DEF RingRight
<1>3. ASSUME NEW t \in Threads, Step(t) PROVE RingRight'
  <2>1. t \in Active
    BY <1>3, OnlyActive
  <2>2. PICK k \in Nat, s \in Int : k = at[t] /\ s = loop[t]
    <3>1. at[t] \in Nat /\ loop[t] \in Int
      BY LoopFacts DEF Types
    <3> QED BY <3>1
  <2>3. CASE Alloc(t)
    BY <2>1, <2>3, <1>1, AllocRing DEF RingRight
  <2>4. CASE Fill(t)
    BY <2>1, <2>4, <1>1, FillRing DEF RingRight
  <2>5. CASE Publish(t)
    BY <2>1, <2>5, <1>1, PublishRing DEF RingRight
  <2>6. CASE Attach(t)
    BY <2>1, <2>6, <1>1, AttachRing DEF RingRight
  <2>7. CASE FreeCount(t)
    BY <2>1, <2>2, <2>7, <1>1, FreeCountRing DEF RingRight
  <2>8. CASE FreeLast(t)
    BY <2>1, <2>2, <2>8, <1>1, FreeLastRing DEF RingRight
  <2>9. CASE EndLoop(t)
    BY <2>1, <2>9, <1>1, EndLoopRing DEF RingRight
  <2>10. CASE Inner(t)
    <3>1. /\ pc[t] \in Working
          /\ \E label \in Working \cup {"abort"} : pc' = [pc EXCEPT ![t] = label]
          /\ UNCHANGED <<region, team_count, at, loop_count, loop>>
          /\ \A r \in 0 .. Slots - 1 : KeepsSlot(r)
      BY <1>3, <2>10, InnerEffect
    <3>2. RingInv(b, p, q)'
      BY <1>1, <2>1, <3>1, QuietRing
    <3> QED BY <3>2 DEF RingRight
  <2> QED BY <1>3, <2>3, <2>4, <2>5, <2>6, <2>7, <2>8, <2>9, <2>10 DEF Step, Inner
<1>4. CASE UNCHANGED vars
  <2>1. UNCHANGED <<region, team_count, slots, pc, at, loop_count, loop>>
    BY <1>4 DEF vars, shared, locals
  <2>2. /\ Active' = Active /\ Ring' = Ring /\ Len(program)' = Len(program) /\ N' = N
        /\ Orphan' = Orphan /\ \A k : Place(b, k)' = Place(b, k) /\ Id(b, k)' = Id(b, k)
    BY <2>1, RegionFrame DEF Id, IdRange
  <2>3. \A u : /\ Counted(u)' = Counted(u) /\ Entered(u)' = Entered(u)
               /\ Left(u)' = Left(u) /\ Released(u)' = Released(u)
    BY <2>1 DEF Counted, Entered, Left, Released
  <2>4. \A k : Staying(k)' = Staying(k)
    BY <2>2, <2>3 DEF Staying
  <2>5. \A u : /\ CountRight(u, b, p, q)' <=> CountRight(u, b, p, q)
               /\ FillRight(u, b, p, q)' <=> FillRight(u, b, p, q)
               /\ UnuseRight(u)' <=> UnuseRight(u)
    BY <2>1, <2>2, <2>3 DEF CountRight, FillRight, UnuseRight
  <2>6. \A k : Holds(b, k)' <=> Holds(b, k)
    BY <2>1, <2>2, <2>3, <2>4 DEF Holds
  <2>7. \A s : Belongs(b, q, s)' <=> Belongs(b, q, s)
    BY <2>1, <2>2, <2>3 DEF Belongs
  <2>8. RingInv(b, p, q)'
    BY <1>1, <2>1, <2>2, <2>5, <2>6, <2>7 DEF RingInv
  <2> QED BY <2>8 DEF RingRight
<1> QED BY <1>2, <1>3, <1>4 DEF Next

LEMMA RingImplies ==
    ASSUME Types, RingRight
    PROVE  InRightLoop
<1>1. PICK b \in Nat, p \in Nat, q \in Nat : RingInv(b, p, q)
  BY DEF RingRight
<1> SUFFICES ASSUME NEW t \in Threads, loop[t] # NoLoop
             PROVE  slots[loop[t]].number = at[t]
  BY DEF InRightLoop
<1>2. pc[t] \in Working \cup {"unuse", "abort"}
  BY DEF Types
<1>3. t \in Active
  BY <1>2 DEF Types, Working
<1> QED BY <1>1, <1>2, <1>3, InLoop

\* __pmp_loop_alloc and __pmp_loop_free: a thread never works with the
\* descriptor of another loop, however far the threads of the team are apart
\* and wherever their counters wrap around.
THEOREM InRightLoopTheorem == Spec => []InRightLoop
<1>1. Init => Types /\ RingRight
  BY TypesInit, InitRing
<1>2. Types /\ RingRight /\ [Next]_vars => (Types /\ RingRight)'
  BY TypesStep, RingStep
<1>3. Types /\ RingRight => InRightLoop
  BY RingImplies
<1> QED BY <1>1, <1>2, <1>3, PTL DEF Spec

(***************************************************************************)
(* The ranges of the threads that are in the same loop                     *)
(***************************************************************************)
\* Thread t has fetched a range and has not fetched the next one.
Holding == {"adjust", "body", "iterate", "inside"}

\* The range is not empty; a static one is in the share of the thread, and
\* current is beyond one that has been taken from it.
RangeRight(t) ==
    pc[t] \in Holding =>
        LET l == slots[loop[t]]
            own == StaticShare(l, region.static_fair, N, t)
        IN /\ Within(l.inc, range[t].lower, range[t].upper)
           /\ l.sched \in {"STATIC", "STATIC_EVEN"} =>
                /\ Within(l.inc, own.lower, range[t].lower)
                /\ Within(l.inc, range[t].upper, own.upper)
           /\ l.sched \in {"DYNAMIC", "GUIDED"} =>
                Before(l.inc, range[t].upper, l.current)

\* A thread that takes a chunk in several steps is in a guided loop, and the
\* stride leads forward.
StrideRight(t) ==
    LET l == slots[loop[t]]
    IN /\ pc[t] \in {"estimate", "take"} => l.sched = "GUIDED"
       /\ pc[t] = "take" => Within(l.inc, l.inc, guess[t].stride)

\* The ticket of a thread is in its range, and not beyond its iteration; in
\* an ordered region it is the turn of the thread.
TicketRight(t) ==
    LET l == slots[loop[t]]
    IN /\ pc[t] = "body" => ticket_number[t] = range[t].lower
       /\ pc[t] \in {"iterate", "inside"} =>
            /\ Within(l.inc, range[t].lower, ticket_number[t])
            /\ Within(l.inc, ticket_number[t], index[t])
       /\ pc[t] = "inside" =>
            /\ Within(l.inc, index[t], range[t].upper)
            /\ l.now_serving = ticket_number[t]

Apart(t, u) ==
    pc[t] \in Holding /\ pc[u] \in Holding /\ loop[t] = loop[u] =>
        \/ Before(slots[loop[t]].inc, range[t].upper, range[u].lower)
        \/ Before(slots[loop[t]].inc, range[u].upper, range[t].lower)

RangesRight ==
    N > 1 => /\ \A t \in Active : RangeRight(t) /\ StrideRight(t) /\ TicketRight(t)
             /\ \A t, u \in Active : t # u => Apart(t, u)

(***************************************************************************)
(* A chunk of a dynamic or guided schedule                                 *)
(***************************************************************************)
\* A chunk at current is not empty, and current moves beyond it.
LEMMA ChunkAtRight ==
    ASSUME NEW l \in SlotRecord, NEW current \in Int, NEW stride \in Int,
           Within(l.inc, l.inc, stride)
    PROVE  /\ Before(l.inc, current, current + stride)
           /\ ChunkAt(l, current, stride).lower = current
           /\ Before(l.inc, ChunkAt(l, current, stride).upper, current + stride)
           /\ ChunkAt(l, current, stride).more =>
                Within(l.inc, current, ChunkAt(l, current, stride).upper)
<1> DEFINE reply == ChunkAt(l, current, stride)
<1>1. l.inc \in Int \ {0} /\ l.upper \in Int
  BY DEF SlotRecord
<1>2. /\ reply.lower = current
      /\ reply.upper = LoopMin(l.inc, l.upper, current + stride - l.inc)
      /\ reply.more = Within(l.inc, current, l.upper)
  BY DEF ChunkAt, Reply
<1> DEFINE inc == l.inc
           up == l.upper
           low == reply.lower
           top == reply.upper
<1>3. /\ inc \in Int \ {0} /\ up \in Int /\ Within(inc, inc, stride)
      /\ top = LoopMin(inc, up, current + stride - inc)
      /\ reply.more = Within(inc, current, up)
  BY <1>1, <1>2
<1> HIDE DEF inc, up, low, top, reply
<1>4. Before(inc, current, current + stride)
  BY <1>3 DEF Within, Before
<1>5. Before(inc, top, current + stride)
  BY <1>3 DEF Within, Before, LoopMin, MinOf, MaxOf
<1>6. reply.more => Within(inc, current, top)
  <2> HAVE reply.more
  <2>1. Within(inc, current, up)
    BY <1>3
  <2> QED BY <2>1, <1>3 DEF Within, LoopMin, MinOf, MaxOf
<1> QED BY <1>2, <1>4, <1>5, <1>6 DEF inc, top, reply

(***************************************************************************)
(* What the step of a thread leaves alone                                  *)
(***************************************************************************)
\* The threads in the loop of slot s see the same loop, and current does not
\* move back.
Kept(s) ==
    /\ slots'[s].sched = slots[s].sched
    /\ slots'[s].inc = slots[s].inc
    /\ slots'[s].lower = slots[s].lower
    /\ slots'[s].upper = slots[s].upper
    /\ Within(slots[s].inc, slots[s].current, slots'[s].current)

Serves(s) == slots'[s].now_serving = slots[s].now_serving

\* Thread u does nothing.
Same(u) ==
    /\ pc'[u] = pc[u]
    /\ loop'[u] = loop[u]
    /\ range'[u] = range[u]
    /\ guess'[u] = guess[u]
    /\ ticket_number'[u] = ticket_number[u]
    /\ index'[u] = index[u]

LEMMA RangeTypes ==
    ASSUME Types, NEW t \in Active, pc[t] \in Working
    PROVE  /\ slots[loop[t]] \in SlotRecord
           /\ slots[loop[t]].inc \in Int \ {0} /\ slots[loop[t]].current \in Int
           /\ slots[loop[t]].now_serving \in Int
           /\ range[t].lower \in Int /\ range[t].upper \in Int
           /\ ticket_number[t] \in Int /\ index[t] \in Int
           /\ guess[t].stride \in Int
<1>1. t \in Threads
  BY ThreadFacts
<1>2. slots[loop[t]] \in SlotRecord
  BY <1>1, MyLoop
<1>3. range[t] \in [lower : Int, upper : Int] /\ guess[t] \in [chunk : Int, stride : Int]
  BY <1>1 DEF Types
<1>4. ticket_number[t] \in Int /\ index[t] \in Int
  BY <1>1 DEF Types
<1> QED BY <1>2, <1>3, <1>4 DEF SlotRecord

LEMMA OthersRange ==
    ASSUME Types, Types', UNCHANGED region, NEW u \in Active, Same(u),
           pc[u] \in Working => Kept(loop[u]) /\ (pc[u] = "inside" => Serves(loop[u])),
           RangeRight(u), StrideRight(u), TicketRight(u)
    PROVE  RangeRight(u)' /\ StrideRight(u)' /\ TicketRight(u)'
<1>1. CASE pc[u] \notin Working
  BY <1>1 DEF Same, RangeRight, StrideRight, TicketRight, Working, Holding
<1>2. CASE pc[u] \in Working
  <2> DEFINE l == slots[loop[u]]
             m == slots'[loop[u]]
             own == StaticShare(l, region.static_fair, N, u)
             r == range[u]
  <2>1. /\ l.inc \in Int \ {0} /\ l.current \in Int /\ r.upper \in Int
    BY <1>2, RangeTypes
  <2>2. m \in SlotRecord
    <3>1. loop[u] \in 0 .. Slots - 1
      BY <1>2, ThreadFacts, MyLoop
    <3>2. slots' \in [0 .. Slots - 1 -> SlotRecord]
      BY DEF Types
    <3> QED BY <3>1, <3>2
  <2>3. m.current \in Int
    BY <2>2 DEF SlotRecord
  <2>4. /\ m.sched = l.sched /\ m.inc = l.inc /\ m.lower = l.lower /\ m.upper = l.upper
        /\ Within(l.inc, l.current, m.current)
    BY <1>2 DEF Kept
  <2>5. StaticShare(m, region.static_fair, N, u) = own
    BY <2>4, ShareSame
  <2>6. /\ pc'[u] = pc[u] /\ loop'[u] = loop[u] /\ range'[u] = r /\ guess'[u] = guess[u]
        /\ ticket_number'[u] = ticket_number[u] /\ index'[u] = index[u]
    BY DEF Same
  <2>7. slots[loop[u]]' = m /\ N' = N /\ region' = region
    BY <2>6, RegionFrame
  <2>8. StaticShare(l, region.static_fair, N, u)' = own
    BY <2>5, <2>7
  <2>9. pc[u] = "inside" => m.now_serving = l.now_serving
    BY <1>2 DEF Serves
  <2>10. ASSUME pc[u] \in Holding PROVE
           /\ Within(l.inc, r.lower, r.upper)
           /\ l.sched \in {"STATIC", "STATIC_EVEN"} =>
                /\ Within(l.inc, own.lower, r.lower)
                /\ Within(l.inc, r.upper, own.upper)
           /\ l.sched \in {"DYNAMIC", "GUIDED"} => Before(l.inc, r.upper, l.current)
    BY <2>10 DEF RangeRight
  <2> HIDE DEF l, m, own, r
  <2>11. ASSUME Before(l.inc, r.upper, l.current) PROVE Before(l.inc, r.upper, m.current)
    BY <2>1, <2>3, <2>4, <2>11, WithinFacts
  <2>12. RangeRight(u)'
    <3> SUFFICES ASSUME pc[u] \in Holding PROVE
           /\ Within(m.inc, r.lower, r.upper)
           /\ m.sched \in {"STATIC", "STATIC_EVEN"} =>
                /\ Within(m.inc, own.lower, r.lower)
                /\ Within(m.inc, r.upper, own.upper)
           /\ m.sched \in {"DYNAMIC", "GUIDED"} => Before(m.inc, r.upper, m.current)
      BY <2>6, <2>7, <2>8 DEF RangeRight, l
    <3> QED BY <2>4, <2>10, <2>11
  <2>13. StrideRight(u)'
    BY <2>4, <2>6, <2>7 DEF StrideRight, l
  <2>14. TicketRight(u)'
    BY <2>4, <2>6, <2>7, <2>9 DEF TicketRight, l, r
  <2> QED BY <2>12, <2>13, <2>14
<1> QED BY <1>1, <1>2

LEMMA OthersApart ==
    ASSUME NEW u \in Active, NEW v \in Active, Same(u), Same(v),
           pc[u] \in Working => Kept(loop[u]), Apart(u, v)
    PROVE  Apart(u, v)'
BY DEF Same, Kept, Apart, Holding, Working

\* Only thread t does something, and the loops of the others are kept.
Alone(t) ==
    /\ UNCHANGED region
    /\ \A u \in Active : u # t =>
        /\ Same(u)
        /\ pc[u] \in Working => Kept(loop[u]) /\ (pc[u] = "inside" => Serves(loop[u]))

LEMMA RangesFrame ==
    ASSUME Types, Types', RangesRight, N > 1, NEW t \in Active, Alone(t),
           RangeRight(t)', StrideRight(t)', TicketRight(t)',
           \A u \in Active : u # t => Apart(t, u)'
    PROVE  RangesRight'
<1>1. Active' = Active /\ N' = N
  BY RegionFrame DEF Alone
<1>2. ASSUME NEW u \in Active PROVE RangeRight(u)' /\ StrideRight(u)' /\ TicketRight(u)'
  <2>1. CASE u = t
    BY <2>1
  <2>2. CASE u # t
    <3>1. RangeRight(u) /\ StrideRight(u) /\ TicketRight(u)
      BY DEF RangesRight
    <3>2. /\ UNCHANGED region /\ Same(u)
          /\ pc[u] \in Working => Kept(loop[u]) /\ (pc[u] = "inside" => Serves(loop[u]))
      BY <2>2 DEF Alone
    <3> QED BY <3>1, <3>2, OthersRange
  <2> QED BY <2>1, <2>2
<1>3. ASSUME NEW u \in Active, NEW v \in Active, u # v PROVE Apart(u, v)'
  <2>1. CASE u = t
    BY <1>3, <2>1
  <2>2. CASE v = t
    <3>1. Apart(t, u)'
      BY <1>3, <2>2
    <3>2. Apart(u, t)'
      BY <3>1 DEF Apart
    <3> QED BY <3>2, <2>2
  <2>3. CASE u # t /\ v # t
    <3>1. Apart(u, v)
      BY <1>3 DEF RangesRight
    <3>2. Same(u) /\ Same(v) /\ (pc[u] \in Working => Kept(loop[u]))
      BY <2>3 DEF Alone
    <3> QED BY <3>1, <3>2, OthersApart
  <2> QED BY <2>1, <2>2, <2>3
<1> QED BY <1>1, <1>2, <1>3 DEF RangesRight

\* A thread that holds no range and is about to take none.
LEMMA QuietRanges ==
    ASSUME Types, Types', RangesRight, NEW t \in Active, N > 1 => Alone(t),
           UNCHANGED region, pc'[t] \notin Holding \cup {"estimate", "take"}
    PROVE  RangesRight'
<1>1. CASE ~(N > 1)
  BY <1>1, RegionFrame DEF RangesRight
<1>2. CASE N > 1
  <2>1. RangeRight(t)' /\ StrideRight(t)' /\ TicketRight(t)'
    BY DEF RangeRight, StrideRight, TicketRight, Holding
  <2>2. \A u \in Active : u # t => Apart(t, u)'
    BY DEF Apart
  <2> QED BY <1>2, <2>1, <2>2, RangesFrame
<1> QED BY <1>1, <1>2

LEMMA KeptSlots ==
    ASSUME Types, NEW s \in 0 .. Slots - 1, NEW v \in 0 .. Slots - 1, NEW x,
           \/ slots' = slots
           \/ slots' = [slots EXCEPT ![s].loop_id = x]
           \/ slots' = [slots EXCEPT ![s].looping_threads = x]
           \/ slots' = [slots EXCEPT ![s].chunk = x]
           \/ slots' = [slots EXCEPT ![s].now_serving = x]
           \/ /\ slots' = [slots EXCEPT ![s].current = x]
              /\ Within(slots[s].inc, slots[s].current, x)
    PROVE  /\ Kept(v)
           /\ v # s => Serves(v)
<1> DEFINE r == slots[v]
           r1 == slots'[v]
<1>1. slots \in [0 .. Slots - 1 -> SlotRecord] /\ r \in SlotRecord
  BY DEF Types
<1>2. r.inc \in Int \ {0} /\ r.current \in Int
  BY <1>1 DEF SlotRecord
<1>3. Within(r.inc, r.current, r.current)
  BY <1>2, WithinSelf
<1>4. CASE v # s
  <2>1. r1 = r
    BY <1>1, <1>4
  <2> QED BY <2>1, <1>3 DEF Kept, Serves
<1>5. CASE v = s
  <2>1. \/ r1 = r
        \/ r1 = [r EXCEPT !.loop_id = x]
        \/ r1 = [r EXCEPT !.looping_threads = x]
        \/ r1 = [r EXCEPT !.chunk = x]
        \/ r1 = [r EXCEPT !.now_serving = x]
        \/ r1 = [r EXCEPT !.current = x] /\ Within(r.inc, r.current, x)
    BY <1>1, <1>5
  <2> HIDE DEF r, r1
  <2>2. r1.sched = r.sched /\ r1.inc = r.inc /\ r1.lower = r.lower /\ r1.upper = r.upper
    BY <1>1, <2>1 DEF SlotRecord
  <2>3. Within(r.inc, r.current, r1.current)
    <3>1. r1.current = r.current \/ (r1.current = x /\ Within(r.inc, r.current, x))
      BY <1>1, <2>1 DEF SlotRecord
    <3> QED BY <3>1, <1>3
  <2> QED BY <1>5, <2>2, <2>3 DEF Kept, r, r1
<1> QED BY <1>4, <1>5

\* Only __ompc_end_ordered passes the turn on.
LEMMA ServesCurrent ==
    ASSUME Types, NEW s \in 0 .. Slots - 1, NEW v \in 0 .. Slots - 1, NEW x,
           \/ slots' = [slots EXCEPT ![s].loop_id = x]
           \/ slots' = [slots EXCEPT ![s].looping_threads = x]
           \/ slots' = [slots EXCEPT ![s].chunk = x]
           \/ slots' = [slots EXCEPT ![s].current = x]
    PROVE  Serves(v)
<1> DEFINE r == slots[v]
           r1 == slots'[v]
<1>1. slots \in [0 .. Slots - 1 -> SlotRecord] /\ r \in SlotRecord
  BY DEF Types
<1>2. \/ r1 = r
      \/ r1 = [r EXCEPT !.loop_id = x]
      \/ r1 = [r EXCEPT !.looping_threads = x]
      \/ r1 = [r EXCEPT !.chunk = x]
      \/ r1 = [r EXCEPT !.current = x]
  BY <1>1
<1> HIDE DEF r, r1
<1>3. r1.now_serving = r.now_serving
  BY <1>1, <1>2 DEF SlotRecord
<1> QED BY <1>3 DEF Serves, r, r1

LEMMA OthersSame ==
    ASSUME Types, NEW t \in Threads, Step(t), NEW u \in Threads, u # t
    PROVE  Same(u)
<1>1. /\ pc \in [Threads -> Label] /\ loop \in [Threads -> Int]
      /\ range \in [Threads -> [lower : Int, upper : Int]]
      /\ guess \in [Threads -> [chunk : Int, stride : Int]]
      /\ ticket_number \in [Threads -> Int] /\ index \in [Threads -> Int]
  BY DEF Types
<1>2. CASE Alloc(t)
  BY <1>1, <1>2 DEF Alloc, Goto, Same
<1>3. CASE Fill(t)
  BY <1>1, <1>3 DEF Fill, Goto, Same, locals
<1>4. CASE Publish(t)
  BY <1>1, <1>4 DEF Publish, Enter, Goto, Same
<1>5. CASE Attach(t)
  BY <1>1, <1>5 DEF Attach, Enter, Goto, Same
<1>6. CASE NextFixed(t)
  BY <1>1, <1>6 DEF NextFixed, Hand, Goto, Same
<1>7. CASE NextDynamic(t)
  BY <1>1, <1>7 DEF NextDynamic, Hand, Goto, Same
<1>8. CASE GuidedRead(t)
  BY <1>1, <1>8 DEF GuidedRead, Goto, Same
<1>9. CASE GuidedEstimate(t)
  BY <1>1, <1>9 DEF GuidedEstimate, Goto, Same
<1>10. CASE GuidedTake(t)
  BY <1>1, <1>10 DEF GuidedTake, Goto, Same
<1>11. CASE GuidedAdjust(t)
  BY <1>1, <1>11 DEF GuidedAdjust, Hand, Goto, Same
<1>12. CASE Body(t)
  BY <1>1, <1>12 DEF Body, Goto, Same
<1>13. CASE OrderedBegin(t)
  BY <1>1, <1>13 DEF OrderedBegin, Goto, Same
<1>14. CASE Ordered(t)
  BY <1>1, <1>14 DEF Ordered, Goto, Same, locals
<1>15. CASE EndOrdered(t)
  BY <1>1, <1>15 DEF EndOrdered, Goto, Same
<1>16. CASE SkipOrdered(t)
  BY <1>1, <1>16 DEF SkipOrdered, Same
<1>17. CASE OrderedEnd(t)
  BY <1>1, <1>17 DEF OrderedEnd, Goto, Same, locals
<1>18. CASE FreeCount(t)
  BY <1>1, <1>18 DEF FreeCount, FreeWhen, Leave, Goto, Same
<1>19. CASE FreeLast(t)
  BY <1>1, <1>19 DEF FreeLast, Leave, Goto, Same
<1>20. CASE EndLoop(t)
  BY <1>1, <1>20 DEF EndLoop, Forget, Goto, Same
<1> QED BY <1>2, <1>3, <1>4, <1>5, <1>6, <1>7, <1>8, <1>9, <1>10, <1>11, <1>12, <1>13,
           <1>14, <1>15, <1>16, <1>17, <1>18, <1>19, <1>20 DEF Step

\* The loops in use are kept by every step.
LEMMA StepKeeps ==
    ASSUME Types, N > 1, RangesRight, NEW t \in Active, Step(t),
           NEW v \in 0 .. Slots - 1, slots[v].loop_id # Unused
    PROVE  Kept(v) /\ ((EndOrdered(t) /\ v = loop[t]) \/ Serves(v))
<1>0. t \in Threads
  BY ThreadFacts
<1>1. slots' = slots => Kept(v) /\ Serves(v)
  <2> HAVE slots' = slots
  <2>1. slots[v] \in SlotRecord
    BY DEF Types
  <2>2. slots[v].inc \in Int \ {0} /\ slots[v].current \in Int
    BY <2>1 DEF SlotRecord
  <2>3. Within(slots[v].inc, slots[v].current, slots[v].current)
    BY <2>2, WithinSelf
  <2> QED BY <2>3 DEF Kept, Serves
<1>2. CASE Alloc(t) \/ Attach(t) \/ NextFixed(t) \/ GuidedRead(t) \/ GuidedEstimate(t)
  <2>1. slots' = slots
    BY <1>2 DEF Alloc, Attach, NextFixed, GuidedRead, GuidedEstimate, shared
  <2> QED BY <1>1, <2>1
<1>3. CASE Body(t) \/ OrderedBegin(t) \/ Ordered(t) \/ SkipOrdered(t) \/ OrderedEnd(t) \/ EndLoop(t)
  <2>1. slots' = slots
    BY <1>3 DEF Body, OrderedBegin, Ordered, SkipOrdered, OrderedEnd, EndLoop, shared
  <2> QED BY <1>1, <2>1
<1>4. CASE Fill(t)
  <2>1. slots[MySlot(t)].loop_id = Unused
    BY <1>4 DEF Fill
  <2>2. v # MySlot(t)
    BY <2>1
  <2>3. slots \in [0 .. Slots - 1 -> SlotRecord]
    BY DEF Types
  <2>4. PICK x : slots' = [slots EXCEPT ![MySlot(t)] = x]
    BY <1>4 DEF Fill, FillSlot
  <2>5. slots'[v] = slots[v]
    BY <2>2, <2>3, <2>4
  <2>6. slots[v] \in SlotRecord
    BY <2>3
  <2>7. slots[v].inc \in Int \ {0} /\ slots[v].current \in Int
    BY <2>6 DEF SlotRecord
  <2>8. Within(slots[v].inc, slots[v].current, slots[v].current)
    BY <2>7, WithinSelf
  <2> QED BY <2>5, <2>8 DEF Kept, Serves
<1>5. CASE Publish(t)
  <2>1. MySlot(t) \in 0 .. Slots - 1
    BY <1>0, MySlotType
  <2>2. slots' = slots \/ slots' = [slots EXCEPT ![MySlot(t)].loop_id = MyId(t)]
    BY <1>5 DEF Publish
  <2>3. CASE slots' = slots
    BY <1>1, <2>3
  <2>4. CASE slots' = [slots EXCEPT ![MySlot(t)].loop_id = MyId(t)]
    <3>1. v # MySlot(t) \/ slots[MySlot(t)].loop_id # Unused
      OBVIOUS
    <3>2. v # MySlot(t) \/ slots' = slots
      BY <1>5, <3>1 DEF Publish
    <3>3. Kept(v) /\ (v # MySlot(t) => Serves(v))
      BY <2>1, <2>4, KeptSlots
    <3> QED BY <3>2, <3>3, <1>1
  <2> QED BY <2>2, <2>3, <2>4
<1>6. ASSUME pc[t] \in Working \cup {"unuse"} PROVE
        /\ loop[t] \in 0 .. Slots - 1 /\ slots[loop[t]] \in SlotRecord
        /\ slots[loop[t]].inc \in Int \ {0} /\ slots[loop[t]].current \in Int
  <2>1. loop[t] \in 0 .. Slots - 1 /\ slots[loop[t]] \in SlotRecord
    BY <1>0, <1>6, MyLoop
  <2> QED BY <2>1 DEF SlotRecord
<1>7. CASE NextDynamic(t)
  <2> DEFINE l == slots[loop[t]]
             x == l.current + l.inc * l.chunk
  <2>1. /\ pc[t] = "next" /\ slots' = [slots EXCEPT ![loop[t]].current = x]
    BY <1>7 DEF NextDynamic
  <2>2. loop[t] \in 0 .. Slots - 1 /\ l \in SlotRecord /\ l.inc \in Int \ {0} /\ l.current \in Int
    BY <2>1, <1>6 DEF Working
  <2>3. l.inc * l.chunk \in Int /\ Within(l.inc, l.inc, l.inc * l.chunk)
    BY <2>2, DynamicStride
  <2>4. Within(l.inc, l.current, x)
    BY <2>2, <2>3, Forward
  <2>5. Kept(v)
    BY <2>1, <2>2, <2>4, KeptSlots
  <2>6. Serves(v)
    BY <2>1, <2>2, ServesCurrent
  <2> QED BY <2>5, <2>6
<1>8. CASE GuidedTake(t)
  <2> DEFINE l == slots[loop[t]]
             x == l.current + guess[t].stride
  <2>1. /\ pc[t] = "take" /\ slots' = [slots EXCEPT ![loop[t]].current = x]
    BY <1>8 DEF GuidedTake
  <2>2. loop[t] \in 0 .. Slots - 1 /\ l \in SlotRecord /\ l.inc \in Int \ {0} /\ l.current \in Int
    BY <2>1, <1>6 DEF Working
  <2>3. guess[t].stride \in Int
    BY <2>1, RangeTypes DEF Working
  <2>4. Within(l.inc, l.inc, guess[t].stride)
    BY <2>1 DEF RangesRight, StrideRight
  <2>5. Within(l.inc, l.current, x)
    BY <2>2, <2>3, <2>4, Forward
  <2>6. Kept(v)
    BY <2>1, <2>2, <2>5, KeptSlots
  <2>7. Serves(v)
    BY <2>1, <2>2, ServesCurrent
  <2> QED BY <2>6, <2>7
<1>9. CASE GuidedAdjust(t)
  <2>1. pc[t] = "adjust"
    BY <1>9 DEF GuidedAdjust
  <2>2. PICK x : slots' = slots \/ slots' = [slots EXCEPT ![loop[t]].chunk = x]
    BY <1>9 DEF GuidedAdjust
  <2>3. loop[t] \in 0 .. Slots - 1
    BY <2>1, <1>6 DEF Working
  <2>4. Kept(v)
    BY <2>2, <2>3, KeptSlots
  <2>5. Serves(v)
    BY <2>2, <2>3, <1>1, ServesCurrent
  <2> QED BY <2>4, <2>5
<1>10. CASE EndOrdered(t)
  <2>1. pc[t] = "inside"
    BY <1>10 DEF EndOrdered
  <2>2. PICK x : slots' = slots \/ slots' = [slots EXCEPT ![loop[t]].now_serving = x]
    BY <1>10 DEF EndOrdered
  <2>3. loop[t] \in 0 .. Slots - 1
    BY <2>1, <1>6 DEF Working
  <2>4. Kept(v) /\ (v # loop[t] => Serves(v))
    BY <2>2, <2>3, KeptSlots
  <2> QED BY <1>10, <2>4
<1>11. CASE FreeCount(t)
  <2>1. pc[t] = "free"
    BY <1>11 DEF FreeCount, FreeWhen
  <2>2. PICK x : slots' = slots \/ slots' = [slots EXCEPT ![loop[t]].looping_threads = x]
    BY <1>11 DEF FreeCount, FreeWhen
  <2>3. loop[t] \in 0 .. Slots - 1
    BY <2>1, <1>6 DEF Working
  <2>4. Kept(v)
    BY <2>2, <2>3, KeptSlots
  <2>5. Serves(v)
    BY <2>2, <2>3, <1>1, ServesCurrent
  <2> QED BY <2>4, <2>5
<1>12. CASE FreeLast(t)
  <2>1. pc[t] = "unuse" /\ slots' = [slots EXCEPT ![loop[t]].loop_id = Unused]
    BY <1>12 DEF FreeLast
  <2>2. loop[t] \in 0 .. Slots - 1
    BY <2>1, <1>6
  <2>3. Kept(v)
    BY <2>1, <2>2, KeptSlots
  <2>4. Serves(v)
    BY <2>1, <2>2, ServesCurrent
  <2> QED BY <2>3, <2>4
<1> QED BY <1>2, <1>3, <1>4, <1>5, <1>7, <1>8, <1>9, <1>10, <1>11, <1>12 DEF Step

(***************************************************************************)
(* The ranges, step by step                                                *)
(***************************************************************************)
\* Two threads are never in the ordered regions of one loop.
LEMMA InsideAlone ==
    ASSUME Types, RangesRight, N > 1, NEW t \in Active, NEW u \in Active, t # u,
           pc[t] = "inside", pc[u] = "inside"
    PROVE  loop[t] # loop[u]
<1> SUFFICES ASSUME loop[t] = loop[u] PROVE FALSE
  OBVIOUS
<1> DEFINE inc == slots[loop[t]].inc
           turn == slots[loop[t]].now_serving
           a == range[t].lower
           b == range[t].upper
           c == range[u].lower
           d == range[u].upper
           i == index[t]
           j == index[u]
<1>1. /\ inc \in Int \ {0} /\ turn \in Int
      /\ a \in Int /\ b \in Int /\ c \in Int /\ d \in Int /\ i \in Int /\ j \in Int
  BY RangeTypes DEF Working
<1>2. TicketRight(t) /\ TicketRight(u) /\ Apart(t, u)
  BY DEF RangesRight
<1>3. Within(inc, a, turn) /\ Within(inc, turn, i) /\ Within(inc, i, b)
  BY <1>2 DEF TicketRight
<1>4. Within(inc, c, turn) /\ Within(inc, turn, j) /\ Within(inc, j, d)
  BY <1>2 DEF TicketRight
<1>5. Before(inc, b, c) \/ Before(inc, d, a)
  BY <1>2 DEF Apart, Holding
<1> HIDE DEF inc, turn, a, b, c, d, i, j
<1>6. CASE inc > 0
  BY <1>1, <1>3, <1>4, <1>5, <1>6 DEF Within, Before
<1>7. CASE inc < 0
  BY <1>1, <1>3, <1>4, <1>5, <1>7 DEF Within, Before
<1> QED BY <1>1, <1>6, <1>7

\* A slot that a thread is in is in use.
LEMMA InUse ==
    ASSUME Types, RingRight, NEW t \in Active, pc[t] \in Working
    PROVE  loop[t] \in 0 .. Slots - 1 /\ slots[loop[t]].loop_id # Unused
<1>1. PICK b \in Nat, p \in Nat, q \in Nat : RingInv(b, p, q)
  BY DEF RingRight
<1>2. at[t] \in 1 .. q /\ loop[t] = Place(b, at[t]) /\ slots[loop[t]].loop_id = Id(b, at[t])
  BY <1>1, InLoop
<1>3. region \in Regions /\ at[t] \in Nat
  BY <1>2 DEF Types
<1> QED BY <1>2, <1>3, PlaceFacts

LEMMA StepAlone ==
    ASSUME Types, RingRight, RangesRight, N > 1, NEW t \in Active, Step(t), UNCHANGED region
    PROVE  Alone(t)
<1> SUFFICES ASSUME NEW u \in Active, u # t
             PROVE  /\ Same(u)
                    /\ pc[u] \in Working => Kept(loop[u]) /\ (pc[u] = "inside" => Serves(loop[u]))
  BY DEF Alone
<1>1. t \in Threads /\ u \in Threads
  BY ThreadFacts
<1>2. Same(u)
  BY <1>1, OthersSame
<1>3. ASSUME pc[u] \in Working
      PROVE  Kept(loop[u]) /\ (pc[u] = "inside" => Serves(loop[u]))
  <2>1. loop[u] \in 0 .. Slots - 1 /\ slots[loop[u]].loop_id # Unused
    BY <1>3, InUse
  <2>2. Kept(loop[u]) /\ ((EndOrdered(t) /\ loop[u] = loop[t]) \/ Serves(loop[u]))
    BY <2>1, StepKeeps
  <2>3. EndOrdered(t) => pc[t] = "inside"
    BY DEF EndOrdered
  <2>4. EndOrdered(t) /\ pc[u] = "inside" => loop[u] # loop[t]
    BY <2>3, InsideAlone
  <2> QED BY <2>2, <2>4
<1> QED BY <1>2, <1>3

\* A thread that has been handed a range has its ticket at the start of it.
LEMMA HandRight ==
    ASSUME Types, NEW t \in Threads, NEW reply, Hand(t, reply)
    PROVE  \/ pc'[t] = "free"
           \/ /\ reply.more /\ pc'[t] = "body"
              /\ range'[t].lower = reply.lower /\ range'[t].upper = reply.upper
              /\ ticket_number'[t] = reply.lower
<1>1. /\ pc \in [Threads -> Label] /\ ticket_number \in [Threads -> Int]
      /\ range \in [Threads -> [lower : Int, upper : Int]]
  BY DEF Types
<1>2. CASE reply.more
  BY <1>1, <1>2 DEF Hand, Goto
<1>3. CASE ~reply.more
  BY <1>1, <1>3 DEF Hand, Goto
<1> QED BY <1>2, <1>3

LEMMA RangesNextFixed ==
    ASSUME Types, Types', RangesRight, N > 1, NEW t \in Active, Alone(t), NextFixed(t)
    PROVE  RangesRight'
<1> DEFINE l == slots[loop[t]]
           own(u) == StaticShare(l, region.static_fair, N, u)
           inc == l.inc
<1>1. t \in Threads /\ pc[t] = "next"
  BY ThreadFacts DEF NextFixed
<1>2. l \in SlotRecord /\ inc \in Int \ {0}
  BY <1>1, RangeTypes DEF Working
<1>3. iteration[t] \in Nat /\ t \in Nat /\ N \in Nat \ {0} /\ region.static_fair \in BOOLEAN
  BY <1>1, RegionFacts DEF Types, Active
<1>4. PICK reply : /\ l.sched \in {"STATIC", "STATIC_EVEN"}
                   /\ Hand(t, reply)
                   /\ reply.more => InShare(l, own(t), reply)
  <2>1. CASE l.sched = "STATIC"
    <3> DEFINE reply == NextStatic(l, N, t, iteration[t])
    <3>1. Hand(t, reply)
      BY <2>1 DEF NextFixed
    <3>2. own(t) = Block(l, N, t)
      BY <2>1 DEF StaticShare
    <3>3. reply.more => InShare(l, own(t), reply)
      BY <1>2, <1>3, <3>2, NextStaticShare
    <3> QED BY <2>1, <3>1, <3>3
  <2>2. CASE l.sched = "STATIC_EVEN"
    <3> DEFINE reply == NextStaticEven(l, region.static_fair, N, t, iteration[t])
    <3>1. Hand(t, reply)
      BY <2>2 DEF NextFixed
    <3>3. reply.more => InShare(l, own(t), reply)
      BY <1>2, <1>3, <2>2, NextStaticEvenShare
    <3> QED BY <2>2, <3>1, <3>3
  <2> QED BY <2>1, <2>2 DEF NextFixed
<1>5. CASE pc'[t] = "free"
  BY <1>5, QuietRanges DEF Alone, Holding
<1>6. CASE pc'[t] # "free"
  <2>1. /\ reply.more /\ pc'[t] = "body"
        /\ range'[t].lower = reply.lower /\ range'[t].upper = reply.upper
        /\ ticket_number'[t] = reply.lower
    BY <1>1, <1>4, <1>6, HandRight
  <2>2. /\ slots' = slots /\ loop' = loop /\ region' = region /\ N' = N
        /\ slots[loop[t]]' = l
    BY RegionFrame DEF NextFixed, shared
  <2>3. StaticShare(l, region.static_fair, N, t)' = own(t)
    BY <2>2
  <2>4. InShare(l, own(t), reply)
    BY <1>4, <2>1
  <2>5. RangeRight(t)'
    BY <1>4, <2>1, <2>2, <2>3, <2>4 DEF RangeRight, InShare
  <2>6. StrideRight(t)' /\ TicketRight(t)'
    BY <2>1 DEF StrideRight, TicketRight
  <2>7. ASSUME NEW u \in Active, u # t PROVE Apart(t, u)'
    <3>1. Same(u)
      BY <2>7 DEF Alone
    <3> SUFFICES ASSUME pc[u] \in Holding, loop[u] = loop[t]
                 PROVE  \/ Before(inc, reply.upper, range[u].lower)
                        \/ Before(inc, range[u].upper, reply.lower)
      BY <2>1, <2>2, <3>1 DEF Same, Apart
    <3>2. u \in Threads /\ u \in Nat
      BY <2>7, ThreadFacts, RegionFacts DEF Types, Active
    <3>3. RangeRight(u)
      BY DEF RangesRight
    <3>4. /\ Within(inc, range[u].lower, range[u].upper)
          /\ Within(inc, own(u).lower, range[u].lower)
          /\ Within(inc, range[u].upper, own(u).upper)
      BY <1>4, <3>3 DEF RangeRight
    <3>5. /\ Within(inc, own(t).lower, reply.lower)
          /\ Within(inc, reply.lower, reply.upper)
          /\ Within(inc, reply.upper, own(t).upper)
      BY <2>4 DEF InShare
    <3>6. own(t).lower \in Int /\ own(t).upper \in Int /\ own(u).lower \in Int /\ own(u).upper \in Int
      BY <1>2, <1>3, <3>2, StaticShareType
    <3>7. range[u].lower \in Int /\ range[u].upper \in Int
      BY RangeTypes DEF Holding, Working
    <3>8. reply.lower \in Int /\ reply.upper \in Int
      <4>1. range'[t] \in [lower : Int, upper : Int]
        BY <1>1 DEF Types
      <4> QED BY <4>1, <2>1
    <3>9. Within(inc, own(t).lower, own(t).upper)
      BY <1>2, <3>5, <3>6, <3>8, WithinChain
    <3>10. Within(inc, own(u).lower, own(u).upper)
      BY <1>2, <3>4, <3>6, <3>7, WithinChain
    <3>11. CASE t < u
      <4>1. Before(inc, own(t).upper, own(u).lower)
        BY <1>2, <1>3, <3>2, <3>9, <3>11, SharesApart
      <4> QED BY <1>2, <4>1, <3>4, <3>5, <3>6, <3>7, <3>8, BeforeChain
    <3>12. CASE u < t
      <4>1. Before(inc, own(u).upper, own(t).lower)
        BY <1>2, <1>3, <3>2, <3>10, <3>12, SharesApart
      <4> QED BY <1>2, <4>1, <3>4, <3>5, <3>6, <3>7, <3>8, BeforeChain
    <3> QED BY <2>7, <1>3, <3>2, <3>11, <3>12
  <2> QED BY <2>5, <2>6, <2>7, RangesFrame
<1> QED BY <1>5, <1>6

\* A thread takes a range at current, and the others are before it.
LEMMA RangesTaken ==
    ASSUME Types, Types', RangesRight, N > 1, NEW t \in Active, Alone(t),
           pc[t] \in Working, loop' = loop, slots[loop[t]].sched \in {"DYNAMIC", "GUIDED"},
           NEW stride \in Int, Within(slots[loop[t]].inc, slots[loop[t]].inc, stride),
           slots' = [slots EXCEPT ![loop[t]].current = @ + stride],
           ChunkAt(slots[loop[t]], slots[loop[t]].current, stride).more,
           range'[t].lower = ChunkAt(slots[loop[t]], slots[loop[t]].current, stride).lower,
           range'[t].upper = ChunkAt(slots[loop[t]], slots[loop[t]].current, stride).upper,
           pc'[t] \in {"adjust", "body"},
           pc'[t] = "body" => ticket_number'[t] = range'[t].lower
    PROVE  RangesRight'
<1> DEFINE l == slots[loop[t]]
           m == slots'[loop[t]]
           inc == l.inc
           cur == l.current
           top == ChunkAt(l, cur, stride).upper
<1>1. t \in Threads
  BY ThreadFacts
<1>2. l \in SlotRecord /\ inc \in Int \ {0} /\ cur \in Int /\ loop[t] \in 0 .. Slots - 1
  BY <1>1, RangeTypes, MyLoop
<1>3. /\ range'[t].lower = cur /\ range'[t].upper = top
      /\ Before(inc, cur, cur + stride)
      /\ Before(inc, top, cur + stride)
      /\ Within(inc, cur, top)
  BY <1>2, ChunkAtRight
<1>4. slots \in [0 .. Slots - 1 -> SlotRecord]
  BY DEF Types
<1>5. m = [l EXCEPT !.current = cur + stride]
  BY <1>2, <1>4
<1>6. m.inc = inc /\ m.sched = l.sched /\ m.current = cur + stride
  BY <1>2, <1>5 DEF SlotRecord
<1>7. slots[loop[t]]' = m
  OBVIOUS
<1> HIDE DEF l, m, top
<1>8. RangeRight(t)'
  BY <1>3, <1>6, <1>7 DEF RangeRight, l
<1>9. StrideRight(t)' /\ TicketRight(t)'
  BY DEF StrideRight, TicketRight
<1>10. ASSUME NEW u \in Active, u # t PROVE Apart(t, u)'
  <2>1. Same(u)
    BY <1>10 DEF Alone
  <2> SUFFICES ASSUME pc[u] \in Holding, loop[u] = loop[t]
               PROVE  Before(inc, range[u].upper, cur)
    BY <1>3, <1>6, <1>7, <2>1 DEF Same, Apart, l
  <2>2. RangeRight(u)
    BY DEF RangesRight
  <2> QED BY <2>2 DEF RangeRight, l
<1> QED BY <1>8, <1>9, <1>10, RangesFrame

LEMMA RangesNextDynamic ==
    ASSUME Types, Types', RangesRight, N > 1, NEW t \in Active, Alone(t), NextDynamic(t)
    PROVE  RangesRight'
<1> DEFINE l == slots[loop[t]]
           stride == l.inc * l.chunk
           reply == ChunkAt(l, l.current, stride)
<1>1. t \in Threads /\ pc[t] \in Working
  BY ThreadFacts DEF NextDynamic, Working
<1>2. /\ l.sched = "DYNAMIC" /\ loop' = loop
      /\ slots' = [slots EXCEPT ![loop[t]].current = @ + stride]
      /\ Hand(t, reply)
  BY DEF NextDynamic
<1>3. l \in SlotRecord
  BY <1>1, RangeTypes
<1>4. stride \in Int /\ Within(l.inc, l.inc, stride)
  BY <1>3, DynamicStride
<1> HIDE DEF stride
<1>5. CASE pc'[t] = "free"
  BY <1>5, QuietRanges DEF Alone, Holding
<1>6. CASE pc'[t] # "free"
  <2>1. /\ reply.more /\ pc'[t] = "body"
        /\ range'[t].lower = reply.lower /\ range'[t].upper = reply.upper
        /\ ticket_number'[t] = reply.lower
    BY <1>1, <1>2, <1>6, HandRight
  <2> QED BY <1>1, <1>2, <1>4, <2>1, RangesTaken
<1> QED BY <1>5, <1>6

LEMMA RangesGuidedTake ==
    ASSUME Types, Types', RangesRight, N > 1, NEW t \in Active, Alone(t), GuidedTake(t)
    PROVE  RangesRight'
<1> DEFINE l == slots[loop[t]]
           reply == ChunkAt(l, l.current, guess[t].stride)
<1>1. t \in Threads /\ pc[t] = "take" /\ pc[t] \in Working
  BY ThreadFacts DEF GuidedTake, Working
<1>2. /\ loop' = loop
      /\ slots' = [slots EXCEPT ![loop[t]].current = @ + guess[t].stride]
  BY DEF GuidedTake
<1>3. guess[t].stride \in Int
  BY <1>1, RangeTypes
<1>4. Within(l.inc, l.inc, guess[t].stride) /\ l.sched = "GUIDED"
  BY <1>1 DEF RangesRight, StrideRight
<1>5. pc \in [Threads -> Label] /\ range \in [Threads -> [lower : Int, upper : Int]]
  BY DEF Types
<1>6. CASE reply.more
  <2>1. pc'[t] = "adjust" /\ range'[t].lower = reply.lower /\ range'[t].upper = reply.upper
    BY <1>1, <1>5, <1>6 DEF GuidedTake, Goto
  <2> QED BY <1>1, <1>2, <1>3, <1>4, <1>6, <2>1, RangesTaken
<1>7. CASE ~reply.more
  <2>1. pc'[t] = "free"
    BY <1>1, <1>5, <1>7 DEF GuidedTake, Goto
  <2> QED BY <2>1, QuietRanges DEF Alone, Holding
<1> QED BY <1>6, <1>7

LEMMA RangesGuidedEstimate ==
    ASSUME Types, Types', RangesRight, N > 1, NEW t \in Active, Alone(t), GuidedEstimate(t)
    PROVE  RangesRight'
<1> DEFINE l == slots[loop[t]]
           c == MaxOf(l.min_chunk, MinOf(guess[t].chunk, l.upper - l.current + 1))
           inc == l.inc
           zero == 0
<1>1. t \in Threads /\ pc[t] \in Working
  BY ThreadFacts DEF GuidedEstimate, Working
<1>2. l \in SlotRecord /\ guess[t].chunk \in Int
  BY <1>1, RangeTypes DEF Types
<1>3. inc \in Int \ {0} /\ c \in Nat /\ c >= 1 /\ zero \in Int
  <2>1. inc \in Int \ {0} /\ l.min_chunk \in Nat \ {0} /\ l.upper - l.current + 1 \in Int
    BY <1>2 DEF SlotRecord
  <2> QED BY <2>1, <1>2 DEF MaxOf, MinOf
<1>4. /\ guess' = [guess EXCEPT ![t].stride = inc * c] /\ pc' = [pc EXCEPT ![t] = "take"]
      /\ slots' = slots /\ loop' = loop
  BY DEF GuidedEstimate, Goto, shared
<1> HIDE DEF c, inc, zero
<1>5. Within(inc, inc, c * inc) /\ inc * c = c * inc
  <2>1. Within(inc, inc, c * inc)
    BY <1>3, Ahead
  <2>2. inc * c = c * inc
    BY <1>3
  <2> QED BY <2>1, <2>2
<1>6. guess'[t].stride = inc * c /\ pc'[t] = "take"
  <2>1. guess \in [Threads -> [chunk : Int, stride : Int]] /\ pc \in [Threads -> Label]
    BY DEF Types
  <2> QED BY <2>1, <1>1, <1>4
<1>7. StrideRight(t)'
  <2>1. pc[t] = "estimate" /\ StrideRight(t)
    BY DEF GuidedEstimate, RangesRight
  <2>2. l.sched = "GUIDED"
    BY <2>1 DEF StrideRight
  <2> QED BY <1>4, <1>5, <1>6, <2>2 DEF StrideRight, inc
<1>8. RangeRight(t)' /\ TicketRight(t)' /\ \A u \in Active : u # t => Apart(t, u)'
  BY <1>6 DEF RangeRight, TicketRight, Apart, Holding
<1> QED BY <1>7, <1>8, RangesFrame

\* A thread keeps its range.
LEMMA RangeKept ==
    ASSUME Types, Types', RangesRight, N > 1, NEW t \in Active, Alone(t),
           pc[t] \in Holding, pc'[t] \in Holding, loop' = loop, range'[t] = range[t],
           Kept(loop[t]), TicketRight(t)'
    PROVE  RangesRight'
<1> DEFINE l == slots[loop[t]]
           m == slots'[loop[t]]
           own == StaticShare(l, region.static_fair, N, t)
<1>1. pc[t] \in Working /\ t \in Threads
  BY ThreadFacts DEF Holding, Working
<1>2. /\ m.sched = l.sched /\ m.inc = l.inc /\ m.lower = l.lower /\ m.upper = l.upper
      /\ Within(l.inc, l.current, m.current)
  BY DEF Kept
<1>3. slots[loop[t]]' = m /\ N' = N /\ region' = region
  BY RegionFrame DEF Alone
<1>4. StaticShare(m, region.static_fair, N, t) = own
  BY <1>2, ShareSame
<1>5. StaticShare(l, region.static_fair, N, t)' = own
  BY <1>3, <1>4
<1>6. l.inc \in Int \ {0} /\ l.current \in Int /\ range[t].upper \in Int
  BY <1>1, RangeTypes
<1>7. m.current \in Int
  <2>1. loop[t] \in 0 .. Slots - 1
    BY <1>1, MyLoop
  <2>2. slots' \in [0 .. Slots - 1 -> SlotRecord]
    BY DEF Types
  <2>3. m \in SlotRecord
    BY <2>1, <2>2
  <2> QED BY <2>3 DEF SlotRecord
<1>8. RangeRight(t)
  BY DEF RangesRight
<1>9. /\ Within(l.inc, range[t].lower, range[t].upper)
      /\ l.sched \in {"STATIC", "STATIC_EVEN"} =>
           /\ Within(l.inc, own.lower, range[t].lower)
           /\ Within(l.inc, range[t].upper, own.upper)
      /\ l.sched \in {"DYNAMIC", "GUIDED"} => Before(l.inc, range[t].upper, l.current)
  BY <1>8 DEF RangeRight
<1> HIDE DEF l, m, own
<1>10. ASSUME Before(l.inc, range[t].upper, l.current)
       PROVE  Before(l.inc, range[t].upper, m.current)
  BY <1>2, <1>6, <1>7, <1>10, WithinFacts
<1>11. RangeRight(t)'
  BY <1>2, <1>3, <1>5, <1>9, <1>10 DEF RangeRight, l
<1>12. StrideRight(t)'
  BY DEF StrideRight, Holding
<1>13. ASSUME NEW u \in Active, u # t PROVE Apart(t, u)'
  <2>1. Same(u) /\ Apart(t, u)
    BY <1>13 DEF Alone, RangesRight
  <2> QED BY <1>2, <1>3, <2>1 DEF Same, Apart, l
<1> QED BY <1>11, <1>12, <1>13, RangesFrame

LEMMA KeptWhenSame ==
    ASSUME Types, NEW t \in Active, pc[t] \in Working, slots' = slots
    PROVE  Kept(loop[t])
<1>1. slots[loop[t]].inc \in Int \ {0} /\ slots[loop[t]].current \in Int
  BY RangeTypes
<1>2. Within(slots[loop[t]].inc, slots[loop[t]].current, slots[loop[t]].current)
  BY <1>1, WithinSelf
<1> QED BY <1>2 DEF Kept

LEMMA RangesGuidedRead ==
    ASSUME Types, Types', RangesRight, N > 1, NEW t \in Active, Alone(t), GuidedRead(t)
    PROVE  RangesRight'
<1>1. t \in Threads /\ pc \in [Threads -> Label]
  BY ThreadFacts DEF Types
<1>2. pc'[t] = "estimate" /\ slots' = slots /\ loop' = loop /\ slots[loop[t]].sched = "GUIDED"
  BY <1>1 DEF GuidedRead, Goto, shared
<1>3. RangeRight(t)' /\ StrideRight(t)' /\ TicketRight(t)'
  BY <1>2 DEF RangeRight, StrideRight, TicketRight, Holding
<1>4. \A u \in Active : u # t => Apart(t, u)'
  BY <1>2 DEF Apart, Holding
<1> QED BY <1>3, <1>4, RangesFrame

LEMMA RangesGuidedAdjust ==
    ASSUME Types, Types', RangesRight, N > 1, NEW t \in Active, Alone(t), GuidedAdjust(t)
    PROVE  RangesRight'
<1> DEFINE reply == Reply(TRUE, range[t].lower, range[t].upper)
<1>1. /\ t \in Threads /\ pc[t] = "adjust" /\ loop[t] \in 0 .. Slots - 1
      /\ Hand(t, reply) /\ loop' = loop
  BY ThreadFacts, MyLoop DEF GuidedAdjust, Working
<1>2. PICK x : slots' = slots \/ slots' = [slots EXCEPT ![loop[t]].chunk = x]
  BY DEF GuidedAdjust
<1>3. Kept(loop[t])
  BY <1>1, <1>2, KeptSlots
<1>4. reply.more /\ reply.lower = range[t].lower /\ reply.upper = range[t].upper
  BY DEF Reply
<1>5. /\ pc \in [Threads -> Label] /\ ticket_number \in [Threads -> Int]
      /\ range \in [Threads -> [lower : Int, upper : Int]]
  BY DEF Types
<1> HIDE DEF reply
<1>6. /\ pc'[t] = "body" /\ ticket_number'[t] = range[t].lower
      /\ range'[t] = [lower |-> range[t].lower, upper |-> range[t].upper]
  BY <1>1, <1>4, <1>5 DEF Hand, Goto
<1>7. range'[t] = range[t]
  <2>1. range[t] \in [lower : Int, upper : Int]
    BY <1>1, <1>5
  <2> QED BY <2>1, <1>6
<1>8. TicketRight(t)'
  BY <1>6, <1>7 DEF TicketRight
<1> QED BY <1>1, <1>3, <1>6, <1>7, <1>8, RangeKept DEF Holding

LEMMA RangesOrderedBegin ==
    ASSUME Types, Types', RangesRight, N > 1, NEW t \in Active, Alone(t), OrderedBegin(t)
    PROVE  RangesRight'
<1>1. t \in Threads /\ pc[t] = "body" /\ slots' = slots /\ loop' = loop
  BY ThreadFacts DEF OrderedBegin, shared
<1>2. /\ pc \in [Threads -> Label] /\ index \in [Threads -> Int]
  BY DEF Types
<1>3. /\ pc'[t] = "iterate" /\ index'[t] = range[t].lower
      /\ range' = range /\ ticket_number' = ticket_number
  BY <1>1, <1>2 DEF OrderedBegin, Goto
<1>4. ticket_number[t] = range[t].lower
  BY <1>1 DEF RangesRight, TicketRight
<1>5. range[t].lower \in Int /\ slots[loop[t]].inc \in Int \ {0}
  BY <1>1, RangeTypes DEF Working
<1>6. Within(slots[loop[t]].inc, range[t].lower, range[t].lower)
  BY <1>5, WithinSelf
<1>7. TicketRight(t)'
  BY <1>1, <1>3, <1>4, <1>6 DEF TicketRight
<1>8. Kept(loop[t])
  BY <1>1, KeptWhenSame DEF Working
<1> QED BY <1>1, <1>3, <1>7, <1>8, RangeKept DEF Holding

LEMMA RangesOrdered ==
    ASSUME Types, Types', RangesRight, N > 1, NEW t \in Active, Alone(t), Ordered(t)
    PROVE  RangesRight'
<1>1. /\ t \in Threads /\ pc[t] = "iterate" /\ slots' = slots /\ loop' = loop
      /\ range' = range /\ ticket_number' = ticket_number /\ index' = index
      /\ Within(slots[loop[t]].inc, index[t], range[t].upper)
      /\ slots[loop[t]].now_serving = ticket_number[t]
  BY ThreadFacts DEF Ordered, shared, locals
<1>2. pc'[t] = "inside"
  BY <1>1 DEF Ordered, Goto, Types
<1>3. /\ Within(slots[loop[t]].inc, range[t].lower, ticket_number[t])
      /\ Within(slots[loop[t]].inc, ticket_number[t], index[t])
  BY <1>1 DEF RangesRight, TicketRight
<1>4. TicketRight(t)'
  BY <1>1, <1>2, <1>3 DEF TicketRight
<1>5. Kept(loop[t])
  BY <1>1, KeptWhenSame DEF Working
<1> QED BY <1>1, <1>2, <1>4, <1>5, RangeKept DEF Holding

LEMMA RangesEndOrdered ==
    ASSUME Types, Types', RangesRight, N > 1, NEW t \in Active, Alone(t), EndOrdered(t)
    PROVE  RangesRight' /\ pc'[t] # "abort"
<1> DEFINE inc == slots[loop[t]].inc
           ticket == ticket_number[t]
           i == index[t]
           low == range[t].lower
<1>1. t \in Threads /\ pc[t] = "inside" /\ loop' = loop /\ range' = range
  BY ThreadFacts DEF EndOrdered
<1>2. /\ Within(inc, low, ticket) /\ Within(inc, ticket, i)
      /\ slots[loop[t]].now_serving = ticket
  BY <1>1 DEF RangesRight, TicketRight
<1>3. inc \in Int \ {0} /\ ticket \in Int /\ i \in Int /\ low \in Int /\ loop[t] \in 0 .. Slots - 1
  BY <1>1, RangeTypes, MyLoop DEF Working
<1>4. /\ slots' = [slots EXCEPT ![loop[t]].now_serving = @ + inc]
      /\ ticket_number' = [ticket_number EXCEPT ![t] = @ + inc]
      /\ index' = [index EXCEPT ![t] = @ + inc]
      /\ pc' = [pc EXCEPT ![t] = "iterate"]
  BY <1>2 DEF EndOrdered, Goto
<1>5. /\ pc \in [Threads -> Label] /\ ticket_number \in [Threads -> Int]
      /\ index \in [Threads -> Int] /\ slots \in [0 .. Slots - 1 -> SlotRecord]
  BY DEF Types
<1>6. ticket_number'[t] = ticket + inc /\ index'[t] = i + inc /\ pc'[t] = "iterate"
  BY <1>1, <1>4, <1>5
<1>7. Kept(loop[t])
  <2> DEFINE x == slots[loop[t]].now_serving + inc
  <2>1. slots' = [slots EXCEPT ![loop[t]].now_serving = x]
    BY <1>4
  <2> HIDE DEF x
  <2> QED BY <2>1, <1>3, KeptSlots
<1>8. slots'[loop[t]].inc = inc
  BY <1>7 DEF Kept
<1> HIDE DEF inc, ticket, i, low
<1>9. Within(inc, low, ticket + inc) /\ Within(inc, ticket + inc, i + inc)
  <2>1. ticket + inc \in Int /\ Within(inc, ticket, ticket + inc)
    BY <1>3 DEF Within
  <2>2. Within(inc, low, ticket + inc)
    BY <2>1, <1>2, <1>3, WithinFacts
  <2>3. Within(inc, ticket + inc, i + inc)
    BY <1>2, <1>3, WithinPair
  <2> QED BY <2>2, <2>3
<1>10. TicketRight(t)'
  BY <1>1, <1>6, <1>8, <1>9 DEF TicketRight, low
<1>11. RangesRight'
  BY <1>1, <1>6, <1>7, <1>10, RangeKept DEF Holding
<1> QED BY <1>6, <1>11

LEMMA RangesSkipOrdered ==
    ASSUME Types, Types', RangesRight, N > 1, NEW t \in Active, Alone(t), SkipOrdered(t)
    PROVE  RangesRight'
<1> DEFINE inc == slots[loop[t]].inc
           i == index[t]
           ticket == ticket_number[t]
<1>1. /\ t \in Threads /\ pc[t] = "iterate" /\ slots' = slots /\ loop' = loop
      /\ range' = range /\ ticket_number' = ticket_number /\ pc' = pc
      /\ index' = [index EXCEPT ![t] = @ + inc]
  BY ThreadFacts DEF SkipOrdered, shared
<1>2. Within(inc, range[t].lower, ticket) /\ Within(inc, ticket, i)
  BY <1>1 DEF RangesRight, TicketRight
<1>3. inc \in Int \ {0} /\ ticket \in Int /\ i \in Int
  BY <1>1, RangeTypes DEF Working
<1>4. index'[t] = i + inc
  BY <1>1 DEF Types
<1>5. slots[loop[t]]' = slots[loop[t]]
  BY <1>1
<1> HIDE DEF inc, i, ticket
<1>6. Within(inc, ticket, i + inc)
  <2>1. i + inc \in Int /\ Within(inc, i, i + inc)
    BY <1>3 DEF Within
  <2> QED BY <2>1, <1>2, <1>3, WithinFacts
<1>7. TicketRight(t)'
  BY <1>1, <1>2, <1>4, <1>5, <1>6 DEF TicketRight, inc, ticket
<1>8. Kept(loop[t])
  BY <1>1, KeptWhenSame DEF Working
<1> QED BY <1>1, <1>7, <1>8, RangeKept DEF Holding

LEMMA RangesInit == ASSUME Init PROVE RangesRight
<1>1. region \in Regions
  BY DEF Init
<1>2. Active \subseteq Threads
  BY <1>1, RegionFacts
<1>3. \A t \in Active : pc[t] \in {"begin", "absent"}
  BY <1>2 DEF Init
<1>4. \A t \in Active : RangeRight(t) /\ StrideRight(t) /\ TicketRight(t)
  BY <1>3 DEF RangeRight, StrideRight, TicketRight, Holding
<1>5. \A t, u \in Active : Apart(t, u)
  BY <1>3 DEF Apart, Holding
<1> QED BY <1>4, <1>5 DEF RangesRight

\* A step that cannot end with a range.
LEMMA RangesQuiet ==
    ASSUME Types, Types', RingRight, RangesRight, NEW t \in Active, Step(t), UNCHANGED region,
           pc'[t] \notin Holding \cup {"estimate", "take"}
    PROVE  RangesRight'
BY StepAlone, QuietRanges

LEMMA StepRegion == ASSUME NEW t, Step(t) PROVE UNCHANGED region
BY DEF Step, Alloc, Fill, Publish, Attach, NextFixed, NextDynamic, GuidedRead,
       GuidedEstimate, GuidedTake, GuidedAdjust, Body, OrderedBegin, Ordered,
       EndOrdered, SkipOrdered, OrderedEnd, FreeCount, FreeWhen, FreeLast, EndLoop

\* Where the steps lead to that need no argument.
LEMMA StepLeads ==
    ASSUME Types, NEW t \in Threads, Step(t)
    PROVE  /\ Alloc(t) => pc'[t] \in {"attach", "fill", "abort"}
           /\ Fill(t) => pc'[t] = "publish"
           /\ Publish(t) => pc'[t] \in {"next", "abort"}
           /\ Attach(t) => pc'[t] = "next"
           /\ Body(t) => pc'[t] = "next"
           /\ OrderedEnd(t) => pc'[t] = "next"
           /\ FreeCount(t) => pc'[t] \in {"unuse", "after", "abort"}
           /\ FreeLast(t) => pc'[t] = "after"
           /\ EndLoop(t) => pc'[t] \in {"begin", "done"}
<1>1. pc \in [Threads -> Label]
  BY DEF Types
<1> QED BY <1>1 DEF Alloc, Fill, Publish, Attach, Body, OrderedEnd, FreeCount, FreeWhen,
                    FreeLast, EndLoop, Goto

LEMMA RangesStep == ASSUME Types, Types', RingRight, RangesRight, [Next]_vars PROVE RangesRight'
<1>1. CASE NewRegion
  <2>1. /\ \A t \in Threads : pc'[t] \in {"begin", "absent"}
        /\ UNCHANGED region
    BY <1>1 DEF NewRegion
  <2>2. Active' = Active /\ Active \subseteq Threads
    BY <2>1, RegionFrame, RegionFacts DEF Types
  <2>3. \A t \in Active : pc'[t] \in {"begin", "absent"}
    BY <2>1, <2>2
  <2>4. \A t \in Active : RangeRight(t)' /\ StrideRight(t)' /\ TicketRight(t)'
    BY <2>3 DEF RangeRight, StrideRight, TicketRight, Holding
  <2>5. \A t, u \in Active : Apart(t, u)'
    BY <2>3 DEF Apart, Holding
  <2> QED BY <2>2, <2>4, <2>5 DEF RangesRight
<1>2. ASSUME NEW t \in Threads, Step(t) PROVE RangesRight'
  <2>1. t \in Active /\ UNCHANGED region
    BY <1>2, OnlyActive, StepRegion
  <2>2. CASE pc'[t] \notin Holding \cup {"estimate", "take"}
    BY <1>2, <2>1, <2>2, RangesQuiet
  <2>3. CASE ~(N > 1)
    BY <2>1, <2>3, RegionFrame DEF RangesRight
  <2>4. CASE N > 1 /\ pc'[t] \in Holding \cup {"estimate", "take"}
    <3>1. Alone(t)
      BY <1>2, <2>1, <2>4, StepAlone
    <3>2. Inner(t)
      BY <1>2, <2>4, StepLeads DEF Step, Inner, Holding
    <3>3. ~Body(t) /\ ~OrderedEnd(t)
      BY <1>2, <2>4, StepLeads DEF Holding
    <3>4. CASE NextFixed(t) \/ NextDynamic(t)
      BY <2>1, <2>4, <3>1, <3>4, RangesNextFixed, RangesNextDynamic
    <3>5. CASE GuidedRead(t) \/ GuidedEstimate(t) \/ GuidedTake(t) \/ GuidedAdjust(t)
      BY <2>1, <2>4, <3>1, <3>5, RangesGuidedRead, RangesGuidedEstimate, RangesGuidedTake,
         RangesGuidedAdjust
    <3>6. CASE OrderedBegin(t) \/ Ordered(t) \/ EndOrdered(t) \/ SkipOrdered(t)
      BY <2>1, <2>4, <3>1, <3>6, RangesOrderedBegin, RangesOrdered, RangesEndOrdered,
         RangesSkipOrdered
    <3> QED BY <3>2, <3>3, <3>4, <3>5, <3>6 DEF Inner
  <2> QED BY <2>2, <2>3, <2>4, RegionFacts DEF Types
<1>3. CASE UNCHANGED vars
  <2>1. UNCHANGED <<region, slots, pc, loop, range, guess, ticket_number, index>>
    BY <1>3 DEF vars, shared, locals
  <2>2. Active' = Active /\ N' = N
    BY <2>1, RegionFrame
  <2>3. \A t \in Active : /\ RangeRight(t)' = RangeRight(t)
                          /\ StrideRight(t)' = StrideRight(t)
                          /\ TicketRight(t)' = TicketRight(t)
    BY <2>1, <2>2 DEF RangeRight, StrideRight, TicketRight
  <2>4. \A t, u \in Active : Apart(t, u)' = Apart(t, u)
    BY <2>1 DEF Apart
  <2> QED BY <2>2, <2>3, <2>4 DEF RangesRight
<1> QED BY <1>1, <1>2, <1>3 DEF Next

(***************************************************************************)
(* The assertions                                                          *)
(***************************************************************************)
\* A thread that is about to leave a loop is one of those that stay in it.
LEMMA StayingSize ==
    ASSUME Types, NEW t \in Active, pc[t] = "free"
    PROVE  Cardinality(Staying(at[t])) \in Nat /\ ~(Cardinality(Staying(at[t])) < 1)
<1>1. N \in Nat /\ at[t] \in Nat
  BY ThreadFacts, RegionFacts DEF Types
<1>2. IsFiniteSet(Active)
  BY <1>1, FS_Interval DEF Active
<1>3. Staying(at[t]) \subseteq Active /\ t \in Staying(at[t])
  BY <1>1 DEF Staying, Left
<1>4. IsFiniteSet(Staying(at[t]))
  BY <1>2, <1>3, FS_Subset
<1>5. Cardinality(Staying(at[t])) \in Nat
  BY <1>4, FS_CardinalityType
<1>6. Cardinality(Staying(at[t])) # 0
  BY <1>3, <1>4, FS_EmptySet
<1> QED BY <1>5, <1>6

LEMMA AbortStep ==
    ASSUME Types, Types', RingRight, RangesRight, AssertionsHold, [Next]_vars
    PROVE  AssertionsHold'
<1>0. pc \in [Threads -> Label]
  BY DEF Types
<1>1. CASE NewRegion
  BY <1>1 DEF NewRegion, AssertionsHold
<1>2. ASSUME NEW t \in Threads, Step(t) PROVE AssertionsHold'
  <2>1. t \in Active /\ UNCHANGED region
    BY <1>2, OnlyActive, StepRegion
  <2>2. \A u \in Threads : u # t => pc'[u] = pc[u]
    BY <1>2, OthersSame DEF Same
  <2>3. PICK b \in Nat, p \in Nat, q \in Nat : RingInv(b, p, q)
    BY DEF RingRight
  <2> SUFFICES pc'[t] # "abort"
    BY <2>2 DEF AssertionsHold
  <2>4. CASE Alloc(t)
    BY <1>0, <2>1, <2>3, <2>4, AllocEffect
  <2>5. CASE Publish(t)
    <3>1. pc[t] = "publish"
      BY <2>5 DEF Publish
    <3>2. MySlot(t) = Place(b, at[t])
      BY <2>1, <2>3, <3>1, MyPlace
    <3>3. FillRight(t, b, p, q)
      BY <2>1, <2>3 DEF RingInv
    <3>4. slots[MySlot(t)].loop_id = Unused
      BY <3>1, <3>2, <3>3 DEF FillRight
    <3> QED BY <1>0, <2>5, <3>4 DEF Publish, Goto
  <2>6. CASE FreeCount(t)
    <3>1. pc[t] = "free"
      BY <2>6 DEF FreeCount, FreeWhen
    <3>2. /\ slots[loop[t]].loop_id = Id(b, at[t])
          /\ slots[loop[t]].looping_threads = Cardinality(Staying(at[t]))
      BY <2>1, <2>3, <3>1, InLoop DEF Working
    <3>3. MyId(t) = Id(b, at[t])
      BY <2>1, <2>3, <3>1, MyPlace
    <3>4. Cardinality(Staying(at[t])) \in Nat /\ ~(Cardinality(Staying(at[t])) < 1)
      BY <2>1, <3>1, StayingSize
    <3> QED BY <1>0, <2>6, <3>2, <3>3, <3>4 DEF FreeCount, FreeWhen, Goto
  <2>7. CASE EndOrdered(t)
    <3>1. CASE N > 1
      BY <1>2, <2>1, <2>7, <3>1, StepAlone, RangesEndOrdered
    <3>2. CASE ~(N > 1)
      BY <1>0, <2>7, <3>2 DEF EndOrdered, Goto
    <3> QED BY <3>1, <3>2
  <2>8. CASE NextFixed(t) \/ NextDynamic(t) \/ GuidedAdjust(t)
    BY <1>0, <2>8 DEF NextFixed, NextDynamic, GuidedAdjust, Hand, Goto
  <2>9. CASE GuidedRead(t) \/ GuidedEstimate(t) \/ GuidedTake(t)
    BY <1>0, <2>9 DEF GuidedRead, GuidedEstimate, GuidedTake, Goto
  <2>10. CASE OrderedBegin(t) \/ Ordered(t) \/ SkipOrdered(t)
    BY <1>0, <2>10 DEF OrderedBegin, Ordered, SkipOrdered, Goto
  <2>11. CASE Fill(t) \/ Attach(t) \/ Body(t) \/ OrderedEnd(t) \/ FreeLast(t) \/ EndLoop(t)
    BY <1>2, <2>11, StepLeads
  <2> QED BY <1>2, <2>4, <2>5, <2>6, <2>7, <2>8, <2>9, <2>10, <2>11 DEF Step
<1>3. CASE UNCHANGED vars
  BY <1>3 DEF vars, AssertionsHold
<1> QED BY <1>1, <1>2, <1>3 DEF Next

(***************************************************************************)
(* The inductive invariant, and what it implies                            *)
(***************************************************************************)
LoopInv == Types /\ RingRight /\ RangesRight /\ AssertionsHold

LEMMA LoopInvInit == ASSUME Init PROVE LoopInv
<1>1. Types /\ RingRight /\ RangesRight
  BY TypesInit, InitRing, RangesInit
<1>2. AssertionsHold
  BY DEF Init, AssertionsHold
<1> QED BY <1>1, <1>2 DEF LoopInv

LEMMA LoopInvStep == ASSUME LoopInv, [Next]_vars PROVE LoopInv'
<1>1. Types'
  BY TypesStep DEF LoopInv
<1>2. RingRight' /\ RangesRight'
  BY <1>1, RingStep, RangesStep DEF LoopInv
<1>3. AssertionsHold'
  BY <1>1, AbortStep DEF LoopInv
<1> QED BY <1>1, <1>2, <1>3 DEF LoopInv

\* Two threads are not in ordered regions of the same loop.
OrderedAlone ==
    \A t, u \in Threads :
        t # u /\ pc[t] = "inside" /\ pc[u] = "inside" => at[t] # at[u]

LEMMA LoopInvAlone == ASSUME LoopInv PROVE OrderedAlone
<1> SUFFICES ASSUME NEW t \in Threads, NEW u \in Threads, t # u,
                    pc[t] = "inside", pc[u] = "inside", at[t] = at[u]
             PROVE  FALSE
  BY DEF OrderedAlone
<1>1. PICK b \in Nat, p \in Nat, q \in Nat : RingInv(b, p, q)
  BY DEF LoopInv, RingRight
<1>2. t \in Active /\ u \in Active
  BY MyLoop DEF LoopInv, Working
<1>3. N > 1
  <2>1. N \in Nat
    BY RegionFacts DEF LoopInv, Types
  <2> QED BY <1>2, <2>1 DEF Active
<1>4. loop[t] = Place(b, at[t]) /\ loop[u] = Place(b, at[u])
  BY <1>1, <1>2, InLoop DEF LoopInv, Working
<1>5. loop[t] # loop[u]
  BY <1>2, <1>3, InsideAlone DEF LoopInv
<1> QED BY <1>4, <1>5

\* No assertion of __pmp_loop_alloc, __pmp_loop_free and __ompc_end_ordered
\* fails, for any team, ring and width of the counters.
THEOREM AssertionsHoldTheorem == Spec => []AssertionsHold
<1>1. LoopInv => AssertionsHold
  BY DEF LoopInv
<1>2. Init => LoopInv
  BY LoopInvInit
<1>3. LoopInv /\ [Next]_vars => LoopInv'
  BY LoopInvStep
<1> QED BY <1>1, <1>2, <1>3, PTL DEF Spec

\* __ompc_ordered lets one thread at a time into the ordered regions of a
\* loop, although the threads wait for a turn that anyone could pass on.
THEOREM OrderedAloneTheorem == Spec => []OrderedAlone
<1>1. LoopInv => OrderedAlone
  BY LoopInvAlone
<1>2. Init => LoopInv
  BY LoopInvInit
<1>3. LoopInv /\ [Next]_vars => LoopInv'
  BY LoopInvStep
<1> QED BY <1>1, <1>2, <1>3, PTL DEF Spec

(***************************************************************************)
(* Which iterations have been handed out and run                           *)
(***************************************************************************)
\* The descriptor of loop k, and a slot that holds it.
Descriptor(k) ==
    LET l == Resolve(program[k])
    IN [FreeSlot EXCEPT !.sched = l.sched, !.lower = l.lower, !.upper = l.upper,
                        !.inc = l.inc, !.chunk = l.chunk]

Described ==
    \A s \in 0 .. Slots - 1 :
        slots[s].number \in 1 .. Len(program) =>
            Matches(slots[s], Descriptor(slots[s].number))

\* A team of one runs the loop alone; otherwise each thread has a share of its
\* own, or they all draw on current.
Shared(k) == N > 1 /\ Descriptor(k).sched \in {"DYNAMIC", "GUIDED"}

Share(k, t) == StaticShare(Descriptor(k), region.static_fair, N, t)

Aligned(k, x) == On(Descriptor(k).lower, Descriptor(k).inc, x)

IsIteration(k, x) == Aligned(k, x) /\ Within(Descriptor(k).inc, x, Descriptor(k).upper)

\* x is for thread t to run.
Mine(k, t, x) ==
    N > 1 /\ ~Shared(k) =>
        /\ Within(Descriptor(k).inc, Share(k, t).lower, x)
        /\ Within(Descriptor(k).inc, x, Share(k, t).upper)

\* Thread t has been handed x, in a loop without current.
Given(k, t, x) ==
    /\ Mine(k, t, x)
    /\ iteration[t] > 0
    /\ N > 1 /\ Descriptor(k).sched = "STATIC" =>
        Before(Descriptor(k).inc, x,
               Share(k, t).lower + (iteration[t] * Descriptor(k).chunk) * Descriptor(k).inc)

\* Thread t has x in its range and has not run it.
From(t) == IF pc[t] \in {"iterate", "inside"} THEN index[t] ELSE range[t].lower

InHand(t, x) ==
    /\ pc[t] \in Holding
    /\ Within(Descriptor(at[t]).inc, From(t), x)
    /\ Within(Descriptor(at[t]).inc, x, range[t].upper)

Covered(k, x) ==
    \/ \E r \in ran[k] : r[2] = x
    \/ \E u \in Active : at[u] = k /\ InHand(u, x)

\* The range of a thread, and the stride that it is about to take.
HandRange(t) ==
    LET d == Descriptor(at[t])
    IN /\ pc[t] \in Holding =>
            /\ Aligned(at[t], From(t))
            /\ Within(d.inc, range[t].lower, From(t))
            /\ Within(d.inc, range[t].upper, d.upper)
       /\ pc[t] = "inside" => Within(d.inc, index[t], range[t].upper)
       /\ pc[t] \in {"estimate", "take", "adjust"} => N > 1 /\ d.sched = "GUIDED"
       /\ pc[t] = "take" => \E m \in Nat \ {0} : guess[t].stride = m * d.inc

\* What a thread has not run it has not run before, and what it has been
\* handed in a loop without current has been run or is in its hand.
HandOnce(t) ==
    pc[t] \in Working =>
        /\ \A r \in ran[at[t]] : ~InHand(t, r[2])
        /\ ~Shared(at[t]) =>
            /\ \A r \in ran[at[t]] : r[1] = t => Given(at[t], t, r[2])
            /\ \A x \in Int : InHand(t, x) => Given(at[t], t, x)
            /\ \A x \in Int : IsIteration(at[t], x) /\ Given(at[t], t, x) => Covered(at[t], x)

\* The same for current.
CurrentOnce(s) ==
    LET k == slots[s].number
    IN slots[s].loop_id # Unused /\ Shared(k) =>
        /\ Aligned(k, slots[s].current)
        /\ \A r \in ran[k] : Before(slots[s].inc, r[2], slots[s].current)
        /\ \A x \in Int : IsIteration(k, x) /\ Before(slots[s].inc, x, slots[s].current) =>
             Covered(k, x)

\* What has been run are iterations of the loop, by threads they are for.
RanRight(k) ==
    \A r \in ran[k] :
        /\ r[1] \in Active /\ r[2] \in Int
        /\ IsIteration(k, r[2])
        /\ Mine(k, r[1], r[2])
        /\ k <= Entered(r[1])

Finished(t, k) ==
    k < at[t] \/ (k = at[t] /\ pc[t] \in {"free", "unuse", "after", "done"})

\* A thread that has finished a loop leaves no iteration to nobody.
FinishedRight(t, k) ==
    Finished(t, k) =>
        \A x \in Int : IsIteration(k, x) /\ Mine(k, t, x) => Covered(k, x)

OnceRight ==
    /\ ran \in [1 .. Len(program) -> SUBSET (Threads \X Int)]
    /\ ~twice
    /\ Described
    /\ \A t \in Active : pc[t] = "publish" => slots[MySlot(t)].current = Descriptor(at[t]).lower
    /\ \A t \in Active : HandRange(t) /\ HandOnce(t)
    /\ \A s \in 0 .. Slots - 1 : CurrentOnce(s)
    /\ \A k \in 1 .. Len(program) : RanRight(k)
    /\ \A t \in Active, k \in 1 .. Len(program) : FinishedRight(t, k)

(***************************************************************************)
(* The iterations of a loop                                                *)
(***************************************************************************)
LEMMA DescriptorFacts ==
    ASSUME region \in Regions, NEW k \in 1 .. Len(program)
    PROVE  /\ Descriptor(k) \in SlotRecord
           /\ Descriptor(k).inc \in Int \ {0} /\ Descriptor(k).lower \in Int
           /\ Descriptor(k).upper \in Int /\ Descriptor(k).chunk \in Nat \ {0}
           /\ Descriptor(k).sched \in Schedules
           /\ program[k].lower = Descriptor(k).lower /\ program[k].upper = Descriptor(k).upper
           /\ program[k].inc = Descriptor(k).inc
           /\ Descriptor(k).sched = Resolve(program[k]).sched
           /\ Descriptor(k).chunk = Resolve(program[k]).chunk
<1> DEFINE l == program[k]
           m == Resolve(l)
<1>1. l \in LoopRecord
  BY RegionFacts
<1>2. /\ m.lower = l.lower /\ m.upper = l.upper /\ m.inc = l.inc
      /\ m.sched \in Schedules /\ m.chunk \in Nat \ {0}
  BY <1>1, LoopRingAssumption DEF Resolve, LoopRecord
<1>3. l.lower \in Int /\ l.upper \in Int /\ l.inc \in Int \ {0}
  BY <1>1 DEF LoopRecord
<1>4. Descriptor(k) = [FreeSlot EXCEPT !.sched = m.sched, !.lower = m.lower, !.upper = m.upper,
                                       !.inc = m.inc, !.chunk = m.chunk]
  BY DEF Descriptor
<1> HIDE DEF l, m
<1>5. /\ Descriptor(k).sched = m.sched /\ Descriptor(k).lower = m.lower
      /\ Descriptor(k).upper = m.upper /\ Descriptor(k).inc = m.inc
      /\ Descriptor(k).chunk = m.chunk
  BY <1>4 DEF FreeSlot
<1>6. Descriptor(k) \in SlotRecord
  <2>1. Descriptor(k) =
          [loop_id |-> Unused, looping_threads |-> 0, now_serving |-> 0,
           sched |-> m.sched, ordered |-> FALSE, lower |-> m.lower, upper |-> m.upper,
           inc |-> m.inc, chunk |-> m.chunk, current |-> 0, min_chunk |-> 1, number |-> 0]
    BY <1>4 DEF FreeSlot
  <2>2. m.lower \in Int /\ m.upper \in Int /\ m.inc \in Int \ {0} /\ Unused \in Int
    BY <1>2, <1>3 DEF Unused
  <2> QED BY <1>2, <2>1, <2>2 DEF SlotRecord
<1> QED BY <1>2, <1>3, <1>5, <1>6 DEF l, m

LEMMA AllAre ==
    ASSUME region \in Regions, NEW k \in 1 .. Len(program), NEW x
    PROVE  x \in AllIterations(k) <=> IsIteration(k, x)
<1>1. /\ Descriptor(k).inc \in Int \ {0} /\ Descriptor(k).lower \in Int
      /\ Descriptor(k).upper \in Int
      /\ program[k].lower = Descriptor(k).lower /\ program[k].upper = Descriptor(k).upper
      /\ program[k].inc = Descriptor(k).inc
  BY DescriptorFacts
<1>2. AllIterations(k) = Iterations(Descriptor(k).lower, Descriptor(k).upper, Descriptor(k).inc)
  BY <1>1 DEF AllIterations
<1> QED BY <1>1, <1>2, IterationsOn DEF IsIteration, Aligned

\* Every iteration is in the share of some thread.
LEMMA SharesCover ==
    ASSUME Types, NEW k \in 1 .. Len(program), NEW x, IsIteration(k, x)
    PROVE  \E t \in Active : Mine(k, t, x)
<1> DEFINE l == Descriptor(k)
           fair == region.static_fair
<1>1. l \in SlotRecord /\ N \in Nat \ {0} /\ fair \in BOOLEAN
  BY RegionFacts, DescriptorFacts DEF Types
<1>2. PICK a \in Nat : x = l.lower + a * l.inc
  BY DEF IsIteration, Aligned, On
<1>3. Within(l.inc, l.lower + a * l.inc, l.upper)
  BY <1>2 DEF IsIteration
<1> HIDE DEF l, fair
<1>4. \E t \in 0 .. N - 1 :
           /\ Within(l.inc, StaticShare(l, fair, N, t).lower, x)
           /\ Within(l.inc, x, StaticShare(l, fair, N, t).upper)
  <2>1. CASE l.sched = "STATIC_EVEN" /\ fair
    BY <1>1, <1>2, <1>3, <2>1, FairBlockCover DEF StaticShare
  <2>2. CASE ~(l.sched = "STATIC_EVEN" /\ fair)
    BY <1>1, <1>2, <1>3, <2>2, BlockCover DEF StaticShare
  <2> QED BY <2>1, <2>2
<1> QED BY <1>4 DEF Mine, Share, Active, l, fair

(***************************************************************************)
(* What a step leaves alone                                                *)
(***************************************************************************)
LEMMA DescriptorFrame ==
    ASSUME UNCHANGED region
    PROVE  /\ \A k : Descriptor(k)' = Descriptor(k)
           /\ \A k : Shared(k)' = Shared(k)
           /\ \A k, t : Share(k, t)' = Share(k, t)
           /\ \A k, x : Aligned(k, x)' = Aligned(k, x)
           /\ \A k, x : IsIteration(k, x)' = IsIteration(k, x)
           /\ \A k, t, x : Mine(k, t, x)' = Mine(k, t, x)
<1>1. program' = program /\ N' = N
  BY RegionFrame
<1>2. \A k : Descriptor(k)' = Descriptor(k)
  BY <1>1 DEF Descriptor
<1>3. \A k : Shared(k)' = Shared(k)
  BY <1>1, <1>2 DEF Shared
<1>4. \A k, t : Share(k, t)' = Share(k, t)
  BY <1>1, <1>2 DEF Share
<1>5. \A k, x : Aligned(k, x)' = Aligned(k, x)
  BY <1>2 DEF Aligned
<1>6. \A k, x : IsIteration(k, x)' = IsIteration(k, x)
  BY <1>2, <1>5 DEF IsIteration
<1>7. \A k, t, x : Mine(k, t, x)' = Mine(k, t, x)
  BY <1>1, <1>2, <1>3, <1>4 DEF Mine
<1> QED BY <1>2, <1>3, <1>4, <1>5, <1>6, <1>7

\* A step of t leaves the place and the iteration of the others alone.
LEMMA OthersPlace ==
    ASSUME Types, NEW t \in Threads, Step(t), NEW u \in Threads, u # t
    PROVE  /\ Same(u)
           /\ at'[u] = at[u]
           /\ iteration'[u] = iteration[u]
<1>1. at \in [Threads -> 1 .. Len(program)] /\ iteration \in [Threads -> Nat]
  BY DEF Types
<1>2. CASE Alloc(t) \/ Fill(t)
  BY <1>1, <1>2, OthersSame DEF Alloc, Fill, locals
<1>3. CASE Publish(t) \/ Attach(t)
  BY <1>1, <1>3, OthersSame DEF Publish, Attach, Enter
<1>4. CASE NextFixed(t) \/ NextDynamic(t) \/ GuidedAdjust(t)
  BY <1>1, <1>4, OthersSame DEF NextFixed, NextDynamic, GuidedAdjust, Hand
<1>5. CASE GuidedRead(t) \/ GuidedEstimate(t) \/ GuidedTake(t)
  BY <1>1, <1>5, OthersSame DEF GuidedRead, GuidedEstimate, GuidedTake
<1>6. CASE Body(t) \/ OrderedBegin(t) \/ Ordered(t) \/ EndOrdered(t) \/ SkipOrdered(t)
           \/ OrderedEnd(t)
  BY <1>1, <1>6, OthersSame
  DEF Body, OrderedBegin, Ordered, EndOrdered, SkipOrdered, OrderedEnd, locals
<1>7. CASE FreeCount(t) \/ FreeLast(t) \/ EndLoop(t)
  BY <1>1, <1>7, OthersSame DEF FreeCount, FreeWhen, FreeLast, EndLoop
<1> QED BY <1>2, <1>3, <1>4, <1>5, <1>6, <1>7 DEF Step

LEMMA OthersHand ==
    ASSUME Types, NEW t \in Threads, Step(t), NEW u \in Threads, u # t
    PROVE  /\ \A x : InHand(u, x)' = InHand(u, x)
           /\ \A k, x : Given(k, u, x)' = Given(k, u, x)
           /\ HandRange(u)' = HandRange(u)
<1>1. /\ pc'[u] = pc[u] /\ range'[u] = range[u] /\ index'[u] = index[u]
      /\ guess'[u] = guess[u] /\ at'[u] = at[u] /\ iteration'[u] = iteration[u]
  BY OthersPlace DEF Same
<1>2. UNCHANGED region
  BY StepRegion
<1>3. N' = N
  BY <1>2, RegionFrame
<1>4. /\ \A k : Descriptor(k)' = Descriptor(k)
      /\ \A k : Share(k, u)' = Share(k, u)
      /\ \A k, x : Aligned(k, x)' = Aligned(k, x)
      /\ \A k, x : Mine(k, u, x)' = Mine(k, u, x)
  BY <1>2, DescriptorFrame
<1>5. From(u)' = From(u) /\ Descriptor(at[u])' = Descriptor(at[u])
  BY <1>1, <1>4 DEF From, Descriptor
<1>6. \A x : InHand(u, x)' = InHand(u, x)
  BY <1>1, <1>5 DEF InHand
<1>7. \A k, x : Given(k, u, x)' = Given(k, u, x)
  BY <1>1, <1>3, <1>4 DEF Given
<1>8. HandRange(u)' = HandRange(u)
  BY <1>1, <1>3, <1>4, <1>5 DEF HandRange
<1> QED BY <1>6, <1>7, <1>8

(***************************************************************************)
(* What a step runs                                                        *)
(***************************************************************************)
\* The slot of a thread holds the descriptor of its loop.
LEMMA MyDescriptor ==
    ASSUME Types, RingRight, Described, NEW t \in Active, pc[t] \in Working
    PROVE  /\ t \in Threads /\ at[t] \in 1 .. Len(program)
           /\ loop[t] \in 0 .. Slots - 1 /\ slots[loop[t]] \in SlotRecord
           /\ slots[loop[t]].number = at[t] /\ slots[loop[t]].loop_id # Unused
           /\ Matches(slots[loop[t]], Descriptor(at[t]))
           /\ Descriptor(at[t]) \in SlotRecord /\ Descriptor(at[t]).inc \in Int \ {0}
           /\ Descriptor(at[t]).lower \in Int /\ Descriptor(at[t]).upper \in Int
<1>1. PICK b \in Nat, p \in Nat, q \in Nat : RingInv(b, p, q)
  BY DEF RingRight
<1>2. slots[loop[t]].number = at[t]
  BY <1>1, InLoop
<1>3. t \in Threads /\ at[t] \in 1 .. Len(program) /\ region \in Regions
  BY ThreadFacts DEF Types
<1>4. loop[t] \in 0 .. Slots - 1 /\ slots[loop[t]] \in SlotRecord
  BY <1>3, MyLoop
<1>5. Matches(slots[loop[t]], Descriptor(slots[loop[t]].number))
  BY <1>2, <1>3, <1>4 DEF Described
<1>6. slots[loop[t]].loop_id # Unused
  BY InUse
<1> QED BY <1>2, <1>3, <1>4, <1>5, <1>6, DescriptorFacts

LEMMA FromType ==
    ASSUME Types, NEW t \in Threads
    PROVE  From(t) \in Int /\ range[t].lower \in Int /\ range[t].upper \in Int /\ index[t] \in Int
<1>1. range[t] \in [lower : Int, upper : Int] /\ index[t] \in Int
  BY DEF Types
<1> QED BY <1>1 DEF From

\* No iteration is in two hands.
LEMMA HandsApart ==
    ASSUME Types, RingRight, RangesRight, Described, NEW t \in Active, NEW u \in Active, t # u,
           at[t] = at[u], HandRange(t), HandRange(u), NEW x \in Int, InHand(t, x), InHand(u, x)
    PROVE  FALSE
<1> DEFINE inc == Descriptor(at[t]).inc
           a == range[t].lower
           b == range[t].upper
           c == range[u].lower
           d == range[u].upper
           e == From(t)
           f == From(u)
<1>1. pc[t] \in Holding /\ pc[u] \in Holding /\ pc[t] \in Working /\ pc[u] \in Working
  BY DEF InHand, Holding, Working
<1>2. N > 1
  <2>1. N \in Nat
    BY RegionFacts DEF Types
  <2> QED BY <2>1 DEF Active
<1>3. loop[t] = loop[u]
  <2>1. PICK b1 \in Nat, p \in Nat, q \in Nat : RingInv(b1, p, q)
    BY DEF RingRight
  <2> QED BY <1>1, <2>1, InLoop
<1>4. slots[loop[t]].inc = inc /\ inc \in Int \ {0}
  BY <1>1, MyDescriptor DEF Matches
<1>5. Before(inc, b, c) \/ Before(inc, d, a)
  BY <1>1, <1>2, <1>3, <1>4 DEF RangesRight, Apart
<1>6. t \in Threads /\ u \in Threads
  BY ThreadFacts
<1>7. a \in Int /\ b \in Int /\ c \in Int /\ d \in Int /\ e \in Int /\ f \in Int
  BY <1>6, FromType
<1>8. /\ Within(inc, a, e) /\ Within(inc, e, x) /\ Within(inc, x, b)
      /\ Within(inc, c, f) /\ Within(inc, f, x) /\ Within(inc, x, d)
  BY <1>1 DEF HandRange, InHand
<1> HIDE DEF inc, a, b, c, d, e, f
<1>9. Within(inc, c, x) /\ Within(inc, a, x)
  BY <1>4, <1>7, <1>8, WithinFacts
<1>10. CASE Before(inc, b, c)
  <2>1. Before(inc, x, x)
    BY <1>4, <1>7, <1>8, <1>9, <1>10, BeforeChain
  <2> QED BY <1>4, <2>1, WithinSelf
<1>11. CASE Before(inc, d, a)
  <2>1. Before(inc, x, x)
    BY <1>4, <1>7, <1>8, <1>9, <1>11, BeforeChain
  <2> QED BY <1>4, <2>1, WithinSelf
<1> QED BY <1>5, <1>10, <1>11

\* Thread t runs R, which it has in its hand, and keeps the rest.
RunsOnly(t, R) ==
    /\ ran' \in [1 .. Len(program) -> SUBSET (Threads \X Int)]
    /\ \A k \in 1 .. Len(program) :
        ran'[k] = IF k = at[t] THEN ran[k] \cup {<<t, i>> : i \in R} ELSE ran[k]
    /\ twice' => twice \/ \E r \in ran[at[t]] : r[2] \in R

HandStep(t, R) ==
    /\ RunsOnly(t, R)
    /\ \A x \in R : x \in Int /\ IsIteration(at[t], x) /\ InHand(t, x)
    /\ \A x \in Int : IsIteration(at[t], x) /\ InHand(t, x) =>
         x \in R \/ (at'[t] = at[t] /\ InHand(t, x)')

\* It has been handed nothing.
Shrinks(t, R) ==
    /\ at'[t] = at[t]
    /\ iteration'[t] = iteration[t] \/ Shared(at[t])
    /\ \A x \in Int : InHand(t, x)' => InHand(t, x) /\ x \notin R

LEMMA RunEffect ==
    ASSUME Types, OnceRight, NEW t \in Threads, NEW R \in SUBSET Int, Run(t, R)
    PROVE  RunsOnly(t, R)
<1>1. ran \in [1 .. Len(program) -> SUBSET (Threads \X Int)] /\ at[t] \in 1 .. Len(program)
  BY DEF OnceRight, Types
<1> DEFINE k == at[t]
           new == {<<t, i>> : i \in R}
<1>2. ran' = [ran EXCEPT ![k] = @ \cup new]
  BY DEF Run
<1>3. new \subseteq Threads \X Int
  OBVIOUS
<1> HIDE DEF new
<1>4. ran' \in [1 .. Len(program) -> SUBSET (Threads \X Int)]
  <2>1. ran[k] \cup new \in SUBSET (Threads \X Int)
    BY <1>1, <1>3
  <2> QED BY <1>1, <1>2, <2>1
<1>5. \A j \in 1 .. Len(program) : ran'[j] = IF j = k THEN ran[j] \cup new ELSE ran[j]
  BY <1>1, <1>2
<1>6. twice' => twice \/ \E r \in ran[k] : r[2] \in R
  BY DEF Run
<1> QED BY <1>4, <1>5, <1>6 DEF RunsOnly, new

LEMMA RunNothing ==
    ASSUME Types, OnceRight, NEW t \in Threads, UNCHANGED <<ran, twice>>
    PROVE  RunsOnly(t, {})
<1>1. ran \in [1 .. Len(program) -> SUBSET (Threads \X Int)]
  BY DEF OnceRight
<1>2. {<<t, i>> : i \in {}} = {}
  OBVIOUS
<1>3. \A k : ran[k] \cup {} = ran[k]
  OBVIOUS
<1> QED BY <1>1, <1>2, <1>3 DEF RunsOnly

LEMMA QuietHand ==
    ASSUME Types, OnceRight, NEW t \in Threads, UNCHANGED <<ran, twice>>, pc[t] \notin Holding
    PROVE  HandStep(t, {})
<1>1. \A x : ~InHand(t, x)
  BY DEF InHand
<1> QED BY <1>1, RunNothing DEF HandStep

\* The hand is the same.
LEMMA KeptHand ==
    ASSUME Types, OnceRight, NEW t \in Threads, UNCHANGED <<region, ran, twice, at>>,
           pc[t] \in Holding, pc'[t] \in Holding, range'[t] = range[t], From(t)' = From(t),
           iteration'[t] = iteration[t] \/ Shared(at[t])
    PROVE  HandStep(t, {}) /\ Shrinks(t, {})
<1>1. Descriptor(at[t])' = Descriptor(at[t])
  BY DescriptorFrame DEF Descriptor, program
<1>2. \A x : InHand(t, x)' = InHand(t, x)
  BY <1>1 DEF InHand
<1> QED BY <1>2, RunNothing DEF HandStep, Shrinks

LEMMA BodyHand ==
    ASSUME Types, OnceRight, NEW t \in Threads, Body(t)
    PROVE  \E R : HandStep(t, R) /\ Shrinks(t, R)
<1> DEFINE k == at[t]
           inc == Descriptor(k).inc
           lower == Descriptor(k).lower
           upper == Descriptor(k).upper
           a == range[t].lower
           b == range[t].upper
           to == LoopMin(inc, b, upper)
           R == Iterations(a, to, inc)
<1>0. region \in Regions /\ k \in 1 .. Len(program) /\ pc[t] = "body" /\ t \in Active
  BY DEF Types, Body
<1>1. /\ inc \in Int \ {0} /\ lower \in Int /\ upper \in Int
      /\ program[k].inc = inc /\ program[k].upper = upper
  BY <1>0, DescriptorFacts
<1>2. a \in Int /\ b \in Int /\ From(t) = a
  BY <1>0, FromType DEF From
<1>3. /\ Run(t, R) /\ pc' = [pc EXCEPT ![t] = "next"]
      /\ UNCHANGED <<region, at, iteration>>
  BY <1>1 DEF Body, Goto
<1>4. On(lower, inc, a)
  BY <1>0, <1>2 DEF OnceRight, HandRange, Holding, Aligned
<1>5. \A x : InHand(t, x) <=> Within(inc, a, x) /\ Within(inc, x, b)
  BY <1>0, <1>2 DEF InHand, Holding
<1>6. \A x : IsIteration(k, x) <=> On(lower, inc, x) /\ Within(inc, x, upper)
  BY DEF IsIteration, Aligned
<1> HIDE DEF inc, lower, upper, a, b
<1>7. to \in Int
  BY <1>1, <1>2, WithinMin
<1> HIDE DEF to
<1>8. \A x : x \in R <=> On(a, inc, x) /\ Within(inc, x, to)
  BY <1>1, <1>2, <1>7, IterationsOn
<1> HIDE DEF R
<1>9. ASSUME NEW x \in R PROVE x \in Int /\ IsIteration(k, x) /\ InHand(t, x)
  <2>1. On(a, inc, x) /\ Within(inc, x, to)
    BY <1>8
  <2>2. x \in Int /\ Within(inc, a, x)
    BY <1>1, <1>2, <2>1, OnFacts
  <2>3. Within(inc, x, b) /\ Within(inc, x, upper)
    BY <1>1, <1>2, <2>1, <2>2, WithinMin DEF to
  <2>4. PICK m \in Nat : x = a + m * inc
    BY <2>1 DEF On
  <2>5. On(lower, inc, x)
    BY <1>1, <1>4, <2>4, OnAhead
  <2> QED BY <1>5, <1>6, <2>2, <2>3, <2>5
<1>10. ASSUME NEW x \in Int, IsIteration(k, x), InHand(t, x) PROVE x \in R
  <2>1. On(lower, inc, x) /\ Within(inc, x, upper) /\ Within(inc, a, x) /\ Within(inc, x, b)
    BY <1>5, <1>6, <1>10
  <2>2. On(a, inc, x)
    BY <1>1, <1>4, <2>1, OnFrom
  <2>3. Within(inc, x, to)
    BY <1>1, <1>2, <2>1, WithinMin DEF to
  <2> QED BY <1>8, <2>2, <2>3
<1>11. R \in SUBSET Int
  BY <1>9
<1>12. RunsOnly(t, R)
  BY <1>3, <1>11, RunEffect
<1>13. pc'[t] = "next"
  BY <1>3 DEF Types
<1>14. \A x : ~InHand(t, x)'
  BY <1>13 DEF InHand, Holding
<1>15. at'[t] = at[t] /\ iteration'[t] = iteration[t]
  BY <1>3
<1>16. HandStep(t, R)
  BY <1>9, <1>10, <1>12 DEF HandStep
<1>17. Shrinks(t, R)
  BY <1>14, <1>15 DEF Shrinks
<1> QED BY <1>16, <1>17

\* A thread runs the iteration it is at.
LEMMA OneHand ==
    ASSUME Types, OnceRight, NEW t \in Active, pc[t] \in {"iterate", "inside"}, pc'[t] = "iterate",
           Within(Descriptor(at[t]).inc, index[t], range[t].upper),
           index'[t] = index[t] + Descriptor(at[t]).inc, Run(t, {index[t]}),
           UNCHANGED <<region, at, iteration, range>>
    PROVE  \E R : HandStep(t, R) /\ Shrinks(t, R)
<1> DEFINE k == at[t]
           inc == Descriptor(k).inc
           lower == Descriptor(k).lower
           upper == Descriptor(k).upper
           i == index[t]
           b == range[t].upper
           R == {i}
<1>0. region \in Regions /\ k \in 1 .. Len(program) /\ t \in Threads
  BY ThreadFacts DEF Types
<1>1. inc \in Int \ {0} /\ lower \in Int /\ upper \in Int
  BY <1>0, DescriptorFacts
<1>2. i \in Int /\ b \in Int /\ From(t) = i
  BY <1>0, FromType DEF From
<1>3. On(lower, inc, i) /\ Within(inc, b, upper)
  BY <1>2 DEF OnceRight, HandRange, Holding, Aligned
<1>4. \A x : InHand(t, x) <=> Within(inc, i, x) /\ Within(inc, x, b)
  BY <1>2 DEF InHand, Holding
<1>5. \A x : IsIteration(k, x) <=> On(lower, inc, x) /\ Within(inc, x, upper)
  BY DEF IsIteration, Aligned
<1>6. \A x : InHand(t, x)' <=> Within(inc, i + inc, x) /\ Within(inc, x, b)
  <2>1. Descriptor(k)' = Descriptor(k) /\ at'[t] = at[t] /\ range'[t] = range[t]
    BY DescriptorFrame DEF Descriptor, program
  <2>2. From(t)' = i + inc
    BY DEF From
  <2> QED BY <2>1, <2>2 DEF InHand, Holding
<1>7. Within(inc, i, b)
  OBVIOUS
<1>8. RunsOnly(t, R)
  BY <1>0, <1>2, RunEffect
<1> HIDE DEF inc, lower, upper, i, b
<1>9. IsIteration(k, i) /\ InHand(t, i)
  <2>1. Within(inc, i, i) /\ Within(inc, i, upper)
    BY <1>1, <1>2, <1>3, <1>7, WithinSelf, WithinFacts
  <2> QED BY <1>3, <1>4, <1>5, <1>7, <2>1
<1>10. ASSUME NEW x \in Int, IsIteration(k, x), InHand(t, x), x # i PROVE InHand(t, x)'
  <2>1. On(lower, inc, x) /\ Within(inc, i, x) /\ Within(inc, x, b)
    BY <1>4, <1>5, <1>10
  <2>2. Before(inc, i, x)
    BY <1>1, <1>2, <1>10, <2>1, WithinPair
  <2>3. Within(inc, i + inc, x)
    BY <1>1, <1>3, <2>1, <2>2, OnNext
  <2> QED BY <1>6, <2>1, <2>3
<1>11. ASSUME NEW x \in Int, InHand(t, x)' PROVE InHand(t, x) /\ x # i
  <2>1. Within(inc, i + inc, x) /\ Within(inc, x, b)
    BY <1>6, <1>11
  <2>2. Within(inc, i, x) /\ x # i
    BY <1>1, <1>2, <2>1 DEF Within
  <2> QED BY <1>4, <2>1, <2>2
<1>12. at'[t] = at[t] /\ iteration'[t] = iteration[t]
  OBVIOUS
<1>13. HandStep(t, R)
  BY <1>2, <1>8, <1>9, <1>10, <1>12 DEF HandStep
<1>14. Shrinks(t, R)
  BY <1>11, <1>12 DEF Shrinks
<1> QED BY <1>13, <1>14

\* The steps in which thread t works and is handed nothing.
Keeping(t) ==
    \/ GuidedRead(t) \/ GuidedEstimate(t) \/ GuidedAdjust(t)
    \/ Body(t) \/ OrderedBegin(t) \/ Ordered(t) \/ EndOrdered(t)
    \/ SkipOrdered(t) \/ OrderedEnd(t)

LEMMA KeepingHand ==
    ASSUME Types, RingRight, OnceRight, NEW t \in Active, Keeping(t), pc'[t] # "abort"
    PROVE  \E R : HandStep(t, R) /\ Shrinks(t, R)
<1>0. /\ t \in Threads /\ pc \in [Threads -> Label] /\ index \in [Threads -> Int]
      /\ range \in [Threads -> [lower : Int, upper : Int]]
      /\ range[t] = [lower |-> range[t].lower, upper |-> range[t].upper]
  BY ThreadFacts DEF Types
<1>1. pc[t] \in Working /\ Described /\ HandRange(t)
  BY DEF Keeping, GuidedRead, GuidedEstimate, GuidedAdjust, Body, OrderedBegin, Ordered,
         EndOrdered, SkipOrdered, OrderedEnd, Working, OnceRight
<1>2. /\ slots[loop[t]].inc = Descriptor(at[t]).inc /\ Descriptor(at[t]).inc \in Int \ {0}
  BY <1>1, MyDescriptor DEF Matches
<1>3. CASE GuidedRead(t) \/ GuidedEstimate(t)
  <2>1. /\ UNCHANGED <<ran, twice, at, iteration>> /\ pc[t] \notin Holding
        /\ pc'[t] \notin Holding
    BY <1>0, <1>3 DEF GuidedRead, GuidedEstimate, history, Goto, Holding
  <2>2. \A x : ~InHand(t, x)'
    BY <2>1 DEF InHand
  <2> QED BY <1>0, <2>1, <2>2, QuietHand DEF Shrinks
<1>4. CASE GuidedAdjust(t)
  <2>1. pc[t] = "adjust"
    BY <1>4 DEF GuidedAdjust
  <2>2. Hand(t, Reply(TRUE, range[t].lower, range[t].upper))
    BY <1>4 DEF GuidedAdjust
  <2>3. /\ pc' = [pc EXCEPT ![t] = "body"]
        /\ range' = [range EXCEPT ![t] = [lower |-> range[t].lower, upper |-> range[t].upper]]
    BY <2>2 DEF Hand, Reply, Goto
  <2>4. pc'[t] = "body" /\ range'[t] = range[t]
    BY <1>0, <2>3
  <2>5. UNCHANGED <<region, ran, twice, at>>
    BY <1>4 DEF GuidedAdjust, history
  <2>6. From(t)' = From(t)
    BY <2>1, <2>4 DEF From
  <2>7. Shared(at[t])
    BY <1>1, <2>1 DEF HandRange, Shared
  <2> QED BY <1>0, <2>1, <2>4, <2>5, <2>6, <2>7, KeptHand DEF Holding
<1>5. CASE Body(t)
  BY <1>0, <1>5, BodyHand
<1>6. CASE OrderedBegin(t)
  <2>1. /\ pc[t] = "body" /\ pc'[t] = "iterate" /\ index'[t] = range[t].lower
        /\ UNCHANGED <<region, ran, twice, at, iteration, range>>
    BY <1>0, <1>6 DEF OrderedBegin, history, Goto
  <2>2. From(t)' = From(t)
    BY <2>1 DEF From
  <2> QED BY <1>0, <2>1, <2>2, KeptHand DEF Holding
<1>7. CASE Ordered(t)
  <2>1. /\ pc[t] = "iterate" /\ pc'[t] = "inside"
        /\ UNCHANGED <<region, ran, twice, at, iteration, range, index>>
    BY <1>0, <1>7 DEF Ordered, locals, Goto
  <2>2. From(t)' = From(t)
    BY <2>1 DEF From
  <2> QED BY <1>0, <2>1, <2>2, KeptHand DEF Holding
<1>8. CASE EndOrdered(t)
  <2>1. pc[t] = "inside" /\ Run(t, {index[t]}) /\ UNCHANGED <<region, at, iteration, range>>
    BY <1>8 DEF EndOrdered
  <2>2. pc'[t] = "iterate" /\ index' = [index EXCEPT ![t] = @ + slots[loop[t]].inc]
    BY <1>0, <1>8 DEF EndOrdered, Goto
  <2>3. index'[t] = index[t] + Descriptor(at[t]).inc
    BY <1>0, <1>2, <2>2
  <2>4. Within(Descriptor(at[t]).inc, index[t], range[t].upper)
    BY <1>1, <2>1 DEF HandRange
  <2> QED BY <2>1, <2>2, <2>3, <2>4, OneHand
<1>9. CASE SkipOrdered(t)
  <2>1. /\ pc[t] = "iterate" /\ Run(t, {index[t]}) /\ UNCHANGED <<region, at, iteration, range, pc>>
        /\ index' = [index EXCEPT ![t] = @ + slots[loop[t]].inc]
        /\ Within(slots[loop[t]].inc, index[t], range[t].upper)
    BY <1>9 DEF SkipOrdered
  <2>2. pc'[t] = "iterate" /\ index'[t] = index[t] + Descriptor(at[t]).inc
    BY <1>0, <1>2, <2>1
  <2>3. Within(Descriptor(at[t]).inc, index[t], range[t].upper)
    BY <1>2, <2>1
  <2> QED BY <2>1, <2>2, <2>3, OneHand
<1>10. CASE OrderedEnd(t)
  <2>1. /\ pc[t] = "iterate" /\ pc'[t] = "next" /\ UNCHANGED <<ran, twice, at, iteration>>
        /\ ~Within(slots[loop[t]].inc, index[t], range[t].upper)
    BY <1>0, <1>10 DEF OrderedEnd, Goto, locals, history
  <2>2. From(t) = index[t] /\ index[t] \in Int /\ range[t].upper \in Int
    BY <1>0, <2>1 DEF From
  <2>3. \A x \in Int : ~InHand(t, x)
    BY <1>2, <2>1, <2>2, WithinFacts DEF InHand
  <2>4. \A x : ~InHand(t, x)'
    BY <2>1 DEF InHand, Holding
  <2>5. HandStep(t, {})
    BY <1>0, <2>1, <2>3, RunNothing DEF HandStep
  <2>6. Shrinks(t, {})
    BY <2>1, <2>4 DEF Shrinks
  <2> QED BY <2>5, <2>6
<1> QED BY <1>3, <1>4, <1>5, <1>6, <1>7, <1>8, <1>9, <1>10 DEF Keeping

LEMMA OtherHand ==
    ASSUME Types, OnceRight, NEW t \in Active, Step(t), ~Keeping(t)
    PROVE  /\ UNCHANGED <<ran, twice>> /\ pc[t] \notin Holding
           /\ HandStep(t, {})
<1>1. UNCHANGED <<ran, twice>> /\ pc[t] \notin Holding
  <2>1. CASE Alloc(t) \/ Fill(t) \/ Publish(t) \/ Attach(t)
    BY <2>1 DEF Alloc, Fill, Publish, Attach, history, Holding
  <2>2. CASE NextFixed(t) \/ NextDynamic(t) \/ GuidedTake(t)
    BY <2>2 DEF NextFixed, NextDynamic, GuidedTake, history, Holding
  <2>3. CASE FreeCount(t) \/ FreeLast(t) \/ EndLoop(t)
    BY <2>3 DEF FreeCount, FreeWhen, FreeLast, EndLoop, history, Holding
  <2> QED BY <2>1, <2>2, <2>3 DEF Step, Keeping
<1>2. t \in Threads
  BY ThreadFacts
<1> QED BY <1>1, <1>2, QuietHand

LEMMA StepHand ==
    ASSUME Types, RingRight, OnceRight, NEW t \in Active, Step(t), pc'[t] # "abort"
    PROVE  \E R : HandStep(t, R) /\ (Keeping(t) => Shrinks(t, R)) /\ (~Keeping(t) => R = {})
<1>1. CASE Keeping(t)
  BY <1>1, KeepingHand
<1>2. CASE ~Keeping(t)
  BY <1>2, OtherHand
<1> QED BY <1>1, <1>2

\* What has been run or is in a hand stays so.
Grows ==
    \A k \in 1 .. Len(program), x \in Int : IsIteration(k, x) /\ Covered(k, x) => Covered(k, x)'

LEMMA CoveredGrows ==
    ASSUME Types, NEW t \in Active, Step(t), NEW R, HandStep(t, R)
    PROVE  Grows
<1> SUFFICES ASSUME NEW k \in 1 .. Len(program), NEW x \in Int, IsIteration(k, x), Covered(k, x)
             PROVE  Covered(k, x)'
  BY DEF Grows
<1>0. t \in Threads /\ Active' = Active
  BY ThreadFacts, StepRegion, RegionFrame
<1>1. CASE \E r \in ran[k] : r[2] = x
  <2>1. ran[k] \subseteq ran'[k]
    BY DEF HandStep, RunsOnly
  <2> QED BY <1>1, <2>1 DEF Covered
<1>2. ASSUME NEW u \in Active, u # t, at[u] = k, InHand(u, x) PROVE Covered(k, x)'
  <2>1. u \in Threads
    BY <1>2, ThreadFacts
  <2>2. at'[u] = k /\ InHand(u, x)'
    BY <1>0, <1>2, <2>1, OthersPlace, OthersHand
  <2> QED BY <1>0, <2>2 DEF Covered
<1>3. CASE at[t] = k /\ InHand(t, x)
  <2>1. CASE x \in R
    <3>1. ran'[k] = ran[k] \cup {<<t, i>> : i \in R}
      BY <1>3 DEF HandStep, RunsOnly
    <3>2. <<t, x>> \in ran'[k] /\ <<t, x>>[2] = x
      BY <2>1, <3>1
    <3> QED BY <3>2 DEF Covered
  <2>2. CASE at'[t] = at[t] /\ InHand(t, x)'
    BY <1>0, <1>3, <2>2 DEF Covered
  <2> QED BY <1>3, <2>1, <2>2 DEF HandStep
<1> QED BY <1>1, <1>2, <1>3 DEF Covered

(***************************************************************************)
(* What has been run, step by step                                         *)
(***************************************************************************)
LEMMA AtStep ==
    ASSUME NEW t, Step(t), ~EndLoop(t)
    PROVE  at' = at
<1>1. CASE Alloc(t) \/ Fill(t) \/ Publish(t) \/ Attach(t)
  BY <1>1 DEF Alloc, Fill, Publish, Attach, locals
<1>2. CASE NextFixed(t) \/ NextDynamic(t) \/ GuidedTake(t)
  BY <1>2 DEF NextFixed, NextDynamic, GuidedTake
<1>3. CASE GuidedRead(t) \/ GuidedEstimate(t) \/ GuidedAdjust(t) \/ Body(t) \/ OrderedBegin(t)
  BY <1>3 DEF GuidedRead, GuidedEstimate, GuidedAdjust, Body, OrderedBegin
<1>4. CASE Ordered(t) \/ EndOrdered(t) \/ SkipOrdered(t) \/ OrderedEnd(t)
  BY <1>4 DEF Ordered, EndOrdered, SkipOrdered, OrderedEnd, locals
<1>5. CASE FreeCount(t) \/ FreeLast(t)
  BY <1>5 DEF FreeCount, FreeWhen, FreeLast
<1> QED BY <1>1, <1>2, <1>3, <1>4, <1>5 DEF Step

LEMMA EnteredGrows ==
    ASSUME Types, NEW t \in Active, Step(t), pc'[t] # "abort", NEW u \in Active
    PROVE  Entered(u) \in Nat /\ Entered(u)' \in Int /\ Entered(u) <= Entered(u)'
<1>0. t \in Threads /\ u \in Threads /\ Entered(u) \in Nat /\ at[u] \in Nat \ {0}
      /\ at \in [Threads -> 1 .. Len(program)] /\ Len(program) \in Nat
  BY ThreadFacts, RegionFacts DEF Types
<1>1. CASE u # t
  <2>1. at'[u] = at[u] /\ pc'[u] = pc[u]
    BY <1>0, <1>1, OthersPlace DEF Same
  <2> QED BY <1>0, <2>1 DEF Entered
<1>2. CASE u = t /\ EndLoop(t)
  <2>1. pc[t] = "after" /\ at'[t] = IF at[t] = Len(program) THEN at[t] ELSE at[t] + 1
    BY <1>0, <1>2 DEF EndLoop
  <2>2. pc' = [pc EXCEPT ![t] = IF at[t] = Len(program) THEN "done" ELSE "begin"]
        /\ pc \in [Threads -> Label]
    BY <1>2 DEF EndLoop, Goto, Types
  <2>3. pc'[t] = IF at[t] = Len(program) THEN "done" ELSE "begin"
    BY <1>0, <2>2
  <2>4. Entered(t) = at[t]
    BY <2>1 DEF Entered, Entering
  <2>5. Entered(t)' = at[t]
    BY <1>0, <1>2, <2>1, <2>3 DEF Entered, Entering
  <2> QED BY <1>0, <1>2, <2>4, <2>5
<1>3. CASE u = t /\ ~EndLoop(t)
  <2>1. at'[t] = at[t]
    BY <1>3, AtStep
  <2>2. CASE pc[t] \in {"begin"} \cup Entering
    BY <1>0, <1>3, <2>1, <2>2 DEF Entered
  <2>3. CASE pc[t] \notin {"begin"} \cup Entering
    <3>1. ~Alloc(t) /\ ~Fill(t) /\ ~Publish(t) /\ ~Attach(t)
      BY <2>3 DEF Alloc, Fill, Publish, Attach, Entering
    <3>2. Inner(t) \/ FreeCount(t) \/ FreeLast(t)
      BY <1>3, <3>1 DEF Step, Inner
    <3>3. pc'[t] \notin {"begin"} \cup Entering
      <4>1. CASE Inner(t)
        <5>1. PICK label \in Working \cup {"abort"} : pc' = [pc EXCEPT ![t] = label]
          BY <1>0, <4>1, InnerEffect
        <5>2. pc'[t] = label
          BY <1>0, <5>1 DEF Types
        <5> QED BY <5>2, <5>1 DEF Working, Entering
      <4>2. CASE FreeCount(t) \/ FreeLast(t)
        BY <1>0, <4>2, StepLeads DEF Entering
      <4> QED BY <3>2, <4>1, <4>2
    <3> QED BY <1>0, <1>3, <2>1, <2>3, <3>3 DEF Entered
  <2> QED BY <2>2, <2>3
<1> QED BY <1>1, <1>2, <1>3

\* What thread t runs is for it, and nobody has run it.
LEMMA RunsNew ==
    ASSUME Types, OnceRight, NEW t \in Active, NEW R, HandStep(t, R), NEW x \in R
    PROVE  /\ pc[t] \in Working /\ pc[t] \in Holding /\ x \in Int
           /\ IsIteration(at[t], x)
           /\ Mine(at[t], t, x)
           /\ ~Shared(at[t]) => Given(at[t], t, x)
           /\ \A r \in ran[at[t]] : r[2] # x
<1>1. x \in Int /\ IsIteration(at[t], x) /\ InHand(t, x)
  BY DEF HandStep
<1>2. pc[t] \in Holding /\ pc[t] \in Working
  BY <1>1 DEF InHand, Holding, Working
<1>3. HandOnce(t)
  BY DEF OnceRight
<1>4. ~Shared(at[t]) => Given(at[t], t, x)
  BY <1>1, <1>2, <1>3 DEF HandOnce
<1>5. Mine(at[t], t, x)
  BY <1>4 DEF Given, Mine
<1>6. \A r \in ran[at[t]] : r[2] # x
  BY <1>1, <1>2, <1>3 DEF HandOnce
<1> QED BY <1>1, <1>2, <1>4, <1>5, <1>6

LEMMA RanRightStep ==
    ASSUME Types, OnceRight, NEW t \in Active, Step(t), pc'[t] # "abort",
           NEW R, HandStep(t, R), NEW k \in 1 .. Len(program)
    PROVE  RanRight(k)' /\ ~twice'
<1>0. Active' = Active /\ at[t] \in 1 .. Len(program) /\ t \in Threads
  BY StepRegion, RegionFrame, ThreadFacts DEF Types
<1>1. ~twice'
  <2>1. \A r \in ran[at[t]] : r[2] \notin R
    BY RunsNew
  <2> QED BY <2>1 DEF OnceRight, HandStep, RunsOnly
<1>2. ASSUME NEW r \in ran'[k]
      PROVE  /\ r[1] \in Active /\ r[2] \in Int
             /\ IsIteration(k, r[2]) /\ Mine(k, r[1], r[2]) /\ k <= Entered(r[1])
  <2>1. CASE r \in ran[k]
    BY <2>1 DEF OnceRight, RanRight
  <2>2. CASE r \notin ran[k]
    <3>1. k = at[t] /\ r \in {<<t, i>> : i \in R}
      BY <2>2, <1>2 DEF HandStep, RunsOnly
    <3>2. PICK x \in R : r = <<t, x>>
      BY <3>1
    <3>3. r[1] = t /\ r[2] = x
      BY <3>2
    <3>4. x \in Int /\ IsIteration(k, x) /\ Mine(k, t, x) /\ pc[t] \in Holding
      BY <3>1, <3>2, RunsNew
    <3>5. Entered(t) = at[t] /\ at[t] \in Int
      BY <1>0, <3>4 DEF Entered, Entering, Holding
    <3> QED BY <3>1, <3>3, <3>4, <3>5
  <2> QED BY <2>1, <2>2
<1>3. ASSUME NEW r \in ran'[k] PROVE k <= Entered(r[1])'
  <2>1. r[1] \in Active /\ k <= Entered(r[1])
    BY <1>2
  <2> DEFINE u == r[1]
  <2> HIDE DEF u
  <2>2. u \in Active /\ k <= Entered(u) /\ k \in Int
    BY <2>1 DEF u
  <2>3. Entered(u) \in Nat /\ Entered(u)' \in Int /\ Entered(u) <= Entered(u)'
    BY <2>2, EnteredGrows
  <2>4. k <= Entered(u)'
    BY <2>2, <2>3
  <2> QED BY <2>4 DEF u
<1>4. /\ \A x : IsIteration(k, x)' = IsIteration(k, x)
      /\ \A u, x : Mine(k, u, x)' = Mine(k, u, x)
  BY StepRegion, DescriptorFrame
<1>5. RanRight(k)'
  BY <1>0, <1>2, <1>3, <1>4 DEF RanRight
<1> QED BY <1>1, <1>5

\* The hands of the threads that do nothing.
LEMMA OthersOnce ==
    ASSUME Types, RingRight, RangesRight, OnceRight, NEW t \in Active, Step(t),
           NEW R, HandStep(t, R), NEW u \in Active, u # t, NEW k \in Nat, k = at[u]
    PROVE  HandOnce(u)'
<1>0. t \in Threads /\ u \in Threads /\ at[u] \in 1 .. Len(program)
  BY ThreadFacts DEF Types
<1>1. pc'[u] = pc[u] /\ at'[u] = k
  BY <1>0, OthersPlace DEF Same
<1>2. /\ \A x : InHand(u, x)' = InHand(u, x)
      /\ \A x : Given(k, u, x)' = Given(k, u, x)
  BY <1>0, OthersHand
<1>3. /\ \A x : IsIteration(k, x)' = IsIteration(k, x)
      /\ Shared(k)' = Shared(k)
  BY StepRegion, DescriptorFrame
<1>4. HandOnce(u) /\ HandRange(t) /\ HandRange(u) /\ Described
  BY DEF OnceRight
<1> SUFFICES ASSUME pc[u] \in Working
             PROVE  /\ \A r \in ran'[k] : ~InHand(u, r[2])
                    /\ ~Shared(k) =>
                        /\ \A r \in ran'[k] : r[1] = u => Given(k, u, r[2])
                        /\ \A x \in Int : InHand(u, x) => Given(k, u, x)
                        /\ \A x \in Int : IsIteration(k, x) /\ Given(k, u, x) => Covered(k, x)'
  BY <1>1, <1>2, <1>3 DEF HandOnce
<1>5. ASSUME NEW r \in ran'[k], r \notin ran[k]
      PROVE  k = at[t] /\ r[1] = t /\ r[2] \in R /\ r[2] \in Int /\ InHand(t, r[2])
  <2>1. k = at[t] /\ r \in {<<t, i>> : i \in R}
    BY <1>0, <1>5 DEF HandStep, RunsOnly
  <2>2. PICK x \in R : r = <<t, x>>
    BY <2>1
  <2>3. x \in Int /\ InHand(t, x)
    BY <2>2 DEF HandStep
  <2> QED BY <2>1, <2>2, <2>3
<1>6. ASSUME NEW r \in ran'[k] PROVE ~InHand(u, r[2])
  <2>1. CASE r \in ran[k]
    BY <2>1, <1>4 DEF HandOnce
  <2>2. CASE r \notin ran[k]
    BY <1>4, <1>5, <2>2, HandsApart
  <2> QED BY <2>1, <2>2
<1>7. ASSUME ~Shared(k), NEW r \in ran'[k], r[1] = u PROVE Given(k, u, r[2])
  BY <1>4, <1>5, <1>7 DEF HandOnce
<1>8. ASSUME ~Shared(k), NEW x \in Int, InHand(u, x) PROVE Given(k, u, x)
  BY <1>4, <1>8 DEF HandOnce
<1>9. ASSUME ~Shared(k), NEW x \in Int, IsIteration(k, x), Given(k, u, x) PROVE Covered(k, x)'
  <2>1. Covered(k, x)
    BY <1>4, <1>9 DEF HandOnce
  <2>2. Grows
    BY CoveredGrows
  <2> QED BY <1>0, <1>9, <2>1, <2>2 DEF Grows
<1> QED BY <1>6, <1>7, <1>8, <1>9

\* The hand of a thread that works and is handed nothing.
LEMMA KeepingOnce ==
    ASSUME Types, OnceRight, NEW t \in Active, Step(t), NEW R, HandStep(t, R), Shrinks(t, R),
           pc[t] \in Working, NEW k \in Nat, k = at[t]
    PROVE  HandOnce(t)'
<1>0. t \in Threads /\ at[t] \in 1 .. Len(program)
  BY ThreadFacts DEF Types
<1>1. at'[t] = k /\ HandOnce(t)
  BY DEF Shrinks, OnceRight
<1>2. /\ \A x : IsIteration(k, x)' = IsIteration(k, x)
      /\ Shared(k)' = Shared(k)
  BY StepRegion, DescriptorFrame
<1>3. ~Shared(k) => \A x : Given(k, t, x)' = Given(k, t, x)
  <2> HAVE ~Shared(k)
  <2>1. iteration'[t] = iteration[t]
    BY DEF Shrinks
  <2>2. /\ Descriptor(k)' = Descriptor(k) /\ Share(k, t)' = Share(k, t)
        /\ \A x : Mine(k, t, x)' = Mine(k, t, x)
    BY StepRegion, DescriptorFrame
  <2>3. N' = N
    BY StepRegion, RegionFrame
  <2> QED BY <2>1, <2>2, <2>3 DEF Given
<1> SUFFICES /\ \A r \in ran'[k] : ~InHand(t, r[2])'
             /\ ~Shared(k) =>
                  /\ \A r \in ran'[k] : r[1] = t => Given(k, t, r[2])
                  /\ \A x \in Int : InHand(t, x)' => Given(k, t, x)
                  /\ \A x \in Int : IsIteration(k, x) /\ Given(k, t, x) => Covered(k, x)'
  BY <1>1, <1>2, <1>3 DEF HandOnce
<1>4. ASSUME NEW r \in ran'[k], r \notin ran[k]
      PROVE  r[1] = t /\ r[2] \in R /\ r[2] \in Int
  <2>1. r \in {<<t, i>> : i \in R}
    BY <1>0, <1>4 DEF HandStep, RunsOnly
  <2>2. PICK x \in R : r = <<t, x>>
    BY <2>1
  <2>3. x \in Int
    BY <2>2 DEF HandStep
  <2> QED BY <2>1, <2>2, <2>3
<1>5. \A r \in ran[k] : r[2] \in Int
  BY <1>0 DEF OnceRight, RanRight
<1>6. ASSUME NEW r \in ran'[k] PROVE ~InHand(t, r[2])'
  <2> DEFINE x == r[2]
  <2>1. x \in Int
    BY <1>4, <1>5
  <2>2. r \in ran[k] => ~InHand(t, x)
    BY <1>1 DEF HandOnce
  <2>3. r \notin ran[k] => x \in R
    BY <1>4
  <2> HIDE DEF x
  <2>4. ~InHand(t, x)'
    BY <2>1, <2>2, <2>3 DEF Shrinks
  <2> QED BY <2>4 DEF x
<1>7. ASSUME ~Shared(k), NEW r \in ran'[k], r[1] = t PROVE Given(k, t, r[2])
  <2>1. CASE r \in ran[k]
    BY <1>1, <1>7, <2>1 DEF HandOnce
  <2>2. CASE r \notin ran[k]
    <3> DEFINE x == r[2]
    <3>1. x \in R
      BY <1>4, <2>2
    <3> HIDE DEF x
    <3>2. Given(k, t, x)
      BY <1>7, <3>1, RunsNew
    <3> QED BY <3>2 DEF x
  <2> QED BY <2>1, <2>2
<1>8. ASSUME ~Shared(k), NEW x \in Int, InHand(t, x)' PROVE Given(k, t, x)
  BY <1>1, <1>8 DEF HandOnce, Shrinks
<1>9. ASSUME ~Shared(k), NEW x \in Int, IsIteration(k, x), Given(k, t, x) PROVE Covered(k, x)'
  <2>1. Covered(k, x)
    BY <1>1, <1>9 DEF HandOnce
  <2>2. Grows
    BY CoveredGrows
  <2> QED BY <1>0, <1>9, <2>1, <2>2 DEF Grows
<1> QED BY <1>6, <1>7, <1>8, <1>9

\* A thread that enters a loop has run nothing of it.
LEMMA EnterOnce ==
    ASSUME Types, OnceRight, NEW t \in Active, Step(t), UNCHANGED <<at, ran>>,
           pc[t] \in Entering, pc'[t] = "next", iteration'[t] = 0, NEW k \in Nat, k = at[t]
    PROVE  HandOnce(t)'
<1>0. t \in Threads /\ k \in 1 .. Len(program)
  BY ThreadFacts DEF Types
<1>1. \A x : ~InHand(t, x)'
  BY DEF InHand, Holding
<1>2. \A x : ~Given(k, t, x)'
  BY DEF Given
<1>3. \A r \in ran[k] : r[1] # t
  <2>1. \A r \in ran[k] : k <= Entered(r[1])
    BY <1>0 DEF OnceRight, RanRight
  <2>2. ~(k <= Entered(t))
    BY <1>0 DEF Entered
  <2> QED BY <2>1, <2>2
<1> QED BY <1>1, <1>2, <1>3 DEF HandOnce

\* What is new when a step finishes a loop.
LEMMA FinishedStep ==
    ASSUME Types, OnceRight, NEW t \in Active, Step(t), pc'[t] # "abort", NEW R, HandStep(t, R),
           NEW u \in Active, NEW k \in 1 .. Len(program),
           u = t /\ k = at[t] /\ pc'[t] = "free" => FinishedRight(u, k)'
    PROVE  FinishedRight(u, k)'
<1>0. t \in Threads /\ u \in Threads /\ at \in [Threads -> 1 .. Len(program)]
      /\ Len(program) \in Nat /\ at[u] \in Nat
  BY ThreadFacts, RegionFacts DEF Types
<1>1. CASE u = t /\ k = at[t] /\ pc'[t] = "free"
  BY <1>1
<1>2. CASE ~(u = t /\ k = at[t] /\ pc'[t] = "free")
  <2> SUFFICES ASSUME Finished(u, k)', NEW x \in Int, IsIteration(k, x), Mine(k, u, x)
               PROVE  Covered(k, x)'
    <3>1. /\ \A x : IsIteration(k, x)' = IsIteration(k, x)
          /\ \A x : Mine(k, u, x)' = Mine(k, u, x)
      BY StepRegion, DescriptorFrame
    <3> QED BY <3>1 DEF FinishedRight
  <2>1. Finished(u, k)
    <3>1. CASE u # t
      <4>1. at'[u] = at[u] /\ pc'[u] = pc[u]
        BY <1>0, <3>1, OthersPlace DEF Same
      <4> QED BY <4>1 DEF Finished
    <3>2. CASE u = t /\ EndLoop(t)
      <4>1. pc[t] = "after" /\ at'[t] = IF at[t] = Len(program) THEN at[t] ELSE at[t] + 1
        BY <1>0, <3>2 DEF EndLoop
      <4>2. k <= at[t]
        <5>1. k <= at'[t]
          BY <1>0, <3>2, <4>1 DEF Finished
        <5>2. CASE at[t] = Len(program)
          BY <4>1, <5>1, <5>2
        <5>3. CASE at[t] # Len(program)
          <6>1. pc' = [pc EXCEPT ![t] = "begin"] /\ pc \in [Threads -> Label]
            BY <3>2, <5>3 DEF EndLoop, Goto, Types
          <6>2. pc'[t] = "begin"
            BY <1>0, <6>1
          <6>3. k < at'[t]
            BY <3>2, <6>2 DEF Finished
          <6> QED BY <1>0, <3>2, <4>1, <5>3, <6>3
        <5> QED BY <5>2, <5>3
      <4> QED BY <1>0, <3>2, <4>1, <4>2 DEF Finished
    <3>3. CASE u = t /\ ~EndLoop(t)
      <4>1. at'[t] = at[t]
        BY <3>3, AtStep
      <4> SUFFICES ASSUME k = at[t], pc'[t] \in {"unuse", "after", "done"}
                   PROVE  pc[t] \in {"free", "unuse", "after", "done"}
        BY <1>2, <3>3, <4>1 DEF Finished
      <4>2. ~Inner(t)
        <5> SUFFICES ASSUME Inner(t) PROVE FALSE
          OBVIOUS
        <5>1. PICK label \in Working \cup {"abort"} : pc' = [pc EXCEPT ![t] = label]
          BY <1>0, InnerEffect
        <5>2. pc'[t] = label
          BY <1>0, <5>1 DEF Types
        <5> QED BY <5>2, <5>1 DEF Working
      <4>3. ~Alloc(t) /\ ~Fill(t) /\ ~Publish(t) /\ ~Attach(t)
        BY <1>0, StepLeads
      <4>4. FreeCount(t) \/ FreeLast(t)
        BY <3>3, <4>2, <4>3 DEF Step, Inner
      <4> QED BY <4>4 DEF FreeCount, FreeWhen, FreeLast
    <3> QED BY <3>1, <3>2, <3>3
  <2>2. Covered(k, x)
    BY <2>1 DEF OnceRight, FinishedRight
  <2> QED BY <2>2, CoveredGrows DEF Grows
<1> QED BY <1>1, <1>2

\* The range of a thread that works and is handed nothing.
LEMMA KeepingRange ==
    ASSUME Types, RingRight, OnceRight, NEW t \in Active, Keeping(t), Step(t), pc'[t] # "abort"
    PROVE  HandRange(t)'
<1> DEFINE D == Descriptor(at[t])
           inc == D.inc
           low == D.lower
           a == range[t].lower
           b == range[t].upper
           i == index[t]
<1>0. /\ t \in Threads /\ pc \in [Threads -> Label] /\ index \in [Threads -> Int]
      /\ range \in [Threads -> [lower : Int, upper : Int]]
      /\ range[t] = [lower |-> range[t].lower, upper |-> range[t].upper]
      /\ guess \in [Threads -> [chunk : Int, stride : Int]]
  BY ThreadFacts DEF Types
<1>1. pc[t] \in Working /\ Described /\ HandRange(t)
  BY DEF Keeping, GuidedRead, GuidedEstimate, GuidedAdjust, Body, OrderedBegin, Ordered,
         EndOrdered, SkipOrdered, OrderedEnd, Working, OnceRight
<1>2. /\ slots[loop[t]] \in SlotRecord /\ Matches(slots[loop[t]], D)
      /\ inc \in Int \ {0} /\ low \in Int /\ D.upper \in Int
  BY <1>1, MyDescriptor
<1>3. Descriptor(at[t])' = D /\ N' = N /\ at' = at
  <2>1. at' = at
    BY AtStep DEF Keeping, GuidedRead, GuidedEstimate, GuidedAdjust, Body, OrderedBegin, Ordered,
         EndOrdered, SkipOrdered, OrderedEnd, EndLoop
  <2>2. UNCHANGED region
    BY StepRegion
  <2> QED BY <2>1, <2>2, RegionFrame DEF Descriptor, program
<1>4. a \in Int /\ b \in Int /\ i \in Int
  BY <1>0, FromType
<1>5. pc[t] \in Holding => On(low, inc, From(t)) /\ Within(inc, a, From(t)) /\ Within(inc, b, D.upper)
  BY <1>1 DEF HandRange, Aligned
<1>6. ASSUME pc'[t] \in {"body", "iterate", "inside"},
             On(low, inc, From(t)'), Within(inc, a, From(t)'), pc[t] \in Holding,
             range'[t] = range[t], pc'[t] = "inside" => Within(inc, index'[t], b)
      PROVE  HandRange(t)'
  BY <1>3, <1>5, <1>6 DEF HandRange, Aligned
<1>7. CASE GuidedRead(t)
  <2>1. pc'[t] = "estimate" /\ N > 1 /\ slots[loop[t]].sched = "GUIDED"
    BY <1>0, <1>7 DEF GuidedRead, Goto
  <2> QED BY <1>2, <1>3, <2>1 DEF HandRange, Matches, Holding
<1>8. CASE GuidedEstimate(t)
  <2> DEFINE l == slots[loop[t]]
             c == MaxOf(l.min_chunk, MinOf(guess[t].chunk, l.upper - l.current + 1))
  <2>1. /\ pc[t] = "estimate" /\ pc'[t] = "take"
        /\ guess' = [guess EXCEPT ![t].stride = l.inc * c]
    BY <1>0, <1>8 DEF GuidedEstimate, Goto
  <2>2. c \in Nat \ {0}
    <3>1. l.min_chunk \in Nat \ {0} /\ l.upper - l.current + 1 \in Int /\ guess[t].chunk \in Int
      BY <1>0, <1>2 DEF SlotRecord
    <3> QED BY <3>1 DEF MaxOf, MinOf
  <2>3. guess'[t].stride = l.inc * c /\ l.inc = inc
    BY <1>0, <1>2, <2>1 DEF Matches
  <2> HIDE DEF l, c, inc
  <2>4. guess'[t].stride = c * inc
    BY <1>2, <2>2, <2>3
  <2>5. N > 1 /\ D.sched = "GUIDED"
    BY <1>1, <2>1 DEF HandRange
  <2> QED BY <1>3, <2>1, <2>2, <2>4, <2>5 DEF HandRange, Holding, inc
<1>9. CASE GuidedAdjust(t)
  <2>1. pc[t] = "adjust"
    BY <1>9 DEF GuidedAdjust
  <2>2. Hand(t, Reply(TRUE, range[t].lower, range[t].upper))
    BY <1>9 DEF GuidedAdjust
  <2>3. /\ pc' = [pc EXCEPT ![t] = "body"]
        /\ range' = [range EXCEPT ![t] = [lower |-> range[t].lower, upper |-> range[t].upper]]
    BY <2>2 DEF Hand, Reply, Goto
  <2>4. pc'[t] = "body" /\ range'[t] = range[t]
    BY <1>0, <2>3
  <2>5. From(t)' = From(t)
    BY <2>1, <2>4 DEF From
  <2> QED BY <1>5, <1>6, <2>1, <2>4, <2>5 DEF Holding
<1>10. CASE Body(t) \/ OrderedEnd(t)
  <2>1. pc'[t] = "next"
    BY <1>0, <1>10, StepLeads
  <2> QED BY <2>1 DEF HandRange, Holding
<1>11. CASE OrderedBegin(t)
  <2>1. /\ pc[t] = "body" /\ pc'[t] = "iterate" /\ index'[t] = range[t].lower /\ range'[t] = range[t]
    BY <1>0, <1>11 DEF OrderedBegin, Goto
  <2>2. From(t)' = From(t)
    BY <2>1 DEF From
  <2> QED BY <1>5, <1>6, <2>1, <2>2 DEF Holding
<1>12. CASE Ordered(t)
  <2>1. /\ pc[t] = "iterate" /\ pc'[t] = "inside" /\ index' = index /\ range' = range
        /\ Within(slots[loop[t]].inc, index[t], range[t].upper)
    BY <1>0, <1>12 DEF Ordered, locals, Goto
  <2>2. From(t)' = From(t) /\ Within(inc, index'[t], b)
    BY <1>2, <2>1 DEF From, Matches
  <2> QED BY <1>5, <1>6, <2>1, <2>2 DEF Holding
<1>13. CASE EndOrdered(t) \/ SkipOrdered(t)
  <2>1. /\ pc[t] \in {"iterate", "inside"} /\ range' = range /\ pc'[t] = "iterate"
        /\ index' = [index EXCEPT ![t] = @ + slots[loop[t]].inc]
    <3>1. CASE EndOrdered(t)
      BY <1>0, <3>1 DEF EndOrdered, Goto
    <3>2. CASE SkipOrdered(t)
      BY <1>0, <3>2 DEF SkipOrdered
    <3> QED BY <1>13, <3>1, <3>2
  <2>2. From(t)' = i + inc /\ From(t) = i
    BY <1>0, <1>2, <2>1 DEF From, Matches
  <2>3. On(low, inc, i) /\ Within(inc, a, i)
    BY <1>5, <2>1, <2>2 DEF Holding
  <2> HIDE DEF D, inc, low, a, i
  <2>4. On(low, inc, i + inc)
    BY <1>2, <2>3, OnStep
  <2>5. Within(inc, a, i + inc)
    <3> DEFINE j == i + inc
    <3>1. j \in Int /\ Within(inc, i, j)
      BY <1>2, <1>4, WithinSelf
    <3> HIDE DEF j
    <3>2. Within(inc, a, j)
      BY <1>2, <1>4, <2>3, <3>1, WithinFacts
    <3> QED BY <3>2 DEF j
  <2> QED BY <1>6, <2>1, <2>2, <2>4, <2>5 DEF Holding
<1> QED BY <1>7, <1>8, <1>9, <1>10, <1>11, <1>12, <1>13 DEF Keeping

\* A thread takes a range at current.
LEMMA SharedTake ==
    ASSUME Types, RingRight, OnceRight, NEW t \in Active, Step(t), pc[t] \in Working \ Holding,
           NEW k \in 1 .. Len(program), k = at[t], Shared(k), NEW s \in 0 .. Slots - 1, s = loop[t],
           NEW m \in Nat \ {0}, NEW stride \in Int, stride = m * Descriptor(k).inc,
           slots' = [slots EXCEPT ![s].current = @ + stride], UNCHANGED <<at, ran, twice>>,
           \/ /\ ChunkAt(slots[s], slots[s].current, stride).more
              /\ range'[t].lower = ChunkAt(slots[s], slots[s].current, stride).lower
              /\ range'[t].upper = ChunkAt(slots[s], slots[s].current, stride).upper
              /\ pc'[t] = "body" \/ (pc'[t] = "adjust" /\ Descriptor(k).sched = "GUIDED")
           \/ /\ ~ChunkAt(slots[s], slots[s].current, stride).more
              /\ pc'[t] = "free"
    PROVE  /\ HandRange(t)' /\ HandOnce(t)'
           /\ CurrentOnce(s)'
           /\ pc'[t] = "free" => FinishedRight(t, k)'
<1> DEFINE D == Descriptor(k)
           inc == D.inc
           low == D.lower
           upper == D.upper
           cur == slots[s].current
           new == cur + stride
           top == LoopMin(inc, upper, new - inc)
<1>0. t \in Threads /\ pc[t] \in Working /\ N > 1
  BY ThreadFacts DEF Shared
<1>1. /\ slots[s] \in SlotRecord /\ slots[s].number = k /\ slots[s].loop_id # Unused
      /\ inc \in Int \ {0} /\ low \in Int /\ upper \in Int /\ cur \in Int
      /\ slots[s].inc = inc /\ slots[s].upper = upper
  <2>1. Described
    BY DEF OnceRight
  <2> QED BY <1>0, <2>1, MyDescriptor DEF Matches, SlotRecord
<1>2. /\ slots'[s].number = k /\ slots'[s].inc = inc
      /\ slots'[s].current = new
  BY <1>1 DEF Types, SlotRecord
<1>3. /\ ChunkAt(slots[s], cur, stride).more = Within(inc, cur, upper)
      /\ ChunkAt(slots[s], cur, stride).lower = cur
      /\ ChunkAt(slots[s], cur, stride).upper = top
  BY <1>1 DEF ChunkAt, Reply
<1>4. /\ \A x : IsIteration(k, x)' = IsIteration(k, x)
      /\ \A x : Mine(k, t, x)' = Mine(k, t, x)
      /\ \A x : Aligned(k, x)' = Aligned(k, x)
      /\ Shared(k)' = Shared(k) /\ Descriptor(k)' = D
  BY StepRegion, DescriptorFrame
<1>5. at'[t] = k /\ ran' = ran /\ N' = N /\ Active' = Active
  BY StepRegion, RegionFrame
<1>6. /\ On(low, inc, cur)
      /\ \A r \in ran[k] : Before(inc, r[2], cur)
      /\ \A x \in Int : IsIteration(k, x) /\ Before(inc, x, cur) => Covered(k, x)
  <2>1. CurrentOnce(s)
    BY DEF OnceRight
  <2> QED BY <1>1, <2>1 DEF CurrentOnce, Aligned
<1>7. \A x : IsIteration(k, x) <=> On(low, inc, x) /\ Within(inc, x, upper)
  BY DEF IsIteration, Aligned
<1>8. Descriptor(at[t])' = D
  BY <1>5, StepRegion DEF Descriptor, program
<1>9. Grows
  <2>1. HandStep(t, {})
    BY <1>0, QuietHand
  <2> QED BY <2>1, CoveredGrows
<1>10. \A r \in ran[k] : r[2] \in Int
  BY DEF OnceRight, RanRight
<1> HIDE DEF D, inc, low, upper, cur
<1>11. new \in Int /\ On(low, inc, new) /\ Before(inc, cur, new)
  <2>1. On(low, inc, cur + m * inc)
    BY <1>1, <1>6, OnAhead
  <2>2. stride = m * inc
    BY DEF inc, D
  <2>3. Within(inc, inc, m * inc)
    <3>1. m \in Nat /\ m >= 1
      OBVIOUS
    <3>2. m >= 1 => Within(inc, inc, m * inc)
      BY <1>1, <3>1, Ahead
    <3> QED BY <3>1, <3>2
  <2>4. Before(inc, cur, cur + stride)
    <3>1. Within(inc, inc, stride)
      BY <2>2, <2>3
    <3> QED BY <1>1, <3>1 DEF Within, Before
  <2> QED BY <1>1, <2>1, <2>2, <2>4
<1>12. top \in Int /\ Within(inc, top, upper)
       /\ \A x \in Int : Within(inc, x, top) <=> Within(inc, x, upper) /\ Within(inc, x, new - inc)
  <2> DEFINE e == new - inc
  <2>1. e \in Int
    BY <1>1, <1>11
  <2> HIDE DEF e
  <2>2. /\ LoopMin(inc, upper, e) \in Int /\ Within(inc, LoopMin(inc, upper, e), upper)
        /\ \A x \in Int : Within(inc, x, LoopMin(inc, upper, e)) <=>
                            Within(inc, x, upper) /\ Within(inc, x, e)
    BY <1>1, <2>1, WithinMin
  <2> QED BY <2>2 DEF e
<1> HIDE DEF new, top
<1>13. ASSUME pc'[t] # "free"
       PROVE  /\ pc'[t] \in {"body", "adjust"} /\ range'[t].lower = cur /\ range'[t].upper = top
              /\ pc'[t] = "adjust" => D.sched = "GUIDED"
  BY <1>3, <1>13 DEF cur, D
<1>14. pc'[t] = "free" => ~Within(inc, cur, upper)
  BY <1>3 DEF cur
<1>15. ~Within(inc, cur, upper) => pc'[t] = "free"
  BY <1>3 DEF cur
<1>16. \A x \in Int : InHand(t, x)' <=>
                        pc'[t] # "free" /\ Within(inc, cur, x) /\ Within(inc, x, top)
  <2>1. CASE pc'[t] = "free"
    BY <2>1 DEF InHand, Holding
  <2>2. CASE pc'[t] # "free"
    <3>1. From(t)' = cur
      BY <1>13, <2>2 DEF From
    <3> QED BY <1>8, <1>13, <2>2, <3>1 DEF InHand, Holding, inc
  <2> QED BY <2>1, <2>2
<1>17. HandRange(t)'
  <2>1. CASE pc'[t] = "free"
    BY <2>1 DEF HandRange, Holding
  <2>2. CASE pc'[t] # "free"
    <3>1. From(t)' = cur
      BY <1>13, <2>2 DEF From
    <3>2. Within(inc, cur, cur)
      BY <1>1, WithinSelf
    <3>3. Aligned(at[t], From(t))'
      BY <1>6, <1>8, <3>1 DEF Aligned, inc, low
    <3> QED BY <1>0, <1>5, <1>8, <1>12, <1>13, <2>2, <3>1, <3>2, <3>3 DEF HandRange, inc, upper
  <2> QED BY <2>1, <2>2
<1>18. HandOnce(t)'
  <2>1. ASSUME NEW r \in ran[k] PROVE ~InHand(t, r[2])'
    <3> DEFINE x == r[2]
    <3>1. x \in Int /\ Before(inc, x, cur)
      BY <1>6, <1>10
    <3> HIDE DEF x
    <3>2. ~InHand(t, x)'
      BY <1>1, <1>16, <3>1, WithinPair
    <3> QED BY <3>2 DEF x
  <2> QED BY <1>4, <1>5, <2>1 DEF HandOnce
<1>19. CurrentOnce(s)'
  <2>1. ASSUME NEW r \in ran[k] PROVE Before(inc, r[2], new)
    <3> DEFINE x == r[2]
    <3>1. x \in Int /\ Before(inc, x, cur)
      BY <1>6, <1>10
    <3> HIDE DEF x
    <3>2. Before(inc, x, new)
      BY <1>1, <1>11, <3>1, WithinFacts, WithinPair
    <3> QED BY <3>2 DEF x
  <2>2. ASSUME NEW x \in Int, IsIteration(k, x), Before(inc, x, new) PROVE Covered(k, x)'
    <3>1. CASE Before(inc, x, cur)
      BY <1>6, <1>9, <2>2, <3>1 DEF Grows
    <3>2. CASE ~Before(inc, x, cur)
      <4>1. Within(inc, cur, x)
        BY <1>1, <3>2, WithinPair
      <4>2. On(low, inc, x) /\ Within(inc, x, upper)
        BY <1>7, <2>2
      <4>3. Within(inc, x + inc, new)
        BY <1>1, <1>11, <2>2, <4>2, OnNext
      <4>4. Within(inc, x, new - inc)
        BY <1>1, <1>11, <4>3 DEF Within
      <4>5. Within(inc, cur, upper)
        BY <1>1, <4>1, <4>2, WithinFacts
      <4>6. InHand(t, x)'
        BY <1>12, <1>14, <1>16, <4>1, <4>2, <4>4, <4>5
      <4> QED BY <1>5, <4>6 DEF Covered
    <3> QED BY <3>1, <3>2
  <2>3. Aligned(k, new)
    BY <1>11 DEF Aligned, low, inc, D
  <2> QED BY <1>2, <1>4, <1>5, <2>1, <2>2, <2>3 DEF CurrentOnce
<1>20. ASSUME pc'[t] = "free" PROVE FinishedRight(t, k)'
  <2> SUFFICES ASSUME NEW x \in Int, IsIteration(k, x) PROVE Covered(k, x)'
    BY <1>4 DEF FinishedRight
  <2>1. Before(inc, upper, cur)
    BY <1>1, <1>14, <1>20, WithinPair
  <2>2. Within(inc, x, upper)
    BY <1>7
  <2>3. Before(inc, x, cur)
    BY <1>1, <2>1, <2>2, WithinFacts
  <2> QED BY <1>6, <1>9, <2>3 DEF Grows
<1> QED BY <1>17, <1>18, <1>19, <1>20

LEMMA SharedTakes ==
    ASSUME Types, RingRight, OnceRight, NEW t \in Active, Step(t), NextDynamic(t) \/ GuidedTake(t),
           NEW k \in 1 .. Len(program), k = at[t], NEW s \in 0 .. Slots - 1, s = loop[t]
    PROVE  /\ HandRange(t)' /\ HandOnce(t)'
           /\ CurrentOnce(s)'
           /\ pc'[t] = "free" => FinishedRight(t, k)'
           /\ \E x : slots' = [slots EXCEPT ![s].current = x]
<1> DEFINE D == Descriptor(k)
           l == slots[s]
<1>0. /\ t \in Threads /\ pc \in [Threads -> Label]
      /\ range \in [Threads -> [lower : Int, upper : Int]]
      /\ Described /\ HandRange(t)
  BY ThreadFacts DEF Types, OnceRight
<1>1. pc[t] \in Working \ Holding
  BY DEF NextDynamic, GuidedTake, Working, Holding
<1>2. /\ l \in SlotRecord /\ Matches(l, D) /\ D.inc \in Int \ {0}
  BY <1>0, <1>1, MyDescriptor
<1>3. UNCHANGED <<at, ran, twice>>
  BY DEF NextDynamic, GuidedTake, history
<1>4. CASE NextDynamic(t)
  <2> DEFINE c == l.chunk
             stride == l.inc * c
             reply == ChunkAt(l, l.current, stride)
  <2>1. /\ N > 1 /\ l.sched = "DYNAMIC" /\ slots' = [slots EXCEPT ![s].current = @ + stride]
        /\ Hand(t, reply)
    BY <1>4 DEF NextDynamic
  <2>2. Shared(k)
    BY <1>2, <2>1 DEF Shared, Matches
  <2>3. c \in Nat \ {0} /\ l.inc = D.inc
    BY <1>2 DEF SlotRecord, Matches
  <2>4. stride \in Int /\ stride = c * D.inc
    BY <1>2, <2>3
  <2>5. \/ reply.more /\ range'[t].lower = reply.lower /\ range'[t].upper = reply.upper /\ pc'[t] = "body"
        \/ ~reply.more /\ pc'[t] = "free"
    BY <1>0, <2>1 DEF Hand, Goto
  <2> HIDE DEF c, stride
  <2> QED BY <1>1, <1>3, <2>1, <2>2, <2>3, <2>4, <2>5, SharedTake
<1>5. CASE GuidedTake(t)
  <2> DEFINE stride == guess[t].stride
             reply == ChunkAt(l, l.current, stride)
  <2>1. /\ pc[t] = "take" /\ slots' = [slots EXCEPT ![s].current = @ + stride]
    BY <1>5 DEF GuidedTake
  <2>2. Shared(k) /\ D.sched = "GUIDED"
    BY <1>0, <2>1 DEF Shared, HandRange
  <2>3. PICK m \in Nat \ {0} : stride = m * D.inc
    BY <1>0, <2>1 DEF HandRange
  <2>4. stride \in Int
    BY <1>0 DEF Types
  <2>5. \/ reply.more /\ range'[t].lower = reply.lower /\ range'[t].upper = reply.upper /\ pc'[t] = "adjust"
        \/ ~reply.more /\ pc'[t] = "free"
    BY <1>0, <1>5 DEF GuidedTake, Goto
  <2> HIDE DEF stride
  <2> QED BY <1>1, <1>3, <2>1, <2>2, <2>3, <2>4, <2>5, SharedTake
<1> QED BY <1>4, <1>5

(***************************************************************************)
(* The ranges of a loop without current                                    *)
(***************************************************************************)
\* Given, for a thread that has asked i times.
GivenAt(k, t, i, x) ==
    /\ Mine(k, t, x)
    /\ i > 0
    /\ N > 1 /\ Descriptor(k).sched = "STATIC" =>
        Before(Descriptor(k).inc, x,
               Share(k, t).lower + (i * Descriptor(k).chunk) * Descriptor(k).inc)

InReply(k, reply, x) ==
    /\ Within(Descriptor(k).inc, reply.lower, x)
    /\ Within(Descriptor(k).inc, x, reply.upper)

\* The reply hands out what is to be handed out next.
Continues(k, t, i, reply) ==
    /\ reply.more =>
        /\ Aligned(k, reply.lower)
        /\ Within(Descriptor(k).inc, reply.upper, Descriptor(k).upper)
        /\ \A x \in Int : InReply(k, reply, x) => ~GivenAt(k, t, i, x) /\ GivenAt(k, t, i + 1, x)
        /\ \A x \in Int : GivenAt(k, t, i, x) => GivenAt(k, t, i + 1, x)
        /\ \A x \in Int : IsIteration(k, x) /\ GivenAt(k, t, i + 1, x) =>
             GivenAt(k, t, i, x) \/ InReply(k, reply, x)
    /\ ~reply.more => \A x \in Int : IsIteration(k, x) /\ Mine(k, t, x) => GivenAt(k, t, i, x)

LEMMA AloneContinues ==
    ASSUME Types, NEW k \in 1 .. Len(program), NEW t \in Active, NEW i \in Nat, N = 1
    PROVE  Continues(k, t, i, Reply(i = 0, Descriptor(k).lower, Descriptor(k).upper))
<1> DEFINE inc == Descriptor(k).inc
           low == Descriptor(k).lower
           upper == Descriptor(k).upper
           reply == Reply(i = 0, low, upper)
<1>1. inc \in Int \ {0} /\ low \in Int /\ upper \in Int
  BY DescriptorFacts DEF Types
<1>2. (reply.more <=> i = 0) /\ reply.lower = low /\ reply.upper = upper
  BY DEF Reply
<1>3. \A x : Mine(k, t, x)
  BY DEF Mine
<1>4. \A x : /\ GivenAt(k, t, i, x) <=> i > 0
             /\ GivenAt(k, t, i + 1, x)
  BY <1>3 DEF GivenAt
<1> HIDE DEF inc, low, upper, reply
<1>5. Aligned(k, low) /\ Within(inc, upper, upper)
  BY <1>1, OnStart, WithinSelf DEF Aligned, low, inc
<1>6. ASSUME NEW x \in Int, IsIteration(k, x) PROVE InReply(k, reply, x)
  <2>1. On(low, inc, x) /\ Within(inc, x, upper)
    BY <1>6 DEF IsIteration, Aligned, low, inc, upper
  <2>2. Within(inc, low, x)
    BY <1>1, <2>1, OnFacts
  <2> QED BY <1>2, <2>1, <2>2 DEF InReply, inc
<1>7. Continues(k, t, i, reply)
  BY <1>2, <1>4, <1>5, <1>6 DEF Continues, inc, upper
<1> QED BY <1>7 DEF reply, low, upper

\* The share of a thread in a loop without current.
LEMMA ShareFacts ==
    ASSUME Types, NEW k \in 1 .. Len(program), NEW t \in Active
    PROVE  /\ Share(k, t).lower \in Int /\ Share(k, t).upper \in Int
           /\ Within(Descriptor(k).inc, Share(k, t).upper, Descriptor(k).upper)
           /\ Within(Descriptor(k).inc, Share(k, t).lower, Share(k, t).upper) =>
                Aligned(k, Share(k, t).lower)
<1>1. /\ Descriptor(k) \in SlotRecord /\ N \in Nat \ {0} /\ t \in Nat
      /\ region.static_fair \in BOOLEAN
  BY DescriptorFacts, RegionFacts DEF Types, Active
<1> QED BY <1>1, StaticShareType, ShareUpper, ShareOn DEF Share, Aligned

LEMMA EvenContinues ==
    ASSUME Types, NEW k \in 1 .. Len(program), NEW t \in Active, NEW i \in Nat,
           N > 1, Descriptor(k).sched = "STATIC_EVEN", NEW reply,
           reply = Reply(i = 0 /\ Within(Descriptor(k).inc, Share(k, t).lower, Share(k, t).upper),
                         Share(k, t).lower, Share(k, t).upper)
    PROVE  Continues(k, t, i, reply)
<1> DEFINE inc == Descriptor(k).inc
           upper == Descriptor(k).upper
           b == Share(k, t).lower
           u == Share(k, t).upper
<1>1. inc \in Int \ {0} /\ upper \in Int
  BY DescriptorFacts DEF Types
<1>2. /\ b \in Int /\ u \in Int /\ Within(inc, u, upper)
      /\ Within(inc, b, u) => Aligned(k, b)
  BY ShareFacts
<1>3. /\ reply.more <=> (i = 0 /\ Within(inc, b, u))
      /\ reply.lower = b /\ reply.upper = u
  BY DEF Reply
<1>4. \A x : Mine(k, t, x) <=> Within(inc, b, x) /\ Within(inc, x, u)
  BY DEF Mine, Shared
<1>5. \A x : /\ GivenAt(k, t, i, x) <=> i > 0 /\ Mine(k, t, x)
             /\ GivenAt(k, t, i + 1, x) <=> Mine(k, t, x)
  BY DEF GivenAt
<1>6. \A x : InReply(k, reply, x) <=> Mine(k, t, x)
  BY <1>3, <1>4 DEF InReply
<1> HIDE DEF inc, upper, b, u
<1>7. ASSUME NEW x \in Int, Mine(k, t, x) PROVE Within(inc, b, u)
  BY <1>1, <1>2, <1>4, <1>7, WithinFacts
<1> QED BY <1>2, <1>3, <1>5, <1>6, <1>7 DEF Continues, inc, upper

LEMMA StaticCore ==
    ASSUME Types, NEW k \in 1 .. Len(program), NEW t \in Active, NEW i \in Nat, N > 1,
           Descriptor(k).sched = "STATIC", NEW inc \in Int \ {0}, inc = Descriptor(k).inc,
           NEW b \in Int, b = Share(k, t).lower, NEW u \in Int, u = Share(k, t).upper,
           NEW x0 \in Int, NEW x1 \in Int, NEW e \in Int,
           Within(inc, b, x0), Within(inc, x0, x1), e = x1 - inc, i = 0 => x0 = b,
           Within(inc, b, u) => Aligned(k, x0) /\ Aligned(k, x1),
           \A x : GivenAt(k, t, i, x) <=> Mine(k, t, x) /\ i > 0 /\ Before(inc, x, x0),
           \A x : GivenAt(k, t, i + 1, x) <=> Mine(k, t, x) /\ Before(inc, x, x1),
           NEW reply, reply.more <=> Within(inc, x0, u),
           reply.lower = x0, reply.upper = LoopMin(inc, e, u)
    PROVE  Continues(k, t, i, reply)
<1> DEFINE low == Descriptor(k).lower
           upper == Descriptor(k).upper
<1>1. low \in Int /\ upper \in Int
  BY DescriptorFacts DEF Types
<1>2. Within(inc, u, upper)
  BY ShareFacts
<1>5. \A x : Mine(k, t, x) <=> Within(inc, b, x) /\ Within(inc, x, u)
  BY DEF Mine, Shared
<1>7. \A x : InReply(k, reply, x) <=> Within(inc, x0, x) /\ Within(inc, x, LoopMin(inc, e, u))
  BY DEF InReply
<1>10. Within(inc, b, u) => On(low, inc, x0) /\ On(low, inc, x1)
  BY DEF Aligned
<1> HIDE DEF low, upper
<1>11. \A x \in Int : Within(inc, x, e) <=> Before(inc, x, x1) /\ Within(inc, x + inc, x1)
  BY DEF Within, Before
<1>12. /\ LoopMin(inc, e, u) \in Int /\ Within(inc, LoopMin(inc, e, u), u)
       /\ \A x \in Int : Within(inc, x, LoopMin(inc, e, u)) <=> Within(inc, x, e) /\ Within(inc, x, u)
  BY WithinMin
<1>13. ASSUME reply.more PROVE Aligned(k, x0) /\ Within(inc, reply.upper, upper)
  <2>1. Within(inc, b, u)
    <3>1. Within(inc, b, x0) /\ Within(inc, x0, u) /\ x0 \in Int
      BY <1>13
    <3> QED BY <3>1, WithinFacts
  <2>2. Within(inc, LoopMin(inc, e, u), upper)
    BY <1>1, <1>2, <1>12, WithinFacts
  <2> QED BY <1>10, <2>1, <2>2 DEF Aligned, low
<1>14. ASSUME NEW x \in Int, InReply(k, reply, x)
       PROVE  ~GivenAt(k, t, i, x) /\ GivenAt(k, t, i + 1, x)
  <2>1. Within(inc, x0, x) /\ Within(inc, x, e) /\ Within(inc, x, u)
    BY <1>7, <1>12, <1>14
  <2>2. ~Before(inc, x, x0)
    BY <2>1, BeforeNot
  <2>3. Before(inc, x, x1)
    BY <1>11, <2>1
  <2>4. Within(inc, b, x)
    BY <2>1, WithinFacts
  <2> QED BY <1>5, <2>1, <2>2, <2>3, <2>4
<1>15. ASSUME NEW x \in Int, GivenAt(k, t, i, x) PROVE GivenAt(k, t, i + 1, x)
  <2>1. Before(inc, x, x1)
    BY <1>15, WithinFacts
  <2> QED BY <1>15, <2>1
<1>16. ASSUME NEW x \in Int, IsIteration(k, x), GivenAt(k, t, i + 1, x), ~GivenAt(k, t, i, x)
       PROVE  InReply(k, reply, x)
  <2>1. On(low, inc, x)
    BY <1>16 DEF IsIteration, Aligned, low
  <2>2. Within(inc, b, x) /\ Within(inc, x, u) /\ Before(inc, x, x1)
    BY <1>5, <1>16
  <2>3. Within(inc, x0, x)
    <3>1. CASE i = 0
      BY <2>2, <3>1
    <3>2. CASE i > 0
      <4>1. ~Before(inc, x, x0)
        BY <1>16, <3>2
      <4> QED BY <4>1, WithinPair
    <3> QED BY <3>1, <3>2
  <2>4. Within(inc, b, u)
    BY <2>2, WithinFacts
  <2>5. Within(inc, x + inc, x1)
    BY <1>1, <1>10, <2>1, <2>2, <2>4, OnNext
  <2>6. Within(inc, x, e)
    BY <1>11, <2>2, <2>5
  <2> QED BY <1>7, <1>12, <2>2, <2>3, <2>6
<1>17. ASSUME ~reply.more, NEW x \in Int, Mine(k, t, x) PROVE GivenAt(k, t, i, x)
  <2>1. Within(inc, b, x) /\ Within(inc, x, u)
    BY <1>5, <1>17
  <2>2. Before(inc, u, x0)
    BY <1>17, BeforeNot
  <2>3. Before(inc, x, x0)
    BY <2>1, <2>2, WithinFacts
  <2>4. i > 0
    <3> SUFFICES ASSUME i = 0 PROVE FALSE
      OBVIOUS
    <3>1. Before(inc, x, b)
      BY <2>3
    <3> QED BY <2>1, <3>1, WithinPair
  <2> QED BY <1>17, <2>3, <2>4
<1> QED BY <1>13, <1>14, <1>15, <1>16, <1>17 DEF Continues, upper

LEMMA StaticContinues ==
    ASSUME Types, NEW k \in 1 .. Len(program), NEW t \in Active, NEW i \in Nat,
           N > 1, NEW l \in SlotRecord, l.sched = "STATIC", Matches(l, Descriptor(k))
    PROVE  Continues(k, t, i, NextStatic(l, N, t, i))
<1> DEFINE inc == l.inc
           c == l.chunk
           b == Share(k, t).lower
           u == Share(k, t).upper
           low == Descriptor(k).lower
           x0 == b + (i * c) * inc
           x1 == b + ((i + 1) * c) * inc
           e == x0 + (c - 1) * inc
           reply == NextStatic(l, N, t, i)
<1>1. inc \in Int \ {0} /\ c \in Nat \ {0} /\ low \in Int
  BY DescriptorFacts DEF SlotRecord, Types
<1>2. /\ inc = Descriptor(k).inc /\ c = Descriptor(k).chunk /\ Descriptor(k).sched = "STATIC"
      /\ Descriptor(k).lower = l.lower /\ Descriptor(k).upper = l.upper
  BY DEF Matches
<1>3. b \in Int /\ u \in Int /\ (Within(inc, b, u) => On(low, inc, b))
  BY <1>2, ShareFacts DEF Aligned
<1>4. Share(k, t) = Block(l, N, t)
  <2>1. Share(k, t) = StaticShare(l, region.static_fair, N, t)
    BY <1>2, ShareSame DEF Share
  <2> QED BY <2>1 DEF StaticShare
<1>5. reply.more = Within(inc, x0, u) /\ reply.lower = x0 /\ reply.upper = LoopMin(inc, e, u)
  BY <1>4 DEF NextStatic, Reply
<1>6. \A x : /\ GivenAt(k, t, i, x) <=> Mine(k, t, x) /\ i > 0 /\ Before(inc, x, x0)
             /\ GivenAt(k, t, i + 1, x) <=> Mine(k, t, x) /\ Before(inc, x, x1)
  <2>1. /\ Share(k, t).lower + (i * Descriptor(k).chunk) * Descriptor(k).inc = x0
        /\ Share(k, t).lower + ((i + 1) * Descriptor(k).chunk) * Descriptor(k).inc = x1
    BY <1>2
  <2>2. i + 1 > 0
    OBVIOUS
  <2> HIDE DEF x0, x1
  <2>3. \A x : GivenAt(k, t, i, x) <=> Mine(k, t, x) /\ i > 0 /\ Before(inc, x, x0)
    BY <1>2, <2>1 DEF GivenAt
  <2>4. \A x : GivenAt(k, t, i + 1, x) <=> Mine(k, t, x) /\ Before(inc, x, x1)
    BY <1>2, <2>1, <2>2 DEF GivenAt
  <2> QED BY <2>3, <2>4
<1> HIDE DEF inc, c, b, u, low, reply
<1>7. /\ x0 \in Int /\ x1 \in Int /\ e \in Int
      /\ i * c \in Nat /\ (i + 1) * c \in Nat
      /\ Within(inc, b, x0) /\ Within(inc, x0, x1)
      /\ e = x1 - inc
      /\ i = 0 => x0 = b
  BY <1>1, <1>3, StaticNext
<1>8. Within(inc, b, u) => On(low, inc, x0) /\ On(low, inc, x1)
  <2> DEFINE m == i * c
             n == (i + 1) * c
  <2>1. m \in Nat /\ n \in Nat
    BY <1>7
  <2> HIDE DEF m, n
  <2>2. Within(inc, b, u) => On(low, inc, b + m * inc) /\ On(low, inc, b + n * inc)
    BY <1>1, <1>3, <2>1, OnAhead
  <2> QED BY <2>2 DEF m, n
<1> HIDE DEF x0, x1, e
<1>9. Within(inc, b, u) => Aligned(k, x0) /\ Aligned(k, x1)
  BY <1>2, <1>8 DEF Aligned, low
<1>10. Continues(k, t, i, reply)
  BY <1>1, <1>2, <1>3, <1>5, <1>6, <1>7, <1>9, StaticCore DEF b, u
<1> QED BY <1>10 DEF reply

\* No iteration is for two threads.
LEMMA MineApart ==
    ASSUME Types, NEW k \in 1 .. Len(program), ~Shared(k), NEW t \in Active, NEW u \in Active, t # u,
           NEW x \in Int, Mine(k, t, x), Mine(k, u, x)
    PROVE  FALSE
<1> DEFINE D == Descriptor(k)
           inc == D.inc
           own(v) == StaticShare(D, region.static_fair, N, v)
<1>1. /\ D \in SlotRecord /\ inc \in Int \ {0} /\ N \in Nat \ {0} /\ t \in Nat /\ u \in Nat
      /\ region.static_fair \in BOOLEAN
  BY DescriptorFacts, RegionFacts DEF Types, Active
<1>2. N > 1
  BY <1>1 DEF Active
<1>3. /\ Within(inc, own(t).lower, x) /\ Within(inc, x, own(t).upper)
      /\ Within(inc, own(u).lower, x) /\ Within(inc, x, own(u).upper)
  BY <1>2 DEF Mine, Share
<1>4. own(t).lower \in Int /\ own(t).upper \in Int /\ own(u).lower \in Int /\ own(u).upper \in Int
  BY <1>1, StaticShareType
<1>5. Within(inc, own(t).lower, own(t).upper) /\ Within(inc, own(u).lower, own(u).upper)
  BY <1>1, <1>3, <1>4, WithinFacts
<1>6. ~Before(inc, x, x)
  BY <1>1, WithinSelf
<1>7. CASE t < u
  <2>1. Before(inc, own(t).upper, own(u).lower)
    BY <1>1, <1>5, <1>7, SharesApart
  <2>2. Before(inc, x, x)
    BY <1>1, <1>3, <1>4, <2>1, BeforeChain
  <2> QED BY <1>6, <2>2
<1>8. CASE u < t
  <2>1. Before(inc, own(u).upper, own(t).lower)
    BY <1>1, <1>5, <1>8, SharesApart
  <2>2. Before(inc, x, x)
    BY <1>1, <1>3, <1>4, <2>1, BeforeChain
  <2> QED BY <1>6, <2>2
<1> QED BY <1>1, <1>7, <1>8

\* The reply of a schedule without current.
LEMMA FixedReply ==
    ASSUME Types, RingRight, OnceRight, NEW t \in Active, NextFixed(t),
           NEW k \in 1 .. Len(program), k = at[t]
    PROVE  /\ ~Shared(k)
           /\ \E reply : Hand(t, reply) /\ Continues(k, t, iteration[t], reply)
<1> DEFINE l == slots[loop[t]]
           i == iteration[t]
<1>0. t \in Threads /\ pc[t] = "next" /\ pc[t] \in Working /\ i \in Nat /\ N \in Nat \ {0}
  BY ThreadFacts, RegionFacts DEF NextFixed, Working, Types
<1>1. l \in SlotRecord /\ Matches(l, Descriptor(k))
  <2>1. Described
    BY DEF OnceRight
  <2> QED BY <1>0, <2>1, MyDescriptor
<1> HIDE DEF i
<1>2. CASE N = 1
  <2>1. Hand(t, Reply(i = 0, l.lower, l.upper))
    BY <1>2 DEF NextFixed, i
  <2>2. Hand(t, Reply(i = 0, Descriptor(k).lower, Descriptor(k).upper))
    BY <1>1, <2>1 DEF Matches
  <2>3. Continues(k, t, i, Reply(i = 0, Descriptor(k).lower, Descriptor(k).upper))
    BY <1>0, <1>2, AloneContinues
  <2>4. ~Shared(k)
    BY <1>2 DEF Shared
  <2> QED BY <2>2, <2>3, <2>4 DEF i
<1>3. CASE N > 1 /\ l.sched = "STATIC"
  <2>1. Hand(t, NextStatic(l, N, t, i))
    BY <1>3 DEF NextFixed, i
  <2>2. Continues(k, t, i, NextStatic(l, N, t, i))
    <3> HIDE DEF l
    <3> QED BY <1>0, <1>1, <1>3, StaticContinues
  <2>3. ~Shared(k)
    BY <1>1, <1>3 DEF Shared, Matches
  <2> QED BY <2>1, <2>2, <2>3 DEF i
<1>4. CASE N > 1 /\ l.sched = "STATIC_EVEN"
  <2> DEFINE reply == NextStaticEven(l, region.static_fair, N, t, i)
             own == StaticShare(l, region.static_fair, N, t)
  <2>1. Hand(t, reply)
    BY <1>4 DEF NextFixed, i
  <2>2. reply = Reply(i = 0 /\ Within(l.inc, own.lower, own.upper), own.lower, own.upper)
    <3> HIDE DEF l
    <3> QED BY <1>4 DEF NextStaticEven, StaticShare, FairBlock
  <2>3. own = Share(k, t)
    <3> HIDE DEF l
    <3> QED BY <1>1, ShareSame DEF Share, Matches
  <2>4. l.inc = Descriptor(k).inc /\ Descriptor(k).sched = "STATIC_EVEN"
    BY <1>1, <1>4 DEF Matches
  <2> HIDE DEF reply, own
  <2>5. Continues(k, t, i, reply)
    BY <1>0, <1>4, <2>2, <2>3, <2>4, EvenContinues
  <2>6. ~Shared(k)
    BY <2>4 DEF Shared
  <2> QED BY <2>1, <2>5, <2>6 DEF i
<1> QED BY <1>0, <1>2, <1>3, <1>4 DEF NextFixed

LEMMA FixedTake ==
    ASSUME Types, RingRight, OnceRight, NEW t \in Active, Step(t), NextFixed(t),
           NEW k \in 1 .. Len(program), k = at[t]
    PROVE  /\ HandRange(t)' /\ HandOnce(t)'
           /\ pc'[t] = "free" => FinishedRight(t, k)'
<1> DEFINE D == Descriptor(k)
           i == iteration[t]
<1>0. /\ t \in Threads /\ pc \in [Threads -> Label] /\ iteration \in [Threads -> Nat]
      /\ range \in [Threads -> [lower : Int, upper : Int]]
      /\ k \in Nat /\ HandOnce(t)
  BY ThreadFacts DEF Types, OnceRight
<1>1. ~Shared(k) /\ \E reply : Hand(t, reply) /\ Continues(k, t, i, reply)
  BY FixedReply
<1>2. PICK reply : Hand(t, reply) /\ Continues(k, t, i, reply)
  BY <1>1
<1>3. pc[t] = "next" /\ pc[t] \in Working /\ pc[t] \notin Holding /\ UNCHANGED <<at, ran, twice>>
  BY DEF NextFixed, Working, Holding, history
<1>4. /\ \A x : IsIteration(k, x)' = IsIteration(k, x)
      /\ \A x : Mine(k, t, x)' = Mine(k, t, x)
      /\ Shared(k)' = Shared(k) /\ Descriptor(k)' = D /\ Share(k, t)' = Share(k, t)
  BY StepRegion, DescriptorFrame
<1>5. at'[t] = k /\ ran' = ran /\ N' = N /\ Active' = Active
  BY <1>3, StepRegion, RegionFrame
<1>6. Descriptor(at[t])' = D
  BY <1>5, StepRegion DEF Descriptor, program
<1>7. HandStep(t, {}) /\ Grows
  <2>1. HandStep(t, {})
    BY <1>0, <1>3, QuietHand
  <2> QED BY <2>1, CoveredGrows
<1>8. \A x : Given(k, t, x) <=> GivenAt(k, t, i, x)
  BY DEF Given, GivenAt
<1> HIDE DEF D
<1>9. CASE ~reply.more
  <2>1. pc'[t] = "free" /\ iteration'[t] = iteration[t]
    BY <1>0, <1>2, <1>9 DEF Hand, Goto
  <2>2. HandRange(t)'
    BY <2>1 DEF HandRange, Holding
  <2>3. Shrinks(t, {})
    <3>1. \A x : ~InHand(t, x)'
      BY <2>1 DEF InHand, Holding
    <3> QED BY <1>5, <2>1, <3>1 DEF Shrinks
  <2>4. HandOnce(t)'
    BY <1>0, <1>3, <1>7, <2>3, KeepingOnce
  <2>5. FinishedRight(t, k)'
    <3> SUFFICES ASSUME NEW x \in Int, IsIteration(k, x), Mine(k, t, x) PROVE Covered(k, x)'
      BY <1>4 DEF FinishedRight
    <3>1. GivenAt(k, t, i, x)
      BY <1>2, <1>9 DEF Continues
    <3>2. Covered(k, x)
      BY <1>0, <1>1, <1>3, <1>8, <3>1 DEF HandOnce
    <3> QED BY <1>7, <3>2 DEF Grows
  <2> QED BY <2>2, <2>4, <2>5
<1>10. CASE reply.more
  <2>1. /\ pc'[t] = "body" /\ iteration'[t] = i + 1
        /\ range'[t].lower = reply.lower /\ range'[t].upper = reply.upper
    BY <1>0, <1>2, <1>10 DEF Hand, Goto
  <2>2. From(t)' = reply.lower
    BY <2>1 DEF From
  <2>3. \A x : InHand(t, x)' <=> InReply(k, reply, x)
    BY <1>6, <2>1, <2>2 DEF InHand, InReply, Holding, D
  <2>4. \A x : Given(k, t, x)' <=> GivenAt(k, t, i + 1, x)
    BY <1>4, <1>5, <2>1 DEF Given, GivenAt, D
  <2>5. /\ Aligned(k, reply.lower) /\ Within(D.inc, reply.upper, D.upper)
        /\ \A x \in Int : InReply(k, reply, x) => ~GivenAt(k, t, i, x) /\ GivenAt(k, t, i + 1, x)
        /\ \A x \in Int : GivenAt(k, t, i, x) => GivenAt(k, t, i + 1, x)
        /\ \A x \in Int : IsIteration(k, x) /\ GivenAt(k, t, i + 1, x) =>
             GivenAt(k, t, i, x) \/ InReply(k, reply, x)
    BY <1>2, <1>10 DEF Continues, D
  <2>6. HandRange(t)'
    <3>1. D.inc \in Int \ {0} /\ D.lower \in Int
      BY DescriptorFacts DEF Types, D
    <3>2. reply.lower \in Int
      BY <2>5, <3>1, OnFacts DEF Aligned, D
    <3>3. Within(D.inc, reply.lower, reply.lower)
      BY <3>1, <3>2, WithinSelf
    <3>4. Aligned(at[t], From(t))'
      BY <1>6, <2>2, <2>5 DEF Aligned, D
    <3> QED BY <1>6, <2>1, <2>2, <2>5, <3>3, <3>4 DEF HandRange
  <2>7. \A r \in ran[k] : r[1] \in Active /\ r[2] \in Int /\ Mine(k, r[1], r[2])
    BY DEF OnceRight, RanRight
  <2>8. ASSUME NEW r \in ran[k] PROVE ~InHand(t, r[2])'
    <3> DEFINE u == r[1]
               x == r[2]
    <3>1. u \in Active /\ x \in Int /\ Mine(k, u, x)
      BY <2>7
    <3>2. u = t => GivenAt(k, t, i, x)
      BY <1>0, <1>1, <1>3, <1>8 DEF HandOnce
    <3>3. GivenAt(k, t, i + 1, x) => Mine(k, t, x)
      BY DEF GivenAt
    <3> HIDE DEF u, x
    <3>4. ~InReply(k, reply, x)
      <4> SUFFICES ASSUME InReply(k, reply, x) PROVE FALSE
        OBVIOUS
      <4>1. ~GivenAt(k, t, i, x) /\ Mine(k, t, x)
        BY <2>5, <3>1, <3>3
      <4>2. u # t
        BY <3>2, <4>1
      <4> QED BY <1>1, <3>1, <4>1, <4>2, MineApart
    <3> QED BY <2>3, <3>4 DEF x
  <2>9. ASSUME NEW r \in ran[k], r[1] = t PROVE GivenAt(k, t, i + 1, r[2])
    <3>1. GivenAt(k, t, i, r[2])
      BY <1>0, <1>1, <1>3, <1>8, <2>9 DEF HandOnce
    <3> QED BY <2>5, <2>7, <3>1
  <2>10. ASSUME NEW x \in Int, IsIteration(k, x), GivenAt(k, t, i + 1, x) PROVE Covered(k, x)'
    <3>1. CASE GivenAt(k, t, i, x)
      <4>1. Covered(k, x)
        BY <1>0, <1>1, <1>3, <1>8, <2>10, <3>1 DEF HandOnce
      <4> QED BY <1>7, <2>10, <4>1 DEF Grows
    <3>2. CASE InReply(k, reply, x)
      BY <1>5, <2>3, <3>2 DEF Covered
    <3> QED BY <2>5, <2>10, <3>1, <3>2
  <2>11. HandOnce(t)'
    BY <1>4, <1>5, <2>3, <2>4, <2>5, <2>8, <2>9, <2>10 DEF HandOnce
  <2> QED BY <2>1, <2>6, <2>11
<1> QED BY <1>9, <1>10

(***************************************************************************)
(* The slots, step by step                                                 *)
(***************************************************************************)
\* The slot is for the same loop.
SameLoop(s) ==
    /\ slots'[s].number = slots[s].number
    /\ slots'[s].sched = slots[s].sched
    /\ slots'[s].inc = slots[s].inc
    /\ slots'[s].lower = slots[s].lower
    /\ slots'[s].upper = slots[s].upper

LEMMA SlotFields ==
    ASSUME Types, NEW s \in 0 .. Slots - 1, NEW v \in 0 .. Slots - 1, NEW x,
           \/ slots' = slots
           \/ slots' = [slots EXCEPT ![s].loop_id = x] /\ v # s
           \/ slots' = [slots EXCEPT ![s].looping_threads = x]
           \/ slots' = [slots EXCEPT ![s].now_serving = x]
           \/ slots' = [slots EXCEPT ![s].chunk = x] /\ slots[s].sched = "GUIDED"
           \/ slots' = [slots EXCEPT ![s].current = x] /\ v # s
    PROVE  /\ SameLoop(v)
           /\ slots'[v].loop_id = slots[v].loop_id
           /\ slots'[v].current = slots[v].current
           /\ slots[v].sched # "GUIDED" => slots'[v].chunk = slots[v].chunk
<1>1. slots \in [0 .. Slots - 1 -> SlotRecord] /\ slots[v] \in SlotRecord /\ slots[s] \in SlotRecord
  BY DEF Types
<1>2. CASE slots' = slots
  BY <1>2 DEF SameLoop
<1>3. CASE slots' = [slots EXCEPT ![s].loop_id = x] /\ v # s
  BY <1>1, <1>3 DEF SameLoop
<1>4. CASE slots' = [slots EXCEPT ![s].looping_threads = x]
  BY <1>1, <1>4 DEF SameLoop, SlotRecord
<1>5. CASE slots' = [slots EXCEPT ![s].now_serving = x]
  BY <1>1, <1>5 DEF SameLoop, SlotRecord
<1>6. CASE slots' = [slots EXCEPT ![s].chunk = x] /\ slots[s].sched = "GUIDED"
  BY <1>1, <1>6 DEF SameLoop, SlotRecord
<1>7. CASE slots' = [slots EXCEPT ![s].current = x] /\ v # s
  BY <1>1, <1>7 DEF SameLoop
<1> QED BY <1>2, <1>3, <1>4, <1>5, <1>6, <1>7

LEMMA IdField ==
    ASSUME Types, NEW s \in 0 .. Slots - 1, NEW x, slots' = [slots EXCEPT ![s].loop_id = x]
    PROVE  /\ SameLoop(s) /\ slots'[s].loop_id = x
           /\ slots'[s].current = slots[s].current /\ slots'[s].chunk = slots[s].chunk
<1>1. slots \in [0 .. Slots - 1 -> SlotRecord] /\ slots[s] \in SlotRecord
  BY DEF Types
<1> QED BY <1>1 DEF SameLoop, SlotRecord

LEMMA CurrentField ==
    ASSUME Types, NEW s \in 0 .. Slots - 1, NEW x, slots' = [slots EXCEPT ![s].current = x]
    PROVE  /\ SameLoop(s) /\ slots'[s].loop_id = slots[s].loop_id
           /\ slots'[s].chunk = slots[s].chunk
<1>1. slots \in [0 .. Slots - 1 -> SlotRecord] /\ slots[s] \in SlotRecord
  BY DEF Types
<1> QED BY <1>1 DEF SameLoop, SlotRecord

\* The slots that a step leaves alone, or nearly so.
Untouched(v) ==
    /\ SameLoop(v)
    /\ slots'[v].loop_id = slots[v].loop_id
    /\ slots'[v].current = slots[v].current
    /\ slots[v].sched # "GUIDED" => slots'[v].chunk = slots[v].chunk

LEMMA StepSlots ==
    ASSUME Types, RingRight, OnceRight, NEW t \in Active, Step(t), pc'[t] # "abort",
           NEW v \in 0 .. Slots - 1
    PROVE  \/ Untouched(v)
           \/ Fill(t) /\ v = MySlot(t)
           \/ /\ Publish(t) /\ v = MySlot(t)
              /\ slots' = [slots EXCEPT ![v].loop_id = MyId(t)]
           \/ FreeLast(t) /\ v = loop[t] /\ slots' = [slots EXCEPT ![v].loop_id = Unused]
           \/ /\ NextDynamic(t) \/ GuidedTake(t)
              /\ v = loop[t] /\ \E x : slots' = [slots EXCEPT ![v].current = x]
<1>0. /\ t \in Threads /\ slots \in [0 .. Slots - 1 -> SlotRecord] /\ MySlot(t) \in 0 .. Slots - 1
      /\ pc \in [Threads -> Label]
  BY ThreadFacts, MySlotType DEF Types
<1>1. pc[t] \in Working \cup {"unuse"} => loop[t] \in 0 .. Slots - 1
  BY <1>0, MyLoop
<1>2. CASE Fill(t)
  <2>1. ASSUME v # MySlot(t) PROVE slots'[v] = slots[v]
    BY <1>0, <1>2, <2>1 DEF Fill, FillSlot
  <2> QED BY <1>2, <2>1 DEF Untouched, SameLoop
<1>3. CASE Publish(t)
  <2>1. slots' = [slots EXCEPT ![MySlot(t)].loop_id = MyId(t)]
    BY <1>0, <1>3 DEF Publish, Goto
  <2>2. CASE v = MySlot(t)
    BY <1>3, <2>1, <2>2
  <2>3. CASE v # MySlot(t)
    BY <1>0, <2>1, <2>3, SlotFields DEF Untouched
  <2> QED BY <2>2, <2>3
<1>4. CASE FreeLast(t)
  <2>1. slots' = [slots EXCEPT ![loop[t]].loop_id = Unused] /\ pc[t] = "unuse"
    BY <1>4 DEF FreeLast
  <2>2. CASE v = loop[t]
    BY <1>4, <2>1, <2>2
  <2>3. CASE v # loop[t]
    BY <1>1, <2>1, <2>3, SlotFields DEF Untouched
  <2> QED BY <2>2, <2>3
<1>5. CASE NextDynamic(t) \/ GuidedTake(t)
  <2>1. pc[t] \in Working /\ \E x : slots' = [slots EXCEPT ![loop[t]].current = x]
    <3>1. CASE NextDynamic(t)
      BY <3>1 DEF NextDynamic, Working
    <3>2. CASE GuidedTake(t)
      BY <3>2 DEF GuidedTake, Working
    <3> QED BY <1>5, <3>1, <3>2
  <2>2. CASE v = loop[t]
    BY <1>5, <2>1, <2>2
  <2>3. CASE v # loop[t]
    BY <1>1, <2>1, <2>3, SlotFields DEF Untouched
  <2> QED BY <2>2, <2>3
<1>6. CASE GuidedAdjust(t)
  <2>1. pc[t] = "adjust" /\ pc[t] \in Working
    BY <1>6 DEF GuidedAdjust, Working
  <2>2. slots' = slots \/ \E x : slots' = [slots EXCEPT ![loop[t]].chunk = x]
    BY <1>6 DEF GuidedAdjust
  <2>3. slots[loop[t]].sched = "GUIDED"
    <3>1. Described /\ HandRange(t)
      BY DEF OnceRight
    <3>2. Matches(slots[loop[t]], Descriptor(at[t]))
      BY <2>1, <3>1, MyDescriptor
    <3> QED BY <2>1, <3>1, <3>2 DEF HandRange, Matches
  <2>4. CASE slots' = slots
    BY <2>4 DEF Untouched, SameLoop
  <2>5. ASSUME NEW x, slots' = [slots EXCEPT ![loop[t]].chunk = x] PROVE Untouched(v)
    BY <1>1, <2>1, <2>3, <2>5, SlotFields DEF Untouched
  <2> QED BY <2>2, <2>4, <2>5
<1>7. CASE EndOrdered(t)
  <2>1. pc[t] = "inside" /\ pc[t] \in Working
    BY <1>7 DEF EndOrdered, Working
  <2>2. slots' = slots \/ \E x : slots' = [slots EXCEPT ![loop[t]].now_serving = x]
    BY <1>7 DEF EndOrdered
  <2>3. CASE slots' = slots
    BY <2>3 DEF Untouched, SameLoop
  <2>4. ASSUME NEW x, slots' = [slots EXCEPT ![loop[t]].now_serving = x] PROVE Untouched(v)
    BY <1>1, <2>1, <2>4, SlotFields DEF Untouched
  <2> QED BY <2>2, <2>3, <2>4
<1>8. CASE FreeCount(t)
  <2>1. pc[t] = "free" /\ pc[t] \in Working
    BY <1>8 DEF FreeCount, FreeWhen, Working
  <2>2. slots' = slots \/ \E x : slots' = [slots EXCEPT ![loop[t]].looping_threads = x]
    BY <1>8 DEF FreeCount, FreeWhen
  <2>3. CASE slots' = slots
    BY <2>3 DEF Untouched, SameLoop
  <2>4. ASSUME NEW x, slots' = [slots EXCEPT ![loop[t]].looping_threads = x] PROVE Untouched(v)
    BY <1>1, <2>1, <2>4, SlotFields DEF Untouched
  <2> QED BY <2>2, <2>3, <2>4
<1>9. CASE Alloc(t) \/ Attach(t) \/ NextFixed(t) \/ GuidedRead(t) \/ GuidedEstimate(t)
  <2>1. slots' = slots
    BY <1>9 DEF Alloc, Attach, NextFixed, GuidedRead, GuidedEstimate, shared
  <2> QED BY <2>1 DEF Untouched, SameLoop
<1>10. CASE Body(t) \/ OrderedBegin(t) \/ Ordered(t) \/ SkipOrdered(t) \/ OrderedEnd(t) \/ EndLoop(t)
  <2>1. slots' = slots
    BY <1>10 DEF Body, OrderedBegin, Ordered, SkipOrdered, OrderedEnd, EndLoop, shared
  <2> QED BY <2>1 DEF Untouched, SameLoop
<1> QED BY <1>2, <1>3, <1>4, <1>5, <1>6, <1>7, <1>8, <1>9, <1>10 DEF Step

\* A slot in use is for one loop, and who is in that loop is in the slot.
LEMMA SlotLoop ==
    ASSUME Types, RingRight, NEW s \in 0 .. Slots - 1, slots[s].loop_id # Unused
    PROVE  /\ slots[s].number \in 1 .. Len(program)
           /\ \A t \in Active : pc[t] \in Working /\ at[t] = slots[s].number => loop[t] = s
<1>1. PICK b \in Nat, p \in Nat, q \in Nat : RingInv(b, p, q)
  BY DEF RingRight
<1>2. PICK k \in 1 .. q : Place(b, k) = s /\ \E u \in Active : Released(u) < k
  BY <1>1 DEF RingInv, Belongs
<1>3. slots[s].number = k
  BY <1>1, <1>2 DEF RingInv, Holds
<1>4. k <= Len(program) /\ Len(program) \in Nat
  <2>1. q \in {p - 1, p} /\ p <= Len(program)
    BY <1>1 DEF RingInv
  <2>2. Len(program) \in Nat
    BY RegionFacts DEF Types
  <2> QED BY <1>2, <2>1, <2>2
<1>5. ASSUME NEW t \in Active, pc[t] \in Working, at[t] = k PROVE loop[t] = s
  BY <1>1, <1>2, <1>5, InLoop
<1> QED BY <1>2, <1>3, <1>4, <1>5

LEMMA CurrentKept ==
    ASSUME Types, RingRight, RangesRight, OnceRight, NEW t \in Active, Step(t),
           NEW R, HandStep(t, R), NEW s \in 0 .. Slots - 1, Untouched(s),
           NEW k \in Nat, k = slots[s].number
    PROVE  CurrentOnce(s)'
<1>0. /\ \A x : IsIteration(k, x)' = IsIteration(k, x)
      /\ \A x : Aligned(k, x)' = Aligned(k, x)
      /\ Shared(k)' = Shared(k)
  BY StepRegion, DescriptorFrame
<1>1. /\ slots'[s].number = k /\ slots'[s].loop_id = slots[s].loop_id
      /\ slots'[s].inc = slots[s].inc /\ slots'[s].current = slots[s].current
  BY DEF Untouched, SameLoop
<1> SUFFICES ASSUME slots[s].loop_id # Unused, Shared(k)
             PROVE  /\ Aligned(k, slots[s].current)
                    /\ \A r \in ran'[k] : Before(slots[s].inc, r[2], slots[s].current)
                    /\ \A x \in Int : IsIteration(k, x) /\ Before(slots[s].inc, x, slots[s].current) =>
                         Covered(k, x)'
  BY <1>0, <1>1 DEF CurrentOnce
<1>2. k \in 1 .. Len(program) /\ t \in Threads
  BY SlotLoop, ThreadFacts
<1>3. /\ Aligned(k, slots[s].current)
      /\ \A r \in ran[k] : Before(slots[s].inc, r[2], slots[s].current)
      /\ \A x \in Int : IsIteration(k, x) /\ Before(slots[s].inc, x, slots[s].current) =>
           Covered(k, x)
  BY DEF OnceRight, CurrentOnce
<1>4. ASSUME NEW x \in R, k = at[t] PROVE Before(slots[s].inc, x, slots[s].current)
  <2>1. pc[t] \in Holding /\ pc[t] \in Working /\ x \in Int /\ InHand(t, x)
    BY <1>4, RunsNew DEF HandStep
  <2>2. loop[t] = s
    BY <1>4, <2>1, SlotLoop
  <2>3. /\ slots[s] \in SlotRecord /\ Matches(slots[s], Descriptor(k))
        /\ slots[s].inc \in Int \ {0} /\ slots[s].current \in Int
    <3>1. Described
      BY DEF OnceRight
    <3> QED BY <1>4, <2>1, <2>2, <3>1, MyDescriptor DEF SlotRecord
  <2>4. N > 1 /\ slots[s].sched \in {"DYNAMIC", "GUIDED"} /\ slots[s].inc = Descriptor(k).inc
    BY <2>3 DEF Shared, Matches
  <2>5. Before(slots[s].inc, range[t].upper, slots[s].current)
    BY <2>1, <2>2, <2>4 DEF RangesRight, RangeRight
  <2>6. Within(slots[s].inc, x, range[t].upper) /\ range[t].upper \in Int
    BY <1>2, <1>4, <2>1, <2>4, FromType DEF InHand
  <2> DEFINE inc == slots[s].inc
             up == range[t].upper
             cur == slots[s].current
  <2>7. inc \in Int \ {0} /\ up \in Int /\ cur \in Int /\ Within(inc, x, up) /\ Before(inc, up, cur)
    BY <2>3, <2>5, <2>6
  <2> HIDE DEF inc, up, cur
  <2>8. Before(inc, x, cur)
    BY <2>1, <2>7, WithinFacts
  <2> QED BY <2>8 DEF inc, cur
<1>5. ASSUME NEW r \in ran'[k] PROVE Before(slots[s].inc, r[2], slots[s].current)
  <2>1. CASE r \in ran[k]
    BY <1>3, <2>1
  <2>2. CASE r \notin ran[k]
    <3>1. k = at[t] /\ r \in {<<t, i>> : i \in R}
      BY <1>2, <2>2, <1>5 DEF HandStep, RunsOnly
    <3>2. PICK x \in R : r = <<t, x>>
      BY <3>1
    <3> QED BY <1>4, <3>1, <3>2
  <2> QED BY <2>1, <2>2
<1>6. Grows
  BY CoveredGrows
<1> QED BY <1>2, <1>3, <1>5, <1>6 DEF Grows

\* The thread that publishes a loop finds none of it run.
LEMMA PublishCurrent ==
    ASSUME Types, RingRight, OnceRight, NEW t \in Active, Step(t), Publish(t), pc'[t] # "abort",
           NEW s \in 0 .. Slots - 1, s = MySlot(t), slots' = [slots EXCEPT ![s].loop_id = MyId(t)],
           NEW k \in Nat, k = at[t]
    PROVE  CurrentOnce(s)'
<1>0. /\ t \in Threads /\ pc[t] = "publish" /\ k \in 1 .. Len(program) /\ ran' = ran
      /\ k \in Nat \ {0}
  BY ThreadFacts DEF Publish, history, Types
<1>1. PICK b \in Nat, p \in Nat, q \in Nat : RingInv(b, p, q)
  BY DEF RingRight
<1>2. s = Place(b, k) /\ k = p /\ q = p - 1 /\ slots[s].number = k
  <2>1. s = Place(b, k)
    BY <1>0, <1>1, MyPlace
  <2> QED BY <1>0, <1>1, <2>1 DEF RingInv, FillRight
<1>3. slots'[s].number = k /\ slots'[s].inc = slots[s].inc /\ slots'[s].current = slots[s].current
  BY <1>2, IdField DEF SameLoop
<1>4. slots[s].current = Descriptor(k).lower /\ Matches(slots[s], Descriptor(k))
  BY <1>0, <1>2 DEF OnceRight, Described
<1>5. Descriptor(k).inc \in Int \ {0} /\ Descriptor(k).lower \in Int /\ slots[s].inc = Descriptor(k).inc
  BY <1>0, <1>4, DescriptorFacts DEF Types, Matches
<1>6. ASSUME NEW r \in ran[k] PROVE FALSE
  <2>1. r[1] \in Active /\ k <= Entered(r[1])
    BY <1>0 DEF OnceRight, RanRight
  <2>2. Entered(r[1]) <= q /\ Entered(r[1]) \in Nat
    BY <1>1, <2>1, ThreadFacts DEF RingInv, CountRight
  <2> QED BY <1>2, <2>1, <2>2
<1>7. /\ \A x : IsIteration(k, x)' = IsIteration(k, x)
      /\ \A x : Aligned(k, x)' = Aligned(k, x)
      /\ Shared(k)' = Shared(k)
  BY StepRegion, DescriptorFrame
<1>8. Aligned(k, Descriptor(k).lower)
  BY <1>5, OnStart DEF Aligned
<1>9. ASSUME NEW x \in Int, IsIteration(k, x), Before(Descriptor(k).inc, x, Descriptor(k).lower)
      PROVE  FALSE
  <2> DEFINE inc == Descriptor(k).inc
             low == Descriptor(k).lower
  <2>1. inc \in Int \ {0} /\ low \in Int /\ On(low, inc, x) /\ Before(inc, x, low)
    BY <1>5, <1>9 DEF IsIteration, Aligned
  <2> HIDE DEF inc, low
  <2>2. Within(inc, low, x)
    BY <2>1, OnFacts
  <2> QED BY <2>1, <2>2, BeforeNot
<1> QED BY <1>0, <1>3, <1>4, <1>5, <1>6, <1>7, <1>8, <1>9 DEF CurrentOnce

LEMMA CurrentStep ==
    ASSUME Types, RingRight, RangesRight, OnceRight, NEW t \in Active, Step(t), pc'[t] # "abort",
           NEW R, HandStep(t, R), NEW s \in 0 .. Slots - 1
    PROVE  CurrentOnce(s)'
<1>0. t \in Threads /\ at[t] \in 1 .. Len(program) /\ at[t] \in Nat
  BY ThreadFacts DEF Types
<1>1. CASE Untouched(s)
  <2>1. slots[s].number \in Nat
    BY DEF Types, SlotRecord
  <2> QED BY <1>1, <2>1, CurrentKept
<1>2. CASE Fill(t) /\ s = MySlot(t)
  <2>1. slots'[s].loop_id = Unused
    BY <1>2 DEF Fill, FillSlot, Types
  <2> QED BY <2>1 DEF CurrentOnce
<1>3. CASE Publish(t) /\ s = MySlot(t) /\ slots' = [slots EXCEPT ![s].loop_id = MyId(t)]
  BY <1>0, <1>3, PublishCurrent
<1>4. CASE s = loop[t] /\ slots' = [slots EXCEPT ![s].loop_id = Unused]
  <2>1. slots'[s].loop_id = Unused
    BY <1>4, IdField
  <2> QED BY <2>1 DEF CurrentOnce
<1>5. CASE (NextDynamic(t) \/ GuidedTake(t)) /\ s = loop[t]
  BY <1>0, <1>5, SharedTakes
<1> QED BY <1>1, <1>2, <1>3, <1>4, <1>5, StepSlots

LEMMA OthersCount ==
    ASSUME Types, NEW t \in Threads, Step(t), NEW u \in Threads, u # t
    PROVE  loop_count'[u] = loop_count[u]
<1>1. CASE Alloc(t)
  BY <1>1 DEF Alloc, Types
<1>2. CASE ~Alloc(t)
  <2>1. loop_count' = loop_count
    BY <1>2 DEF Step, Fill, Publish, Attach, NextFixed, NextDynamic, GuidedRead, GuidedEstimate,
       GuidedTake, GuidedAdjust, Body, OrderedBegin, Ordered, EndOrdered, SkipOrdered, OrderedEnd,
       FreeCount, FreeWhen, FreeLast, EndLoop, locals
  <2> QED BY <2>1
<1> QED BY <1>1, <1>2

LEMMA FillMatches ==
    ASSUME Types, NEW t \in Active, Fill(t), NEW s \in 0 .. Slots - 1, s = MySlot(t)
    PROVE  /\ slots'[s].number = at[t] /\ slots'[s].current = Descriptor(at[t]).lower
           /\ Matches(slots'[s], Descriptor(at[t]))
<1>0. slots \in [0 .. Slots - 1 -> SlotRecord]
  BY DEF Types
<1> DEFINE k == at[t]
           l == Resolve(program[k])
           min_chunk == MaxOf(1, program[k].chunk)
           first == GuidedFirst(l, min_chunk, N, param)
           chunk == IF l.sched = "GUIDED" THEN first ELSE l.chunk
<1>1. slots' = [slots EXCEPT ![s] =
       [loop_id |-> slots[s].loop_id, looping_threads |-> N,
        now_serving |-> l.lower, sched |-> l.sched, ordered |-> l.ordered,
        lower |-> l.lower, upper |-> l.upper, inc |-> l.inc,
        chunk |-> chunk,
        current |-> l.lower, min_chunk |-> min_chunk, number |-> k]]
  BY DEF Fill, FillSlot
<1>2. l.sched # "GUIDED" => chunk = l.chunk
  OBVIOUS
<1> DEFINE d == Descriptor(k)
<1>3. /\ d.sched = l.sched /\ d.inc = l.inc /\ d.lower = l.lower /\ d.upper = l.upper
      /\ d.chunk = l.chunk
  BY DEF Descriptor, FreeSlot
<1> HIDE DEF chunk, min_chunk, l, d
<1>4. /\ slots'[s].sched = l.sched /\ slots'[s].inc = l.inc /\ slots'[s].lower = l.lower
      /\ slots'[s].upper = l.upper /\ slots'[s].chunk = chunk /\ slots'[s].current = l.lower
      /\ slots'[s].number = k
  BY <1>0, <1>1
<1>5. Matches(slots'[s], d)
  BY <1>2, <1>3, <1>4 DEF Matches
<1> QED BY <1>3, <1>4, <1>5 DEF d

LEMMA SameMatches ==
    ASSUME Described, NEW s \in 0 .. Slots - 1, SameLoop(s),
           slots[s].sched # "GUIDED" => slots'[s].chunk = slots[s].chunk,
           slots'[s].number \in 1 .. Len(program)
    PROVE  Matches(slots'[s], Descriptor(slots'[s].number))
BY DEF Described, SameLoop, Matches

LEMMA DescribedStep ==
    ASSUME Types, RingRight, OnceRight, NEW t \in Active, Step(t), pc'[t] # "abort"
    PROVE  Described'
<1>0. t \in Threads /\ MySlot(t) \in 0 .. Slots - 1 /\ Described
  BY ThreadFacts, MySlotType DEF OnceRight
<1>1. ASSUME NEW s \in 0 .. Slots - 1, slots'[s].number \in 1 .. Len(program)
      PROVE  Matches(slots'[s], Descriptor(slots'[s].number))
  <2>1. CASE Untouched(s)
    BY <1>0, <1>1, <2>1, SameMatches DEF Untouched
  <2>2. CASE Fill(t) /\ s = MySlot(t)
    BY <2>2, FillMatches
  <2>3. CASE slots' = [slots EXCEPT ![s].loop_id = MyId(t)]
    BY <1>0, <1>1, <2>3, IdField, SameMatches
  <2>4. CASE slots' = [slots EXCEPT ![s].loop_id = Unused]
    BY <1>0, <1>1, <2>4, IdField, SameMatches
  <2>5. ASSUME NEW x, slots' = [slots EXCEPT ![s].current = x]
        PROVE  Matches(slots'[s], Descriptor(slots'[s].number))
    BY <1>0, <1>1, <2>5, CurrentField, SameMatches
  <2> QED BY <2>1, <2>2, <2>3, <2>4, <2>5, StepSlots
<1>2. region' = region
  BY StepRegion
<1> QED BY <1>1, <1>2 DEF Described, Descriptor, program

LEMMA PublishStep ==
    ASSUME Types, RingRight, OnceRight, NEW t \in Active, Step(t), pc'[t] # "abort",
           NEW u \in Active, pc'[u] = "publish"
    PROVE  (slots[MySlot(u)].current = Descriptor(at[u]).lower)'
<1>0. t \in Threads /\ u \in Threads /\ MySlot(u) \in 0 .. Slots - 1 /\ MySlot(t) \in 0 .. Slots - 1
  BY ThreadFacts, MySlotType
<1>1. region' = region
  BY StepRegion
<1> SUFFICES MySlot(u)' = MySlot(u) /\ at'[u] = at[u] /\ slots'[MySlot(u)].current = Descriptor(at[u]).lower
  BY <1>1 DEF Descriptor, program
<1>2. loop_count'[u] = loop_count[u] => MySlot(u)' = MySlot(u)
  BY <1>1 DEF MySlot, LoopIndex, Pred, Orphan
<1>3. CASE u = t
  <2>1. ~Inner(t)
    <3> SUFFICES ASSUME Inner(t) PROVE FALSE
      OBVIOUS
    <3>1. PICK label \in Working \cup {"abort"} : pc' = [pc EXCEPT ![t] = label]
      BY <1>0, InnerEffect
    <3>2. pc'[t] = label
      BY <1>0, <3>1 DEF Types
    <3> QED BY <1>3, <3>2, <3>1 DEF Working
  <2>2. Fill(t)
    BY <1>0, <1>3, <2>1, StepLeads DEF Step, Inner
  <2>3. loop_count' = loop_count /\ at' = at
    BY <2>2 DEF Fill, locals
  <2> QED BY <1>0, <1>2, <1>3, <2>2, <2>3, FillMatches
<1>4. CASE u # t
  <2>1. loop_count'[u] = loop_count[u] /\ at'[u] = at[u] /\ pc[u] = "publish"
    BY <1>0, <1>4, OthersCount, OthersPlace DEF Same
  <2>2. slots[MySlot(u)].current = Descriptor(at[u]).lower
    BY <2>1 DEF OnceRight
  <2>3. slots[MySlot(u)].loop_id = Unused /\ pc[t] \notin {"fill", "publish"}
    <3>1. PICK b \in Nat, p \in Nat, q \in Nat : RingInv(b, p, q)
      BY DEF RingRight
    <3>2. MySlot(u) = Place(b, at[u])
      BY <2>1, <3>1, MyPlace
    <3> QED BY <1>4, <2>1, <3>1, <3>2 DEF RingInv, FillRight
  <2>4. ~Fill(t) /\ ~Publish(t)
    BY <2>3 DEF Fill, Publish
  <2>5. slots'[MySlot(u)].current = slots[MySlot(u)].current
    <3> DEFINE v == MySlot(u)
    <3>0. v \in 0 .. Slots - 1 /\ slots[v].loop_id = Unused
      BY <1>0, <2>3
    <3> HIDE DEF v
    <3>1. CASE Untouched(v)
      BY <3>1 DEF Untouched, v
    <3>2. CASE slots' = [slots EXCEPT ![v].loop_id = Unused]
      BY <3>0, <3>2, IdField DEF v
    <3>3. CASE (NextDynamic(t) \/ GuidedTake(t)) /\ v = loop[t]
      <4>1. pc[t] \in Working
        BY <3>3 DEF NextDynamic, GuidedTake, Working
      <4> QED BY <3>0, <3>3, <4>1, InUse
    <3> QED BY <2>4, <3>0, <3>1, <3>2, <3>3, StepSlots
  <2> QED BY <1>2, <2>1, <2>2, <2>5
<1> QED BY <1>3, <1>4

LEMMA KeepingLeads ==
    ASSUME Types, NEW t \in Threads, Keeping(t)
    PROVE  pc[t] \in Working /\ pc'[t] # "free"
<1>0. pc \in [Threads -> Label]
  BY DEF Types
<1>1. CASE GuidedRead(t) \/ GuidedEstimate(t) \/ Body(t) \/ OrderedBegin(t) \/ OrderedEnd(t)
  BY <1>0, <1>1 DEF GuidedRead, GuidedEstimate, Body, OrderedBegin, OrderedEnd, Goto, Working
<1>2. CASE GuidedAdjust(t)
  <2>1. pc[t] = "adjust" /\ Hand(t, Reply(TRUE, range[t].lower, range[t].upper))
    BY <1>2 DEF GuidedAdjust
  <2>2. Reply(TRUE, range[t].lower, range[t].upper).more
    BY DEF Reply
  <2>3. pc' = [pc EXCEPT ![t] = "body"]
    BY <2>1, <2>2 DEF Hand, Goto
  <2> QED BY <1>0, <2>1, <2>3 DEF Working
<1>3. CASE Ordered(t)
  BY <1>0, <1>3 DEF Ordered, Goto, Working
<1>4. CASE SkipOrdered(t)
  BY <1>0, <1>4 DEF SkipOrdered, Goto, Working
<1>5. CASE EndOrdered(t)
  BY <1>0, <1>5 DEF EndOrdered, Goto, Working
<1> QED BY <1>1, <1>2, <1>3, <1>4, <1>5 DEF Keeping

\* What the step does to the thread that takes it.
LEMMA MyStep ==
    ASSUME Types, RingRight, RangesRight, OnceRight, NEW t \in Active, Step(t), pc'[t] # "abort",
           NEW R, HandStep(t, R), Keeping(t) => Shrinks(t, R), NEW k \in 1 .. Len(program), k = at[t]
    PROVE  /\ HandRange(t)' /\ HandOnce(t)'
           /\ pc'[t] = "free" => FinishedRight(t, k)'
<1>0. t \in Threads /\ k \in Nat
  BY ThreadFacts
<1>1. CASE Keeping(t)
  <2>1. pc[t] \in Working /\ pc'[t] # "free"
    BY <1>0, <1>1, KeepingLeads
  <2>2. HandRange(t)'
    BY <1>1, KeepingRange
  <2>3. HandOnce(t)'
    BY <1>0, <1>1, <2>1, KeepingOnce
  <2> QED BY <2>1, <2>2, <2>3
<1>2. CASE Publish(t) \/ Attach(t)
  <2>1. pc'[t] = "next"
    BY <1>0, <1>2, StepLeads
  <2>2. pc[t] \in Entering /\ UNCHANGED <<at, ran>> /\ iteration'[t] = 0
    <3>1. CASE Attach(t)
      BY <1>0, <3>1 DEF Attach, Enter, Entering, history, Types
    <3>2. CASE Publish(t)
      <4>1. pc' # [pc EXCEPT ![t] = "abort"]
        BY <1>0 DEF Types
      <4> QED BY <1>0, <3>2, <4>1 DEF Publish, Goto, Enter, Entering, history, Types
    <3> QED BY <1>2, <3>1, <3>2
  <2>3. HandOnce(t)'
    BY <1>0, <2>1, <2>2, EnterOnce
  <2>4. HandRange(t)'
    BY <2>1 DEF HandRange, Holding
  <2> QED BY <2>1, <2>3, <2>4
<1>3. CASE NextFixed(t)
  BY <1>3, FixedTake
<1>4. CASE NextDynamic(t) \/ GuidedTake(t)
  <2>1. pc[t] \in Working
    BY <1>4 DEF NextDynamic, GuidedTake, Working
  <2>2. loop[t] \in 0 .. Slots - 1
    BY <2>1, InUse
  <2> QED BY <1>4, <2>2, SharedTakes
<1>5. CASE Alloc(t) \/ Fill(t) \/ FreeCount(t) \/ FreeLast(t) \/ EndLoop(t)
  <2>1. pc'[t] \in {"attach", "fill", "publish", "unuse", "after", "begin", "done"}
    BY <1>0, <1>5, StepLeads
  <2> QED BY <2>1 DEF HandRange, HandOnce, Holding, Working
<1> QED BY <1>1, <1>2, <1>3, <1>4, <1>5 DEF Step, Keeping

LEMMA OnceStep ==
    ASSUME Types, RingRight, RangesRight, OnceRight, NEW t \in Active, Step(t), pc'[t] # "abort"
    PROVE  OnceRight'
<1>0. /\ t \in Threads /\ at[t] \in 1 .. Len(program)
      /\ Len(program) \in Nat \ {0}
  BY ThreadFacts, RegionFacts DEF Types
<1>1. PICK R : HandStep(t, R) /\ (Keeping(t) => Shrinks(t, R))
  BY StepHand
<1>2. Active' = Active /\ Len(program)' = Len(program)
  BY StepRegion, RegionFrame
<1>3. (ran \in [1 .. Len(program) -> SUBSET (Threads \X Int)])'
  BY <1>1, <1>2 DEF HandStep, RunsOnly
<1>4. \A k \in 1 .. Len(program) : RanRight(k)' /\ ~twice'
  BY <1>1, RanRightStep
<1>5. ~twice'
  BY <1>0, <1>4
<1>6. Described'
  BY DescribedStep
<1>7. \A u \in Active : pc'[u] = "publish" => (slots[MySlot(u)].current = Descriptor(at[u]).lower)'
  BY PublishStep
<1>8. /\ HandRange(t)' /\ HandOnce(t)'
      /\ \A k \in 1 .. Len(program) : k = at[t] /\ pc'[t] = "free" => FinishedRight(t, k)'
  BY <1>0, <1>1, MyStep
<1>9. ASSUME NEW u \in Active PROVE HandRange(u)' /\ HandOnce(u)'
  <2>1. CASE u = t
    BY <1>8, <2>1
  <2>2. CASE u # t
    <3>1. u \in Threads /\ at[u] \in Nat
      BY ThreadFacts
    <3>2. HandRange(u)'
      BY <1>0, <2>2, <3>1, OthersHand DEF OnceRight
    <3>3. HandOnce(u)'
      BY <1>1, <2>2, <3>1, OthersOnce
    <3> QED BY <3>2, <3>3
  <2> QED BY <2>1, <2>2
<1>10. \A s \in 0 .. Slots - 1 : CurrentOnce(s)'
  BY <1>1, CurrentStep
<1>11. ASSUME NEW u \in Active, NEW k \in 1 .. Len(program) PROVE FinishedRight(u, k)'
  BY <1>1, <1>8, FinishedStep
<1> QED BY <1>2, <1>3, <1>4, <1>5, <1>6, <1>7, <1>9, <1>10, <1>11 DEF OnceRight

LEMMA OnceInit == ASSUME Init PROVE OnceRight
<1>1. Types /\ region \in Regions
  BY TypesInit DEF Init
<1>2. /\ program \in Seq(LoopRecord) /\ Len(program) \in Nat /\ DOMAIN program = 1 .. Len(program)
      /\ Active \subseteq Threads /\ N \in Nat
  BY <1>1, RegionFacts
<1>3. /\ ran = [k \in 1 .. Len(program) |-> {}] /\ twice = FALSE
      /\ \A t \in Active : pc[t] = "begin" /\ at[t] = 1
      /\ \A s \in 0 .. Slots - 1 : slots[s].loop_id = Unused /\ slots[s].number = 0
  BY <1>2 DEF Init, FreeSlot, Active
<1>4. ran \in [1 .. Len(program) -> SUBSET (Threads \X Int)]
  BY <1>3
<1>5. Described
  BY <1>3 DEF Described
<1>6. \A t \in Active : HandRange(t) /\ HandOnce(t)
  BY <1>3 DEF HandRange, HandOnce, Holding, Working
<1>7. \A s \in 0 .. Slots - 1 : CurrentOnce(s)
  BY <1>3 DEF CurrentOnce
<1>8. \A k \in 1 .. Len(program) : RanRight(k)
  BY <1>3 DEF RanRight
<1>9. \A t \in Active, k \in 1 .. Len(program) : FinishedRight(t, k)
  BY <1>3 DEF FinishedRight, Finished
<1> QED BY <1>3, <1>4, <1>5, <1>6, <1>7, <1>8, <1>9 DEF OnceRight

\* When the threads are done no slot is in use.
LEMMA SlotsFree ==
    ASSUME Types, RingRight, \A t \in Threads : pc[t] \in {"done", "absent"},
           NEW s \in 0 .. Slots - 1
    PROVE  slots[s].loop_id = Unused
<1> SUFFICES ASSUME slots[s].loop_id # Unused PROVE FALSE
  OBVIOUS
<1>1. PICK b \in Nat, p \in Nat, q \in Nat : RingInv(b, p, q)
  BY DEF RingRight
<1>2. PICK k \in 1 .. q : \E u \in Active : Released(u) < k
  BY <1>1 DEF RingInv, Belongs
<1>3. PICK u \in Active : Released(u) < k
  BY <1>2
<1>4. pc[u] = "done"
  BY ThreadFacts
<1>5. Released(u) = Len(program)
  BY <1>1, <1>4 DEF RingInv, CountRight, Released
<1>6. q \in {p - 1, p} /\ p <= Len(program) /\ Len(program) \in Nat
  BY <1>1, RegionFacts DEF RingInv, Types
<1> QED BY <1>2, <1>3, <1>5, <1>6

LEMMA OnceNewRegion == ASSUME Types, RingRight, OnceRight, NewRegion PROVE OnceRight'
<1>1. region' = region /\ slots' = slots /\ twice' = twice
  BY DEF NewRegion
<1>2. /\ program \in Seq(LoopRecord) /\ Len(program) \in Nat /\ DOMAIN program = 1 .. Len(program)
      /\ Active \subseteq Threads /\ N \in Nat
  BY RegionFacts DEF Types
<1>3. Active' = Active /\ Len(program)' = Len(program) /\ program' = program
  BY <1>1, RegionFrame
<1>4. /\ ran' = [k \in 1 .. Len(program) |-> {}] /\ ~twice'
      /\ \A t \in Active : pc'[t] = "begin" /\ at'[t] = 1
      /\ \A s \in 0 .. Slots - 1 : slots'[s].loop_id = Unused
  <2>1. \A s \in 0 .. Slots - 1 : slots[s].loop_id = Unused
    BY SlotsFree DEF NewRegion
  <2>2. \A t \in Active : pc'[t] = "begin" /\ at'[t] = 1
    BY <1>2 DEF NewRegion, Active
  <2>3. ran' = [k \in 1 .. Len(program) |-> {}]
    BY <1>2 DEF NewRegion
  <2>4. ~twice'
    BY <1>1 DEF OnceRight
  <2> QED BY <1>1, <2>1, <2>2, <2>3, <2>4
<1>5. (ran \in [1 .. Len(program) -> SUBSET (Threads \X Int)])'
  BY <1>3, <1>4
<1>6. Described'
  <2>1. Described
    BY DEF OnceRight
  <2> QED BY <1>1, <2>1 DEF Described, Descriptor, program
<1>7. \A t \in Active : HandRange(t)' /\ HandOnce(t)'
  BY <1>4 DEF HandRange, HandOnce, Holding, Working
<1>8. \A s \in 0 .. Slots - 1 : CurrentOnce(s)'
  BY <1>4 DEF CurrentOnce
<1>9. \A k \in 1 .. Len(program) : RanRight(k)'
  BY <1>4 DEF RanRight
<1>10. \A t \in Active, k \in 1 .. Len(program) : FinishedRight(t, k)'
  BY <1>4 DEF FinishedRight, Finished
<1> QED BY <1>3, <1>4, <1>5, <1>6, <1>7, <1>8, <1>9, <1>10 DEF OnceRight

LEMMA OnceStutter == ASSUME OnceRight, UNCHANGED vars PROVE OnceRight'
<1>1. /\ region' = region /\ slots' = slots /\ pc' = pc /\ at' = at /\ loop_count' = loop_count
      /\ iteration' = iteration /\ range' = range /\ index' = index /\ guess' = guess
      /\ ran' = ran /\ twice' = twice
  BY DEF vars, shared, locals, history
<1>2. /\ \A k : Descriptor(k)' = Descriptor(k)
      /\ \A k : Shared(k)' = Shared(k)
      /\ \A k, x : Aligned(k, x)' = Aligned(k, x)
      /\ \A k, x : IsIteration(k, x)' = IsIteration(k, x)
      /\ \A k, t, x : Mine(k, t, x)' = Mine(k, t, x)
  BY <1>1, DescriptorFrame
<1>3. Active' = Active /\ Len(program)' = Len(program) /\ N' = N
  BY <1>1, RegionFrame
<1>4. Described'
  <2>1. Described
    BY DEF OnceRight
  <2> QED BY <1>1, <2>1 DEF Described, Descriptor, program
<1>5. \A t : MySlot(t)' = MySlot(t)
  BY <1>1 DEF MySlot, LoopIndex, Pred, Orphan
<1>6. \A t : Descriptor(at[t])' = Descriptor(at[t])
  BY <1>1 DEF Descriptor, program
<1>7. \A t : From(t)' = From(t)
  BY <1>1 DEF From
<1>8. \A t, x : InHand(t, x)' = InHand(t, x)
  BY <1>1, <1>6, <1>7 DEF InHand
<1>9. \A k, t, x : Given(k, t, x)' = Given(k, t, x)
  BY <1>1 DEF Given, Mine, Shared, Share, Descriptor, program, N
<1>10. \A k, x : Covered(k, x)' = Covered(k, x)
  BY <1>1, <1>3, <1>8 DEF Covered
<1>11. \A t : HandRange(t)' = HandRange(t)
  BY <1>1, <1>3, <1>6, <1>7 DEF HandRange, Aligned
<1>12. ASSUME NEW t, HandOnce(t), NEW k, k = at[t] PROVE HandOnce(t)'
  BY <1>1, <1>2, <1>8, <1>9, <1>10, <1>12 DEF HandOnce
<1>13. ASSUME NEW s, CurrentOnce(s), NEW k, k = slots[s].number PROVE CurrentOnce(s)'
  BY <1>1, <1>2, <1>10, <1>13 DEF CurrentOnce
<1>14. \A k : RanRight(k)' = RanRight(k)
  BY <1>1, <1>2, <1>3 DEF RanRight, Entered
<1>15. \A t, k : FinishedRight(t, k)' = FinishedRight(t, k)
  BY <1>1, <1>2, <1>10 DEF FinishedRight, Finished
<1>16. \A t \in Active : HandRange(t)' /\ HandOnce(t)'
  BY <1>11, <1>12 DEF OnceRight
<1>17. \A s \in 0 .. Slots - 1 : CurrentOnce(s)'
  BY <1>13 DEF OnceRight
<1>18. \A t \in Active : pc'[t] = "publish" => (slots[MySlot(t)].current = Descriptor(at[t]).lower)'
  BY <1>1, <1>5, <1>6 DEF OnceRight
<1> QED BY <1>1, <1>3, <1>4, <1>14, <1>15, <1>16, <1>17, <1>18 DEF OnceRight

LEMMA OnceImplies == ASSUME Types, RingRight, OnceRight PROVE ExactlyOnce
<1>0. DOMAIN program = 1 .. Len(program) /\ Len(program) \in Nat /\ region \in Regions
  BY RegionFacts DEF Types
<1>1. ~twice
  BY DEF OnceRight
<1>2. ASSUME NEW k \in 1 .. Len(program), NEW r \in ran[k] PROVE r[2] \in AllIterations(k)
  BY <1>0, <1>2, AllAre DEF OnceRight, RanRight
<1>3. ASSUME NEW k \in 1 .. Len(program), \A t \in Threads : Past(t, k), NEW x \in AllIterations(k)
      PROVE  \E r \in ran[k] : r[2] = x
  <2>1. IsIteration(k, x)
    BY <1>0, AllAre
  <2>2. x \in Int
    BY <1>0, <2>1, DescriptorFacts, OnFacts DEF IsIteration, Aligned
  <2>3. PICK t \in Active : Mine(k, t, x)
    BY <2>1, SharesCover
  <2>4. Finished(t, k)
    <3>1. Past(t, k) /\ pc[t] # "absent" /\ at[t] \in Nat
      BY <1>3, ThreadFacts
    <3>2. pc[t] = "done" => at[t] = Len(program)
      BY DEF RingRight, RingInv, CountRight
    <3> QED BY <1>0, <3>1, <3>2 DEF Past, Finished
  <2>5. Covered(k, x)
    BY <2>1, <2>2, <2>3, <2>4 DEF OnceRight, FinishedRight
  <2>6. ASSUME NEW u \in Active, at[u] = k, InHand(u, x) PROVE FALSE
    <3>1. Past(u, k) /\ at[u] \in Nat
      BY <1>3, ThreadFacts
    <3> QED BY <2>6, <3>1 DEF Past, InHand, Holding
  <2> QED BY <2>5, <2>6 DEF Covered
<1>4. ASSUME NEW k \in 1 .. Len(program)
      PROVE  LET done == {r[2] : r \in ran[k]}
             IN /\ done \subseteq AllIterations(k)
                /\ (\A t \in Threads : Past(t, k)) => done = AllIterations(k)
  BY <1>2, <1>3
<1> QED BY <1>0, <1>1, <1>4 DEF ExactlyOnce

LEMMA OnceKept == ASSUME LoopInv, OnceRight, [Next]_vars PROVE OnceRight'
<1>0. LoopInv'
  BY LoopInvStep
<1>1. CASE UNCHANGED vars
  BY <1>1, OnceStutter
<1>2. CASE NewRegion
  BY <1>2, OnceNewRegion DEF LoopInv
<1>3. ASSUME NEW t \in Threads, Step(t) PROVE OnceRight'
  <2>1. t \in Active
    BY <1>3, OnlyActive DEF LoopInv
  <2>2. pc'[t] # "abort"
    BY <1>0 DEF LoopInv, AssertionsHold
  <2> QED BY <1>3, <2>1, <2>2, OnceStep DEF LoopInv
<1> QED BY <1>1, <1>2, <1>3 DEF Next

\* No iteration is run twice, none outside the loop, and when every thread has
\* left a loop all its iterations have been run - for every schedule, and
\* however the threads interleave in __pmp_schedule_next.
THEOREM ExactlyOnceTheorem == Spec => []ExactlyOnce
<1>1. Init => LoopInv /\ OnceRight
  BY LoopInvInit, OnceInit
<1>2. LoopInv /\ OnceRight /\ [Next]_vars => LoopInv' /\ OnceRight'
  BY LoopInvStep, OnceKept
<1>3. LoopInv /\ OnceRight => ExactlyOnce
  BY OnceImplies DEF LoopInv
<1> QED BY <1>1, <1>2, <1>3, PTL DEF Spec

(***************************************************************************)
(* The DO variable, and who runs the last iteration                        *)
(***************************************************************************)
\* The thread is in a loop, from the call of __pmp_scheduler_init on.
Amid == Entering \cup Working \cup {"unuse", "after"}

\* The DO variable of a thread is beyond all that the thread has run and,
\* except at the start of a range with ordered regions, next to the last of it.
IndexRight(t) ==
    LET d == Descriptor(at[t])
    IN pc[t] \in Amid =>
        /\ Aligned(at[t], index[t])
        /\ \A r \in ran[at[t]] : r[1] = t => Before(d.inc, r[2], index[t])
        /\ \/ index[t] = d.lower
           \/ <<t, index[t] - d.inc>> \in ran[at[t]]
           \/ /\ pc[t] \in {"iterate", "inside"} /\ index[t] = range[t].lower
              /\ Within(d.inc, index[t], range[t].upper)
        /\ pc[t] \in {"adjust", "body"} =>
            /\ Within(d.inc, index[t], range[t].lower)
            /\ range[t].lower = d.lower \/ Within(d.inc, range[t].lower, range[t].upper)

\* The last iteration of loop k.
Latest(k) == program[k].lower + (Size(program[k]) - 1) * program[k].inc

\* Thread t has looked whether it has run the last iteration of loop k.
Looked(t, k) == k < at[t] \/ pc[t] = "done"

LastRight(t, k) ==
    /\ <<k, t>> \in last => Looked(t, k)
    /\ Looked(t, k) /\ Within(Descriptor(k).inc, Descriptor(k).lower, Descriptor(k).upper) =>
        (<<k, t>> \in last <=> <<t, Latest(k)>> \in ran[k])

LastsRight ==
    /\ last \in SUBSET ((1 .. Len(program)) \X Active)
    /\ \A t \in Active : IndexRight(t)
    /\ \A t \in Active, k \in 1 .. Len(program) : LastRight(t, k)

LEMMA LatestFacts ==
    ASSUME region \in Regions, NEW k \in 1 .. Len(program),
           Within(Descriptor(k).inc, Descriptor(k).lower, Descriptor(k).upper)
    PROVE  /\ Latest(k) \in Int /\ IsIteration(k, Latest(k))
           /\ ~Within(Descriptor(k).inc, Latest(k) + Descriptor(k).inc, Descriptor(k).upper)
<1> DEFINE lo == Descriptor(k).lower
           up == Descriptor(k).upper
           inc == Descriptor(k).inc
           n == CDiv(up - lo, inc)
           y == lo + n * inc
<1>1. lo \in Int /\ up \in Int /\ inc \in Int \ {0} /\ Within(inc, lo, up)
  BY DescriptorFacts
<1>2. program[k].lower = lo /\ program[k].upper = up /\ program[k].inc = inc
  BY DescriptorFacts
<1>3. \A x : IsIteration(k, x) <=> On(lo, inc, x) /\ Within(inc, x, up)
  BY DEF IsIteration, Aligned
<1>4. Latest(k) = lo + ((n + 1) - 1) * inc
  BY <1>2 DEF Latest, Size
<1> HIDE DEF lo, up, inc
<1>5. /\ n \in Nat /\ y \in Int /\ On(lo, inc, y) /\ Within(inc, y, up) /\ ~Within(inc, y + inc, up)
  <2> DEFINE m == n
  <2>1. m = CDiv(up - lo, inc)
    OBVIOUS
  <2> HIDE DEF m
  <2> QED BY <1>1, <2>1, LastFacts DEF m
<1>6. Latest(k) = y
  <2> HIDE DEF n
  <2>1. (n + 1) - 1 = n
    BY <1>5
  <2> QED BY <1>4, <2>1
<1> HIDE DEF y
<1> QED BY <1>3, <1>5, <1>6 DEF inc, up

\* The invariant of the DO variable after a step, in terms of the old region.
LEMMA IndexNext ==
    ASSUME UNCHANGED region, NEW t, NEW k, at'[t] = k,
           pc'[t] \in Amid =>
            /\ Aligned(k, index'[t])
            /\ \A r \in ran'[k] : r[1] = t => Before(Descriptor(k).inc, r[2], index'[t])
            /\ \/ index'[t] = Descriptor(k).lower
               \/ <<t, index'[t] - Descriptor(k).inc>> \in ran'[k]
               \/ /\ pc'[t] \in {"iterate", "inside"} /\ index'[t] = range'[t].lower
                  /\ Within(Descriptor(k).inc, index'[t], range'[t].upper)
            /\ pc'[t] \in {"adjust", "body"} =>
                /\ Within(Descriptor(k).inc, index'[t], range'[t].lower)
                /\ \/ range'[t].lower = Descriptor(k).lower
                   \/ Within(Descriptor(k).inc, range'[t].lower, range'[t].upper)
    PROVE  IndexRight(t)'
<1>1. Descriptor(at[t])' = Descriptor(k)
  BY DEF Descriptor, program
<1>2. Aligned(at[t], index[t])' <=> Aligned(k, index'[t])
  BY <1>1 DEF Aligned
<1> QED BY <1>1, <1>2 DEF IndexRight

LEMMA OthersIndex ==
    ASSUME Types, NEW t \in Active, Step(t), NEW R, HandStep(t, R), NEW u \in Active, u # t,
           IndexRight(u)
    PROVE  IndexRight(u)'
<1>0. t \in Threads /\ u \in Threads /\ at[u] \in 1 .. Len(program)
  BY ThreadFacts DEF Types
<1>1. /\ pc'[u] = pc[u] /\ at'[u] = at[u] /\ index'[u] = index[u] /\ range'[u] = range[u]
  BY <1>0, OthersPlace DEF Same
<1>2. ASSUME NEW r \in ran'[at[u]], r[1] = u PROVE r \in ran[at[u]]
  BY <1>0, <1>2 DEF HandStep, RunsOnly
<1>3. \A r \in ran[at[u]] : r \in ran'[at[u]]
  BY <1>0 DEF HandStep, RunsOnly
<1> QED BY <1>1, <1>2, <1>3, StepRegion, IndexNext DEF IndexRight

LEMMA IndexKept ==
    ASSUME NEW t, UNCHANGED region, at'[t] = at[t], index'[t] = index[t], ran' = ran,
           pc[t] \in Amid, pc[t] \notin {"iterate", "inside"},
           pc'[t] \notin {"adjust", "body"}, IndexRight(t)
    PROVE  IndexRight(t)'
BY IndexNext DEF IndexRight

\* A thread that fetches a range fetches one beyond its DO variable.
LEMMA TakeIndex ==
    ASSUME Types, OnceRight, NEW t \in Active, UNCHANGED <<region, at, index, ran>>,
           NEW k \in 1 .. Len(program), k = at[t], IndexRight(t),
           pc[t] \in {"next", "take"}, pc'[t] \in {"adjust", "body"},
           NEW new \in Int, new = range'[t].lower, Aligned(k, new),
           \A r \in ran[k] : r[1] = t => Before(Descriptor(k).inc, r[2], new),
           new = Descriptor(k).lower \/ Within(Descriptor(k).inc, new, range'[t].upper)
    PROVE  IndexRight(t)'
<1> DEFINE inc == Descriptor(k).inc
           lo == Descriptor(k).lower
           i == index[t]
           y == i - inc
<1>0. inc \in Int \ {0} /\ lo \in Int
  BY DescriptorFacts DEF Types
<1>1. /\ Aligned(k, i) /\ \A r \in ran[k] : r[1] = t => Before(inc, r[2], i)
      /\ i = lo \/ <<t, y>> \in ran[k]
  BY DEF IndexRight, Amid, Working
<1>2. On(lo, inc, i) /\ On(lo, inc, new)
  BY <1>1 DEF Aligned
<1>3. Within(inc, i, new)
  <2>1. CASE i = lo
    <3> HIDE DEF lo, inc, i
    <3> QED BY <1>0, <1>2, <2>1, OnFacts
  <2>2. CASE <<t, y>> \in ran[k]
    <3>1. On(lo, inc, y)
      BY <2>2 DEF OnceRight, RanRight, IsIteration, Aligned
    <3>2. Before(inc, y, new)
      BY <2>2
    <3>3. i \in Int /\ y + inc = i
      <4> HIDE DEF lo, inc, i
      <4>1. i \in Int
        BY <1>0, <1>2, OnFacts
      <4> QED BY <1>0, <4>1
    <3> HIDE DEF lo, inc, i, y
    <3>4. Within(inc, y + inc, new)
      BY <1>0, <1>2, <3>1, <3>2, OnNext
    <3> QED BY <3>3, <3>4
  <2> QED BY <1>1, <2>1, <2>2
<1>4. at'[t] = k /\ index'[t] = i /\ ran' = ran
  OBVIOUS
<1> QED BY <1>1, <1>3, <1>4, IndexNext

\* The start of the range that a thread has just fetched.
LEMMA NewStart ==
    ASSUME Types, Types', NEW t \in Active, UNCHANGED <<region, at>>,
           NEW k \in 1 .. Len(program), k = at[t],
           HandRange(t)', pc'[t] \in {"adjust", "body"}
    PROVE  range'[t].lower \in Int /\ range'[t].upper \in Int /\ Aligned(k, range'[t].lower)
<1>0. t \in Threads
  BY ThreadFacts
<1>1. From(t)' = range'[t].lower
  BY DEF From
<1>2. Descriptor(at[t])' = Descriptor(k)
  BY DEF Descriptor, program
<1>3. Aligned(at[t], From(t))'
  BY DEF HandRange, Holding
<1>4. Aligned(k, range'[t].lower)
  BY <1>1, <1>2, <1>3 DEF Aligned
<1> QED BY <1>0, <1>4 DEF Types

LEMMA NewRange ==
    ASSUME Types, RingRight, OnceRight, Types', RangesRight', NEW t \in Active, Step(t),
           UNCHANGED <<region, at, loop>>, N > 1, pc[t] \in Working, pc'[t] \in {"adjust", "body"},
           slots'[loop[t]].inc = slots[loop[t]].inc
    PROVE  Within(Descriptor(at[t]).inc, range'[t].lower, range'[t].upper)
<1>1. slots[loop[t]].inc = Descriptor(at[t]).inc
  BY MyDescriptor DEF OnceRight, Matches
<1>2. RangeRight(t)'
  BY RegionFrame DEF RangesRight
<1> QED BY <1>1, <1>2 DEF RangeRight, Holding

LEMMA SharedIndex ==
    ASSUME Types, RingRight, OnceRight, Types', RangesRight', NEW t \in Active, Step(t),
           NextDynamic(t) \/ GuidedTake(t), HandRange(t)', IndexRight(t)
    PROVE  IndexRight(t)'
<1> DEFINE k == at[t]
           s == loop[t]
<1>0. t \in Threads /\ k \in 1 .. Len(program) /\ pc \in [Threads -> Label]
      /\ range \in [Threads -> [lower : Int, upper : Int]]
  BY ThreadFacts DEF Types
<1>1. /\ pc[t] \in {"next", "take"} /\ UNCHANGED <<region, at, index, ran, loop>>
      /\ \E x : slots' = [slots EXCEPT ![s].current = x]
  BY DEF NextDynamic, GuidedTake, history
<1>2. /\ pc'[t] \in {"body", "adjust", "free"}
      /\ pc'[t] # "free" => range'[t].lower = slots[s].current
  <2>1. CASE NextDynamic(t)
    <3>1. PICK reply : Hand(t, reply) /\ reply.lower = slots[s].current
      BY <2>1 DEF NextDynamic, ChunkAt, Reply
    <3> QED BY <1>0, <3>1, HandRight
  <2>2. CASE GuidedTake(t)
    BY <1>0, <2>2 DEF GuidedTake, ChunkAt, Reply, Goto
  <2> QED BY <2>1, <2>2
<1>3. CASE pc'[t] = "free"
  BY <1>1, <1>3, IndexKept DEF Amid, Working
<1>4. CASE pc'[t] # "free"
  <2>1. pc[t] \in Working /\ Described
    BY <1>1 DEF Working, OnceRight
  <2>2. /\ s \in 0 .. Slots - 1 /\ slots[s].number = k /\ slots[s].loop_id # Unused
        /\ slots[s] \in SlotRecord /\ Matches(slots[s], Descriptor(k))
    BY <2>1, MyDescriptor
  <2>3. Shared(k)
    <3>1. CASE NextDynamic(t)
      BY <2>2, <3>1 DEF NextDynamic, Shared, Matches
    <3>2. CASE GuidedTake(t)
      BY <3>2 DEF GuidedTake, Shared, OnceRight, HandRange
    <3> QED BY <3>1, <3>2
  <2>4. \A r \in ran[k] : Before(Descriptor(k).inc, r[2], slots[s].current)
    BY <2>2, <2>3 DEF OnceRight, CurrentOnce, Matches
  <2>5. range'[t].lower \in Int /\ Aligned(k, range'[t].lower)
    BY <1>0, <1>1, <1>2, <1>4, NewStart
  <2>6. slots'[s].inc = slots[s].inc
    <3>1. PICK x : slots' = [slots EXCEPT ![s].current = x]
      BY <1>1
    <3> QED BY <2>2, <3>1, CurrentField DEF SameLoop
  <2>7. Within(Descriptor(k).inc, range'[t].lower, range'[t].upper)
    BY <1>1, <1>2, <1>4, <2>1, <2>3, <2>6, NewRange DEF Shared
  <2> QED BY <1>0, <1>1, <1>2, <1>4, <2>4, <2>5, <2>7, TakeIndex
<1> QED BY <1>3, <1>4

\* What a thread has been given comes before the rest of its share.
LEMMA GivenFirst ==
    ASSUME Types, NEW k \in 1 .. Len(program), NEW t \in Active, NEW i \in Nat,
           NEW x \in Int, NEW y \in Int, GivenAt(k, t, i, y), Mine(k, t, x), ~GivenAt(k, t, i, x)
    PROVE  Before(Descriptor(k).inc, y, x)
<1> DEFINE inc == Descriptor(k).inc
           bound == Share(k, t).lower + (i * Descriptor(k).chunk) * inc
<1>1. /\ inc \in Int \ {0} /\ Descriptor(k).chunk \in Int /\ Share(k, t).lower \in Int
  BY DescriptorFacts, ShareFacts DEF Types
<1>2. bound \in Int
  BY <1>1
<1>3. N > 1 /\ Descriptor(k).sched = "STATIC" /\ ~Before(inc, x, bound) /\ Before(inc, y, bound)
  BY DEF GivenAt
<1> HIDE DEF inc, bound
<1>4. Within(inc, bound, x)
  BY <1>1, <1>2, <1>3, BeforeNot
<1>5. Before(inc, y, x)
  BY <1>1, <1>2, <1>3, <1>4, WithinFacts
<1> QED BY <1>5 DEF inc

LEMMA FixedIndex ==
    ASSUME Types, RingRight, OnceRight, Types', RangesRight', NEW t \in Active, Step(t),
           NextFixed(t), HandRange(t)', IndexRight(t), NEW k \in 1 .. Len(program), k = at[t]
    PROVE  IndexRight(t)'
<1> DEFINE i == iteration[t]
<1>0. t \in Threads /\ pc \in [Threads -> Label] /\ i \in Nat
      /\ range \in [Threads -> [lower : Int, upper : Int]] /\ N \in Nat \ {0}
  BY ThreadFacts, RegionFacts DEF Types
<1>1. pc[t] = "next" /\ pc[t] \in Working /\ UNCHANGED <<region, slots, at, index, ran, loop>>
  BY DEF NextFixed, history, shared, Working
<1>2. PICK reply : Hand(t, reply) /\ Continues(k, t, i, reply)
  BY FixedReply
<1>3. CASE pc'[t] = "free"
  BY <1>1, <1>3, IndexKept DEF Amid, Working
<1>4. CASE pc'[t] # "free"
  <2> DEFINE new == range'[t].lower
  <2>1. pc'[t] = "body" /\ reply.more /\ new = reply.lower /\ range'[t].upper = reply.upper
    BY <1>0, <1>2, <1>4, HandRight
  <2>2. new \in Int /\ Aligned(k, new)
    BY <1>1, <2>1, NewStart
  <2>3. ASSUME NEW r \in ran[k], r[1] = t PROVE GivenAt(k, t, i, r[2]) /\ r[2] \in Int
    <3>1. ~Shared(k)
      BY FixedReply
    <3> QED BY <1>1, <2>3, <3>1 DEF OnceRight, HandOnce, Given, GivenAt, RanRight
  <2>4. CASE N = 1
    <3>1. Hand(t, Reply(i = 0, slots[loop[t]].lower, slots[loop[t]].upper))
      BY <2>4 DEF NextFixed
    <3>2. slots[loop[t]].lower = Descriptor(k).lower
      BY <1>1, MyDescriptor DEF OnceRight, Matches
    <3>3. i = 0 /\ new = Descriptor(k).lower
      <4>1. \/ pc'[t] = "free"
            \/ /\ Reply(i = 0, slots[loop[t]].lower, slots[loop[t]].upper).more
               /\ new = Reply(i = 0, slots[loop[t]].lower, slots[loop[t]].upper).lower
        BY <1>0, <3>1, HandRight
      <4> QED BY <1>4, <3>2, <4>1 DEF Reply
    <3>4. \A r \in ran[k] : r[1] = t => FALSE
      BY <2>3, <3>3 DEF GivenAt
    <3> QED BY <1>1, <2>1, <2>2, <3>3, <3>4, TakeIndex
  <2>5. CASE N > 1
    <3>1. Within(Descriptor(k).inc, new, range'[t].upper)
      BY <1>1, <2>1, <2>5, NewRange
    <3>2. InReply(k, reply, new)
      <4>1. Descriptor(k).inc \in Int \ {0}
        BY DescriptorFacts DEF Types
      <4>2. Within(Descriptor(k).inc, new, new)
        <5> HIDE DEF new
        <5> QED BY <2>2, <4>1, WithinSelf
      <4> QED BY <2>1, <3>1, <4>2 DEF InReply
    <3>3. ~GivenAt(k, t, i, new) /\ Mine(k, t, new)
      BY <1>2, <2>1, <2>2, <3>2 DEF Continues, GivenAt
    <3>4. ASSUME NEW r \in ran[k], r[1] = t PROVE Before(Descriptor(k).inc, r[2], new)
      <4> DEFINE y == r[2]
      <4>1. GivenAt(k, t, i, y) /\ y \in Int
        BY <2>3, <3>4
      <4> HIDE DEF y, new, i
      <4>2. Before(Descriptor(k).inc, y, new)
        BY <1>0, <2>2, <3>3, <4>1, GivenFirst
      <4> QED BY <4>2 DEF y
    <3> QED BY <1>1, <2>1, <2>2, <3>1, <3>4, TakeIndex
  <2> QED BY <1>0, <2>4, <2>5
<1> QED BY <1>3, <1>4

LEMMA BodyIndex ==
    ASSUME Types, OnceRight, NEW t \in Active, Body(t), IndexRight(t),
           NEW k \in 1 .. Len(program), k = at[t]
    PROVE  IndexRight(t)'
<1> DEFINE inc == Descriptor(k).inc
           lo == Descriptor(k).lower
           upper == Descriptor(k).upper
           a == range[t].lower
           b == range[t].upper
           to == LoopMin(inc, b, upper)
           R == Iterations(a, to, inc)
           i == index'[t]
<1>0. t \in Threads /\ pc \in [Threads -> Label] /\ index \in [Threads -> Int]
      /\ ran \in [1 .. Len(program) -> SUBSET (Threads \X Int)]
  BY ThreadFacts DEF Types, OnceRight
<1>1. /\ inc \in Int \ {0} /\ lo \in Int /\ upper \in Int
      /\ program[k].inc = inc /\ program[k].upper = upper
  BY DescriptorFacts DEF Types
<1>2. /\ pc[t] = "body" /\ UNCHANGED <<region, at>> /\ pc' = [pc EXCEPT ![t] = "next"]
      /\ ran' = [ran EXCEPT ![k] = @ \cup {<<t, x>> : x \in R}]
      /\ i = Final(a, to, inc)
  BY <1>0, <1>1 DEF Body, Goto, Run
<1>3. a \in Int /\ b \in Int /\ On(lo, inc, a) /\ Within(inc, b, upper)
  <2>1. From(t) = a /\ HandRange(t)
    BY <1>2 DEF From, OnceRight
  <2> QED BY <1>0, <1>2, <2>1, FromType DEF HandRange, Holding, Aligned
<1>4. /\ \A r \in ran[k] : r[1] = t => Before(inc, r[2], index[t])
      /\ Within(inc, index[t], a) /\ (a = lo \/ Within(inc, a, b)) /\ index[t] \in Int
  BY <1>0, <1>2 DEF IndexRight, Amid, Working
<1>5. \A r \in ran[k] : r[2] \in Int
  BY DEF OnceRight, RanRight
<1>6. pc'[t] = "next" /\ at'[t] = k /\ ran'[k] = ran[k] \cup {<<t, x>> : x \in R}
  BY <1>0, <1>2
<1>7. ASSUME NEW r \in ran[k], r[1] = t PROVE Before(inc, r[2], a)
  <2> DEFINE y == r[2]
             j == index[t]
  <2>1. y \in Int /\ j \in Int /\ Before(inc, y, j) /\ Within(inc, j, a)
    BY <1>4, <1>5, <1>7
  <2> HIDE DEF y, j, inc, a
  <2>2. Before(inc, y, a)
    BY <1>1, <1>3, <2>1, WithinFacts
  <2> QED BY <2>2 DEF y
<1>8. Aligned(k, i) <=> On(lo, inc, i)
  BY DEF Aligned
<1> SUFFICES /\ On(lo, inc, i)
             /\ \A r \in ran'[k] : r[1] = t => Before(inc, r[2], i)
             /\ i = lo \/ <<t, i - inc>> \in ran'[k]
  BY <1>2, <1>6, <1>8, IndexNext
<1> HIDE DEF inc, lo, upper, a, b, i
<1>9. to \in Int /\ \A x \in Int : Within(inc, x, to) <=> Within(inc, x, b) /\ Within(inc, x, upper)
  BY <1>1, <1>3, WithinMin
<1> HIDE DEF to
<1>10. \A x : x \in R <=> On(a, inc, x) /\ Within(inc, x, to)
  BY <1>1, <1>3, <1>9, IterationsOn
<1> HIDE DEF R
<1>11. CASE Within(inc, a, to)
  <2>1. PICK y \in Int : /\ On(a, inc, y) /\ Within(inc, y, to) /\ ~Within(inc, y + inc, to)
                         /\ i = y + inc
    BY <1>1, <1>2, <1>3, <1>9, <1>11, FinalFacts
  <2>2. On(lo, inc, y)
    <3>1. PICK m \in Nat : y = a + m * inc
      BY <2>1 DEF On
    <3> QED BY <1>1, <1>3, <3>1, OnAhead
  <2>3. On(lo, inc, i)
    BY <1>1, <2>1, <2>2, OnStep
  <2>4. i \in Int /\ i - inc = y /\ Before(inc, y, i)
    BY <1>1, <2>1 DEF Before
  <2>5. <<t, i - inc>> \in ran'[k]
    BY <1>6, <1>10, <2>1, <2>4
  <2>6. ASSUME NEW x \in R PROVE x \in Int /\ Before(inc, x, i)
    <3>1. x \in Int /\ Within(inc, x, to)
      BY <1>1, <1>3, <1>10, OnFacts
    <3>2. Before(inc, to, i)
      BY <1>1, <1>9, <2>1, <2>4, BeforeNot
    <3> QED BY <1>1, <1>9, <2>4, <3>1, <3>2, WithinFacts
  <2>7. ASSUME NEW r \in ran[k], r[1] = t PROVE Before(inc, r[2], i)
    <3> DEFINE x == r[2]
    <3>1. x \in Int /\ Before(inc, x, a)
      BY <1>5, <1>7, <2>7
    <3> HIDE DEF x
    <3>2. Within(inc, a, y)
      BY <1>1, <1>3, <2>1, OnFacts
    <3>3. Before(inc, x, y)
      BY <1>1, <1>3, <3>1, <3>2, WithinFacts
    <3>4. Within(inc, y, i)
      BY <1>1, <2>1, <2>4, WithinPair
    <3>5. Before(inc, x, i)
      BY <1>1, <2>4, <3>1, <3>3, <3>4, WithinFacts
    <3> QED BY <3>5 DEF x
  <2>8. ASSUME NEW r \in ran'[k], r[1] = t PROVE Before(inc, r[2], i)
    <3>1. CASE r \in ran[k]
      BY <2>7, <2>8, <3>1
    <3>2. CASE r \notin ran[k]
      <4>1. PICK x \in R : r = <<t, x>>
        BY <1>6, <2>8, <3>2
      <4> QED BY <2>6, <4>1
    <3> QED BY <3>1, <3>2
  <2> QED BY <2>3, <2>5, <2>8
<1>12. CASE ~Within(inc, a, to)
  <2>1. i = a
    BY <1>2, <1>12 DEF Final
  <2>2. \A x : x \notin R
    <3> SUFFICES ASSUME NEW x \in R PROVE FALSE
      OBVIOUS
    <3>1. x \in Int /\ Within(inc, a, x) /\ Within(inc, x, to)
      BY <1>1, <1>3, <1>10, OnFacts
    <3> QED BY <1>1, <1>3, <1>9, <1>12, <3>1, WithinFacts
  <2>3. i = lo
    <3>1. Within(inc, a, b) => Within(inc, a, to)
      BY <1>1, <1>3, <1>9, WithinFacts
    <3> QED BY <1>4, <1>12, <2>1, <3>1
  <2>4. \A r \in ran'[k] : r \in ran[k]
    BY <1>6, <2>2
  <2> QED BY <1>3, <1>7, <2>1, <2>3, <2>4
<1> QED BY <1>11, <1>12

LEMMA OneIndex ==
    ASSUME Types, OnceRight, NEW t \in Active, pc[t] \in {"iterate", "inside"}, pc'[t] = "iterate",
           index'[t] = index[t] + Descriptor(at[t]).inc, Run(t, {index[t]}),
           UNCHANGED <<region, at>>, IndexRight(t), NEW k \in 1 .. Len(program), k = at[t]
    PROVE  IndexRight(t)'
<1> DEFINE inc == Descriptor(k).inc
           lo == Descriptor(k).lower
           i == index[t]
           j == index'[t]
<1>0. t \in Threads /\ i \in Int /\ ran \in [1 .. Len(program) -> SUBSET (Threads \X Int)]
  BY ThreadFacts DEF Types, OnceRight
<1>1. inc \in Int \ {0} /\ lo \in Int
  BY DescriptorFacts DEF Types
<1>2. On(lo, inc, i) /\ \A r \in ran[k] : r[1] = t => Before(inc, r[2], i)
  BY DEF IndexRight, Amid, Working, Aligned
<1>3. \A r \in ran[k] : r[2] \in Int
  BY DEF OnceRight, RanRight
<1>4. ran'[k] = ran[k] \cup {<<t, i>>} /\ j = i + inc /\ at'[t] = k
  BY <1>0 DEF Run
<1>5. Aligned(k, j) <=> On(lo, inc, j)
  BY DEF Aligned
<1> SUFFICES /\ On(lo, inc, j)
             /\ \A r \in ran'[k] : r[1] = t => Before(inc, r[2], j)
             /\ <<t, j - inc>> \in ran'[k]
  BY <1>4, <1>5, IndexNext
<1> HIDE DEF inc, lo, i, j
<1>6. On(lo, inc, j)
  BY <1>1, <1>2, <1>4, OnStep
<1>7. j \in Int /\ j - inc = i /\ Before(inc, i, j) /\ Within(inc, i, j)
  BY <1>0, <1>1, <1>4 DEF Before, Within
<1>8. ASSUME NEW r \in ran'[k], r[1] = t PROVE Before(inc, r[2], j)
  <2>1. CASE r \in ran[k]
    <3> DEFINE x == r[2]
    <3>1. x \in Int /\ Before(inc, x, i)
      BY <1>2, <1>3, <1>8, <2>1
    <3> HIDE DEF x
    <3>2. Before(inc, x, j)
      BY <1>0, <1>1, <1>7, <3>1, WithinFacts
    <3> QED BY <3>2 DEF x
  <2>2. CASE r = <<t, i>>
    BY <1>7, <2>2
  <2> QED BY <1>4, <1>8, <2>1, <2>2
<1> QED BY <1>4, <1>6, <1>7, <1>8

LEMMA IndexStep ==
    ASSUME Types, RingRight, OnceRight, Types', RangesRight', NEW t \in Active, Step(t),
           pc'[t] # "abort", HandRange(t)', IndexRight(t), NEW k \in 1 .. Len(program), k = at[t]
    PROVE  IndexRight(t)'
<1>0. /\ t \in Threads /\ pc \in [Threads -> Label] /\ index \in [Threads -> Int]
      /\ range \in [Threads -> [lower : Int, upper : Int]]
      /\ range[t] = [lower |-> range[t].lower, upper |-> range[t].upper]
      /\ UNCHANGED region
  BY ThreadFacts, StepRegion DEF Types
<1>1. pc[t] \in Working => slots[loop[t]].inc = Descriptor(k).inc
  BY MyDescriptor DEF OnceRight, Matches
<1>2. CASE Alloc(t)
  <2>1. pc[t] = "begin" /\ UNCHANGED <<at, ran>> /\ index'[t] = program[k].lower
    BY <1>0, <1>2 DEF Alloc, history
  <2>2. program[k].lower = Descriptor(k).lower /\ Aligned(k, Descriptor(k).lower)
    BY DescriptorFacts, OnStart DEF Types, Aligned
  <2>3. \A r \in ran[k] : r[1] # t
    <3> SUFFICES ASSUME NEW r \in ran[k], r[1] = t PROVE FALSE
      OBVIOUS
    <3>1. k <= Entered(t)
      BY DEF OnceRight, RanRight
    <3>2. Entered(t) = k - 1 /\ k \in Int
      BY <2>1 DEF Entered
    <3> QED BY <3>1, <3>2
  <2>4. pc'[t] \notin {"adjust", "body"}
    BY <1>0, <1>2, StepLeads
  <2> QED BY <1>0, <2>1, <2>2, <2>3, <2>4, IndexNext
<1>3. CASE Fill(t) \/ Publish(t) \/ Attach(t) \/ FreeCount(t) \/ FreeLast(t)
  <2>1. pc'[t] \notin {"adjust", "body"}
    BY <1>0, <1>3, StepLeads
  <2>2. pc[t] \in Amid /\ pc[t] \notin {"iterate", "inside"} /\ UNCHANGED <<at, index, ran>>
    BY <1>3 DEF Fill, Publish, Attach, FreeCount, FreeWhen, FreeLast, locals, history, Amid, Entering, Working
  <2> QED BY <1>0, <2>1, <2>2, IndexKept
<1>4. CASE GuidedRead(t) \/ GuidedEstimate(t)
  <2>1. /\ pc[t] \in Amid /\ pc[t] \notin {"iterate", "inside"} /\ UNCHANGED <<at, index, ran>>
        /\ pc'[t] \notin {"adjust", "body"}
    BY <1>0, <1>4 DEF GuidedRead, GuidedEstimate, Goto, history, Amid, Working
  <2> QED BY <1>0, <2>1, IndexKept
<1>5. CASE NextFixed(t)
  BY <1>5, FixedIndex
<1>6. CASE NextDynamic(t) \/ GuidedTake(t)
  BY <1>6, SharedIndex
<1>7. CASE GuidedAdjust(t)
  <2>1. pc[t] = "adjust" /\ Hand(t, Reply(TRUE, range[t].lower, range[t].upper)) /\ UNCHANGED <<at, index, ran>>
    BY <1>7 DEF GuidedAdjust, history
  <2>2. /\ pc' = [pc EXCEPT ![t] = "body"]
        /\ range' = [range EXCEPT ![t] = [lower |-> range[t].lower, upper |-> range[t].upper]]
    BY <2>1 DEF Hand, Reply, Goto
  <2>3. pc'[t] = "body" /\ range'[t] = range[t]
    BY <1>0, <2>2
  <2> QED BY <1>0, <2>1, <2>3, IndexNext DEF IndexRight, Amid, Working
<1>8. CASE Body(t)
  BY <1>8, BodyIndex
<1>9. CASE OrderedBegin(t)
  <2> DEFINE inc == Descriptor(k).inc
             j == index[t]
             a == range[t].lower
  <2>1. /\ pc[t] = "body" /\ pc'[t] = "iterate" /\ index'[t] = a
        /\ UNCHANGED <<at, ran, range>>
    BY <1>0, <1>9 DEF OrderedBegin, history, Goto
  <2>2. Aligned(k, a)
    BY <2>1 DEF OnceRight, HandRange, Holding, From
  <2>3. /\ \A r \in ran[k] : r[1] = t => Before(inc, r[2], j)
        /\ Within(inc, j, a) /\ (a = Descriptor(k).lower \/ Within(inc, a, range[t].upper))
    BY <2>1 DEF IndexRight, Amid, Working
  <2>4. inc \in Int \ {0} /\ j \in Int /\ a \in Int /\ \A r \in ran[k] : r[2] \in Int
    BY <1>0, DescriptorFacts, FromType DEF Types, OnceRight, RanRight
  <2>5. ASSUME NEW r \in ran[k], r[1] = t PROVE Before(inc, r[2], a)
    <3> DEFINE x == r[2]
    <3>1. x \in Int /\ Before(inc, x, j) /\ Within(inc, j, a)
      BY <1>0, <2>1, <2>3, <2>4, <2>5 DEF IndexRight, Amid, Working
    <3> HIDE DEF x, inc, j, a
    <3>2. Before(inc, x, a)
      BY <2>4, <3>1, WithinFacts
    <3> QED BY <3>2 DEF x
  <2> QED BY <1>0, <2>1, <2>2, <2>3, <2>5, IndexNext
<1>10. CASE Ordered(t)
  <2>1. pc[t] = "iterate" /\ pc'[t] = "inside" /\ UNCHANGED <<at, ran, range, index>>
    BY <1>0, <1>10 DEF Ordered, locals, Goto
  <2> QED BY <1>0, <2>1, IndexNext DEF IndexRight, Amid, Working
<1>11. CASE EndOrdered(t)
  <2>1. pc[t] = "inside" /\ Run(t, {index[t]}) /\ UNCHANGED at /\ pc[t] \in Working
    BY <1>11 DEF EndOrdered, Working
  <2>2. pc'[t] = "iterate" /\ index' = [index EXCEPT ![t] = @ + slots[loop[t]].inc]
    BY <1>0, <1>11 DEF EndOrdered, Goto
  <2>3. index'[t] = index[t] + Descriptor(at[t]).inc
    BY <1>0, <1>1, <2>1, <2>2
  <2> QED BY <1>0, <2>1, <2>2, <2>3, OneIndex
<1>12. CASE SkipOrdered(t)
  <2>1. /\ pc[t] = "iterate" /\ Run(t, {index[t]}) /\ UNCHANGED <<at, pc>> /\ pc[t] \in Working
        /\ index' = [index EXCEPT ![t] = @ + slots[loop[t]].inc]
    BY <1>12 DEF SkipOrdered, Working
  <2>2. pc'[t] = "iterate" /\ index'[t] = index[t] + Descriptor(at[t]).inc
    BY <1>0, <1>1, <2>1
  <2> QED BY <1>0, <2>1, <2>2, OneIndex
<1>13. CASE OrderedEnd(t)
  <2>1. /\ pc[t] = "iterate" /\ pc[t] \in Working /\ pc'[t] = "next" /\ UNCHANGED <<at, ran, range, index>>
        /\ ~Within(slots[loop[t]].inc, index[t], range[t].upper)
    BY <1>0, <1>13 DEF OrderedEnd, locals, history, Goto, Working
  <2>2. ~Within(Descriptor(k).inc, index[t], range[t].upper)
    BY <1>1, <2>1
  <2> QED BY <1>0, <2>1, <2>2, IndexNext DEF IndexRight, Amid, Working
<1>14. CASE EndLoop(t)
  <2>1. pc'[t] \in {"begin", "done"}
    BY <1>0, <1>14, StepLeads
  <2> QED BY <2>1 DEF IndexRight, Amid, Entering, Working
<1> QED BY <1>2, <1>3, <1>4, <1>5, <1>6, <1>7, <1>8, <1>9, <1>10, <1>11, <1>12, <1>13, <1>14 DEF Step

\* Thread t leaves loop k: LASTPRIVATE looks at the DO variable.
LEMMA LookRight ==
    ASSUME Types, OnceRight, NEW t \in Active, pc[t] = "after", IndexRight(t),
           NEW k \in 1 .. Len(program), k = at[t],
           Within(Descriptor(k).inc, Descriptor(k).lower, Descriptor(k).upper)
    PROVE  ~Within(program[k].inc, index[t], program[k].upper) <=> <<t, Latest(k)>> \in ran[k]
<1> DEFINE inc == Descriptor(k).inc
           lo == Descriptor(k).lower
           up == Descriptor(k).upper
           i == index[t]
           z == Latest(k)
           y == i - inc
<1>0. t \in Threads /\ i \in Int
  BY ThreadFacts DEF Types
<1>1. /\ inc \in Int \ {0} /\ lo \in Int /\ up \in Int /\ Within(inc, lo, up)
      /\ program[k].inc = inc /\ program[k].upper = up
  BY DescriptorFacts DEF Types
<1>2. \A x : IsIteration(k, x) <=> On(lo, inc, x) /\ Within(inc, x, up)
  BY DEF IsIteration, Aligned
<1>3. z \in Int /\ IsIteration(k, z) /\ ~Within(inc, z + inc, up)
  BY LatestFacts DEF Types
<1>4. /\ On(lo, inc, i) /\ \A r \in ran[k] : r[1] = t => Before(inc, r[2], i)
      /\ i = lo \/ <<t, y>> \in ran[k]
  BY DEF IndexRight, Amid, Aligned
<1>5. \A x : <<t, x>> \in ran[k] => IsIteration(k, x)
  BY DEF OnceRight, RanRight
<1>6. <<t, z>> \in ran[k] => Before(inc, z, i)
  BY <1>4
<1> HIDE DEF inc, lo, up, i, z
<1>7. ASSUME <<t, z>> \in ran[k], Within(inc, i, up) PROVE FALSE
  <2>1. Within(inc, i, z)
    BY <1>1, <1>2, <1>3, <1>4, <1>7, LastIsLast
  <2> QED BY <1>0, <1>1, <1>3, <1>6, <1>7, <2>1, BeforeNot
<1>8. ASSUME ~Within(inc, i, up) PROVE <<t, z>> \in ran[k]
  <2>1. <<t, y>> \in ran[k]
    BY <1>1, <1>4, <1>8
  <2>2. On(lo, inc, y) /\ Within(inc, y, up) /\ y \in Int /\ y + inc = i
    BY <1>0, <1>1, <1>2, <1>5, <2>1
  <2> HIDE DEF y
  <2>3. Within(inc, z, y) /\ Within(inc, y, z)
    <3>1. Within(inc, z, y)
      <4>1. ~Within(inc, y + inc, up)
        BY <1>8, <2>2
      <4> QED BY <1>1, <1>2, <1>3, <2>2, <4>1, LastIsLast
    <3>2. Within(inc, y, z)
      BY <1>1, <1>2, <1>3, <2>2, LastIsLast
    <3> QED BY <3>1, <3>2
  <2>4. y = z
    BY <1>1, <1>3, <2>2, <2>3, WithinPair
  <2> QED BY <2>1, <2>4
<1> QED BY <1>1, <1>7, <1>8 DEF i, z

LEMMA LatestFrame ==
    ASSUME UNCHANGED region
    PROVE  \A k : Latest(k)' = Latest(k)
BY DEF Latest, program

\* Only the thread that leaves the loop changes last, and adds itself.
LEMMA LastEffect ==
    ASSUME Types, NEW t \in Active, Step(t)
    PROVE  \/ last' = last /\ ~EndLoop(t)
           \/ /\ EndLoop(t) /\ pc[t] = "after" /\ ran' = ran
              /\ last' = IF Within(program[at[t]].inc, index[t], program[at[t]].upper)
                           THEN last ELSE last \cup {<<at[t], t>>}
              /\ pc' = [pc EXCEPT ![t] = IF at[t] = Len(program) THEN "done" ELSE "begin"]
              /\ at' = [at EXCEPT ![t] = IF at[t] = Len(program) THEN at[t] ELSE at[t] + 1]
<1>1. CASE EndLoop(t)
  BY <1>1 DEF EndLoop, Goto
<1>2. CASE ~EndLoop(t)
  <2>1. last' = last
    BY <1>2 DEF Step, Alloc, Fill, Publish, Attach, NextFixed, NextDynamic, GuidedRead, GuidedEstimate,
       GuidedTake, GuidedAdjust, Body, OrderedBegin, Ordered, EndOrdered, SkipOrdered, OrderedEnd,
       FreeCount, FreeWhen, FreeLast, history
  <2> QED BY <1>2, <2>1
<1> QED BY <1>1, <1>2

\* Nobody runs an iteration of a loop that it has left.
LEMMA LookedKept ==
    ASSUME Types, OnceRight, NEW t \in Active, Step(t), NEW R, HandStep(t, R),
           NEW u \in Active, NEW k \in 1 .. Len(program), Looked(u, k), NEW x
    PROVE  <<u, x>> \in ran'[k] <=> <<u, x>> \in ran[k]
<1>1. CASE u = t /\ k = at[t]
  <2>1. pc[t] = "done"
    BY <1>1 DEF Looked
  <2>2. \A y : y \notin R
    BY <2>1, RunsNew DEF Working
  <2> QED BY <1>1, <2>2 DEF HandStep, RunsOnly
<1>2. CASE u # t \/ k # at[t]
  BY <1>2 DEF HandStep, RunsOnly
<1> QED BY <1>1, <1>2

LEMMA LastStep ==
    ASSUME Types, OnceRight, LastsRight, NEW t \in Active, Step(t), pc'[t] # "abort",
           NEW R, HandStep(t, R), NEW u \in Active, NEW k \in 1 .. Len(program)
    PROVE  LastRight(u, k)'
<1> DEFINE full == Within(Descriptor(k).inc, Descriptor(k).lower, Descriptor(k).upper)
<1>0. /\ t \in Threads /\ u \in Threads /\ at \in [Threads -> 1 .. Len(program)]
      /\ pc \in [Threads -> Label] /\ Len(program) \in Nat
  BY ThreadFacts, RegionFacts DEF Types
<1>1. Latest(k)' = Latest(k) /\ Descriptor(k)' = Descriptor(k)
  BY StepRegion, LatestFrame, DescriptorFrame
<1>2. /\ <<k, u>> \in last => Looked(u, k)
      /\ Looked(u, k) /\ full => (<<k, u>> \in last <=> <<u, Latest(k)>> \in ran[k])
  BY DEF LastsRight, LastRight
<1>3. Looked(u, k) => Looked(u, k)'
  <2>1. CASE u # t
    BY <1>0, <2>1, OthersPlace DEF Same, Looked
  <2>2. CASE u = t /\ EndLoop(t)
    <3>1. /\ pc[t] = "after"
          /\ at' = [at EXCEPT ![t] = IF at[t] = Len(program) THEN at[t] ELSE at[t] + 1]
      BY <2>2, LastEffect
    <3>2. at'[t] = at[t] \/ at'[t] = at[t] + 1
      BY <1>0, <3>1
    <3>3. at[t] \in Nat /\ k \in Nat
      BY <1>0
    <3>4. k < at[t] => k < at'[t]
      BY <3>2, <3>3
    <3> QED BY <2>2, <3>1, <3>4 DEF Looked
  <2>3. CASE u = t /\ ~EndLoop(t)
    <3>1. at' = at
      BY <2>3, AtStep
    <3>2. pc[t] # "done"
      BY <2>3 DEF Step, Alloc, Fill, Publish, Attach, NextFixed, NextDynamic, GuidedRead, GuidedEstimate,
       GuidedTake, GuidedAdjust, Body, OrderedBegin, Ordered, EndOrdered, SkipOrdered, OrderedEnd,
       FreeCount, FreeWhen, FreeLast
    <3> QED BY <2>3, <3>1, <3>2 DEF Looked
  <2> QED BY <2>1, <2>2, <2>3
<1>4. CASE EndLoop(t) /\ u = t /\ k = at[t]
  <2>1. /\ pc[t] = "after" /\ ran' = ran
        /\ last' = IF Within(program[k].inc, index[t], program[k].upper)
                     THEN last ELSE last \cup {<<k, t>>}
        /\ pc' = [pc EXCEPT ![t] = IF at[t] = Len(program) THEN "done" ELSE "begin"]
        /\ at' = [at EXCEPT ![t] = IF at[t] = Len(program) THEN at[t] ELSE at[t] + 1]
    BY <1>4, LastEffect
  <2>2. Looked(u, k)'
    BY <1>0, <1>4, <2>1 DEF Looked
  <2>3. <<k, t>> \notin last
    BY <1>2, <1>4, <2>1 DEF Looked
  <2>4. full => (~Within(program[k].inc, index[t], program[k].upper) <=> <<t, Latest(k)>> \in ran[k])
    BY <1>4, <2>1, LookRight DEF LastsRight
  <2>5. full => (<<k, t>> \in last' <=> <<t, Latest(k)>> \in ran'[k])
    BY <2>1, <2>3, <2>4
  <2> QED BY <1>1, <1>4, <2>2, <2>5 DEF LastRight
<1>5. CASE ~(EndLoop(t) /\ u = t /\ k = at[t])
  <2>1. <<k, u>> \in last' <=> <<k, u>> \in last
    <3>1. CASE EndLoop(t)
      <4>1. last' = last \/ last' = last \cup {<<at[t], t>>}
        BY <3>1, LastEffect
      <4> QED BY <1>5, <3>1, <4>1
    <3>2. CASE ~EndLoop(t)
      BY <3>2, LastEffect
    <3> QED BY <3>1, <3>2
  <2>2. Looked(u, k)' => Looked(u, k)
    <3>1. CASE u # t
      BY <1>0, <3>1, OthersPlace DEF Same, Looked
    <3>2. CASE u = t /\ EndLoop(t)
      <4>1. /\ pc' = [pc EXCEPT ![t] = IF at[t] = Len(program) THEN "done" ELSE "begin"]
            /\ at' = [at EXCEPT ![t] = IF at[t] = Len(program) THEN at[t] ELSE at[t] + 1]
        BY <3>2, LastEffect
      <4>2. k # at[t] /\ at[t] \in 1 .. Len(program)
        BY <1>0, <1>5, <3>2
      <4>3. CASE at[t] = Len(program)
        BY <1>0, <3>2, <4>2, <4>3 DEF Looked
      <4>4. CASE at[t] # Len(program)
        <5>1. pc'[t] = "begin" /\ at'[t] = at[t] + 1
          BY <1>0, <4>1, <4>4
        <5> QED BY <1>0, <3>2, <4>2, <5>1 DEF Looked
      <4> QED BY <4>3, <4>4
    <3>3. CASE u = t /\ ~EndLoop(t)
      <4>1. at' = at
        BY <3>3, AtStep
      <4>2. pc'[t] # "done"
        <5>1. CASE Inner(t)
          <6>1. PICK label \in Working \cup {"abort"} : pc' = [pc EXCEPT ![t] = label]
            BY <1>0, <5>1, InnerEffect
          <6>2. pc'[t] = label
            BY <1>0, <6>1
          <6> QED BY <6>1, <6>2 DEF Working
        <5>2. CASE ~Inner(t)
          <6>1. Alloc(t) \/ Fill(t) \/ Publish(t) \/ Attach(t) \/ FreeCount(t) \/ FreeLast(t)
            BY <3>3, <5>2 DEF Step, Inner
          <6> QED BY <1>0, <6>1, StepLeads
        <5> QED BY <5>1, <5>2
      <4> QED BY <3>3, <4>1, <4>2 DEF Looked
    <3> QED BY <3>1, <3>2, <3>3
  <2>3. Looked(u, k) => (<<u, Latest(k)>> \in ran'[k] <=> <<u, Latest(k)>> \in ran[k])
    BY LookedKept
  <2> QED BY <1>1, <1>2, <1>3, <2>1, <2>2, <2>3 DEF LastRight
<1> QED BY <1>4, <1>5

LEMMA LastsStep ==
    ASSUME Types, RingRight, RangesRight, OnceRight, LastsRight, Types', RangesRight', OnceRight',
           NEW t \in Active, Step(t), pc'[t] # "abort"
    PROVE  LastsRight'
<1>0. t \in Threads /\ at[t] \in 1 .. Len(program)
  BY ThreadFacts DEF Types
<1>1. PICK R : HandStep(t, R)
  BY StepHand
<1>2. Active' = Active /\ Len(program)' = Len(program)
  BY StepRegion, RegionFrame
<1>3. (last \in SUBSET ((1 .. Len(program)) \X Active))'
  <2>1. last' = last \/ last' = last \cup {<<at[t], t>>}
    BY LastEffect
  <2>2. last \in SUBSET ((1 .. Len(program)) \X Active)
    BY DEF LastsRight
  <2> QED BY <1>0, <1>2, <2>1, <2>2
<1>4. IndexRight(t)'
  <2>1. HandRange(t)'
    BY <1>2 DEF OnceRight
  <2>2. IndexRight(t)
    BY DEF LastsRight
  <2> QED BY <1>0, <2>1, <2>2, IndexStep
<1>5. ASSUME NEW u \in Active PROVE IndexRight(u)'
  BY <1>1, <1>4, OthersIndex DEF LastsRight
<1>6. \A u \in Active, k \in 1 .. Len(program) : LastRight(u, k)'
  BY <1>1, LastStep
<1> QED BY <1>2, <1>3, <1>5, <1>6 DEF LastsRight

LEMMA LastsStart ==
    ASSUME last = {}, \A t \in Active : pc[t] = "begin" /\ at[t] = 1
    PROVE  LastsRight
<1>1. last \in SUBSET ((1 .. Len(program)) \X Active)
  OBVIOUS
<1>2. \A t \in Active : IndexRight(t)
  BY DEF IndexRight, Amid, Entering, Working
<1>3. \A t \in Active, k \in 1 .. Len(program) : LastRight(t, k)
  BY DEF LastRight, Looked
<1> QED BY <1>1, <1>2, <1>3 DEF LastsRight

LEMMA LastsInit == ASSUME Init PROVE LastsRight
<1>1. Types /\ region \in Regions
  BY TypesInit DEF Init
<1>2. Active \subseteq Threads /\ N \in Nat
  BY <1>1, RegionFacts
<1>3. last = {} /\ \A t \in Active : pc[t] = "begin" /\ at[t] = 1
  BY <1>2 DEF Init, Active
<1> QED BY <1>3, LastsStart

LEMMA LastsNewRegion == ASSUME Types, NewRegion PROVE LastsRight'
<1>1. Active \subseteq Threads /\ N \in Nat
  BY RegionFacts DEF Types
<1>2. Active' = Active /\ Len(program)' = Len(program)
  BY RegionFrame DEF NewRegion
<1>3. last' = {} /\ \A t \in Active : pc'[t] = "begin" /\ at'[t] = 1
  BY <1>1 DEF NewRegion, Active
<1>4. (last \in SUBSET ((1 .. Len(program)) \X Active))'
  BY <1>3
<1>5. \A t \in Active : IndexRight(t)'
  BY <1>3 DEF IndexRight, Amid, Entering, Working
<1>6. \A t \in Active, k \in 1 .. Len(program) : LastRight(t, k)'
  BY <1>3 DEF LastRight, Looked
<1> QED BY <1>2, <1>4, <1>5, <1>6 DEF LastsRight

LEMMA LastsStutter == ASSUME LastsRight, UNCHANGED vars PROVE LastsRight'
<1>1. /\ region' = region /\ pc' = pc /\ at' = at /\ range' = range /\ index' = index
      /\ ran' = ran /\ last' = last
  BY DEF vars, shared, locals, history
<1>2. Active' = Active /\ Len(program)' = Len(program)
  BY <1>1, RegionFrame
<1>3. \A t : Descriptor(at[t])' = Descriptor(at[t])
  BY <1>1 DEF Descriptor, program
<1>4. \A t : IndexRight(t)' = IndexRight(t)
  BY <1>1, <1>3 DEF IndexRight, Aligned
<1>5. \A k : Descriptor(k)' = Descriptor(k) /\ Latest(k)' = Latest(k)
  BY <1>1, DescriptorFrame, LatestFrame
<1>6. \A t, k : LastRight(t, k)' = LastRight(t, k)
  BY <1>1, <1>5 DEF LastRight, Looked
<1> QED BY <1>1, <1>2, <1>4, <1>6 DEF LastsRight

LEMMA LastsImplies == ASSUME Types, OnceRight, LastsRight PROVE OneLast
<1>0. DOMAIN program = 1 .. Len(program) /\ Len(program) \in Nat /\ region \in Regions
  BY RegionFacts DEF Types
<1>1. ASSUME NEW k \in 1 .. Len(program), NEW t \in Threads, Past(t, k), AllIterations(k) # {}
      PROVE  <<k, t>> \in last <=> <<t, Latest(k)>> \in ran[k]
  <2>1. CASE t \in Active
    <3>1. Looked(t, k)
      <4>1. pc[t] # "absent" /\ at[t] \in Nat
        BY <2>1, ThreadFacts
      <4> QED BY <1>1, <4>1 DEF Past, Looked
    <3>2. Within(Descriptor(k).inc, Descriptor(k).lower, Descriptor(k).upper)
      <4>1. PICK x : IsIteration(k, x)
        BY <1>0, <1>1, AllAre
      <4> DEFINE inc == Descriptor(k).inc
                 lo == Descriptor(k).lower
                 up == Descriptor(k).upper
      <4>2. inc \in Int \ {0} /\ lo \in Int /\ up \in Int
        BY <1>0, DescriptorFacts
      <4>3. On(lo, inc, x) /\ Within(inc, x, up)
        BY <4>1 DEF IsIteration, Aligned
      <4> HIDE DEF inc, lo, up
      <4>4. x \in Int /\ Within(inc, lo, x)
        BY <4>2, <4>3, OnFacts
      <4>5. Within(inc, lo, up)
        BY <4>2, <4>3, <4>4, WithinFacts
      <4> QED BY <4>5 DEF inc, lo, up
    <3> QED BY <2>1, <3>1, <3>2 DEF LastsRight, LastRight
  <2>2. CASE t \notin Active
    <3>1. <<k, t>> \notin last
      BY <2>2 DEF LastsRight
    <3>2. <<t, Latest(k)>> \notin ran[k]
      BY <2>2 DEF OnceRight, RanRight
    <3> QED BY <3>1, <3>2
  <2> QED BY <2>1, <2>2
<1> QED BY <1>0, <1>1 DEF OneLast, Latest

\* A thread that has left a loop with iterations has last_iter set if and only
\* if it has run the last of them, although it only compares its DO variable
\* with the upper bound of the loop.
THEOREM OneLastTheorem == Spec => []OneLast
<1> DEFINE Inv == LoopInv /\ OnceRight /\ LastsRight
<1>1. Init => Inv
  BY LoopInvInit, OnceInit, LastsInit
<1>2. Inv /\ [Next]_vars => Inv'
  <2> SUFFICES ASSUME LoopInv, OnceRight, LastsRight, [Next]_vars
               PROVE  LoopInv' /\ OnceRight' /\ LastsRight'
    OBVIOUS
  <2>1. LoopInv' /\ OnceRight'
    BY LoopInvStep, OnceKept
  <2>2. LastsRight'
    <3>1. CASE UNCHANGED vars
      BY <3>1, LastsStutter
    <3>2. CASE NewRegion
      BY <3>2, LastsNewRegion DEF LoopInv
    <3>3. ASSUME NEW t \in Threads, Step(t) PROVE LastsRight'
      <4>1. t \in Active
        BY <3>3, OnlyActive DEF LoopInv
      <4>2. pc'[t] # "abort"
        BY <2>1 DEF LoopInv, AssertionsHold
      <4> QED BY <2>1, <3>3, <4>1, <4>2, LastsStep DEF LoopInv
    <3> QED BY <3>1, <3>2, <3>3 DEF Next
  <2> QED BY <2>1, <2>2
<1>3. Inv => OneLast
  BY LastsImplies DEF LoopInv
<1> QED BY <1>1, <1>2, <1>3, PTL DEF Spec

(***************************************************************************)
(* The order of the ordered regions                                        *)
(***************************************************************************)
\* Thread t has a range and has taken a ticket for it.
Ranging == {"body", "iterate", "inside"}

Has(q, x) == \E j \in 1 .. Len(q) : q[j] = x

\* x is an iteration of loop k that comes to its ordered region.
ToServe(k, x) == IsIteration(k, x) /\ x \notin program[k].skip

\* The ordered regions in q are those of the iterations before y.
ServedBelow(q, k, y) ==
    \A x \in Int : Has(q, x) <=> ToServe(k, x) /\ Before(Descriptor(k).inc, x, y)

\* The turn of a thread that has run its range r up to from.  Before the turn
\* comes to the range the thread has only skipped ordered regions; a ticket
\* that is being served says that all earlier ordered regions have been run.
Turn(k, t, inside, r, from, ticket, now, runs, seq) ==
    LET inc == Descriptor(k).inc
        Passed(x) == Aligned(k, x) /\ Within(inc, r.lower, x) /\ Before(inc, x, from)
    IN /\ Aligned(k, r.lower)
       /\ \A x \in Int : Passed(x) => <<t, x>> \in runs
       /\ inside => from \notin program[k].skip
       /\ N > 1 =>
            /\ Aligned(k, ticket)
            /\ Within(inc, now, r.lower) =>
                /\ ticket = r.lower
                /\ inside => now = ticket
                /\ \A x \in Int : Passed(x) => x \in program[k].skip
       /\ (N = 1 \/ ticket = now) /\ Within(inc, from, r.upper) =>
            ServedBelow(seq, k, IF inside THEN from + inc ELSE from)

TurnRight(t) ==
    pc[t] \in Ranging =>
        Turn(at[t], t, pc[t] = "inside", range[t], From(t), ticket_number[t],
             slots[loop[t]].now_serving, ran[at[t]], served[at[t]])

\* A team of one has served nothing before it fetches its only range.
FreshRight(t) ==
    N = 1 =>
        /\ pc[t] \in Entering \/ (pc[t] = "next" /\ iteration[t] = 0) => served[at[t]] = <<>>
        /\ pc[t] \in Ranging => iteration[t] > 0

\* The turn of an iteration that nobody has run: the ordered regions before it
\* have been run, or it is being run.
NowRight(s) ==
    LET k == slots[s].number
        now == slots[s].now_serving
    IN slots[s].loop_id # Unused /\ N > 1 =>
        /\ Aligned(k, now)
        /\ (\A r \in ran[k] : r[2] # now) =>
            \/ ServedBelow(served[k], k, now)
            \/ \E t \in Active : at[t] = k /\ pc[t] = "inside" /\ index[t] = now
                                  /\ ticket_number[t] = now

SeqRight(q, k) ==
    \A j \in 1 .. Len(q), x \in Int :
        (\E h \in 1 .. j - 1 : q[h] = x) <=> ToServe(k, x) /\ Before(Descriptor(k).inc, x, q[j])

OrderRight ==
    /\ served \in [1 .. Len(program) -> Seq(Int)]
    /\ \A t \in Active : pc[t] = "publish" => slots[MySlot(t)].now_serving = Descriptor(at[t]).lower
    /\ \A t \in Active : TurnRight(t) /\ FreshRight(t)
    /\ \A s \in 0 .. Slots - 1 : NowRight(s)
    /\ \A k \in 1 .. Len(program) : SeqRight(served[k], k)
    /\ \A k \in 1 .. Len(program) : served[k] # <<>> => \E t \in Active : k <= Entered(t)

LEMMA AppendHas ==
    ASSUME NEW q \in Seq(Int), NEW y \in Int, NEW x
    PROVE  Has(Append(q, y), x) <=> Has(q, x) \/ x = y
<1> DEFINE w == Append(q, y)
           n == Len(q)
<1>1. /\ n \in Nat /\ Len(w) = n + 1 /\ w[n + 1] = y
      /\ \A j \in 1 .. n : w[j] = q[j]
  OBVIOUS
<1>2. ASSUME NEW j \in 1 .. n + 1 PROVE j \in 1 .. n \/ j = n + 1
  BY <1>1
<1>3. \A j \in 1 .. n : j \in 1 .. n + 1
  BY <1>1
<1>4. n + 1 \in 1 .. n + 1
  BY <1>1
<1> HIDE DEF w, n
<1>5. (\E j \in 1 .. n + 1 : w[j] = x) <=> (\E j \in 1 .. n : q[j] = x) \/ x = y
  BY <1>1, <1>2, <1>3, <1>4
<1> QED BY <1>1, <1>5 DEF Has, w, n

\* The order of the sequence, when an iteration is added to it.
LEMMA SeqAppend ==
    ASSUME NEW k, NEW q \in Seq(Int), NEW y \in Int, SeqRight(q, k), ServedBelow(q, k, y)
    PROVE  SeqRight(Append(q, y), k)
<1> DEFINE w == Append(q, y)
           n == Len(q)
<1>1. /\ n \in Nat /\ Len(w) = n + 1 /\ w[n + 1] = y
      /\ \A j \in 1 .. n : w[j] = q[j]
  OBVIOUS
<1>2. ASSUME NEW j \in 1 .. n, NEW h \in 1 .. j - 1 PROVE h \in 1 .. n
  BY <1>1
<1>3. ASSUME NEW j \in 1 .. n + 1, NEW x \in Int
      PROVE  (\E h \in 1 .. j - 1 : w[h] = x) <=> ToServe(k, x) /\ Before(Descriptor(k).inc, x, w[j])
  <2>1. CASE j = n + 1
    <3>1. j - 1 = n
      BY <1>1, <2>1
    <3>2. (\E h \in 1 .. n : w[h] = x) <=> Has(q, x)
      BY <1>1 DEF Has
    <3> HIDE DEF w, n
    <3> QED BY <1>1, <2>1, <3>1, <3>2 DEF ServedBelow
  <2>2. CASE j \in 1 .. n
    <3>1. (\E h \in 1 .. j - 1 : q[h] = x) <=> ToServe(k, x) /\ Before(Descriptor(k).inc, x, q[j])
      BY <2>2 DEF SeqRight
    <3> HIDE DEF w, n
    <3> QED BY <1>1, <1>2, <2>2, <3>1
  <2> QED BY <1>1, <2>1, <2>2
<1> QED BY <1>1, <1>3 DEF SeqRight

\* Nothing has been served of a loop that starts.
LEMMA BelowStart ==
    ASSUME region \in Regions, NEW k \in 1 .. Len(program)
    PROVE  ServedBelow(<<>>, k, Descriptor(k).lower)
<1> DEFINE inc == Descriptor(k).inc
           lo == Descriptor(k).lower
<1>1. inc \in Int \ {0} /\ lo \in Int
  BY DescriptorFacts
<1>2. ASSUME NEW x \in Int, ToServe(k, x), Before(inc, x, lo) PROVE FALSE
  <2>1. On(lo, inc, x)
    BY <1>2 DEF ToServe, IsIteration, Aligned
  <2> HIDE DEF inc, lo
  <2>2. Within(inc, lo, x)
    BY <1>1, <2>1, OnFacts
  <2> QED BY <1>1, <1>2, <2>2, BeforeNot
<1>3. \A x : ~Has(<<>>, x)
  BY DEF Has
<1> QED BY <1>2, <1>3 DEF ServedBelow

\* Iterations that skip their ordered regions are not waited for.
LEMMA BelowSkips ==
    ASSUME region \in Regions, NEW k \in 1 .. Len(program), NEW q, NEW y, NEW z, ServedBelow(q, k, y),
           Aligned(k, y), Aligned(k, z), Within(Descriptor(k).inc, y, z),
           \A x \in Int : Aligned(k, x) /\ Within(Descriptor(k).inc, y, x)
                           /\ Before(Descriptor(k).inc, x, z) => x \in program[k].skip
    PROVE  ServedBelow(q, k, z)
<1> DEFINE inc == Descriptor(k).inc
           lo == Descriptor(k).lower
<1>1. inc \in Int \ {0} /\ lo \in Int
  BY DescriptorFacts
<1>2. On(lo, inc, y) /\ On(lo, inc, z)
  BY DEF Aligned
<1>3. y \in Int /\ z \in Int
  BY <1>1, <1>2, OnFacts
<1>4. Within(inc, y, z)
  OBVIOUS
<1>5. ASSUME NEW x \in Int, ToServe(k, x) PROVE Before(inc, x, y) <=> Before(inc, x, z)
  <2>1. Aligned(k, x) /\ x \notin program[k].skip
    BY <1>5 DEF ToServe, IsIteration
  <2>2. ~(Within(inc, y, x) /\ Before(inc, x, z))
    BY <2>1
  <2> HIDE DEF inc
  <2>3. Before(inc, x, y) \/ Within(inc, y, x)
    BY <1>1, <1>3, BeforeNot
  <2>4. Before(inc, x, y) => Before(inc, x, z)
    BY <1>1, <1>3, <1>4, WithinFacts
  <2> QED BY <2>2, <2>3, <2>4
<1> QED BY <1>5 DEF ServedBelow

LEMMA BelowSkip ==
    ASSUME region \in Regions, NEW k \in 1 .. Len(program), NEW q, NEW y, ServedBelow(q, k, y),
           Aligned(k, y), y \in program[k].skip
    PROVE  ServedBelow(q, k, y + Descriptor(k).inc)
<1> DEFINE inc == Descriptor(k).inc
           lo == Descriptor(k).lower
<1>1. inc \in Int \ {0} /\ lo \in Int
  BY DescriptorFacts
<1>2. On(lo, inc, y)
  BY DEF Aligned
<1>3. ASSUME NEW x \in Int, ToServe(k, x) PROVE Before(inc, x, y) <=> Before(inc, x, y + inc)
  <2>1. On(lo, inc, x) /\ x # y
    BY <1>3 DEF ToServe, IsIteration, Aligned
  <2> HIDE DEF inc, lo
  <2> QED BY <1>1, <1>2, <2>1, BeforeNext
<1> QED BY <1>3 DEF ServedBelow

LEMMA BelowServe ==
    ASSUME region \in Regions, NEW k \in 1 .. Len(program), NEW q \in Seq(Int), NEW y \in Int,
           ServedBelow(q, k, y), ToServe(k, y)
    PROVE  ServedBelow(Append(q, y), k, y + Descriptor(k).inc)
<1> DEFINE inc == Descriptor(k).inc
           lo == Descriptor(k).lower
           w == Append(q, y)
<1>1. inc \in Int \ {0} /\ lo \in Int
  BY DescriptorFacts
<1>2. On(lo, inc, y)
  BY DEF ToServe, IsIteration, Aligned
<1>3. ASSUME NEW x \in Int, ToServe(k, x) PROVE Before(inc, x, y + inc) <=> Before(inc, x, y) \/ x = y
  <2>1. On(lo, inc, x)
    BY <1>3 DEF ToServe, IsIteration, Aligned
  <2> HIDE DEF inc, lo
  <2> QED BY <1>1, <1>2, <2>1, BeforeNext
<1>4. ASSUME NEW x \in Int PROVE Has(w, x) <=> Has(q, x) \/ x = y
  BY AppendHas
<1> QED BY <1>3, <1>4 DEF ServedBelow

LEMMA TeamOfMore ==
    ASSUME Types, NEW t \in Active, NEW u \in Active, t # u
    PROVE  N > 1 /\ N # 1
<1>1. N \in Nat
  BY RegionFacts DEF Types
<1> QED BY <1>1 DEF Active

LEMMA TurnTaken ==
    ASSUME region \in Regions, NEW k \in 1 .. Len(program), NEW t, NEW r, NEW a, a = r.lower,
           Aligned(k, a), NEW now, NEW runs, NEW seq,
           (N = 1 \/ a = now) /\ Within(Descriptor(k).inc, a, r.upper) => ServedBelow(seq, k, a)
    PROVE  Turn(k, t, FALSE, r, a, a, now, runs, seq)
<1> DEFINE inc == Descriptor(k).inc
           lo == Descriptor(k).lower
<1>1. inc \in Int \ {0} /\ lo \in Int /\ On(lo, inc, a)
  BY DescriptorFacts DEF Aligned
<1>2. a \in Int
  BY <1>1, OnFacts
<1>3. ASSUME NEW x \in Int, Within(inc, a, x), Before(inc, x, a) PROVE FALSE
  <2> HIDE DEF inc
  <2> QED BY <1>1, <1>2, <1>3, BeforeNot
<1> QED BY <1>3 DEF Turn

LEMMA TurnServed ==
    ASSUME region \in Regions, NEW k \in 1 .. Len(program), NEW t, NEW r, NEW from \in Int,
           NEW ticket, NEW now, NEW runs, NEW seq \in Seq(Int),
           Turn(k, t, FALSE, r, from, ticket, now, runs, seq), ToServe(k, from),
           Within(Descriptor(k).inc, from, r.upper), N = 1 \/ ticket = now
    PROVE  /\ Turn(k, t, TRUE, r, from, ticket, now, runs, Append(seq, from))
           /\ ServedBelow(seq, k, from)
<1> DEFINE inc == Descriptor(k).inc
           w == Append(seq, from)
<1>1. ServedBelow(seq, k, from)
  BY DEF Turn
<1>2. ServedBelow(w, k, from + inc)
  BY <1>1, BelowServe
<1>3. N > 1 => ticket = now
  <2>1. N \in Nat
    BY RegionFacts
  <2> QED BY <2>1
<1> HIDE DEF w
<1>4. Turn(k, t, TRUE, r, from, ticket, now, runs, w)
  BY <1>2, <1>3 DEF Turn, ToServe
<1> QED BY <1>1, <1>4 DEF w

\* What thread t has passed when it has run one more.
LEMMA PassedNext ==
    ASSUME region \in Regions, NEW k \in 1 .. Len(program), NEW y, Aligned(k, y), NEW x, Aligned(k, x)
    PROVE  /\ Before(Descriptor(k).inc, x, y + Descriptor(k).inc) <=>
                Before(Descriptor(k).inc, x, y) \/ x = y
           /\ Aligned(k, y + Descriptor(k).inc)
<1> DEFINE inc == Descriptor(k).inc
           lo == Descriptor(k).lower
<1>1. inc \in Int \ {0} /\ lo \in Int /\ On(lo, inc, y) /\ On(lo, inc, x)
  BY DescriptorFacts DEF Aligned
<1>2. (Before(inc, x, y + inc) <=> Before(inc, x, y) \/ x = y) /\ On(lo, inc, y + inc)
  <2> HIDE DEF inc, lo
  <2> QED BY <1>1, BeforeNext, OnStep
<1> QED BY <1>2 DEF Aligned

LEMMA TurnEnded ==
    ASSUME region \in Regions, NEW k \in 1 .. Len(program), NEW t, NEW r, r.lower \in Int, NEW from \in Int,
           NEW ticket, NEW now, NEW runs, NEW seq,
           Turn(k, t, TRUE, r, from, ticket, now, runs, seq), Aligned(k, from),
           Within(Descriptor(k).inc, from, r.upper),
           N > 1 => ticket = now /\ Within(Descriptor(k).inc, r.lower, ticket),
           NEW more, runs \subseteq more, <<t, from>> \in more,
           NEW ticket2, NEW now2,
           N > 1 => ticket2 = ticket + Descriptor(k).inc /\ now2 = now + Descriptor(k).inc
    PROVE  Turn(k, t, FALSE, r, from + Descriptor(k).inc, ticket2, now2, more, seq)
<1> DEFINE inc == Descriptor(k).inc
           lo == Descriptor(k).lower
           next == from + inc
           a == r.lower
<1>0. inc \in Int \ {0} /\ lo \in Int /\ N \in Nat \ {0}
  BY DescriptorFacts, RegionFacts
<1>1. \A x \in Int : Aligned(k, x) /\ Within(inc, a, x) /\ Before(inc, x, next) => <<t, x>> \in more
  <2> SUFFICES ASSUME NEW x \in Int, Aligned(k, x), Within(inc, a, x), Before(inc, x, next)
               PROVE  <<t, x>> \in more
    OBVIOUS
  <2>1. Before(inc, x, from) \/ x = from
    BY PassedNext
  <2> QED BY <2>1 DEF Turn
<1>2. ServedBelow(seq, k, next)
  <2>1. N = 1 \/ ticket = now
    BY <1>0
  <2> QED BY <2>1 DEF Turn
<1>3. ASSUME N > 1 PROVE Aligned(k, ticket2) /\ ~Within(inc, now2, a)
  <2>1. Aligned(k, ticket) /\ Within(inc, a, ticket) /\ ticket2 = ticket + inc /\ now2 = ticket + inc
    BY <1>3 DEF Turn
  <2>2. Aligned(k, ticket + inc) /\ Before(inc, ticket, ticket + inc) /\ ticket \in Int
    <3>1. On(lo, inc, ticket)
      BY <2>1 DEF Aligned
    <3>2. On(lo, inc, ticket + inc) /\ Before(inc, ticket, ticket + inc) /\ ticket \in Int
      <4> HIDE DEF inc, lo
      <4> QED BY <1>0, <3>1, BeforeNext, OnStep, OnFacts
    <3> QED BY <3>2 DEF Aligned
  <2>3. ~Within(inc, now2, a)
    <3>1. a \in Int /\ now2 \in Int /\ Before(inc, ticket, now2) /\ Within(inc, a, ticket)
      BY <1>0, <2>1, <2>2
    <3> HIDE DEF inc, a
    <3>2. Before(inc, a, now2)
      BY <1>0, <2>2, <3>1, WithinFacts
    <3> QED BY <1>0, <3>1, <3>2, BeforeNot
  <2> QED BY <2>1, <2>2, <2>3
<1> HIDE DEF next
<1>4. Turn(k, t, FALSE, r, next, ticket2, now2, more, seq)
  BY <1>1, <1>2, <1>3 DEF Turn
<1> QED BY <1>4 DEF next

LEMMA TurnSkipped ==
    ASSUME region \in Regions, NEW k \in 1 .. Len(program), NEW t, NEW r, NEW from \in Int,
           NEW ticket, NEW now, NEW runs, NEW seq,
           Turn(k, t, FALSE, r, from, ticket, now, runs, seq), Aligned(k, from),
           Within(Descriptor(k).inc, from, r.upper), from \in program[k].skip,
           NEW more, runs \subseteq more, <<t, from>> \in more
    PROVE  Turn(k, t, FALSE, r, from + Descriptor(k).inc, ticket, now, more, seq)
<1> DEFINE inc == Descriptor(k).inc
           next == from + inc
           a == r.lower
<1>1. ASSUME NEW x \in Int, Aligned(k, x), Within(inc, a, x), Before(inc, x, next)
      PROVE  (Aligned(k, x) /\ Within(inc, a, x) /\ Before(inc, x, from)) \/ x = from
  BY <1>1, PassedNext
<1>2. N = 1 \/ ticket = now => ServedBelow(seq, k, next)
  <2> SUFFICES ASSUME N = 1 \/ ticket = now PROVE ServedBelow(seq, k, next)
    OBVIOUS
  <2>1. ServedBelow(seq, k, from)
    BY DEF Turn
  <2> QED BY <2>1, BelowSkip
<1> HIDE DEF next
<1>3. Turn(k, t, FALSE, r, next, ticket, now, more, seq)
  BY <1>1, <1>2 DEF Turn
<1> QED BY <1>3 DEF next

\* Thread t waits, and the turn is passed on.
LEMMA TurnPassed ==
    ASSUME region \in Regions, NEW k \in 1 .. Len(program), N > 1, NEW t, NEW r, r.lower \in Int,
           r.upper \in Int, NEW from \in Int, NEW ticket \in Int, NEW now \in Int, NEW runs, NEW seq,
           Turn(k, t, FALSE, r, from, ticket, now, runs, seq), Aligned(k, from), Aligned(k, now),
           Within(Descriptor(k).inc, r.lower, ticket), Within(Descriptor(k).inc, ticket, from),
           NEW next, next = now + Descriptor(k).inc,
           Within(Descriptor(k).inc, r.lower, next) /\ Within(Descriptor(k).inc, next, r.upper) =>
             ServedBelow(seq, k, next) /\ Before(Descriptor(k).inc, now, r.lower),
           NEW more, runs \subseteq more
    PROVE  Turn(k, t, FALSE, r, from, ticket, next, more, seq)
<1> DEFINE inc == Descriptor(k).inc
           lo == Descriptor(k).lower
           a == r.lower
           z == r.upper
<1>0. /\ inc \in Int \ {0} /\ lo \in Int /\ N \in Nat \ {0} /\ a \in Int /\ z \in Int
      /\ On(lo, inc, now) /\ On(lo, inc, a) /\ On(lo, inc, from)
      /\ Within(inc, a, ticket) /\ Within(inc, ticket, from)
      /\ Within(inc, a, next) /\ Within(inc, next, z) => ServedBelow(seq, k, next) /\ Before(inc, now, a)
      /\ next = now + inc
  <2>1. Aligned(k, a)
    BY DEF Turn
  <2> QED BY <2>1, DescriptorFacts, RegionFacts DEF Aligned
<1>1. /\ Within(inc, now, a) =>
           /\ ticket = a
           /\ \A x \in Int : Aligned(k, x) /\ Within(inc, a, x) /\ Before(inc, x, from) => x \in program[k].skip
      /\ Aligned(k, ticket) /\ Aligned(k, a)
      /\ \A x \in Int : Aligned(k, x) /\ Within(inc, a, x) /\ Before(inc, x, from) => <<t, x>> \in more
  BY DEF Turn
<1>2. next \in Int /\ Before(inc, now, next) /\ On(lo, inc, next)
  <2> HIDE DEF inc, lo
  <2>1. now + inc \in Int /\ Before(inc, now, now + inc)
    BY <1>0, BeforeNext
  <2>2. On(lo, inc, now + inc)
    BY <1>0, OnStep
  <2> QED BY <1>0, <2>1, <2>2
<1>3. Within(inc, next, a) => Within(inc, now, a)
  <2> HIDE DEF inc, lo, a
  <2> QED BY <1>0, <1>2, WithinFacts, BeforeWithin
<1>4. ASSUME ticket = next, Within(inc, from, z) PROVE ServedBelow(seq, k, from)
  <2>1. Within(inc, a, next) /\ Within(inc, next, z)
    <3> HIDE DEF inc, lo, a, z
    <3> QED BY <1>0, <1>4, WithinFacts
  <2>2. ServedBelow(seq, k, next) /\ Before(inc, now, a)
    BY <1>0, <2>1
  <2>3. Within(inc, next, a) /\ Within(inc, now, a)
    <3> HIDE DEF inc, lo, a, z
    <3> QED BY <1>0, <2>2, OnNext, BeforeWithin
  <2>4. next = a
    <3> HIDE DEF inc, lo, a, z
    <3> QED BY <1>0, <1>2, <2>1, <2>3, WithinPair
  <2>5. \A x \in Int : Aligned(k, x) /\ Within(inc, next, x) /\ Before(inc, x, from) => x \in program[k].skip
    BY <1>1, <2>3, <2>4
  <2>6. Within(inc, next, from) /\ Aligned(k, next)
    BY <1>0, <1>2, <1>4 DEF Aligned
  <2> QED BY <2>2, <2>5, <2>6, BelowSkips
<1> HIDE DEF lo
<1> QED BY <1>0, <1>1, <1>3, <1>4 DEF Turn

LEMMA TurnNext ==
    ASSUME UNCHANGED region, NEW t, NEW k, k = at'[t], NEW inside, inside = (pc'[t] = "inside"),
           NEW r, r = range'[t], NEW from, from = From(t)', NEW ticket, ticket = ticket_number'[t],
           NEW now, now = slots'[loop'[t]].now_serving, NEW runs, runs = ran'[k], NEW seq, seq = served'[k],
           pc'[t] \in Ranging => Turn(k, t, inside, r, from, ticket, now, runs, seq)
    PROVE  TurnRight(t)'
<1>1. /\ Descriptor(at[t])' = Descriptor(k) /\ (program[at[t]].skip)' = program[k].skip /\ N' = N
      /\ ran[at[t]]' = runs /\ served[at[t]]' = seq
  BY DEF Descriptor, program, N
<1>2. \A x : Aligned(at[t], x)' <=> Aligned(k, x)
  BY <1>1 DEF Aligned
<1>3. \A x : ToServe(at[t], x)' <=> ToServe(k, x)
  BY <1>1, <1>2 DEF ToServe, IsIteration
<1>4. /\ ServedBelow(served[at[t]], at[t], From(t))' <=> ServedBelow(seq, k, from)
      /\ ServedBelow(served[at[t]], at[t], From(t) + Descriptor(at[t]).inc)' <=>
           ServedBelow(seq, k, from + Descriptor(k).inc)
  BY <1>1, <1>3 DEF ServedBelow, Has
<1>5. Aligned(at[t], range[t].lower)' <=> Aligned(k, r.lower)
  BY <1>1 DEF Aligned
<1>6. Aligned(at[t], ticket_number[t])' <=> Aligned(k, ticket)
  BY <1>1 DEF Aligned
<1>7. ASSUME pc'[t] \in Ranging
      PROVE  Turn(at[t], t, pc[t] = "inside", range[t], From(t), ticket_number[t],
                  slots[loop[t]].now_serving, ran[at[t]], served[at[t]])'
  <2>1. Turn(k, t, inside, r, from, ticket, now, runs, seq)
    BY <1>7
  <2> QED BY <1>1, <1>2, <1>4, <1>5, <1>6, <2>1 DEF Turn
<1> QED BY <1>7 DEF TurnRight

\* What is known of a thread that has a range.
LEMMA RangingFacts ==
    ASSUME Types, RingRight, RangesRight, OnceRight, NEW t \in Active, pc[t] \in Ranging,
           NEW k, k = at[t]
    PROVE  /\ t \in Threads /\ k \in 1 .. Len(program) /\ pc[t] \in Working
           /\ loop[t] \in 0 .. Slots - 1 /\ slots[loop[t]].number = k /\ slots[loop[t]].loop_id # Unused
           /\ slots[loop[t]].inc = Descriptor(k).inc
           /\ Descriptor(k).inc \in Int \ {0} /\ Descriptor(k).lower \in Int
           /\ range[t].lower \in Int /\ range[t].upper \in Int /\ From(t) \in Int
           /\ ticket_number[t] \in Int /\ slots[loop[t]].now_serving \in Int
           /\ Aligned(k, From(t)) /\ Within(Descriptor(k).inc, range[t].lower, From(t))
           /\ Within(Descriptor(k).inc, range[t].upper, Descriptor(k).upper)
           /\ pc[t] = "inside" => Within(Descriptor(k).inc, From(t), range[t].upper)
           /\ N > 1 => /\ Within(Descriptor(k).inc, range[t].lower, ticket_number[t])
                       /\ Within(Descriptor(k).inc, ticket_number[t], From(t))
                       /\ pc[t] = "inside" => slots[loop[t]].now_serving = ticket_number[t]
<1>1. pc[t] \in Working /\ pc[t] \in Holding
  BY DEF Ranging, Working, Holding
<1>2. /\ t \in Threads /\ k \in 1 .. Len(program)
      /\ loop[t] \in 0 .. Slots - 1 /\ slots[loop[t]].number = k /\ slots[loop[t]].loop_id # Unused
      /\ slots[loop[t]].inc = Descriptor(k).inc
      /\ Descriptor(k).inc \in Int \ {0} /\ Descriptor(k).lower \in Int
  BY <1>1, MyDescriptor DEF OnceRight, Matches
<1>3. /\ range[t].lower \in Int /\ range[t].upper \in Int /\ From(t) \in Int
      /\ ticket_number[t] \in Int /\ slots[loop[t]].now_serving \in Int
  BY <1>1, <1>2, FromType, RangeTypes
<1>4. /\ Aligned(k, From(t)) /\ Within(Descriptor(k).inc, range[t].lower, From(t))
      /\ Within(Descriptor(k).inc, range[t].upper, Descriptor(k).upper)
      /\ pc[t] = "inside" => Within(Descriptor(k).inc, From(t), range[t].upper)
  BY <1>1 DEF OnceRight, HandRange, From
<1>5. ASSUME N > 1
      PROVE  /\ Within(Descriptor(k).inc, range[t].lower, ticket_number[t])
             /\ Within(Descriptor(k).inc, ticket_number[t], From(t))
             /\ pc[t] = "inside" => slots[loop[t]].now_serving = ticket_number[t]
  <2>1. TicketRight(t)
    BY <1>5 DEF RangesRight
  <2>2. CASE pc[t] = "body"
    BY <1>2, <1>3, <2>1, <2>2, WithinSelf DEF TicketRight, From
  <2>3. CASE pc[t] # "body"
    BY <1>2, <2>1, <2>3 DEF TicketRight, Ranging, From
  <2> QED BY <2>2, <2>3
<1> QED BY <1>1, <1>2, <1>3, <1>4, <1>5

\* The ranges of two threads in the same loop do not meet.
LEMMA RangesMeet ==
    ASSUME Types, RingRight, RangesRight, OnceRight, NEW t \in Active, NEW u \in Active, t # u,
           pc[t] \in Ranging, pc[u] \in Ranging, NEW k, k = at[t], at[u] = k, NEW x \in Int,
           Within(Descriptor(k).inc, range[t].lower, x), Within(Descriptor(k).inc, x, range[t].upper),
           Within(Descriptor(k).inc, range[u].lower, x), Within(Descriptor(k).inc, x, range[u].upper)
    PROVE  FALSE
<1>1. /\ loop[t] \in 0 .. Slots - 1 /\ slots[loop[t]].number = k /\ slots[loop[t]].loop_id # Unused
      /\ slots[loop[t]].inc = Descriptor(k).inc /\ Descriptor(k).inc \in Int \ {0}
      /\ range[t].lower \in Int /\ range[t].upper \in Int
  BY RangingFacts
<1>2. range[u].lower \in Int /\ range[u].upper \in Int /\ pc[u] \in Working
  BY RangingFacts
<1>3. loop[u] = loop[t]
  BY <1>1, <1>2, SlotLoop
<1>4. Apart(t, u)
  BY TeamOfMore DEF RangesRight
<1>5. \/ Before(Descriptor(k).inc, range[t].upper, range[u].lower)
      \/ Before(Descriptor(k).inc, range[u].upper, range[t].lower)
  BY <1>1, <1>3, <1>4 DEF Apart, Holding, Ranging
<1> QED BY <1>1, <1>2, <1>5, NotBoth

\* Only the thread that comes to an ordered region adds to served.
LEMMA ServedEffect ==
    ASSUME NEW t, Step(t)
    PROVE  \/ served' = served
           \/ Ordered(t) /\ served' = [served EXCEPT ![at[t]] = Append(@, index[t])]
<1>1. CASE Ordered(t)
  BY <1>1 DEF Ordered
<1>2. CASE ~Ordered(t)
  BY <1>2 DEF Step, Alloc, Fill, Publish, Attach, NextFixed, NextDynamic, GuidedRead, GuidedEstimate,
       GuidedTake, GuidedAdjust, Body, OrderedBegin, EndOrdered, SkipOrdered, OrderedEnd,
       FreeCount, FreeWhen, FreeLast, EndLoop, history
<1> QED BY <1>1, <1>2

\* The threads that do nothing.
LEMMA OthersTurn ==
    ASSUME Types, RingRight, RangesRight, OnceRight, NEW t \in Active, Step(t), pc'[t] # "abort",
           NEW R, HandStep(t, R), NEW u \in Active, u # t, TurnRight(u), NEW k, k = at[u],
           pc[u] \in Ranging =>
             \/ served'[k] = served[k]
             \/ ~(/\ ticket_number[u] = slots[loop[u]].now_serving
                  /\ Within(Descriptor(k).inc, From(u), range[u].upper)),
           ~(EndOrdered(t) /\ loop[u] = loop[t])
    PROVE  TurnRight(u)'
<1>0. t \in Threads /\ u \in Threads /\ N > 1 /\ N # 1 /\ k \in 1 .. Len(program)
  BY ThreadFacts, TeamOfMore DEF Types
<1>1. /\ pc'[u] = pc[u] /\ at'[u] = k /\ loop'[u] = loop[u] /\ range'[u] = range[u]
      /\ ticket_number'[u] = ticket_number[u] /\ index'[u] = index[u]
  BY <1>0, OthersPlace DEF Same
<1>2. From(u)' = From(u) /\ UNCHANGED region
  BY <1>1, StepRegion DEF From
<1>3. ASSUME pc[u] \in Ranging
      PROVE  Turn(k, u, pc[u] = "inside", range[u], From(u), ticket_number[u],
                  slots'[loop[u]].now_serving, ran'[k], served'[k])
  <2>1. loop[u] \in 0 .. Slots - 1 /\ slots[loop[u]].loop_id # Unused
    BY <1>3, RangingFacts
  <2>2. slots'[loop[u]].now_serving = slots[loop[u]].now_serving
    BY <1>0, <2>1, StepKeeps DEF Serves
  <2>3. \A x \in ran[k] : x \in ran'[k]
    BY <1>0 DEF HandStep, RunsOnly
  <2>4. Turn(k, u, pc[u] = "inside", range[u], From(u), ticket_number[u],
             slots[loop[u]].now_serving, ran[k], served[k])
    BY <1>3 DEF TurnRight
  <2> QED BY <1>0, <1>3, <2>2, <2>3, <2>4 DEF Turn
<1> QED BY <1>1, <1>2, <1>3, TurnNext

\* A ticket that is being served is the ticket of one thread.
LEMMA OneTicket ==
    ASSUME Types, RingRight, RangesRight, OnceRight, NEW t \in Active, NEW u \in Active, t # u,
           pc[t] \in Ranging, pc[u] \in Ranging, at[t] = at[u], ticket_number[t] = ticket_number[u],
           Within(Descriptor(at[t]).inc, From(t), range[t].upper),
           Within(Descriptor(at[u]).inc, From(u), range[u].upper)
    PROVE  FALSE
<1> DEFINE k == at[t]
           inc == Descriptor(k).inc
           x == ticket_number[t]
<1>0. N > 1
  BY TeamOfMore
<1>1. /\ inc \in Int \ {0} /\ x \in Int /\ From(t) \in Int /\ range[t].upper \in Int
      /\ Within(inc, range[t].lower, x) /\ Within(inc, x, From(t)) /\ Within(inc, From(t), range[t].upper)
  BY <1>0, RangingFacts
<1>2. /\ From(u) \in Int /\ range[u].upper \in Int
      /\ Within(inc, range[u].lower, x) /\ Within(inc, x, From(u)) /\ Within(inc, From(u), range[u].upper)
  BY <1>0, RangingFacts
<1>3. Within(inc, x, range[t].upper) /\ Within(inc, x, range[u].upper)
  <2> HIDE DEF inc, x
  <2> QED BY <1>1, <1>2, WithinFacts
<1> QED BY <1>1, <1>2, <1>3, RangesMeet

LEMMA OrderedOthers ==
    ASSUME Types, RingRight, RangesRight, OnceRight, NEW t \in Active, Step(t), pc'[t] # "abort",
           NEW R, HandStep(t, R), Ordered(t), NEW u \in Active, u # t, TurnRight(u)
    PROVE  TurnRight(u)'
<1> DEFINE k == at[u]
<1>0. k \in 1 .. Len(program) /\ N > 1
  BY ThreadFacts, TeamOfMore DEF Types
<1>1. /\ pc[t] = "iterate" /\ pc[t] \in Ranging /\ slots[loop[t]].now_serving = ticket_number[t]
      /\ Within(slots[loop[t]].inc, index[t], range[t].upper) /\ From(t) = index[t]
      /\ served' = [served EXCEPT ![at[t]] = Append(@, index[t])]
  BY <1>0 DEF Ordered, Ranging, From
<1>2. ASSUME pc[u] \in Ranging, at[u] = at[t], ticket_number[u] = slots[loop[u]].now_serving,
             Within(Descriptor(k).inc, From(u), range[u].upper)
      PROVE  FALSE
  <2>1. /\ loop[t] \in 0 .. Slots - 1 /\ slots[loop[t]].loop_id # Unused
        /\ slots[loop[t]].number = at[t] /\ slots[loop[t]].inc = Descriptor(at[t]).inc
    BY <1>1, RangingFacts
  <2>2. pc[u] \in Working
    BY <1>2 DEF Ranging, Working
  <2>3. loop[u] = loop[t]
    BY <1>2, <2>1, <2>2, SlotLoop
  <2> QED BY <1>1, <1>2, <2>1, <2>3, OneTicket
<1>3. ~EndOrdered(t)
  BY <1>1 DEF EndOrdered
<1>4. at[u] # at[t] => served'[k] = served[k]
  BY <1>1
<1> QED BY <1>2, <1>3, <1>4, OthersTurn

\* What __ompc_end_ordered does to the turn.
LEMMA EndEffect ==
    ASSUME Types, RingRight, OnceRight, NEW t \in Active, EndOrdered(t), pc'[t] # "abort",
           NEW k, k = at[t], NEW s, s = loop[t]
    PROVE  /\ pc[t] = "inside" /\ pc'[t] = "iterate" /\ index'[t] = index[t] + Descriptor(k).inc
           /\ ran'[k] = ran[k] \cup {<<t, index[t]>>}
           /\ N > 1 => /\ slots[s].now_serving = ticket_number[t]
                       /\ slots' = [slots EXCEPT ![s].now_serving = @ + Descriptor(k).inc]
                       /\ slots'[s].now_serving = slots[s].now_serving + Descriptor(k).inc
                       /\ ticket_number'[t] = ticket_number[t] + Descriptor(k).inc
           /\ UNCHANGED <<region, at, loop, range, served>>
<1>0. /\ t \in Threads /\ pc \in [Threads -> Label] /\ index \in [Threads -> Int]
      /\ ticket_number \in [Threads -> Int] /\ slots \in [0 .. Slots - 1 -> SlotRecord]
      /\ ran \in [1 .. Len(program) -> SUBSET (Threads \X Int)]
  BY ThreadFacts DEF Types, OnceRight
<1>1. pc[t] = "inside" /\ pc[t] \in Working /\ Run(t, {index[t]}) /\ UNCHANGED <<region, at, loop, range, served>>
  BY DEF EndOrdered, Working
<1>2. k \in 1 .. Len(program) /\ s \in 0 .. Slots - 1 /\ slots[s].inc = Descriptor(k).inc
  BY <1>1, MyDescriptor DEF OnceRight, Matches
<1>3. ~(N > 1 /\ slots[loop[t]].now_serving # ticket_number[t])
  BY <1>0 DEF EndOrdered, Goto
<1>4. /\ pc'[t] = "iterate" /\ index'[t] = index[t] + Descriptor(k).inc
      /\ N > 1 => /\ slots' = [slots EXCEPT ![s].now_serving = @ + Descriptor(k).inc]
                  /\ ticket_number'[t] = ticket_number[t] + Descriptor(k).inc
  BY <1>0, <1>2, <1>3 DEF EndOrdered, Goto
<1>5. N > 1 => slots'[s].now_serving = slots[s].now_serving + Descriptor(k).inc
  <2>1. slots[s] \in SlotRecord
    BY <1>0, <1>2
  <2>2. N > 1 => slots'[s] = [slots[s] EXCEPT !.now_serving = @ + Descriptor(k).inc]
    BY <1>0, <1>2, <1>4
  <2> QED BY <2>1, <2>2 DEF SlotRecord
<1>6. ran'[k] = ran[k] \cup {<<t, index[t]>>}
  BY <1>0, <1>1, <1>2 DEF Run
<1> QED BY <1>1, <1>3, <1>4, <1>5, <1>6

LEMMA EndOthers ==
    ASSUME Types, RingRight, RangesRight, OnceRight, NEW t \in Active, Step(t), pc'[t] # "abort",
           NEW R, HandStep(t, R), EndOrdered(t), TurnRight(t), NEW u \in Active, u # t, TurnRight(u),
           loop[u] = loop[t], pc[u] \in Ranging,
           Aligned(at[t], slots[loop[t]].now_serving), NEW k, k = at[t]
    PROVE  TurnRight(u)'
<1> DEFINE inc == Descriptor(k).inc
           lo == Descriptor(k).lower
           s == loop[t]
           now == slots[s].now_serving
           next == now + inc
           i == index[t]
           a == range[t].lower
           b == range[t].upper
           c == range[u].lower
           d == range[u].upper
           seq == served[k]
<1>0. N > 1 /\ t \in Threads /\ u \in Threads
  BY TeamOfMore, ThreadFacts
<1>1. /\ pc[t] = "inside" /\ pc[t] \in Ranging /\ now = ticket_number[t] /\ From(t) = i
      /\ ran'[k] = ran[k] \cup {<<t, i>>} /\ slots'[s].now_serving = next
      /\ UNCHANGED <<region, at, loop, range, served>>
  BY <1>0, EndEffect DEF Ranging, From
<1>2. /\ k \in 1 .. Len(program) /\ s \in 0 .. Slots - 1 /\ slots[s].number = k
      /\ inc \in Int \ {0} /\ lo \in Int /\ a \in Int /\ b \in Int /\ i \in Int /\ now \in Int
      /\ Aligned(k, i) /\ Within(inc, a, now) /\ Within(inc, now, i) /\ Within(inc, i, b)
  BY <1>0, <1>1, RangingFacts
<1>3. at[u] = k
  BY <1>2, RangingFacts
<1>4. /\ c \in Int /\ d \in Int /\ From(u) \in Int /\ ticket_number[u] \in Int
      /\ Aligned(k, From(u)) /\ Within(inc, c, ticket_number[u]) /\ Within(inc, ticket_number[u], From(u))
  BY <1>0, <1>3, RangingFacts
<1>5. pc[u] # "inside"
  BY <1>0, <1>1, InsideAlone
<1>6. /\ pc'[u] = pc[u] /\ at'[u] = k /\ range'[u] = range[u] /\ loop'[u] = s
      /\ ticket_number'[u] = ticket_number[u] /\ From(u)' = From(u)
  BY <1>0, <1>3, OthersPlace DEF Same, From
<1>7. Turn(k, t, TRUE, range[t], i, now, now, ran[k], seq)
  BY <1>1 DEF TurnRight
<1>8. Turn(k, u, FALSE, range[u], From(u), ticket_number[u], now, ran[k], seq)
  BY <1>3, <1>5 DEF TurnRight
<1>9. ServedBelow(seq, k, i + inc)
  BY <1>2, <1>7 DEF Turn
<1>10. ASSUME Within(inc, c, next), Within(inc, next, d)
       PROVE  ServedBelow(seq, k, next) /\ Before(inc, now, c)
  <2>1. On(lo, inc, i) /\ On(lo, inc, now)
    BY <1>2 DEF Aligned
  <2>2. next \in Int /\ Before(inc, now, next) /\ Within(inc, now, next)
    <3> HIDE DEF inc, lo, now, i
    <3> QED BY <1>2, <2>1, BeforeNext, BeforeWithin
  <2>3. i = now
    <3> SUFFICES ASSUME i # now PROVE FALSE
      OBVIOUS
    <3>1. Before(inc, now, i)
      <4> HIDE DEF inc, now, i
      <4> QED BY <1>2 DEF Before, Within
    <3>2. Within(inc, next, i)
      <4> HIDE DEF inc, lo, now, i
      <4> QED BY <1>2, <2>1, <3>1, OnNext
    <3>3. Within(inc, a, next) /\ Within(inc, next, b)
      <4> HIDE DEF inc, next, now, i, a, b
      <4> QED BY <1>2, <2>2, <3>2, WithinFacts
    <3> QED BY <1>1, <1>3, <1>10, <2>2, <3>3, RangesMeet
  <2>4. Before(inc, now, c)
    <3> SUFFICES ASSUME ~Before(inc, now, c) PROVE FALSE
      OBVIOUS
    <3>1. Within(inc, c, now)
      <4> HIDE DEF inc, now, c
      <4> QED BY <1>2, <1>4, BeforeNot
    <3>2. Within(inc, now, d) /\ Within(inc, now, b)
      <4> HIDE DEF inc, next, now, i, b, d
      <4> QED BY <1>2, <1>4, <1>10, <2>2, WithinFacts
    <3> QED BY <1>1, <1>2, <1>3, <3>1, <3>2, RangesMeet
  <2> QED BY <1>9, <2>3, <2>4
<1>11. Turn(k, u, FALSE, range[u], From(u), ticket_number[u], next, ran'[k], seq)
  <2>1. ran[k] \subseteq ran'[k] /\ region \in Regions /\ Aligned(k, now)
    BY <1>1 DEF Types
  <2> DEFINE n == next
             from == From(u)
             ticket == ticket_number[u]
  <2>2. n = now + inc
    OBVIOUS
  <2> HIDE DEF n, now, from, ticket
  <2> QED BY <1>0, <1>2, <1>4, <1>8, <1>10, <2>1, <2>2, TurnPassed DEF n, from, ticket
<1> QED BY <1>1, <1>5, <1>6, <1>11, TurnNext

\* A thread that fetches the range whose turn it is finds the ordered regions
\* before it done.
LEMMA TakeTurn ==
    ASSUME Types, RingRight, RangesRight, OnceRight, OrderRight, RangesRight', OnceRight', Types',
           NEW t \in Active, Step(t), pc[t] \in {"next", "adjust"}, pc'[t] = "body",
           NEW k \in 1 .. Len(program), k = at[t], NEW a, a = range'[t].lower, ticket_number'[t] = a,
           UNCHANGED <<region, at, loop, ran, served>>,
           N = 1 => served[k] = <<>> /\ a = Descriptor(k).lower
    PROVE  TurnRight(t)'
<1> DEFINE inc == Descriptor(k).inc
           s == loop[t]
           now == slots'[s].now_serving
           z == range'[t].upper
           seq == served[k]
<1>0. /\ t \in Threads /\ region \in Regions /\ Active' = Active /\ N' = N /\ N \in Nat \ {0}
      /\ pc[t] \in Working
  BY ThreadFacts, RegionFacts, RegionFrame DEF Types, Working
<1>1. /\ s \in 0 .. Slots - 1 /\ slots[s].number = k /\ slots[s].loop_id # Unused
      /\ slots[s].inc = inc /\ inc \in Int \ {0}
  BY <1>0, MyDescriptor DEF OnceRight, Matches
<1>2. From(t)' = a
  BY DEF From
<1>3. Aligned(k, a) /\ a \in Int /\ z \in Int
  <2>1. HandRange(t)'
    BY <1>0 DEF OnceRight
  <2>2. Aligned(at[t], From(t))'
    BY <2>1 DEF HandRange, Holding
  <2>3. Aligned(at[t], From(t))' <=> Aligned(k, a)
    BY <1>2 DEF Aligned, Descriptor, program
  <2>4. range'[t] \in [lower : Int, upper : Int]
    BY <1>0 DEF Types
  <2> QED BY <2>2, <2>3, <2>4
<1>4. ASSUME N > 1, a = now, Within(inc, a, z) PROVE ServedBelow(seq, k, a)
  <2>1. slots[s].now_serving = a /\ slots'[s].inc = inc
    <3>1. ~EndOrdered(t)
      BY DEF EndOrdered
    <3> QED BY <1>1, <1>4, <3>1, StepKeeps DEF Serves, Kept
  <2>2. \A r \in ran[k] : r[2] # a
    <3> SUFFICES ASSUME NEW r \in ran[k], r[2] = a PROVE FALSE
      OBVIOUS
    <3>1. HandOnce(t)'
      BY <1>0 DEF OnceRight
    <3>2. ~InHand(t, r[2])'
      BY <3>1 DEF HandOnce, Working
    <3>3. Descriptor(at[t])' = Descriptor(k)
      BY DEF Descriptor, program
    <3>4. Within(inc, a, a)
      <4> HIDE DEF inc
      <4> QED BY <1>1, <1>3, WithinSelf
    <3> QED BY <1>2, <1>4, <3>2, <3>3, <3>4 DEF InHand, Holding
  <2>3. ASSUME NEW u \in Active, at[u] = k, pc[u] = "inside", index[u] = a, ticket_number[u] = a
        PROVE  FALSE
    <3>1. u # t /\ u \in Threads /\ pc[u] \in Ranging /\ pc[u] \in Working /\ From(u) = a
      BY <2>3, ThreadFacts DEF Ranging, From, Working
    <3>2. loop[u] = s
      BY <1>1, <2>3, <3>1, SlotLoop
    <3>3. pc'[u] = "inside" /\ range'[u] = range[u]
      BY <1>0, <2>3, <3>1, OthersPlace DEF Same
    <3>4. /\ range[u].lower \in Int /\ range[u].upper \in Int
          /\ Within(inc, range[u].lower, a) /\ Within(inc, a, range[u].upper)
      BY <1>4, <2>3, <3>1, RangingFacts
    <3>5. Apart(t, u)'
      BY <1>0, <1>4, <3>1 DEF RangesRight
    <3>6. \/ Before(inc, z, range[u].lower)
          \/ Before(inc, range[u].upper, a)
      BY <2>1, <3>2, <3>3, <3>5 DEF Apart, Holding
    <3>7. Within(inc, a, a)
      <4> HIDE DEF inc
      <4> QED BY <1>1, <1>3, WithinSelf
    <3> HIDE DEF inc, z
    <3> QED BY <1>1, <1>3, <1>4, <3>4, <3>6, <3>7, NotBoth
  <2>4. NowRight(s)
    BY <1>1 DEF OrderRight
  <2> QED BY <1>1, <1>4, <2>1, <2>2, <2>3, <2>4 DEF NowRight
<1>5. ASSUME N = 1 PROVE ServedBelow(seq, k, a)
  BY <1>0, <1>5, BelowStart
<1>6. Turn(k, t, FALSE, range'[t], a, a, now, ran[k], seq)
  <2> DEFINE m == now
  <2> HIDE DEF now
  <2>1. (N = 1 \/ a = m) /\ Within(inc, a, z) => ServedBelow(seq, k, a)
    BY <1>0, <1>4, <1>5
  <2> QED BY <1>0, <1>3, <2>1, TurnTaken
<1> QED BY <1>2, <1>6, TurnNext

LEMMA HandTurn ==
    ASSUME Types, RingRight, RangesRight, OnceRight, OrderRight, RangesRight', OnceRight', Types',
           NEW t \in Active, Step(t), NextFixed(t) \/ NextDynamic(t) \/ GuidedAdjust(t),
           NEW k \in 1 .. Len(program), k = at[t]
    PROVE  TurnRight(t)' /\ FreshRight(t)'
<1>0. /\ t \in Threads /\ pc[t] \in Working /\ UNCHANGED <<region, at, loop, ran, served>>
      /\ pc[t] \in {"next", "adjust"} /\ N' = N /\ N \in Nat \ {0}
      /\ iteration \in [Threads -> Nat] /\ pc \in [Threads -> Label]
  <2>1. pc[t] \in {"next", "adjust"} /\ pc[t] \in Working /\ UNCHANGED <<region, at, loop, ran, served>>
    BY DEF NextFixed, NextDynamic, GuidedAdjust, history, Working
  <2> QED BY <2>1, ThreadFacts, RegionFacts, RegionFrame DEF Types
<1>1. PICK reply : Hand(t, reply) /\ (N = 1 => reply = Reply(iteration[t] = 0, slots[loop[t]].lower, slots[loop[t]].upper))
  <2>1. CASE NextFixed(t)
    BY <1>0, <2>1 DEF NextFixed
  <2>2. CASE NextDynamic(t)
    BY <1>0, <2>2 DEF NextDynamic
  <2>3. CASE GuidedAdjust(t)
    <3>1. N > 1
      BY <2>3 DEF OnceRight, HandRange, GuidedAdjust
    <3>2. N # 1
      BY <1>0, <3>1
    <3>3. Hand(t, Reply(TRUE, range[t].lower, range[t].upper))
      BY <2>3 DEF GuidedAdjust
    <3> QED BY <3>2, <3>3
  <2> QED BY <2>1, <2>2, <2>3
<1>2. CASE ~reply.more
  <2>1. pc'[t] = "free"
    BY <1>0, <1>1, <1>2 DEF Hand, Goto
  <2> QED BY <2>1 DEF TurnRight, FreshRight, Ranging, Entering
<1>3. CASE reply.more
  <2>1. pc'[t] = "body" /\ iteration'[t] = iteration[t] + 1
    BY <1>0, <1>1, <1>3 DEF Hand, Goto
  <2>2. range'[t].lower = reply.lower /\ ticket_number'[t] = reply.lower
    BY <1>0, <1>1, <2>1, HandRight
  <2>3. N = 1 => served[k] = <<>> /\ reply.lower = Descriptor(k).lower
    <3> SUFFICES ASSUME N = 1 PROVE served[k] = <<>> /\ reply.lower = Descriptor(k).lower
      OBVIOUS
    <3>1. iteration[t] = 0 /\ reply.lower = slots[loop[t]].lower
      <4>1. reply = Reply(iteration[t] = 0, slots[loop[t]].lower, slots[loop[t]].upper)
        BY <1>1
      <4>2. reply.lower = slots[loop[t]].lower
        BY <4>1 DEF Reply
      <4>3. ASSUME iteration[t] # 0 PROVE FALSE
        <5>1. reply = Reply(FALSE, slots[loop[t]].lower, slots[loop[t]].upper)
          BY <4>1, <4>3
        <5>2. reply.more = FALSE
          BY <5>1 DEF Reply
        <5> QED BY <1>3, <5>2
      <4> QED BY <4>2, <4>3
    <3>2. slots[loop[t]].lower = Descriptor(k).lower
      BY <1>0, MyDescriptor DEF OnceRight, Matches
    <3>3. pc[t] = "next"
      BY <1>0 DEF OnceRight, HandRange
    <3>4. FreshRight(t)
      BY DEF OrderRight
    <3> QED BY <3>1, <3>2, <3>3, <3>4 DEF FreshRight
  <2>4. TurnRight(t)'
    BY <1>0, <2>1, <2>2, <2>3, TakeTurn
  <2>5. FreshRight(t)'
    BY <1>0, <2>1 DEF FreshRight, Entering
  <2> QED BY <2>4, <2>5
<1> QED BY <1>2, <1>3

\* What __ompc_ordered does when it is the turn of the iteration.
LEMMA OrderedEffect ==
    ASSUME Types, RingRight, RangesRight, OnceRight, OrderRight, NEW t \in Active, Ordered(t),
           NEW k, k = at[t], NEW i, i = index[t]
    PROVE  /\ pc[t] = "iterate" /\ pc'[t] = "inside" /\ k \in 1 .. Len(program) /\ i \in Int
           /\ UNCHANGED <<region, slots, at, loop, range, index, iteration, ticket_number, ran>>
           /\ served[k] \in Seq(Int) /\ served'[k] = Append(served[k], i)
           /\ N > 1 => ticket_number[t] = slots[loop[t]].now_serving
           /\ ToServe(k, i)
           /\ Descriptor(k).inc \in Int \ {0} /\ range[t].upper \in Int /\ From(t) = i
           /\ Aligned(k, i) /\ Within(Descriptor(k).inc, i, range[t].upper)
<1>0. /\ t \in Threads /\ pc \in [Threads -> Label] /\ region \in Regions /\ N \in Nat \ {0}
      /\ served \in [1 .. Len(program) -> Seq(Int)]
  BY ThreadFacts, RegionFacts DEF Types, OrderRight
<1>1. /\ pc[t] = "iterate" /\ pc[t] \in Ranging /\ From(t) = i /\ pc'[t] = "inside"
      /\ UNCHANGED <<region, slots, at, loop, range, index, iteration, ticket_number, ran>>
      /\ Within(slots[loop[t]].inc, i, range[t].upper) /\ i \notin program[k].skip
      /\ N > 1 => slots[loop[t]].now_serving = ticket_number[t]
      /\ served' = [served EXCEPT ![k] = Append(@, i)]
  BY <1>0 DEF Ordered, Ranging, From, Goto, shared, locals
<1> DEFINE inc == Descriptor(k).inc
           up == Descriptor(k).upper
           z == range[t].upper
<1>2. /\ k \in 1 .. Len(program) /\ slots[loop[t]].inc = inc /\ inc \in Int \ {0} /\ i \in Int /\ z \in Int
      /\ Aligned(k, i) /\ Within(inc, z, up)
  BY <1>1, RangingFacts
<1>3. up \in Int
  BY <1>0, <1>2, DescriptorFacts
<1>4. Within(inc, i, z)
  BY <1>1, <1>2
<1>5. Within(inc, i, up)
  <2> HIDE DEF inc, up, z
  <2> QED BY <1>2, <1>3, <1>4, WithinFacts
<1>6. ToServe(k, i)
  BY <1>1, <1>2, <1>5 DEF ToServe, IsIteration
<1>7. served[k] \in Seq(Int) /\ served'[k] = Append(served[k], i)
  BY <1>0, <1>1, <1>2
<1> QED BY <1>1, <1>2, <1>4, <1>6, <1>7

LEMMA OrderedTurn ==
    ASSUME Types, RingRight, RangesRight, OnceRight, OrderRight, NEW t \in Active, Ordered(t),
           NEW k, k = at[t], NEW i, i = index[t]
    PROVE  /\ ServedBelow(served[k], k, i)
           /\ Turn(k, t, TRUE, range[t], i, ticket_number[t], slots[loop[t]].now_serving,
                   ran[k], Append(served[k], i))
<1> DEFINE inc == Descriptor(k).inc
<1>0. region \in Regions /\ N \in Nat \ {0}
  BY RegionFacts DEF Types
<1>1. /\ pc[t] = "iterate" /\ pc[t] \in Ranging /\ k \in 1 .. Len(program) /\ i \in Int
      /\ served[k] \in Seq(Int) /\ ToServe(k, i) /\ From(t) = i
      /\ N > 1 => ticket_number[t] = slots[loop[t]].now_serving
      /\ Within(inc, i, range[t].upper)
  BY OrderedEffect DEF Ranging
<1>8. TurnRight(t)
  BY DEF OrderRight
<1>9. Turn(k, t, FALSE, range[t], i, ticket_number[t], slots[loop[t]].now_serving, ran[k], served[k])
  BY <1>1, <1>8 DEF TurnRight
<1>10. N = 1 \/ ticket_number[t] = slots[loop[t]].now_serving
  BY <1>0, <1>1
<1>11. /\ Turn(k, t, TRUE, range[t], i, ticket_number[t], slots[loop[t]].now_serving, ran[k],
               Append(served[k], i))
       /\ ServedBelow(served[k], k, i)
  <2> DEFINE seq == served[k]
             runs == ran[k]
             r == range[t]
             ticket == ticket_number[t]
             now == slots[loop[t]].now_serving
  <2>1. seq \in Seq(Int) /\ Turn(k, t, FALSE, r, i, ticket, now, runs, seq) /\ Within(inc, i, r.upper)
        /\ (N = 1 \/ ticket = now)
    BY <1>1, <1>9, <1>10
  <2> HIDE DEF seq, runs, r, ticket, now
  <2>2. Turn(k, t, TRUE, r, i, ticket, now, runs, Append(seq, i)) /\ ServedBelow(seq, k, i)
    BY <1>0, <1>1, <2>1, TurnServed
  <2> QED BY <2>2 DEF seq, runs, r, ticket, now
<1> QED BY <1>11

\* The turn of the thread that does the step.
LEMMA MyTurn ==
    ASSUME Types, RingRight, RangesRight, OnceRight, OrderRight, RangesRight', OnceRight', Types',
           NEW t \in Active, Step(t), pc'[t] # "abort", NEW k \in 1 .. Len(program), k = at[t]
    PROVE  TurnRight(t)'
<1>0. /\ t \in Threads /\ pc \in [Threads -> Label] /\ index \in [Threads -> Int] /\ UNCHANGED region
      /\ region \in Regions /\ ran \in [1 .. Len(program) -> SUBSET (Threads \X Int)] /\ N \in Nat \ {0}
  BY ThreadFacts, StepRegion, RegionFacts DEF Types, OnceRight
<1>1. TurnRight(t)
  BY DEF OrderRight
<1>2. CASE NextFixed(t) \/ NextDynamic(t) \/ GuidedAdjust(t)
  BY <1>2, HandTurn
<1>3. CASE GuidedRead(t) \/ GuidedEstimate(t) \/ GuidedTake(t)
  <2>1. pc'[t] \in {"estimate", "take", "adjust", "free"}
    BY <1>0, <1>3 DEF GuidedRead, GuidedEstimate, GuidedTake, Goto
  <2> QED BY <2>1 DEF TurnRight, Ranging
<1>4. CASE Alloc(t) \/ Fill(t) \/ Publish(t) \/ Attach(t) \/ Body(t) \/ OrderedEnd(t)
             \/ FreeCount(t) \/ FreeLast(t) \/ EndLoop(t)
  <2>1. pc'[t] \notin Ranging
    BY <1>0, <1>4, StepLeads DEF Ranging
  <2> QED BY <2>1 DEF TurnRight
<1>5. CASE OrderedBegin(t)
  <2>1. /\ pc[t] = "body" /\ pc'[t] = "iterate" /\ index'[t] = range[t].lower
        /\ UNCHANGED <<slots, at, loop, range, ticket_number, ran, served>>
    BY <1>0, <1>5 DEF OrderedBegin, Goto, shared, history
  <2>2. From(t) = range[t].lower /\ From(t)' = range[t].lower
    BY <2>1 DEF From
  <2>3. Turn(k, t, FALSE, range[t], range[t].lower, ticket_number[t], slots[loop[t]].now_serving,
             ran[k], served[k])
    BY <1>1, <2>1, <2>2 DEF TurnRight, Ranging
  <2> QED BY <1>0, <2>1, <2>2, <2>3, TurnNext
<1>6. CASE Ordered(t)
  <2> DEFINE i == index[t]
  <2>1. i = index[t]
    OBVIOUS
  <2> HIDE DEF i
  <2>2. /\ pc'[t] = "inside" /\ served'[k] = Append(served[k], i)
        /\ UNCHANGED <<region, slots, at, loop, range, index, iteration, ticket_number, ran>>
    BY <1>6, <2>1, OrderedEffect
  <2>4. Turn(k, t, TRUE, range[t], i, ticket_number[t], slots[loop[t]].now_serving,
             ran[k], Append(served[k], i))
    BY <1>6, <2>1, OrderedTurn, Zenon
  <2>3. From(t)' = i
    BY <2>1, <2>2 DEF From
  <2> QED BY <1>0, <2>2, <2>3, <2>4, TurnNext
<1>7. CASE EndOrdered(t)
  <2> DEFINE i == index[t]
             inc == Descriptor(k).inc
             ticket == ticket_number[t]
             now == slots[loop[t]].now_serving
  <2>1. /\ pc[t] = "inside" /\ pc'[t] = "iterate" /\ index'[t] = i + inc
        /\ ran'[k] = ran[k] \cup {<<t, i>>}
        /\ N > 1 => /\ now = ticket
                    /\ slots'[loop[t]].now_serving = now + inc
                    /\ ticket_number'[t] = ticket + inc
        /\ UNCHANGED <<region, at, loop, range, served>>
    BY <1>7, EndEffect
  <2>2. From(t) = i /\ From(t)' = i + inc
    BY <2>1 DEF From
  <2>3. Turn(k, t, TRUE, range[t], i, ticket, now, ran[k], served[k])
    BY <1>1, <2>1, <2>2 DEF TurnRight, Ranging
  <2>4. /\ i \in Int /\ range[t].lower \in Int /\ Aligned(k, i) /\ Within(inc, i, range[t].upper)
        /\ N > 1 => Within(inc, range[t].lower, ticket)
    BY <2>1, <2>2, RangingFacts DEF Ranging
  <2>5. Turn(k, t, FALSE, range[t], i + inc, ticket_number'[t], slots'[loop[t]].now_serving, ran'[k], served[k])
    <3> DEFINE r == range[t]
               more == ran'[k]
               runs == ran[k]
               seq == served[k]
               ticket2 == ticket_number'[t]
               now2 == slots'[loop[t]].now_serving
    <3>1. /\ runs \subseteq more /\ <<t, i>> \in more
          /\ N > 1 => ticket2 = ticket + inc /\ now2 = now + inc /\ ticket = now /\ Within(inc, r.lower, ticket)
          /\ Turn(k, t, TRUE, r, i, ticket, now, runs, seq) /\ Within(inc, i, r.upper)
          /\ r.lower \in Int
      BY <2>1, <2>3, <2>4
    <3> HIDE DEF r, more, runs, seq, ticket, now, ticket2, now2, i
    <3>2. Turn(k, t, FALSE, r, i + inc, ticket2, now2, more, seq)
      BY <1>0, <2>4, <3>1, TurnEnded
    <3> QED BY <3>2 DEF r, more, seq, ticket2, now2
  <2> QED BY <1>0, <2>1, <2>2, <2>5, TurnNext
<1>8. CASE SkipOrdered(t)
  <2> DEFINE i == index[t]
             inc == Descriptor(k).inc
             ticket == ticket_number[t]
             now == slots[loop[t]].now_serving
  <2>1. /\ pc[t] = "iterate" /\ pc'[t] = "iterate" /\ i \in program[k].skip
        /\ UNCHANGED <<slots, at, loop, range, ticket_number, served>>
        /\ Within(slots[loop[t]].inc, i, range[t].upper)
        /\ index' = [index EXCEPT ![t] = @ + slots[loop[t]].inc]
        /\ ran' = [ran EXCEPT ![k] = @ \cup {<<t, x>> : x \in {i}}]
    BY <1>8 DEF SkipOrdered, Run, shared
  <2>2. From(t) = i /\ From(t)' = index'[t]
    BY <2>1 DEF From
  <2>3. slots[loop[t]].inc = inc /\ i \in Int /\ Aligned(k, i)
    BY <2>1, <2>2, RangingFacts DEF Ranging
  <2>4. index'[t] = i + inc /\ ran'[k] = ran[k] \cup {<<t, i>>} /\ Within(inc, i, range[t].upper)
    BY <1>0, <2>1, <2>3
  <2>5. Turn(k, t, FALSE, range[t], i, ticket, now, ran[k], served[k])
    BY <1>1, <2>1, <2>2 DEF TurnRight, Ranging
  <2>6. Turn(k, t, FALSE, range[t], i + inc, ticket, now, ran'[k], served[k])
    <3> DEFINE r == range[t]
               more == ran'[k]
               runs == ran[k]
               seq == served[k]
    <3>1. /\ runs \subseteq more /\ <<t, i>> \in more
          /\ Turn(k, t, FALSE, r, i, ticket, now, runs, seq) /\ Within(inc, i, r.upper)
      BY <2>4, <2>5
    <3> HIDE DEF r, more, runs, seq, ticket, now, i
    <3>2. Turn(k, t, FALSE, r, i + inc, ticket, now, more, seq)
      BY <1>0, <2>1, <2>3, <3>1, TurnSkipped DEF i
    <3> QED BY <3>2 DEF r, more, seq
  <2> QED BY <1>0, <2>1, <2>2, <2>4, <2>6, TurnNext
<1> QED BY <1>2, <1>3, <1>4, <1>5, <1>6, <1>7, <1>8 DEF Step

\* A team of one has served nothing before it fetches its range.
LEMMA FreshStep ==
    ASSUME Types, RingRight, RangesRight, OnceRight, OrderRight, RangesRight', OnceRight', Types',
           NEW t \in Active, Step(t), pc'[t] # "abort", NEW k \in 1 .. Len(program), k = at[t], N = 1
    PROVE  FreshRight(t)'
<1>0. t \in Threads /\ pc \in [Threads -> Label] /\ FreshRight(t) /\ k \in Nat
  BY ThreadFacts DEF Types, OrderRight
<1>1. CASE NextFixed(t) \/ NextDynamic(t) \/ GuidedAdjust(t)
  BY <1>1, HandTurn
<1>2. CASE Alloc(t)
  <2>1. pc[t] = "begin" /\ UNCHANGED <<at, served>>
    BY <1>2 DEF Alloc, history
  <2>2. pc'[t] \notin Ranging
    BY <1>0, <1>2, StepLeads DEF Ranging
  <2>3. served[k] = <<>>
    <3> SUFFICES ASSUME served[k] # <<>> PROVE FALSE
      OBVIOUS
    <3>1. PICK u \in Active : k <= Entered(u)
      BY DEF OrderRight
    <3>2. u = t
      BY DEF Active
    <3>3. Entered(t) = k - 1
      BY <2>1 DEF Entered
    <3> QED BY <1>0, <3>1, <3>2, <3>3
  <2> QED BY <2>1, <2>2, <2>3 DEF FreshRight
<1>3. CASE Fill(t) \/ Publish(t) \/ Attach(t)
  <2>1. pc[t] \in Entering /\ UNCHANGED <<at, served>>
    BY <1>3 DEF Fill, Publish, Attach, history, locals, Entering
  <2>2. pc'[t] \notin Ranging
    BY <1>0, <1>3, StepLeads DEF Ranging
  <2> QED BY <1>0, <2>1, <2>2 DEF FreshRight
<1>4. CASE GuidedRead(t) \/ GuidedEstimate(t) \/ GuidedTake(t)
  <2>1. pc'[t] \in {"estimate", "take", "adjust", "free"}
    BY <1>0, <1>4 DEF GuidedRead, GuidedEstimate, GuidedTake, Goto
  <2> QED BY <2>1 DEF FreshRight, Ranging, Entering
<1>5. CASE FreeCount(t) \/ FreeLast(t) \/ EndLoop(t)
  <2>1. pc'[t] \in {"unuse", "after", "begin", "done"}
    BY <1>0, <1>5, StepLeads
  <2> QED BY <2>1 DEF FreshRight, Ranging, Entering
<1>6. CASE Body(t) \/ OrderedEnd(t) \/ OrderedBegin(t) \/ Ordered(t) \/ EndOrdered(t) \/ SkipOrdered(t)
  <2>1. pc[t] \in Ranging /\ iteration' = iteration
    BY <1>6 DEF Body, OrderedEnd, OrderedBegin, Ordered, EndOrdered, SkipOrdered, Ranging, locals
  <2>2. pc'[t] \notin Entering
    BY <1>0, <1>6 DEF Body, OrderedEnd, OrderedBegin, Ordered, EndOrdered, SkipOrdered, Goto, Entering
  <2>3. iteration[t] > 0
    BY <1>0, <2>1 DEF FreshRight
  <2>4. iteration[t] \in Nat
    BY <1>0 DEF Types
  <2> QED BY <2>1, <2>2, <2>3, <2>4 DEF FreshRight
<1> QED BY <1>1, <1>2, <1>3, <1>4, <1>5, <1>6 DEF Step

LEMMA NowNext ==
    ASSUME UNCHANGED region, NEW s, NEW k, k = slots'[s].number, NEW now, now = slots'[s].now_serving,
           slots'[s].loop_id # Unused /\ N > 1 =>
             /\ Aligned(k, now)
             /\ (\A r \in ran'[k] : r[2] # now) =>
                  \/ ServedBelow(served'[k], k, now)
                  \/ \E t \in Active : at'[t] = k /\ pc'[t] = "inside" /\ index'[t] = now
                                        /\ ticket_number'[t] = now
    PROVE  NowRight(s)'
<1> DEFINE seq == served'[k]
           runs == ran'[k]
<1>1. /\ Descriptor(slots[s].number)' = Descriptor(k)
      /\ (program[slots[s].number].skip)' = program[k].skip /\ N' = N
      /\ Active' = Active /\ ran[slots[s].number]' = runs /\ served[slots[s].number]' = seq
  BY RegionFrame DEF Descriptor, program
<1>2. \A x : Aligned(slots[s].number, x)' <=> Aligned(k, x)
  BY <1>1 DEF Aligned
<1>3. \A x : ToServe(slots[s].number, x)' <=> ToServe(k, x)
  BY <1>1, <1>2 DEF ToServe, IsIteration
<1>4. ServedBelow(served[slots[s].number], slots[s].number, slots[s].now_serving)' <=>
        ServedBelow(seq, k, now)
  BY <1>1, <1>3 DEF ServedBelow, Has
<1>5. Aligned(slots[s].number, slots[s].now_serving)' <=> Aligned(k, now)
  BY <1>1 DEF Aligned
<1> QED BY <1>1, <1>4, <1>5 DEF NowRight

\* A slot in which nobody begins or ends an ordered region.
LEMMA NowKept ==
    ASSUME Types, RingRight, RangesRight, OnceRight, OrderRight, NEW t \in Active, Step(t), pc'[t] # "abort",
           NEW R, HandStep(t, R), NEW s \in 0 .. Slots - 1,
           slots[s].loop_id # Unused, slots'[s].number = slots[s].number,
           NEW k, k = slots[s].number,
           ~(at[t] = k /\ (Ordered(t) \/ EndOrdered(t)))
    PROVE  NowRight(s)'
<1>0. t \in Threads /\ UNCHANGED region /\ Active \subseteq Threads
      /\ served \in [1 .. Len(program) -> Seq(Int)]
  BY ThreadFacts, StepRegion, RegionFacts DEF Types, OrderRight
<1>1. /\ k \in 1 .. Len(program)
      /\ \A u \in Active : pc[u] \in Working /\ at[u] = k => loop[u] = s
  BY SlotLoop
<1> SUFFICES ASSUME N > 1 PROVE NowRight(s)'
  BY <1>0, NowNext
<1>2. ~(EndOrdered(t) /\ s = loop[t])
  <2> SUFFICES ASSUME EndOrdered(t), s = loop[t] PROVE FALSE
    OBVIOUS
  <2>1. pc[t] \in Working
    BY DEF EndOrdered, Working
  <2>2. slots[loop[t]].number = at[t]
    BY <2>1, MyDescriptor DEF OnceRight
  <2> QED BY <2>2
<1>3. slots'[s].now_serving = slots[s].now_serving
  BY <1>2, StepKeeps DEF Serves
<1>4. served'[k] = served[k]
  BY <1>0, <1>1, ServedEffect
<1>5. \A r \in ran[k] : r \in ran'[k]
  BY <1>1 DEF HandStep, RunsOnly
<1>6. ASSUME NEW u \in Active, at[u] = k, pc[u] = "inside"
      PROVE  /\ at'[u] = k /\ pc'[u] = "inside" /\ index'[u] = index[u]
             /\ ticket_number'[u] = ticket_number[u]
  <2>1. CASE u = t
    <3>1. EndOrdered(t)
      BY <1>6, <2>1 DEF Step, Alloc, Fill, Publish, Attach, NextFixed, NextDynamic, GuidedRead, GuidedEstimate,
       GuidedTake, GuidedAdjust, Body, OrderedBegin, Ordered, SkipOrdered, OrderedEnd,
       FreeCount, FreeWhen, FreeLast, EndLoop
    <3> QED BY <1>6, <2>1, <3>1
  <2>2. CASE u # t
    BY <1>0, <1>6, <2>2, OthersPlace DEF Same
  <2> QED BY <2>1, <2>2
<1>7. NowRight(s)
  BY DEF OrderRight
<1> DEFINE now == slots[s].now_serving
<1>8. /\ Aligned(k, now)
      /\ (\A r \in ran[k] : r[2] # now) =>
           \/ ServedBelow(served[k], k, now)
           \/ \E u \in Active : at[u] = k /\ pc[u] = "inside" /\ index[u] = now
                                 /\ ticket_number[u] = now
  BY <1>7 DEF NowRight
<1>9. now = slots'[s].now_serving /\ k = slots'[s].number
  BY <1>3
<1> HIDE DEF now
<1>10. (\A r \in ran'[k] : r[2] # now) =>
           \/ ServedBelow(served'[k], k, now)
           \/ \E u \in Active : at'[u] = k /\ pc'[u] = "inside" /\ index'[u] = now
                                 /\ ticket_number'[u] = now
  <2>1. CASE \E u \in Active : at[u] = k /\ pc[u] = "inside" /\ index[u] = now
                                 /\ ticket_number[u] = now
    BY <1>6, <2>1
  <2>2. CASE ServedBelow(served[k], k, now)
    BY <1>4, <2>2
  <2>3. (\A r \in ran'[k] : r[2] # now) => (\A r \in ran[k] : r[2] # now)
    BY <1>5
  <2> QED BY <1>8, <2>1, <2>2, <2>3
<1> QED BY <1>0, <1>8, <1>9, <1>10, NowNext

\* The thread whose turn it is begins its ordered region.
LEMMA NowBegun ==
    ASSUME Types, RingRight, RangesRight, OnceRight, OrderRight, NEW t \in Active, Ordered(t),
           NEW s \in 0 .. Slots - 1, slots[s].loop_id # Unused, NEW k, k = slots[s].number, at[t] = k
    PROVE  NowRight(s)'
<1> DEFINE i == index[t]
           inc == Descriptor(k).inc
           a == range[t].lower
           now == slots[s].now_serving
<1>1. /\ pc[t] = "iterate" /\ pc[t] \in Ranging /\ pc[t] \in Working /\ pc'[t] = "inside"
      /\ UNCHANGED <<region, slots, at, loop, range, index, iteration, ticket_number, ran>>
      /\ N > 1 => ticket_number[t] = slots[loop[t]].now_serving
      /\ From(t) = i
  BY OrderedEffect DEF Ranging, Working
<1>2. loop[t] = s
  BY <1>1, SlotLoop
<1> SUFFICES ASSUME N > 1, \A r \in ran[k] : r[2] # now
             PROVE  index[t] = now
  <2>1. NowRight(s)
    BY DEF OrderRight
  <2>2. N > 1 => Aligned(k, now)
    BY <2>1 DEF NowRight
  <2> QED BY <1>1, <1>2, <2>2, NowNext
<1>3. /\ inc \in Int \ {0} /\ a \in Int /\ now \in Int /\ i \in Int
      /\ Within(inc, a, now) /\ Within(inc, now, i)
  BY <1>1, <1>2, RangingFacts
<1>4. Aligned(k, now)
  BY DEF OrderRight, NowRight
<1>5. TurnRight(t)
  BY DEF OrderRight
<1>6. \A x \in Int : Aligned(k, x) /\ Within(inc, a, x) /\ Before(inc, x, i) => <<t, x>> \in ran[k]
  BY <1>1, <1>5 DEF TurnRight, Turn
<1>7. ~Before(inc, now, i)
  BY <1>3, <1>4, <1>6
<1> HIDE DEF now, i, inc
<1>8. i = now
  BY <1>3, <1>7 DEF Before, Within
<1> QED BY <1>8 DEF i

\* The thread whose turn it is passes it on.
LEMMA NowPassed ==
    ASSUME Types, RingRight, RangesRight, OnceRight, OrderRight, NEW t \in Active, EndOrdered(t),
           pc'[t] # "abort", slots'[loop[t]].number = slots[loop[t]].number,
           NEW s \in 0 .. Slots - 1, s = loop[t], NEW k, k = at[t]
    PROVE  NowRight(s)'
<1> DEFINE i == index[t]
           inc == Descriptor(k).inc
           lo == Descriptor(k).lower
           a == range[t].lower
           now == slots[s].now_serving
           next == now + inc
           seq == served[k]
<1>0. N > 1 \/ N = 1
  <2>1. N \in Nat \ {0}
    BY RegionFacts DEF Types
  <2> QED BY <2>1
<1>1. /\ pc[t] = "inside" /\ pc[t] \in Ranging /\ pc'[t] = "iterate" /\ From(t) = i
      /\ ran'[k] = ran[k] \cup {<<t, i>>}
      /\ N > 1 => slots'[s].now_serving = next
      /\ UNCHANGED <<region, at, loop, range, served>>
  BY EndEffect DEF Ranging, From
<1>2. k \in 1 .. Len(program) /\ slots[s].number = k /\ slots[s].loop_id # Unused /\ region \in Regions
  BY <1>1, RangingFacts DEF Types
<1> SUFFICES ASSUME N > 1
             PROVE  /\ Aligned(k, next)
                    /\ (\A r \in ran'[k] : r[2] # next) => ServedBelow(seq, k, next)
  BY <1>1, <1>2, NowNext
<1>3. /\ inc \in Int \ {0} /\ lo \in Int /\ a \in Int /\ now \in Int /\ i \in Int
      /\ Within(inc, a, now) /\ Within(inc, now, i) /\ Within(inc, i, range[t].upper)
      /\ ticket_number[t] = now /\ Aligned(k, i)
  BY <1>1, RangingFacts
<1>4. Aligned(k, now)
  BY <1>2 DEF OrderRight, NowRight
<1>5. TurnRight(t)
  BY DEF OrderRight
<1>6. Turn(k, t, TRUE, range[t], i, now, now, ran[k], seq)
  BY <1>1, <1>3, <1>5 DEF TurnRight
<1>7. /\ \A x \in Int : Aligned(k, x) /\ Within(inc, a, x) /\ Before(inc, x, i) => <<t, x>> \in ran[k]
      /\ ServedBelow(seq, k, i + inc)
  BY <1>3, <1>6 DEF Turn
<1>8. On(lo, inc, now) /\ On(lo, inc, i)
  BY <1>3, <1>4 DEF Aligned
<1>9. next \in Int /\ On(lo, inc, next) /\ Before(inc, now, next) /\ Within(inc, now, next)
  <2> HIDE DEF inc, lo, now, i
  <2> QED BY <1>3, <1>8, BeforeNext, BeforeWithin, OnStep
<1>10. Aligned(k, next)
  BY <1>9 DEF Aligned
<1>11. ASSUME \A r \in ran'[k] : r[2] # next PROVE i = now
  <2> SUFFICES ASSUME i # now PROVE FALSE
    OBVIOUS
  <2>1. Before(inc, now, i)
    <3> HIDE DEF inc, now, i
    <3> QED BY <1>3 DEF Before, Within
  <2>2. Within(inc, next, i)
    <3> HIDE DEF inc, lo, now, i
    <3> QED BY <1>3, <1>8, <2>1, OnNext
  <2>3. Within(inc, a, next)
    <3> HIDE DEF inc, a, now, next
    <3> QED BY <1>3, <1>9, WithinFacts
  <2>4. next = i \/ Before(inc, next, i)
    <3> HIDE DEF inc, i, next
    <3> QED BY <1>3, <1>9, <2>2 DEF Before, Within
  <2>5. <<t, next>> \in ran'[k]
    <3>1. CASE next = i
      BY <1>1, <3>1
    <3>2. CASE Before(inc, next, i)
      BY <1>1, <1>7, <1>9, <1>10, <2>3, <3>2
    <3> QED BY <2>4, <3>1, <3>2
  <2> QED BY <1>11, <2>5
<1> QED BY <1>7, <1>10, <1>11

\* Nobody passes a turn on in a slot that is not in use.
LEMMA UnusedServes ==
    ASSUME Types, RingRight, OnceRight, NEW t \in Active, Step(t), ~Fill(t), ~Publish(t),
           NEW v \in 0 .. Slots - 1, slots[v].loop_id = Unused
    PROVE  Serves(v)
<1>0. t \in Threads
  BY ThreadFacts
<1>1. ASSUME pc[t] \in Working \cup {"unuse"} PROVE loop[t] \in 0 .. Slots - 1
  BY <1>0, <1>1, MyLoop
<1>2. CASE Alloc(t) \/ Attach(t) \/ NextFixed(t) \/ GuidedRead(t) \/ GuidedEstimate(t)
  <2>1. slots' = slots
    BY <1>2 DEF Alloc, Attach, NextFixed, GuidedRead, GuidedEstimate, shared
  <2> QED BY <2>1 DEF Serves
<1>3. CASE Body(t) \/ OrderedBegin(t) \/ Ordered(t) \/ SkipOrdered(t) \/ OrderedEnd(t) \/ EndLoop(t)
  <2>1. slots' = slots
    BY <1>3 DEF Body, OrderedBegin, Ordered, SkipOrdered, OrderedEnd, EndLoop, shared
  <2> QED BY <2>1 DEF Serves
<1>4. CASE NextDynamic(t) \/ GuidedTake(t)
  <2>1. pc[t] \in Working /\ \E x : slots' = [slots EXCEPT ![loop[t]].current = x]
    <3>1. CASE NextDynamic(t)
      BY <3>1 DEF NextDynamic, Working
    <3>2. CASE GuidedTake(t)
      BY <3>2 DEF GuidedTake, Working
    <3> QED BY <1>4, <3>1, <3>2
  <2> QED BY <1>1, <2>1, ServesCurrent
<1>5. CASE GuidedAdjust(t)
  <2>1. pc[t] \in Working /\ (slots' = slots \/ \E x : slots' = [slots EXCEPT ![loop[t]].chunk = x])
    BY <1>5 DEF GuidedAdjust, Working
  <2>2. CASE slots' = slots
    BY <2>2 DEF Serves
  <2>3. CASE \E x : slots' = [slots EXCEPT ![loop[t]].chunk = x]
    BY <1>1, <2>1, <2>3, ServesCurrent
  <2> QED BY <2>1, <2>2, <2>3
<1>6. CASE EndOrdered(t)
  <2>1. pc[t] \in Working /\ (slots' = slots \/ \E x : slots' = [slots EXCEPT ![loop[t]].now_serving = x])
    BY <1>6 DEF EndOrdered, Working
  <2>2. CASE slots' = slots
    BY <2>2 DEF Serves
  <2>3. ASSUME NEW x, slots' = [slots EXCEPT ![loop[t]].now_serving = x] PROVE Serves(v)
    <3>1. v # loop[t]
      BY <2>1, InUse
    <3> QED BY <1>1, <2>1, <2>3, <3>1, KeptSlots
  <2> QED BY <2>1, <2>2, <2>3
<1>7. CASE FreeCount(t)
  <2>1. pc[t] \in Working /\ (slots' = slots \/ \E x : slots' = [slots EXCEPT ![loop[t]].looping_threads = x])
    BY <1>7 DEF FreeCount, FreeWhen, Working
  <2>2. CASE slots' = slots
    BY <2>2 DEF Serves
  <2>3. CASE \E x : slots' = [slots EXCEPT ![loop[t]].looping_threads = x]
    BY <1>1, <2>1, <2>3, ServesCurrent
  <2> QED BY <2>1, <2>2, <2>3
<1>8. CASE FreeLast(t)
  <2>1. pc[t] = "unuse" /\ slots' = [slots EXCEPT ![loop[t]].loop_id = Unused]
    BY <1>8 DEF FreeLast
  <2> QED BY <1>1, <2>1, ServesCurrent
<1> QED BY <1>2, <1>3, <1>4, <1>5, <1>6, <1>7, <1>8 DEF Step

\* The thread that publishes a loop finds none of it served.
LEMMA NowPublished ==
    ASSUME Types, RingRight, OnceRight, OrderRight, NEW t \in Active, Step(t), Publish(t), pc'[t] # "abort",
           NEW s \in 0 .. Slots - 1, s = MySlot(t), slots' = [slots EXCEPT ![s].loop_id = MyId(t)],
           NEW k \in Nat, k = at[t]
    PROVE  NowRight(s)'
<1>0. /\ t \in Threads /\ pc[t] = "publish" /\ k \in 1 .. Len(program) /\ UNCHANGED <<ran, served, region>>
      /\ k \in Nat \ {0} /\ region \in Regions
  BY ThreadFacts, StepRegion DEF Publish, history, Types
<1>1. PICK b \in Nat, p \in Nat, q \in Nat : RingInv(b, p, q)
  BY DEF RingRight
<1>2. s = Place(b, k) /\ k = p /\ q = p - 1 /\ slots[s].number = k
  <2>1. s = Place(b, k)
    BY <1>0, <1>1, MyPlace
  <2> QED BY <1>0, <1>1, <2>1 DEF RingInv, FillRight
<1>3. slots'[s].number = k /\ slots'[s].now_serving = slots[s].now_serving
  BY <1>2, IdField, ServesCurrent DEF SameLoop, Serves
<1>4. slots[s].now_serving = Descriptor(k).lower
  BY <1>0 DEF OrderRight
<1>5. served[k] = <<>>
  <2> SUFFICES ASSUME served[k] # <<>> PROVE FALSE
    OBVIOUS
  <2>1. PICK u \in Active : k <= Entered(u)
    BY <1>0 DEF OrderRight
  <2>2. Entered(u) <= q /\ Entered(u) \in Nat
    BY <1>1, <2>1, ThreadFacts DEF RingInv, CountRight
  <2> QED BY <1>2, <2>1, <2>2
<1>6. Aligned(k, Descriptor(k).lower)
  BY <1>0, DescriptorFacts, OnStart DEF Aligned
<1>7. ServedBelow(served[k], k, Descriptor(k).lower)
  BY <1>0, <1>5, BelowStart
<1> QED BY <1>0, <1>3, <1>4, <1>6, <1>7, NowNext

LEMMA NowStep ==
    ASSUME Types, RingRight, RangesRight, OnceRight, OrderRight, NEW t \in Active, Step(t), pc'[t] # "abort",
           NEW R, HandStep(t, R), NEW s \in 0 .. Slots - 1
    PROVE  NowRight(s)'
<1>0. t \in Threads /\ at[t] \in 1 .. Len(program) /\ at[t] \in Nat
  BY ThreadFacts DEF Types
<1>1. CASE Untouched(s)
  <2>1. slots'[s].number = slots[s].number /\ slots'[s].loop_id = slots[s].loop_id
    BY <1>1 DEF Untouched, SameLoop
  <2>2. CASE slots[s].loop_id = Unused
    BY <2>1, <2>2 DEF NowRight
  <2>3. CASE slots[s].loop_id # Unused
    <3> DEFINE k == slots[s].number
    <3>1. CASE at[t] = k /\ Ordered(t)
      BY <2>3, <3>1, NowBegun
    <3>2. CASE at[t] = k /\ EndOrdered(t)
      <4>1. pc[t] \in Working
        BY <3>2 DEF EndOrdered, Working
      <4>2. loop[t] = s
        BY <2>3, <3>2, <4>1, SlotLoop
      <4> QED BY <2>1, <3>2, <4>2, NowPassed
    <3>3. CASE ~(at[t] = k /\ (Ordered(t) \/ EndOrdered(t)))
      BY <2>1, <2>3, <3>3, NowKept
    <3> QED BY <3>1, <3>2, <3>3
  <2> QED BY <2>2, <2>3
<1>2. CASE Fill(t) /\ s = MySlot(t)
  <2>1. slots'[s].loop_id = Unused
    BY <1>2 DEF Fill, FillSlot, Types
  <2> QED BY <2>1 DEF NowRight
<1>3. CASE Publish(t) /\ s = MySlot(t) /\ slots' = [slots EXCEPT ![s].loop_id = MyId(t)]
  BY <1>0, <1>3, NowPublished
<1>4. CASE s = loop[t] /\ slots' = [slots EXCEPT ![s].loop_id = Unused]
  <2>1. slots'[s].loop_id = Unused
    BY <1>4, IdField
  <2> QED BY <2>1 DEF NowRight
<1>5. CASE (NextDynamic(t) \/ GuidedTake(t)) /\ s = loop[t] /\ \E x : slots' = [slots EXCEPT ![s].current = x]
  <2>1. pc[t] \in Working /\ ~Ordered(t) /\ ~EndOrdered(t)
    BY <1>5 DEF NextDynamic, GuidedTake, Working, Ordered, EndOrdered
  <2>2. slots[s].loop_id # Unused
    BY <1>5, <2>1, InUse
  <2>3. slots'[s].number = slots[s].number
    BY <1>5, CurrentField DEF SameLoop
  <2> QED BY <2>1, <2>2, <2>3, NowKept
<1> QED BY <1>1, <1>2, <1>3, <1>4, <1>5, StepSlots

LEMMA FillServing ==
    ASSUME Types, NEW t \in Active, Fill(t), NEW s \in 0 .. Slots - 1, s = MySlot(t)
    PROVE  slots'[s].now_serving = Descriptor(at[t]).lower
<1>0. slots \in [0 .. Slots - 1 -> SlotRecord]
  BY DEF Types
<1> DEFINE k == at[t]
           l == Resolve(program[k])
           min_chunk == MaxOf(1, program[k].chunk)
           first == GuidedFirst(l, min_chunk, N, param)
           chunk == IF l.sched = "GUIDED" THEN first ELSE l.chunk
           lower == l.lower
<1>1. slots' = [slots EXCEPT ![s] =
       [loop_id |-> slots[s].loop_id, looping_threads |-> N,
        now_serving |-> lower, sched |-> l.sched, ordered |-> l.ordered,
        lower |-> l.lower, upper |-> l.upper, inc |-> l.inc,
        chunk |-> chunk,
        current |-> l.lower, min_chunk |-> min_chunk, number |-> k]]
  BY DEF Fill, FillSlot
<1>2. Descriptor(k).lower = lower
  BY DEF Descriptor, FreeSlot
<1> HIDE DEF chunk, min_chunk, l, lower
<1>3. slots'[s].now_serving = lower
  BY <1>0, <1>1
<1> QED BY <1>2, <1>3

\* The turn in the descriptor of a loop that is about to be published.
LEMMA ServingStep ==
    ASSUME Types, RingRight, OnceRight, OrderRight, NEW t \in Active, Step(t), pc'[t] # "abort",
           NEW u \in Active, pc'[u] = "publish"
    PROVE  (slots[MySlot(u)].now_serving = Descriptor(at[u]).lower)'
<1>0. t \in Threads /\ u \in Threads /\ MySlot(u) \in 0 .. Slots - 1 /\ MySlot(t) \in 0 .. Slots - 1
  BY ThreadFacts, MySlotType
<1>1. region' = region
  BY StepRegion
<1> SUFFICES MySlot(u)' = MySlot(u) /\ at'[u] = at[u] /\ slots'[MySlot(u)].now_serving = Descriptor(at[u]).lower
  BY <1>1 DEF Descriptor, program
<1>2. loop_count'[u] = loop_count[u] => MySlot(u)' = MySlot(u)
  BY <1>1 DEF MySlot, LoopIndex, Pred, Orphan
<1>3. CASE u = t
  <2>1. ~Inner(t)
    <3> SUFFICES ASSUME Inner(t) PROVE FALSE
      OBVIOUS
    <3>1. PICK label \in Working \cup {"abort"} : pc' = [pc EXCEPT ![t] = label]
      BY <1>0, InnerEffect
    <3>2. pc'[t] = label
      BY <1>0, <3>1 DEF Types
    <3> QED BY <1>3, <3>2, <3>1 DEF Working
  <2>2. Fill(t)
    BY <1>0, <1>3, <2>1, StepLeads DEF Step, Inner
  <2>3. loop_count' = loop_count /\ at' = at
    BY <2>2 DEF Fill, locals
  <2> QED BY <1>0, <1>2, <1>3, <2>2, <2>3, FillServing
<1>4. CASE u # t
  <2>1. loop_count'[u] = loop_count[u] /\ at'[u] = at[u] /\ pc[u] = "publish"
    BY <1>0, <1>4, OthersCount, OthersPlace DEF Same
  <2>2. slots[MySlot(u)].now_serving = Descriptor(at[u]).lower
    BY <2>1 DEF OrderRight
  <2>3. slots[MySlot(u)].loop_id = Unused /\ pc[t] \notin {"fill", "publish"}
    <3>1. PICK b \in Nat, p \in Nat, q \in Nat : RingInv(b, p, q)
      BY DEF RingRight
    <3>2. MySlot(u) = Place(b, at[u])
      BY <2>1, <3>1, MyPlace
    <3> QED BY <1>4, <2>1, <3>1, <3>2 DEF RingInv, FillRight
  <2>4. ~Fill(t) /\ ~Publish(t)
    BY <2>3 DEF Fill, Publish
  <2> DEFINE v == MySlot(u)
  <2>5. v \in 0 .. Slots - 1 /\ slots[v].loop_id = Unused
    BY <1>0, <2>3
  <2> HIDE DEF v
  <2>6. slots'[v].now_serving = slots[v].now_serving
    BY <2>4, <2>5, UnusedServes DEF Serves
  <2> QED BY <1>2, <2>1, <2>2, <2>6 DEF v
<1> QED BY <1>3, <1>4

LEMMA OthersStep ==
    ASSUME Types, RingRight, RangesRight, OnceRight, OrderRight, NEW t \in Active, Step(t), pc'[t] # "abort",
           NEW R, HandStep(t, R), NEW u \in Active, u # t
    PROVE  TurnRight(u)' /\ FreshRight(u)'
<1>0. t \in Threads /\ u \in Threads /\ TurnRight(t) /\ TurnRight(u) /\ N > 1 /\ N # 1
  BY ThreadFacts, TeamOfMore DEF OrderRight
<1>1. FreshRight(u)'
  <2>1. N' = N
    BY StepRegion, RegionFrame
  <2> QED BY <1>0, <2>1 DEF FreshRight
<1>2. CASE Ordered(t)
  BY <1>0, <1>1, <1>2, OrderedOthers
<1>3. CASE EndOrdered(t) /\ loop[u] = loop[t] /\ pc[u] \in Ranging
  <2>1. pc[t] \in Working
    BY <1>3 DEF EndOrdered, Working
  <2>2. loop[t] \in 0 .. Slots - 1 /\ slots[loop[t]].number = at[t] /\ slots[loop[t]].loop_id # Unused
    BY <2>1, MyDescriptor DEF OnceRight
  <2>3. NowRight(loop[t])
    BY <2>2 DEF OrderRight
  <2>4. Aligned(at[t], slots[loop[t]].now_serving)
    BY <1>0, <2>2, <2>3 DEF NowRight
  <2> QED BY <1>0, <1>1, <1>3, <2>4, EndOthers
<1>4. CASE pc[u] \notin Ranging
  <2>1. pc'[u] = pc[u]
    BY <1>0, OthersPlace DEF Same
  <2> QED BY <1>1, <1>4, <2>1 DEF TurnRight
<1>5. CASE ~Ordered(t) /\ ~(EndOrdered(t) /\ loop[u] = loop[t])
  <2>1. served' = served
    BY <1>5, ServedEffect
  <2> QED BY <1>0, <1>1, <1>5, <2>1, OthersTurn
<1> QED BY <1>2, <1>3, <1>4, <1>5

LEMMA SeqFrame ==
    ASSUME UNCHANGED region, NEW k
    PROVE  SeqRight(served[k], k)' <=> SeqRight(served'[k], k)
<1>1. Descriptor(k)' = Descriptor(k) /\ program' = program /\ \A x : IsIteration(k, x)' = IsIteration(k, x)
  BY DescriptorFrame, RegionFrame
<1>2. \A x : ToServe(k, x)' <=> ToServe(k, x)
  BY <1>1 DEF ToServe
<1> QED BY <1>1, <1>2 DEF SeqRight

LEMMA OrderStep ==
    ASSUME Types, RingRight, RangesRight, OnceRight, OrderRight, Types', RangesRight', OnceRight',
           NEW t \in Active, Step(t), pc'[t] # "abort"
    PROVE  OrderRight'
<1>0. t \in Threads /\ at[t] \in 1 .. Len(program) /\ N \in Nat \ {0}
  BY ThreadFacts, RegionFacts DEF Types
<1>1. PICK R : HandStep(t, R)
  BY StepHand
<1>2. Active' = Active /\ Len(program)' = Len(program) /\ N' = N /\ UNCHANGED region
  BY StepRegion, RegionFrame
<1>3. /\ served \in [1 .. Len(program) -> Seq(Int)]
      /\ served' = served \/ (Ordered(t) /\ served' = [served EXCEPT ![at[t]] = Append(@, index[t])])
  BY ServedEffect DEF OrderRight
<1>4. (served \in [1 .. Len(program) -> Seq(Int)])'
  <2>1. index[t] \in Int /\ served[at[t]] \in Seq(Int)
    BY <1>0, <1>3 DEF Types
  <2>2. Append(served[at[t]], index[t]) \in Seq(Int)
    BY <2>1
  <2> QED BY <1>2, <1>3, <2>2
<1>5. \A u \in Active : pc'[u] = "publish" => (slots[MySlot(u)].now_serving = Descriptor(at[u]).lower)'
  BY ServingStep
<1>6. ASSUME NEW u \in Active PROVE TurnRight(u)' /\ FreshRight(u)'
  <2>1. CASE u = t
    <3>1. TurnRight(t)'
      BY <1>0, MyTurn
    <3>2. FreshRight(t)'
      <4>1. CASE N = 1
        BY <1>0, <4>1, FreshStep
      <4>2. CASE N # 1
        BY <1>2, <4>2 DEF FreshRight
      <4> QED BY <4>1, <4>2
    <3> QED BY <2>1, <3>1, <3>2
  <2>2. CASE u # t
    BY <1>1, <2>2, OthersStep
  <2> QED BY <2>1, <2>2
<1>7. \A s \in 0 .. Slots - 1 : NowRight(s)'
  BY <1>1, NowStep
<1>8. ASSUME NEW k \in 1 .. Len(program) PROVE SeqRight(served[k], k)'
  <2>1. SeqRight(served[k], k)
    BY DEF OrderRight
  <2>2. CASE served'[k] = served[k]
    BY <1>2, <2>1, <2>2, SeqFrame
  <2>3. CASE Ordered(t) /\ k = at[t]
    <3> DEFINE i == index[t]
               seq == served[k]
    <3>1. served'[k] = Append(seq, i) /\ seq \in Seq(Int) /\ i \in Int
      BY <1>3, <2>3, OrderedEffect
    <3>2. ServedBelow(seq, k, i)
      BY <2>3, OrderedTurn, Zenon
    <3>3. SeqRight(Append(seq, i), k)
      <4> HIDE DEF i, seq
      <4>1. SeqRight(seq, k)
        BY <2>1 DEF seq
      <4> QED BY <3>1, <3>2, <4>1, SeqAppend
    <3> QED BY <1>2, <3>1, <3>3, SeqFrame
  <2> QED BY <1>0, <1>3, <2>2, <2>3
<1>9. ASSUME NEW k \in 1 .. Len(program), served'[k] # <<>>
      PROVE  \E u \in Active : k <= Entered(u)'
  <2>1. CASE served[k] # <<>>
    <3>1. PICK u \in Active : k <= Entered(u)
      BY <2>1 DEF OrderRight
    <3>2. Entered(u) \in Nat /\ Entered(u)' \in Int /\ Entered(u) <= Entered(u)'
      BY EnteredGrows
    <3>3. k <= Entered(u)'
      BY <3>1, <3>2
    <3> QED BY <3>3
  <2>2. CASE Ordered(t) /\ k = at[t]
    <3>1. pc'[t] = "inside" /\ at' = at
      BY <2>2, OrderedEffect
    <3>2. Entered(t)' = k
      BY <2>2, <3>1 DEF Entered, Entering
    <3> QED BY <3>2
  <2>3. CASE served[k] = <<>> /\ ~(Ordered(t) /\ k = at[t])
    BY <1>0, <1>3, <1>9, <2>3
  <2> QED BY <2>1, <2>2, <2>3
<1> QED BY <1>2, <1>4, <1>5, <1>6, <1>7, <1>8, <1>9 DEF OrderRight

LEMMA OrderInit == ASSUME Init PROVE OrderRight
<1>1. Types /\ region \in Regions
  BY TypesInit DEF Init
<1>2. /\ Len(program) \in Nat /\ DOMAIN program = 1 .. Len(program)
      /\ Active \subseteq Threads /\ N \in Nat
  BY <1>1, RegionFacts
<1>3. /\ served = [k \in 1 .. Len(program) |-> <<>>]
      /\ \A t \in Active : pc[t] = "begin"
      /\ \A s \in 0 .. Slots - 1 : slots[s].loop_id = Unused
  BY <1>2 DEF Init, FreeSlot, Active
<1>4. served \in [1 .. Len(program) -> Seq(Int)]
  BY <1>3
<1>5. \A t \in Active : TurnRight(t) /\ FreshRight(t)
  BY <1>3 DEF TurnRight, FreshRight, Ranging, Entering
<1>6. \A s \in 0 .. Slots - 1 : NowRight(s)
  BY <1>3 DEF NowRight
<1>7. \A k \in 1 .. Len(program) : SeqRight(served[k], k)
  <2>1. \A k \in 1 .. Len(program) : Len(served[k]) = 0
    BY <1>3
  <2> QED BY <2>1 DEF SeqRight
<1> QED BY <1>3, <1>4, <1>5, <1>6, <1>7 DEF OrderRight

LEMMA OrderNewRegion == ASSUME Types, RingRight, NewRegion PROVE OrderRight'
<1>1. region' = region /\ slots' = slots
  BY DEF NewRegion
<1>2. /\ Len(program) \in Nat /\ DOMAIN program = 1 .. Len(program)
      /\ Active \subseteq Threads /\ N \in Nat
  BY RegionFacts DEF Types
<1>3. Active' = Active /\ Len(program)' = Len(program) /\ program' = program
  BY <1>1, RegionFrame
<1>4. /\ served' = [k \in 1 .. Len(program) |-> <<>>]
      /\ \A t \in Active : pc'[t] = "begin"
      /\ \A s \in 0 .. Slots - 1 : slots'[s].loop_id = Unused
  <2>1. \A s \in 0 .. Slots - 1 : slots[s].loop_id = Unused
    BY SlotsFree DEF NewRegion
  <2>2. \A t \in Active : pc'[t] = "begin"
    BY <1>2 DEF NewRegion, Active
  <2>3. served' = [k \in 1 .. Len(program) |-> <<>>]
    BY <1>2 DEF NewRegion
  <2> QED BY <1>1, <2>1, <2>2, <2>3
<1>5. (served \in [1 .. Len(program) -> Seq(Int)])'
  BY <1>3, <1>4
<1>6. \A t \in Active : TurnRight(t)' /\ FreshRight(t)'
  BY <1>4 DEF TurnRight, FreshRight, Ranging, Entering
<1>7. \A s \in 0 .. Slots - 1 : NowRight(s)'
  BY <1>4 DEF NowRight
<1>8. \A k \in 1 .. Len(program) : SeqRight(served[k], k)'
  <2>1. \A k \in 1 .. Len(program) : Len(served'[k]) = 0
    BY <1>4
  <2> QED BY <2>1 DEF SeqRight
<1> QED BY <1>3, <1>4, <1>5, <1>6, <1>7, <1>8 DEF OrderRight

LEMMA OrderStutter == ASSUME OrderRight, UNCHANGED vars PROVE OrderRight'
<1>1. /\ region' = region /\ slots' = slots /\ pc' = pc /\ at' = at /\ loop_count' = loop_count
      /\ loop' = loop /\ iteration' = iteration /\ range' = range /\ index' = index
      /\ ticket_number' = ticket_number /\ ran' = ran /\ served' = served
  BY DEF vars, shared, locals, history
<1>2. Active' = Active /\ Len(program)' = Len(program) /\ N' = N
  BY <1>1, RegionFrame
<1>3. \A t : MySlot(t)' = MySlot(t)
  BY <1>1 DEF MySlot, LoopIndex, Pred, Orphan
<1>4. \A t : Descriptor(at[t])' = Descriptor(at[t])
  BY <1>1 DEF Descriptor, program
<1>5. \A t : From(t)' = From(t)
  BY <1>1 DEF From
<1>6. ASSUME NEW t, TurnRight(t), NEW k, k = at[t] PROVE TurnRight(t)'
  <2>1. pc[t] \in Ranging =>
          Turn(k, t, pc[t] = "inside", range[t], From(t), ticket_number[t],
               slots[loop[t]].now_serving, ran[k], served[k])
    BY <1>6 DEF TurnRight
  <2> QED BY <1>1, <1>5, <1>6, <2>1, TurnNext
<1>7. \A t : FreshRight(t)' = FreshRight(t)
  BY <1>1, <1>2 DEF FreshRight
<1>8. ASSUME NEW s, NowRight(s), NEW k, k = slots[s].number PROVE NowRight(s)'
  BY <1>1, <1>8, NowNext DEF NowRight
<1>9. \A k : SeqRight(served[k], k)' <=> SeqRight(served[k], k)
  BY <1>1, SeqFrame
<1>10. \A t : Entered(t)' = Entered(t)
  BY <1>1 DEF Entered
<1>11. \A t \in Active : TurnRight(t)' /\ FreshRight(t)'
  BY <1>6, <1>7 DEF OrderRight
<1>12. \A s \in 0 .. Slots - 1 : NowRight(s)'
  BY <1>8 DEF OrderRight
<1>13. \A t \in Active : pc'[t] = "publish" => (slots[MySlot(t)].now_serving = Descriptor(at[t]).lower)'
  BY <1>1, <1>3, <1>4 DEF OrderRight
<1> QED BY <1>1, <1>2, <1>9, <1>10, <1>11, <1>12, <1>13 DEF OrderRight

LEMMA OrderImplies == ASSUME LoopInv, OrderRight PROVE OrderedInOrder
<1>0. DOMAIN program = 1 .. Len(program) /\ Len(program) \in Nat /\ region \in Regions
  BY RegionFacts DEF LoopInv, Types
<1>1. ASSUME NEW k \in 1 .. Len(program), NEW j \in DOMAIN served[k]
      PROVE  {served[k][h] : h \in 1 .. j - 1} =
               {x \in AllIterations(k) \ program[k].skip :
                  x # served[k][j] /\ Within(program[k].inc, x, served[k][j])}
  <2> DEFINE q == served[k]
             i == q[j]
             inc == Descriptor(k).inc
  <2>1. q \in Seq(Int) /\ SeqRight(q, k)
    BY DEF OrderRight
  <2>2. j \in 1 .. Len(q) /\ i \in Int /\ Len(q) \in Nat
    BY <2>1
  <2>3. \A h \in 1 .. j - 1 : q[h] \in Int
    <3> SUFFICES ASSUME NEW h \in 1 .. j - 1 PROVE q[h] \in Int
      OBVIOUS
    <3>1. h \in 1 .. Len(q)
      BY <2>2
    <3> QED BY <2>1, <3>1
  <2>4. \A x \in Int : (\E h \in 1 .. j - 1 : q[h] = x) <=> ToServe(k, x) /\ Before(inc, x, i)
    BY <2>1, <2>2 DEF SeqRight
  <2>5. inc \in Int \ {0} /\ program[k].inc = inc /\ Descriptor(k).lower \in Int
    BY <1>0, DescriptorFacts
  <2>6. \A x : x \in AllIterations(k) <=> IsIteration(k, x)
    BY <1>0, AllAre
  <2>7. \A x \in AllIterations(k) : x \in Int
    BY <2>5, <2>6, OnFacts DEF IsIteration, Aligned
  <2>8. \A x \in Int : Before(inc, x, i) <=> x # i /\ Within(inc, x, i)
    <3> HIDE DEF inc, i
    <3> QED BY <2>2, <2>5 DEF Before, Within
  <2> HIDE DEF q, i, inc
  <2>9. \A x : (\E h \in 1 .. j - 1 : q[h] = x) <=>
                 x \in AllIterations(k) \ program[k].skip /\ x # i /\ Within(inc, x, i)
    BY <2>3, <2>4, <2>6, <2>7, <2>8 DEF ToServe
  <2>10. {q[h] : h \in 1 .. j - 1} =
           {x \in AllIterations(k) \ program[k].skip : x # i /\ Within(inc, x, i)}
    BY <2>9
  <2> QED BY <2>5, <2>10 DEF q, i
<1>2. OrderedAlone
  BY LoopInvAlone
<1> QED BY <1>0, <1>1, <1>2 DEF OrderedInOrder, OrderedAlone

\* The ordered regions of a loop are run one at a time and in the order of the
\* iterations, whichever threads run them and whichever iterations skip their
\* ordered region: __ompc_ordered lets a thread in only after the ordered
\* regions of all earlier iterations.
THEOREM OrderedInOrderTheorem == Spec => []OrderedInOrder
<1> DEFINE Inv == LoopInv /\ OnceRight /\ OrderRight
<1>1. Init => Inv
  BY LoopInvInit, OnceInit, OrderInit
<1>2. Inv /\ [Next]_vars => Inv'
  <2> SUFFICES ASSUME LoopInv, OnceRight, OrderRight, [Next]_vars
               PROVE  LoopInv' /\ OnceRight' /\ OrderRight'
    OBVIOUS
  <2>1. LoopInv' /\ OnceRight'
    BY LoopInvStep, OnceKept
  <2>2. OrderRight'
    <3>1. CASE UNCHANGED vars
      BY <3>1, OrderStutter
    <3>2. CASE NewRegion
      BY <3>2, OrderNewRegion DEF LoopInv
    <3>3. ASSUME NEW t \in Threads, Step(t) PROVE OrderRight'
      <4>1. t \in Active
        BY <3>3, OnlyActive DEF LoopInv
      <4>2. pc'[t] # "abort"
        BY <2>1 DEF LoopInv, AssertionsHold
      <4> QED BY <2>1, <3>3, <4>1, <4>2, OrderStep DEF LoopInv
    <3> QED BY <3>1, <3>2, <3>3 DEF Next
  <2> QED BY <2>1, <2>2
<1>3. Inv => OrderedInOrder
  BY OrderImplies
<1> QED BY <1>1, <1>2, <1>3, PTL DEF Spec
=============================================================================
