------------------------------ MODULE LoopRing ------------------------------
(***************************************************************************)
(* The loops that a team schedules at run time: libopenmp/loop.c, the      *)
(* functions __pmp_scheduler_init, __pmp_schedule_next, __ompc_ordered and *)
(* __ompc_end_ordered of libopenmp/schedule.c, and the code that           *)
(* Transform_Do in be/com/wn_mp.cxx puts around the loop.                  *)
(*                                                                         *)
(* The threads of the team run the same sequence of loops.  No barrier     *)
(* separates them (NOWAIT: a barrier would only remove behaviours), so a   *)
(* thread can be several loops ahead of another one.  The descriptors of   *)
(* the loops in progress are in a ring of slots in the team.  A thread     *)
(* finds its slot by counting the loops it has met; the first thread of    *)
(* the team to count a loop fills the slot, the last one to leave frees it.*)
(***************************************************************************)
EXTENDS Schedule, Sequences

CONSTANTS MaxTeam,      \* bound: the size of the largest team
          Slots,        \* PMP_MAX_LOOPS
          CountRange,   \* the counters are 32 bits wide: 2 ^ 32
          Regions,      \* the regions to run: records with the fields
                        \*   team_size,
                        \*   orphan: the one thread is in no team, team == NULL,
                        \*   start: how many loops it has been through before,
                        \*   static_fair: the parameter,
                        \*   program: a sequence of loops, records with the
                        \*   fields sched, ordered, lower, upper, inc, chunk and
                        \*   skip: the iterations that do not come to their
                        \*   ordered region
          guided_chunk_divisor, guided_chunk_max,
          runtime_schedule, runtime_chunk     \* OMP_SCHEDULE

Threads == 0 .. MaxTeam - 1   \* local ids
Unused == -1            \* PMP_LOOP_UNUSED
NoLoop == -1            \* thread->loop == NULL

\* A loop of a program.
LoopRecord ==
    [sched : Schedules \cup {"RUNTIME"}, ordered : BOOLEAN, lower : Int, upper : Int,
     inc : Int \ {0}, chunk : Nat \ {0}, skip : SUBSET Int]

ASSUME LoopRingAssumption ==
    /\ MaxTeam \in Nat \ {0}
    /\ Slots \in Nat \ {0}
    /\ CountRange \in Nat
    /\ CountRange % (2 * Slots) = 0 /\ CountRange > 2 * Slots
    /\ {guided_chunk_divisor, guided_chunk_max} \subseteq Nat \ {0}
    /\ runtime_schedule \in Schedules /\ runtime_chunk \in Nat \ {0}
    /\ \A r \in Regions :
        /\ r.team_size \in 1 .. MaxTeam
        /\ r.orphan \in BOOLEAN /\ (r.orphan => r.team_size = 1)
        /\ r.start \in 0 .. CountRange - 1
        /\ r.static_fair \in BOOLEAN
        /\ r.program \in Seq(LoopRecord) /\ r.program # <<>>

VARIABLES region,          \* one of Regions
          team_count,      \* team->loop_count
          slots,           \* team->loops
          pc,
          at,              \* the loop of the program the thread is in
          loop_count,      \* thread->loop_count
          loop,            \* thread->loop: a slot or NoLoop
          iteration,       \* thread->iteration
          ticket_number,   \* thread->ticket_number
          range,           \* local_lower and local_upper of the lowered loop
          index,           \* the DO variable
          guess,           \* chunk and stride in __pmp_schedule_next, guided
          ran,             \* history: who ran which iteration of each loop
          twice,           \* history: an iteration has been run again
          served,          \* history: the ordered regions of each loop
          last             \* the <<loop, thread>> with last_iter = 1

shared == <<team_count, slots>>
locals == <<at, loop_count, loop, iteration, ticket_number, range, index, guess>>
history == <<ran, twice, served, last>>
vars == <<region, shared, pc, locals, history>>

N == region.team_size
Orphan == region.orphan
program == region.program

param == [guided_chunk_divisor |-> guided_chunk_divisor,
          guided_chunk_max |-> guided_chunk_max]

\* The counters wrap around; PMP_MASK_LOOP_ID and PMP_MASK_LOOP_INDEX.
Succ(count) == (count + 1) % CountRange
Pred(count) == (count + CountRange - 1) % CountRange
LoopId(count) == count % (CountRange \div 2)
LoopIndex(count) == IF Orphan THEN 0 ELSE count % Slots

EmptyRange == [lower |-> 0, upper |-> -1]
NoGuess == [chunk |-> 0, stride |-> 0]

\* A slot nobody has filled yet; number is history: the loop it is used for.
FreeSlot ==
    [loop_id |-> Unused, looping_threads |-> 0, now_serving |-> 0,
     sched |-> "STATIC", ordered |-> FALSE, lower |-> 0, upper |-> 0, inc |-> 1,
     chunk |-> 1, current |-> 0, min_chunk |-> 1, number |-> 0]

Init ==
    /\ region \in Regions
    /\ team_count = region.start
    /\ pc = [t \in Threads |-> IF t < N THEN "begin" ELSE "absent"]
    /\ at = [t \in Threads |-> 1]
    /\ loop_count = [t \in Threads |-> team_count]
    /\ slots = [s \in 0 .. Slots - 1 |-> FreeSlot]
    /\ loop = [t \in Threads |-> NoLoop]
    /\ iteration = [t \in Threads |-> 0]
    /\ ticket_number = [t \in Threads |-> 0]
    /\ range = [t \in Threads |-> EmptyRange]
    /\ index = [t \in Threads |-> 0]
    /\ guess = [t \in Threads |-> NoGuess]
    /\ ran = [k \in DOMAIN program |-> {}]
    /\ twice = FALSE
    /\ served = [k \in DOMAIN program |-> <<>>]
    /\ last = {}

Goto(t, label) == pc' = [pc EXCEPT ![t] = label]
-----------------------------------------------------------------------------
(***************************************************************************)
(* __pmp_scheduler_init and __pmp_loop_alloc                               *)
(***************************************************************************)
\* The DO variable starts at the lower bound (wn_mp.cxx).  The thread counts
\* the loop and learns whether it is the first of the team to do so.
Alloc(t) ==
    LET count == loop_count[t]
        first == Orphan \/ team_count = count
    IN
    /\ pc[t] = "begin"
    /\ index' = [index EXCEPT ![t] = program[at[t]].lower]
    /\ IF loop[t] # NoLoop
         THEN Goto(t, "abort") /\ UNCHANGED <<team_count, loop_count>>
         ELSE /\ team_count' = IF first /\ ~Orphan THEN Succ(count) ELSE team_count
              /\ loop_count' = [loop_count EXCEPT ![t] = Succ(count)]
              /\ Goto(t, IF ~first THEN "attach"
                         ELSE IF slots[LoopIndex(count)].loop_id = LoopId(count)
                                THEN "abort" ELSE "fill")
    /\ UNCHANGED <<region, slots, at, loop, iteration, ticket_number, range,
                   guess, history>>

\* The slot that the thread has counted.
MySlot(t) == LoopIndex(Pred(loop_count[t]))
MyId(t) == LoopId(Pred(loop_count[t]))

\* The schedule and the chunk of a loop, OMP_SCHEDULE included.
Resolve(l) ==
    IF l.sched = "RUNTIME" THEN [l EXCEPT !.sched = runtime_schedule, !.chunk = runtime_chunk]
                           ELSE l

\* The descriptor.  The minimum of a guided chunk is what the program says,
\* and not what OMP_SCHEDULE says.
FillSlot(t, s) ==
    LET l == Resolve(program[at[t]])
        min_chunk == MaxOf(1, program[at[t]].chunk)
    IN slots' = [slots EXCEPT ![s] =
         [loop_id |-> slots[s].loop_id, looping_threads |-> N,
          now_serving |-> l.lower, sched |-> l.sched, ordered |-> l.ordered,
          lower |-> l.lower, upper |-> l.upper, inc |-> l.inc,
          chunk |-> IF l.sched = "GUIDED" THEN GuidedFirst(l, min_chunk, N, param) ELSE l.chunk,
          current |-> l.lower, min_chunk |-> min_chunk, number |-> at[t]]]

\* The first thread waits until the slot is free, and writes it ...
Fill(t) ==
    /\ pc[t] = "fill"
    /\ slots[MySlot(t)].loop_id = Unused
    /\ FillSlot(t, MySlot(t))
    /\ Goto(t, "publish")
    /\ UNCHANGED <<region, team_count, locals, history>>

Enter(t) ==
    /\ loop' = [loop EXCEPT ![t] = MySlot(t)]
    /\ iteration' = [iteration EXCEPT ![t] = 0]

\* ... and then stores its id, which lets the others in.
Publish(t) ==
    LET s == MySlot(t)
    IN
    /\ pc[t] = "publish"
    /\ IF slots[s].loop_id = Unused
         THEN /\ slots' = [slots EXCEPT ![s].loop_id = MyId(t)]
              /\ Enter(t)
              /\ Goto(t, "next")
         ELSE Goto(t, "abort") /\ UNCHANGED <<slots, loop, iteration>>
    /\ UNCHANGED <<region, team_count, at, loop_count, ticket_number, range, index,
                   guess, history>>

\* Mutant: any loop in the slot will do.
AttachAny(t) ==
    /\ pc[t] = "attach"
    /\ slots[MySlot(t)].loop_id # Unused
    /\ Enter(t)
    /\ Goto(t, "next")
    /\ UNCHANGED <<region, shared, at, loop_count, ticket_number, range, index,
                   guess, history>>

\* The other threads wait for that id.
Attach(t) ==
    /\ pc[t] = "attach"
    /\ slots[MySlot(t)].loop_id = MyId(t)
    /\ Enter(t)
    /\ Goto(t, "next")
    /\ UNCHANGED <<region, shared, at, loop_count, ticket_number, range, index,
                   guess, history>>
-----------------------------------------------------------------------------
(***************************************************************************)
(* __pmp_schedule_next                                                     *)
(***************************************************************************)
\* The range is handed to the thread, or the thread leaves the loop.
Hand(t, reply) ==
    IF reply.more
      THEN /\ range' = [range EXCEPT ![t] = [lower |-> reply.lower, upper |-> reply.upper]]
           /\ ticket_number' = [ticket_number EXCEPT ![t] = reply.lower]
           /\ iteration' = [iteration EXCEPT ![t] = @ + 1]
           /\ Goto(t, "body")
      ELSE Goto(t, "free") /\ UNCHANGED <<range, ticket_number, iteration>>

\* A team of one runs the whole loop; a static schedule follows from the id
\* of the thread and from how often it has asked.
NextFixed(t) ==
    LET l == slots[loop[t]]
    IN
    /\ pc[t] = "next"
    /\ \/ N = 1 /\ Hand(t, Reply(iteration[t] = 0, l.lower, l.upper))
       \/ /\ N > 1 /\ l.sched = "STATIC"
          /\ Hand(t, NextStatic(l, N, t, iteration[t]))
       \/ /\ N > 1 /\ l.sched = "STATIC_EVEN"
          /\ Hand(t, NextStaticEven(l, region.static_fair, N, t, iteration[t]))
    /\ UNCHANGED <<region, shared, at, loop_count, loop, index, guess, history>>

\* Mutant: the test for the end of the loop is off by one step.
ChunkAtBeyond(l, current, stride) ==
    Reply(Within(l.inc, current - l.inc, l.upper), current,
          LoopMin(l.inc, l.upper, current + stride - l.inc))

\* The range of stride / inc iterations at current.
ChunkAt(l, current, stride) ==
    Reply(Within(l.inc, current, l.upper), current,
          LoopMin(l.inc, l.upper, current + stride - l.inc))

\* Mutant: the addition is not atomic; another thread has read the same value.
NextDynamicRacy(t) ==
    LET s == loop[t]
        l == slots[s]
    IN
    /\ pc[t] = "next"
    /\ N > 1 /\ l.sched = "DYNAMIC"
    /\ \E current \in {l.current, MaxOf(l.lower, l.current - l.inc * l.chunk)} :
        /\ slots' = [slots EXCEPT ![s].current = current + l.inc * l.chunk]
        /\ Hand(t, ChunkAt(l, current, l.inc * l.chunk))
    /\ UNCHANGED <<region, team_count, at, loop_count, loop, index, guess, history>>

NextDynamic(t) ==
    LET s == loop[t]
        l == slots[s]
    IN
    /\ pc[t] = "next"
    /\ N > 1 /\ l.sched = "DYNAMIC"
    /\ slots' = [slots EXCEPT ![s].current = @ + l.inc * l.chunk]
    /\ Hand(t, ChunkAt(l, l.current, l.inc * l.chunk))
    /\ UNCHANGED <<region, team_count, at, loop_count, loop, index, guess, history>>

\* Guided: read the chunk; read how much remains and estimate a stride; take
\* that many iterations; shrink the chunk, unless somebody else has.
GuidedRead(t) ==
    LET l == slots[loop[t]]
    IN
    /\ pc[t] = "next"
    /\ N > 1 /\ l.sched = "GUIDED"
    /\ guess' = [guess EXCEPT ![t].chunk = l.chunk]
    /\ Goto(t, "estimate")
    /\ UNCHANGED <<region, shared, at, loop_count, loop, iteration, ticket_number,
                   range, index, history>>

GuidedEstimate(t) ==
    LET l == slots[loop[t]]
        remaining == l.upper - l.current + 1
        my_chunk == MaxOf(l.min_chunk, MinOf(guess[t].chunk, remaining))
    IN
    /\ pc[t] = "estimate"
    /\ guess' = [guess EXCEPT ![t].stride = l.inc * my_chunk]
    /\ Goto(t, "take")
    /\ UNCHANGED <<region, shared, at, loop_count, loop, iteration, ticket_number,
                   range, index, history>>

\* Hand, but the thread has the chunk to adjust before it returns.
GuidedTake(t) ==
    LET s == loop[t]
        reply == ChunkAt(slots[s], slots[s].current, guess[t].stride)
    IN
    /\ pc[t] = "take"
    /\ slots' = [slots EXCEPT ![s].current = @ + guess[t].stride]
    /\ IF reply.more
         THEN /\ range' = [range EXCEPT ![t] = [lower |-> reply.lower, upper |-> reply.upper]]
              /\ Goto(t, "adjust")
         ELSE Goto(t, "free") /\ UNCHANGED range
    /\ UNCHANGED <<region, team_count, at, loop_count, loop, iteration, ticket_number,
                   index, guess, history>>

GuidedAdjust(t) ==
    LET s == loop[t]
        l == slots[s]
        new_chunk == GuidedNext(l.upper, range[t].upper, l.min_chunk, N, param)
    IN
    /\ pc[t] = "adjust"
    /\ slots' = IF l.chunk = guess[t].chunk
                  THEN [slots EXCEPT ![s].chunk = new_chunk]
                  ELSE slots
    /\ Hand(t, Reply(TRUE, range[t].lower, range[t].upper))
    /\ UNCHANGED <<region, team_count, at, loop_count, loop, index, guess, history>>
-----------------------------------------------------------------------------
(***************************************************************************)
(* The body: the DO loop over the range                                    *)
(***************************************************************************)
Run(t, iterations) ==
    /\ ran' = [ran EXCEPT ![at[t]] = @ \cup {<<t, i>> : i \in iterations}]
    /\ twice' = (twice \/ \E r \in ran[at[t]] : r[2] \in iterations)

\* Without ordered regions the whole range is one step.
Body(t) ==
    LET l == program[at[t]]
        to == LoopMin(l.inc, range[t].upper, l.upper)
    IN
    /\ pc[t] = "body"
    /\ ~l.ordered
    /\ Run(t, Iterations(range[t].lower, to, l.inc))
    /\ index' = [index EXCEPT ![t] = Final(range[t].lower, to, l.inc)]
    /\ Goto(t, "next")
    /\ UNCHANGED <<region, shared, at, loop_count, loop, iteration, ticket_number,
                   range, guess, served, last>>

\* With ordered regions every iteration is a step of its own.
OrderedBegin(t) ==
    /\ pc[t] = "body"
    /\ program[at[t]].ordered
    /\ index' = [index EXCEPT ![t] = range[t].lower]
    /\ Goto(t, "iterate")
    /\ UNCHANGED <<region, shared, at, loop_count, loop, iteration, ticket_number,
                   range, guess, history>>

\* Mutant: it looks at the turn and does not wait for it.
OrderedNoWait(t) ==
    /\ pc[t] = "iterate"
    /\ Within(slots[loop[t]].inc, index[t], range[t].upper)
    /\ index[t] \notin program[at[t]].skip
    /\ served' = [served EXCEPT ![at[t]] = Append(@, index[t])]
    /\ Goto(t, "inside")
    /\ UNCHANGED <<region, shared, locals, ran, twice, last>>

\* __ompc_ordered waits for the turn of the iteration.
Ordered(t) ==
    LET l == slots[loop[t]]
    IN
    /\ pc[t] = "iterate"
    /\ Within(l.inc, index[t], range[t].upper)
    /\ index[t] \notin program[at[t]].skip
    /\ N > 1 => l.now_serving = ticket_number[t]
    /\ served' = [served EXCEPT ![at[t]] = Append(@, index[t])]
    /\ Goto(t, "inside")
    /\ UNCHANGED <<region, shared, locals, ran, twice, last>>

\* __ompc_end_ordered passes the turn on, and takes the next ticket.
EndOrdered(t) ==
    LET s == loop[t]
    IN
    /\ pc[t] = "inside"
    /\ Run(t, {index[t]})
    /\ IF N > 1 /\ slots[s].now_serving # ticket_number[t]
         THEN Goto(t, "abort") /\ UNCHANGED <<slots, ticket_number, index>>
         ELSE /\ IF N > 1
                   THEN /\ slots' = [slots EXCEPT ![s].now_serving = @ + slots[s].inc]
                        /\ ticket_number' = [ticket_number EXCEPT ![t] = @ + slots[s].inc]
                   ELSE UNCHANGED <<slots, ticket_number>>
              /\ index' = [index EXCEPT ![t] = @ + slots[s].inc]
              /\ Goto(t, "iterate")
    /\ UNCHANGED <<region, team_count, at, loop_count, loop, iteration, range, guess,
                   served, last>>

\* An iteration that does not execute its ordered region passes no turn on,
\* and the ticket of the thread stays behind.
SkipOrdered(t) ==
    /\ pc[t] = "iterate"
    /\ Within(slots[loop[t]].inc, index[t], range[t].upper)
    /\ index[t] \in program[at[t]].skip
    /\ Run(t, {index[t]})
    /\ index' = [index EXCEPT ![t] = @ + slots[loop[t]].inc]
    /\ UNCHANGED <<region, shared, pc, at, loop_count, loop, iteration, ticket_number,
                   range, guess, served, last>>

OrderedEnd(t) ==
    /\ pc[t] = "iterate"
    /\ ~Within(slots[loop[t]].inc, index[t], range[t].upper)
    /\ Goto(t, "next")
    /\ UNCHANGED <<region, shared, locals, history>>
-----------------------------------------------------------------------------
(***************************************************************************)
(* __pmp_loop_free, and the end of the lowered loop                        *)
(***************************************************************************)
Leave(t) == loop' = [loop EXCEPT ![t] = NoLoop]

\* The thread leaves the slot; the one that finds final there has to free it.
FreeWhen(t, final) ==
    LET s == loop[t]
        count == slots[s].looping_threads
    IN
    /\ pc[t] = "free"
    /\ IF slots[s].loop_id # MyId(t)
         THEN Goto(t, "abort") /\ UNCHANGED <<slots, loop>>
         ELSE /\ slots' = [slots EXCEPT ![s].looping_threads = count - 1]
              /\ IF count < 1 THEN Goto(t, "abort") /\ UNCHANGED loop
                 ELSE IF count = final THEN Goto(t, "unuse") /\ UNCHANGED loop
                 ELSE Goto(t, "after") /\ Leave(t)
    /\ UNCHANGED <<region, team_count, at, loop_count, iteration, ticket_number,
                   range, index, guess, history>>

\* Mutant: the first thread to leave frees the slot.
FreeCountFirst(t) == FreeWhen(t, N)

FreeCount(t) == FreeWhen(t, 1)

\* Mutant: the slot of the loop is never freed.
FreeLastKeep(t) ==
    /\ pc[t] = "unuse"
    /\ Leave(t)
    /\ Goto(t, "after")
    /\ UNCHANGED <<region, shared, at, loop_count, iteration, ticket_number,
                   range, index, guess, history>>

FreeLast(t) ==
    /\ pc[t] = "unuse"
    /\ slots' = [slots EXCEPT ![loop[t]].loop_id = Unused]
    /\ Leave(t)
    /\ Goto(t, "after")
    /\ UNCHANGED <<region, team_count, at, loop_count, iteration, ticket_number,
                   range, index, guess, history>>

\* The local variables of the lowered loop are dead.
Forget(t) ==
    /\ range' = [range EXCEPT ![t] = EmptyRange]
    /\ index' = [index EXCEPT ![t] = 0]
    /\ guess' = [guess EXCEPT ![t] = NoGuess]

\* LASTPRIVATE looks whether the DO variable is beyond the limit.
EndLoop(t) ==
    LET l == program[at[t]]
    IN
    /\ pc[t] = "after"
    /\ last' = IF Within(l.inc, index[t], l.upper) THEN last ELSE last \cup {<<at[t], t>>}
    /\ Goto(t, IF at[t] = Len(program) THEN "done" ELSE "begin")
    /\ at' = [at EXCEPT ![t] = IF @ = Len(program) THEN @ ELSE @ + 1]
    /\ Forget(t)
    /\ UNCHANGED <<region, shared, loop_count, loop, iteration, ticket_number,
                   ran, twice, served>>

\* The region ends and the next one starts with new counts
\* (__pmp_thread_idle, __pmp_thread_fork, __pmp_team_alloc).
NewRegion ==
    /\ \A t \in Threads : pc[t] \in {"done", "absent"}
    /\ pc' = [t \in Threads |-> IF t < N THEN "begin" ELSE "absent"]
    /\ at' = [t \in Threads |-> 1]
    /\ IF Orphan THEN UNCHANGED <<team_count, loop_count>>
                 ELSE team_count' = 0 /\ loop_count' = [t \in Threads |-> 0]
    /\ ran' = [k \in DOMAIN program |-> {}]
    /\ served' = [k \in DOMAIN program |-> <<>>]
    /\ last' = {}
    /\ UNCHANGED <<region, slots, loop, iteration, ticket_number, range, index, guess,
                   twice>>

Step(t) ==
    \/ Alloc(t) \/ Fill(t) \/ Publish(t) \/ Attach(t)
    \/ NextFixed(t) \/ NextDynamic(t)
    \/ GuidedRead(t) \/ GuidedEstimate(t) \/ GuidedTake(t) \/ GuidedAdjust(t)
    \/ Body(t) \/ OrderedBegin(t) \/ Ordered(t) \/ EndOrdered(t)
    \/ SkipOrdered(t) \/ OrderedEnd(t)
    \/ FreeCount(t) \/ FreeLast(t) \/ EndLoop(t)

Next == NewRegion \/ \E t \in Threads : Step(t)

Spec ==
    /\ Init
    /\ [][Next]_vars
    /\ \A t \in Threads : WF_vars(Step(t))

\* The body may fork a team of its own.  __pmp_thread_fork sets the count of
\* the thread to 0 and does not restore it.
NestedFork(t) ==
    /\ pc[t] = "body"
    /\ loop_count' = [loop_count EXCEPT ![t] = 0]
    /\ UNCHANGED <<region, shared, pc, at, loop, iteration, ticket_number, range,
                   index, guess, history>>

NestedSpec == Init /\ [][Next \/ \E t \in Threads : NestedFork(t)]_vars
-----------------------------------------------------------------------------
(***************************************************************************)
(* Properties                                                              *)
(***************************************************************************)
LoopIds == 0 .. (CountRange \div 2) - 1

\* The counters stay within their width, a loop id is never taken for
\* PMP_LOOP_UNUSED, and no more threads leave a loop than have entered it.
TypeOK ==
    /\ team_count \in 0 .. CountRange - 1
    /\ loop_count \in [Threads -> 0 .. CountRange - 1]
    /\ loop \in [Threads -> {NoLoop} \cup DOMAIN slots]
    /\ \A t \in Threads : at[t] \in DOMAIN program /\ iteration[t] \in Nat
    /\ \A s \in DOMAIN slots :
        /\ slots[s].loop_id \in {Unused} \cup LoopIds
        /\ slots[s].looping_threads \in 0 .. N
        /\ slots[s].chunk > 0
        /\ slots[s].min_chunk > 0

AllIterations(k) == Iterations(program[k].lower, program[k].upper, program[k].inc)

Past(t, k) == at[t] > k \/ pc[t] \in {"done", "absent"}

\* No assertion of __pmp_loop_alloc, __pmp_loop_free and __ompc_end_ordered
\* fails: when a thread fills, leaves or serves a slot, the slot is in the
\* state the thread believes it to be in, however far ahead of it the other
\* threads are and when the counters wrap around.
AssertionsHold == \A t \in Threads : pc[t] # "abort"

\* A thread never works with the descriptor of another loop: the slot it is
\* attached to is not filled again while it is there.
InRightLoop == \A t \in Threads : loop[t] # NoLoop => slots[loop[t]].number = at[t]

\* No iteration is run twice or runs outside the loop, and when every thread
\* has left a loop all its iterations have been run, whatever the schedule.
ExactlyOnce ==
    /\ ~twice
    /\ \A k \in DOMAIN program :
        LET done == {r[2] : r \in ran[k]}
        IN /\ done \subseteq AllIterations(k)
           /\ (\A t \in Threads : Past(t, k)) => done = AllIterations(k)

\* A thread that has left a loop with iterations has last_iter set if and
\* only if it has run the last of them (the test in Transform_Do).
OneLast ==
    \A k \in DOMAIN program, t \in Threads :
        LET final == program[k].lower + (Size(program[k]) - 1) * program[k].inc
        IN Past(t, k) /\ AllIterations(k) # {} =>
            (<<k, t>> \in last <=> <<t, final>> \in ran[k])

\* The ordered regions of a loop are run one at a time and in the order of
\* the iterations, whoever runs them.  An ordered region is never run before
\* that of an earlier iteration, also when some iterations skip theirs.
OrderedInOrder ==
    /\ \A k \in DOMAIN program : \A j \in DOMAIN served[k] :
        LET i == served[k][j]
            l == program[k]
        IN {served[k][h] : h \in 1 .. j - 1} =
             {x \in AllIterations(k) \ l.skip : x # i /\ Within(l.inc, x, i)}
    /\ \A t, u \in Threads :
        t # u /\ pc[t] = "inside" /\ pc[u] = "inside" => at[t] # at[u]

\* Only the last iterations of a loop skip their ordered region: schedule.c:720
\* lets nobody past an iteration that has not served its turn.
SkipsTrail ==
    \A k \in DOMAIN program :
        \A x \in program[k].skip, y \in AllIterations(k) \ program[k].skip :
            Within(program[k].inc, y, x)

\* Every thread gets through all the loops: no thread waits for ever for a
\* slot, for its loop to appear in it or for its turn in an ordered loop -
\* unless an earlier iteration has skipped its ordered region.
LoopsEnd == SkipsTrail => \A t \in Threads : pc[t] = "begin" ~> pc[t] = "done"
=============================================================================
