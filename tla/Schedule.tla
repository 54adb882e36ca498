------------------------------ MODULE Schedule ------------------------------
(***************************************************************************)
(* The arithmetic with which the OpenMP runtime divides the iterations of  *)
(* a loop among the threads of a team: libopenmp/schedule.c.  A loop is a  *)
(* record with the fields lower, upper, inc and chunk; its iterations are  *)
(* lower, lower + inc, ... up to and including upper, or down to it when   *)
(* inc is negative.                                                        *)
(***************************************************************************)
EXTENDS Integers

Schedules == {"STATIC", "STATIC_EVEN", "DYNAMIC", "GUIDED"}

Abs(a) == IF a < 0 THEN -a ELSE a
MinOf(a, b) == IF a <= b THEN a ELSE b
MaxOf(a, b) == IF a >= b THEN a ELSE b

\* The division of C: the quotient is truncated towards zero.
CDiv(a, b) ==
    LET q == Abs(a) \div Abs(b)
    IN IF (a < 0) = (b < 0) THEN q ELSE -q

\* LOOPMIN: the smaller of a and b in the direction of the loop.
LoopMin(inc, a, b) == IF inc >= 0 THEN MinOf(a, b) ELSE MaxOf(a, b)

\* x is not beyond limit in the direction of the loop.
Within(inc, x, limit) == IF inc >= 0 THEN x <= limit ELSE x >= limit

\* The number of iterations as the runtime computes it.
Size(loop) == CDiv(loop.upper - loop.lower, loop.inc) + 1

\* The iterations of a DO loop from lower to upper: the reference.
Iterations(lower, upper, inc) ==
    LET n == IF Within(inc, lower, upper) THEN CDiv(upper - lower, inc) + 1 ELSE 0
    IN {lower + k * inc : k \in 0 .. n - 1}

\* The value of the DO variable after the loop.
Final(lower, upper, inc) ==
    IF Within(inc, lower, upper) THEN lower + (CDiv(upper - lower, inc) + 1) * inc
                                 ELSE lower

Reply(more, lower, upper) == [more |-> more, lower |-> lower, upper |-> upper]
-----------------------------------------------------------------------------
(***************************************************************************)
(* The shares of a static even schedule                                    *)
(***************************************************************************)
\* Mutant: the first remainder threads do not shift the ones after them.
FairShareUnshifted(size, team_size, local_id) ==
    LET chunk == CDiv(size, team_size)
        remainder == size - chunk * team_size
    IN [index |-> local_id * chunk,
        chunk |-> IF local_id < remainder THEN chunk + 1 ELSE chunk]

\* param->static_fair: shares that differ by one at most.
FairShare(size, team_size, local_id) ==
    LET chunk == CDiv(size, team_size)
        remainder == size - chunk * team_size
    IN [index |-> MinOf(local_id, remainder) * (chunk + 1)
                    + (IF local_id > remainder THEN (local_id - remainder) * chunk ELSE 0),
        chunk |-> IF local_id < remainder THEN chunk + 1 ELSE chunk]

\* Otherwise: equal shares, rounded up, for as many threads as it takes.
EvenShare(size, team_size, local_id) ==
    LET chunk == CDiv(size + team_size - 1, team_size)
    IN [index |-> local_id * chunk, chunk |-> chunk]
-----------------------------------------------------------------------------
(***************************************************************************)
(* __pmp_static_init: the first range of thread local_id, and the distance *)
(* to its next one.  A thread whose range lies outside the loop gets one   *)
(* before the loop that is empty.                                          *)
(***************************************************************************)
\* Mutant: the empty range is the one the thread would have beyond the limit.
FirstRangeBeyond(loop, lower, chunk, stride) ==
    [lower |-> lower, stride |-> stride,
     upper |-> LoopMin(loop.inc, lower + (chunk - 1) * loop.inc, loop.upper)]

FirstRange(loop, lower, chunk, stride) ==
    IF Within(loop.inc, lower, loop.upper)
      THEN [lower |-> lower, stride |-> stride,
            upper |-> LoopMin(loop.inc, lower + (chunk - 1) * loop.inc, loop.upper)]
      ELSE [lower |-> loop.lower - loop.inc, stride |-> loop.inc,
            upper |-> loop.lower - 2 * loop.inc]

\* Mutant: the stride of a team of one leads to the limit and not beyond it.
AloneStrideShort(loop) == loop.upper - loop.lower

\* The stride of a team of one leads out of the loop.
AloneStride(loop) == loop.upper - loop.lower + (IF loop.inc > 0 THEN 1 ELSE -1)

StaticInit(loop, fair, team_size, local_id) ==
    LET size == Size(loop)
        share == IF fair THEN FairShare(size, team_size, local_id)
                         ELSE EvenShare(size, team_size, local_id)
        stride == loop.chunk * loop.inc
    IN
    CASE team_size = 1 ->
           [lower |-> loop.lower, upper |-> loop.upper, stride |-> AloneStride(loop)]
      [] team_size > 1 /\ loop.sched = "STATIC_EVEN" ->
           FirstRange(loop, loop.lower + share.index * loop.inc, share.chunk, size * loop.inc)
      [] team_size > 1 /\ loop.sched = "STATIC" ->
           FirstRange(loop, loop.lower + local_id * stride, loop.chunk, stride * team_size)
-----------------------------------------------------------------------------
(***************************************************************************)
(* The static schedules of __pmp_schedule_next: the range of thread        *)
(* local_id when it asks for the iteration-th time                         *)
(***************************************************************************)
\* The block of size_per_thread iterations that both schedules divide up.
Block(loop, team_size, local_id) ==
    LET size_per_thread == (CDiv(Size(loop) - 1, team_size) + 1) * loop.inc
        lower == loop.lower + local_id * size_per_thread
    IN [lower |-> lower,
        upper |-> LoopMin(loop.inc, lower + size_per_thread - loop.inc, loop.upper)]

NextStatic(loop, team_size, local_id, iteration) ==
    LET block == Block(loop, team_size, local_id)
        lower == block.lower + iteration * loop.chunk * loop.inc
    IN Reply(Within(loop.inc, lower, block.upper), lower,
             LoopMin(loop.inc, lower + (loop.chunk - 1) * loop.inc, block.upper))

NextStaticEven(loop, fair, team_size, local_id, iteration) ==
    LET share == FairShare(Size(loop), team_size, local_id)
        fairLower == loop.lower + share.index * loop.inc
        block == IF fair
                   THEN [lower |-> fairLower,
                         upper |-> LoopMin(loop.inc, fairLower + (share.chunk - 1) * loop.inc,
                                           loop.upper)]
                   ELSE Block(loop, team_size, local_id)
    IN Reply(iteration = 0 /\ Within(loop.inc, block.lower, block.upper),
             block.lower, block.upper)
-----------------------------------------------------------------------------
(***************************************************************************)
(* The chunks of a guided schedule                                         *)
(***************************************************************************)
\* The chunk that __pmp_scheduler_init starts with.
GuidedFirst(loop, min_chunk, team_size, param) ==
    LET divisor == team_size * param.guided_chunk_divisor
    IN MaxOf(min_chunk,
             MinOf(param.guided_chunk_max, CDiv(loop.upper - loop.lower + divisor, divisor)))

\* The chunk that __pmp_schedule_next leaves for the next caller.
GuidedNext(upper, my_upper, min_chunk, team_size, param) ==
    LET divisor == team_size * param.guided_chunk_divisor
    IN MaxOf(min_chunk,
             MinOf(param.guided_chunk_max, CDiv(upper - my_upper + divisor - 1, divisor)))
=============================================================================
