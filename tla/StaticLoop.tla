----------------------------- MODULE StaticLoop -----------------------------
(***************************************************************************)
(* A statically scheduled parallel loop, as the compiler lowers it         *)
(* (Transform_Do in be/com/wn_mp.cxx) and the runtime divides it           *)
(* (__pmp_static_init in libopenmp/schedule.c).  Every thread of the team  *)
(* calls the runtime once for its first range and its stride, runs the     *)
(* ranges that belong to it, and finds out for the LASTPRIVATE variables   *)
(* whether it has run the last iteration of the loop.                      *)
(*                                                                         *)
(* The threads share nothing, so they run here one after the other.  The   *)
(* lowered loop computes in the type of the DO variable, which has Bits    *)
(* bits, and wraps around; the runtime computes in 64 bits.                *)
(***************************************************************************)
EXTENDS Schedule, FiniteSets

CONSTANTS Bits,     \* the width of the DO variable
          Loops,    \* the parallel loops: records lower, upper, inc, chunk, sched
          Teams     \* the team sizes

MaxInt == 2 ^ (Bits - 1) - 1
MinInt == -(2 ^ (Bits - 1))

ASSUME StaticLoopAssumption ==
    /\ Bits \in Nat \ {0, 1}
    /\ Teams \subseteq Nat \ {0}
    /\ \A l \in Loops :
        /\ l.inc \in Int \ {0} /\ l.chunk \in Nat \ {0}
        /\ l.sched \in {"STATIC", "STATIC_EVEN"}
        /\ {l.lower, l.upper, l.upper + l.inc} \subseteq MinInt .. MaxInt

\* What the proofs use of exponentiation.
ASSUME PowerAssumption ==
    2 ^ (Bits - 1) \in Nat \ {0} /\ 2 ^ Bits = 2 * 2 ^ (Bits - 1)

VARIABLES loop, team_size, static_fair,   \* the input
          local_id,                       \* the thread that runs now
          pc,
          lower, upper, stride,           \* local_lower, local_upper, local_stride
          index,                          \* the DO variable
          ran,                            \* history: who ran which iteration
          twice,                          \* history: iterations run more than once
          last                            \* the threads with last_iter = 1

input == <<loop, team_size, static_fair>>
vars == <<input, local_id, pc, lower, upper, stride, index, ran, twice, last>>

Init ==
    /\ loop \in Loops
    /\ team_size \in Teams
    /\ static_fair \in BOOLEAN
    /\ local_id = 0
    /\ pc = "init"
    /\ lower = loop.lower
    /\ upper = loop.upper
    /\ stride = 0
    /\ index = 0
    /\ ran = {}
    /\ twice = {}
    /\ last = {}

\* The conversion of a 64-bit value to the type of the DO variable.
Wrap(x) == ((x - MinInt) % (2 ^ Bits)) + MinInt
-----------------------------------------------------------------------------
\* The call of __ompc_static_init_4.  The runtime asserts that the loop has
\* no negative size, for the even schedule and more than one thread.
CallStaticInit ==
    LET first == StaticInit(loop, static_fair, team_size, local_id)
    IN
    /\ pc = "init"
    /\ IF team_size > 1 /\ loop.sched = "STATIC_EVEN" /\ Size(loop) < 0
         THEN pc' = "abort" /\ UNCHANGED <<lower, upper, stride>>
         ELSE /\ pc' = loop.sched
              /\ lower' = Wrap(first.lower)
              /\ upper' = Wrap(first.upper)
              /\ stride' = Wrap(first.stride)
    /\ UNCHANGED <<input, local_id, index, ran, twice, last>>

\* The DO loop from lower to upper, where upper is cut down to the limit.
DoLoop ==
    LET to == LoopMin(loop.inc, upper, loop.upper)
        body == Iterations(lower, to, loop.inc)
        before == {r[2] : r \in ran}
    IN
    /\ ran' = ran \cup {<<local_id, i>> : i \in body}
    /\ twice' = twice \cup (body \cap before)
    /\ index' = Final(lower, to, loop.inc)

\* STATIC_EVEN: one DO loop; LASTPRIVATE looks at the DO variable after it.
RunEven ==
    /\ pc = "STATIC_EVEN"
    /\ DoLoop
    /\ last' = IF Within(loop.inc, index', loop.upper) THEN last ELSE last \cup {local_id}
    /\ pc' = "done"
    /\ UNCHANGED <<input, local_id, lower, upper, stride>>

\* STATIC: a WHILE around the DO loop that moves on by the stride.
RunChunk ==
    /\ pc = "STATIC"
    /\ Within(loop.inc, lower, loop.upper)
    /\ DoLoop
    /\ lower' = Wrap(lower + stride)
    /\ upper' = Wrap(LoopMin(loop.inc, upper, loop.upper) + stride)
    /\ UNCHANGED <<input, local_id, pc, stride, last>>

\* After the WHILE, LASTPRIVATE steps back and looks whether the last range
\* holds the limit.
Limit(l, u) == Within(loop.inc, l, loop.upper) /\ Within(-loop.inc, u, loop.upper)

EndChunks ==
    /\ pc = "STATIC"
    /\ ~Within(loop.inc, lower, loop.upper)
    /\ lower' = Wrap(lower - stride)
    /\ upper' = Wrap(upper - stride)
    /\ last' = IF Limit(lower', upper') THEN last \cup {local_id} ELSE last
    /\ pc' = "done"
    /\ UNCHANGED <<input, local_id, stride, index, ran, twice>>

\* The next thread of the team, with local variables of its own.
NextThread ==
    /\ pc = "done"
    /\ local_id < team_size - 1
    /\ local_id' = local_id + 1
    /\ pc' = "init"
    /\ lower' = loop.lower
    /\ upper' = loop.upper
    /\ stride' = 0
    /\ index' = 0
    /\ UNCHANGED <<input, ran, twice, last>>

Next ==
    \/ CallStaticInit
    \/ RunEven
    \/ RunChunk
    \/ EndChunks
    \/ NextThread

Spec == Init /\ [][Next]_vars /\ WF_vars(Next)
-----------------------------------------------------------------------------
(***************************************************************************)
(* Properties                                                              *)
(***************************************************************************)
AllIterations == Iterations(loop.lower, loop.upper, loop.inc)

Finished == pc = "done" /\ local_id = team_size - 1

\* The values of the DO variable that the lowered code can come to need: one
\* stride beyond the limit, and two steps before the start.
Headroom ==
    LET step == IF team_size = 1 THEN loop.upper - loop.lower + loop.inc
                                 ELSE team_size * loop.chunk * loop.inc
    IN {loop.upper + step, loop.lower - 2 * loop.inc} \subseteq MinInt .. MaxInt

\* No two threads run the same iteration, and in the end every iteration has
\* been run, whatever the direction, the step and the chunk of the loop - as
\* long as the DO variable does not overflow.  The assertion of schedule.c:220
\* fails only on a loop without iterations, where it does fail when the bounds
\* are two steps or more apart.
ExactlyOnce ==
    Headroom =>
        /\ twice = {}
        /\ {r[2] : r \in ran} \subseteq AllIterations
        /\ Finished => {r[2] : r \in ran} = AllIterations
        /\ pc = "abort" => AllIterations = {}

\* The loops in chunks that no thread finds to have ended: the step does not
\* lead to the limit, and the last chunk is a full one that ends before it.
LimitMissed ==
    /\ team_size > 1 /\ loop.sched = "STATIC"
    /\ (loop.upper - loop.lower) % Abs(loop.inc) # 0
    /\ Size(loop) % loop.chunk = 0

\* The LASTPRIVATE test of the lowered loop succeeds in the thread that has
\* run the last iteration and in no other; in particular the empty range of
\* a thread without iterations does not trigger it (schedule.c:257-261).  It
\* succeeds in no thread exactly for the loops of LimitMissed, although one
\* of them has run the last iteration (wn_mp.cxx:9449).
OneLast ==
    LET final == loop.lower + (Size(loop) - 1) * loop.inc
    IN Headroom /\ Finished /\ AllIterations # {} =>
        last = IF LimitMissed THEN {} ELSE {r[1] : r \in {x \in ran : x[2] = final}}

\* Every thread of the team gets out of its loop, unless the assertion about
\* the size has ended the program.
LoopEnds == Headroom ~> Finished \/ pc = "abort"
=============================================================================
