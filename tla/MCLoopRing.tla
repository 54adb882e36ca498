----------------------------- MODULE MCLoopRing -----------------------------
EXTENDS LoopRing

Loop(sched, lower, upper, inc, chunk) ==
    [sched |-> sched, ordered |-> FALSE, lower |-> lower, upper |-> upper,
     inc |-> inc, chunk |-> chunk, skip |-> {}]

InOrder(l) == [l EXCEPT !.ordered = TRUE]

\* The regions of a team that run these programs.
Team(size, start, fair, programs) ==
    {[team_size |-> size, orphan |-> FALSE, start |-> start, static_fair |-> fair,
      program |-> p] : p \in programs}

\* The same without a team.
Alone(programs) == {[r EXCEPT !.orphan = TRUE] : r \in Team(1, 0, FALSE, programs)}

\* More loops than slots, and the counters wrap around on the way.
RingPrograms ==
    {<<Loop("STATIC_EVEN", 0, 1, 1, 1), Loop("DYNAMIC", 0, 0, 1, 1),
       Loop("STATIC_EVEN", 0, 1, 1, 1)>>}

\* Every schedule, in both directions, with steps that do and do not lead to
\* the limit, chunks, and loops without iterations.
SchedulePrograms(sizes) ==
    {<<Loop(sched, 0, inc * size + rest, inc, chunk)>> :
        sched \in Schedules, inc \in {-2, 1}, size \in sizes, rest \in {0, 1},
        chunk \in {1, 2}}

\* Static schedules with a step of three.
SteppedPrograms ==
    {<<Loop(sched, 0, 3 * size + rest, 3, 2)>> :
        sched \in {"STATIC", "STATIC_EVEN"}, size \in {-1, 3, 4}, rest \in {0, 1, 2}}

\* Fewer ranges than the three threads that fetch them concurrently.
ContendedPrograms ==
    {<<Loop("DYNAMIC", 0, -3, -2, 1)>>, <<Loop("GUIDED", 0, 3, 1, 2)>>}

\* Ordered loops of every schedule, in both directions.
OrderedPrograms ==
    {<<InOrder(Loop(sched, 0, 3 * inc, inc, 2)), InOrder(Loop("DYNAMIC", 1, 2, 1, 1))>> :
        sched \in Schedules, inc \in {-2, 1}}

\* Ordered loops of which some iterations skip their ordered region.
SkippingPrograms ==
    {<<[InOrder(Loop(sched, 0, 3, 1, 2)) EXCEPT !.skip = skip]>> :
        sched \in {"STATIC", "DYNAMIC"}, skip \in {{0}, {1}, {1, 3}, {2, 3}, {3}}}

MCRegions ==
    Team(3, 7, FALSE, RingPrograms)
      \cup Team(3, 0, FALSE, ContendedPrograms \cup SteppedPrograms)
      \cup Team(2, 0, TRUE, SchedulePrograms({-2, 3}) \cup OrderedPrograms \cup SkippingPrograms
                             \cup {<<Loop("RUNTIME", 0, 3, 1, 1)>>})
      \cup Alone(SchedulePrograms({-2, 3}))

\* A loop and one after it.
NestedRegions ==
    Team(2, 0, FALSE, {<<Loop("DYNAMIC", 0, 1, 1, 1), Loop("DYNAMIC", 0, 1, 1, 1)>>})
=============================================================================
