---------------------------- MODULE MCStaticLoop ----------------------------
EXTENDS StaticLoop

Steps == {-3, -2, -1, 1, 2, 3}

\* Every loop of a small range: both directions, steps that do and do not
\* divide the range, chunks, and loops without iterations.
AllLoops ==
    {l \in [lower : -3 .. 3, upper : -6 .. 6, inc : Steps, chunk : 1 .. 2,
            sched : {"STATIC", "STATIC_EVEN"}] :
        /\ l.sched = "STATIC_EVEN" => l.chunk = 1
        /\ l.lower = 0 \/ l.inc = 1}
=============================================================================
