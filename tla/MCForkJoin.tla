----------------------------- MODULE MCForkJoin -----------------------------
EXTENDS ForkJoin

\* Reuse of the barrier and of the single counter, within a region and from
\* one region to the next, two singles with copyprivate, back to back, and a
\* fork by a member of the team.
Regions ==
    { <<"barrier", "barrier">>,
      <<"nested", "single", "single", "barrier", "single">>,
      <<"single">> \o Copyprivate \o <<"single">> \o Copyprivate }

\* Threadprivate data: changed in one region and copied in in another.
Threadprivate ==
    { <<"thdprv", "assign">>, <<"thdprv">> \o Copyin \o <<"assign">> }

MCPrograms == {Regions, Threadprivate}
=============================================================================
