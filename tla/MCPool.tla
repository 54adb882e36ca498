------------------------------- MODULE MCPool -------------------------------
EXTENDS Pool

Program(nested_forks, requests) == [nested_forks |-> nested_forks, requests |-> requests]

\* Both members of a team fork a nested team of two, or of one; or the main
\* thread alone forks, up to more threads than there can be, and the nested
\* regions of its default teams are serialized.
MCPrograms == {Program(TRUE, <<{2}, {0, 1}>>), Program(FALSE, <<{0, 2, 6}, {0}>>)}

\* Both members of a team ask for two threads, so that four are enough.
FittingPrograms == {Program(TRUE, <<{2}, {2}>>)}
=============================================================================
