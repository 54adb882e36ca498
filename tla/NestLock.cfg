CONSTANTS
    Threads = {t1, t2, t3}
    Unlocked = Unlocked
    MaxDepth = 3
    MaxHeld = 7
SPECIFICATION Spec
INVARIANTS
    NestAssertions NestExclusion SpinFreeWhenUnnested
\* The mutex is locked MaxHeld times at most, after which nobody can take it.
CHECK_DEADLOCK FALSE
