CONSTANTS
    Threads = {t1, t2, t3}
    Unlocked = Unlocked
    MaxDepth = 3
    MaxHeld = 7
SPECIFICATION Spec
INVARIANT
    FreeWhenUnnested
