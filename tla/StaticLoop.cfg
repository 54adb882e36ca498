CONSTANTS
    Bits = 5
    Teams = {1, 2, 3, 4}
    Loops <- AllLoops
SPECIFICATION Spec
INVARIANTS
    ExactlyOnce OneLast
PROPERTY
    LoopEnds
\* The loop is run once.
CHECK_DEADLOCK FALSE
