CONSTANTS
    MaxTeam = 3
    Slots = 2
    CountRange = 8
    Regions <- MCRegions
    guided_chunk_divisor = 1
    guided_chunk_max = 3
    runtime_schedule = "GUIDED"
    runtime_chunk = 2
SPECIFICATION Spec
INVARIANTS
    AssertionsHold InRightLoop ExactlyOnce OneLast OrderedInOrder
PROPERTY
    LoopsEnd
\* Nobody gets past an iteration that has skipped its ordered region.
CHECK_DEADLOCK FALSE
