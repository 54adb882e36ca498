CONSTANTS
    MaxTeam = 2
    Slots = 2
    CountRange = 8
    Regions <- NestedRegions
    guided_chunk_divisor = 1
    guided_chunk_max = 3
    runtime_schedule = "GUIDED"
    runtime_chunk = 2
SPECIFICATION NestedSpec
INVARIANT
    AssertionsHold
