CONSTANTS
    MaxThreads = 4
    TeamSize = 2
    Programs <- FittingPrograms
    MaxForks = 1
SPECIFICATION Spec
INVARIANT
    TeamNotEmpty
