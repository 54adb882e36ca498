CONSTANTS
    MaxThreads = 5
    TeamSize = 2
    Programs <- MCPrograms
    MaxForks = 1
SPECIFICATION Spec
INVARIANTS
    Conservation OneOwner FreshIds IdsSuffice
PROPERTY
    RegionEnds
