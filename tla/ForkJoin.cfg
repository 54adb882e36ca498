CONSTANTS
    NumThreads = 3
    Thread = {0, 1, 2}
    Programs <- MCPrograms
SPECIFICATION Spec
INVARIANTS
    NoLostWakeup OneDelivery NoDoubleWake
    BarrierSeparates TeamOutlivesWork  CopyFromWinner
    CopyPersists CopyinFromMaster
PROPERTIES
    ImplementsPermit RegionEnds
