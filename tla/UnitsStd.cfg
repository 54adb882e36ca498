SPECIFICATION Spec
CONSTANTS
    Thread = {t1, t2, t3}
    Nobody = Nobody
    Unit = {1, 2, 3}
    File = {"a", "b"}
    StdFile = {"stdout"}
    NoFile = NoFile
    Default <- MCDefault
    Programs <- StandardPrograms
INVARIANT TransfersExclude
