CONSTANTS
    Threads = {t1, t2, t3}
    Unlocked = Unlocked
    Null = Null
    UserLock = UserLock
SPECIFICATION FairSpec
INVARIANTS
    MutualExclusion NoUseAfterFree

     
