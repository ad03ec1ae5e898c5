\* Three contending threads, one spin, weak CAS that may fail, a shared bucket.
CONSTANTS
    Thread = {t1, t2, t3}
    Nil = Nil
    SpinLimit = 1
    WeakCASMayFail = TRUE
    Collisions = TRUE
SPECIFICATION FairSpec
INVARIANTS ParkedBitTruthful AssertionsHold NobodyForgotten
PROPERTIES ImplementsMutex FairUnlockHandsOver SleeperIsWoken
