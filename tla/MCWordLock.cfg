\* Three contending threads, one spin before queueing, weak CAS that may fail.
CONSTANTS
    Thread = {t1, t2, t3}
    Nil = Nil
    SpinLimit = 1
    WeakCASMayFail = TRUE
SPECIFICATION FairSpec
INVARIANTS QueueSound NoLostWakeup
PROPERTIES ImplementsMutex Progress
