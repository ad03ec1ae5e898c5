\* Two addresses that share a bucket until the table grows twice under them,
\* every kind of unpark, and threads that exit and come back.
CONSTANTS
    Thread = {t1, t2, t3}
    a1 = a1
    a2 = a2
    Address = {a1, a2}
    Nil = Nil
    Hash <- MCHash
    Bucket <- MCBucket
    Malloc <- MCMalloc
    maxLoadFactor = 1
    growthFactor = 1
    Calls <- MCCalls
    ThreadsExit = TRUE
SPECIFICATION Spec
SYMMETRY Symmetry
INVARIANTS NobodyForgotten AssertionsHold TokenTruthful NobodyStuck
PROPERTIES NoMoreThreadsIsTrue ImplementsQueues
