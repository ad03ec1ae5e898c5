\* Four threads that consume and produce up to two items, with timeouts.  All
\* of them may wait for an item nobody produces.
CONSTANTS
    Thread = {t1, t2, t3, t4}
    Nil = Nil
    MaxItems = 2
    Timeouts = TRUE
    Collisions = TRUE
SPECIFICATION FairSpec
INVARIANTS HasWaitersTruthful NoLostNotification WaitersAccounted
PROPERTIES ItemsReachWaiters
CHECK_DEADLOCK FALSE
