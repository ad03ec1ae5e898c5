\* Five threads, each of which reads and writes.
CONSTANTS
    Thread = {t1, t2, t3, t4, t5}
    MayWrite = {t1, t2, t3, t4, t5}
    Nil = Nil
SPECIFICATION FairSpec
INVARIANTS Exclusion NobodyStranded
PROPERTIES WriterPreference WriterEnters
