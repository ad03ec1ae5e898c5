CONSTANTS
    Thread = {1, 2, 3}
    Client = {c1, c2}
    MaxTask = 2
    NoTask = NoTask
SPECIFICATION FairSpec
INVARIANTS FinishMeansDone EverybodyHelps
PROPERTY FinishReturns
