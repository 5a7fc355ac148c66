CONSTANTS
    Workers = {w1, w2}
    t1 = t1
    t2 = t2
    t3 = t3
    Tasks = {t1, t2}
    Main = main
    Parent <- MCParent
    Loopers = {}
    MaxYields = 1
    NoTask = none
    NoWorker = noworker
SPECIFICATION Spec
INVARIANT ReturnsToOwnScheduler
