CONSTANTS
    Workers = {w1}
    t1 = t1
    t2 = t2
    t3 = t3
    Tasks = {t1, t2, t3}
    Main = main
    Parent <- MCParent
    Loopers = {t2}
    MaxYields = 1
    NoTask = none
    NoWorker = noworker
SPECIFICATION FairSpec
INVARIANT JoinedMeansDone
PROPERTIES JoinTerminates StopTerminates CancelTakesEffect
