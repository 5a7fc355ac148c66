CONSTANTS
    Workers = {w1, w2}
    Tasks = {body, dog}
    Body = body
    Watchdog = dog
    Main = main
    Parent <- MCParent
    Loopers = {body}
    MaxYields = 1
    NoTask = none
    NoWorker = noworker
SPECIFICATION WTFairSpec
INVARIANT OutcomeKnown
PROPERTIES LifetimeBounded WatchdogEnds
