CONSTANTS
    Threads = {t1, t2, t3}
    Capacities = {0, 1, 2}
    MaxSends = 2
SPECIFICATION FairSpec
INVARIANTS FifoNoLoss CapacityBound NoLostWakeup DrainedIsFinal
PROPERTIES CloseReleasesWaiters PushedIsReceived ImplementsFifo
