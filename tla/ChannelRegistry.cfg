CONSTANTS
    p1 = p1
    p2 = p2
    c1 = c1
    r1 = r1
    n1 = n1
    n2 = n2
    Tasks = {p1, p2, c1, r1}
    Workers = {w1, w2, w3, w4}
    Names = {n1, n2}
    First = n1
    Capacity <- MCCapacity
    Scripts <- MCScripts
    MaxObjects = 3
    Nobody = nobody
SPECIFICATION FairSpec
CHECK_DEADLOCK FALSE
INVARIANT HeldIsAlive
PROPERTY EveryTaskReturns
