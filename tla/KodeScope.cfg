CONSTANTS
    s1 = s1
    s2 = s2
    t1 = t1
    Scopes = {s1, s2}
    Tasks = {t1, t2, t3}
    Owner <- MCOwner
    Controllers = {c1, c2}
SPECIFICATION FairSpec
CHECK_DEADLOCK FALSE
INVARIANTS CountsExact FailureSeenIsRecorded OnabortOnce
PROPERTY CountersDrain
