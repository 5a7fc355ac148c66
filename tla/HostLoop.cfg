CONSTANTS
    Sleeps = {s1}
    Works = {f1, f2}
    Legacy = {l1}
    Signalled = {s1, f1}
SPECIFICATION FairSpec
INVARIANTS NothingAfterDispose OutcomeReported ReactionsRun
PROPERTY Terminates
