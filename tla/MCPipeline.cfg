\* One caller waits or stops while the other restarts; with two stages there
\* is one to skip.
CONSTANTS
    Callers = {c1, c2}
    MaxSteps = 2
SPECIFICATION FairSpec
INVARIANTS
    CleanupExactlyOnce
    NoLostWakeup
    StoppedOnReturn
PROPERTIES ImplementsContract CallsReturn
