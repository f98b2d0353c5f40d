\* Expected to be violated: see FailureRethrown in Pipeline.tla.
CONSTANTS
    Callers = {c1, c2}
    MaxSteps = 1
SPECIFICATION Spec
INVARIANT FailureRethrown
