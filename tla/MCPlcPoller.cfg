\* Two callers, one of which owns the poller, and groups without items or with two.
SPECIFICATION LiveSpec
CONSTANTS
    main = main
    other = other
    g1 = g1
    g2 = g2
    Callers = {main, other}
    Owner = main
    Thread = Thread
    NoOne = NoOne
    AnyGroup = AnyGroup
    Names = {g1, g2}
    Intervals = {1, 2}
    Sizes = {0, 2}
    MaxGroups = 2
    MaxAge = 0
INVARIANTS SilencedStaysSilent StopIsFinal
PROPERTIES StopReturns PolledAgain
