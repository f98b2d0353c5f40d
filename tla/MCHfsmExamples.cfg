CONSTANTS
    States <- MCStates
    Events <- MCEvents
    AnySource = "*"
    RuleSet = {}
    MaxRules = 13
    MaxEvents = 0
    Payloads = {0, 1, 50, 100}
    MaxRetry = 2
    MaxRecords = 3
    Composites = {"Active", "Fault", "Connected"}
    Children = {"ActiveIdle", "Standby"}
SPECIFICATION ExamplesSpec
CHECK_DEADLOCK FALSE
INVARIANTS OrderIsPaid ClosesBothWays
