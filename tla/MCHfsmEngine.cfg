\* Every table of up to two rules.  No deadlock check is needed: reset() is
\* always possible between calls.
CONSTANTS
    States = {"s", "t"}
    Events = {"lo", "hi", "b"}
    AnySource = "*"
    RuleSet <- MCRules
    MaxRules = 2
    MaxEvents = 3
SPECIFICATION Spec
INVARIANTS PostingOrder NothingLost InsideIsActive
