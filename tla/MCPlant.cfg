\* The plant of scenarioFault(); faults in every node.
CONSTANTS
    Nodes = {"line", "heat", "work", "heater", "sensor", "dp200"}
    Root = "line"
    Children <- MCChildren
    Plan <- MCPlan
    Critical = {"line", "heat", "work", "heater", "dp200"}
    Fragile = {"line", "heat", "work", "heater", "sensor", "dp200"}
    MaxRounds = 7
SPECIFICATION FairSpec
INVARIANTS
    EscalatesExactly
    PictureIsTrue
    ReadyBottomUp
    WorksAsOne
    ReadyInTime
PROPERTY CommandsReturn
