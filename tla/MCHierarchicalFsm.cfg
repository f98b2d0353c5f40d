\* Every forest and every table of four states and one event, and the
\* table-driven device against the object-oriented one.
SPECIFICATION MenuSpec
CONSTANTS
    s1 = s1
    s2 = s2
    s3 = s3
    s4 = s4
    NoState = NoState
    MaxErrors = 20
    State <- SmallStates
    Event <- SmallEvents
    Machines <- AllMachines
INVARIANT AncestorsEntered
PROPERTIES CallbacksNest ImplementsObjects
SYMMETRY Sym
