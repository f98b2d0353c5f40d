CONSTANTS
    Modules = {m1, m2, m3}
    NoModule = NoModule
    MaxLinks = 3
SPECIFICATION ModuleSpec
SYMMETRY Symmetry
INVARIANTS ReadyFromTheLeaves FaultStartsOver
