\* Two writers, three keys and a bound of one or two entries.  No deadlock
\* check is needed: setMaxSize() is always possible.
CONSTANTS
    Keys = {x, y, z}
    Writers = {a, b}
    Sizes = {1, 2}
    MaxPuts = 4
    MaxClock = 2
SYMMETRY Symmetry
SPECIFICATION Spec
INVARIANTS VersionsIdentify CallbackAgrees
PROPERTIES GrowsBelowBound EvictsOldest
