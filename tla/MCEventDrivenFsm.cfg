\* Two clients, one of which controls the thread.
CONSTANTS
    Clients = {a, b}
    Controllers = {a}
    States = {"off", "on"}
    Events = {"go", "back"}
    Initial = "off"
    Table <- MCTable
    Guarded <- MCGuarded
    MaxPosts = 3
    MaxDeferrals = 1
SPECIFICATION FairSpec
INVARIANTS
    NothingLost
    PostingOrder
    StopDrains
PROPERTIES PostedIsHandled StopReturns
