\* Two orders of up to two items.  No deadlock check: once every number is
\* given out and every order removed nothing is left to do.
CONSTANTS
    MaxOrders = 2
    MaxItems = 2
    Quantities <- MCQuantities
    Prices <- MCPrices
    Limit = 1000
SPECIFICATION Spec
CHECK_DEADLOCK FALSE
INVARIANTS AnnouncedTotalStands EventsTellTheStory
