CONSTANTS
    Nodes <- MCNodes
    StringNodes = {31, 32, 33}
    NodeClass <- MCNodeClass
    NodeType <- MCNodeType
    Writables <- MCWritables
    Refs <- MCRefs
    Truncated <- MCTruncated
    ItemIds = {1, 2}
    MaxSubs = 2
    MaxSessions = 3
    MaxCalls = 4
    MaxChanges = 2
    Subscriber = 100
    Explorer = 101
    SubscriberCalls <- MCSubscriberCalls
    ExplorerCalls <- MCExplorerCalls
SPECIFICATION Spec
INVARIANTS  UnsubscribedStaysSilent CallbackOfThisSession RecursiveBrowseIsReachability
