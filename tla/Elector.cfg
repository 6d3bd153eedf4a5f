\* Three addresses, two nodes, two linked objects, two callers of UpdateAsync.
CONSTANTS
    e1 = e1
    e2 = e2
    e3 = e3
    o1 = o1
    o2 = o2
    c1 = c1
    c2 = c2
    Loads <- MCLoads
    Pessimized = 2
    Endpoints <- MCEndpoints
    Nodes <- MCNodes
    Objects <- MCObjects
    Discoveries <- MCDiscoveries
    Callers <- MCCallers
SPECIFICATION FairSpec
INVARIANTS IndexesAgree BestAreHealthy
PROPERTIES DroppedAreTold UpdatesComplete
