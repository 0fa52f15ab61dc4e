CONSTANTS
    u1 = u1
    u2 = u2
    o1 = o1
    o2 = o2
    empty = empty
    Users <- MCUsers
    Observers <- MCObservers
    Functions <- MCFunctions
    MaxSubscriptions = 3
    MaxDepth = 2
SYMMETRY Symmetric
SPECIFICATION SubjectSpec
INVARIANTS NotSkipped SubscriptionsExact
