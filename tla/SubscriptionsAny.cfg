\* Requests of two filters, repeated subscriptions, version 5, a clean
\* session, room for two.
\* The instance stops when its calls are used up.
CONSTANTS
    f1 = f1
    f2 = f2
    Version = 5
    Filters <- TwoFilters
    Identifiers = {1}
    Capacity = 2
    MaxPid = 3
    CleanSession = TRUE
    MaxRequest = 2
    Resubscribe = TRUE
    MaxCalls = 3
    MaxFaults = 1
    MaxReconnects = 1
    MaxChannel = 2
SPECIFICATION FairSpec
INVARIANT WithinLimit
INVARIANT ActiveHasEntry
PROPERTY PendingResolves
CHECK_DEADLOCK FALSE
