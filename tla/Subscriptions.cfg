\* One filter per request, no filter subscribed to twice: session and broker
\* agree.  The instance stops when its calls are used up.
CONSTANTS
    f1 = f1
    f2 = f2
    Version = 3
    Filters <- TwoFilters
    Identifiers = {}
    Capacity = 2
    MaxPid = 4
    CleanSession = FALSE
    MaxRequest = 1
    Resubscribe = FALSE
    MaxCalls = 4
    MaxFaults = 1
    MaxReconnects = 1
    MaxChannel = 2
SPECIFICATION Spec
SYMMETRY Symmetry
INVARIANT TypeOK
INVARIANT ActiveMeansGranted
INVARIANT AgreeWhenSettled
CHECK_DEADLOCK FALSE
