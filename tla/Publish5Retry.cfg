\* A request, a lost send and the retry: no aliases needed.
CONSTANTS
    TopicOf <- TopicsTUT
    Qos1 = {1}
    MaxInflight = 2
    MaxRetry = 1
    AppAliases = {}
    AliasMax = 1
    MaxFaults = 1
    MaxReconnects = 1
SPECIFICATION Spec
INVARIANT
    EveryCopyIntact
CHECK_DEADLOCK FALSE
