\* Two topics, a broker with one topic alias, an application that may give
\* aliases of its own; one lost send.  The instance stops when everything is
\* published.
CONSTANTS
    TopicOf <- TopicsTUT
    Qos1 = {1, 2}
    MaxInflight = 2
    MaxRetry = 1
    AppAliases = {1, 2}
    AliasMax = 1
    MaxFaults = 1
    MaxReconnects = 1
SPECIFICATION Spec
INVARIANTS
    TypeOK
    RoutedAsIntended
    RefusedForAReason
    AckedWasAnswered
CHECK_DEADLOCK FALSE
