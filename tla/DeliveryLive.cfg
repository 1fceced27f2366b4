\* The application polls in a loop and connects again; a broker that keeps its
\* session, two QoS 2 messages, whose retries compete, one failed send and one
\* lost connection.
CONSTANTS
    m1 = m1
    m2 = m2
    m3 = m3
    Msgs <- TwoMessages
    Qos2 <- TwoMessages
    MaxPid = 2
    MaxInflight = 2
    RetryTimeout = 1
    PubrelGap = 0
    MaxRetry = 1
    CleanSessions = {FALSE}
    BrokerForgets = FALSE
    MaxAllocated = 2
    MaxFaults = 1
    MaxReconnects = 1
    MaxChannel = 3
SPECIFICATION FairSpec
INVARIANTS
    AckedWasDelivered
    ExactlyOnce
PROPERTIES
    PublishesResolve
    PubrelsResolveWhenQuiet
