\* Two QoS 2 messages and one of QoS 1; clients with and without clean_session,
\* which may start again with an empty session; a broker that keeps its session
\* or loses it; two retries, one lost connection, one failed send.
\* A client parked in a send with both directions full may stop: it does not
\* read while it writes.
CONSTANTS
    m1 = m1
    m2 = m2
    m3 = m3
    Msgs <- ThreeMessages
    Qos2 <- TwoMessages
    MaxPid = 2
    MaxInflight = 1
    RetryTimeout = 1
    PubrelGap = 0
    MaxRetry = 2
    CleanSessions = {TRUE, FALSE}
    BrokerForgets = TRUE
    MaxAllocated = 2
    MaxFaults = 1
    MaxReconnects = 1
    MaxChannel = 2
SPECIFICATION Spec
INVARIANTS
    TypeOK
    InFlightBound
    OnePhasePerPid
    PubcompTracked
    NothingForgotten
    RetriesSpaced
PROPERTY
    KeepsPromise
CHECK_DEADLOCK FALSE
