\* Three messages, one of each QoS, a queue of two, four configurations, one
\* acknowledgement that does not end well, one reconnection.  The instance stops
\* when the messages are delivered and the connection lasts or is given up.
CONSTANTS
    m1 = m1
    m2 = m2
    m3 = m3
    none = none
    Msgs <- ThreeMessages
    QosOf <- OneOfEachQos
    Configs <- FourConfigs
    NoTopic <- none
    Capacity = 2
    Window = 2
    MaxFaults = 1
    MaxReconnects = 1
    MaxStray = 1
    MaxChannel = 1
SPECIFICATION FairSpec
INVARIANTS
    NoSilentLoss
    QueueIsNewest
    DuplicatesNeedLostAck
PROPERTIES
    OutstandingResolves
    LossNoticed
CHECK_DEADLOCK FALSE
