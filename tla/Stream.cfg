\* Connections that hold less than a packet; two dropped futures, or one and the
\* errors of a mock.  The instance stops when everything is sent.
CONSTANTS
    SizeOf <- ThreePackets
    AnswerSize = 2
    Capacity = 2
    Kinds = {"tokio", "embassy", "mock"}
    MaxDrops = 2
    MaxErrors = 1
SPECIFICATION FairSpec
INVARIANTS
    WholeUntilCut
    OkIsInStream
    ReceivedWhole
PROPERTY
    SendReturns
CHECK_DEADLOCK FALSE
