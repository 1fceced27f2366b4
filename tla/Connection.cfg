\* Every call in every order against a transport that can come back, with two
\* lost connections and two dropped calls; futures are polled and the broker
\* reads.  poll() may wait for ever, so the instance may stop.
CONSTANTS
    ReconnectEnabled = TRUE
    MaxAttempts = 3
    InitialInterval = 3
    MaxInterval = 5
    Scaled <- OneAndAHalf
    CanRestore = TRUE
    MaxTries = 3
    MaxBreaks = 2
    MaxCancels = 2
    MaxChannel = 2
    StatCap = 1
SPECIFICATION FairSpec
INVARIANTS
    TypeOK
    ConnectedMeansEngineConnected
    ConnectedMeansBrokerOpen
    DoubleConnectNeedsCancellation
    DisconnectedMeansBrokerGone
    BackoffMatchesAttempt
PROPERTY
    CallsReturn
CHECK_DEADLOCK FALSE
