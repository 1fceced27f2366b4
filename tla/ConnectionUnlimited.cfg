\* max_attempts = 0 and a transport that loses its connection once.
CONSTANTS
    ReconnectEnabled = TRUE
    MaxAttempts = 0
    InitialInterval = 3
    MaxInterval = 5
    Scaled <- OneAndAHalf
    CanRestore = TRUE
    MaxTries = 2
    MaxBreaks = 1
    MaxCancels = 0
    MaxChannel = 2
    StatCap = 1
SPECIFICATION Spec
PROPERTY
    UnlimitedAttempts
CHECK_DEADLOCK FALSE
