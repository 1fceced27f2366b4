\* Keep-alive disabled and enabled; a ping that fails, a clock set back and
\* forward, a link that dies silently.
CONSTANTS
    Intervals = {0, 16}
    Settings <- OneBackTwoForward
    Back = 1
    Unanswered = FALSE
    Idle = 1
    Park = 1
    Delay = 1
    MaxFaults = 1
    MaxSettings = 1
    MaxBuffer = 2
SPECIFICATION Spec
INVARIANTS
    TimedOutForAReason
    BrokerHearsClient
    DeadLinkNoticed
