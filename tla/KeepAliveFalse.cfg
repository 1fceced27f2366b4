\* An application that sends a QoS 0 message now and then, and nothing else.
CONSTANTS
    Intervals = {6}
    Settings = {}
    Back = 0
    Unanswered = TRUE
    Idle = 1
    Park = 0
    Delay = 0
    MaxFaults = 0
    MaxSettings = 0
    MaxBuffer = 1
SPECIFICATION Spec
INVARIANT
    TimedOutForAReason
