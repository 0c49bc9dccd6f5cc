SPECIFICATION SdkSpec
CONSTANTS
    ClockMod = 2
    Timeout = 1
    SafetyKey = 7
    AutoDisarm = TRUE
    PortClock = "calls"
    MaxAge = 1
    Policy <- MCPolicy
    HandlerResults = {0}
    HandlerLens = {0}
    InfoLen = 23
    HostWrites = {}
    Restarts = FALSE
    MaxSent = 2
    MaxPolls = 1
    Direct = {254}
    Eager = FALSE
    Lossy = FALSE
PROPERTY HealthyIsNotCorrupt
