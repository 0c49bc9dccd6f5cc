SPECIFICATION Spec
CONSTANTS
    ClockMod = 3
    Timeout = 2
    SafetyKey = 7
    AutoDisarm = TRUE
    PortClock = "calls"
    MaxAge = 2
    Policy <- MCPolicy
    HandlerResults = {0}
    HandlerLens = {0}
    InfoLen = 0
    HostWrites <- MCHostWrites
    Restarts = TRUE
PROPERTY AdmittedInWindow
