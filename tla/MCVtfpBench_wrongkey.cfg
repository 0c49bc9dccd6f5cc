SPECIFICATION BenchSpec
CONSTANTS
    ClockMod = 5
    Timeout = 3
    SafetyKey = 7
    AutoDisarm = TRUE
    PortClock = "ticks"
    MaxAge = 5
    Policy <- MCPolicy
    HandlerResults = {0, 4}
    HandlerLens = {0, 8}
    InfoLen = 23
    HostWrites = {}
    Restarts = FALSE
    Calls <- MCCalls
PROPERTY WrongKeyRefused
