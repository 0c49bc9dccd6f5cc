SPECIFICATION Spec
CONSTANTS
    ClockMod = 3
    Timeout = 2
    SafetyKey = 7
    AutoDisarm = TRUE
    PortClock = "ticks"
    MaxAge = 3
    Policy <- MCPolicy
    HandlerResults = {0}
    HandlerLens = {0}
    InfoLen = 0
    HostWrites <- MCHostWrites
    Restarts = TRUE
INVARIANTS
    TypeOK
    ArmInv
PROPERTIES
    AdmittedInWindow
    ImplementsArmGrant
