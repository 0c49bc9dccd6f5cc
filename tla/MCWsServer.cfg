SPECIFICATION Spec
CONSTANTS
    c1 = c1
    c2 = c2
    Main = Main
    Clients <- MCClients
    Callers <- MCCallers
    Periods = {50}
    Loops = {1, 2}
    MaxFrames = 2
CHECK_DEADLOCK FALSE
INVARIANTS
    TypeOK
    OffWhenUnwatched
    WatchedIsOn
    ShutdownLeavesNothing
PROPERTIES
    FramesInOrder
    LatestReaches
    LoopEnds
