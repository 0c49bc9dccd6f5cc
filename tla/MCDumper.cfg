SPECIFICATION Spec
CONSTANTS
    Callers = {c1, c2}
    Periods = {50}
    NBlocks = 2
    MaxStarts = 2
    MaxSamples = 2
CHECK_DEADLOCK FALSE
INVARIANTS
    TypeOK
    NoOrphan
    StateIsTrue
    FrameIsOneSample
PROPERTIES
    WholeSampleIsShown
    ImplementsDumperLike
    CallsReturn
