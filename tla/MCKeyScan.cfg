SPECIFICATION Spec
CONSTANTS
    NKeys = 3
    KEY_DEBOUNCE_COUNT = 2
    LONGPRESS_THRESHOLD = 4
INVARIANTS
    TypeOK
PROPERTIES
    StableBeforeTaken
    PressIsReported
    LongPressIsTimed
    HeldIsReported
