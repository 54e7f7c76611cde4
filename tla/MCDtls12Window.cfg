SPECIFICATION Spec
CONSTANTS
    WINDOW_WORDS = 2
    WORD_BITS = 2
    LO = 14
    MAX_HI = 1
    EDGE = 2
    MAX_EPOCH = 1
INVARIANTS
    WindowExact
    FreshAccepted
PROPERTY
    NoReplay
