SPECIFICATION Spec
CONSTANTS
    WINDOW_WORDS = 2
    WORD_BITS = 2
    SHIFT = 12
    GAP_LIMIT = 13
    MAX_SEQ = 12
INVARIANTS
    NoReplay
    WindowExact
    UpdateNeverFails
PROPERTY
    ImplementsAntiReplay
