SPECIFICATION Spec
CONSTANTS
    Byte = {0, 1}
    Junk = Junk
    Sizes = {0, 2, 3}
    DEFAULT_SIZE = 4
    MAX_LEN = 4
INVARIANTS
    WriteTakesWhatFits
    ReadTakesWhatIsThere
PROPERTY
    ImplementsPipe
