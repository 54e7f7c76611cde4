SPECIFICATION KeysSpec
CONSTANTS
    Handles = {h1, h2}
    LEAVES = 3
    MAX_KEYS = 2
INVARIANTS
    KeysTypeOK
    NoIndexReuse
    MemoryMatchesStore
