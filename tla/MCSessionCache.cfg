SPECIFICATION Spec
CONSTANTS
    Threads = {t1, t2}
    Servers = {s1, s2}
    IDs <- ThreeIDs
    PER_ROW = 2
    CLIENT_PER_ROW = 3
    TIMEOUT = 1
    MAX_TIME = 2
    MAX_CALLS = 5
CHECK_DEADLOCK FALSE
SYMMETRY ThreadSymmetry
INVARIANTS SessionsWhole RowIsLastStored SomeoneProceeds
