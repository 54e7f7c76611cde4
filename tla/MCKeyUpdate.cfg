SPECIFICATION Spec
CONSTANTS
    EPOCH_SIZE = 4
    RETRANS_RN_SIZE = 1
    ACK_MAX_RECORDS = 2
    EPOCH_MAX = 99
    FAIL_LIMIT = 9
    FAIL_KU_LIMIT = 8
    TIMEOUTS = 1
    SEND_MORE_ACKS = FALSE
    CLIENT_MSGS = 2
    SERVER_MSGS = 2
    TICKETS = TRUE
    DATA = FALSE
    DAMAGE = FALSE
    MAX_SEQ = 2
    NET = 2
    LOSSES = 0
CHECK_DEADLOCK FALSE
INVARIANTS
    TypeOK
    NothingForgotten
    OneKeyUpdateInFlight
    CurrentEpochReadable
    HeaderNamesKeys
    StateErrorMeansEvicted
PROPERTIES
    EpochsInLockstep
