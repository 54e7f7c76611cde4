SPECIFICATION Spec
CONSTANTS
    EPOCH_SIZE = 4
    RETRANS_RN_SIZE = 1
    ACK_MAX_RECORDS = 2
    EPOCH_MAX = 99
    FAIL_LIMIT = 1
    FAIL_KU_LIMIT = 0
    TIMEOUTS = 0
    SEND_MORE_ACKS = FALSE
    CLIENT_MSGS = 2
    SERVER_MSGS = 0
    TICKETS = FALSE
    DATA = TRUE
    DAMAGE = TRUE
    MAX_SEQ = 1
    NET = 3
    LOSSES = 0
CHECK_DEADLOCK FALSE
INVARIANT CurrentEpochReadable
