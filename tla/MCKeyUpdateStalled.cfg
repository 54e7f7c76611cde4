SPECIFICATION PromptSpec
CONSTANTS
    EPOCH_SIZE = 4
    RETRANS_RN_SIZE = 3
    ACK_MAX_RECORDS = 2
    EPOCH_MAX = 99
    FAIL_LIMIT = 9
    FAIL_KU_LIMIT = 8
    TIMEOUTS = 3
    SEND_MORE_ACKS = FALSE
    CLIENT_MSGS = 1
    SERVER_MSGS = 2
    TICKETS = TRUE
    DATA = FALSE
    DAMAGE = FALSE
    MAX_SEQ = 7
    NET = 9
    LOSSES = 1
CHECK_DEADLOCK FALSE
INVARIANTS PeerAnswersInTime
