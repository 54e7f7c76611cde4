SPECIFICATION Spec
CONSTANTS
    LengthOf <- Lengths
    DTLS_POOL_SZ = 3
    DTLS_FRAG_POOL_SZ = 2
    Mixed = {TRUE, FALSE}
INVARIANTS
    DeliveredExact
    BucketsExact
    ReceivedExact
    NothingLost
    NextIsHeadUnlessMixed
PROPERTY
    AllDelivered
CHECK_DEADLOCK FALSE
