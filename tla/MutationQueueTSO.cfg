CONSTANTS
    Producers = {p1, p2}
    MaxPosts = 2
    MaxInline = 1
    StoreBuffer = TRUE
SPECIFICATION SafeSpec
INVARIANT NoLostWakeup
CHECK_DEADLOCK FALSE
