\* Two producers, two posts each, one inline post, sequentially consistent.
CONSTANTS
    Producers = {p1, p2}
    MaxPosts = 2
    MaxInline = 1
    StoreBuffer = FALSE
SPECIFICATION Spec
INVARIANTS NoLostWakeup OneDrainPerBurst ProducerOrder
PROPERTY ImplementsMailbox
\* Everything posted, run and closed: the program ends.
CHECK_DEADLOCK FALSE
