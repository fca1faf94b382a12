\* Two producers; two observers that, of a Shared, post twice and throw once.
SPECIFICATION MCSpec
CONSTANTS
    Scenes = {"shared", "channel", "graph", "clock"}
    Producers = {p1, p2}
    Observers = 2
    MaxSets = 4
    MaxReenter = 2
    MaxThrows = 1
    NoItem = NoItem
    Sends = 2
    Posts = 1
    Throws = 1
    Fields = {"A", "E"}
    Deriveds = {"B", "C", "D"}
    Watchers = {"onA1", "onA2", "onD", "onE"}
    Subs <- DiamondSubs
    Compute <- DiamondCompute
    Value <- DiamondValues
    Input = {0, 1, 2}
    Initial <- AllZero
    MaxWaves = 4
    FieldSets = 3
    MaxTxns = 2
    Guarded = {"a", "b"}
    Follows <- FirstFollows
    Anims = {"x", "y"}
    Duration = 2
    MaxValue = 2
    ClockSets = 3
INVARIANTS LatestDelivered FirstCatchesUp ChannelOrder GraphConsistent ClockMatches
PROPERTIES NeverBackwards EverySignalReaches ComesToRest TargetReached
\* Bounds spent, everything delivered: the program waits.
CHECK_DEADLOCK FALSE
