\* Four programs, see MCModelApp.
CONSTANTS
    Primary = Primary
    Second = Second
    Debug = Debug
    NoWindow = NoWindow
    FadeTicks = 2
    Programs <- AllPrograms
SPECIFICATION Spec
INVARIANTS TickAlive PublishedAtRest
PROPERTY LoopProgresses
\* Bounds spent, or the program ended.
CHECK_DEADLOCK FALSE
