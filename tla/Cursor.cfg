\* The two threads that set the cursor, in either order.
SPECIFICATION WcSpec
CONSTANTS
    Edge = 1
    TitleBar = 2
    Button = 1
    MinWidth = 5
    MinHeight = 4
    WindowSizes <- WindowBoxes
    Places = {0, 1}
    Pixels = {0, 1, 2, 3, 4, 5, 6}
    Steps <- PointerSteps
    Shapes <- OneShape
    MaxChromeActs = 2
INVARIANT CursorKnown
\* Bounds spent.
CHECK_DEADLOCK FALSE
