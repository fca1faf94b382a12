\* Ten scenes, see MCWidgets.
SPECIFICATION MCSpec
CONSTANTS
    Scenes = {"layout", "tree", "text", "tabs", "table", "plot", "data", "controls", "frame", "list"}
    RowH = 2
    Overscan = 1
    TableSizes <- TwoSizes
    TableRows = 4
    TableErases = 1
    WheelStep = 5
    PageStep = 16
    TablePresses = {1, 5}
    Options = 3
    Tops = {0, 3}
    Rooms = {5, 8}
    Track = 5
    SliderRanges <- ThreeRanges
    Bits = 4
    Edge = 1
    TitleBar = 2
    Button = 1
    MinWidth = 5
    MinHeight = 5
    FrameSizes <- LeastAndAbove
    Places = {0, 1}
    PointerSteps <- ThreeSteps
    Pixels = {0, 1, 2, 3, 4, 5}
    CursorShapes = {"text"}
    ChromeActs = 2
    Panels = {"a", "b"}
    Bottom = "b"
    Spots <- FourSpots
    Centers = {32, 48}
    LowZoom <- TwiceTheRange
    MaxZoom = 1
    MaxPan = 32
    PlotActs = 3
    Keys = {k1, k2, k3}
    ListHeights = {2, 3}
    ListDeltas <- Turns
    MaxBatch = 2
    MaxErases = 1
    Tree <- Screen
    Kind <- Kinds
    Changing = {"tree"}
    Expands = {"tree"}
    Root = "root"
    Thickness = 1
    MinPane = 2
    LeafBox <- Box
    Windows <- WindowBoxes
    Pointers = {0, 3, 9}
    Wheels <- WheelTurns
    MaxTouches = 1
    MaxResizes = 2
INVARIANTS ScreenIsCurrent SplitsHold TreeShown TextShown TabsHold ListShown
PROPERTIES TableShown PlotHolds DataShown ControlsFollow ResizeStaysPut
SYMMETRY KeySymmetry
\* Bounds spent.
CHECK_DEADLOCK FALSE
