\* Two scenes, see MCInput.
SPECIFICATION MCSpec
CONSTANTS
    Scenes = {"widgets", "rows"}
    label = label
    button = button
    menu1 = menu1
    menu2 = menu2
    inner = inner
    list = list
    outer = outer
    above = above
    below = below
    None = None
    Leaves <- AllLeaves
    Recycled <- RowNodes
    Focusable <- AllFocusable
    Dropdowns <- Menus
    Containers <- Boxes
    Consumers <- Consuming
    Chain <- Parents
    TreeOrder <- AllInOrder
    MaxOffsetOf <- Overflow
    Track = 2
    Ys = {0, 2}
    Deltas <- WheelTurns
    Buttons = {1, 3}
    KeysUsed = {"tab", "shift_tab", "page_up", "page_down", "enter", "escape"}
    Before <- above
    After <- below
    RowButtons = {1}
    MaxNodes = 2
    Keys = {one, two}
    RowH = 1
    Overscan = 0
    Heights = {1, 2}
    MaxBatch = 1
    MaxErases = 1
INVARIANTS LooksMatch ReleaseReachesPressed DragHeld OrderIsLive
PROPERTY PopupKept
SYMMETRY KeySymmetry
