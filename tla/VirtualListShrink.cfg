SPECIFICATION Spec
CONSTANTS
    Keys = {k1, k2, k3, k4}
    RowH = 2
    Overscan = 1
    Heights = {2, 3}
    Deltas <- WheelSteps
    MaxBatch = 3
    MaxErases = 3
INVARIANTS NeverThrows
SYMMETRY KeySymmetry
