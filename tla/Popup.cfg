\* A drop-down at the top and at the bottom of two windows.
SPECIFICATION CtSpec
CONSTANTS
    Options = 3
    Tops = {0, 3}
    Heights = {5, 8}
    Track = 5
    Sliders <- SliderRanges
    Bits = 4
INVARIANT PopupTakesPress
