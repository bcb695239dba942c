SPECIFICATION Spec
CONSTANTS
    Proc = {p1, p2}
    PM_MAP_ELEMENTS = 3
    Width = 8
    Reserved = {0}
    Counts = {1, 4}
    MaxHeld = 2
    NULL = NULL
PROPERTY NewFrameIsMine
CHECK_DEADLOCK FALSE
