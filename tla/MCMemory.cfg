SPECIFICATION MCSpec
CONSTANTS
    Proc = {p1, p2}
    PM_MAP_ELEMENTS = 4
    Width = 8
    Reserved = {0, 3}
    Counts = {2, 5}
    MaxHeld = 2
    sp1 = sp1
    sp2 = sp2
    sp3 = sp3
    NULL = NULL
    User = {1, 2}
    Space = {1, 2}
    space <- UserSpace
    Below <- UserBelow
    Pages = 2
    PAGE = 2
    Bare = {}
    Starts = {1, 2}
    Sizes = {0, 2}
    Ops = {"read", "write", "receive", "response", "ifce", "wait", "wake"}
    Low <- EmptyTable
    MaxFrame = 1
SYMMETRY Symmetry
INVARIANTS FramesAreCounted TablesAreCounted KernelHeapIsSound   NoDeadlock
 
CHECK_DEADLOCK FALSE
