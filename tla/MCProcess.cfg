SPECIFICATION MCSpec
CONSTANTS
    Root = Root
    p1 = p1
    p2 = p2
    p3 = p3
    None = None
    NULL = NULL
    Procs = {Root, p1, p2, p3}
    Word = 4
    Byte = 2
    Words = 3
    Holder = {1, 2, 3, 4, 5}
    KDEBUG = FALSE
SYMMETRY Symmetry
INVARIANTS FamilyIsTree HandlesAreCounted  
 
CHECK_DEADLOCK FALSE
