SPECIFICATION Spec
CONSTANTS
    p1 = p1
    p2 = p2

    Proc = {p1, p2}
    NoProc = NoProc
    Addr = {1}
    Val = {0, 1}
    Count = {3}
    CountMod = 4
    Plain = {1}
    futex_size = 2
SYMMETRY Symmetry
INVARIANTS
    NoLostWakeup
CHECK_DEADLOCK FALSE
