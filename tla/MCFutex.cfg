SPECIFICATION Spec
CONSTANTS
    p1 = p1
    p2 = p2
    p3 = p3
    Proc = {p1, p2, p3}
    NoProc = NoProc
    Addr = {1, 3}
    Val = {0, 1}
    Count = {1, 3}
    CountMod = 4
    Plain = {3}
    futex_size = 2
SYMMETRY Symmetry
INVARIANTS
    TypeOK
    WaitersAccounting
    EntriesAreSleepers
PROPERTY
    ImplementsAbstract
CHECK_DEADLOCK FALSE
