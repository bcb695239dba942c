SPECIFICATION LSpec
CONSTANTS
    p1 = p1
    p2 = p2
    p3 = p3
    Proc = {p1, p2, p3}
    NoProc = NoProc
    Addr = {1}
    Val = {0, 1}
    Count = {3}
    CountMod = 4
    Plain = {}
    futex_size = 2
    MaxCalls = 2
INVARIANT NoLostWakeup
PROPERTY ChangedWordWakes
CHECK_DEADLOCK FALSE
