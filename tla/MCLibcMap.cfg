SPECIFICATION Spec
CONSTANTS
    Moving = {"Dlmalloc"}
    MapReturns = "argument"
    NULL = NULL
    BIN = BIN
    None = None
    Star = Star
INVARIANT HeapIsMapped
CHECK_DEADLOCK FALSE
