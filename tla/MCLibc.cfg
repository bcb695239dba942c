SPECIFICATION Spec
CONSTANTS
    Moving = {"DlTree", "Dlmalloc", "Strings", "Format", "AtExit"}
    MapReturns = "address"
    NULL = NULL
    BIN = BIN
    None = None
    Star = Star
INVARIANTS TreesAreBestFit HeapIsSound StringsAreExact FormatIsStandard HandlersInOrder
PROPERTIES FootprintIsKept
CHECK_DEADLOCK FALSE
