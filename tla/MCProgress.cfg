SPECIFICATION MCSpec
CONSTANTS
    Stub = Stub
    Client = {Stub}
    Kinds = {"good"}
    Replies = {"good"}
    Limit = 2
    Keys = {"a", "b"}
    DevMax = 2
    Root = Root
    p1 = p1
    p2 = p2
    c1 = c1
    c2 = c2
    None = None
    NULL = NULL
    Garbage = Garbage
INVARIANTS DialogueIsExact OutputIsWhole
PROPERTIES   AllComeUp WalksAreExact PanicHalts
CHECK_DEADLOCK FALSE
