SPECIFICATION MCSpec
CONSTANTS
    c1 = c1
    NULL = NULL
    N = 4
    Dead = {2}
    Prompt = TRUE
 
PROPERTIES StartsAreApart TimersRunInOrder
CHECK_DEADLOCK FALSE
