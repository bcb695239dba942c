SPECIFICATION Spec
CONSTANTS
  Proc = {p1, p2, p3, p4}
  NCpu = 2
  NORMAL_LEVEL_MAX = 2
  UNIT_QUANTUM = 4
  TICK = 2
  QMod = 16
  None = None
SYMMETRY ProcSymmetry
INVARIANTS QueuesAreExact AssertionsHold
PROPERTIES RunsUntilItBlocks
CHECK_DEADLOCK FALSE
