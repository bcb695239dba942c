SPECIFICATION LiveSpec
CONSTANTS
  Client = {c1, c2}
  Kinds = {"good", "long", "unreadable"}
  Replies = {"good", "oversize", "unwritable", "bad"}
  NULL = NULL
INVARIANTS ServerIsInOrder AnswerIsMine
PROPERTIES FinishedReturns
CHECK_DEADLOCK FALSE
