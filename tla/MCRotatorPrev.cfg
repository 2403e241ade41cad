CONSTANTS
  Sizes = {1, 2}
  MaxLag = 3
SPECIFICATION Spec
INVARIANT PrevIsClosed
CHECK_DEADLOCK FALSE
