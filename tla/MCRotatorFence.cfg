CONSTANTS
  Sizes = {1, 2}
  MaxLag = 3
SPECIFICATION Spec
INVARIANT WritesFreeSlot
CHECK_DEADLOCK FALSE
