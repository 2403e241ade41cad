CONSTANTS
  Sizes = {1, 2}
  MaxLag = 3
SPECIFICATION Spec
INVARIANTS IInv WritesFreeSlotWhenCalm WaitsForReplacedFrame FreedMemoryLeavesTheScreen AbortsOnlyOnFailure
CHECK_DEADLOCK FALSE
