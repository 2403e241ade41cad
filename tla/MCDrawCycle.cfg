SPECIFICATION FairSpec
INVARIANTS PipesUnsetOnSignal WaitHasWaker CycleDrawsLiveDisplays PipesFreed IInv
PROPERTIES PaddingRoundFirst ClosedOnlyUnstaged UeventReturns
