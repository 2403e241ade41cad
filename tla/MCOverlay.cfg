CONSTANTS
  NumPipes = 4
  pipeTypeLUT <- MCPipeTypes
  NumDisplays = 2
  Mixers <- MCMixers
  MaxLayers = 2
SPECIFICATION Spec
INVARIANTS WrapperMatchesBook DrawnPipesLive NextPipeIsFresh NoStaleScanout IInv
PROPERTIES FailuresStayLocal ImplementsOwnership
