CONSTANTS
  Devices <- MCDevices
  NUM_RENDER_BUFFERS = 2
  MAX_BLIT_OBJECT_COUNT = 2
  MaxSurfaces <- MCMaxSurfaces
  MaxLayers = 2
  MaxClips = 1
  MaxLag = 2
SPECIFICATION Spec
INVARIANTS IInv FrameReachesItsBuffer DrawsFromMappedMemory ScanoutNeverRaces
PROPERTIES FramesComplete
CHECK_DEADLOCK FALSE
