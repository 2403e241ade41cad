CONSTANTS
  N = 3
  Kinds = {"rgb", "unfit", "rotated"}
  MAX_PIPES_PER_MIXER = 3
  NumPipes = 3
  NumDMAPipes = 1
SPECIFICATION Spec
INVARIANTS StackFollowsList StagesSuffice KeptBufferIsCurrent IInv
