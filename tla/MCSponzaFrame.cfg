CONSTANTS
  NFrames = 60
  NMeshes = 2
  Null = Null
INIT SFInit
NEXT SFNext
CHECK_DEADLOCK FALSE
INVARIANT DrawsReadLiveVariables
