SPECIFICATION FsSpec
CONSTANTS
  FsFrames <- MCFrames
  FsSent = 2
  FsChunks = {5, 16}
  FsFaults = 0
INVARIANTS
  FramesComplete
CHECK_DEADLOCK FALSE
