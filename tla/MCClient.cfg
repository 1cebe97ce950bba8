SPECIFICATION LoadSpec
CONSTANTS
  Frames = {f1, f2}
  NoFrame = NoFrame
  MaxTasks = 2
  MaxRunning = 1
INVARIANTS
  ClientIInv
  DrawsIntoWindow
  CameraFollowsRequests
PROPERTIES
  FrameIsStable
  OneCallPerScan
  PictureIsCurrent
  CommandsAreProcessed
  RecognitionEnds
CHECK_DEADLOCK FALSE
