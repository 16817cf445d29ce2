SPECIFICATION FairWriterSpec
CONSTANTS
  f1 = f1
  f2 = f2
  f3 = f3
  Frames <- MCFrames
  Bytes <- MCBytes
  maxFrameBytes = 2
  maxBufferedBytes = 4
  IdleClose = TRUE
CHECK_DEADLOCK FALSE
PROPERTY
  WritesEnd
