SPECIFICATION FrameSpec
CONSTANTS
  BufSize = 20
  Frames <- MCFrames
  Noise <- MCNoise
  Filler = 1
 
INVARIANT NeverWedged
CHECK_DEADLOCK FALSE
