\* One caller; the peer declares the largest uint32_t length.  Expected:
\* FramesPreserved is violated because piece_length = length + 4 wraps.
CONSTANTS
  Threads = {t1}
  Getters = {t1}
  NoThread = NoThread
  Frames <- HugeLengthFrames
  Radix = 4
  RecvBuf = 10000
  Blocking = FALSE
  MaxRetries = 0
SPECIFICATION Spec
INVARIANT FramesPreserved
