\* One caller; the peer retries a send() that threw temporarily_unavailable
\* once (spec section 7: "Caller may retry").  Expected: FramesPreserved is
\* violated: the retry rewrites the frame from its first byte after part
\* of it was already written.
CONSTANTS
  Threads = {t1}
  Getters = {t1}
  NoThread = NoThread
  Frames <- TwoFrames
  Radix = 4
  RecvBuf = 10000
  Blocking = FALSE
  MaxRetries = 1
SPECIFICATION Spec
INVARIANT FramesPreserved
