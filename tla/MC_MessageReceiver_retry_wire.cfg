\* One caller; the peer retries a send() that threw temporarily_unavailable
\* once, so the wire may carry a duplicated prefix and length fields that
\* no frame declared.  The framer must still frame exactly what it received
\* (WireFramesPreserved).
CONSTANTS
  Threads = {t1}
  Getters = {t1}
  NoThread = NoThread
  Frames <- TwoFrames
  Radix = 4
  RecvBuf = 10000
  Blocking = FALSE
  MaxRetries = 1
SPECIFICATION Spec
INVARIANT WireFramesPreserved
