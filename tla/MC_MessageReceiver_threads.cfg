\* Two callers share one MessageReceiver (spec section 5: the mutex
\* serializes concurrent calls): t1 calls getNextMessage, t2 only polls
\* with messageAvailable.  Expected: FramesPreserved is violated because
\* getNextMessage reads piece_length before sock_mutex is taken, and the
\* poller's receive in between makes it stale.
CONSTANTS
  Threads = {t1, t2}
  Getters = {t1}
  NoThread = NoThread
  Frames <- TwoFrames
  Radix = 4
  RecvBuf = 10000
  Blocking = FALSE
  MaxRetries = 0
SPECIFICATION Spec
INVARIANT FramesPreserved
