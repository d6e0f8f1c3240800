\* One caller on a socket built with ClientSocket's default sock_flags = 0,
\* which is blocking, where spec section 4.7 specifies a non-blocking receive.
\* Expected: InterruptHonoured is violated: the caller sits in read().
CONSTANTS
  Threads = {t1}
  Getters = {t1}
  NoThread = NoThread
  Frames <- TwoFrames
  Radix = 4
  RecvBuf = 10000
  Blocking = TRUE
  MaxRetries = 0
SPECIFICATION Spec
PROPERTY InterruptHonoured
