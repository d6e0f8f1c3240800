\* One caller on a non-blocking socket, two frames split arbitrarily.
CONSTANTS
  Threads = {t1}
  Getters = {t1}
  NoThread = NoThread
  Frames <- TwoFrames
  Radix = 4
  RecvBuf = 10000
  Blocking = FALSE
  MaxRetries = 0
SPECIFICATION Spec
INVARIANTS TypeOK FramesPreserved AvailableMeansReady
PROPERTIES CallCompletes InterruptHonoured ImplementsFrameChannel
