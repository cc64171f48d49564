CONSTANTS
  Callers = {c1}
  Captures = {k1}
  Threads = {t1, t2}
  None = None
SPECIFICATION FairSpec
PROPERTIES TakePictureReturns CameraReturned
CHECK_DEADLOCK FALSE
