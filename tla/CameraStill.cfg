CONSTANTS
  Callers = {c1}
  Captures = {k1, k2}
  Threads = {t1, t2}
  None = None
SPECIFICATION Spec
SYMMETRY Symmetry
PROPERTIES OwnPicture NotUnderCapture
CHECK_DEADLOCK FALSE
