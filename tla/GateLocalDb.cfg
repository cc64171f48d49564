CONSTANTS
  Rfids = {r1}
  Consoles = {}
  MayHang = {}
  UseLocalDB = TRUE
  UseSound = TRUE
SPECIFICATION Spec
INVARIANT UnknownNotShown
CHECK_DEADLOCK FALSE
