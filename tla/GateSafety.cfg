CONSTANTS
  Rfids = {r1, r2}
  Consoles = {c1}
  MayHang = {}
  UseLocalDB = FALSE
  UseSound = TRUE
SPECIFICATION Spec
SYMMETRY Symmetry
INVARIANTS FlagsRight OneResult OnlyEarlyCardsCrash LedAgrees
CHECK_DEADLOCK FALSE
