CONSTANTS
  Rfids = {r1}
  Consoles = {}
  MayHang = {"main"}
  UseLocalDB = FALSE
  UseSound = FALSE
SPECIFICATION FairSpec
PROPERTIES JobsRecur TimeIsSet
CHECK_DEADLOCK FALSE
