CONSTANTS
  Cards <- MCCards
  None = None
  Modes = {"1356M", "1356M2", "900M"}
  MaxAsked = 2
  MaxLine = 4
  Players = {p1, p2}
  MaxBuffers = 2
SPECIFICATION Spec
SYMMETRY Symmetry
PROPERTIES FreshCard OncePerVisit GoodFrameTaken CutByStop
CHECK_DEADLOCK FALSE
