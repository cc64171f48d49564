CONSTANTS
  Producers = {p1, p2}
  NULL = NULL
  MaxEntries = 3
SPECIFICATION FairSpec
INVARIANTS NoSleepOverEntries
PROPERTIES FifoSpec Drained
CHECK_DEADLOCK FALSE
