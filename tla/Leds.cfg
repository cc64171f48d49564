CONSTANTS
  t1 = t1
  t2 = t2
  t3 = t3
  Users = {u1, u2}
  Timers = {t1, t2, t3}
  Uses <- MCUses
  None = None
SPECIFICATION FairSpec
INVARIANTS PulseHasTimer
PROPERTIES PulseIntact OffReturns PulseEnds StoppedBlinkEnds
CHECK_DEADLOCK FALSE
