CONSTANTS
  Sheets = {t1, t2}
  Stamps = {s1, s2}
  Gates = {g1, g2}
  MaxReboots = 1
  NoSheet = NoSheet
  NoStamp = NoStamp
  NoFile = NoFile
  Torn = Torn
SPECIFICATION FairSpec
INVARIANTS TypeOK Accounted DuplicateOnlyAfterFailure
PROPERTIES LastCopyKept OutboxSpec Delivery InsertReturns
