CONSTANTS
  Cards = {c1, c2}
  Readers = {r1}
  NoCard = NoCard
  UseLocalDB = FALSE
  MaxChanges = 2
  MaxRestarts = 1
SPECIFICATION FairSpec
INVARIANTS WholeFileLoaded AnswerJustified
PROPERTIES MissOnlyWhileReloading Converges
CHECK_DEADLOCK FALSE
