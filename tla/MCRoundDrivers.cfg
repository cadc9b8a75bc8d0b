SPECIFICATION FairSpec
CONSTANTS
  Client = {c1, c2}
  Request = {r1, r2}
  Sweep = Sweep
  MaxRounds = 2
  MaxRound = 2
CHECK_DEADLOCK FALSE
INVARIANTS
  TypeOK
  RecordsMoveOn
  AloneItOwnsItsRounds
PROPERTY EveryOperationEnds
