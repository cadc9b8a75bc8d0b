SPECIFICATION Spec
CONSTANTS
  Client = {c1, c2, c3}
  Key = {k1}
  NoKey = NoKey
  Sigma = {0, 1}
  MaxRound = 2
SYMMETRY Symmetry
INVARIANTS
  TypeOK
  RoundShape
  NeverBothOpened
  LedgerCountsNoisedUpdates
  HistoryExplainsModel
  QuorumBehindResult
PROPERTIES
  ClosedIsFinal
  IdNamesOneRound
  ImplementsRound
