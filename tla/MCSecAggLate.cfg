SPECIFICATION SecAggSpec
CONSTANTS
  Client = {1, 2, 3}
  Dropper = {}
  RoundSizes = {2, 3}
  Sigma = {0}
  MaxRound = 1
  NoKey = NoKey
  Key <- MCKey
  Failures = {"lost", "late", "crash", "evaluate"}
  MaxFaults = 3
INVARIANTS
  SumIsUnmasked
