SPECIFICATION SecAggSpec
CONSTANTS
  Client = {1, 2, 3}
  Dropper = {}
  RoundSizes = {3}
  Sigma = {0}
  MaxRound = 2
  NoKey = NoKey
  Key <- MCKey
  Failures = {"lost", "timeout", "crash", "reset"}
  MaxFaults = 2
CHECK_DEADLOCK FALSE
INVARIANTS
  SecAggTypeOK
  SumIsUnmasked
  EverySurvivorReported
  NeverBothOfOneInstance
  RevealNeverFails
PROPERTY ServerBehaves
