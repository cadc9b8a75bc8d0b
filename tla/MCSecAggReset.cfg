SPECIFICATION FairSpec
CONSTANTS
  Client = {1, 2}
  Dropper = {}
  RoundSizes = {2}
  Sigma = {0}
  MaxRound = 2
  NoKey = NoKey
  Key <- MCKey
  Failures = {"reset"}
  MaxFaults = 1
CHECK_DEADLOCK FALSE
PROPERTY RoundAfterResetCompletes
