SPECIFICATION FairSpec
CONSTANTS
  Client = {1, 2, 3, 4, 5}
  Dropper = {5}
  RoundSizes = {5}
  Sigma = {0}
  MaxRound = 1
  NoKey = NoKey
  Key <- MCKey
  Failures = {"train"}
  MaxFaults = 1
PROPERTY RoundCompletes
