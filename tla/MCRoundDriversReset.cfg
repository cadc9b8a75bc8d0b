SPECIFICATION Spec
CONSTANTS
  Client = {c1, c2}
  Request = {r1}
  Sweep = Sweep
  MaxRounds = 1
  MaxRound = 2
CHECK_DEADLOCK FALSE
PROPERTY NeverResetsAwaitedRound
