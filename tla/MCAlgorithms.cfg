SPECIFICATION Spec
CONSTANTS
  PRIME = 5
  UNIT = 2
  SLACK = 1
  LEVELS = 7
  MODULUS = 32
  MaxShares = 4
  MaxUpdates = 4
  Hours <- MCHours
  Days <- MCDays
  Refs <- MCRefs
  LastDay = 9
INVARIANTS
  SharesRevealExactly
  SumWithinRounding
  NamesFirstSuchMoment
