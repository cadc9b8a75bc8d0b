SPECIFICATION Spec
CONSTANTS
  Request = {r1, r2}
  Email = {e1, e2}
  Id = {i1, i2, i3}
  NoId = NoId
  Key = {k1, k2}
  NoKey = NoKey
  MAX_LOGIN_ATTEMPTS = 2
  LOCKOUT_WINDOW = 2
  TOKEN_LIFE = 2
  MaxTime = 3
  MaxRun = 2
  MaxLogins = 2
SYMMETRY Symmetry
INVARIANTS
  TypeOK
  LockedByFailuresOnly
  AdmittedUntilLogout
