SPECIFICATION LogSpec
CONSTANTS
  Session = {s1, s2, s3}
  Body <- MCBody
  Forgery <- MCForgery
  Shifted <- MCShifted
  MaxRecords = 3
  MaxTouches = 2
SYMMETRY Symmetry
INVARIANTS
  LogTypeOK
  
  AlarmHasCause
