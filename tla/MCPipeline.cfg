SPECIFICATION Spec
CONSTANTS
  Process = {p1, p2}
  MaxId = 1
  Request = {r1, r2}
  MAX_SUPERVISED_CLIENTS = 1
  MaxPreparations = 2
  NoProcess = NoProcess
SYMMETRY Symmetry
INVARIANTS
  TypeOK
  RegisteredIsAccountedFor
  OneCorpus
PROPERTIES
  ForgetsOnlyItsOwn
