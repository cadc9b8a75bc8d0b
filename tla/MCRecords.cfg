SPECIFICATION Spec
CONSTANTS
  Worker = {1, 2}
  Sweeper = 0
  User = {1, 2}
  Id = {1, 2}
  Consented <- Consents
  Existing <- Reminders
  Offered <- Requests
  Changes <- Updates
  MaxRequests = 3
  MaxCrashes = 1
CHECK_DEADLOCK FALSE
INVARIANTS
  TypeOK
  AuditAgreesWithEffects
  ConsentBehindEffects
  OwnersOnly
  NeverFiredTwice
PROPERTIES
  DueRemindersFire
