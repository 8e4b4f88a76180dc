SPECIFICATION HarnessFairSpec
CONSTANTS
  MaxFaults = 2
  Attempts = 3
  MayHang = TRUE
  MayKill = TRUE
INVARIANTS
  HarnessTypeOK
  CertifiedMeansPass
  CertifiesOwnOrOrphaned
  NothingLeaks
PROPERTIES
  AttemptEnds
CHECK_DEADLOCK FALSE
