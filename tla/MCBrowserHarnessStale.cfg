SPECIFICATION HarnessSpec
CONSTANTS
  MaxFaults = 1
  Attempts = 2
  MayHang = FALSE
  MayKill = TRUE
INVARIANTS
  CertifiesOwnProcesses
CHECK_DEADLOCK FALSE
