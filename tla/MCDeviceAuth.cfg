SPECIFICATION Spec
CONSTANTS
  ExpiresIn = 7
  Interval = 2
  SlowStep = 2
  MaxPost = 1
  MaxLatency = 1
  MaxSlow = 2
INVARIANTS
  TypeOK
  PollsKeepTheirDistance
  NoPollLongAfterDeadline
  TimelyApprovalCounts
PROPERTIES
  ImplementsGrant
CHECK_DEADLOCK FALSE
