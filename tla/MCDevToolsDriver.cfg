SPECIFICATION FairSpec
CONSTANT MaxFaults = 2
INVARIANTS
  SnapshotShowsVerdict
  OkMeansPassOrClosed
PROPERTIES
  VerdictIsReported
CHECK_DEADLOCK FALSE
