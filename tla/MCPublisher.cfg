SPECIFICATION FairSpec
CONSTANTS
  Runs = {r1, r2}
  MaxFaults = 1
  MaxForeign = 1
  MaxPolls = 2
  BundleKinds <- AllBundles
  CloneOutcomes <- EitherClone
INVARIANTS
  TypeOK
  WritesAreVetted
  SuccessIsTrue
  LateFailureLostACall
PROPERTIES
  ForeignWorkSurvives
  OnlyTheCloneFails
  RunsEnd
CHECK_DEADLOCK FALSE
