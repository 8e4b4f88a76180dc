SPECIFICATION Spec
CONSTANTS
  Runs = {r1}
  MaxFaults = 0
  MaxForeign = 0
  MaxPolls = 2
  BundleKinds <- ExactBundle
  CloneOutcomes <- HeadlessClone
INVARIANTS
  CleanRunSucceeds
CHECK_DEADLOCK FALSE
