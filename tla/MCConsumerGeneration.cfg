SPECIFICATION Spec
CONSTANTS
  w1 = w1
  w2 = w2
  w3 = w3
  Invocations = {w1, w2, w3}
  Modes <- WritersAndChecker
  MaxRunning = 2
  Families = {1, 2}
  Projections <- SomeProjections
  Leftovers <- OneLeftover
  ArgLists <- SomeArgs
  Languages = {"rust", "typescript"}
  Retired = {"ruby"}
  RejectedVersions = {3}
  MaxEdits = 1
INVARIANTS
  OnlyAdmittedContent
  RefusalTouchesNothing
  NoMixedBundle
  CurrentIsWhole
  DriftIsReal
SYMMETRY Symmetric
CHECK_DEADLOCK FALSE
