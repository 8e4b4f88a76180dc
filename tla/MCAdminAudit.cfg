SPECIFICATION Spec
CONSTANTS
  ann = ann
  bob = bob
  e1 = e1
  e2 = e2
  NoCall = NoCall
  Sessions = {s1, s2}
  Users = {ann, bob}
  EventIds = {e1, e2}
  Calls <- MCCalls
  Grants <- MCGrants
INVARIANTS
  SuccessWasAuthorized
  ReturnedIsRecorded
CHECK_DEADLOCK FALSE
