SPECIFICATION Spec
CONSTANTS
  A = A
  B = B
  low = low
  Facts <- MCFacts
  Forms <- MCForms
  Names <- MCNames
  Portable <- MCPortable
  NoIr = NoIr
  NoFile = NoFile
  Torn = Torn
  NoCount = NoCount
  MaxEdits = 1
  Digests = {"digest"}
  Texts = {"first", "second", "inside"}
  Hosts = {"db"}
  Instants = {"instant"}
  Undefined = Undefined
INVARIANTS
  TypeOK
  OnlyAgreedContent
  RefusedForIdentity
PROPERTIES
  CheckIsTrue
CHECK_DEADLOCK FALSE
