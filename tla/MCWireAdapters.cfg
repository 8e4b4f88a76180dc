SPECIFICATION Spec
CONSTANTS
  Types <- MCTypes
  Inner <- MCInner
  Vocabulary <- MCVocabulary
  Values <- MCValues
  MaxItems = 2
  Numbers <- MCNumbers
  Exact <- MCExact
  AsDouble <- MCAsDouble
  Notation <- MCNotation
INVARIANTS
  EveryAdapterReads
  NothingIsLost
  AdaptersAgree
CHECK_DEADLOCK FALSE
