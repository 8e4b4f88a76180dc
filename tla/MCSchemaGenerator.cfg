SPECIFICATION Spec
CONSTANTS
  Letters = {"quote", "id", "is", "iso", "value", "v"}
  Digits = {"1"}
  DartKeywords = {"is"}
  NoDocument = NoDocument
  Index <- Files
  Projected = "pre-interest"
  Adapters <- Emitted4
  Manifest = "rust-wasm manifest"
  Contracts <- SomeContracts
  Documents <- SomeDocuments
  Revisions <- SomeRevisions
  MaxCommands = 2
  MaxEdits = 1
INVARIANTS
  SuccessMeansCurrent
  ComplaintIsReal
  RefusalKeepsTree
  GoFieldsAreDistinct
  RustFieldsAreDistinct
CHECK_DEADLOCK FALSE
