SPECIFICATION Spec
CONSTANTS
  Letters = {"quote", "id", "is", "iso", "value", "v"}
  Digits = {"1"}
  DartKeywords = {"is"}
  NoDocument = NoDocument
  Index <- Files
  Projected = "pre-interest"
  Adapters <- Emitted4
  Manifest = "rust-wasm manifest"
  Contracts <- SomeContracts
  Documents <- SomeDocuments
  Revisions <- SomeRevisions
  MaxCommands = 1
  MaxEdits = 0
INVARIANTS
  TypeNamesAreDistinct
CHECK_DEADLOCK FALSE
