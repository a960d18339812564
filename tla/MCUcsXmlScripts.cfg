CONSTANTS
  Entries = {"Parse", "ParseScript"}
  Names = {"a", "b"}
  MaxNodes = 3
  MaxScripts = 3
  Contents <- MCContents
  Compact = FALSE
  ByteRange = 16
SPECIFICATION Spec
INVARIANTS   ScriptsOfDocument
CHECK_DEADLOCK FALSE
