SPECIFICATION Spec
CONSTANTS
  MaxLines = 3
  MaxCols = 4
  Visible = 2
  Bytes <- AllBytes
  Files <- AllFiles
  Plain = {"a"}
  MaxKeys = 6
INVARIANTS
  TypeOK
  SavedIsKept
PROPERTIES
  ImplementsTextBuffer
