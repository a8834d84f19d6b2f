SPECIFICATION Spec
CONSTANTS
  Contents = {"plain", "marked", "encrypted"}
  Reloadable <- MCReloadable
  MaxUndo = 3
  Nothing = Nothing
  Torn = Torn
INVARIANTS TypeOK
PROPERTIES HistorySpec
