SPECIFICATION Spec
CONSTANTS
  Layouts <- MCLayouts
  MaxSignatures = 3
  MaxRevisions = 3
CHECK_DEADLOCK FALSE
INVARIANTS TypeOK NewestIsFound StoreNamesASignature
PROPERTIES HistorySpec ListsAreKept
