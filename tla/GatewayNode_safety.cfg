SPECIFICATION NodeSpec
CONSTANTS
  Lines = 5
  BatchSize = 2
  Dsts = 2
  MaxCrashes = 2
  Askers = {"B", "C"}
  Width = 4
  First = 1
  Empty = Empty
CHECK_DEADLOCK FALSE
INVARIANTS TypeOK MovedPastIsPublished FileOnceInOrder UploadInvariant IdsInvariant NumbersDiffer
PROPERTY WholeFileArrives
