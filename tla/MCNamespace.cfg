SPECIFICATION Spec
CONSTANTS
  Names <- ThreeNames
  Trees <- SmallTrees
  MaxDepth = 3
  MaxOps = 4
  HandleLimit = 4
CHECK_DEADLOCK FALSE
INVARIANTS TypeOK TreeIntact PanicNeedsBareRename HandleFaithful ListingComplete
PROPERTY RenameKeepsFiles
