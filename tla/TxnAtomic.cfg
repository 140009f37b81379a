SPECIFICATION Spec

CONSTANTS
  Uuid = {r, a}
  Root = r
  Null = null
  ValueAttr = {}
  PointerAttr = {ptr}
  Value = {v0}
  Zero = v0
  Malformed = {}
  MaxUndo = 1
  MaxEdits = 3
  MayDangle = TRUE
  MayRedo = TRUE

INVARIANTS
  AssertionsHold
  ListsMatchStore

PROPERTIES
  ImplementsCoreStorage
  TransactionsAreAtomic
  OnlyDeletionDangles

CHECK_DEADLOCK FALSE
