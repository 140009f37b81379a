SPECIFICATION Spec

CONSTANTS
  Uuid = {r, a}
  Root = r
  Null = null
  ValueAttr = {val}
  PointerAttr = {}
  Value = {v0, v1}
  Zero = v0
  Malformed = {}
  MaxUndo = 2
  MaxEdits = 2
  MayDangle = FALSE
  MayRedo = TRUE

INVARIANTS
  JournalBounded

PROPERTIES
  ImplementsCoreStorage
