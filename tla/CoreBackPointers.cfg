SPECIFICATION Spec

CONSTANTS
  Uuid = {r, a}
  Root = r
  Null = null
  ValueAttr = {}
  PointerAttr = {ptr}
  DictionaryAttr = {}
  Value = {v0, v1}
  Zero = v0
  Malformed = {}
  Key = {k}
  MaxDepth = 1
  MaxValues = 2
  Habits = {}

INVARIANTS
  CollectionsMatchPointers

CHECK_DEADLOCK FALSE
