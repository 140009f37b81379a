SPECIFICATION MetaSpec

CONSTANTS
  Uuid = {r, a, b}
  Root = r
  Null = null
  ValueAttr = {name}
  PointerAttr = {parent}
  DictionaryAttr = {}
  Value = {v0, v1}
  Zero = v0
  Malformed = {}
  Key = {k}
  MaxDepth = 2
  MaxValues = 2
  Habits = {}

INVARIANTS
  MetaTypeOK
  Balanced
  ContainmentTree

PROPERTIES
  ImplementsMetamodel
  

CHECK_DEADLOCK FALSE
