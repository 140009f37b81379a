SPECIFICATION Spec

CONSTANTS
  Uuid = {r, a}
  Root = r
  Null = null
  ValueAttr = {}
  PointerAttr = {ptr}
  DictionaryAttr = {}
  Value = {v0, v1}
  Zero = v0
  Malformed = {}
  Key = {k}
  MaxDepth = 3
  MaxValues = 3
  Habits = {}

INVARIANTS
  TypeOK
  NeverDies
  PointersResolve

PROPERTIES
  ImplementsNestedTransactions

CHECK_DEADLOCK FALSE
