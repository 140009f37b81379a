SPECIFICATION Spec

CONSTANTS
  Uuid = {r, a}
  Root = r
  Null = null
  ValueAttr = {name}
  PointerAttr = {}
  DictionaryAttr = {reg}
  Value = {v0, v1}
  Zero = v0
  Malformed = {v1}
  Key = {k}
  MaxDepth = 2
  MaxValues = 3
  Habits = {"deletes", "drops", "revives", "guesses", "repeats", "leaves"}

INVARIANTS
  EntriesHaveValues
  LoadedIsStored

CHECK_DEADLOCK FALSE
