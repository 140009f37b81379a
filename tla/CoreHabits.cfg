SPECIFICATION Spec

CONSTANTS
  Uuid = {r, a}
  Root = r
  Null = null
  ValueAttr = {}
  PointerAttr = {ptr}
  DictionaryAttr = {}
  Value = {v0, v1}
  Zero = v0
  Malformed = {}
  Key = {k}
  MaxDepth = 2
  MaxValues = 3
  Habits = {"deletes", "drops", "revives", "guesses", "reaches", "leaves", "assigns"}

INVARIANTS
  EntriesHaveValues
  StorageWaits
  ReadOnlyHasNoChanges

CHECK_DEADLOCK FALSE
