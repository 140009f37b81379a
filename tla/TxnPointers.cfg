SPECIFICATION Spec

CONSTANTS
  Uuid = {r, a, b}
  Root = r
  Null = null
  ValueAttr = {}
  PointerAttr = {ptr}
  Value = {v0}
  Zero = v0
  Malformed = {}
  MaxUndo = 1
  MaxEdits = 2
  MayDangle = FALSE
  MayRedo = FALSE

SYMMETRY Symmetry

INVARIANTS
  TypeOK
  BackPointersMatch
  NeverDies
